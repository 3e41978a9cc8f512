---------------------------- MODULE TreeAutomata ----------------------------
(***************************************************************************)
(* Automata with one variable. BlockIp is out/block_ip.sm.g, guard by      *)
(* guard: its variable $a is compared with srcIp, its group-by field, so a *)
(* key sees one value. Lease is an invariant of the same shape whose first *)
(* event does not mention the variable: open, then a use of $a, then a     *)
(* second use of $a with no close between them.                            *)
(***************************************************************************)
EXTENDS Naturals, TLC

CONSTANTS block, allow, new, other, open, use, close, v1, v2

Same(kind) == <<kind, TRUE>>
Differs(kind) == <<kind, FALSE>>
Both(kinds) == kinds \X BOOLEAN

Goto(when, compares, state, suppress) ==
  [when |-> when, compares |-> compares, to |-> state, suppress |-> suppress]

BlockIpKinds == {block, allow, new, other}

(* The value is read after event_type, except by the guards of state 1     *)
(* that start with a disjunction.                                          *)
BlockIpMoves ==
  LET notBlocked == Both({allow, new, other}) \cup {Differs(block)}
  IN (0 :> <<Goto(notBlocked, {block}, 0, TRUE),
             Goto({Same(block)}, {block}, 1, FALSE)>>) @@
     (1 :> <<Goto({Same(new)}, {block, new}, 2, FALSE),
             Goto(Both({allow}) \cup {Same(other)}, BlockIpKinds, 0, FALSE),
             Goto({Same(block), Differs(block), Differs(new), Differs(other)},
                  BlockIpKinds, 1, TRUE)>>) @@
     (2 :> <<Goto(notBlocked, {block}, 0, TRUE),
             Goto({Same(block)}, {block}, 1, FALSE)>>)

LeaseKinds == {open, use, close}

LeaseMoves ==
  (0 :> <<Goto(Both({use, close}), {}, 0, TRUE), Goto(Both({open}), {}, 1, FALSE)>>) @@
  (1 :> <<Goto(Both({close}), {}, 0, FALSE), Goto({Same(use)}, {use}, 2, FALSE),
          Goto(Both({open}) \cup {Differs(use)}, {use}, 1, TRUE)>>) @@
  (2 :> <<Goto(Both({close}), {}, 0, FALSE), Goto({Same(use)}, {use}, 3, FALSE),
          Goto(Both({open}) \cup {Differs(use)}, {use}, 2, TRUE)>>) @@
  (3 :> <<Goto(Both({close}), {}, 0, FALSE),
          Goto(Both({open, use}), {}, 3, FALSE)>>)

=============================================================================
