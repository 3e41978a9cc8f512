---------------------------- MODULE MCJavaLocal ----------------------------
(***************************************************************************)
(* Lease as the automaton with a variable. The other one follows opens and *)
(* closes: it does not suppress a use with nothing open, and has no move   *)
(* for a third open. Events of kind close have a location that does not    *)
(* suppress; other is filtered out, and no automaton has a move for allow. *)
(***************************************************************************)
EXTENDS JavaLocal, TreeAutomata

MCKinds == LeaseKinds \cup {other, allow}
MCFilter == LeaseKinds \cup {allow}
MCNegated == {open, use}

MCPlainMoves ==
  (0 :> <<Goto(Both({open}), {}, 1, TRUE), Goto(Both({use}), {}, 0, FALSE),
          Goto(Both({close}), {}, 0, TRUE)>>) @@
  (1 :> <<Goto(Both({open}), {}, 2, TRUE), Goto(Both({use}), {}, 1, TRUE),
          Goto(Both({close}), {}, 0, TRUE)>>) @@
  (2 :> <<Goto(Both({use}), {}, 2, TRUE), Goto(Both({close}), {}, 0, TRUE)>>)

=============================================================================
