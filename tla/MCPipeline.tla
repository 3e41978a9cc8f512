----------------------------- MODULE MCPipeline -----------------------------
(***************************************************************************)
(* Two invariants. Lease groups by one field and has a local automaton,    *)
(* which suppresses a second use of a key and compares its variable on a   *)
(* second odd. Audit groups by two fields, has no local automaton and      *)
(* filters odd out. The keys 121 and 210 of Lease stand for values whose   *)
(* words have one hash, 31 * 1 + 31 = 31 * 2 + 0 (as the strings           *)
(* 10.10.15.21 and 10.10.95.19 have), on one channel; 3 is alone on the    *)
(* other.                                                                  *)
(***************************************************************************)
EXTENDS Pipeline, TLC

CONSTANTS lease, audit, n1, n2, use, clash, odd

K121 == <<<<1, 31>>>>
K210 == <<<<2, 0>>>>
K3 == <<<<3>>>>
Pair == <<<<3>>, <<1, 31>>>>
Other == <<<<1, 31>>, <<3>>>>

MCKeys == {K121, K210, K3, Pair, Other}

MCFilter == (lease :> {use, clash, odd}) @@ (audit :> {use, clash})

MCKeyOf ==
  (lease :> ((use :> K3) @@ (clash :> K121) @@ (odd :> K210))) @@
  (audit :> ((use :> Pair) @@ (clash :> Other) @@ (odd :> Other)))

MCStringHash == (K121 :> 4) @@ (K210 :> 6) @@ (K3 :> 9) @@ (Pair :> 3) @@ (Other :> 5)

Goto(when, reads, to, suppress) ==
  [when |-> when, reads |-> reads, to |-> to, suppress |-> suppress]

LeaseLocal ==
  [start |-> 0,
   moves |-> (0 :> <<Goto({use, clash, odd}, {}, 1, FALSE)>>) @@
             (1 :> <<Goto({use}, {odd}, 1, TRUE), Goto({clash}, {}, 0, FALSE)>>)]

MCLocals == (lease :> <<LeaseLocal>>) @@ (audit :> <<>>)

MCNegated == (lease :> {use, clash, odd}) @@ (audit :> {})

(* Lease alerts on a second odd, and no move matches a clash after an odd, *)
(* which only a collision brings together; Audit alerts on a second use.   *)
LeaseMoves ==
  (0 :> ((use :> {1}) @@ (clash :> {0}) @@ (odd :> {1}))) @@
  (1 :> ((use :> {1}) @@ (clash :> {}) @@ (odd :> {2}))) @@
  (2 :> ((use :> {1}) @@ (clash :> {}) @@ (odd :> {2})))

AuditMoves ==
  (0 :> ((use :> {1}) @@ (clash :> {2}) @@ (odd :> {}))) @@
  (1 :> ((use :> {2}) @@ (clash :> {1}) @@ (odd :> {}))) @@
  (2 :> ((use :> {2}) @@ (clash :> {1}) @@ (odd :> {})))

MCGlobalMoves == (lease :> LeaseMoves) @@ (audit :> AuditMoves)

MCStart == (lease :> 0) @@ (audit :> 0)
MCFinals == (lease :> {2}) @@ (audit :> {2})

MCSees == (n1 :> {use, odd}) @@ (n2 :> {use, clash})
MCPackets == (n1 :> 2) @@ (n2 :> 1)

=============================================================================
