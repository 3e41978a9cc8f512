--------------------------- MODULE SampleAutomata ---------------------------
(***************************************************************************)
(* Global automata, minimal, as compiled from                              *)
(*   Relay    : (. @ ANY)* (a or d) @ NOT X  (c @ ANY)*                    *)
(*              (a or b) @ X  (b or d) @ ANY                               *)
(*   Handover : (. @ ANY)* a @ NOT X  (b @ X)*  c @ X                      *)
(*   Opening  : a @ ANY  ((a or b) @ ANY | c @ X)*  c @ X                  *)
(***************************************************************************)
EXTENDS GenerateSFA

CONSTANTS a, b, c, d, x

Any(kinds) == kinds \X SUBSET Locations
At(kinds) == kinds \X {S \in SUBSET Locations : x \in S}
NotAt(kinds) == kinds \X {S \in SUBSET Locations : x \notin S}

Go(from, to, guard) == [from |-> from, to |-> to, guard |-> guard]

(* 1: an a or d outside X and only c since; 2: then an a or b at X; 3 and  *)
(* 4: accepting, 4 if the last event may be a first one as well.           *)
RelayMoves ==
  {Go(s, 1, NotAt({a, d})) : s \in {0, 3}} \cup
  {Go(s, 0, At({a, d}) \cup Any({b, c})) : s \in {0, 3}} \cup
  {Go(s, 2, At({a, b})) : s \in {1, 4}} \cup
  {Go(s, 1, NotAt({a, d}) \cup Any({c})) : s \in {1, 4}} \cup
  {Go(s, 0, NotAt({b}) \cup At({d})) : s \in {1, 4}} \cup
  {Go(2, 0, At({a}) \cup Any({c})), Go(2, 1, NotAt({a})),
   Go(2, 3, Any({b}) \cup At({d})), Go(2, 4, NotAt({d}))}

(* 1: an a outside X and only b at X since; 2: accepting.                  *)
HandoverMoves ==
  {Go(0, 1, NotAt({a})), Go(0, 0, At({a}) \cup Any({b, c})),
   Go(1, 1, NotAt({a}) \cup At({b})), Go(1, 2, At({c})),
   Go(1, 0, At({a}) \cup NotAt({b, c})),
   Go(2, 1, NotAt({a})), Go(2, 0, At({a}) \cup Any({b, c}))}

(* 1: an a first, and nothing outside the star since; 2: accepting, the    *)
(* last event a c at X; 3: no alert any more.                              *)
OpeningMoves ==
  {Go(0, 1, Any({a})), Go(0, 3, Any({b, c, d})), Go(3, 3, Any(Kinds))} \cup
  {Go(s, 1, Any({a, b})) : s \in {1, 2}} \cup
  {Go(s, 2, At({c})) : s \in {1, 2}} \cup
  {Go(s, 3, NotAt({c}) \cup Any({d})) : s \in {1, 2}}

=============================================================================
