------------------------------ MODULE MCSingle ------------------------------
(***************************************************************************)
(* An invariant without variables: alert when a close directly follows an  *)
(* open. The order of the packets decides, so a reordering shows.          *)
(***************************************************************************)
EXTENDS GlobalSFAProcessor, TLC

CONSTANTS open, close, other, noise, v1

MCKinds == {open, close, other, noise}

Goto(kinds, state) ==
  [when |-> kinds \X BOOLEAN, compares |-> {}, to |-> state, suppress |-> FALSE]

(* No move for a close in 2: the processor fails there.                    *)
MCMoves ==
  (0 :> <<Goto({open}, 1), Goto({close, other}, 0)>>) @@
  (1 :> <<Goto({close}, 2), Goto({other}, 0), Goto({open}, 1)>>) @@
  (2 :> <<Goto({other}, 0), Goto({open}, 1)>>)

=============================================================================
