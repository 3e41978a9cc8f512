--------------------------- MODULE MCGuardBuilder ---------------------------
(* Two comparisons of which every combination occurs.                      *)
EXTENDS GuardBuilder, TLC

CONSTANTS eq1, eq2

MCHolds == (eq1 :> {1, 2}) @@ (eq2 :> {1, 3})

=============================================================================
