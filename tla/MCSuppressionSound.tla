-------------------------- MODULE MCSuppressionSound -------------------------
(* MCSuppression, and an invariant for which the hypothesis of the         *)
(* theorems of SuppressionProofs holds: Opening, with three nodes.         *)
EXTENDS MCSuppression

Opening == INSTANCE Suppression
  WITH States <- 0 .. 3, Finals <- {2}, Moves <- OpeningMoves, Nodes <- 1 .. 3

ASSUME OpeningIsSound == Opening!SoundlyCompiled

=============================================================================
