------------------------------- MODULE MCTree -------------------------------
(* The global verifier with an automaton of TreeAutomata.                  *)
EXTENDS GlobalSFAProcessor, TreeAutomata

ASSUME BlockIpAssumption == Moves = BlockIpMoves => BindsFirst

=============================================================================
