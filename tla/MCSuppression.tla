---------------------------- MODULE MCSuppression ----------------------------
(* Suppression on the automata of SampleAutomata.                          *)
EXTENDS Suppression, SampleAutomata

=============================================================================
