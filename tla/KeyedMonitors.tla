---------------------------- MODULE KeyedMonitors ----------------------------
(***************************************************************************)
(* Abstract: what the verifiers promise together. Each key of an invariant *)
(* has a monitor of its own, fed with what the nodes forward for that key: *)
(* the packets of a node in the node's order, each once, and nothing else. *)
(* A rerun starts every monitor again.                                     *)
(***************************************************************************)
EXTENDS Naturals, Sequences

CONSTANTS
  Nodes, Monitors,  \* Monitors: pairs of an invariant and a key
  Kinds, MonitorStates,
  StartOf,          \* monitor -> its start state
  FinalsOf,         \* monitor -> the states that raise an alert
  Goes(_, _, _)     \* monitor, state, kind: the states the move may lead to

VARIABLES
  forwarded,  \* node -> monitor -> the kinds forwarded so far
  taken,      \* node -> monitor -> how many of them the monitor was given
  current,    \* monitor -> its state
  raised      \* monitor -> how many alerts it has raised

monitorVars == <<forwarded, taken, current, raised>>

NoneTaken == [n \in Nodes |-> [m \in Monitors |-> 0]]

Start ==
  /\ taken = NoneTaken
  /\ current = StartOf
  /\ raised = [m \in Monitors |-> 0]

Init == Start /\ forwarded = [n \in Nodes |-> [m \in Monitors |-> <<>>]]

(* A packet of node n is forwarded, to one monitor of each of some         *)
(* invariants.                                                             *)
Forward(n, kind) ==
  /\ UNCHANGED <<taken, current, raised>>
  /\ \A o \in Nodes \ {n} : forwarded'[o] = forwarded[o]
  /\ LET fed == {m \in Monitors : forwarded'[n][m] # forwarded[n][m]}
     IN /\ \A m \in fed : forwarded'[n][m] = Append(forwarded[n][m], kind)
        /\ \A m1, m2 \in fed : m1[1] = m2[1] => m1 = m2

Take(n, m) ==
  /\ taken[n][m] < Len(forwarded[n][m])
  /\ taken' = [taken EXCEPT ![n][m] = @ + 1]
  /\ \E s \in Goes(m, current[m], forwarded[n][m][taken[n][m] + 1]) :
       /\ current' = [current EXCEPT ![m] = s]
       /\ raised' = [raised EXCEPT ![m] = IF s \in FinalsOf[m] THEN @ + 1 ELSE @]
  /\ UNCHANGED forwarded

Rerun ==
  /\ taken' = NoneTaken
  /\ current' = StartOf
  /\ raised' = [m \in Monitors |-> 0]
  /\ UNCHANGED forwarded

Next ==
  \/ \E n \in Nodes, kind \in Kinds : Forward(n, kind)
  \/ \E n \in Nodes, m \in Monitors : Take(n, m)
  \/ Rerun

Spec == Init /\ [][Next]_monitorVars

=============================================================================
