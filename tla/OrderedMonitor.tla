--------------------------- MODULE OrderedMonitor ---------------------------
(***************************************************************************)
(* What a global verifier promises for one key: every packet is consumed   *)
(* at most once, in timestamp order, by one instance of the automaton per  *)
(* value of the variable (and one for the values never named, Star), and a *)
(* packet raises an alert iff it takes some instance to a final state.     *)
(***************************************************************************)
EXTENDS DSFA

VARIABLES
  consumed,   \* the packets consumed so far, in order
  instances,  \* value -> the state of its instance
  alerts      \* the packets that raised an alert, in order

monitorVars == <<consumed, instances, alerts>>

Init ==
  /\ consumed = <<>>
  /\ instances = [v \in Tracked |-> StartState]
  /\ alerts = <<>>

InOrder(p) ==
  \A i \in DOMAIN consumed : consumed[i].id # p.id /\ consumed[i].time <= p.time

Consume(p) ==
  /\ InOrder(p)
  /\ consumed' = Append(consumed, p)
  /\ instances' = [v \in Tracked |-> Target(instances[v], p.kind, v = p.value)]
  /\ alerts' = IF \E v \in Tracked : instances'[v] \in FinalStates
               THEN Append(alerts, p) ELSE alerts

Next == \E p \in Packet : Consume(p)

Spec == Init /\ [][Next]_monitorVars

=============================================================================
