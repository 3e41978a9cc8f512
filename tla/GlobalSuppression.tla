-------------------------- MODULE GlobalSuppression --------------------------
(***************************************************************************)
(* Abstract: what may be kept from the global verifier. One key, all its   *)
(* events in order. An instance of the automaton runs for every way the    *)
(* locations of the invariant can be played by nodes; an event may be      *)
(* dropped only if every instance that had seen all events before takes a  *)
(* suppressible move on it.                                                *)
(***************************************************************************)
EXTENDS GenerateSFA

CONSTANTS Nodes

VARIABLES
  full,     \* binding -> state of the instance that saw every event
  seen,     \* binding -> state of the instance that saw the forwarded ones
  wanted,   \* the bindings the last event is an alert for
  raised    \* the bindings the global verifier raised an alert for

vars == <<full, seen, wanted, raised>>

Bindings == [Locations -> Nodes]

(* The locations node n plays.                                             *)
Roles(n, b) == {x \in Locations : b[x] = n}

(* The move of an instance in state s on an event of kind k at node n.     *)
Step(s, k, n, b) == MoveOn(s, <<k, Roles(n, b)>>)

TypeOK ==
  /\ full \in [Bindings -> States]
  /\ seen \in [Bindings -> States]
  /\ wanted \subseteq Bindings
  /\ raised \subseteq Bindings

Init ==
  /\ full = [b \in Bindings |-> Start]
  /\ seen = [b \in Bindings |-> Start]
  /\ wanted = {}
  /\ raised = {}

(* Every instance is given the event.                                      *)
Advance(states, k, n) == [b \in Bindings |-> Step(states[b], k, n, b).to]

Accepting(states) == {b \in Bindings : states[b] \in Finals}

Happen(k, n) ==
  /\ full' = Advance(full, k, n)
  /\ wanted' = Accepting(full')

Forward(k, n) ==
  /\ Happen(k, n)
  /\ seen' = Advance(seen, k, n)
  /\ raised' = Accepting(seen')

Drop(k, n) ==
  /\ \A b \in Bindings : Suppressible(Step(full[b], k, n, b))
  /\ Happen(k, n)
  /\ raised' = {}
  /\ UNCHANGED seen

Next == \E k \in Filter, n \in Nodes : Forward(k, n) \/ Drop(k, n)

Spec == Init /\ [][Next]_vars

-----------------------------------------------------------------------------
(* The alerts raised are the alerts of all events: what is suppressible    *)
(* by calculateSupressionGlobal never matters, dropped in any combination. *)
SameAlerts == raised = wanted

=============================================================================
