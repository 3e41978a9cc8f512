----------------------------- MODULE Suppression -----------------------------
(***************************************************************************)
(* Local suppression at work: the local verifiers of several nodes, each   *)
(* running every local automaton of the invariant on its own events of one *)
(* key, and the global verifier behind them, which gets what they forward. *)
(* Links are perfect here: what is forwarded arrives, in order.            *)
(***************************************************************************)
EXTENDS GenerateSFA

CONSTANTS Nodes

VARIABLES
  current,    \* node -> local automaton -> its state: currentStateMap
  forwarded,  \* whether the last event was forwarded
  full, seen, wanted, raised   \* of GlobalSuppression

vars == <<current, forwarded, full, seen, wanted, raised>>

Abstract == INSTANCE GlobalSuppression

TypeOK ==
  /\ current \in [Nodes -> [Automata -> SUBSET States]]
  /\ forwarded \in BOOLEAN
  /\ Abstract!TypeOK

(* Mutant: a new processor has no state yet.                               *)
MutantInit ==
  /\ current = [n \in Nodes |-> [a \in Automata |-> {-1}]]
  /\ forwarded = TRUE
  /\ Abstract!Init

Init ==
  /\ current = [n \in Nodes |-> [a \in Automata |-> LocalStart(a)]]
  /\ forwarded = TRUE
  /\ Abstract!Init

(* Mutant: one automaton is enough.                                        *)
MutantSuppressed(k, n) ==
  /\ \E a \in Automata : LocalFlag(current[n][a], k, a)
  /\ k \in NegatedLocation

(* processPacket: all automata agree, and so does negatedLocExpr.          *)
Suppressed(k, n) ==
  /\ Automata # {}
  /\ \A a \in Automata : LocalFlag(current[n][a], k, a)
  /\ k \in NegatedLocation

(* processElementSingle for each automaton in turn.                        *)
AdvanceLocal(k, n) ==
  current' = [current EXCEPT ![n] =
                [a \in Automata |-> LocalTarget(current[n][a], k, a)]]

Forward(k, n) ==
  /\ ~ Suppressed(k, n)
  /\ AdvanceLocal(k, n)
  /\ forwarded' = TRUE
  /\ Abstract!Forward(k, n)

Suppress(k, n) ==
  /\ Suppressed(k, n)
  /\ AdvanceLocal(k, n)
  /\ forwarded' = FALSE
  /\ Abstract!Happen(k, n)
  /\ raised' = {}
  /\ UNCHANGED seen

(* An event that FILTER rejects changes nothing and is not listed.         *)
Event(k, n) == Forward(k, n) \/ Suppress(k, n)

Next == \E k \in Filter, n \in Nodes : Event(k, n)

Spec == Init /\ [][Next]_vars

-----------------------------------------------------------------------------
(* The alerts raised from what the local verifiers forward are the alerts  *)
(* of all events.                                                          *)
SameAlerts == raised = wanted

(* The nodes drop only what the abstract specification allows.             *)
AbstractSpec == Abstract!Spec

(* The automaton of a location, at the node that plays it and no other     *)
(* location, always counts the state of that instance as possible: the     *)
(* epsilon moves make up for every event of the other nodes.               *)
LocationTracksInstance ==
  \A n \in Nodes, a \in Automata, b \in Abstract!Bindings :
    (~ a.opposite /\ Abstract!Roles(n, b) = {a.location})
      => full[b] \in current[n][a]

(* An event the local verifier of a node suppresses is one the instances   *)
(* in which the node plays exactly one location may miss.                  *)
LocationDropsAreSafe ==
  \A n \in Nodes, b \in Abstract!Bindings, k \in Filter :
    ((\E x \in Locations : Abstract!Roles(n, b) = {x}) /\ Suppressed(k, n))
      => Suppressible(Abstract!Step(full[b], k, n, b))

(* A suppressed event keeps every instance where it is, or moves it        *)
(* between equivalent states (GenerateSFA.java:275 and 281).               *)
OnlySuppressibleIsSuppressed ==
  \A n \in Nodes, b \in Abstract!Bindings, k \in Filter :
    Suppressed(k, n) => Suppressible(Abstract!Step(full[b], k, n, b))

-----------------------------------------------------------------------------
(* When the compiled automata of an invariant are sound. Both conditions   *)
(* are about the opposite automaton, which runs where the location is not: *)
(* each fails for some invariants the compiler accepts.                    *)

(* The events of a third node are made up for by epsilon moves, as those   *)
(* of the location are.                                                    *)
ThirdNodesAreSilent ==
  \/ \A l, m, n \in Nodes : l = m \/ l = n \/ m = n
  \/ \A a \in Automata, m \in Moves :
        a.opposite /\ m.from # m.to => <<m.from, m.to>> \in Silent(a)

(* The flag is computed for an event at the location; it must also be      *)
(* right for the same kind of event anywhere else.                         *)
OppositeFlagsAreRight ==
  \A a \in Automata, m \in Moves :
    (/\ a.opposite
     /\ Specified(m.guard, a) \cap Filter # {}
     /\ LocalSuppressible(m, a)) => Suppressible(m)

(* With two locations no automaton is right for a node that plays neither. *)
SoundlyCompiled ==
  /\ \A y, z \in Locations : y = z
  /\ ThirdNodesAreSilent
  /\ OppositeFlagsAreRight

=============================================================================
