-------------------------- MODULE SuppressionProofs --------------------------
(***************************************************************************)
(* Proofs about Suppression, for every automaton and any number of nodes   *)
(* and locations.                                                          *)
(***************************************************************************)
EXTENDS Suppression, TLAPS

(* What the nodes other than the location may have seen is made up for.    *)
Closed(T, a) == \A p \in Silent(a) : p[1] \in T => p[2] \in T

(* LocationTracksInstance is kept by the events of the other nodes only    *)
(* because each set of states is closed.                                   *)
TrackingInv ==
  /\ TypeOK
  /\ \A n \in Nodes, a \in Automata : Closed(current[n][a], a)
  /\ LocationTracksInstance

-----------------------------------------------------------------------------
(* The move of a state and a letter is there and is the only one.          *)
LEMMA MoveOnIsThere ==
  ASSUME NEW s \in States, NEW l \in Letter
  PROVE  /\ MoveOn(s, l) \in MovesFrom(s)
         /\ MoveOn(s, l) \in Moves
         /\ l \in MoveOn(s, l).guard
         /\ \A n \in MovesFrom(s) : l \in n.guard => n = MoveOn(s, l)
         /\ MoveOn(s, l) \in Move
         /\ MoveOn(s, l).from = s
         /\ MoveOn(s, l).to \in States
<1>1. PICK m \in MovesFrom(s) :
        l \in m.guard /\ \A n \in MovesFrom(s) : l \in n.guard => n = m
  BY SFAAssumption
<1>2. MoveOn(s, l) = m
  BY <1>1 DEF MoveOn
<1>3. m \in Moves /\ m.from = s
  BY DEF MovesFrom
<1>4. m \in Move
  BY <1>3, SFAAssumption
<1>5. m.to \in States
  BY <1>4 DEF Move
<1> QED
  BY <1>1, <1>2, <1>3, <1>4, <1>5

(* Closure is a closure: it contains the set, and is closed.               *)
LEMMA ClosureIsClosed ==
  ASSUME NEW T \in SUBSET States, NEW a \in Automata
  PROVE  /\ Closure(T, a) \in SUBSET States
         /\ T \subseteq Closure(T, a)
         /\ Closed(Closure(T, a), a)
<1>1. Closure(T, a) \in SUBSET States /\ T \subseteq Closure(T, a)
  BY DEF Closure
<1>2. ASSUME NEW p \in Silent(a), p[1] \in Closure(T, a)
      PROVE  p[2] \in Closure(T, a)
  <2>1. PICK m \in Moves : p = <<m.from, m.to>>
    BY DEF Silent
  <2>2. m \in Move
    BY SFAAssumption
  <2>3. p[2] \in States
    BY <2>1, <2>2 DEF Move
  <2>4. ASSUME NEW U \in SUBSET States, T \subseteq U,
               \A q \in Silent(a) : q[1] \in U => q[2] \in U
        PROVE  p[2] \in U
    BY <1>2, <2>4 DEF Closure
  <2> QED
    BY <2>3, <2>4 DEF Closure
<1> QED
  BY <1>1, <1>2 DEF Closed

LEMMA LocalTargetType ==
  ASSUME NEW T, NEW k, NEW a \in Automata
  PROVE  /\ LocalTarget(T, k, a) \in SUBSET States
         /\ Closed(LocalTarget(T, k, a), a)
         /\ \A m \in LocalMoves(T, k, a) : m.to \in LocalTarget(T, k, a)
<1> DEFINE targets == {m.to : m \in LocalMoves(T, k, a)}
<1>1. \A m \in LocalMoves(T, k, a) : m \in Move
  BY SFAAssumption DEF LocalMoves
<1>2. targets \in SUBSET States
  BY <1>1 DEF Move
<1>3. LocalTarget(T, k, a) = Closure(targets, a)
  BY DEF LocalTarget
<1>4. \A m \in LocalMoves(T, k, a) : m.to \in targets
  OBVIOUS
<1> HIDE DEF targets
<1> QED
  BY <1>2, <1>3, <1>4, ClosureIsClosed

-----------------------------------------------------------------------------
(* GlobalSuppression runs the automaton of this specification.             *)
LEMMA AbstractStep ==
  ASSUME NEW s, NEW k, NEW n, NEW b
  PROVE  Abstract!Step(s, k, n, b) = MoveOn(s, <<k, Abstract!Roles(n, b)>>)
BY DEF Abstract!Step, Abstract!MoveOn, MoveOn, Abstract!MovesFrom, MovesFrom

LEMMA AdvanceType ==
  ASSUME NEW states \in [Abstract!Bindings -> States],
         NEW k \in Filter, NEW n \in Nodes
  PROVE  Abstract!Advance(states, k, n) \in [Abstract!Bindings -> States]
<1> SUFFICES ASSUME NEW b \in Abstract!Bindings
             PROVE  Abstract!Step(states[b], k, n, b).to \in States
  BY DEF Abstract!Advance
<1>1. <<k, Abstract!Roles(n, b)>> \in Letter
  BY SFAAssumption DEF Letter, Abstract!Roles
<1> QED
  BY <1>1, MoveOnIsThere, AbstractStep

(* At the node that plays the location the automaton has the move that the *)
(* instance takes.                                                         *)
LEMMA OwnMove ==
  ASSUME NEW s \in States, NEW k \in Filter, NEW n \in Nodes,
         NEW b \in Abstract!Bindings, NEW a \in Automata, NEW T \in SUBSET States,
         ~ a.opposite, Abstract!Roles(n, b) = {a.location}, s \in T
  PROVE  /\ Abstract!Step(s, k, n, b) \in LocalMoves(T, k, a)
         /\ Abstract!Step(s, k, n, b).from = s
         /\ <<k, {a.location}>> \in Abstract!Step(s, k, n, b).guard
<1>1. k \in Kinds /\ a.location \in Locations
  BY SFAAssumption DEF Automata
<1>2. <<k, {a.location}>> \in Letter
  BY <1>1 DEF Letter
<1> DEFINE m == MoveOn(s, <<k, {a.location}>>)
<1>3. m \in Moves /\ m.from = s /\ <<k, {a.location}>> \in m.guard
  BY <1>2, MoveOnIsThere
<1>4. k \in Specified(m.guard, a)
  BY <1>1, <1>3 DEF Specified, Holding
<1>5. Abstract!Step(s, k, n, b) = m
  BY AbstractStep
<1> HIDE DEF m
<1> QED
  BY <1>3, <1>4, <1>5 DEF LocalMoves

(* At any other node it has a silent move for it.                          *)
LEMMA OthersMove ==
  ASSUME NEW s \in States, NEW k \in Filter, NEW n \in Nodes,
         NEW b \in Abstract!Bindings, NEW a \in Automata,
         ~ a.opposite, a.location \notin Abstract!Roles(n, b)
  PROVE  <<s, Abstract!Step(s, k, n, b).to>> \in Silent(a)
<1> DEFINE l == <<k, Abstract!Roles(n, b)>>
           m == MoveOn(s, l)
<1>1. k \in Kinds /\ Abstract!Roles(n, b) \in SUBSET Locations
  BY SFAAssumption DEF Abstract!Roles
<1>2. l \in Letter
  BY <1>1 DEF Letter
<1>3. m \in Moves /\ l \in m.guard /\ m.from = s
  BY <1>2, MoveOnIsThere
<1>4. l[1] \in Filter /\ ~ ((a.location \in l[2]) # a.opposite)
  <2>1. a.opposite \in BOOLEAN
    BY DEF Automata
  <2>2. (a.location \in l[2]) <=> FALSE
    OBVIOUS
  <2> QED
    BY <2>1, <2>2
<1>5. ~ LocalPresent(m.guard, a)
  <2> HIDE DEF l, m
  <2> QED
    BY <1>3, <1>4 DEF LocalPresent
<1>6. Abstract!Step(s, k, n, b) = m
  BY AbstractStep
<1> HIDE DEF l, m
<1> QED
  BY <1>3, <1>5, <1>6 DEF Silent

-----------------------------------------------------------------------------
LEMMA InitInv == Init => TrackingInv
<1> SUFFICES ASSUME Init PROVE TrackingInv
  OBVIOUS
<1>1. {Start} \in SUBSET States
  BY SFAAssumption
<1>2. \A a \in Automata : /\ LocalStart(a) \in SUBSET States
                          /\ Start \in LocalStart(a)
                          /\ Closed(LocalStart(a), a)
  BY <1>1, ClosureIsClosed DEF LocalStart
<1>3. /\ current = [n \in Nodes |-> [a \in Automata |-> LocalStart(a)]]
      /\ full = [b \in Abstract!Bindings |-> Start]
      /\ seen = [b \in Abstract!Bindings |-> Start]
      /\ wanted = {} /\ raised = {} /\ forwarded = TRUE
  BY DEF Init, Abstract!Init
<1>4. TypeOK
  BY <1>2, <1>3, SFAAssumption DEF TypeOK, Abstract!TypeOK
<1>5. \A n \in Nodes, a \in Automata : current[n][a] = LocalStart(a)
  BY <1>3
<1>6. \A b \in Abstract!Bindings : full[b] = Start
  BY <1>3
<1> QED
  BY <1>2, <1>4, <1>5, <1>6 DEF TrackingInv, LocationTracksInstance

LEMMA TypeStep ==
  ASSUME TypeOK, NEW k \in Filter, NEW n \in Nodes, Event(k, n)
  PROVE  TypeOK'
<1>1. /\ full' = Abstract!Advance(full, k, n)
      /\ seen' = seen \/ seen' = Abstract!Advance(seen, k, n)
      /\ wanted' = Abstract!Accepting(full')
      /\ raised' = {} \/ raised' = Abstract!Accepting(seen')
      /\ AdvanceLocal(k, n)
      /\ forwarded' \in BOOLEAN
  BY DEF Event, Forward, Suppress, Abstract!Forward, Abstract!Happen
<1>2. full' \in [Abstract!Bindings -> States]
  BY <1>1, AdvanceType DEF TypeOK, Abstract!TypeOK
<1>3. seen' \in [Abstract!Bindings -> States]
  BY <1>1, AdvanceType DEF TypeOK, Abstract!TypeOK
<1>4. wanted' \subseteq Abstract!Bindings /\ raised' \subseteq Abstract!Bindings
  BY <1>1 DEF Abstract!Accepting
<1>5. current' \in [Nodes -> [Automata -> SUBSET States]]
  <2>1. [a \in Automata |-> LocalTarget(current[n][a], k, a)]
          \in [Automata -> SUBSET States]
    BY LocalTargetType
  <2> QED
    BY <1>1, <2>1 DEF AdvanceLocal, TypeOK
<1> QED
  BY <1>1, <1>2, <1>3, <1>4, <1>5 DEF TypeOK, Abstract!TypeOK

(* The event of node n, at the node m that plays only the location of a.   *)
LEMMA TrackingStep ==
  ASSUME TrackingInv, NEW k \in Filter, NEW n \in Nodes,
         AdvanceLocal(k, n), full' = Abstract!Advance(full, k, n)
  PROVE  /\ \A m \in Nodes, a \in Automata : Closed(current'[m][a], a)
         /\ LocationTracksInstance'
<1>1. ASSUME NEW a \in Automata
      PROVE  current'[n][a] = LocalTarget(current[n][a], k, a)
  BY DEF AdvanceLocal, TrackingInv, TypeOK
<1>2. ASSUME NEW m \in Nodes, m # n
      PROVE  current'[m] = current[m]
  BY <1>2 DEF AdvanceLocal, TrackingInv, TypeOK
<1>3. ASSUME NEW m \in Nodes, NEW a \in Automata
      PROVE  Closed(current'[m][a], a)
  <2>1. CASE m = n
    BY <1>1, <2>1, LocalTargetType
  <2>2. CASE m # n
    BY <1>2, <2>2 DEF TrackingInv
  <2> QED
    BY <2>1, <2>2
<1>4. ASSUME NEW m \in Nodes, NEW a \in Automata, NEW b \in Abstract!Bindings,
             ~ a.opposite, Abstract!Roles(m, b) = {a.location}
      PROVE  full'[b] \in current'[m][a]
  <2> DEFINE to == Abstract!Step(full[b], k, n, b).to
  <2>1. full'[b] = to
    BY DEF Abstract!Advance
  <2>2. full[b] \in current[m][a] /\ full[b] \in States
        /\ current[m][a] \in SUBSET States
    BY <1>4 DEF TrackingInv, TypeOK, Abstract!TypeOK, LocationTracksInstance
  <2>3. CASE m = n
    <3>1. Abstract!Step(full[b], k, n, b) \in LocalMoves(current[n][a], k, a)
      BY <1>4, <2>2, <2>3, OwnMove
    <3>2. to \in LocalTarget(current[n][a], k, a)
      BY <3>1, LocalTargetType
    <3> QED
      BY <1>1, <2>1, <2>3, <3>2
  <2>4. CASE m # n
    <3>1. a.location \notin Abstract!Roles(n, b)
      BY <1>4, <2>4 DEF Abstract!Roles
    <3>2. <<full[b], to>> \in Silent(a)
      BY <1>4, <2>2, <3>1, OthersMove
    <3>3. Closed(current[m][a], a)
      BY DEF TrackingInv
    <3>4. to \in current[m][a]
      <4> HIDE DEF to
      <4> QED
        BY <2>2, <3>2, <3>3 DEF Closed
    <3> QED
      BY <1>2, <2>1, <2>4, <3>4
  <2> QED
    BY <2>3, <2>4
<1>5. LocationTracksInstance'
  BY <1>4 DEF LocationTracksInstance, Abstract!Roles
<1> QED
  BY <1>3, <1>5

LEMMA StepInv == TrackingInv /\ [Next]_vars => TrackingInv'
<1> SUFFICES ASSUME TrackingInv, [Next]_vars PROVE TrackingInv'
  OBVIOUS
<1>1. CASE Next
  <2>1. PICK k \in Filter, n \in Nodes : Event(k, n)
    BY <1>1 DEF Next
  <2>2. TypeOK'
    BY <2>1, TypeStep DEF TrackingInv
  <2>3. AdvanceLocal(k, n) /\ full' = Abstract!Advance(full, k, n)
    BY <2>1 DEF Event, Forward, Suppress, Abstract!Forward, Abstract!Happen
  <2> QED
    BY <2>2, <2>3, TrackingStep DEF TrackingInv
<1>2. CASE UNCHANGED vars
  BY <1>2 DEF vars, TrackingInv, TypeOK, Abstract!TypeOK, LocationTracksInstance
<1> QED
  BY <1>1, <1>2

LEMMA InvHolds == Spec => []TrackingInv
BY InitInv, StepInv, PTL DEF Spec

-----------------------------------------------------------------------------
(* The local automata of a node never leave the subsets of the global      *)
(* states, and every binding has an instance (currentStateMap).            *)
THEOREM SuppressionTyping == Spec => []TypeOK
<1>1. TrackingInv => TypeOK
  BY DEF TrackingInv
<1> QED
  BY <1>1, InvHolds, PTL

(* The automaton of a location, at the node that plays only that location, *)
(* never rules out where the instance is, whatever the other nodes do      *)
(* (GenerateLocalSFA's epsilon moves).                                     *)
THEOREM LocationTracks == Spec => []LocationTracksInstance
<1>1. TrackingInv => LocationTracksInstance
  BY DEF TrackingInv
<1> QED
  BY <1>1, InvHolds, PTL

(* The move of the instance is one of those the flag stands for.          *)
LEMMA TrackingDrops == TrackingInv => LocationDropsAreSafe
<1> SUFFICES ASSUME TrackingInv, NEW n \in Nodes, NEW b \in Abstract!Bindings,
                    NEW k \in Filter, NEW x \in Locations,
                    Abstract!Roles(n, b) = {x}, Suppressed(k, n)
             PROVE  Suppressible(Abstract!Step(full[b], k, n, b))
  BY DEF LocationDropsAreSafe
<1> DEFINE a == [location |-> x, opposite |-> FALSE]
           m == Abstract!Step(full[b], k, n, b)
<1>1. a \in Automata /\ ~ a.opposite /\ a.location = x
  BY DEF Automata
<1> HIDE DEF a
<1>2. /\ full[b] \in States
      /\ full[b] \in current[n][a]
      /\ current[n][a] \in SUBSET States
  BY <1>1 DEF TrackingInv, TypeOK, Abstract!TypeOK, LocationTracksInstance
<1>3. m \in LocalMoves(current[n][a], k, a) /\ <<k, {x}>> \in m.guard
      /\ m.from = full[b]
  BY <1>1, <1>2, OwnMove
<1> HIDE DEF m
<1>4. LocalSuppressible(m, a)
  BY <1>1, <1>3 DEF Suppressed, LocalFlag
<1>5. m \in MovesFrom(m.from) /\ k \in Specified(m.guard, a)
  BY <1>3 DEF LocalMoves, MovesFrom
<1>6. ~ \A l \in m.guard : l[1] \in Specified(m.guard, a) => a.location \notin l[2]
  <2> DEFINE l == <<k, {x}>>
  <2>1. l \in m.guard /\ l[1] \in Specified(m.guard, a) /\ a.location \in l[2]
    BY <1>1, <1>3, <1>5
  <2> HIDE DEF l
  <2> QED
    BY <2>1
<1>7. Suppressible(m)
  BY <1>4, <1>5, <1>6 DEF LocalSuppressible
<1> QED
  BY <1>7 DEF m

(* What a local verifier suppresses cannot matter to an instance in which  *)
(* its node plays exactly one location: setSupressionLocal is right about  *)
(* the automaton of the location.                                          *)
THEOREM LocationDrops == Spec => []LocationDropsAreSafe
BY TrackingDrops, InvHolds, PTL

-----------------------------------------------------------------------------
LEMMA AbstractSuppressible ==
  ASSUME NEW m
  PROVE  Abstract!Suppressible(m) <=> Suppressible(m)
<1>1. \A S : Abstract!Cardinality(S) = Cardinality(S)
  BY DEF Abstract!Cardinality, Cardinality
<1>2. \A s, t : Abstract!SameExits(s, t) <=> SameExits(s, t)
  <2>1. \A s : Abstract!MovesFrom(s) = MovesFrom(s)
    BY DEF Abstract!MovesFrom, MovesFrom
  <2> QED
    BY <1>1, <2>1 DEF Abstract!SameExits, SameExits
<1>3. \A s, t : Abstract!Equivalent(s, t) <=> Equivalent(s, t)
  BY <1>2 DEF Abstract!Equivalent, Equivalent
<1> QED
  BY <1>3 DEF Abstract!Suppressible, Suppressible

-----------------------------------------------------------------------------
(* What a dropped event does to the alerts                                 *)

(* Two states no further event tells apart.                                *)
SameTargets(s, t) == \A l \in Letter : MoveOn(s, l).to = MoveOn(t, l).to

(* The instance that missed dropped events is not where the other one is,  *)
(* but every event takes the two to the same state. Being Equivalent would *)
(* not do: it is lost when two events are dropped.                         *)
SuppressionInv ==
  /\ Abstract!TypeOK
  /\ \A b \in Abstract!Bindings : SameTargets(seen[b], full[b])
  /\ Abstract!SameAlerts

(* One direction of the comparison is enough, the automaton being          *)
(* deterministic.                                                          *)
LEMMA SameExitsSameTargets ==
  ASSUME NEW s \in States, NEW t \in States, SameExits(s, t)
  PROVE  SameTargets(s, t)
<1> SUFFICES ASSUME NEW l \in Letter
             PROVE  MoveOn(s, l).to = MoveOn(t, l).to
  BY DEF SameTargets
<1>1. MoveOn(s, l) \in MovesFrom(s) /\ l \in MoveOn(s, l).guard
  BY MoveOnIsThere
<1>2. PICK n \in MovesFrom(t) : MoveOn(s, l).to = n.to /\ MoveOn(s, l).guard = n.guard
  BY <1>1 DEF SameExits
<1>3. n = MoveOn(t, l)
  BY <1>1, <1>2, MoveOnIsThere
<1> QED
  BY <1>2, <1>3

(* What calculateSupressionGlobal marks: the move stays short of the       *)
(* accepting states, and no event tells its ends apart.                    *)
THEOREM SuppressibleIsHarmless ==
  ASSUME NEW m \in Moves, Suppressible(m)
  PROVE  m.to \notin Finals /\ SameTargets(m.from, m.to)
<1>1. m.to \notin Finals /\ (m.from = m.to \/ Equivalent(m.from, m.to))
  BY DEF Suppressible
<1>2. m.from \in States /\ m.to \in States
  <2>1. m \in Move
    BY SFAAssumption
  <2> QED
    BY <2>1 DEF Move
<1>3. CASE m.from = m.to
  BY <1>1, <1>3 DEF SameTargets
<1>4. CASE Equivalent(m.from, m.to)
  <2>1. SameExits(m.from, m.to) \/ SameExits(m.to, m.from)
    BY <1>4 DEF Equivalent
  <2>2. SameTargets(m.from, m.to) \/ SameTargets(m.to, m.from)
    BY <1>2, <2>1, SameExitsSameTargets
  <2>3. SameTargets(m.to, m.from) => SameTargets(m.from, m.to)
    BY DEF SameTargets
  <2> QED
    BY <1>1, <2>2, <2>3
<1> QED
  BY <1>1, <1>3, <1>4

(* A suppressible move of the abstract instance is one of the automaton.   *)
LEMMA AbstractStepType ==
  ASSUME NEW s \in States, NEW k \in Filter, NEW n \in Nodes, NEW b \in Abstract!Bindings
  PROVE  /\ <<k, Abstract!Roles(n, b)>> \in Letter
         /\ Abstract!Step(s, k, n, b) = MoveOn(s, <<k, Abstract!Roles(n, b)>>)
         /\ Abstract!Step(s, k, n, b) \in Moves
         /\ Abstract!Step(s, k, n, b).from = s
<1>1. <<k, Abstract!Roles(n, b)>> \in Letter
  BY SFAAssumption DEF Letter, Abstract!Roles
<1> QED
  BY <1>1, MoveOnIsThere, AbstractStep

LEMMA AbstractInitInv == Abstract!Init => SuppressionInv
<1> SUFFICES ASSUME Abstract!Init PROVE SuppressionInv
  OBVIOUS
<1>1. Abstract!TypeOK
  BY SFAAssumption DEF Abstract!Init, Abstract!TypeOK
<1>2. \A b \in Abstract!Bindings : SameTargets(seen[b], full[b])
  BY DEF Abstract!Init, SameTargets
<1> QED
  BY <1>1, <1>2 DEF Abstract!Init, SuppressionInv, Abstract!SameAlerts

(* After a forwarded event the two instances are in the same state.        *)
LEMMA AbstractForwardInv ==
  ASSUME SuppressionInv, NEW k \in Filter, NEW n \in Nodes, Abstract!Forward(k, n)
  PROVE  SuppressionInv'
<1> USE DEF SuppressionInv, Abstract!TypeOK
<1>1. full' = Abstract!Advance(full, k, n) /\ seen' = Abstract!Advance(seen, k, n)
  BY DEF Abstract!Forward, Abstract!Happen
<1>2. full' \in [Abstract!Bindings -> States] /\ seen' \in [Abstract!Bindings -> States]
  BY <1>1, AdvanceType
<1>3. \A b \in Abstract!Bindings :
        Abstract!Step(seen[b], k, n, b).to = Abstract!Step(full[b], k, n, b).to
  <2> TAKE b \in Abstract!Bindings
  <2>1. <<k, Abstract!Roles(n, b)>> \in Letter
    BY AbstractStepType
  <2> QED
    BY <2>1, AbstractStepType DEF SameTargets
<1>4. seen' = full'
  BY <1>1, <1>3 DEF Abstract!Advance
<1>5. raised' = wanted' /\ wanted' \subseteq Abstract!Bindings
  BY <1>4 DEF Abstract!Forward, Abstract!Happen, Abstract!Accepting
<1> QED
  BY <1>2, <1>4, <1>5 DEF SameTargets, Abstract!SameAlerts

(* After a dropped event no further event tells them apart, and neither    *)
(* accepts.                                                                *)
LEMMA AbstractDropInv ==
  ASSUME SuppressionInv, NEW k \in Filter, NEW n \in Nodes, Abstract!Drop(k, n)
  PROVE  SuppressionInv'
<1> USE DEF SuppressionInv, Abstract!TypeOK
<1>1. full' = Abstract!Advance(full, k, n) /\ seen' = seen /\ raised' = {}
      /\ wanted' = Abstract!Accepting(full')
  BY DEF Abstract!Drop, Abstract!Happen
<1>2. full' \in [Abstract!Bindings -> States]
  BY <1>1, AdvanceType
<1>3. \A b \in Abstract!Bindings : full'[b] \notin Finals /\ SameTargets(full[b], full'[b])
  <2> TAKE b \in Abstract!Bindings
  <2>1. /\ Abstract!Step(full[b], k, n, b) \in Moves
        /\ Abstract!Step(full[b], k, n, b).from = full[b]
    BY AbstractStepType
  <2>2. Suppressible(Abstract!Step(full[b], k, n, b))
    BY AbstractSuppressible DEF Abstract!Drop
  <2>3. full'[b] = Abstract!Step(full[b], k, n, b).to
    BY <1>1 DEF Abstract!Advance
  <2> QED
    BY <2>1, <2>2, <2>3, SuppressibleIsHarmless
<1>4. \A b \in Abstract!Bindings : SameTargets(seen'[b], full'[b])
  BY <1>1, <1>3 DEF SameTargets
<1>5. wanted' = {}
  BY <1>1, <1>3 DEF Abstract!Accepting
<1> QED
  BY <1>1, <1>2, <1>4, <1>5 DEF Abstract!SameAlerts

LEMMA AbstractStepInv == SuppressionInv /\ [Abstract!Next]_(Abstract!vars) => SuppressionInv'
<1> SUFFICES ASSUME SuppressionInv, [Abstract!Next]_(Abstract!vars) PROVE SuppressionInv'
  OBVIOUS
<1>1. CASE Abstract!Next
  BY <1>1, AbstractForwardInv, AbstractDropInv DEF Abstract!Next
<1>2. CASE UNCHANGED Abstract!vars
  BY <1>2 DEF Abstract!vars, SuppressionInv, Abstract!TypeOK, SameTargets, Abstract!SameAlerts
<1> QED
  BY <1>1, <1>2

LEMMA AbstractInvHolds == Abstract!Spec => []SuppressionInv
BY AbstractInitInv, AbstractStepInv, PTL DEF Abstract!Spec

(* Dropping what is suppressible, in any combination and any number of     *)
(* times, changes no alert: what the flags that calculateSupressionGlobal  *)
(* computes are worth for any automaton.                                   *)
THEOREM DropsKeepAlerts == Abstract!Spec => []Abstract!SameAlerts
<1>1. SuppressionInv => Abstract!SameAlerts
  BY DEF SuppressionInv
<1> QED
  BY <1>1, AbstractInvHolds, PTL

-----------------------------------------------------------------------------
(* A sound compilation                                                     *)

(* What it adds to TrackingInv: the opposite automaton counts the state of *)
(* every instance in which its node plays no location as possible.         *)
OppositeTracks ==
  \A n \in Nodes, a \in Automata, b \in Abstract!Bindings :
    (a.opposite /\ Abstract!Roles(n, b) = {}) => full[b] \in current[n][a]

SoundInv ==
  /\ SoundlyCompiled
  /\ TrackingInv
  /\ OppositeTracks

(* There is one location at most, so a node plays it or plays none.        *)
LEMMA OneRole ==
  ASSUME SoundlyCompiled, NEW n \in Nodes, NEW b \in Abstract!Bindings,
         Abstract!Roles(n, b) # {}
  PROVE  \E y \in Locations : Abstract!Roles(n, b) = {y}
<1>1. PICK y \in Locations : y \in Abstract!Roles(n, b)
  BY DEF Abstract!Roles
<1>2. \A z \in Locations : z = y
  BY DEF SoundlyCompiled
<1>3. Abstract!Roles(n, b) \subseteq Locations
  BY DEF Abstract!Roles
<1> QED
  BY <1>1, <1>2, <1>3

(* The opposite automaton has the move of an event at its own node.        *)
LEMMA OppositeOwnMove ==
  ASSUME SoundlyCompiled,
         NEW s \in States, NEW k \in Filter, NEW n \in Nodes,
         NEW b \in Abstract!Bindings, NEW a \in Automata, NEW T \in SUBSET States,
         a.opposite, Abstract!Roles(n, b) = {}, s \in T
  PROVE  /\ Abstract!Step(s, k, n, b) \in LocalMoves(T, k, a)
         /\ k \in Specified(Abstract!Step(s, k, n, b).guard, a)
<1> DEFINE m == Abstract!Step(s, k, n, b)
<1>1. m \in Moves /\ m.from = s /\ m = MoveOn(s, <<k, {}>>) /\ <<k, {}>> \in Letter
  BY AbstractStepType
<1>2. <<k, {}>> \in m.guard
  BY <1>1, MoveOnIsThere
<1>3. Holding(a) = {}
  <2>1. a.location \in Locations
    BY DEF Automata
  <2> QED
    BY <2>1 DEF SoundlyCompiled, Holding
<1>4. k \in Kinds
  BY SFAAssumption
<1> HIDE DEF m
<1>5. k \in Specified(m.guard, a)
  BY <1>2, <1>3, <1>4 DEF Specified
<1> QED
  BY <1>1, <1>5 DEF LocalMoves, m

(* An event of another node leaves the instance where it is or is made up  *)
(* for: the other node plays the location, or is a third node.             *)
LEMMA OppositeOthersMove ==
  ASSUME SoundlyCompiled,
         NEW s \in States, NEW k \in Filter, NEW n \in Nodes, NEW m \in Nodes, m # n,
         NEW b \in Abstract!Bindings, NEW a \in Automata,
         a.opposite, Abstract!Roles(m, b) = {}
  PROVE  \/ Abstract!Step(s, k, n, b).to = s
         \/ <<s, Abstract!Step(s, k, n, b).to>> \in Silent(a)
<1> DEFINE l == <<k, Abstract!Roles(n, b)>>
           move == Abstract!Step(s, k, n, b)
<1>1. move \in Moves /\ move.from = s /\ move = MoveOn(s, l) /\ l \in Letter
  BY AbstractStepType
<1>2. l \in move.guard
  <2> HIDE DEF l
  <2> QED
    BY <1>1, MoveOnIsThere
<1>3. a.location \in Locations /\ b[a.location] \in Nodes /\ b[a.location] # m
  <2>1. a.location \in Locations
    BY DEF Automata
  <2> QED
    BY <2>1 DEF Abstract!Bindings, Abstract!Roles
<1>4. CASE \A p, q, r \in Nodes : p = q \/ p = r \/ q = r
  <2>1. b[a.location] = n
    BY <1>3, <1>4
  <2>2. a.location \in l[2] /\ l[1] \in Filter
    BY <1>3, <2>1 DEF Abstract!Roles
  <2>3. ~ ((a.location \in l[2]) # a.opposite)
    <3>1. a.opposite \in BOOLEAN
      BY DEF Automata
    <3>2. (a.location \in l[2]) <=> TRUE
      BY <2>2
    <3> QED
      BY <3>1, <3>2
  <2> HIDE DEF l, move
  <2>4. ~ LocalPresent(move.guard, a)
    BY <1>2, <2>2, <2>3 DEF LocalPresent
  <2>5. <<s, move.to>> \in Silent(a)
    BY <1>1, <2>4 DEF Silent
  <2> QED
    BY <2>5 DEF move
<1>5. CASE \A c \in Automata, o \in Moves :
             c.opposite /\ o.from # o.to => <<o.from, o.to>> \in Silent(c)
  <2> HIDE DEF l, move
  <2>1. move.to = s \/ <<s, move.to>> \in Silent(a)
    BY <1>1, <1>5
  <2> QED
    BY <2>1 DEF move
<1> QED
  BY <1>4, <1>5 DEF SoundlyCompiled, ThirdNodesAreSilent

LEMMA SoundInit == SoundlyCompiled /\ Init => SoundInv
<1> SUFFICES ASSUME SoundlyCompiled, Init PROVE SoundInv
  OBVIOUS
<1>1. TrackingInv
  BY InitInv
<1>2. \A n \in Nodes, a \in Automata : current[n][a] = LocalStart(a)
  BY DEF Init
<1>3. \A b \in Abstract!Bindings : full[b] = Start
  BY DEF Init, Abstract!Init
<1>4. \A a \in Automata : Start \in LocalStart(a)
  <2>1. {Start} \in SUBSET States
    BY SFAAssumption
  <2> QED
    BY <2>1, ClosureIsClosed DEF LocalStart
<1> QED
  BY <1>1, <1>2, <1>3, <1>4 DEF SoundInv, OppositeTracks

(* The event of node n, at the node m that plays no location.              *)
LEMMA OppositeStep ==
  ASSUME SoundInv, NEW k \in Filter, NEW n \in Nodes,
         AdvanceLocal(k, n), full' = Abstract!Advance(full, k, n)
  PROVE  OppositeTracks'
<1>1. ASSUME NEW m \in Nodes, NEW a \in Automata, NEW b \in Abstract!Bindings,
             a.opposite, Abstract!Roles(m, b) = {}
      PROVE  full'[b] \in current'[m][a]
  <2> DEFINE to == Abstract!Step(full[b], k, n, b).to
  <2>1. full'[b] = to
    BY DEF Abstract!Advance
  <2>2. full[b] \in current[m][a] /\ full[b] \in States
        /\ current[m][a] \in SUBSET States
    BY <1>1 DEF SoundInv, TrackingInv, TypeOK, Abstract!TypeOK, OppositeTracks
  <2>3. SoundlyCompiled
    BY DEF SoundInv
  <2>4. CASE m = n
    <3>1. Abstract!Step(full[b], k, n, b) \in LocalMoves(current[n][a], k, a)
      BY <1>1, <2>2, <2>3, <2>4, OppositeOwnMove
    <3>2. to \in LocalTarget(current[n][a], k, a)
      BY <3>1, LocalTargetType
    <3>3. current'[n][a] = LocalTarget(current[n][a], k, a)
      BY DEF AdvanceLocal, SoundInv, TrackingInv, TypeOK
    <3> QED
      BY <2>1, <2>4, <3>2, <3>3
  <2>5. CASE m # n
    <3>1. to = full[b] \/ <<full[b], to>> \in Silent(a)
      BY <1>1, <2>2, <2>3, <2>5, OppositeOthersMove
    <3>2. Closed(current[m][a], a)
      BY DEF SoundInv, TrackingInv
    <3>3. to \in current[m][a]
      <4> HIDE DEF to
      <4> QED
        BY <2>2, <3>1, <3>2 DEF Closed
    <3>4. current'[m] = current[m]
      BY <2>5 DEF AdvanceLocal, SoundInv, TrackingInv, TypeOK
    <3> QED
      BY <2>1, <3>3, <3>4
  <2> QED
    BY <2>4, <2>5
<1> QED
  BY <1>1 DEF OppositeTracks, Abstract!Roles

LEMMA SoundStep == SoundInv /\ [Next]_vars => SoundInv'
<1> SUFFICES ASSUME SoundInv, [Next]_vars PROVE SoundInv'
  OBVIOUS
<1>1. TrackingInv'
  BY StepInv DEF SoundInv
<1>2. SoundlyCompiled'
  BY DEF SoundInv, SoundlyCompiled
<1>3. OppositeTracks'
  <2>1. CASE Next
    <3>1. PICK k \in Filter, n \in Nodes : Event(k, n)
      BY <2>1 DEF Next
    <3>2. AdvanceLocal(k, n) /\ full' = Abstract!Advance(full, k, n)
      BY <3>1 DEF Event, Forward, Suppress, Abstract!Forward, Abstract!Happen
    <3> QED
      BY <3>2, OppositeStep
  <2>2. CASE UNCHANGED vars
    BY <2>2 DEF vars, SoundInv, OppositeTracks
  <2> QED
    BY <2>1, <2>2
<1> QED
  BY <1>1, <1>2, <1>3 DEF SoundInv

(* At the location its own automaton is right, anywhere else the opposite  *)
(* one is.                                                                 *)
LEMMA SoundDrops == SoundInv => OnlySuppressibleIsSuppressed
<1> SUFFICES ASSUME SoundInv, NEW n \in Nodes, NEW b \in Abstract!Bindings,
                    NEW k \in Filter, Suppressed(k, n)
             PROVE  Suppressible(Abstract!Step(full[b], k, n, b))
  BY DEF OnlySuppressibleIsSuppressed
<1>1. CASE Abstract!Roles(n, b) # {}
  <2>1. PICK y \in Locations : Abstract!Roles(n, b) = {y}
    BY <1>1, OneRole DEF SoundInv
  <2>2. LocationDropsAreSafe
    BY TrackingDrops DEF SoundInv
  <2> QED
    BY <2>1, <2>2 DEF LocationDropsAreSafe
<1>2. CASE Abstract!Roles(n, b) = {}
  <2> DEFINE m == Abstract!Step(full[b], k, n, b)
  <2>1. PICK y \in Locations : TRUE
    BY DEF Suppressed, Automata
  <2>2. PICK a \in Automata : a = [location |-> y, opposite |-> TRUE]
    BY <2>1 DEF Automata
  <2>3. /\ full[b] \in States
        /\ full[b] \in current[n][a]
        /\ current[n][a] \in SUBSET States
    BY <1>2, <2>2 DEF SoundInv, OppositeTracks, TrackingInv, TypeOK, Abstract!TypeOK
  <2>4. m \in LocalMoves(current[n][a], k, a) /\ k \in Specified(m.guard, a)
    BY <1>2, <2>2, <2>3, OppositeOwnMove DEF SoundInv
  <2> HIDE DEF m
  <2>5. LocalSuppressible(m, a)
    BY <2>4 DEF Suppressed, LocalFlag
  <2>6. m \in Moves /\ a.opposite
    BY <2>2, <2>4 DEF LocalMoves
  <2>7. Suppressible(m)
    BY <2>4, <2>5, <2>6 DEF SoundInv, SoundlyCompiled, OppositeFlagsAreRight
  <2> QED
    BY <2>7 DEF m
<1> QED
  BY <1>1, <1>2

(* The compiler is right for every invariant of one location whose moves   *)
(* meet SoundlyCompiled: whatever automaton it is, with any number of      *)
(* nodes and however their events interleave, no node suppresses an event  *)
(* that the abstract specification does not let it drop.                   *)
THEOREM CompiledDropsImplement == SoundlyCompiled /\ Spec => AbstractSpec
<1>1. Init => Abstract!Init
  BY DEF Init
<1>2. SoundInv /\ [Next]_vars => [Abstract!Next]_(Abstract!vars)
  <2> SUFFICES ASSUME SoundInv, [Next]_vars
               PROVE  [Abstract!Next]_(Abstract!vars)
    OBVIOUS
  <2>1. CASE Next
    <3>1. PICK k \in Filter, n \in Nodes : Event(k, n)
      BY <2>1 DEF Next
    <3>2. CASE Forward(k, n)
      BY <3>2 DEF Forward, Abstract!Next
    <3>3. CASE Suppress(k, n)
      <4>1. OnlySuppressibleIsSuppressed
        BY SoundDrops
      <4>2. \A b \in Abstract!Bindings :
              Abstract!Suppressible(Abstract!Step(full[b], k, n, b))
        BY <3>3, <4>1, AbstractSuppressible DEF Suppress, OnlySuppressibleIsSuppressed
      <4>3. Abstract!Drop(k, n)
        BY <3>3, <4>2 DEF Suppress, Abstract!Drop
      <4> QED
        BY <4>3 DEF Abstract!Next
    <3> QED
      BY <3>1, <3>2, <3>3 DEF Event
  <2>2. CASE UNCHANGED vars
    BY <2>2 DEF vars, Abstract!vars
  <2> QED
    BY <2>1, <2>2
<1> QED
  BY <1>1, <1>2, SoundInit, SoundStep, PTL DEF Spec, AbstractSpec, Abstract!Spec

(* So the alerts of such an invariant are the alerts of all events:        *)
(* suppression loses none and raises none.                                 *)
THEOREM CompiledDropsKeepAlerts == SoundlyCompiled /\ Spec => []SameAlerts
<1>1. Abstract!SameAlerts <=> SameAlerts
  BY DEF Abstract!SameAlerts, SameAlerts
<1> QED
  BY <1>1, CompiledDropsImplement, DropsKeepAlerts, PTL DEF AbstractSpec

=============================================================================
