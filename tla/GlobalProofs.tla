---------------------------- MODULE GlobalProofs ----------------------------
(***************************************************************************)
(* Proofs about GlobalSFAProcessor, for every automaton, every set of      *)
(* packets and every value of MAX_RTT.                                     *)
(***************************************************************************)
EXTENDS GlobalSFAProcessor, DSFAProofs

-----------------------------------------------------------------------------
(* Type correctness                                                        *)

(* During the merge the loop variable is a position of the list, or one    *)
(* off its ends: RemoveRoot never reaches outside it.                      *)
IndexInRange ==
  /\ pc \in {"dedupe", "purge"} => index <= Len(roots)
  /\ pc \in {"dedupe", "purge"} => next \in Packet /\ packet \in Packet
  /\ pc = "drain" => packet \in Packet

TypeInv == TypeOK /\ IndexInRange

LEMMA TypeInit == Init => TypeInv
<1> SUFFICES ASSUME Init
             PROVE  TypeInv
  OBVIOUS
<1>1. roots \in Seq(Root) /\ processed \in Seq(Packet) /\ alerts \in Seq(Packet)
  BY EmptySeq DEF Init
<1>2. received \in 0..MaxPackets /\ index \in Nat /\ maxTime \in Nat /\ lastTime \in Nat
  BY DSFAAssumption DEF Init
<1>3. inFinal \in BOOLEAN /\ currentState \in States /\ pending \subseteq Packet
  BY DSFAAssumption DEF Init
<1> QED
  BY <1>1, <1>2, <1>3 DEF Init, TypeInv, TypeOK, IndexInRange

LEMMA TypeStep == TypeInv /\ [Next]_vars => TypeInv'
<1> SUFFICES ASSUME TypeInv, [Next]_vars
             PROVE  TypeInv'
  OBVIOUS
<1> USE DEF TypeInv, TypeOK, IndexInRange
<1>1. ASSUME NEW p \in Packet, Filter(p)
      PROVE  TypeInv'
  BY <1>1 DEF Filter, Arrives, mergeVars, queueVars, Packet
<1>2. ASSUME NEW p \in Packet, Enqueue(p)
      PROVE  TypeInv'
  <2>1. p.time \in Nat /\ p.id \in 1..MaxPackets
    BY DSFAAssumption DEF Packet
  <2>2. FreshTree \in Seq(Root)
    BY DSFAAssumption DEF FreshTree, Root
  <2>3. roots' \in Seq(Root)
    BY <1>2, <2>2 DEF Enqueue
  <2> QED
    BY <1>2, <2>1, <2>3 DEF Enqueue, Arrives, mergeVars
<1>3. ASSUME NEW q \in pending, ProcessSingle(q)
      PROVE  TypeInv'
  <2>1. q \in Packet /\ q.kind \in Kinds /\ packet.time \in Nat
    BY <1>3, DSFAAssumption DEF Packet, ProcessSingle
  <2>2. currentState' \in States
    BY <1>3, <2>1, TargetType DEF ProcessSingle
  <2>3. processed' \in Seq(Packet)
    BY <1>3, <2>1, AppendProperties DEF ProcessSingle
  <2>4. alerts' \in Seq(Packet)
    BY <1>3, <2>1, AppendProperties DEF ProcessSingle
  <2> QED
    BY <1>3, <2>1, <2>2, <2>3, <2>4 DEF ProcessSingle, mergeVars
<1>4. ASSUME NEW q \in pending, TraverseTree(q)
      PROVE  TypeInv'
  <2>1. q \in Packet
    OBVIOUS
  <2>2. roots' \in Seq(Root)
    BY <1>4, <2>1, AdvanceType DEF TraverseTree
  <2>3. inFinal' \in BOOLEAN /\ index' \in Nat /\ index' <= Len(roots')
    BY <1>4, <2>2 DEF TraverseTree, AnyInFinal
  <2>4. processed' \in Seq(Packet)
    BY <1>4, <2>1 DEF TraverseTree
  <2> QED
    BY <1>4, <2>1, <2>2, <2>3, <2>4 DEF TraverseTree, queueVars
<1>5. ASSUME NEW q \in pending, Fail(q)
      PROVE  TypeInv'
  BY <1>5 DEF Fail, mergeVars, queueVars
<1>6. CASE Dedupe
  <2>1. index \in 1..Len(roots)
    BY <1>6 DEF Dedupe
  <2>2. roots' \in Seq(Root) /\ Len(roots') >= index - 1
    BY <1>6, <2>1, RemoveType DEF Dedupe
  <2> QED
    BY <1>6, <2>1, <2>2 DEF Dedupe, queueVars
<1>7. CASE EndDedupe
  BY <1>7 DEF EndDedupe, queueVars
<1>8. CASE Purge
  <2>1. index \in 1..Len(roots)
    BY <1>8 DEF Purge
  <2>2. roots' \in Seq(Root) /\ Len(roots') >= index - 1
    BY <1>8, <2>1, RemoveType DEF Purge
  <2> QED
    BY <1>8, <2>1, <2>2 DEF Purge, queueVars
<1>9. CASE EndTree
  <2>1. next \in Packet /\ packet \in Packet
    BY <1>9 DEF EndTree
  <2>2. alerts' \in Seq(Packet)
    BY <1>9, <2>1, AppendProperties DEF EndTree
  <2>3. packet.time \in Nat
    BY <2>1, DSFAAssumption DEF Packet
  <2> QED
    BY <1>9, <2>1, <2>2, <2>3 DEF EndTree
<1>10. CASE Return
  BY <1>10 DEF Return, mergeVars, queueVars
<1>11. CASE UNCHANGED vars
  BY <1>11 DEF vars
<1> QED
  BY <1>1, <1>2, <1>3, <1>4, <1>5, <1>6, <1>7, <1>8, <1>9, <1>10, <1>11
  DEF Next, Step

(* Every variable keeps its type, whatever the automaton and the packets,  *)
(* and merge never removes outside the list.                               *)
THEOREM Typing == Spec => []TypeOK
<1>1. TypeInv => TypeOK
  BY DEF TypeInv
<1> QED
  BY <1>1, TypeInit, TypeStep, PTL DEF Spec

-----------------------------------------------------------------------------
(* Order of processing                                                     *)

(* What was processed was old enough to be released.                       *)
ReleasedOnly ==
  \A i \in DOMAIN processed : processed[i].time + MaxRTT <= maxTime

(* What waits is not older than what was processed.                        *)
NothingOvertaken ==
  \A i \in DOMAIN processed : \A q \in pending : processed[i].time <= q.time

(* MAX_RTT bounds how late packets come, so ProcessedInOrder is inductive  *)
(* with the two facts above.                                               *)
OrderInv == ReleasedOnly /\ NothingOvertaken /\ ProcessedInOrder

LEMMA PacketTime ==
  ASSUME NEW p \in Packet
  PROVE  p.time \in Nat /\ p.id \in Nat /\ p.kind \in Kinds /\ p.value \in Values
BY DSFAAssumption DEF Packet

(* Only packets at the head of the queue and old enough are processed.     *)
LEMMA ProcessedStep ==
  ASSUME TypeInv, ReleasedOnly, NEW q \in pending, q \in Heads \cap Ready,
         processed' = Append(processed, q), maxTime' = maxTime, pending' \subseteq pending
  PROVE  /\ ReleasedOnly'
         /\ NothingOvertaken => NothingOvertaken'
         /\ NothingOvertaken /\ ProcessedInOrder => ProcessedInOrder'
<1>1. /\ processed \in Seq(Packet) /\ pending \subseteq Packet
      /\ q.time + MaxRTT <= maxTime /\ \A r \in pending : q.time <= r.time
  BY DEF TypeInv, TypeOK, Heads, Ready
<1>2. /\ Len(processed) \in Nat
      /\ DOMAIN processed = 1..Len(processed)
      /\ DOMAIN processed' = 1..(Len(processed) + 1)
      /\ \A i \in 1..Len(processed) : processed'[i] = processed[i]
      /\ processed'[Len(processed) + 1] = q
  BY <1>1
<1>3. \A i \in DOMAIN processed : processed[i].time \in Nat
  BY <1>1, PacketTime
<1>4. q.time \in Nat /\ \A r \in pending : r.time \in Nat
  BY <1>1, PacketTime
<1>5. \A i \in DOMAIN processed' : i \in DOMAIN processed \/ i = Len(processed) + 1
  BY <1>2
<1>6. ReleasedOnly'
  BY <1>1, <1>2, <1>5 DEF ReleasedOnly
<1>7. NothingOvertaken => NothingOvertaken'
  BY <1>1, <1>2, <1>5 DEF NothingOvertaken
<1>8. ASSUME NothingOvertaken, ProcessedInOrder
      PROVE  ProcessedInOrder'
  <2> SUFFICES ASSUME NEW i \in DOMAIN processed', NEW j \in DOMAIN processed', i < j
               PROVE  processed'[i].time <= processed'[j].time
    BY DEF ProcessedInOrder
  <2>1. i \in DOMAIN processed
    BY <1>2
  <2>2. CASE j \in DOMAIN processed
    BY <1>2, <1>8, <2>1, <2>2 DEF ProcessedInOrder
  <2>3. CASE j = Len(processed) + 1
    BY <1>2, <1>8, <2>1, <2>3 DEF NothingOvertaken
  <2> QED
    BY <1>5, <2>2, <2>3
<1> QED
  BY <1>6, <1>7, <1>8

(* The greatest timestamp only grows: what was released stays released.    *)
LEMMA ReleasedStep == TypeInv /\ ReleasedOnly /\ [Next]_vars => ReleasedOnly'
<1> SUFFICES ASSUME TypeInv, ReleasedOnly, [Next]_vars
             PROVE  ReleasedOnly'
  OBVIOUS
<1>1. /\ processed \in Seq(Packet) /\ pending \subseteq Packet
      /\ maxTime \in Nat /\ MaxRTT \in Nat
  BY GlobalAssumption DEF TypeInv, TypeOK
<1>2. ASSUME NEW p \in Packet, Enqueue(p)
      PROVE  ReleasedOnly'
  <2>1. maxTime' \in Nat /\ maxTime <= maxTime' /\ processed' = processed
    BY <1>1, <1>2, PacketTime DEF Enqueue
  <2>2. \A i \in DOMAIN processed : processed[i].time \in Nat
    BY <1>1, PacketTime
  <2> QED
    BY <1>1, <2>1, <2>2 DEF ReleasedOnly
<1>3. ASSUME NEW q \in pending, ProcessSingle(q) \/ TraverseTree(q)
      PROVE  ReleasedOnly'
  <2>1. /\ q \in Heads \cap Ready /\ processed' = Append(processed, q)
        /\ maxTime' = maxTime /\ pending' \subseteq pending
    BY <1>3 DEF ProcessSingle, TraverseTree, queueVars
  <2> QED
    BY <2>1, ProcessedStep
<1>4. ASSUME maxTime' = maxTime, processed' = processed
      PROVE  ReleasedOnly'
  BY <1>4 DEF ReleasedOnly
<1>5. ASSUME NEW p \in Packet, Filter(p)
      PROVE  maxTime' = maxTime /\ processed' = processed
  BY <1>5 DEF Filter, queueVars
<1>6. ASSUME \/ \E q \in pending : Fail(q)
             \/ Dedupe \/ EndDedupe \/ Purge \/ EndTree \/ Return \/ UNCHANGED vars
      PROVE  maxTime' = maxTime /\ processed' = processed
  BY <1>6 DEF Fail, Dedupe, EndDedupe, Purge, EndTree, Return, vars, queueVars
<1> QED
  BY <1>2, <1>3, <1>4, <1>5, <1>6 DEF Next, Step

(* When a call returns, exactly the packets less than MAX_RTT behind the   *)
(* greatest timestamp are held back, however late packets come.            *)
THEOREM HeldBack == Spec => []HeldBackExactly
<1> DEFINE IInv == TypeInv /\ ReleasedOnly /\ HeldBackExactly
<1>1. Init => IInv
  BY TypeInit DEF Init, ReleasedOnly, HeldBackExactly
<1>2. IInv /\ [Next]_vars => IInv'
  <2> SUFFICES ASSUME IInv, [Next]_vars
               PROVE  HeldBackExactly'
    BY TypeStep, ReleasedStep
  <2>1. ReleasedOnly'
    BY ReleasedStep
  <2>2. CASE Return
    <3>1. Ready = {} /\ pending' = pending /\ maxTime' = maxTime /\ processed' = processed
      BY <2>2 DEF Return, queueVars
    <3>2. \A q \in pending : q.time + MaxRTT > maxTime
      <4>1. \A q \in pending : q.time \in Nat
        BY PacketTime DEF TypeInv, TypeOK
      <4> QED
        BY <3>1, <4>1, GlobalAssumption DEF Ready, TypeInv, TypeOK
    <3> QED
      BY <2>1, <3>1, <3>2 DEF HeldBackExactly, ReleasedOnly
  <2>3. ASSUME (\E p \in Packet : Filter(p)) \/ UNCHANGED vars
        PROVE  HeldBackExactly'
    BY <2>3 DEF Filter, vars, queueVars, HeldBackExactly
  <2>4. ASSUME \/ \E p \in Packet : Enqueue(p)
               \/ \E q \in pending : ProcessSingle(q) \/ TraverseTree(q) \/ Fail(q)
               \/ Dedupe \/ EndDedupe \/ Purge \/ EndTree
        PROVE  pc' # "idle"
    BY <2>4 DEF Enqueue, ProcessSingle, TraverseTree, Fail, Dedupe, EndDedupe,
                Purge, EndTree
  <2> QED
    BY <2>2, <2>3, <2>4 DEF Next, Step, HeldBackExactly
<1>3. IInv => HeldBackExactly
  OBVIOUS
<1> QED
  BY <1>1, <1>2, <1>3, PTL DEF Spec

LEMMA OrderStep ==
  ASSUME Lateness <= MaxRTT, TypeInv, OrderInv, [Next]_vars
  PROVE  OrderInv'
<1> USE DEF OrderInv
<1>1. /\ processed \in Seq(Packet) /\ pending \subseteq Packet
      /\ maxTime \in Nat /\ MaxRTT \in Nat /\ Lateness \in Nat
  BY GlobalAssumption DEF TypeInv, TypeOK
<1>2. ReleasedOnly'
  BY ReleasedStep
<1>3. ASSUME NEW p \in Packet, Enqueue(p)
      PROVE  NothingOvertaken' /\ ProcessedInOrder'
  <2>1. processed' = processed /\ pending' = pending \cup {p} /\ maxTime <= p.time + Lateness
    BY <1>3 DEF Enqueue, Arrives
  <2>2. p.time \in Nat /\ \A i \in DOMAIN processed : processed[i].time \in Nat
    BY <1>1, PacketTime
  <2>3. \A i \in DOMAIN processed : processed[i].time <= p.time
    BY <1>1, <2>1, <2>2 DEF ReleasedOnly
  <2> QED
    BY <2>1, <2>3 DEF NothingOvertaken, ProcessedInOrder
<1>4. ASSUME NEW q \in pending, ProcessSingle(q) \/ TraverseTree(q)
      PROVE  NothingOvertaken' /\ ProcessedInOrder'
  <2>1. /\ q \in Heads \cap Ready /\ processed' = Append(processed, q)
        /\ maxTime' = maxTime /\ pending' \subseteq pending
    BY <1>4 DEF ProcessSingle, TraverseTree, queueVars
  <2> QED
    BY <2>1, ProcessedStep
<1>5. ASSUME pending' \subseteq pending, processed' = processed
      PROVE  NothingOvertaken' /\ ProcessedInOrder'
  BY <1>5 DEF NothingOvertaken, ProcessedInOrder
<1>6. ASSUME NEW p \in Packet, Filter(p)
      PROVE  pending' \subseteq pending /\ processed' = processed
  BY <1>6 DEF Filter, queueVars
<1>7. ASSUME \/ \E q \in pending : Fail(q)
             \/ Dedupe \/ EndDedupe \/ Purge \/ EndTree \/ Return \/ UNCHANGED vars
      PROVE  pending' \subseteq pending /\ processed' = processed
  BY <1>7 DEF Fail, Dedupe, EndDedupe, Purge, EndTree, Return, vars, queueVars
<1> QED
  BY <1>2, <1>3, <1>4, <1>5, <1>6, <1>7 DEF Next, Step

(* If no packet comes more than MAX_RTT late, packets advance the          *)
(* automaton in timestamp order. The hypothesis is needed: with the        *)
(* shipped MAX_RTT of 0 one late packet breaks the order.                  *)
THEOREM InTimestampOrder ==
  ASSUME Lateness <= MaxRTT
  PROVE  Spec => []ProcessedInOrder
<1> DEFINE IInv == TypeInv /\ OrderInv
<1>1. Init => IInv
  BY TypeInit DEF Init, OrderInv, ReleasedOnly, NothingOvertaken, ProcessedInOrder
<1>2. IInv /\ [Next]_vars => IInv'
  BY TypeStep, OrderStep
<1>3. IInv => ProcessedInOrder
  BY DEF OrderInv
<1> QED
  BY <1>1, <1>2, <1>3, PTL DEF Spec

-----------------------------------------------------------------------------
(* Refinement, for an automaton without variables                          *)

(* No packet is numbered like another one that waits or was processed.     *)
OnceEach ==
  /\ \A q \in pending : q.id <= received
  /\ \A q, r \in pending : q.id = r.id => q = r
  /\ \A i \in DOMAIN processed : processed[i].id <= received
  /\ \A i \in DOMAIN processed : \A q \in pending : processed[i].id # q.id

(* The tree branch is never entered.                                       *)
NoTree == pc \in {"idle", "drain", "failed"} /\ inFinal = FALSE

LEMMA OnceStep ==
  ASSUME ~ HasVariables, TypeInv, OnceEach, NoTree, [Next]_vars
  PROVE  OnceEach' /\ NoTree'
<1>1. /\ processed \in Seq(Packet) /\ pending \subseteq Packet /\ received \in Nat
  BY DSFAAssumption DEF TypeInv, TypeOK
<1>2. \A q \in pending : q.id \in Nat
  BY <1>1, PacketTime
<1>3. \A i \in DOMAIN processed : processed[i].id \in Nat
  BY <1>1, PacketTime
<1>4. ASSUME NEW p \in Packet, Filter(p)
      PROVE  OnceEach' /\ NoTree'
  <2>1. received' = received + 1 /\ pending' = pending /\ processed' = processed
    BY <1>4 DEF Filter, Arrives, queueVars
  <2> QED
    BY <1>1, <1>2, <1>3, <1>4, <2>1 DEF OnceEach, NoTree, Filter, mergeVars
<1>5. ASSUME NEW p \in Packet, Enqueue(p)
      PROVE  OnceEach' /\ NoTree'
  <2>1. /\ received' = received + 1 /\ p.id = received + 1
        /\ pending' = pending \cup {p} /\ processed' = processed
    BY <1>5 DEF Enqueue, Arrives
  <2>2. OnceEach'
    BY <1>1, <1>2, <1>3, <2>1 DEF OnceEach
  <2> QED
    BY <1>5, <2>2 DEF NoTree, Enqueue, mergeVars
<1>6. ASSUME NEW q \in pending, ProcessSingle(q)
      PROVE  OnceEach' /\ NoTree'
  <2>1. /\ received' = received /\ pending' = pending \ {q}
        /\ processed' = Append(processed, q)
    BY <1>6 DEF ProcessSingle
  <2>2. \A i \in DOMAIN processed' :
          \/ i \in DOMAIN processed /\ processed'[i] = processed[i]
          \/ processed'[i] = q
    BY <1>1, <2>1
  <2>3. OnceEach'
    BY <1>2, <1>3, <2>1, <2>2 DEF OnceEach
  <2> QED
    BY <1>6, <2>3 DEF NoTree, ProcessSingle, mergeVars
<1>7. ASSUME NEW q \in pending, Fail(q)
      PROVE  OnceEach' /\ NoTree'
  BY <1>7 DEF OnceEach, NoTree, Fail, mergeVars, queueVars
<1>8. CASE Return
  BY <1>8 DEF OnceEach, NoTree, Return, mergeVars, queueVars
<1>9. CASE UNCHANGED vars
  BY <1>9 DEF OnceEach, NoTree, vars, mergeVars, queueVars
<1> QED
  BY <1>4, <1>5, <1>6, <1>7, <1>8, <1>9
  DEF Next, Step, NoTree, TraverseTree, Dedupe, EndDedupe, Purge, EndTree

(* The monitor has the same automaton and the same packets.                *)
LEMMA SameAutomaton ==
  /\ Monitor!Packet = Packet
  /\ Monitor!Tracked = Tracked
  /\ \A s, k, e : Monitor!Target(s, k, e) = Target(s, k, e)
<1>1. Monitor!Packet = Packet
  BY DEF Monitor!Packet, Packet
<1>2. Monitor!Tracked = Tracked
  BY DEF Monitor!Tracked, Tracked
<1>3. ASSUME NEW s, NEW k, NEW e
      PROVE  Monitor!Target(s, k, e) = Target(s, k, e)
  <2>1. Monitor!Matches(s, k, e) = Matches(s, k, e)
    BY DEF Monitor!Matches, Matches
  <2>2. Monitor!FirstMatch(s, k, e) = FirstMatch(s, k, e)
    BY <2>1 DEF Monitor!FirstMatch, FirstMatch
  <2> QED
    BY <2>2 DEF Monitor!Target, Target, Monitor!MoveTaken, MoveTaken
<1> QED
  BY <1>1, <1>2, <1>3

(* An iteration of the drain loop is a step of the ordered monitor.        *)
LEMMA SingleConsumes ==
  ASSUME ~ HasVariables, TypeInv, OrderInv, OnceEach, NoTree, OrderInv',
         NEW q \in pending, ProcessSingle(q)
  PROVE  Monitor!Consume(q)
<1>1. /\ q \in Packet /\ processed \in Seq(Packet) /\ q.value \in Values
  BY PacketTime DEF TypeInv, TypeOK
<1>2. Tracked = {Star} /\ (Star = q.value) = FALSE
  BY <1>1, DSFAAssumption DEF Tracked
<1>3. Monitor!InOrder(q)
  BY DEF Monitor!InOrder, OrderInv, OnceEach, NothingOvertaken
<1>4. Instances = [v \in Tracked |-> currentState]
  BY DEF Instances
<1>5. Instances' = [v \in Tracked |-> currentState']
  BY DEF Instances
<1>6. Instances' = [v \in Tracked |-> Target(Instances[v], q.kind, v = q.value)]
  BY <1>2, <1>4, <1>5 DEF ProcessSingle
<1>7. (\E v \in Tracked : Instances'[v] \in FinalStates) <=> currentState' \in FinalStates
  BY <1>2, <1>5
<1>8. Reported = alerts /\ Reported' = alerts'
  BY DEF Reported, NoTree, ProcessSingle, mergeVars
<1>9. /\ processed' = Append(processed, q)
      /\ alerts' = IF currentState' \in FinalStates THEN Append(alerts, q) ELSE alerts
  BY DEF ProcessSingle
<1>10. Reported' = IF \E v \in Tracked : Instances'[v] \in FinalStates
                   THEN Append(Reported, q) ELSE Reported
  BY <1>7, <1>8, <1>9
<1>11. Instances' = [v \in Monitor!Tracked |->
                      Monitor!Target(Instances[v], q.kind, v = q.value)]
  BY <1>6, SameAutomaton
<1> QED
  BY <1>3, <1>9, <1>10, <1>11, SameAutomaton DEF Monitor!Consume

(* Without variables, and if no packet comes more than MAX_RTT late, the   *)
(* processor implements the ordered monitor: the queue, the filter and the *)
(* drain loop neither lose nor repeat nor reorder a transition or an alert.*)
THEOREM SingleImplementsMonitor ==
  ASSUME ~ HasVariables, Lateness <= MaxRTT
  PROVE  Spec => MonitorSpec
<1> DEFINE IInv == TypeInv /\ OrderInv /\ OnceEach /\ NoTree
<1>1. Init => IInv
  BY TypeInit
  DEF Init, OrderInv, ReleasedOnly, NothingOvertaken, ProcessedInOrder, OnceEach, NoTree
<1>2. IInv /\ [Next]_vars => IInv'
  BY TypeStep, OrderStep, OnceStep
<1>3. Init => Monitor!Init
  BY SameAutomaton DEF Init, Monitor!Init, Instances, Reported
<1>4. IInv /\ IInv' /\ [Next]_vars => [Monitor!Next]_(Monitor!monitorVars)
  <2> SUFFICES ASSUME IInv, IInv', [Next]_vars
               PROVE  [Monitor!Next]_(Monitor!monitorVars)
    OBVIOUS
  <2>1. ASSUME NEW q \in pending, ProcessSingle(q)
        PROVE  Monitor!Next
    <3>1. Monitor!Consume(q) /\ q \in Packet
      BY <2>1, SingleConsumes DEF TypeInv, TypeOK
    <3> QED
      BY <3>1, SameAutomaton DEF Monitor!Next
  <2>2. ASSUME UNCHANGED <<processed, currentState, inFinal, alerts>>
        PROVE  UNCHANGED Monitor!monitorVars
    <3>1. Reported' = Reported
      BY <2>2 DEF Reported, NoTree
    <3>2. Instances' = Instances
      BY <2>2 DEF Instances
    <3> QED
      BY <2>2, <3>1, <3>2 DEF Monitor!monitorVars
  <2>3. ASSUME \/ \E p \in Packet : Filter(p) \/ Enqueue(p)
               \/ \E q \in pending : Fail(q)
               \/ Return \/ UNCHANGED vars
        PROVE  UNCHANGED <<processed, currentState, inFinal, alerts>>
    BY <2>3 DEF Filter, Enqueue, Fail, Return, vars, mergeVars
  <2> QED
    BY <2>1, <2>2, <2>3
    DEF Next, Step, NoTree, TraverseTree, Dedupe, EndDedupe, Purge, EndTree
<1>5. Monitor!Init /\ [][Monitor!Next]_(Monitor!monitorVars) => MonitorSpec
  BY DEF MonitorSpec, Monitor!Spec
<1> QED
  BY <1>1, <1>2, <1>3, <1>4, <1>5, PTL DEF Spec

-----------------------------------------------------------------------------
(* The list of roots                                                       *)

(* Whatever the automaton, the order of the packets and MAX_RTT, only the  *)
(* first root may be the unconstrained one.                                *)
THEOREM StarFirst == Spec => []StarOnlyFirst
<1> DEFINE IInv == TypeInv /\ StarAtMostFirst(roots)
<1>1. Init => IInv
  BY TypeInit DEF Init, StarAtMostFirst
<1>2. IInv /\ [Next]_vars => IInv'
  <2> SUFFICES ASSUME IInv, [Next]_vars
               PROVE  StarAtMostFirst(roots')
    BY TypeStep
  <2>1. roots \in Seq(Root) /\ pending \subseteq Packet /\ index \in Nat
    BY DEF TypeInv, TypeOK
  <2>2. ASSUME NEW p \in Packet, Enqueue(p)
        PROVE  StarAtMostFirst(roots')
    BY <2>2 DEF Enqueue, FreshTree, StarAtMostFirst
  <2>3. ASSUME NEW q \in pending, TraverseTree(q)
        PROVE  StarAtMostFirst(roots')
    BY <2>1, <2>3, StarAfterAdvance DEF TraverseTree
  <2>4. CASE Dedupe
    BY <2>1, <2>4, StarAfterRemove DEF Dedupe, TypeInv, IndexInRange
  <2>5. CASE Purge
    BY <2>1, <2>5, StarAfterRemove DEF Purge, TypeInv, IndexInRange
  <2>6. ASSUME \/ \E p \in Packet : Filter(p)
               \/ \E q \in pending : ProcessSingle(q) \/ Fail(q)
               \/ EndDedupe \/ EndTree \/ Return \/ UNCHANGED vars
        PROVE  roots' = roots
    BY <2>6 DEF Filter, ProcessSingle, Fail, EndDedupe, EndTree, Return, vars
  <2> QED
    BY <2>2, <2>3, <2>4, <2>5, <2>6 DEF Next, Step
<1>3. IInv => StarOnlyFirst
  BY DEF StarAtMostFirst, StarOnlyFirst
<1> QED
  BY <1>1, <1>2, <1>3, PTL DEF Spec

(* With MAX_RTT 0 the queue holds the packet of the call and no other.     *)
OneAtATime ==
  /\ pending \subseteq {packet}
  /\ \A q \in pending : q.time <= maxTime
  /\ pc = "idle" => pending = {}
  /\ pc \in {"dedupe", "purge"} => pending \subseteq {next}
  /\ pc = "drain" /\ HasVariables /\ pending # {} => roots # <<>>

LEMMA OneStep ==
  ASSUME MaxRTT = 0, TypeInv, OneAtATime, [Next]_vars
  PROVE  OneAtATime'
<1> USE DEF OneAtATime
<1>1. pending \subseteq Packet /\ maxTime \in Nat /\ \A q \in pending : q.time \in Nat
  BY PacketTime DEF TypeInv, TypeOK
<1>2. ASSUME NEW p \in Packet, Enqueue(p)
      PROVE  OneAtATime'
  <2>1. pending' = {p} /\ packet' = p /\ p.time <= maxTime'
    BY <1>1, <1>2, PacketTime DEF Enqueue, Arrives
  <2>2. HasVariables => roots' # <<>>
    BY <1>2 DEF Enqueue, FreshTree
  <2> QED
    BY <1>2, <2>1, <2>2 DEF Enqueue
<1>3. ASSUME NEW q \in pending, ProcessSingle(q)
      PROVE  OneAtATime'
  BY <1>3 DEF ProcessSingle
<1>4. ASSUME NEW q \in pending, TraverseTree(q)
      PROVE  OneAtATime'
  BY <1>4 DEF TraverseTree, queueVars
<1>5. ASSUME (\E p \in Packet : Filter(p)) \/ UNCHANGED vars
      PROVE  OneAtATime'
  BY <1>5 DEF Filter, Arrives, vars, mergeVars, queueVars
<1>6. ASSUME (\E q \in pending : Fail(q)) \/ Dedupe \/ EndDedupe \/ Purge
      PROVE  OneAtATime'
  BY <1>6 DEF Fail, Dedupe, EndDedupe, Purge, mergeVars, queueVars
<1>7. CASE EndTree
  BY <1>7 DEF EndTree
<1>8. CASE Return
  <2>1. pending = {}
    BY <1>1, <1>8 DEF Return, Ready
  <2> QED
    BY <1>8, <2>1 DEF Return, mergeVars, queueVars
<1> QED
  BY <1>2, <1>3, <1>4, <1>5, <1>6, <1>7, <1>8 DEF Next, Step

(* As shipped, with MAX_RTT 0, no packet meets an emptied tree: a batch    *)
(* is one packet, and the tree is made afresh before it.                   *)
THEOREM TreeNeverEmpty ==
  ASSUME MaxRTT = 0
  PROVE  Spec => []NoPacketMeetsAnEmptyTree
<1> DEFINE IInv == TypeInv /\ OneAtATime
<1>1. Init => IInv
  BY TypeInit DEF Init, OneAtATime
<1>2. IInv /\ [Next]_vars => IInv'
  BY TypeStep, OneStep
<1>3. IInv => NoPacketMeetsAnEmptyTree
  BY DEF OneAtATime, NoPacketMeetsAnEmptyTree, Ready
<1> QED
  BY <1>1, <1>2, <1>3, PTL DEF Spec

-----------------------------------------------------------------------------
(* Refinement, for an automaton with a variable                            *)

Unbound == [constraint |-> Star, state |-> StartState]

Bound == {r \in Root : r.constraint \in Packet}

(* The instance of the one value is in state s, and the unconstrained one  *)
(* in the start state.                                                     *)
FollowedBy(list, s) ==
  \/ s = StartState /\ list \in {<<>>, <<Unbound>>}
  \/ \E r \in Bound : r.state = s /\ list \in {<<r>>, <<Unbound, r>>}

LEMMA RootTypes ==
  /\ FreshTree = <<Unbound>>
  /\ Unbound \in Root /\ ValueOf(Unbound) = Star
  /\ \A r \in Bound : r \in Root /\ r.constraint # Star /\ ValueOf(r) \in Values
                      /\ r.state \in States
<1>1. FreshTree = <<Unbound>> /\ Unbound \in Root /\ ValueOf(Unbound) = Star
  BY DSFAAssumption DEF FreshTree, Unbound, Root, ValueOf
<1>2. ASSUME NEW r \in Bound
      PROVE  r \in Root /\ r.constraint # Star /\ ValueOf(r) \in Values /\ r.state \in States
  <2>1. r \in Root /\ r.constraint \in Packet /\ r.constraint # Star
    BY DSFAAssumption DEF Bound
  <2> QED
    BY <2>1 DEF Root, Packet, ValueOf
<1> QED
  BY <1>1, <1>2

LEMMA OneInstance ==
  ASSUME NEW list, NEW i \in DOMAIN list, NEW v, RootsOf(list, v) = {i}, i \in Nat
  PROVE  TreeInstance(list, v) = list[i].state
<1>1. (CHOOSE j \in {i} : \A k \in {i} : j <= k) = i
  BY SMT
<1> QED
  BY <1>1 DEF TreeInstance

LEMMA NoInstance ==
  ASSUME NEW list, NEW v, RootsOf(list, v) = {}
  PROVE  /\ RootsOf(list, Star) = {} => TreeInstance(list, v) = StartState
         /\ \A i \in DOMAIN list : i \in Nat /\ RootsOf(list, Star) = {i}
              => TreeInstance(list, v) = list[i].state
<1>1. RootsOf(list, Star) = {} => TreeInstance(list, v) = StartState
  BY DEF TreeInstance
<1>2. ASSUME NEW i \in DOMAIN list, RootsOf(list, Star) = {i}, i \in Nat
      PROVE  TreeInstance(list, v) = list[i].state
  <2>1. (CHOOSE j \in {i} : \A k \in {i} : j <= k) = i
    BY <1>2, SMT
  <2> QED
    BY <1>2, <2>1 DEF TreeInstance
<1> QED
  BY <1>1, <1>2

LEMMA FollowedInstances ==
  ASSUME OneValue, NEW list, NEW s, FollowedBy(list, s), NEW v \in Values \cup {Star}
  PROVE  TreeInstance(list, v) = IF v = Star THEN StartState ELSE s
<1>1. CASE list = <<>> /\ s = StartState
  <2>1. RootsOf(list, v) = {} /\ RootsOf(list, Star) = {}
    BY <1>1 DEF RootsOf
  <2> QED
    BY <1>1, <2>1, NoInstance
<1>2. CASE list = <<Unbound>> /\ s = StartState
  <2>1. 1 \in DOMAIN list /\ list[1].state = StartState /\ 1 \in Nat
    BY <1>2 DEF Unbound
  <2>2. RootsOf(list, Star) = {1}
    BY <1>2, RootTypes DEF RootsOf
  <2>3. v # Star => RootsOf(list, v) = {}
    BY <1>2, RootTypes DEF RootsOf
  <2> QED
    BY <1>2, <2>1, <2>2, <2>3, OneInstance, NoInstance
<1>3. ASSUME NEW r \in Bound, r.state = s, list = <<r>>
      PROVE  TreeInstance(list, v) = IF v = Star THEN StartState ELSE s
  <2>1. 1 \in DOMAIN list /\ list[1].state = s /\ 1 \in Nat
    BY <1>3
  <2>2. RootsOf(list, Star) = {}
    BY <1>3, RootTypes, DSFAAssumption DEF RootsOf
  <2>3. v # Star => RootsOf(list, v) = {1}
    <3>1. v # Star => ValueOf(r) = v
      BY RootTypes DEF OneValue
    <3> QED
      BY <1>3, <3>1 DEF RootsOf
  <2> QED
    BY <2>1, <2>2, <2>3, OneInstance, NoInstance
<1>4. ASSUME NEW r \in Bound, r.state = s, list = <<Unbound, r>>
      PROVE  TreeInstance(list, v) = IF v = Star THEN StartState ELSE s
  <2>1. /\ DOMAIN list = {1, 2} /\ list[1] = Unbound /\ list[2] = r
        /\ 1 \in Nat /\ 2 \in Nat /\ 1 # 2
    BY <1>4
  <2>2. ValueOf(list[1]) = Star /\ ValueOf(list[2]) # Star /\ (v # Star => ValueOf(list[2]) = v)
    BY <2>1, RootTypes, DSFAAssumption DEF OneValue
  <2>3. RootsOf(list, Star) = {1}
    BY <2>1, <2>2 DEF RootsOf
  <2>4. v # Star => RootsOf(list, v) = {2}
    BY <2>1, <2>2 DEF RootsOf
  <2>5. list[1].state = StartState /\ list[2].state = s
    BY <1>4, <2>1 DEF Unbound
  <2> QED
    BY <2>1, <2>3, <2>4, <2>5, OneInstance
<1> QED
  BY <1>1, <1>2, <1>3, <1>4 DEF FollowedBy

(* Removing a root of one of these short lists.                            *)
LEMMA RemoveOnly ==
  ASSUME NEW a \in Root
  PROVE  RemoveRoot(<<a>>, 1) = <<>>
<1>1. <<a>> \in Seq(Root) /\ Len(<<a>>) = 1 /\ 1 \in 1..Len(<<a>>)
  OBVIOUS
<1>2. RemoveRoot(<<a>>, 1) \in Seq(Root) /\ Len(RemoveRoot(<<a>>, 1)) = 0
  <2>1. /\ RemoveRoot(<<a>>, 1) \in Seq(Root)
        /\ Len(RemoveRoot(<<a>>, 1)) = Len(<<a>>) - 1
    BY <1>1, RemoveType, Zenon
  <2> QED
    BY <1>1, <2>1
<1> QED
  BY <1>2, EmptySeq

LEMMA RemoveShort ==
  ASSUME NEW a \in Root, NEW b \in Root
  PROVE  /\ RemoveRoot(<<a, b>>, 1) = <<b>>
         /\ RemoveRoot(<<a, b>>, 2) = <<a>>
<1>1. ASSUME NEW i \in {1, 2}, NEW j \in {1, 2} \ {i}
      PROVE  RemoveRoot(<<a, b>>, i) = <<<<a, b>>[j]>>
  <2> DEFINE list == <<a, b>>
             rest == RemoveRoot(list, i)
  <2>1. /\ list \in Seq(Root) /\ Len(list) = 2 /\ DOMAIN list = {1, 2}
        /\ i \in 1..Len(list) /\ j \in DOMAIN list \ {i} /\ list[j] \in Root
    OBVIOUS
  <2> HIDE DEF list
  <2>2. rest \in Seq(Root) /\ Len(rest) = 1
    <3>1. rest \in Seq(Root) /\ Len(rest) = Len(list) - 1
      BY <2>1, RemoveType, Zenon
    <3> QED
      BY <2>1, <3>1
  <2>3. \E k \in DOMAIN rest : rest[k] = list[j]
    BY <2>1, RemoveShape
  <2> HIDE DEF rest
  <2>4. rest[1] = list[j]
    BY <2>2, <2>3
  <2>5. <<list[j]>> \in Seq(Root) /\ Len(<<list[j]>>) = 1 /\ <<list[j]>>[1] = list[j]
    BY <2>1
  <2>6. rest = <<list[j]>>
    BY <2>2, <2>4, <2>5, SeqEqual
  <2> QED
    BY <2>6 DEF rest, list
<1>2. RemoveRoot(<<a, b>>, 1) = <<b>>
  <2>1. RemoveRoot(<<a, b>>, 1) = <<<<a, b>>[2]>>
    BY <1>1
  <2> QED
    BY <2>1
<1>3. RemoveRoot(<<a, b>>, 2) = <<a>>
  <2>1. RemoveRoot(<<a, b>>, 2) = <<<<a, b>>[1]>>
    BY <1>1
  <2> QED
    BY <2>1
<1> QED
  BY <1>2, <1>3

LEMMA FollowedShapes ==
  /\ \A s : FollowedBy(<<>>, s) <=> s = StartState
  /\ \A s : FollowedBy(<<Unbound>>, s) <=> s = StartState
  /\ \A r \in Bound : \A s : FollowedBy(<<r>>, s) <=> s = r.state
  /\ \A r \in Bound : \A s : FollowedBy(<<Unbound, r>>, s) <=> s = r.state
<1>1. \A r \in Bound : r # Unbound
  BY RootTypes DEF Unbound
<1>2. ASSUME NEW r \in Bound
      PROVE  /\ <<>> \notin {<<r>>, <<Unbound, r>>}
             /\ <<Unbound>> \notin {<<r>>, <<Unbound, r>>}
             /\ <<r>> \notin {<<>>, <<Unbound>>}
             /\ <<Unbound, r>> \notin {<<>>, <<Unbound>>}
             /\ \A t \in Bound : /\ <<r>> \in {<<t>>, <<Unbound, t>>} <=> r = t
                                 /\ <<Unbound, r>> \in {<<t>>, <<Unbound, t>>} <=> r = t
  BY <1>1
<1>3. \A s : FollowedBy(<<>>, s) <=> s = StartState
  BY <1>2 DEF FollowedBy
<1>4. \A s : FollowedBy(<<Unbound>>, s) <=> s = StartState
  BY <1>2 DEF FollowedBy
<1>5. \A r \in Bound : \A s : FollowedBy(<<r>>, s) <=> s = r.state
  BY <1>2 DEF FollowedBy
<1>6. \A r \in Bound : \A s : FollowedBy(<<Unbound, r>>, s) <=> s = r.state
  BY <1>2 DEF FollowedBy
<1> QED
  BY <1>3, <1>4, <1>5, <1>6

LEMMA RootsAre ==
  ASSUME NEW list \in Seq(Root), NEW i \in DOMAIN list
  PROVE  list[i] \in Root
OBVIOUS

LEMMA ShortLists ==
  ASSUME NEW list \in Seq(Root)
  PROVE  /\ Len(list) = 1 => list = <<list[1]>>
         /\ Len(list) = 2 => list = <<list[1], list[2]>>
<1>1. ASSUME Len(list) = 1
      PROVE  list = <<list[1]>>
  <2>1. list[1] \in Root
    BY <1>1
  <2>2. <<list[1]>> \in Seq(Root) /\ Len(<<list[1]>>) = 1
    BY <2>1
  <2> QED
    BY <1>1, <2>2, SeqEqual
<1>2. ASSUME Len(list) = 2
      PROVE  list = <<list[1], list[2]>>
  <2>1. list[1] \in Root /\ list[2] \in Root
    BY <1>2, RootsAre
  <2>2. <<list[1], list[2]>> \in Seq(Root) /\ Len(<<list[1], list[2]>>) = 2
    BY <2>1
  <2> QED
    BY <1>2, <2>2, SeqEqual
<1> QED
  BY <1>1, <1>2

LEMMA StaysUnbound ==
  ASSUME BindsFirst, NEW k \in Kinds
  PROVE  HasMove(StartState, k, FALSE) /\ Target(StartState, k, FALSE) = StartState
<1> DEFINE moves == Moves[StartState]
           f == FirstMatch(StartState, k, FALSE)
<1>1. PICK i \in DOMAIN moves : /\ <<k, FALSE>> \in moves[i].when
                                /\ moves[i].to = StartState
                                /\ \A j \in 1..(i - 1) : <<k, FALSE>> \notin moves[j].when
  BY DEF BindsFirst
<1>2. i \in Matches(StartState, k, FALSE) /\ HasMove(StartState, k, FALSE)
  BY <1>1 DEF Matches, HasMove
<1>3. f \in Matches(StartState, k, FALSE) /\ f <= i /\ f \in Nat /\ i \in Nat /\ 1 <= f
  <2>1. /\ f \in Matches(StartState, k, FALSE)
        /\ \A j \in Matches(StartState, k, FALSE) : f <= j
        /\ \A j \in Matches(StartState, k, FALSE) : j \in Nat /\ 1 <= j
    BY <1>2, DSFAAssumption, FirstMatchIs
  <2> HIDE DEF f
  <2> QED
    BY <1>2, <2>1
<1>4. <<k, FALSE>> \in moves[f].when
  BY <1>3 DEF Matches
<1> HIDE DEF f, moves
<1>5. f = i
  <2>1. f \notin 1..(i - 1)
    BY <1>1, <1>4, Zenon
  <2> QED
    BY <1>3, <2>1
<1> QED
  BY <1>1, <1>2, <1>5 DEF Target, MoveTaken, f, moves

(* The packet of a fresh list splits off the root of its value, unless the *)
(* guards do not read the variable and so keep the value in the start      *)
(* state.                                                                  *)
LEMMA PassFresh ==
  ASSUME BindsFirst, NEW q \in Packet, CanAdvanceRoots(<<Unbound>>, q)
  PROVE  LET s == Target(StartState, q.kind, TRUE)
             passed == AdvanceRoots(<<Unbound>>, q)
         IN \/ passed = <<Unbound>> /\ s = StartState
            \/ \E r \in Bound : r.state = s /\ passed = <<Unbound, r>>
<1> DEFINE s == Target(StartState, q.kind, TRUE)
           new == [constraint |-> q, state |-> StartState]
           split == SplitIfNew(<<Unbound>>, q)
           passed == AdvanceRoots(<<Unbound>>, q)
<1>1. /\ q.kind \in Kinds /\ q.value \in Values /\ (Star = q.value) = FALSE /\ q # Star
      /\ StartState \in States
  BY PacketTime, DSFAAssumption
<1>2. /\ HasMove(StartState, q.kind, FALSE)
      /\ Target(StartState, q.kind, FALSE) = StartState
  BY <1>1, StaysUnbound
<1>3. /\ <<Unbound>> \in Seq(Root) /\ Len(<<Unbound>>) = 1 /\ DOMAIN <<Unbound>> = {1}
      /\ <<Unbound>>[1] = Unbound /\ Unbound.constraint = Star /\ Unbound.state = StartState
  BY RootTypes DEF Unbound
<1>4. ~ Find(<<Unbound>>, q)
  BY <1>1, <1>3 DEF Find
<1>5. passed \in Seq(Root) /\ split \in Seq(Root)
  BY <1>3, AdvanceType, SplitType
<1>6. /\ DOMAIN passed = DOMAIN split
      /\ \A i \in DOMAIN split : /\ passed[i].constraint = split[i].constraint
                                 /\ passed[i].state = Target(split[i].state, q.kind, Equal(split[i], q))
  BY <1>3, AdvanceShape DEF Target
<1>7. Equal(Unbound, q) = FALSE
  BY <1>1, RootTypes DEF Equal
<1>8. CASE ~ ReadsVariable(StartState, q.kind)
  <2>1. split = <<Unbound>>
    BY <1>3, <1>8 DEF SplitIfNew
  <2>2. Len(passed) = 1 /\ passed[1].constraint = Star /\ passed[1].state = StartState
    <3>1. DOMAIN passed = {1}
      BY <1>3, <1>6, <2>1
    <3>2. Len(passed) = 1
      BY <1>5, <3>1
    <3> QED
      BY <1>2, <1>3, <1>6, <1>7, <2>1, <3>2
  <2>3. passed[1] = Unbound
    <3>1. passed[1] \in Root
      BY <1>5, <2>2
    <3> QED
      BY <2>2, <3>1 DEF Root, Unbound
  <2>4. passed = <<Unbound>>
    BY <1>5, <2>2, <2>3, ShortLists
  <2>5. s = StartState
    BY <1>1, <1>2, <1>8, UnreadMoves DEF Target
  <2> QED
    BY <2>4, <2>5
<1>9. CASE ReadsVariable(StartState, q.kind)
  <2>1. new.constraint = q /\ new.state = StartState /\ ValueOf(new) = q.value
    BY <1>1 DEF ValueOf
  <2>2. Equal(new, q) = TRUE
    BY <2>1 DEF Equal
  <2>3. split = Append(<<Unbound>>, new)
    BY <1>3, <1>4, <1>9 DEF SplitIfNew
  <2> HIDE DEF new
  <2>4. DOMAIN split = {1, 2} /\ split[1] = Unbound /\ split[2] = new
    BY <2>3
  <2> HIDE DEF split, passed
  <2>5. /\ passed[1].constraint = Star /\ passed[1].state = StartState
        /\ passed[2].constraint = q /\ passed[2].state = s
    <3>1. passed[1].constraint = Star /\ passed[1].state = StartState
      BY <1>2, <1>3, <1>6, <1>7, <2>4
    <3>2. passed[2].constraint = q /\ passed[2].state = s
      BY <1>6, <2>1, <2>2, <2>4
    <3> QED
      BY <3>1, <3>2
  <2>6. Len(passed) = 2
    <3>1. DOMAIN passed = {1, 2}
      BY <1>6, <2>4
    <3> QED
      BY <1>5, <3>1
  <2>7. passed[1] \in Root /\ passed[2] \in Root
    <3>1. 1 \in DOMAIN passed /\ 2 \in DOMAIN passed
      BY <1>6, <2>4
    <3> QED
      BY <1>5, <3>1, RootsAre
  <2>8. passed[1] = Unbound /\ passed[2] \in Bound
    BY <2>5, <2>7 DEF Root, Unbound, Bound
  <2>9. passed = <<Unbound, passed[2]>>
    BY <1>5, <2>6, <2>8, ShortLists
  <2> QED
    BY <2>5, <2>8, <2>9 DEF passed
<1> QED
  BY <1>8, <1>9

LEMMA PassBound ==
  ASSUME OneValue, NEW q \in Packet, NEW r \in Bound, CanAdvanceRoots(<<r>>, q)
  PROVE  \E t \in Bound : /\ t.state = Target(r.state, q.kind, TRUE)
                          /\ AdvanceRoots(<<r>>, q) = <<t>>
<1> DEFINE passed == AdvanceRoots(<<r>>, q)
<1>1. r \in Root /\ r.constraint \in Packet /\ r.constraint # Star /\ ValueOf(r) \in Values
  BY RootTypes DEF Bound
<1>2. Equal(r, q) = TRUE
  BY <1>1, PacketTime DEF Equal, OneValue
<1>3. <<r>> \in Seq(Root) /\ DOMAIN <<r>> = {1} /\ <<r>>[1] = r
  BY <1>1
<1>4. SplitIfNew(<<r>>, q) = <<r>>
  BY <1>1, <1>3 DEF SplitIfNew
<1>5. passed \in Seq(Root)
  BY <1>3, AdvanceType
<1>6. /\ DOMAIN passed = {1} /\ passed[1].constraint = r.constraint
      /\ passed[1].state = Target(r.state, q.kind, TRUE)
  <2>1. /\ DOMAIN passed = DOMAIN SplitIfNew(<<r>>, q)
        /\ \A i \in DOMAIN SplitIfNew(<<r>>, q) :
             LET root == SplitIfNew(<<r>>, q)[i]
             IN /\ passed[i].constraint = root.constraint
                /\ passed[i].state = Target(root.state, q.kind, Equal(root, q))
    BY <1>3, AdvanceShape DEF Target
  <2> HIDE DEF passed
  <2> QED
    BY <1>2, <1>3, <1>4, <2>1
<1> HIDE DEF passed
<1>7. Len(passed) = 1 /\ passed[1] \in Root
  <2>1. passed[1] \in Root
    BY <1>5, <1>6, RootsAre
  <2> QED
    BY <1>5, <1>6, <2>1
<1>8. passed = <<passed[1]>> /\ passed[1] \in Bound
  BY <1>1, <1>5, <1>6, <1>7, ShortLists DEF Bound
<1> QED
  BY <1>6, <1>8 DEF passed

(* Between two packets the list is one root, or none.                      *)
Settled(list) ==
  \/ list \in {<<>>, <<Unbound>>}
  \/ \E r \in Bound : r.state # StartState /\ list = <<r>>

LEMMA Pass ==
  ASSUME OneValue, BindsFirst, NEW q \in Packet,
         NEW list, Settled(list), list # <<>>, CanAdvanceRoots(list, q),
         NEW s, FollowedBy(list, s)
  PROVE  LET passed == AdvanceRoots(list, q)
             t == Target(s, q.kind, TRUE)
         IN /\ \/ passed = <<Unbound>>
               \/ \E r \in Bound : passed \in {<<r>>, <<Unbound, r>>}
            /\ FollowedBy(passed, t)
            /\ AnyInFinal(passed) <=> t \in FinalStates
<1> DEFINE passed == AdvanceRoots(list, q)
           t == Target(s, q.kind, TRUE)
<1>1. \/ passed = <<Unbound>> /\ t = StartState
      \/ \E r \in Bound : r.state = t /\ passed \in {<<r>>, <<Unbound, r>>}
  <2>1. CASE list = <<Unbound>>
    <3>1. s = StartState
      BY <2>1, FollowedShapes
    <3> QED
      BY <2>1, <3>1, PassFresh
  <2>2. ASSUME NEW r \in Bound, list = <<r>>
        PROVE  \E u \in Bound : u.state = t /\ passed = <<u>>
    <3>1. s = r.state
      BY <2>2, FollowedShapes
    <3> QED
      BY <2>2, <3>1, PassBound
  <2> QED
    BY <2>1, <2>2 DEF Settled
<1> HIDE DEF passed, t
<1>2. StartState \notin FinalStates
  BY DEF BindsFirst
<1>3. CASE passed = <<Unbound>> /\ t = StartState
  <2>1. ~ AnyInFinal(passed)
    BY <1>2, <1>3 DEF AnyInFinal, Unbound
  <2> QED
    BY <1>2, <1>3, <2>1, FollowedShapes DEF passed, t
<1>4. ASSUME NEW r \in Bound, r.state = t, passed \in {<<r>>, <<Unbound, r>>}
      PROVE  FollowedBy(passed, t) /\ (AnyInFinal(passed) <=> t \in FinalStates)
  <2>1. AnyInFinal(<<r>>) <=> t \in FinalStates
    BY <1>4 DEF AnyInFinal
  <2>2. AnyInFinal(<<Unbound, r>>) <=> t \in FinalStates
    BY <1>2, <1>4 DEF AnyInFinal, Unbound
  <2> QED
    BY <1>4, <2>1, <2>2, FollowedShapes
<1> QED
  BY <1>1, <1>3, <1>4 DEF passed, t

(* Where merge stands in the list: a root back in the start state still    *)
(* lies ahead of the loop, and the unconstrained one goes last.            *)
ShapeInv ==
  /\ pc \in {"idle", "drain", "failed"} => Settled(roots) /\ inFinal = FALSE
  /\ pc = "dedupe" =>
       \/ roots = <<Unbound>> /\ index = 1
       \/ \E r \in Bound :
            \/ roots = <<r>> /\ index = 1
            \/ /\ roots = <<Unbound, r>>
               /\ index = 2 \/ (index = 1 /\ r.state # StartState)
  /\ pc = "purge" =>
       \/ roots = <<>> /\ index = 0
       \/ roots = <<Unbound>> /\ index = 1
       \/ \E r \in Bound :
            \/ roots = <<r>> /\ (index = 1 \/ (index = 0 /\ r.state # StartState))
            \/ roots = <<Unbound, r>> /\ index \in {1, 2} /\ r.state # StartState

(* The steps of merge keep the shape, and the state of the value.          *)
LEMMA DedupeShort ==
  ASSUME TypeInv, ShapeInv, Dedupe
  PROVE  /\ ShapeInv'
         /\ \A s : FollowedBy(roots, s) => FollowedBy(roots', s)
<1>1. PICK r \in Bound : roots = <<Unbound, r>> /\ index = 2
  BY DEF ShapeInv, Dedupe
<1>2. /\ DOMAIN <<Unbound, r>> = {1, 2} /\ <<Unbound, r>>[1] = Unbound
      /\ <<Unbound, r>>[2] = r /\ Unbound.state = StartState /\ pc = "dedupe" /\ pc' = "dedupe"
      /\ index' = 1
  BY <1>1 DEF Unbound, Dedupe
<1>3. IsDuplicate(<<Unbound, r>>, 2) <=> r.state = StartState
  BY <1>2 DEF IsDuplicate
<1>4. CASE r.state = StartState
  <2>1. roots' = <<Unbound>>
    BY <1>1, <1>3, <1>4, RootTypes, RemoveShort DEF Dedupe
  <2> QED
    BY <1>1, <1>2, <1>4, <2>1, FollowedShapes DEF ShapeInv
<1>5. CASE r.state # StartState
  <2>1. roots' = roots
    BY <1>1, <1>3, <1>5 DEF Dedupe
  <2> QED
    BY <1>1, <1>2, <1>5, <2>1 DEF ShapeInv
<1> QED
  BY <1>4, <1>5

LEMMA PurgeShort ==
  ASSUME TypeInv, ShapeInv, Purge
  PROVE  /\ ShapeInv'
         /\ \A s : FollowedBy(roots, s) => FollowedBy(roots', s)
<1>1. /\ pc = "purge" /\ pc' = "purge" /\ index' = index - 1 /\ index > 0
      /\ roots' = IF roots[index].state = StartState THEN RemoveRoot(roots, index) ELSE roots
      /\ Unbound.state = StartState
  BY DEF Purge, Unbound
<1>2. CASE roots = <<Unbound>> /\ index = 1
  <2>1. roots' = <<>> /\ index' = 0
    BY <1>1, <1>2, RootTypes, RemoveOnly
  <2> QED
    BY <1>1, <1>2, <2>1, FollowedShapes DEF ShapeInv
<1>3. ASSUME NEW r \in Bound, roots = <<r>>, index = 1
      PROVE  ShapeInv' /\ \A s : FollowedBy(roots, s) => FollowedBy(roots', s)
  <2>1. CASE r.state = StartState
    <3>1. roots' = <<>> /\ index' = 0
      BY <1>1, <1>3, <2>1, RootTypes, RemoveOnly
    <3> QED
      BY <1>1, <1>3, <2>1, <3>1, FollowedShapes DEF ShapeInv
  <2>2. CASE r.state # StartState
    <3>1. roots' = <<r>> /\ index' = 0
      BY <1>1, <1>3, <2>2
    <3> QED
      BY <1>1, <1>3, <2>2, <3>1 DEF ShapeInv
  <2> QED
    BY <2>1, <2>2
<1>4. ASSUME NEW r \in Bound, roots = <<Unbound, r>>, index \in {1, 2}, r.state # StartState
      PROVE  ShapeInv' /\ \A s : FollowedBy(roots, s) => FollowedBy(roots', s)
  <2>1. CASE index = 1
    <3>1. roots' = <<r>> /\ index' = 0
      BY <1>1, <1>4, <2>1, RootTypes, RemoveShort
    <3> QED
      BY <1>1, <1>4, <3>1, FollowedShapes DEF ShapeInv
  <2>2. CASE index = 2
    <3>1. roots' = <<Unbound, r>> /\ index' = 1
      BY <1>1, <1>4, <2>2
    <3> QED
      BY <1>1, <1>4, <3>1 DEF ShapeInv
  <2> QED
    BY <1>4, <2>1, <2>2
<1> QED
  BY <1>1, <1>2, <1>3, <1>4 DEF ShapeInv

LEMMA TraverseShort ==
  ASSUME OneValue, BindsFirst, TypeInv, OneAtATime, ShapeInv,
         NEW q \in pending, TraverseTree(q)
  PROVE  /\ ShapeInv'
         /\ \A s : FollowedBy(roots, s) =>
              LET t == Target(s, q.kind, TRUE)
              IN FollowedBy(roots', t) /\ (inFinal' <=> t \in FinalStates)
<1>1. /\ q \in Packet /\ Settled(roots) /\ roots # <<>> /\ CanAdvanceRoots(roots, q)
      /\ roots' = AdvanceRoots(roots, q) /\ inFinal' = AnyInFinal(roots')
      /\ index' = Len(roots') /\ pc' = "dedupe"
  BY DEF TypeInv, TypeOK, ShapeInv, OneAtATime, TraverseTree
<1>2. \E s : FollowedBy(roots, s)
  BY <1>1 DEF Settled, FollowedBy
<1>3. \/ roots' = <<Unbound>>
      \/ \E r \in Bound : roots' \in {<<r>>, <<Unbound, r>>}
  BY <1>1, <1>2, Pass
<1>4. ShapeInv'
  <2>1. CASE roots' = <<Unbound>>
    BY <1>1, <2>1 DEF ShapeInv
  <2>2. ASSUME NEW r \in Bound, roots' = <<r>>
        PROVE  ShapeInv'
    BY <1>1, <2>2 DEF ShapeInv
  <2>3. ASSUME NEW r \in Bound, roots' = <<Unbound, r>>
        PROVE  ShapeInv'
    BY <1>1, <2>3 DEF ShapeInv
  <2> QED
    BY <1>3, <2>1, <2>2, <2>3
<1>5. ASSUME NEW s, FollowedBy(roots, s)
      PROVE  LET t == Target(s, q.kind, TRUE)
             IN FollowedBy(roots', t) /\ (inFinal' <=> t \in FinalStates)
  BY <1>1, <1>5, Pass
<1> QED
  BY <1>4, <1>5

LEMMA ShapeStep ==
  ASSUME HasVariables, OneValue, BindsFirst, TypeInv, OneAtATime, ShapeInv, [Next]_vars
  PROVE  ShapeInv'
<1>1. ASSUME NEW p \in Packet, Enqueue(p)
      PROVE  ShapeInv'
  BY <1>1, RootTypes DEF Enqueue, Arrives, ShapeInv, Settled, mergeVars
<1>2. ASSUME NEW q \in pending, TraverseTree(q)
      PROVE  ShapeInv'
  BY <1>2, TraverseShort
<1>3. CASE Dedupe
  BY <1>3, DedupeShort
<1>4. CASE Purge
  BY <1>4, PurgeShort
<1>5. CASE EndDedupe
  <2>1. /\ pc = "dedupe" /\ index <= 1 /\ roots' = roots /\ index' = Len(roots)
        /\ pc' = "purge" /\ Len(<<Unbound>>) = 1
        /\ \A r \in Bound : Len(<<r>>) = 1 /\ Len(<<Unbound, r>>) = 2
    BY <1>5 DEF EndDedupe
  <2> QED
    BY <2>1 DEF ShapeInv
<1>6. CASE EndTree
  <2>1. pc = "purge" /\ index = 0 /\ roots' = roots /\ pc' = "drain" /\ inFinal' = FALSE
    BY <1>6 DEF EndTree
  <2> QED
    BY <2>1 DEF ShapeInv, Settled
<1>7. ASSUME \/ \E p \in Packet : Filter(p)
             \/ \E q \in pending : Fail(q)
             \/ Return \/ UNCHANGED vars
      PROVE  /\ UNCHANGED <<roots, index, inFinal>>
             /\ pc' = pc \/ {pc, pc'} \subseteq {"idle", "drain", "failed"}
  BY <1>7 DEF Filter, Fail, Return, vars, mergeVars
<1>8. ASSUME UNCHANGED <<roots, index, inFinal>>,
             pc' = pc \/ {pc, pc'} \subseteq {"idle", "drain", "failed"}
      PROVE  ShapeInv'
  <2>1. CASE pc' = pc
    BY <1>8, <2>1 DEF ShapeInv
  <2>2. CASE {pc, pc'} \subseteq {"idle", "drain", "failed"}
    BY <1>8, <2>2 DEF ShapeInv
  <2> QED
    BY <1>8, <2>1, <2>2
<1> QED
  BY <1>1, <1>2, <1>3, <1>4, <1>5, <1>6, <1>7, <1>8 DEF Next, Step, ProcessSingle

(* As OnceEach, for the tree: the packet being processed is still queued.  *)
OnceInv ==
  /\ \A q \in pending : q.id <= received
  /\ \A i \in DOMAIN processed : processed[i].id <= received
  /\ pc = "drain" => \A i \in DOMAIN processed : \A q \in pending : processed[i].id # q.id

LEMMA OnceTree ==
  ASSUME MaxRTT = 0, HasVariables, TypeInv, OneAtATime, OnceInv, [Next]_vars
  PROVE  OnceInv'
<1> USE DEF OnceInv
<1>1. /\ processed \in Seq(Packet) /\ pending \subseteq Packet /\ received \in Nat
  BY DSFAAssumption DEF TypeInv, TypeOK
<1>2. /\ \A q \in pending : q.id \in Nat
      /\ \A i \in DOMAIN processed : processed[i].id \in Nat
  BY <1>1, PacketTime
<1>3. ASSUME NEW p \in Packet, Filter(p)
      PROVE  OnceInv'
  BY <1>1, <1>2, <1>3 DEF Filter, Arrives, queueVars
<1>4. ASSUME NEW p \in Packet, Enqueue(p)
      PROVE  OnceInv'
  <2>1. /\ received' = received + 1 /\ p.id = received + 1 /\ pending' = {p}
        /\ processed' = processed
    BY <1>4 DEF Enqueue, Arrives, OneAtATime
  <2> QED
    BY <1>1, <1>2, <2>1
<1>5. ASSUME NEW q \in pending, TraverseTree(q)
      PROVE  OnceInv'
  <2>1. /\ UNCHANGED <<received, pending>> /\ pc' = "dedupe"
        /\ processed' = Append(processed, q)
    BY <1>5 DEF TraverseTree, queueVars
  <2>2. \A i \in DOMAIN processed' :
          (i \in DOMAIN processed /\ processed'[i] = processed[i]) \/ processed'[i] = q
    BY <1>1, <2>1
  <2> QED
    BY <2>1, <2>2
<1>6. CASE EndTree
  <2>1. pending' = {} /\ UNCHANGED <<received, processed>>
    BY <1>6 DEF EndTree, OneAtATime
  <2> QED
    BY <2>1
<1>7. ASSUME \/ \E q \in pending : Fail(q)
             \/ Dedupe \/ EndDedupe \/ Purge \/ Return \/ UNCHANGED vars
      PROVE  OnceInv'
  BY <1>7 DEF Fail, Dedupe, EndDedupe, Purge, Return, vars, queueVars
<1> QED
  BY <1>3, <1>4, <1>5, <1>6, <1>7 DEF Next, Step, ProcessSingle

(* The instances, read off such a list.                                    *)
LEMMA InstancesAre ==
  ASSUME HasVariables, OneValue, NEW s
  PROVE  /\ FollowedBy(roots, s) =>
              Instances = [v \in Tracked |-> IF v = Star THEN StartState ELSE s]
         /\ FollowedBy(roots', s) =>
              Instances' = [v \in Tracked |-> IF v = Star THEN StartState ELSE s]
<1>1. Tracked = Values \cup {Star}
  BY DEF Tracked
<1>2. FollowedBy(roots, s) =>
        Instances = [v \in Tracked |-> IF v = Star THEN StartState ELSE s]
  BY <1>1, FollowedInstances DEF Instances
<1>3. FollowedBy(roots', s) =>
        Instances' = [v \in Tracked |-> IF v = Star THEN StartState ELSE s]
  BY <1>1, FollowedInstances DEF Instances
<1> QED
  BY <1>2, <1>3

LEMMA ShapeFollowed == ShapeInv /\ TypeInv => \E s : FollowedBy(roots, s)
BY DEF ShapeInv, Settled, FollowedBy, TypeInv, TypeOK

(* A pass over the roots is a step of the ordered monitor.                 *)
LEMMA TreeConsumes ==
  ASSUME HasVariables, OneValue, BindsFirst, TypeInv, OneAtATime, OrderInv, OnceInv, ShapeInv,
         NEW q \in pending, TraverseTree(q)
  PROVE  Monitor!Consume(q)
<1>1. /\ q \in Packet /\ processed \in Seq(Packet) /\ q.value \in Values /\ q.kind \in Kinds
      /\ pc = "drain"
  BY PacketTime DEF TypeInv, TypeOK, TraverseTree
<1>2. Monitor!InOrder(q)
  BY <1>1 DEF Monitor!InOrder, OrderInv, OnceInv, NothingOvertaken
<1>3. PICK s : FollowedBy(roots, s)
  BY ShapeFollowed
<1> DEFINE t == Target(s, q.kind, TRUE)
<1>4. FollowedBy(roots', t) /\ (inFinal' <=> t \in FinalStates)
  BY <1>3, TraverseShort
<1>5. Target(StartState, q.kind, FALSE) = StartState /\ StartState \notin FinalStates
  BY <1>1, StaysUnbound DEF BindsFirst
<1> HIDE DEF t
<1>6. /\ Instances = [v \in Tracked |-> IF v = Star THEN StartState ELSE s]
      /\ Instances' = [v \in Tracked |-> IF v = Star THEN StartState ELSE t]
  BY <1>3, <1>4, InstancesAre
<1>7. /\ Tracked = Values \cup {Star} /\ (Star = q.value) = FALSE
      /\ \A v \in Values : v # Star /\ (v = q.value) = TRUE
  BY <1>1, DSFAAssumption DEF Tracked, OneValue
<1>8. Instances' = [v \in Tracked |-> Target(Instances[v], q.kind, v = q.value)]
  <2>1. \A v \in Tracked : Target(Instances[v], q.kind, v = q.value)
                             = IF v = Star THEN StartState ELSE t
    BY <1>5, <1>6, <1>7 DEF t
  <2> QED
    BY <1>6, <2>1
<1>9. (\E v \in Tracked : Instances'[v] \in FinalStates) <=> t \in FinalStates
  BY <1>1, <1>5, <1>6, <1>7
<1>10. /\ inFinal = FALSE /\ next' = q /\ alerts' = alerts
       /\ processed' = Append(processed, q)
  BY DEF ShapeInv, TraverseTree
<1>11. Reported' = IF \E v \in Tracked : Instances'[v] \in FinalStates
                   THEN Append(Reported, q) ELSE Reported
  BY <1>4, <1>9, <1>10 DEF Reported
<1>12. Instances' = [v \in Monitor!Tracked |->
                      Monitor!Target(Instances[v], q.kind, v = q.value)]
  BY <1>8, SameAutomaton
<1> QED
  BY <1>2, <1>10, <1>11, <1>12, SameAutomaton DEF Monitor!Consume

(* With a variable, the list of roots that splits and merges implements    *)
(* one instance of the automaton per value: no alert is missed, added or   *)
(* raised for the wrong packet. It does so where the variable is compared  *)
(* with the group-by field and the start state is left only by naming a    *)
(* value, as in out/block_ip.sm.g, with the MAX_RTT of the code and no     *)
(* late packet; each of the four is needed.                                *)
THEOREM TreeImplementsMonitor ==
  ASSUME HasVariables, OneValue, BindsFirst, MaxRTT = 0, Lateness = 0
  PROVE  Spec => MonitorSpec
<1> DEFINE IInv == TypeInv /\ OrderInv /\ OneAtATime /\ OnceInv /\ ShapeInv
<1>1. Init => IInv
  BY TypeInit
  DEF Init, OrderInv, ReleasedOnly, NothingOvertaken, ProcessedInOrder, OneAtATime, OnceInv,
      ShapeInv, Settled
<1>2. IInv /\ [Next]_vars => IInv'
  BY TypeStep, OrderStep, OneStep, OnceTree, ShapeStep
<1>3. Init => Monitor!Init
  <2> SUFFICES ASSUME Init
               PROVE  Monitor!Init
    OBVIOUS
  <2>1. FollowedBy(roots, StartState)
    BY DEF Init, FollowedBy
  <2>2. Instances = [v \in Tracked |-> StartState]
    BY <2>1, InstancesAre
  <2> QED
    BY <2>2, SameAutomaton DEF Init, Monitor!Init, Reported
<1>4. IInv /\ [Next]_vars => [Monitor!Next]_(Monitor!monitorVars)
  <2> SUFFICES ASSUME IInv, [Next]_vars
               PROVE  [Monitor!Next]_(Monitor!monitorVars)
    OBVIOUS
  <2>1. ASSUME NEW q \in pending, TraverseTree(q)
        PROVE  Monitor!Next
    <3>1. Monitor!Consume(q) /\ q \in Packet
      BY <2>1, TreeConsumes DEF TypeInv, TypeOK
    <3> QED
      BY <3>1, SameAutomaton DEF Monitor!Next
  <2>2. PICK s : FollowedBy(roots, s)
    BY ShapeFollowed
  <2>3. ASSUME FollowedBy(roots', s), processed' = processed, Reported' = Reported
        PROVE  UNCHANGED Monitor!monitorVars
    <3>1. Instances' = Instances
      BY <2>2, <2>3, InstancesAre
    <3> QED
      BY <2>3, <3>1 DEF Monitor!monitorVars
  <2>4. CASE Dedupe \/ Purge
    <3>1. processed' = processed /\ Reported' = Reported
      BY <2>4 DEF Dedupe, Purge, Reported
    <3> QED
      BY <2>2, <2>3, <2>4, <3>1, DedupeShort, PurgeShort
  <2>5. ASSUME NEW p \in Packet, Enqueue(p)
        PROVE  UNCHANGED Monitor!monitorVars
    <3>1. roots' = roots \/ (roots = <<>> /\ roots' = <<Unbound>>)
      BY <2>5, RootTypes DEF Enqueue
    <3>2. FollowedBy(roots', s)
      BY <2>2, <3>1, FollowedShapes
    <3>3. processed' = processed /\ Reported' = Reported
      BY <2>5 DEF Enqueue, Reported, mergeVars
    <3> QED
      BY <2>3, <3>2, <3>3
  <2>6. CASE EndTree
    <3>1. roots' = roots /\ processed' = processed /\ Reported' = Reported
      BY <2>6 DEF EndTree, Reported
    <3> QED
      BY <2>2, <2>3, <3>1
  <2>7. ASSUME \/ \E p \in Packet : Filter(p)
               \/ \E q \in pending : Fail(q)
               \/ EndDedupe \/ Return \/ UNCHANGED vars
        PROVE  UNCHANGED Monitor!monitorVars
    <3>1. UNCHANGED <<roots, processed, alerts, next, inFinal>>
      BY <2>7 DEF Filter, Fail, EndDedupe, Return, vars, mergeVars
    <3>2. Reported' = Reported
      BY <3>1 DEF Reported
    <3> QED
      BY <2>2, <2>3, <3>1, <3>2
  <2> QED
    BY <2>1, <2>4, <2>5, <2>6, <2>7 DEF Next, Step, ProcessSingle
<1>5. Monitor!Init /\ [][Monitor!Next]_(Monitor!monitorVars) => MonitorSpec
  BY DEF MonitorSpec, Monitor!Spec
<1> QED
  BY <1>1, <1>2, <1>3, <1>4, <1>5, PTL DEF Spec

=============================================================================
