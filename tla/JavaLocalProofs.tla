--------------------------- MODULE JavaLocalProofs ---------------------------
(***************************************************************************)
(* Proofs about JavaLocal, for every pair of automata and every set of     *)
(* packets; for every value of MAX_RTT too, but where 0 is assumed.        *)
(***************************************************************************)
EXTENDS JavaLocal, DSFAProofs

-----------------------------------------------------------------------------
(* Type correctness                                                        *)

(* As TargetType, for the automaton without variables.                     *)
LEMMA PlainTargetType ==
  ASSUME NEW s \in PlainStates, NEW k \in Kinds, Plain!HasMove(s, k, FALSE)
  PROVE  Plain!MoveTaken(s, k, FALSE).to \in PlainStates
<1> DEFINE matches == Plain!Matches(s, k, FALSE)
           moves == PlainMoves[s]
<1>1. moves \in Seq(Plain!Move)
  BY JavaLocalAssumption
<1>2. matches \in SUBSET Nat /\ matches \subseteq DOMAIN moves
  BY <1>1 DEF Plain!Matches
<1>3. \E i \in matches : \A j \in matches : i <= j
  BY <1>2, LeastPosition DEF Plain!HasMove
<1>4. Plain!FirstMatch(s, k, FALSE) \in DOMAIN moves
  BY <1>2, <1>3 DEF Plain!FirstMatch
<1>5. \A q \in Seq(Plain!Move) : \A i \in DOMAIN q : q[i] \in Plain!Move
  OBVIOUS
<1>6. moves[Plain!FirstMatch(s, k, FALSE)] \in Plain!Move
  BY <1>1, <1>4, <1>5
<1> QED
  BY <1>6 DEF Plain!MoveTaken, Plain!Move

LEMMA FreshTreeType == FreshTree \in Seq(Root)
BY DSFAAssumption DEF FreshTree, Root

LEMMA TypeInit == Init => TypeOK
<1> SUFFICES ASSUME Init
             PROVE  TypeOK
  OBVIOUS
<1>1. forwarded \in Seq(Packet)
  BY EmptySeq DEF Init
<1>2. received \in 0..MaxPackets /\ index \in Nat /\ maxTime \in Nat /\ lastTime \in Nat
  BY DSFAAssumption DEF Init
<1>3. currentState \in PlainStates /\ pending \subseteq Packet /\ pc = "idle"
  BY JavaLocalAssumption DEF Init
<1> QED
  BY <1>1, <1>2, <1>3 DEF Init, TypeOK

LEMMA TypeStep == TypeOK /\ [Next]_vars => TypeOK'
<1> SUFFICES ASSUME TypeOK, [Next]_vars
             PROVE  TypeOK'
  OBVIOUS
<1> USE DEF TypeOK
<1>1. ASSUME NEW p \in Packet, Filter(p)
      PROVE  TypeOK'
  BY <1>1 DEF Filter, Arrives, handlerVars, stateVars, Packet
<1>2. ASSUME NEW p \in Packet, Enqueue(p)
      PROVE  TypeOK'
  <2>1. p.time \in Nat /\ p.id \in 1..MaxPackets
    BY DSFAAssumption DEF Packet
  <2> QED
    BY <1>2, <2>1 DEF Enqueue, Arrives
<1>3. ASSUME NEW q \in pending, Traverse(q)
      PROVE  TypeOK'
  <2>1. q \in Packet
    OBVIOUS
  <2>2. Tree \in Seq(Root)
    BY FreshTreeType DEF Tree
  <2>3. roots' \in Seq(Root)
    BY <1>3, <2>1, <2>2, AdvanceType DEF Traverse
  <2>4. index' \in Nat /\ index' <= Len(roots')
    BY <1>3, <2>3 DEF Traverse
  <2>5. suppressible' \in BOOLEAN
    BY <1>3 DEF Traverse, AllSuppress
  <2> QED
    BY <1>3, <2>1, <2>3, <2>4, <2>5 DEF Traverse
<1>4. ASSUME Dedupe \/ Purge
      PROVE  TypeOK'
  <2>1. /\ index \in 1..Len(roots) /\ roots \in Seq(Root) /\ index' = index - 1
        /\ roots' = roots \/ roots' = RemoveRoot(roots, index)
    BY <1>4 DEF Dedupe, Purge
  <2>2. roots' \in Seq(Root) /\ index' <= Len(roots')
    BY <2>1, RemoveType
  <2> QED
    BY <1>4, <2>1, <2>2 DEF Dedupe, Purge
<1>5. CASE EndDedupe
  <2>1. index' \in Nat /\ index' <= Len(roots)
    BY <1>5 DEF EndDedupe
  <2> QED
    BY <1>5, <2>1 DEF EndDedupe, stateVars
<1>6. CASE Judge
  <2>1. packet \in Packet /\ next \in Packet /\ packet.time \in Nat /\ next.kind \in Kinds
    BY <1>6, DSFAAssumption DEF Judge, Packet
  <2>2. currentState' \in PlainStates
    BY <1>6, <2>1, PlainTargetType DEF Judge
  <2>3. forwarded' \in Seq(Packet)
    <3>1. forwarded' = forwarded \/ forwarded' = Append(forwarded, packet)
      BY <1>6 DEF Judge
    <3> QED
      BY <2>1, <3>1
  <2> QED
    BY <1>6, <2>1, <2>2, <2>3 DEF Judge
<1>7. CASE Fail
  BY <1>7 DEF Fail, handlerVars, stateVars
<1>8. CASE Return
  BY <1>8 DEF Return, stateVars
<1>9. CASE UNCHANGED vars
  BY <1>9 DEF vars, handlerVars, stateVars
<1> QED
  BY <1>1, <1>2, <1>3, <1>4, <1>5, <1>6, <1>7, <1>8, <1>9 DEF Next

(* Types, and merge never reaches outside the list.                        *)
THEOREM LocalTyping == Spec => []TypeOK
<1> QED
  BY TypeInit, TypeStep, PTL DEF Spec

-----------------------------------------------------------------------------
(* With MAX_RTT = 0 a call judges its own packet                           *)

OnlyItsArgument ==
  /\ pc = "idle" => pending = {}
  /\ pc \in {"drain", "dedupe", "purge"} =>
       pending \subseteq {packet} /\ packet.time <= maxTime
  /\ pc \in {"dedupe", "purge"} => next = packet

LEMMA OnlyStep ==
  ASSUME MaxRTT = 0, TypeOK, OnlyItsArgument, [Next]_vars
  PROVE  OnlyItsArgument'
<1> USE DEF OnlyItsArgument
<1>1. ASSUME NEW p \in Packet, Filter(p)
      PROVE  OnlyItsArgument'
  BY <1>1 DEF Filter, Arrives, handlerVars, stateVars
<1>2. ASSUME NEW p \in Packet, Enqueue(p)
      PROVE  OnlyItsArgument'
  <2>1. p.time \in Nat /\ maxTime \in Nat
    BY DSFAAssumption DEF Packet, TypeOK
  <2>2. pending' = {p} /\ packet' = p /\ pc' = "drain"
    BY <1>2 DEF Enqueue, Arrives
  <2>3. p.time <= maxTime'
    BY <1>2, <2>1 DEF Enqueue
  <2> QED
    BY <2>2, <2>3
<1>3. ASSUME NEW q \in pending, Traverse(q)
      PROVE  OnlyItsArgument'
  BY <1>3 DEF Traverse
<1>4. CASE Dedupe \/ Purge
  BY <1>4 DEF Dedupe, Purge
<1>5. CASE EndDedupe
  BY <1>5 DEF EndDedupe, stateVars
<1>6. CASE Judge
  BY <1>6 DEF Judge
<1>7. CASE Fail
  BY <1>7 DEF Fail
<1>8. CASE Return
  <2>1. packet \in Packet /\ packet.time \in Nat
    BY <1>8, DSFAAssumption DEF Return, TypeOK, Packet
  <2>2. pending = {}
    BY <1>8, <2>1 DEF Return, Ready
  <2> QED
    BY <1>8, <2>2 DEF Return, stateVars
<1>9. CASE UNCHANGED vars
  BY <1>9 DEF vars, handlerVars, stateVars
<1> QED
  BY <1>1, <1>2, <1>3, <1>4, <1>5, <1>6, <1>7, <1>8, <1>9 DEF Next

(* The packet that is judged is the one that is forwarded, for the         *)
(* MAX_RTT of the code; with a larger one it need not be.                  *)
THEOREM LocalJudgesItsArgument ==
  ASSUME MaxRTT = 0
  PROVE  Spec => []JudgesItsArgument
<1>1. Init => OnlyItsArgument
  BY DEF Init, OnlyItsArgument
<1>2. TypeOK /\ OnlyItsArgument /\ [Next]_vars => OnlyItsArgument'
  BY OnlyStep
<1>3. OnlyItsArgument => JudgesItsArgument
  BY DEF OnlyItsArgument, JudgesItsArgument
<1> QED
  BY <1>1, <1>2, <1>3, TypeInit, TypeStep, PTL DEF Spec

-----------------------------------------------------------------------------
(* The list of roots follows one instance per value                        *)

(* The unconstrained root comes first, in the state of the unconstrained   *)
(* instance; the instance of a value is in the state of a root of that     *)
(* value, or of the unconstrained one. (A value may have other roots too.) *)
Covers(list, inst) ==
  /\ list # <<>>
  /\ list[1].constraint = Star
  /\ list[1].state = inst[Star]
  /\ StarAtMostFirst(list)
  /\ \A v \in Values :
       \/ inst[v] = inst[Star]
       \/ \E i \in DOMAIN list : ValueOf(list[i]) = v /\ list[i].state = inst[v]

(* What the instances make of a packet.                                    *)
Moved(inst, q) == [v \in Tracked |-> MoveTaken(inst[v], q.kind, v = q.value).to]

LEMMA TrackedIs == Tracked = Values \cup {Star}
BY JavaLocalAssumption DEF Tracked

LEMMA FreshCovers == Covers(FreshTree, [v \in Tracked |-> StartState])
<1>1. \A v \in Values \cup {Star} : [w \in Tracked |-> StartState][v] = StartState
  BY TrackedIs
<1>2. /\ FreshTree # <<>> /\ DOMAIN FreshTree = {1}
      /\ FreshTree[1] = [constraint |-> Star, state |-> StartState]
  BY DEF FreshTree
<1> QED
  BY <1>1, <1>2 DEF Covers, StarAtMostFirst

(* Every instance makes the move of some root of the list, after the split *)
(* of the pass: a root of its value, or the unconstrained one.             *)
LEMMA Represented ==
  ASSUME NEW list \in Seq(Root), NEW inst, Covers(list, inst),
         NEW q \in Packet, ~ Find(list, q), CanAdvanceRoots(list, q),
         NEW v \in Tracked
  PROVE  LET split == SplitIfNew(list, q)
         IN \E i \in DOMAIN split :
              /\ MoveTaken(split[i].state, q.kind, Equal(split[i], q))
                   = MoveTaken(inst[v], q.kind, v = q.value)
              /\ ValueOf(split[i]) \in {v, Star}
<1> DEFINE split == SplitIfNew(list, q)
           s == list[1].state
<1>1. /\ 1 \in DOMAIN list /\ list[1] \in Root /\ s \in States /\ DOMAIN list = 1..Len(list)
      /\ Len(list) \in Nat
  <2>1. 1 \in DOMAIN list /\ DOMAIN list = 1..Len(list) /\ Len(list) \in Nat
    BY DEF Covers
  <2>2. list[1] \in Root
    BY <2>1
  <2> QED
    BY <2>1, <2>2 DEF Root
<1>2. /\ q.kind \in Kinds /\ q.value \in Values /\ (Star = q.value) = FALSE /\ q # Star
  BY DSFAAssumption DEF Packet
<1>3. /\ \A i \in DOMAIN list : i \in DOMAIN split /\ split[i] = list[i]
      /\ \A i \in DOMAIN split : CanAdvance(split[i], q)
  BY SplitShape DEF CanAdvanceRoots
<1>4. /\ ValueOf(list[1]) = Star /\ Equal(list[1], q) = FALSE /\ s = inst[Star]
  BY <1>2 DEF Covers, ValueOf, Equal
<1>5. SplitIfNew(list, q) = IF ReadsVariable(s, q.kind)
                            THEN Append(list, [constraint |-> q, state |-> s]) ELSE list
  <2>1. (\E i \in DOMAIN list : /\ list[i].constraint = Star
                               /\ ReadsVariable(list[i].state, q.kind))
          <=> ReadsVariable(s, q.kind)
    BY <1>1 DEF Covers, StarAtMostFirst
  <2> QED
    BY <2>1 DEF SplitIfNew
<1> DEFINE Witness(i) == /\ MoveTaken(split[i].state, q.kind, Equal(split[i], q))
                              = MoveTaken(inst[v], q.kind, v = q.value)
                         /\ ValueOf(split[i]) \in {v, Star}
<1>6. CASE v = Star
  <2>1. 1 \in DOMAIN split /\ Witness(1)
    BY <1>1, <1>2, <1>3, <1>4, <1>6
  <2> QED
    BY <2>1
<1>7. ASSUME NEW i \in DOMAIN list, ValueOf(list[i]) = v, list[i].state = inst[v]
      PROVE  i \in DOMAIN split /\ Witness(i)
  BY <1>3, <1>7 DEF Equal
<1>8. CASE v \in Values /\ inst[v] = inst[Star] /\ v # q.value
  <2>1. 1 \in DOMAIN split /\ Witness(1)
    BY <1>1, <1>2, <1>3, <1>4, <1>8
  <2> QED
    BY <2>1
<1>9. CASE v = q.value /\ inst[v] = inst[Star] /\ ReadsVariable(s, q.kind)
  <2> DEFINE new == [constraint |-> q, state |-> s]
             n == Len(list) + 1
  <2>1. new.constraint = q /\ new.state = s /\ ValueOf(new) = v /\ Equal(new, q) = TRUE
    BY <1>2, <1>9 DEF ValueOf, Equal
  <2>2. split = Append(list, new)
    BY <1>5, <1>9
  <2> HIDE DEF new
  <2>3. n \in DOMAIN Append(list, new) /\ Append(list, new)[n] = new
    BY <1>1
  <2>4. n \in DOMAIN split /\ split[n] = new
    BY <2>2, <2>3
  <2> HIDE DEF n
  <2>5. Witness(n)
    BY <1>4, <1>9, <2>1, <2>4
  <2> QED
    BY <2>4, <2>5
<1>10. CASE v = q.value /\ inst[v] = inst[Star] /\ ~ ReadsVariable(s, q.kind)
  <2>1. HasMove(s, q.kind, FALSE)
    BY <1>1, <1>3, <1>4 DEF CanAdvance
  <2>2. MoveTaken(s, q.kind, TRUE) = MoveTaken(s, q.kind, FALSE)
    BY <1>1, <1>2, <1>10, <2>1, UnreadMoves
  <2>3. 1 \in DOMAIN split /\ Witness(1)
    BY <1>1, <1>3, <1>4, <1>10, <2>2
  <2> QED
    BY <2>3
<1>11. v \in Values \cup {Star}
  BY TrackedIs
<1> HIDE DEF split, Witness, s
<1>12. CASE v \in Values
  <2>1. CASE inst[v] = inst[Star]
    BY <1>8, <1>9, <1>10, <1>12, <2>1
  <2>2. CASE \E i \in DOMAIN list : ValueOf(list[i]) = v /\ list[i].state = inst[v]
    <3>1. PICK i \in DOMAIN list : ValueOf(list[i]) = v /\ list[i].state = inst[v]
      BY <2>2
    <3>2. i \in DOMAIN split /\ Witness(i)
      BY <1>7, <3>1
    <3> QED
      BY <3>2 DEF Witness, split
  <2> QED
    BY <1>12, <2>1, <2>2 DEF Covers
<1> QED
  BY <1>6, <1>11, <1>12

LEMMA AdvanceCovers ==
  ASSUME NEW list \in Seq(Root), NEW inst, Covers(list, inst),
         NEW q \in Packet, ~ Find(list, q), CanAdvanceRoots(list, q)
  PROVE  Covers(AdvanceRoots(list, q), Moved(inst, q))
<1> DEFINE split == SplitIfNew(list, q)
           roots1 == AdvanceRoots(list, q)
           inst1 == Moved(inst, q)
<1>1. 1 \in DOMAIN list /\ StarAtMostFirst(list)
  BY DEF Covers
<1>2. 1 \in DOMAIN split /\ split[1] = list[1]
  BY <1>1, SplitShape
<1>3. StarAtMostFirst(split) /\ split \in Seq(Root)
  BY <1>1, StarAfterSplit, SplitType
<1>4. /\ DOMAIN roots1 = DOMAIN split
      /\ \A i \in DOMAIN split :
           /\ roots1[i].constraint = split[i].constraint
           /\ roots1[i].state = MoveTaken(split[i].state, q.kind, Equal(split[i], q)).to
           /\ ValueOf(roots1[i]) = ValueOf(split[i])
  BY AdvanceShape
<1>5. roots1 \in Seq(Root)
  BY AdvanceType
<1>6. \A v \in Values \cup {Star} : v \in Tracked
                   /\ inst1[v] = MoveTaken(inst[v], q.kind, v = q.value).to
  BY TrackedIs DEF Moved
<1>7. \A v \in Tracked : \E i \in DOMAIN split :
        /\ MoveTaken(split[i].state, q.kind, Equal(split[i], q))
             = MoveTaken(inst[v], q.kind, v = q.value)
        /\ ValueOf(split[i]) \in {v, Star}
  BY Represented
<1>8. \A i \in DOMAIN split : ValueOf(split[i]) = Star => i = 1
  <2>1. \A i \in DOMAIN split : split[i] \in Root
    BY <1>3
  <2> QED
    BY <1>3, <2>1, RootValue DEF StarAtMostFirst
<1>9. split[1].constraint = Star
  BY <1>2 DEF Covers
<1> HIDE DEF split, roots1, inst1
<1>10. roots1[1].state = inst1[Star]
  <2>1. PICK i \in DOMAIN split :
          /\ MoveTaken(split[i].state, q.kind, Equal(split[i], q))
               = MoveTaken(inst[Star], q.kind, Star = q.value)
          /\ ValueOf(split[i]) \in {Star, Star}
    BY <1>6, <1>7
  <2>2. i = 1
    BY <1>8, <2>1
  <2> QED
    BY <1>2, <1>4, <1>6, <2>1, <2>2
<1>11. ASSUME NEW v \in Values
       PROVE  \/ inst1[v] = inst1[Star]
              \/ \E i \in DOMAIN roots1 : ValueOf(roots1[i]) = v /\ roots1[i].state = inst1[v]
  <2>1. PICK i \in DOMAIN split :
          /\ MoveTaken(split[i].state, q.kind, Equal(split[i], q))
               = MoveTaken(inst[v], q.kind, v = q.value)
          /\ ValueOf(split[i]) \in {v, Star}
    BY <1>6, <1>7
  <2>2. roots1[i].state = inst1[v]
    BY <1>4, <1>6, <2>1
  <2> QED
    BY <1>4, <1>8, <1>10, <2>1, <2>2
<1>12. roots1 # <<>> /\ roots1[1].constraint = Star
  BY <1>2, <1>4, <1>9
<1>13. StarAtMostFirst(roots1)
  BY <1>3, <1>4 DEF StarAtMostFirst
<1> QED
  BY <1>10, <1>11, <1>12, <1>13 DEF Covers, roots1, inst1

(* If an instance forwards the packet then so does a root.                 *)
LEMMA AdvanceJudges ==
  ASSUME NEW list \in Seq(Root), NEW inst, Covers(list, inst),
         NEW q \in Packet, ~ Find(list, q), CanAdvanceRoots(list, q),
         NEW v \in Tracked, ~ MoveTaken(inst[v], q.kind, v = q.value).suppress
  PROVE  ~ AllSuppress(list, q)
BY Represented DEF AllSuppress

(* Neither loop of merge disturbs that, unless it leads a value astray.    *)
LEMMA RemoveCovers ==
  ASSUME NEW list \in Seq(Root), NEW inst, Covers(list, inst),
         NEW i \in 1..Len(list), ~ Strays(list, i)
  PROVE  \/ RemoveRoot(list, i) = <<>> /\ i = 1
         \/ Covers(RemoveRoot(list, i), inst)
<1> DEFINE rest == RemoveRoot(list, i)
<1>1. /\ DOMAIN list = 1..Len(list) /\ \A j \in DOMAIN list : list[j] \in Root
      /\ 1 \in DOMAIN list
  BY DEF Covers
<1>2. \A j \in DOMAIN list : ValueOf(list[j]) = Star <=> j = 1
  BY <1>1, RootValue DEF Covers, StarAtMostFirst
<1>3. /\ \A j \in DOMAIN list \ {i} : \E k \in DOMAIN rest : rest[k] = list[j]
      /\ i > 1 => rest # <<>> /\ rest[1] = list[1]
  BY RemoveShape
<1>4. StarAtMostFirst(rest)
  BY StarAfterRemove DEF Covers
<1>5. rest = <<>> \/ \E j \in DOMAIN list \ {i} : /\ list[j].state = list[i].state
                                                 /\ ValueOf(list[j]) \in {Star, ValueOf(list[i])}
  BY DEF Strays
<1> HIDE DEF rest
<1>6. CASE i = 1
  BY <1>1, <1>2, <1>5, <1>6 DEF rest
<1>7. CASE i # 1
  <2>1. i > 1 /\ rest # <<>> /\ rest[1] = list[1]
    BY <1>3, <1>7
  <2>2. PICK j \in DOMAIN list \ {i} : /\ list[j].state = list[i].state
                                      /\ ValueOf(list[j]) \in {Star, ValueOf(list[i])}
    BY <1>5, <2>1
  <2>3. ASSUME NEW v \in Values, inst[v] # inst[Star]
        PROVE  \E k \in DOMAIN rest : ValueOf(rest[k]) = v /\ rest[k].state = inst[v]
    <3>1. PICK m \in DOMAIN list : ValueOf(list[m]) = v /\ list[m].state = inst[v]
      BY <2>3 DEF Covers
    <3>2. CASE m # i
      BY <1>3, <3>1, <3>2
    <3>3. CASE m = i
      <4>1. ValueOf(list[j]) # Star
        BY <1>2, <2>2, <2>3, <3>1, <3>3 DEF Covers
      <4>2. ValueOf(list[j]) = v /\ list[j].state = inst[v]
        BY <2>2, <3>1, <3>3, <4>1
      <4> QED
        BY <1>3, <4>2
    <3> QED
      BY <3>2, <3>3
  <2>4. Covers(rest, inst)
    BY <1>4, <2>1, <2>3 DEF Covers
  <2> QED
    BY <2>4 DEF rest
<1> QED
  BY <1>6, <1>7

-----------------------------------------------------------------------------
(* Nothing due is missed                                                   *)

(* The constraints of the roots and the queued packets have come in, and a *)
(* packet about to be judged is no constraint yet.                         *)
Numbered ==
  /\ \A i \in DOMAIN Tree : Tree[i].constraint \in Packet => Tree[i].constraint.id <= received
  /\ \A q \in pending : q.id <= received
  /\ pc = "drain" => \A q \in pending : ~ Find(Tree, q)

(* The instances are followed until merge empties the list, or leaves a    *)
(* value astray.                                                           *)
Followed ==
  emptied \/ astray \/ Covers(Tree, instances)
    \/ (Tree = <<>> /\ index = 0 /\ pc \in {"purge", "failed"})

WantedJudged == pc \in {"dedupe", "purge"} /\ wanted => ~ suppressible

LEMMA TreeType ==
  ASSUME TypeOK
  PROVE  /\ Tree \in Seq(Root)
         /\ roots \in Seq(Root) => Tree = roots
BY FreshTreeType, JavaLocalAssumption DEF TypeOK, Tree

LEMMA NumberedInit == Init => Numbered
<1> SUFFICES ASSUME Init
             PROVE  Numbered
  OBVIOUS
<1>1. Tree = FreshTree /\ pending = {} /\ pc = "idle"
  BY DEF Init, Tree
<1>2. \A i \in DOMAIN FreshTree : FreshTree[i].constraint \notin Packet
  BY DSFAAssumption DEF FreshTree
<1> QED
  BY <1>1, <1>2 DEF Numbered

LEMMA NumberedStep ==
  ASSUME TypeOK, TypeOK', OnlyItsArgument, Numbered, [Next]_vars
  PROVE  Numbered'
<1> USE DEF Numbered
<1>1. ASSUME UNCHANGED <<received, pending, roots>>, pc' = "drain" => pc = "drain"
      PROVE  Numbered'
  BY <1>1 DEF Tree
<1>2. received \in Nat /\ Tree \in Seq(Root) /\ \A q \in Packet : q.id \in Nat
  <2>1. received \in Nat /\ \A q \in Packet : q.id \in Nat
    BY DSFAAssumption DEF TypeOK, Packet
  <2> QED
    BY <2>1, TreeType
<1>3. ASSUME NEW p \in Packet, Filter(p)
      PROVE  Numbered'
  <2>1. received' = received + 1 /\ pc' = "idle" /\ UNCHANGED <<pending, roots>>
    BY <1>3 DEF Filter, Arrives, stateVars
  <2>2. Tree' = Tree
    BY <2>1 DEF Tree
  <2>3. \A q \in pending : q \in Packet
    BY DEF TypeOK
  <2> QED
    BY <1>2, <2>1, <2>2, <2>3
<1>4. ASSUME NEW p \in Packet, Enqueue(p)
      PROVE  Numbered'
  <2>1. /\ received' = received + 1 /\ p.id = received + 1 /\ pending' = {p}
        /\ UNCHANGED roots
    BY <1>4 DEF Enqueue, Arrives, OnlyItsArgument
  <2>2. Tree' = Tree
    BY <2>1 DEF Tree
  <2>3. ~ Find(Tree, p)
    BY <1>2, <2>1 DEF Find
  <2> QED
    BY <1>2, <2>1, <2>2, <2>3
<1>5. ASSUME NEW q \in pending, Traverse(q)
      PROVE  Numbered'
  <2>1. q \in Packet /\ q.id <= received
    BY DEF TypeOK
  <2>2. /\ UNCHANGED <<received, pending>> /\ pc' = "dedupe"
        /\ roots' = AdvanceRoots(Tree, q)
    BY <1>5 DEF Traverse
  <2>3. Tree' = roots'
    <3>1. roots' \in Seq(Root)
      BY <1>2, <1>5, <2>1, AdvanceType DEF Traverse
    <3> QED
      BY <3>1, JavaLocalAssumption DEF Tree
  <2>4. \A i \in DOMAIN AdvanceRoots(Tree, q) :
          LET c == AdvanceRoots(Tree, q)[i].constraint
          IN c = q \/ \E j \in DOMAIN Tree : c = Tree[j].constraint
    <3>1. /\ DOMAIN AdvanceRoots(Tree, q) = DOMAIN SplitIfNew(Tree, q)
          /\ \A i \in DOMAIN SplitIfNew(Tree, q) :
               AdvanceRoots(Tree, q)[i].constraint = SplitIfNew(Tree, q)[i].constraint
      BY <1>2, <2>1, AdvanceShape
    <3>2. \A i \in DOMAIN SplitIfNew(Tree, q) :
            \/ SplitIfNew(Tree, q)[i].constraint = q
            \/ i \in DOMAIN Tree /\ SplitIfNew(Tree, q)[i] = Tree[i]
      BY <1>2, <2>1, SplitShape
    <3> QED
      BY <3>1, <3>2
  <2> HIDE DEF Numbered
  <2>5. ASSUME NEW i \in DOMAIN Tree', Tree'[i].constraint \in Packet
        PROVE  Tree'[i].constraint.id <= received
    <3>1. \/ Tree'[i].constraint = q
          \/ \E j \in DOMAIN Tree : Tree'[i].constraint = Tree[j].constraint
      BY <2>2, <2>3, <2>4
    <3> QED
      BY <2>1, <2>5, <3>1 DEF Numbered
  <2> QED
    BY <2>2, <2>5 DEF Numbered
<1>6. CASE Dedupe \/ Purge
  <2>1. /\ pc \in {"dedupe", "purge"} /\ pc' = pc /\ UNCHANGED <<received, pending>>
        /\ roots \in Seq(Root) /\ index \in 1..Len(roots)
        /\ roots' = roots \/ roots' = RemoveRoot(roots, index)
    BY <1>6 DEF Dedupe, Purge, TypeOK
  <2>2. roots' \in Seq(Root)
    BY <2>1, RemoveType
  <2>3. Tree = roots /\ Tree' = roots'
    BY <2>1, <2>2, JavaLocalAssumption DEF Tree
  <2>4. \A i \in DOMAIN roots' : \E j \in DOMAIN roots : roots'[i] = roots[j]
    BY <2>1, RemoveShape
  <2> HIDE DEF Numbered
  <2>5. ASSUME NEW i \in DOMAIN roots', roots'[i].constraint \in Packet
        PROVE  roots'[i].constraint.id <= received
    BY <2>3, <2>4, <2>5 DEF Numbered
  <2> QED
    BY <2>1, <2>3, <2>5 DEF Numbered
<1>7. CASE Judge
  <2>1. pending' = {} /\ UNCHANGED <<received, roots>>
    BY <1>7 DEF Judge, OnlyItsArgument
  <2> QED
    BY <2>1 DEF Tree
<1>8. CASE EndDedupe \/ Fail \/ Return
  BY <1>1, <1>8 DEF EndDedupe, Fail, Return, stateVars
<1>9. CASE UNCHANGED vars
  BY <1>1, <1>9 DEF vars, stateVars
<1> QED
  BY <1>3, <1>4, <1>5, <1>6, <1>7, <1>8, <1>9 DEF Next

LEMMA FollowedInit == Init => Followed /\ WantedJudged
<1> SUFFICES ASSUME Init
             PROVE  Followed /\ WantedJudged
  OBVIOUS
<1>1. Tree = FreshTree /\ instances = [v \in Tracked |-> StartState]
  BY DEF Init, Tree
<1>2. WantedJudged
  BY DEF Init, WantedJudged
<1> QED
  BY <1>1, <1>2, FreshCovers DEF Followed

LEMMA FollowedStep ==
  ASSUME TypeOK, TypeOK', Numbered, Followed, [Next]_vars
  PROVE  Followed'
<1>1. ASSUME UNCHANGED <<roots, instances, emptied, astray>>,
             pc \in {"purge", "failed"} => pc' \in {"purge", "failed"} /\ index' = index
      PROVE  Followed'
  BY <1>1 DEF Followed, Tree
<1>2. Tree \in Seq(Root) /\ (roots \in Seq(Root) => Tree = roots)
  BY TreeType
<1>3. ASSUME NEW p \in Packet, Filter(p) \/ Enqueue(p)
      PROVE  Followed'
  BY <1>1, <1>3 DEF Filter, Enqueue, Arrives, stateVars, handlerVars, ghosts
<1>4. ASSUME NEW q \in pending, Traverse(q), ~ emptied, ~ astray
      PROVE  Followed'
  <2>1. q \in Packet /\ ~ Find(Tree, q) /\ CanAdvanceRoots(Tree, q)
    BY <1>4 DEF TypeOK, Numbered, Traverse
  <2>2. Covers(Tree, instances)
    BY <1>4 DEF Followed, Traverse
  <2>3. roots' = AdvanceRoots(Tree, q) /\ instances' = Moved(instances, q)
    BY <1>4 DEF Traverse, InstancesMove, Moved, Target
  <2>4. Covers(roots', instances')
    BY <1>2, <2>1, <2>2, <2>3, AdvanceCovers
  <2>5. Tree' = roots'
    <3>1. roots' \in Seq(Root)
      BY <1>2, <2>1, <2>3, AdvanceType
    <3> QED
      BY <3>1, JavaLocalAssumption DEF Tree
  <2> QED
    BY <2>4, <2>5 DEF Followed
<1>5. ASSUME NEW q \in pending, Traverse(q), emptied \/ astray
      PROVE  Followed'
  BY <1>5 DEF Traverse, Followed
<1>6. CASE Dedupe \/ Purge
  <2>1. /\ roots \in Seq(Root) /\ index \in 1..Len(roots) /\ index' = index - 1
        /\ pc \in {"dedupe", "purge"} /\ pc' = pc /\ UNCHANGED <<instances, emptied>>
    BY <1>6 DEF Dedupe, Purge, TypeOK
  <2>2. Tree = roots /\ index # 0
    BY <1>2, <2>1
  <2>3. roots' \in Seq(Root)
    BY <1>6, <2>1, RemoveType DEF Dedupe, Purge
  <2>4. Tree' = roots'
    BY <2>3, JavaLocalAssumption DEF Tree
  <2>5. CASE emptied \/ astray
    BY <1>6, <2>1, <2>5 DEF Followed, Dedupe, Purge
  <2>6. CASE roots' = roots /\ ~ emptied /\ ~ astray
    BY <2>1, <2>2, <2>4, <2>6 DEF Followed
  <2>7. CASE roots' # roots /\ ~ emptied /\ ~ astray
    <3>1. Covers(roots, instances)
      BY <2>1, <2>2, <2>7 DEF Followed
    <3>2. roots' = RemoveRoot(roots, index) /\ (Strays(roots, index) => astray')
      BY <1>6, <2>7 DEF Dedupe, Purge
    <3>3. CASE Strays(roots, index)
      BY <3>2, <3>3 DEF Followed
    <3>4. CASE roots' = <<>> /\ index = 1 /\ pc = "purge"
      BY <2>1, <2>4, <3>4 DEF Followed
    <3>5. CASE Covers(roots', instances)
      BY <2>1, <2>4, <3>5 DEF Followed
    <3>6. index = 1 => pc = "purge"
      BY <1>6 DEF Dedupe, Purge
    <3> QED
      BY <2>1, <3>1, <3>2, <3>3, <3>4, <3>5, <3>6, RemoveCovers
  <2> QED
    BY <2>5, <2>6, <2>7
<1>7. CASE Judge
  <2>1. UNCHANGED <<roots, instances, astray>> /\ emptied' = (emptied \/ roots = <<>>)
    BY <1>7 DEF Judge
  <2>2. roots \in Seq(Root) /\ Tree = roots /\ Tree' = Tree
    BY <1>2, <1>7, <2>1 DEF TypeOK, Judge, Tree
  <2> QED
    BY <2>1, <2>2 DEF Followed
<1>8. CASE EndDedupe \/ Fail \/ Return
  BY <1>1, <1>8 DEF EndDedupe, Fail, Return, stateVars, handlerVars, ghosts
<1>9. CASE UNCHANGED vars
  BY <1>1, <1>9 DEF vars, stateVars, handlerVars, ghosts
<1> QED
  BY <1>3, <1>4, <1>5, <1>6, <1>7, <1>8, <1>9 DEF Next

LEMMA WantedStep ==
  ASSUME TypeOK, Numbered, Followed, WantedJudged, [Next]_vars
  PROVE  WantedJudged'
<1> USE DEF WantedJudged
<1>1. ASSUME NEW p \in Packet, Filter(p) \/ Enqueue(p)
      PROVE  WantedJudged'
  BY <1>1 DEF Filter, Enqueue, Arrives, handlerVars
<1>2. ASSUME NEW q \in pending, Traverse(q), wanted'
      PROVE  ~ suppressible'
  <2>1. ~ emptied /\ ~ astray
    BY <1>2 DEF Traverse, InstancesMove
  <2>2. Covers(Tree, instances)
    BY <1>2, <2>1 DEF Followed, Traverse
  <2>3. q \in Packet /\ ~ Find(Tree, q) /\ CanAdvanceRoots(Tree, q) /\ Tree \in Seq(Root)
    BY <1>2, TreeType DEF TypeOK, Numbered, Traverse
  <2>4. PICK v \in Tracked : ~ MoveTaken(instances[v], q.kind, v = q.value).suppress
    BY <1>2, <2>1 DEF Traverse, InstancesMove
  <2>5. suppressible' = AllSuppress(Tree, q)
    BY <1>2 DEF Traverse
  <2> QED
    BY <2>2, <2>3, <2>4, <2>5, AdvanceJudges
<1>3. CASE Dedupe \/ EndDedupe \/ Purge \/ Judge \/ Fail \/ Return
  BY <1>3 DEF Dedupe, EndDedupe, Purge, Judge, Fail, Return, ghosts, handlerVars
<1>4. CASE UNCHANGED vars
  BY <1>4 DEF vars, ghosts, handlerVars
<1> QED
  BY <1>1, <1>2, <1>3, <1>4 DEF Next

LEMMA MissedStep ==
  ASSUME TypeOK, OnlyItsArgument, WantedJudged, due \in Seq(Packet), NothingMissed, [Next]_vars
  PROVE  NothingMissed' /\ due' \in Seq(Packet)
<1>1. CASE Judge
  <2> DEFINE move == Plain!MoveTaken(currentState, next.kind, FALSE)
             others == move.suppress /\ next.kind \in NegatedLocation
  <2>1. next = packet /\ next \in Packet /\ forwarded \in Seq(Packet)
    BY <1>1 DEF Judge, OnlyItsArgument, TypeOK
  <2>2. wanted => ~ suppressible
    BY <1>1 DEF Judge, WantedJudged
  <2>3. /\ forwarded' = IF suppressible /\ others THEN forwarded ELSE Append(forwarded, next)
        /\ due' = IF wanted \/ ~ others THEN Append(due, next) ELSE due
    BY <1>1, <2>1 DEF Judge
  <2> HIDE DEF others
  <2>4. /\ \A i \in DOMAIN forwarded : i \in DOMAIN forwarded' /\ forwarded'[i] = forwarded[i]
        /\ due' # due => \E j \in DOMAIN forwarded' : forwarded'[j] = next
    <3>1. CASE suppressible /\ others
      BY <2>2, <2>3, <3>1
    <3>2. CASE ~ (suppressible /\ others)
      <4>1. forwarded' = Append(forwarded, next)
        BY <2>3, <3>2
      <4> QED
        BY <2>1, <4>1
    <3> QED
      BY <3>1, <3>2
  <2>5. \A i \in DOMAIN due' : (i \in DOMAIN due /\ due'[i] = due[i]) \/ due'[i] = next
    BY <2>1, <2>3
  <2>6. due' \in Seq(Packet)
    BY <2>1, <2>3
  <2>7. CASE due' = due
    BY <2>4, <2>6, <2>7 DEF NothingMissed
  <2>8. CASE due' # due
    BY <2>4, <2>5, <2>6, <2>8 DEF NothingMissed
  <2> QED
    BY <2>6, <2>7, <2>8
<1>2. CASE ~ Judge
  <2>1. UNCHANGED <<due, forwarded>>
    BY <1>2 DEF Next, Filter, Enqueue, Traverse, Dedupe, EndDedupe, Purge, Fail, Return,
                vars, ghosts
  <2> QED
    BY <2>1 DEF NothingMissed
<1> QED
  BY <1>1, <1>2

(* Splits and merges keep no packet from the global verifier that one      *)
(* instance of the automaton per value would forward, until a merge has    *)
(* left an empty list or a value without a root in its state: for every    *)
(* pair of automata and every number of values, with the MAX_RTT of the    *)
(* code.                                                                   *)
THEOREM LocalNothingMissed ==
  ASSUME MaxRTT = 0
  PROVE  Spec => []NothingMissed
<1> DEFINE Inv == /\ TypeOK
                  /\ OnlyItsArgument
                  /\ Numbered
                  /\ Followed
                  /\ WantedJudged
                  /\ due \in Seq(Packet)
                  /\ NothingMissed
<1>1. Init => Inv
  <2>1. Init => OnlyItsArgument /\ due \in Seq(Packet) /\ NothingMissed
    BY EmptySeq DEF Init, OnlyItsArgument, NothingMissed
  <2> QED
    BY <2>1, TypeInit, NumberedInit, FollowedInit
<1>2. Inv /\ [Next]_vars => Inv'
  <2> SUFFICES ASSUME Inv, [Next]_vars
               PROVE  Inv'
    OBVIOUS
  <2>1. TypeOK'
    BY TypeStep
  <2>2. OnlyItsArgument' /\ WantedJudged'
    BY OnlyStep, WantedStep
  <2>3. Numbered' /\ Followed'
    BY <2>1, NumberedStep, FollowedStep
  <2>4. due' \in Seq(Packet) /\ NothingMissed'
    BY MissedStep
  <2> QED
    BY <2>1, <2>2, <2>3, <2>4
<1> QED
  BY <1>1, <1>2, PTL DEF Spec

=============================================================================
