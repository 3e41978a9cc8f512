------------------------- MODULE GlobalSFAProcessor -------------------------
(***************************************************************************)
(* The keyed process function of the global verifier, seen from one key:   *)
(* processElement filters the packet Flink hands it, puts it in a priority *)
(* queue ordered by timestamp, and drains the queue up to the greatest     *)
(* timestamp seen minus MAX_RTT, advancing either a single state or the    *)
(* list of constraint-tree roots, and raising an alert for each packet     *)
(* that reaches a final state.                                             *)
(*                                                                         *)
(* Flink calls processElement for one packet at a time. The loops of the   *)
(* handler are steps here, so that what holds between two iterations can   *)
(* be stated: pc is where the handler stands.                              *)
(***************************************************************************)
EXTENDS DSFA

CONSTANTS
  FilterKinds,  \* the kinds filterExpr lets through
  MaxRTT,       \* MAX_RTT
  Lateness,     \* how far behind the greatest timestamp seen a packet may come
  NoPacket      \* no packet

ASSUME GlobalAssumption ==
  /\ FilterKinds \subseteq Kinds
  /\ MaxRTT \in Nat
  /\ Lateness \in Nat
  /\ NoPacket \notin Packet

VARIABLES
  received,      \* how many packets Flink has handed to this key
  pc,            \* "idle", or where processElement stands
  packet,        \* p, the argument of processElement
  next,          \* the packet being processed by the tree branch
  inFinal,       \* the result of its pass over the roots
  index,         \* i, the loop variable of DSFA.merge
  pending,       \* pendingPacketState
  maxTime,       \* maxTimeState, 0 for null: timestamps are not negative
  lastTime,      \* lastTimeState
  currentState,  \* currentStateState
  roots,         \* constraintTreeListState, empty for null: both start afresh
  processed,     \* history: the packets taken from the queue, in order
  alerts         \* history: the packets of the notifications, in order

queueVars == <<pending, maxTime, lastTime>>
mergeVars == <<next, inFinal, index>>
vars == <<received, pc, packet, next, inFinal, index, pending, maxTime,
          lastTime, currentState, roots, processed, alerts>>

(* Mutants: no delay; a delay one too long.                                *)
MutantReadyAtOnce == {q \in pending : q.time <= maxTime}
MutantReadyStrict == {q \in pending : q.time + MaxRTT < maxTime}

(* The packets whose timestamp drains them now.                            *)
Ready == {q \in pending : q.time + MaxRTT <= maxTime}

(* Mutant: a queue that does not sort.                                     *)
MutantHeads == pending

(* What PriorityQueue.peek may return: compareTo looks at the timestamp    *)
(* only, so any packet with the least timestamp may be at the head.        *)
Heads == {q \in pending : \A r \in pending : q.time <= r.time}

Init ==
  /\ received = 0
  /\ pc = "idle"
  /\ packet = NoPacket
  /\ next = NoPacket
  /\ inFinal = FALSE
  /\ index = 0
  /\ pending = {}
  /\ maxTime = 0
  /\ lastTime = 0
  /\ currentState = StartState
  /\ roots = <<>>
  /\ processed = <<>>
  /\ alerts = <<>>

(* The environment: the packets of a key arrive in any order that keeps    *)
(* each of them at most Lateness behind the greatest timestamp seen.       *)
Arrives(p) ==
  /\ pc = "idle"
  /\ p.id = received + 1
  /\ maxTime <= p.time + Lateness
  /\ received' = received + 1

(* The filter rejects p: the early return.                                 *)
Filter(p) ==
  /\ Arrives(p)
  /\ p.kind \notin FilterKinds
  /\ UNCHANGED <<pc, packet, mergeVars, queueVars, currentState, roots,
                 processed, alerts>>

(* Mutant: the tree is made once, for the first packet.                    *)
MutantEnqueue(p) ==
  /\ Arrives(p)
  /\ p.kind \in FilterKinds
  /\ pending' = pending \cup {p}
  /\ maxTime' = IF p.time > maxTime THEN p.time ELSE maxTime
  /\ roots' = IF HasVariables /\ processed = <<>> THEN FreshTree ELSE roots
  /\ packet' = p
  /\ pc' = "drain"
  /\ UNCHANGED <<mergeVars, lastTime, currentState, processed, alerts>>

(* p enters the queue and a missing or empty tree is made afresh.          *)
Enqueue(p) ==
  /\ Arrives(p)
  /\ p.kind \in FilterKinds
  /\ pending' = pending \cup {p}
  /\ maxTime' = IF p.time > maxTime THEN p.time ELSE maxTime
  /\ roots' = IF HasVariables /\ roots = <<>> THEN FreshTree ELSE roots
  /\ packet' = p
  /\ pc' = "drain"
  /\ UNCHANGED <<mergeVars, lastTime, currentState, processed, alerts>>

(* Mutant: the final states are consulted before the move.                 *)
MutantProcessSingle(q) ==
  /\ pc = "drain"
  /\ ~ HasVariables
  /\ q \in Heads \cap Ready
  /\ HasMove(currentState, q.kind, FALSE)
  /\ currentState' = Target(currentState, q.kind, FALSE)
  /\ alerts' = IF currentState \in FinalStates THEN Append(alerts, q) ELSE alerts
  /\ lastTime' = packet.time
  /\ pending' = pending \ {q}
  /\ processed' = Append(processed, q)
  /\ UNCHANGED <<received, pc, packet, mergeVars, maxTime, roots>>

(* One iteration of the loop of the branch without variables.              *)
ProcessSingle(q) ==
  /\ pc = "drain"
  /\ ~ HasVariables
  /\ q \in Heads \cap Ready
  /\ HasMove(currentState, q.kind, FALSE)
  /\ currentState' = Target(currentState, q.kind, FALSE)
  /\ alerts' = IF currentState' \in FinalStates THEN Append(alerts, q) ELSE alerts
  /\ lastTime' = packet.time
  /\ pending' = pending \ {q}
  /\ processed' = Append(processed, q)
  /\ UNCHANGED <<received, pc, packet, mergeVars, maxTime, roots>>

(* The other branch: the pass over the roots, then merge in two loops that *)
(* go down the list, then the alert and the poll.                          *)
TraverseTree(q) ==
  /\ pc = "drain"
  /\ HasVariables
  /\ q \in Heads \cap Ready
  /\ CanAdvanceRoots(roots, q)
  /\ roots' = AdvanceRoots(roots, q)
  /\ inFinal' = AnyInFinal(roots')
  /\ next' = q
  /\ index' = Len(roots')
  /\ processed' = Append(processed, q)
  /\ pc' = "dedupe"
  /\ UNCHANGED <<received, packet, queueVars, currentState, alerts>>

(* The first root is never compared: the loop stops at 1, counting from 0. *)
Dedupe ==
  /\ pc = "dedupe"
  /\ index > 1
  /\ roots' = IF IsDuplicate(roots, index) THEN RemoveRoot(roots, index) ELSE roots
  /\ index' = index - 1
  /\ UNCHANGED <<received, pc, packet, next, inFinal, queueVars, currentState,
                 processed, alerts>>

EndDedupe ==
  /\ pc = "dedupe"
  /\ index <= 1
  /\ index' = Len(roots)
  /\ pc' = "purge"
  /\ UNCHANGED <<received, packet, next, inFinal, queueVars, currentState, roots,
                 processed, alerts>>

(* Mutant: the loop moves on only past the roots it removes.               *)
MutantPurge ==
  /\ pc = "purge"
  /\ index > 0
  /\ LET back == roots[index].state = StartState
     IN /\ roots' = IF back THEN RemoveRoot(roots, index) ELSE roots
        /\ index' = IF back THEN index - 1 ELSE index
  /\ UNCHANGED <<received, pc, packet, next, inFinal, queueVars, currentState,
                 processed, alerts>>

(* Roots back in the start state are dropped, whatever their constraint.   *)
Purge ==
  /\ pc = "purge"
  /\ index > 0
  /\ roots' = IF roots[index].state = StartState THEN RemoveRoot(roots, index)
              ELSE roots
  /\ index' = index - 1
  /\ UNCHANGED <<received, pc, packet, next, inFinal, queueVars, currentState,
                 processed, alerts>>

EndTree ==
  /\ pc = "purge"
  /\ index = 0
  /\ alerts' = IF inFinal THEN Append(alerts, next) ELSE alerts
  /\ lastTime' = packet.time
  /\ pending' = pending \ {next}
  /\ next' = NoPacket
  /\ inFinal' = FALSE
  /\ pc' = "drain"
  /\ UNCHANGED <<received, packet, index, maxTime, currentState, roots, processed>>

(* No move matches: the exception fails the job, which nothing restarts.   *)
Fail(q) ==
  /\ pc = "drain"
  /\ q \in Heads \cap Ready
  /\ IF HasVariables THEN ~ CanAdvanceRoots(roots, q)
     ELSE ~ HasMove(currentState, q.kind, FALSE)
  /\ pc' = "failed"
  /\ UNCHANGED <<received, packet, mergeVars, queueVars, currentState, roots,
                 processed, alerts>>

(* The head of the queue is too recent, or there is none: return.          *)
Return ==
  /\ pc = "drain"
  /\ Ready = {}
  /\ packet' = NoPacket
  /\ pc' = "idle"
  /\ UNCHANGED <<received, mergeVars, queueVars, currentState, roots, processed,
                 alerts>>

Step ==
  \/ \E q \in pending : ProcessSingle(q) \/ TraverseTree(q) \/ Fail(q)
  \/ Dedupe
  \/ EndDedupe
  \/ Purge
  \/ EndTree
  \/ Return

Next ==
  \/ \E p \in Packet : Filter(p) \/ Enqueue(p)
  \/ Step

Spec == Init /\ [][Next]_vars

(* Flink runs a handler it has called to its end.                          *)
FairSpec == Spec /\ WF_vars(Step)

-----------------------------------------------------------------------------
(* Every variable has the values its field of the processor can hold.      *)
TypeOK ==
  /\ received \in 0..MaxPackets
  /\ pc \in {"idle", "drain", "dedupe", "purge", "failed"}
  /\ packet \in Packet \cup {NoPacket}
  /\ next \in Packet \cup {NoPacket}
  /\ inFinal \in BOOLEAN
  /\ index \in Nat
  /\ pending \subseteq Packet
  /\ maxTime \in Nat
  /\ lastTime \in Nat
  /\ currentState \in States
  /\ roots \in Seq(Root)
  /\ processed \in Seq(Packet)
  /\ alerts \in Seq(Packet)

(* Packets advance the automaton in timestamp order, however Flink's       *)
(* shuffle reordered them: what the priority queue is for.                 *)
ProcessedInOrder ==
  \A i, j \in DOMAIN processed : i < j => processed[i].time <= processed[j].time

(* When processElement returns, exactly the packets less than MAX_RTT      *)
(* behind the greatest timestamp are held back: nothing older waits for    *)
(* another packet, and nothing more recent has been used.                  *)
HeldBackExactly ==
  pc = "idle" =>
    /\ \A q \in pending : q.time + MaxRTT > maxTime
    /\ \A i \in DOMAIN processed : processed[i].time + MaxRTT <= maxTime

(* Every packet of a batch finds at least one root to advance: the tree is *)
(* made afresh once per call, and merge may empty it between two packets.  *)
NoPacketMeetsAnEmptyTree ==
  pc = "drain" /\ HasVariables /\ Ready # {} => roots # <<>>

(* The unconstrained root is never behind another, which is what makes the *)
(* first root the one to clone and the one Dedupe spares.                  *)
StarOnlyFirst ==
  \A i \in DOMAIN roots : roots[i].constraint = Star => i = 1

(* Between two packets a list that is not empty begins with the            *)
(* unconstrained root, off which values not seen yet are split ("All splits *)
(* will be off of *", "Keep it at index 0 of every child array",           *)
(* DSFA.java:215-217).                                                     *)
StarAtTheHead ==
  pc \in {"idle", "drain"} /\ roots # <<>> => roots[1].constraint = Star

(* Between two packets at most one root follows each value: a value whose  *)
(* history is split over two roots raises alerts no history justifies.     *)
OneRootPerValue ==
  pc \in {"idle", "drain"} =>
    \A i, j \in DOMAIN roots : ValueOf(roots[i]) = ValueOf(roots[j]) => i = j

(* A packet that is MaxRTT behind the greatest timestamp advances the      *)
(* automaton and leaves the queue, or the job has failed.                  *)
EventuallyProcessed ==
  \A n \in 1..MaxPackets :
    (\E q \in pending : q.id = n /\ q.time + MaxRTT <= maxTime)
      ~> \/ pc = "failed"
         \/ /\ \A q \in pending : q.id # n
            /\ \E i \in DOMAIN processed : processed[i].id = n

(* The state of the instance of a value: that of the first root of that    *)
(* value, else that of the unconstrained root, else the start state.       *)
RootsOf(list, v) == {i \in DOMAIN list : ValueOf(list[i]) = v}

TreeInstance(list, v) ==
  LET least(S) == CHOOSE i \in S : \A j \in S : i <= j
  IN CASE RootsOf(list, v) # {} -> list[least(RootsOf(list, v))].state
       [] RootsOf(list, v) = {} /\ RootsOf(list, Star) # {} ->
            list[least(RootsOf(list, Star))].state
       [] OTHER -> StartState

Instances ==
  [v \in Tracked |-> IF HasVariables THEN TreeInstance(roots, v) ELSE currentState]

(* The alert a pass over the roots has found and not yet collected counts. *)
Reported == IF inFinal THEN Append(alerts, next) ELSE alerts

Monitor == INSTANCE OrderedMonitor
             WITH consumed <- processed, instances <- Instances, alerts <- Reported

(* The processor is an ordered monitor with one instance per value: no     *)
(* alert is missed, added, repeated or raised for the wrong packet.        *)
MonitorSpec == Monitor!Spec

(* What lets the list keep its promise: the variable is compared with the  *)
(* field the packets are grouped by, so that a key sees one value, and no  *)
(* packet takes the unconstrained instance out of the start state.         *)
OneValue == \A v, w \in Values : v = w

BindsFirst ==
  /\ StartState \notin FinalStates
  /\ \A kind \in Kinds : \E i \in DOMAIN Moves[StartState] :
       /\ <<kind, FALSE>> \in Moves[StartState][i].when
       /\ Moves[StartState][i].to = StartState
       /\ \A j \in 1..(i - 1) : <<kind, FALSE>> \notin Moves[StartState][j].when

=============================================================================
