------------------------------ MODULE JavaLocal ------------------------------
(***************************************************************************)
(* The local processor of the Java verifier, seen from one key: the queue  *)
(* of the global processor, a local automaton with a variable, which keeps *)
(* a list of constraint-tree roots, and one without, which keeps a state.  *)
(* Both judge a packet, and it is forwarded unless both suppress it and    *)
(* negatedLocExpr holds. (Without local automata all that the filter lets  *)
(* through is forwarded.)                                                  *)
(*                                                                         *)
(* Java runs without assertions unless told to, and nothing in the         *)
(* repository tells it to: the assert of processElementTree is a no-op.    *)
(***************************************************************************)
EXTENDS DSFA

CONSTANTS
  FilterKinds,      \* the kinds filterExpr lets through
  NegatedLocation,  \* the kinds negatedLocExpr holds on
  PlainStates,      \* the automaton without variables
  PlainStart,
  PlainMoves,
  MaxRTT,           \* MAX_RTT
  Lateness,         \* how far behind the greatest timestamp seen a packet may come
  NoPacket,         \* no packet
  NoTree            \* null: no list for this automaton yet

Plain == INSTANCE DSFA WITH
  States <- PlainStates, StartState <- PlainStart, FinalStates <- {},
  HasVariables <- FALSE, Moves <- PlainMoves

ASSUME JavaLocalAssumption ==
  /\ HasVariables
  /\ PlainStart \in PlainStates
  /\ PlainMoves \in [PlainStates -> Seq(Plain!Move)]
  /\ FilterKinds \subseteq Kinds
  /\ NegatedLocation \subseteq Kinds
  /\ MaxRTT \in Nat
  /\ Lateness \in Nat
  /\ NoPacket \notin Packet
  /\ NoTree \notin Seq(Root)

VARIABLES
  received,      \* how many packets Flink has handed to this key
  pc,            \* "idle", or where processElement stands
  packet,        \* p, the argument of processElement
  next,          \* the packet being judged
  suppressible,  \* of next, so far
  index,         \* i, the loop variable of DSFA.merge
  pending,       \* pendingPacketState
  maxTime,       \* maxTimeState, 0 for null
  lastTime,      \* lastTimeState, 0 for null
  roots,         \* constraintTreeListMap.get of the first automaton
  currentState,  \* currentStateMap.get of the other
  forwarded      \* history: the packets collected, in order

(* Ghosts: the state of the first automaton for each value, whether one of *)
(* them does not suppress next, the packets to be forwarded by them or the *)
(* others, and whether merge has left an empty list or a value without a   *)
(* root in its state. The instances are followed until then.               *)
VARIABLES instances, wanted, due, emptied, astray

handlerVars == <<packet, next, suppressible, index>>
stateVars == <<pending, maxTime, lastTime, roots, currentState>>
ghosts == <<instances, wanted, due, emptied, astray>>
vars == <<received, pc, handlerVars, stateVars, forwarded, ghosts>>

(* Mutant: the greatest timestamp itself is held back.                     *)
MutantReady == {q \in pending : q.time + MaxRTT < maxTime}

Ready == {q \in pending : q.time + MaxRTT <= maxTime}

Heads == {q \in pending : \A r \in pending : q.time <= r.time}

Init ==
  /\ received = 0
  /\ pc = "idle"
  /\ packet = NoPacket
  /\ next = NoPacket
  /\ suppressible = FALSE
  /\ index = 0
  /\ pending = {}
  /\ maxTime = 0
  /\ lastTime = 0
  /\ roots = NoTree
  /\ currentState = PlainStart
  /\ forwarded = <<>>
  /\ instances = [v \in Tracked |-> StartState]
  /\ wanted = FALSE
  /\ due = <<>>
  /\ emptied = FALSE
  /\ astray = FALSE

Arrives(p) ==
  /\ pc = "idle"
  /\ p.id = received + 1
  /\ maxTime <= p.time + Lateness
  /\ received' = received + 1

(* The filter rejects p: the early return.                                 *)
Filter(p) ==
  /\ Arrives(p)
  /\ p.kind \notin FilterKinds
  /\ UNCHANGED <<pc, handlerVars, stateVars, forwarded, ghosts>>

Enqueue(p) ==
  /\ Arrives(p)
  /\ p.kind \in FilterKinds
  /\ pending' = pending \cup {p}
  /\ maxTime' = IF p.time > maxTime THEN p.time ELSE maxTime
  /\ packet' = p
  /\ pc' = "drain"
  /\ UNCHANGED <<next, suppressible, index, lastTime, roots, currentState, forwarded, ghosts>>

Tree == IF roots = NoTree THEN FreshTree ELSE roots

(* Mutant: the roots appended by the pass are not asked.                   *)
MutantAllSuppress(list, q) ==
  \A i \in DOMAIN list :
    MoveTaken(list[i].state, q.kind, Equal(list[i], q)).suppress

(* The verdict of a pass over the roots, those it appends included.        *)
AllSuppress(list, q) ==
  \A i \in DOMAIN SplitIfNew(list, q) :
    LET root == SplitIfNew(list, q)[i]
    IN MoveTaken(root.state, q.kind, Equal(root, q)).suppress

(* What q makes of one instance of the first automaton per value.          *)
InstancesMove(q) ==
  LET move(v) == MoveTaken(instances[v], q.kind, v = q.value)
  IN IF emptied \/ astray THEN wanted' = FALSE /\ UNCHANGED instances
     ELSE /\ wanted' = (\E v \in Tracked : ~ move(v).suppress)
          /\ instances' = [v \in Tracked |-> move(v).to]

(* processElementTree up to merge.                                         *)
Traverse(q) ==
  /\ pc = "drain"
  /\ q \in Heads \cap Ready
  /\ CanAdvanceRoots(Tree, q)
  /\ suppressible' = AllSuppress(Tree, q)
  /\ roots' = AdvanceRoots(Tree, q)
  /\ index' = Len(roots')
  /\ next' = q
  /\ pc' = "dedupe"
  /\ InstancesMove(q)
  /\ UNCHANGED <<received, packet, pending, maxTime, lastTime, currentState, forwarded,
                 due, emptied, astray>>

(* Taking the i-th root away leaves its value without a root in its state, *)
(* of its own or unconstrained, and others go on.                          *)
Strays(list, i) ==
  /\ RemoveRoot(list, i) # <<>>
  /\ \A j \in DOMAIN list \ {i} :
       list[j].state = list[i].state => ValueOf(list[j]) \notin {Star, ValueOf(list[i])}

(* Mutant: the loop stays where it removed a root.                         *)
MutantDedupe ==
  /\ pc = "dedupe"
  /\ index > 1
  /\ IF IsDuplicate(roots, index) THEN roots' = RemoveRoot(roots, index) /\ UNCHANGED index
     ELSE index' = index - 1 /\ UNCHANGED roots
  /\ UNCHANGED <<received, pc, packet, next, suppressible, pending, maxTime, lastTime,
                 currentState, forwarded, ghosts>>

(* DSFA.merge, in two loops that go down the list.                         *)
Dedupe ==
  /\ pc = "dedupe"
  /\ index > 1
  /\ roots' = IF IsDuplicate(roots, index) THEN RemoveRoot(roots, index) ELSE roots
  /\ index' = index - 1
  /\ astray' = (astray \/ (IsDuplicate(roots, index) /\ Strays(roots, index)))
  /\ UNCHANGED <<received, pc, packet, next, suppressible, pending, maxTime, lastTime,
                 currentState, forwarded, instances, wanted, due, emptied>>

EndDedupe ==
  /\ pc = "dedupe"
  /\ index <= 1
  /\ index' = Len(roots)
  /\ pc' = "purge"
  /\ UNCHANGED <<received, packet, next, suppressible, stateVars, forwarded, ghosts>>

Purge ==
  /\ pc = "purge"
  /\ index > 0
  /\ roots' = IF roots[index].state = StartState THEN RemoveRoot(roots, index) ELSE roots
  /\ index' = index - 1
  /\ astray' = (astray \/ (roots[index].state = StartState /\ Strays(roots, index)))
  /\ UNCHANGED <<received, pc, packet, next, suppressible, pending, maxTime, lastTime,
                 currentState, forwarded, instances, wanted, due, emptied>>

(* The other automaton, the verdict, and the end of the iteration: what is *)
(* judged is next, what is collected is p.                                 *)
Judge ==
  /\ pc = "purge"
  /\ index = 0
  /\ Plain!HasMove(currentState, next.kind, FALSE)
  /\ LET move == Plain!MoveTaken(currentState, next.kind, FALSE)
         others == move.suppress /\ next.kind \in NegatedLocation
     IN /\ currentState' = move.to
        /\ forwarded' = IF suppressible /\ others THEN forwarded
                        ELSE Append(forwarded, packet)
        /\ due' = IF wanted \/ ~ others THEN Append(due, next) ELSE due
  /\ lastTime' = packet.time
  /\ pending' = pending \ {next}
  /\ next' = NoPacket
  /\ suppressible' = FALSE
  /\ pc' = "drain"
  /\ emptied' = (emptied \/ roots = <<>>)
  /\ UNCHANGED <<received, packet, index, maxTime, roots, instances, wanted, astray>>

(* No move matches: the exception fails the job.                           *)
Fail ==
  /\ \/ pc = "drain" /\ \E q \in Heads \cap Ready : ~ CanAdvanceRoots(Tree, q)
     \/ pc = "purge" /\ index = 0 /\ ~ Plain!HasMove(currentState, next.kind, FALSE)
  /\ pc' = "failed"
  /\ UNCHANGED <<received, handlerVars, stateVars, forwarded, ghosts>>

Return ==
  /\ pc = "drain"
  /\ Ready = {}
  /\ packet' = NoPacket
  /\ pc' = "idle"
  /\ UNCHANGED <<received, next, suppressible, index, stateVars, forwarded, ghosts>>

Next ==
  \/ \E p \in Packet : Filter(p) \/ Enqueue(p)
  \/ \E q \in pending : Traverse(q)
  \/ Dedupe
  \/ EndDedupe
  \/ Purge
  \/ Judge
  \/ Fail
  \/ Return

Spec == Init /\ [][Next]_vars

-----------------------------------------------------------------------------
(* Every variable has the values its field of the processor can hold.      *)
TypeOK ==
  /\ received \in 0..MaxPackets
  /\ pc \in {"idle", "drain", "dedupe", "purge", "failed"}
  /\ packet \in Packet \cup {NoPacket}
  /\ next \in Packet \cup {NoPacket}
  /\ suppressible \in BOOLEAN
  /\ index \in Nat
  /\ pending \subseteq Packet
  /\ maxTime \in Nat
  /\ lastTime \in Nat
  /\ roots \in Seq(Root) \cup {NoTree}
  /\ currentState \in PlainStates
  /\ forwarded \in Seq(Packet)
  /\ pc \in {"drain", "dedupe", "purge"} => packet \in Packet
  /\ pc \in {"dedupe", "purge"} => next \in Packet /\ roots \in Seq(Root)
  /\ pc \in {"dedupe", "purge"} /\ roots \in Seq(Root) => index <= Len(roots)

(* The packet that is judged is the argument of the call, which is the one *)
(* that is forwarded: with the MAX_RTT of the code, which is 0, the queue  *)
(* is drained by every call, however late its packet is.                   *)
JudgesItsArgument ==
  /\ pc \in {"dedupe", "purge"} => next = packet
  /\ pc = "idle" => pending = {}

(* No packet is kept from the global verifier that one instance of the     *)
(* automaton per value would forward, the unconstrained one included, or   *)
(* that the other automaton or negatedLocExpr lets through: until a merge  *)
(* has left an empty list, or a value without a root in its state, splits  *)
(* and merges cost no packet, though a value may have several roots.       *)
NothingMissed ==
  \A i \in DOMAIN due : \E j \in DOMAIN forwarded : forwarded[j] = due[i]

(* A packet never meets an empty list of roots: the assert of              *)
(* processElementTree, LocalSFAProcessor.java:152. The run that checks it  *)
(* finds it violated: only a missing list is made afresh, and merge may    *)
(* empty one.                                                              *)
RootsNotEmpty == pc = "drain" /\ Heads \cap Ready # {} => Tree # <<>>

=============================================================================
