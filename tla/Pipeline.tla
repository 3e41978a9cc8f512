------------------------------ MODULE Pipeline ------------------------------
(***************************************************************************)
(* The local verifiers of all nodes, the Kafka topics, one log per channel *)
(* of an invariant, and the Flink job of the global verifier, which runs   *)
(* one keyed processor per channel. MAX_RTT is 0, as in the code: a        *)
(* processor advances at once on what it is given (GlobalProofs proves     *)
(* that its queue then never keeps a packet). Automata of the global       *)
(* verifier are without variables here; GlobalSFAProcessor has them.       *)
(*                                                                         *)
(* A topic has one partition. The producer delivers the records of a topic *)
(* in order and once each, and those of different topics in any order: the *)
(* retries of librdkafka, which may repeat or reorder a record as main.cpp *)
(* configures it, are left out.                                            *)
(***************************************************************************)
EXTENDS LocalVerifier

CONSTANTS
  ChannelsRead,  \* channel_per_invariant, an argument of the global verifier
  HashRange,     \* 2^32: a Java int
  GlobalStates,
  GlobalStart,   \* invariant -> start state
  GlobalFinals,  \* invariant -> final states
  GlobalMoves,   \* invariant -> state -> kind -> the set of its target, if any
  MaxReruns      \* bound: times the job is submitted again

ASSUME PipelineAssumption ==
  /\ ChannelsRead \in Nat
  /\ HashRange \in Nat \ {0}
  /\ GlobalStart \in [Invariants -> GlobalStates]
  /\ GlobalFinals \in [Invariants -> SUBSET GlobalStates]
  /\ GlobalMoves \in [Invariants -> [GlobalStates -> [Kinds -> SUBSET GlobalStates]]]
  /\ MaxReruns \in Nat

VARIABLES
  logs,      \* invariant -> channel -> records, with the node they come from
  offset,    \* invariant -> channel -> how many the job has consumed
  monitors,  \* invariant -> channel -> hash of a key -> state
  alerts,    \* invariant -> channel -> the output file: records that alerted
  job,       \* what the job does
  reruns     \* how often it was submitted again

globalVars == <<logs, offset, monitors, alerts, job, reruns>>

(* Ghosts: the automata of a node when every packet is handled whole and   *)
(* at once, and the kinds it then forwards for each invariant.             *)
VARIABLES ideal, owed

ghosts == <<ideal, owed>>

vars == <<localVars, globalVars, ghosts>>

LogRecord == [node : Nodes, kind : Kinds]

Channels == 0..(FilesPerInvariant - 1)

-----------------------------------------------------------------------------
(* The key of a packet in the job: of each group-by field the hash of its  *)
(* words.                                                                  *)
FieldHash(words) ==
  LET hash[j \in 0..Len(words)] ==
        IF j = 0 THEN 0 ELSE (31 * hash[j - 1] + words[j]) % HashRange
  IN hash[Len(words)]

KeyHash(key) == [f \in DOMAIN key |-> FieldHash(key[f])]

Hashes == {KeyHash(key) : key \in Keys}

NoOutput == [i \in Invariants |-> [c \in Channels |-> <<>>]]
Beginning == [i \in Invariants |-> [c \in Channels |-> 0]]
StartStates == [i \in Invariants |-> [c \in Channels |-> [h \in Hashes |-> GlobalStart[i]]]]

Init ==
  /\ LocalInit
  /\ logs = [i \in Invariants |-> [c \in Channels |-> <<>>]]
  /\ offset = Beginning
  /\ monitors = StartStates
  /\ alerts = NoOutput
  /\ job = "running"
  /\ reruns = 0
  /\ ideal = automata
  /\ owed = [n \in Nodes |-> [i \in Invariants |-> <<>>]]

(* The ghosts handle the packet whole when it comes.                       *)
Comes(n, kind) ==
  /\ NextPacket(n, kind)
  /\ ideal' = [ideal EXCEPT ![n] = [i \in Invariants |-> Process(@, i, kind)[i]]]
  /\ owed' = [owed EXCEPT ![n] = [i \in Invariants |->
                IF Forwards(ideal[n], i, kind) THEN Append(@[i], kind) ELSE @[i]]]
  /\ UNCHANGED globalVars

(* The oldest record of topic <<i, c>> in the buffer of n is delivered.    *)
Deliver(n, i, c) ==
  \E j \in DOMAIN buffer[n] :
    LET ofTopic(k) == buffer[n][k].inv = i /\ ChannelOf(buffer[n][k]) = c IN
    /\ process[n] # "dead"
    /\ ofTopic(j) /\ \A k \in 1..(j - 1) : ~ ofTopic(k)
    /\ logs' = [logs EXCEPT ![i][c] = Append(@, [node |-> n, kind |-> buffer[n][j].kind])]
    /\ buffer' = [buffer EXCEPT ![n] = SubSeq(@, 1, j - 1) \o SubSeq(@, j + 1, Len(@))]
    /\ UNCHANGED <<invList, packet, at, handled, automata, process>>
    /\ UNCHANGED <<offset, monitors, alerts, job, reruns, ghosts>>

Unread(i, c) == c < ChannelsRead /\ offset[i][c] < Len(logs[i][c])

NextRecord(i, c) == logs[i][c][offset[i][c] + 1]

HashOf(i, record) == KeyHash(KeyOf[i][record.kind])

StateFor(i, c) == monitors[i][c][HashOf(i, NextRecord(i, c))]

(* The processor of channel c is given the next record.                    *)
Consume(i, c) ==
  /\ job = "running" /\ Unread(i, c)
  /\ LET r == NextRecord(i, c) IN
     IF r.kind \notin Filter[i] THEN UNCHANGED <<monitors, alerts>>
     ELSE \E s \in GlobalMoves[i][StateFor(i, c)][r.kind] :
            /\ monitors' = [monitors EXCEPT ![i][c][HashOf(i, r)] = s]
            /\ alerts' = IF s \in GlobalFinals[i]
                         THEN [alerts EXCEPT ![i][c] = Append(@, r)] ELSE alerts
  /\ offset' = [offset EXCEPT ![i][c] = @ + 1]
  /\ UNCHANGED <<localVars, ghosts, logs, job, reruns>>

(* No move matches: the exception fails the whole job.                     *)
Fail(i, c) ==
  /\ job = "running" /\ Unread(i, c)
  /\ NextRecord(i, c).kind \in Filter[i]
  /\ GlobalMoves[i][StateFor(i, c)][NextRecord(i, c).kind] = {}
  /\ job' = "failed"
  /\ UNCHANGED <<localVars, ghosts, logs, offset, monitors, alerts, reruns>>

(* Mutant: states kept of the job before, though offsets are not.          *)
MutantRerun ==
  /\ reruns < MaxReruns
  /\ reruns' = reruns + 1
  /\ job' = "running"
  /\ offset' = Beginning
  /\ alerts' = NoOutput
  /\ UNCHANGED <<localVars, ghosts, logs, monitors>>

(* The job is stopped or has failed, and is submitted again: no state is   *)
(* kept, the topics are read from their earliest record and the output     *)
(* files are overwritten.                                                  *)
Rerun ==
  /\ reruns < MaxReruns
  /\ reruns' = reruns + 1
  /\ job' = "running"
  /\ offset' = Beginning
  /\ monitors' = StartStates
  /\ alerts' = NoOutput
  /\ UNCHANGED <<localVars, ghosts, logs>>

Step(n) == LocalStep(n) /\ UNCHANGED <<globalVars, ghosts>>

Flushing(n) ==
  /\ StartFlush(n) \/ EndInput(n) \/ FlushTimesOut(n)
  /\ UNCHANGED <<globalVars, ghosts>>

Delivers(n) == \E i \in Invariants, c \in Channels : Deliver(n, i, c)

Consumes == \E i \in Invariants, c \in Channels : Consume(i, c) \/ Fail(i, c)

Next ==
  \/ \E n \in Nodes :
       \/ \E kind \in Kinds : Comes(n, kind)
       \/ Step(n)
       \/ Flushing(n)
       \/ Delivers(n)
  \/ Consumes
  \/ Rerun

Spec == Init /\ [][Next]_vars

(* Flink runs a job that has records to read.                              *)
FairSpec == Spec /\ WF_vars(Consumes)

-----------------------------------------------------------------------------
(* Type invariant. A record waits for a topic its invariant has.           *)
LocalTypeOK ==
  /\ invList \in Orders
  /\ packet \in [Nodes -> Kinds \cup {NoPacket}]
  /\ at \in [Nodes -> Nat]
  /\ \A n \in Nodes : at[n] < NumInvariants /\ (packet[n] = NoPacket => at[n] = 0)
  /\ handled \in [Nodes -> Nat]
  /\ DOMAIN automata = Nodes
  /\ \A n \in Nodes : NodeType(automata[n])
  /\ buffer \in [Nodes -> Seq(Record)]
  /\ \A n \in Nodes : \A j \in DOMAIN buffer[n] : ChannelOf(buffer[n][j]) \in Channels
  /\ process \in [Nodes -> {"running", "flushing", "closing", "ended", "dead"}]

GlobalTypeOK ==
  /\ logs \in [Invariants -> [Channels -> Seq(LogRecord)]]
  /\ offset \in [Invariants -> [Channels -> Nat]]
  /\ \A i \in Invariants, c \in Channels : offset[i][c] <= Len(logs[i][c])
  /\ monitors \in [Invariants -> [Channels -> [Hashes -> GlobalStates]]]
  /\ alerts \in [Invariants -> [Channels -> Seq(LogRecord)]]
  /\ job \in {"running", "failed"}
  /\ reruns \in 0..MaxReruns

GhostTypeOK ==
  /\ DOMAIN ideal = Nodes
  /\ \A n \in Nodes : NodeType(ideal[n])
  /\ owed \in [Nodes -> [Invariants -> Seq(Kinds)]]

TypeOK == LocalTypeOK /\ GlobalTypeOK /\ GhostTypeOK

(* Invariants do not disturb each other (the reset of out at the end of    *)
(* the loop in main.cpp): whatever the order of invList and whichever      *)
(* invariants forward a packet, each one's automata are those of a node    *)
(* that hands every packet to every invariant at once.                     *)
InvariantsIndependent ==
  \A n \in Nodes : process[n] # "dead" =>
    \A j \in 1..NumInvariants :
      LET i == invList[j]
      IN ideal[n][i] =
           IF packet[n] = NoPacket \/ j <= at[n] THEN automata[n][i]
           ELSE Process(automata[n], i, packet[n])[i]

(* What of sequence s is in S, in order: SelectSeq, as a function that     *)
(* proofs can unfold.                                                      *)
Keep(s, S) ==
  LET kept[j \in 0..Len(s)] ==
        IF j = 0 THEN <<>>
        ELSE IF s[j] \in S THEN Append(kept[j - 1], s[j]) ELSE kept[j - 1]
  IN kept[Len(s)]

KindsOf(records) == [j \in DOMAIN records |-> records[j].kind]

(* The kinds of the records of topic <<i, c>>.                             *)
TopicKinds(i, c) == {kind \in Kinds : Channel(KeyOf[i][kind]) = c}

(* What node n has delivered to topic <<i, c>>, and what it owes to it.    *)
Delivered(n, i, c) == KindsOf(Keep(logs[i][c], [node : {n}, kind : Kinds]))

Owed(n, i, c) == Keep(owed[n][i], TopicKinds(i, c))

(* A topic holds the first of the records a node owes it, in order and     *)
(* once each, wherever the node stops (a throw, a full queue, a flush that *)
(* times out); all of them if it ended normally.                           *)
OnlyTheLastAreLost ==
  \A n \in Nodes, i \in Invariants, c \in Channels :
    LET d == Delivered(n, i, c)
        o == Owed(n, i, c)
    IN /\ Len(d) <= Len(o) /\ d = SubSeq(o, 1, Len(d))
       /\ process[n] = "ended" => d = o

-----------------------------------------------------------------------------
(* The keys of an invariant that share neither channel and hash with       *)
(* another one, on a channel the job reads.                                *)
KeysOf(i) == {KeyOf[i][kind] : kind \in Kinds}

Monitors ==
  {m \in Invariants \X Keys :
     /\ m[2] \in KeysOf(m[1])
     /\ FilesPerInvariant > 0 /\ Channel(m[2]) < ChannelsRead
     /\ \A other \in KeysOf(m[1]) \ {m[2]} :
          <<Channel(other), KeyHash(other)>> # <<Channel(m[2]), KeyHash(m[2])>>}

KindsOfKey == [m \in Monitors |-> {kind \in Kinds : KeyOf[m[1]][kind] = m[2]}]

GoesTo(m, state, kind) == GlobalMoves[m[1]][state][kind]

OwedKinds(n, m) == Keep(owed[n][m[1]], KindsOfKey[m])

(* How many of the first k elements of s are in S.                         *)
Count(s, k, S) == Cardinality({j \in 1..k : s[j] \in S})

TakenFrom(n, m) ==
  LET c == Channel(m[2])
  IN Count(logs[m[1]][c], offset[m[1]][c], [node : {n}, kind : KindsOfKey[m]])

AlertsFor(m) ==
  LET raised == alerts[m[1]][Channel(m[2])]
  IN Count(raised, Len(raised), [node : Nodes, kind : KindsOfKey[m]])

StateOf(m) == monitors[m[1]][Channel(m[2])][KeyHash(m[2])]

Keyed == INSTANCE KeyedMonitors WITH
  MonitorStates <- GlobalStates,
  StartOf <- [m \in Monitors |-> GlobalStart[m[1]]],
  FinalsOf <- [m \in Monitors |-> GlobalFinals[m[1]]],
  Goes <- GoesTo,
  forwarded <- [n \in Nodes |-> [m \in Monitors |-> OwedKinds(n, m)]],
  taken <- [n \in Nodes |-> [m \in Monitors |-> TakenFrom(n, m)]],
  current <- [m \in Monitors |-> StateOf(m)],
  raised <- [m \in Monitors |-> AlertsFor(m)]

(* Verifiers, topics and job implement one monitor per key: the records of *)
(* a key reach one processor, in the order of each node, once each between *)
(* two submissions of the job, and no other key's records do, for every    *)
(* key whose hash is its own on its channel.                               *)
KeyedSpec == Keyed!Spec

(* Once every verifier has stopped, every record of every topic is         *)
(* consumed, unless the job fails: none is left in a topic that verifiers  *)
(* write and the job does not read (filesPerInvariant of main.cpp against  *)
(* channel_per_invariant of Verifier.java), or behind its last read.       *)
EventuallyConsumed ==
  (\A n \in Nodes : process[n] \in {"ended", "dead"})
    ~> (job = "failed" \/
        \A i \in Invariants, c \in Channels : offset[i][c] = Len(logs[i][c]))

=============================================================================
