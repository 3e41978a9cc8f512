--------------------------- MODULE PipelineProofs ---------------------------
(***************************************************************************)
(* Proofs about Pipeline, for every set of invariants and automata, any    *)
(* number of nodes and channels and every hash.                            *)
(***************************************************************************)
EXTENDS Pipeline, WellFoundedInduction, FiniteSetTheorems, SequenceTheorems, TLAPS

-----------------------------------------------------------------------------
(* Counting                                                                *)

LEMMA Counts ==
  /\ NumInvariants \in Nat \ {0}
  /\ FilesPerInvariant \in Nat
<1>1. NumInvariants \in Nat
  BY FS_CardinalityType, LocalAssumption DEF NumInvariants
<1>2. NumInvariants # 0
  BY FS_EmptySet, LocalAssumption DEF NumInvariants
<1>3. \A a \in Nat, b \in Nat \ {0} : a \div b \in Nat
  OBVIOUS
<1>4. NumberOfChannels \in Nat
  BY LocalAssumption
<1> QED
  BY <1>1, <1>2, <1>3, <1>4 DEF FilesPerInvariant

(* A record that is produced goes to a channel its invariant has.          *)
LEMMA ChannelType ==
  ASSUME NEW key \in Keys, FilesPerInvariant > 0
  PROVE  Channel(key) \in Channels
<1>1. \A a \in Nat, b \in Nat \ {0} : a % b \in 0..(b - 1)
  OBVIOUS
<1>2. StringHash[key] \in Nat
  BY LocalAssumption
<1> QED
  BY <1>1, <1>2, Counts DEF Channel, Channels

-----------------------------------------------------------------------------
(* Operators of LocalVerifier                                              *)

(* A non-empty set of positions has a least one.                           *)
LEMMA LeastPosition ==
  ASSUME NEW S \in SUBSET Nat, S # {}
  PROVE  \E m \in S : \A n \in S : m <= n
<1>1. PICK m \in S : \A n \in S : ~ (<<n, m>> \in OpToRel(<, Nat))
  BY NatLessThanWellFounded, WFMin
<1>2. \A n \in S : ~ (n < m)
  BY <1>1 DEF OpToRel
<1> QED
  BY <1>2

LEMMA TakenType ==
  ASSUME NEW a \in Automaton, NEW s \in States, NEW kind \in Kinds,
         Open(a, s, kind) # {}
  PROVE  Taken(a, s, kind).to \in States
<1>1. a.moves[s] \in Seq(Move)
  BY DEF Automaton
<1>2. Open(a, s, kind) \in SUBSET Nat
  BY <1>1 DEF Open
<1> DEFINE first == CHOOSE j \in Open(a, s, kind) : \A k \in Open(a, s, kind) : j <= k
<1>3. first \in Open(a, s, kind)
  BY <1>2, LeastPosition
<1>4. first \in DOMAIN a.moves[s]
  BY <1>3 DEF Open
<1>5. \A sequence \in Seq(Move) : \A j \in DOMAIN sequence : sequence[j] \in Move
  OBVIOUS
<1>6. a.moves[s][first] \in Move
  BY <1>1, <1>4, <1>5
<1> QED
  BY <1>6 DEF Taken, Move

LEMMA AdvancedType ==
  ASSUME NEW i \in Invariants, NEW states \in LocalStates(i), NEW kind \in Kinds,
         ~ Throws(i, states, kind)
  PROVE  Advanced(i, states, kind) \in LocalStates(i)
<1>1. ASSUME NEW k \in DOMAIN Locals[i]
      PROVE  Taken(Locals[i][k], states[k], kind).to \in States
  <2>1. Locals[i] \in Seq(Automaton)
    BY LocalAssumption
  <2>2. Locals[i][k] \in Automaton /\ states[k] \in States
    BY <2>1 DEF LocalStates
  <2>3. Open(Locals[i][k], states[k], kind) # {}
    BY DEF Throws
  <2> QED
    BY <2>2, <2>3, TakenType
<1> QED
  BY <1>1 DEF Advanced, LocalStates

LEMMA FreshType ==
  ASSUME NEW i \in Invariants
  PROVE  Fresh(i) \in LocalStates(i)
<1>1. Locals[i] \in Seq(Automaton)
  BY LocalAssumption
<1>2. \A sequence \in Seq(Automaton) : \A k \in DOMAIN sequence : sequence[k] \in Automaton
  OBVIOUS
<1>3. \A k \in DOMAIN Locals[i] : Locals[i][k].start \in States
  BY <1>1, <1>2 DEF Automaton
<1> QED
  BY <1>3 DEF Fresh, LocalStates

LEMMA ProcessType ==
  ASSUME NEW all, NodeType(all), NEW i \in Invariants, NEW kind \in Kinds
  PROVE  NodeType(Process(all, i, kind))
<1> DEFINE key == KeyOf[i][kind]
<1>1. key \in Keys
  BY LocalAssumption
<1>2. CASE kind \notin Filter[i] \/ Throws(i, all[i][key], kind)
  BY <1>2 DEF Process
<1>3. CASE ~ (kind \notin Filter[i] \/ Throws(i, all[i][key], kind))
  <2>1. Advanced(i, all[i][key], kind) \in LocalStates(i)
    BY <1>1, <1>3, AdvancedType DEF NodeType
  <2>2. Process(all, i, kind) = [all EXCEPT ![i][key] = Advanced(i, all[i][key], kind)]
    BY <1>3 DEF Process
  <2> HIDE DEF key
  <2> QED
    BY <1>1, <2>1, <2>2 DEF NodeType
<1> QED
  BY <1>2, <1>3

(* Handing a packet to one invariant neither reads nor changes another.    *)
LEMMA ProcessOwn ==
  ASSUME NEW all, NodeType(all), NEW i \in Invariants, NEW kind \in Kinds
  PROVE  /\ \A other \in Invariants \ {i} : Process(all, i, kind)[other] = all[other]
         /\ \A some : NodeType(some) /\ some[i] = all[i] =>
              Process(some, i, kind)[i] = Process(all, i, kind)[i]
<1> DEFINE key == KeyOf[i][kind]
<1>1. \A other \in Invariants \ {i} : Process(all, i, kind)[other] = all[other]
  BY DEF Process, NodeType
<1>2. ASSUME NEW some, NodeType(some), some[i] = all[i]
      PROVE  Process(some, i, kind)[i] = Process(all, i, kind)[i]
  BY <1>2 DEF Process, NodeType
<1> QED
  BY <1>1, <1>2

-----------------------------------------------------------------------------
(* Type invariant                                                          *)

LEMMA TypeInit == Init => TypeOK
<1> SUFFICES ASSUME Init PROVE TypeOK
  OBVIOUS
<1> USE Counts DEF Init, LocalInit
<1>1. NodeType([i \in Invariants |-> [k \in Keys |-> Fresh(i)]])
  BY FreshType DEF NodeType
<1>2. /\ invList \in Orders
      /\ packet \in [Nodes -> Kinds \cup {NoPacket}]
      /\ at \in [Nodes -> Nat]
      /\ \A n \in Nodes : at[n] < NumInvariants /\ (packet[n] = NoPacket => at[n] = 0)
      /\ handled \in [Nodes -> Nat]
  OBVIOUS
<1>3. /\ DOMAIN automata = Nodes /\ DOMAIN ideal = Nodes
      /\ \A n \in Nodes : NodeType(automata[n]) /\ NodeType(ideal[n])
  BY <1>1
<1>4. /\ buffer \in [Nodes -> Seq(Record)]
      /\ \A n \in Nodes : \A j \in DOMAIN buffer[n] : ChannelOf(buffer[n][j]) \in Channels
      /\ process \in [Nodes -> {"running", "flushing", "closing", "ended", "dead"}]
      /\ owed \in [Nodes -> [Invariants -> Seq(Kinds)]]
  OBVIOUS
<1>5. /\ logs \in [Invariants -> [Channels -> Seq(LogRecord)]]
      /\ alerts \in [Invariants -> [Channels -> Seq(LogRecord)]]
      /\ offset \in [Invariants -> [Channels -> Nat]]
      /\ \A i \in Invariants, c \in Channels : offset[i][c] <= Len(logs[i][c])
  BY DEF NoOutput, Beginning
<1>6. /\ monitors \in [Invariants -> [Channels -> [Hashes -> GlobalStates]]]
      /\ job \in {"running", "failed"} /\ reruns \in 0..MaxReruns
  BY PipelineAssumption DEF StartStates
<1> QED
  BY <1>2, <1>3, <1>4, <1>5, <1>6 DEF TypeOK, LocalTypeOK, GlobalTypeOK, GhostTypeOK

(* The invariant whose turn it is.                                         *)
LEMMA TurnType ==
  ASSUME LocalTypeOK, NEW n \in Nodes
  PROVE  Turn(n) \in Invariants
<1>1. at[n] + 1 \in 1..NumInvariants
  BY Counts DEF LocalTypeOK
<1> QED
  BY <1>1 DEF Turn, LocalTypeOK, Orders

LEMMA HandleType ==
  ASSUME TypeOK, NEW n \in Nodes, Handle(n)
  PROVE  LocalTypeOK'
<1> DEFINE i == Turn(n)
           kind == packet[n]
<1> USE DEF TypeOK
<1>1. i \in Invariants /\ kind \in Kinds
  BY TurnType DEF Handle, LocalTypeOK
<1>2. NodeType(Process(automata[n], i, kind))
  BY <1>1, ProcessType DEF LocalTypeOK
<1>3. DOMAIN automata' = Nodes /\ \A m \in Nodes : NodeType(automata'[m])
  BY <1>2 DEF Handle, LocalTypeOK
<1>4. /\ buffer' \in [Nodes -> Seq(Record)]
      /\ \A m \in Nodes : \A j \in DOMAIN buffer'[m] : ChannelOf(buffer'[m][j]) \in Channels
  <2>1. CASE ~ Forwarding(n)
    BY <2>1 DEF Handle, LocalTypeOK
  <2>2. CASE Forwarding(n)
    <3> DEFINE r == [inv |-> i, kind |-> kind]
    <3>1. r \in Record
      BY <1>1 DEF Record
    <3>2. ChannelOf(r) \in Channels
      <4>1. KeyOf[i][kind] \in Keys
        BY <1>1, LocalAssumption
      <4>2. ChannelOf(r) = Channel(KeyOf[i][kind])
        BY DEF ChannelOf
      <4> QED
        BY <2>2, <4>1, <4>2, ChannelType DEF Handle
    <3>3. buffer' = [buffer EXCEPT ![n] = Append(@, r)]
      BY <2>2 DEF Handle
    <3>4. buffer[n] \in Seq(Record)
      BY DEF LocalTypeOK
    <3> HIDE DEF r
    <3>5. \A j \in DOMAIN Append(buffer[n], r) : ChannelOf(Append(buffer[n], r)[j]) \in Channels
      BY <3>1, <3>2, <3>4 DEF LocalTypeOK
    <3> QED
      BY <3>1, <3>3, <3>4, <3>5 DEF LocalTypeOK
  <2> QED
    BY <2>1, <2>2
<1>5. /\ packet' \in [Nodes -> Kinds \cup {NoPacket}]
      /\ at' \in [Nodes -> Nat]
      /\ \A m \in Nodes : at'[m] < NumInvariants /\ (packet'[m] = NoPacket => at'[m] = 0)
  <2>1. /\ packet[n] # NoPacket /\ at[n] \in Nat /\ NumInvariants \in Nat \ {0}
        /\ packet \in [Nodes -> Kinds \cup {NoPacket}] /\ at \in [Nodes -> Nat]
        /\ \A m \in Nodes : at[m] < NumInvariants /\ (packet[m] = NoPacket => at[m] = 0)
    BY Counts DEF Handle, LocalTypeOK
  <2>2. CASE at[n] + 1 < NumInvariants /\ at' = [at EXCEPT ![n] = @ + 1] /\ packet' = packet
    BY <2>1, <2>2
  <2>3. CASE at' = [at EXCEPT ![n] = 0] /\ packet' = [packet EXCEPT ![n] = NoPacket]
    BY <2>1, <2>3
  <2> QED
    BY <2>2, <2>3 DEF Handle
<1>6. UNCHANGED <<invList, handled, process>>
  BY DEF Handle
<1> QED
  BY <1>3, <1>4, <1>5, <1>6 DEF LocalTypeOK

(* What is left of a sequence without its j-th element.                    *)
LEMMA WithoutOne ==
  ASSUME NEW X, NEW q \in Seq(X), NEW j \in 1..Len(q)
  PROVE  LET rest == SubSeq(q, 1, j - 1) \o SubSeq(q, j + 1, Len(q))
         IN /\ rest \in Seq(X)
            /\ \A k \in DOMAIN rest : \E l \in DOMAIN q : rest[k] = q[l]
<1> DEFINE front == SubSeq(q, 1, j - 1)
           back == SubSeq(q, j + 1, Len(q))
           Kept == {q[l] : l \in DOMAIN q}
<1>1. front \in Seq(Kept)
  <2>1. /\ Len(front) \in Nat /\ DOMAIN front = 1..Len(front)
        /\ \A k \in 1..Len(front) : front[k] \in Kept
    OBVIOUS
  <2>2. front = [k \in 1..Len(front) |-> front[k]]
    OBVIOUS
  <2> HIDE DEF front, Kept
  <2> QED
    BY <2>1, <2>2
<1>2. back \in Seq(Kept)
  <2>1. /\ Len(back) \in Nat /\ DOMAIN back = 1..Len(back)
        /\ \A k \in 1..Len(back) : back[k] \in Kept
    OBVIOUS
  <2>2. back = [k \in 1..Len(back) |-> back[k]]
    OBVIOUS
  <2> HIDE DEF back, Kept
  <2> QED
    BY <2>1, <2>2
<1>3. Kept \subseteq X
  OBVIOUS
<1>4. front \o back \in Seq(Kept)
  <2> HIDE DEF front, back, Kept
  <2> QED
    BY <1>1, <1>2, ConcatProperties
<1>5. /\ front \o back \in Seq(X)
      /\ \A k \in DOMAIN (front \o back) : (front \o back)[k] \in Kept
  <2> HIDE DEF front, back, Kept
  <2>1. \A rest \in Seq(Kept) : rest \in Seq(X) /\ \A k \in DOMAIN rest : rest[k] \in Kept
    BY <1>3
  <2> QED
    BY <1>4, <2>1, Zenon
<1> QED
  BY <1>5

LEMMA DeliverType ==
  ASSUME TypeOK, NEW n \in Nodes, NEW i \in Invariants, NEW c \in Channels, Deliver(n, i, c)
  PROVE  TypeOK'
<1> USE DEF TypeOK
<1>1. PICK j \in DOMAIN buffer[n] :
        /\ logs' = [logs EXCEPT ![i][c] = Append(@, [node |-> n, kind |-> buffer[n][j].kind])]
        /\ buffer' = [buffer EXCEPT ![n] = SubSeq(@, 1, j - 1) \o SubSeq(@, j + 1, Len(@))]
        /\ UNCHANGED <<invList, packet, at, handled, automata, process>>
        /\ UNCHANGED <<offset, monitors, alerts, job, reruns, ghosts>>
  BY DEF Deliver
<1> DEFINE r == [node |-> n, kind |-> buffer[n][j].kind]
           rest == SubSeq(buffer[n], 1, j - 1) \o SubSeq(buffer[n], j + 1, Len(buffer[n]))
<1>2. buffer[n] \in Seq(Record) /\ j \in 1..Len(buffer[n])
  BY DEF LocalTypeOK
<1>3. r \in LogRecord
  <2>1. \A q \in Seq(Record) : \A k \in 1..Len(q) : q[k] \in Record
    OBVIOUS
  <2>2. buffer[n][j].kind \in Kinds
    BY <1>2, <2>1 DEF Record
  <2> QED
    BY <2>2 DEF LogRecord
<1>4. /\ rest \in Seq(Record)
      /\ \A k \in DOMAIN rest : \E l \in DOMAIN buffer[n] : rest[k] = buffer[n][l]
  BY <1>2, WithoutOne
<1>5. /\ buffer' \in [Nodes -> Seq(Record)]
      /\ \A m \in Nodes : \A k \in DOMAIN buffer'[m] : ChannelOf(buffer'[m][k]) \in Channels
  <2>1. buffer' = [buffer EXCEPT ![n] = rest]
    BY <1>1
  <2>2. \A k \in DOMAIN rest : ChannelOf(rest[k]) \in Channels
    BY <1>4 DEF LocalTypeOK
  <2> HIDE DEF rest
  <2> QED
    BY <1>4, <2>1, <2>2 DEF LocalTypeOK
<1>6. LocalTypeOK'
  BY <1>1, <1>5 DEF LocalTypeOK
<1>7. /\ logs' \in [Invariants -> [Channels -> Seq(LogRecord)]]
      /\ \A o \in Invariants, d \in Channels : offset[o][d] <= Len(logs'[o][d])
  <2>1. logs' = [logs EXCEPT ![i][c] = Append(logs[i][c], r)]
    BY <1>1 DEF GlobalTypeOK
  <2>2. logs[i][c] \in Seq(LogRecord) /\ offset[i][c] \in Nat
    BY DEF GlobalTypeOK
  <2> HIDE DEF r
  <2>3. Append(logs[i][c], r) \in Seq(LogRecord) /\ Len(Append(logs[i][c], r)) = Len(logs[i][c]) + 1
    BY <1>3, <2>2
  <2> QED
    BY <2>1, <2>2, <2>3 DEF GlobalTypeOK
<1>8. GlobalTypeOK'
  BY <1>1, <1>7 DEF GlobalTypeOK
<1>9. GhostTypeOK'
  BY <1>1 DEF GhostTypeOK, ghosts
<1> QED
  BY <1>6, <1>8, <1>9

LEMMA ComesType ==
  ASSUME TypeOK, NEW n \in Nodes, NEW kind \in Kinds, Comes(n, kind)
  PROVE  TypeOK'
<1> USE DEF TypeOK
<1>1. LocalTypeOK'
  <2>1. /\ packet' = [packet EXCEPT ![n] = kind]
        /\ handled' = [handled EXCEPT ![n] = @ + 1]
        /\ packet[n] = NoPacket
        /\ UNCHANGED <<invList, at, automata, buffer, process>>
    BY DEF Comes, NextPacket, Idle
  <2>2. /\ packet' \in [Nodes -> Kinds \cup {NoPacket}]
        /\ \A m \in Nodes : packet'[m] = NoPacket => packet[m] = NoPacket
        /\ handled' \in [Nodes -> Nat]
    BY <2>1 DEF LocalTypeOK
  <2> QED
    BY <2>1, <2>2 DEF LocalTypeOK
<1>2. GlobalTypeOK'
  BY DEF Comes, GlobalTypeOK, globalVars
<1>3. GhostTypeOK'
  <2> DEFINE handed == [i \in Invariants |-> Process(ideal[n], i, kind)[i]]
  <2>1. \A i \in Invariants : NodeType(Process(ideal[n], i, kind))
    BY ProcessType DEF GhostTypeOK
  <2>2. NodeType(handed)
    <3>1. ASSUME NEW i \in Invariants
          PROVE  /\ handed[i] = [key \in Keys |-> handed[i][key]]
                 /\ \A key \in Keys : handed[i][key] \in LocalStates(i)
      <4> DEFINE all == Process(ideal[n], i, kind)
      <4>1. /\ all[i] = [key \in Keys |-> all[i][key]]
            /\ \A key \in Keys : all[i][key] \in LocalStates(i)
        <5> HIDE DEF all
        <5>1. NodeType(all)
          BY <2>1 DEF all
        <5> QED
          BY <5>1 DEF NodeType
      <4> HIDE DEF all
      <4>2. handed[i] = all[i]
        BY DEF all
      <4> QED
        BY <4>1, <4>2
    <3> HIDE DEF handed
    <3>2. handed = [i \in Invariants |-> handed[i]]
      BY DEF handed
    <3> QED
      BY <3>1, <3>2 DEF NodeType
  <2>3. ideal' = [ideal EXCEPT ![n] = handed]
    BY DEF Comes
  <2> HIDE DEF handed
  <2>4. DOMAIN ideal' = Nodes /\ \A m \in Nodes : NodeType(ideal'[m])
    BY <2>2, <2>3 DEF GhostTypeOK
  <2>5. owed' \in [Nodes -> [Invariants -> Seq(Kinds)]]
    BY DEF Comes, GhostTypeOK
  <2> QED
    BY <2>4, <2>5 DEF GhostTypeOK
<1> QED
  BY <1>1, <1>2, <1>3

LEMMA ConsumeType ==
  ASSUME TypeOK, NEW i \in Invariants, NEW c \in Channels, Consume(i, c)
  PROVE  GlobalTypeOK'
<1> DEFINE r == NextRecord(i, c)
<1>1. offset[i][c] \in Nat /\ offset[i][c] < Len(logs[i][c]) /\ logs[i][c] \in Seq(LogRecord)
  BY DEF Consume, Unread, TypeOK, GlobalTypeOK
<1>2. r \in LogRecord
  BY <1>1 DEF NextRecord
<1>3. HashOf(i, r) \in Hashes
  BY <1>2, LocalAssumption DEF HashOf, Hashes, LogRecord
<1>4. StateFor(i, c) \in GlobalStates
  BY <1>3 DEF StateFor, TypeOK, GlobalTypeOK
<1>5. GlobalMoves[i][StateFor(i, c)][r.kind] \subseteq GlobalStates
  BY <1>2, <1>4, PipelineAssumption DEF LogRecord
<1>6. /\ monitors' \in [Invariants -> [Channels -> [Hashes -> GlobalStates]]]
      /\ alerts' \in [Invariants -> [Channels -> Seq(LogRecord)]]
  <2>1. CASE r.kind \notin Filter[i]
    BY <2>1 DEF Consume, TypeOK, GlobalTypeOK
  <2>2. CASE r.kind \in Filter[i]
    <3>1. PICK s \in GlobalMoves[i][StateFor(i, c)][r.kind] :
            /\ monitors' = [monitors EXCEPT ![i][c][HashOf(i, r)] = s]
            /\ alerts' = IF s \in GlobalFinals[i]
                         THEN [alerts EXCEPT ![i][c] = Append(@, r)] ELSE alerts
      BY <2>2 DEF Consume
    <3> HIDE DEF r
    <3>2. s \in GlobalStates
      BY <1>5
    <3>3. monitors' \in [Invariants -> [Channels -> [Hashes -> GlobalStates]]]
      BY <1>3, <3>1, <3>2 DEF TypeOK, GlobalTypeOK
    <3>4. alerts' \in [Invariants -> [Channels -> Seq(LogRecord)]]
      BY <1>2, <3>1 DEF TypeOK, GlobalTypeOK
    <3> QED
      BY <3>3, <3>4
  <2> QED
    BY <2>1, <2>2
<1>7. /\ offset' \in [Invariants -> [Channels -> Nat]]
      /\ \A o \in Invariants, d \in Channels : offset'[o][d] <= Len(logs[o][d])
  <2>1. /\ offset \in [Invariants -> [Channels -> Nat]]
        /\ \A o \in Invariants, d \in Channels : offset[o][d] <= Len(logs[o][d])
    BY DEF TypeOK, GlobalTypeOK
  <2>2. offset' = [offset EXCEPT ![i][c] = @ + 1]
    BY DEF Consume
  <2>3. offset' \in [Invariants -> [Channels -> Nat]]
    BY <1>1, <2>1, <2>2
  <2>4. offset'[i][c] = offset[i][c] + 1 /\ offset[i][c] + 1 <= Len(logs[i][c])
    BY <1>1, <2>1, <2>2
  <2>5. ASSUME NEW o \in Invariants, NEW d \in Channels, <<o, d>> # <<i, c>>
        PROVE  offset'[o][d] = offset[o][d]
    BY <2>1, <2>2, <2>5
  <2> QED
    BY <2>1, <2>3, <2>4, <2>5
<1>8. UNCHANGED <<logs, job, reruns>>
  BY DEF Consume
<1> QED
  BY <1>6, <1>7, <1>8 DEF TypeOK, GlobalTypeOK

LEMMA TypeStep == TypeOK /\ [Next]_vars => TypeOK'
<1> SUFFICES ASSUME TypeOK, [Next]_vars PROVE TypeOK'
  OBVIOUS
<1> USE DEF TypeOK
<1>1. CASE UNCHANGED vars
  BY <1>1 DEF vars, localVars, globalVars, ghosts, LocalTypeOK, GlobalTypeOK, GhostTypeOK
<1>2. ASSUME NEW n \in Nodes, Step(n) PROVE TypeOK'
  <2>1. GlobalTypeOK' /\ GhostTypeOK'
    BY <1>2 DEF Step, globalVars, ghosts, GlobalTypeOK, GhostTypeOK
  <2>2. CASE Handle(n)
    BY <2>1, <2>2, HandleType
  <2>3. CASE Die(n)
    BY <2>1, <2>3 DEF Die, LocalTypeOK
  <2>4. CASE EndFlush(n)
    BY <2>1, <2>4 DEF EndFlush, LocalTypeOK
  <2> QED
    BY <1>2, <2>2, <2>3, <2>4 DEF Step, LocalStep
<1>3. ASSUME NEW n \in Nodes, Flushing(n) PROVE TypeOK'
  <2>1. GlobalTypeOK' /\ GhostTypeOK'
    BY <1>3 DEF Flushing, globalVars, ghosts, GlobalTypeOK, GhostTypeOK
  <2>2. LocalTypeOK'
    BY <1>3 DEF Flushing, StartFlush, EndInput, FlushTimesOut, LocalTypeOK
  <2> QED
    BY <2>1, <2>2
<1>4. ASSUME NEW i \in Invariants, NEW c \in Channels, Consume(i, c) PROVE TypeOK'
  BY <1>4, ConsumeType DEF Consume, localVars, ghosts, LocalTypeOK, GhostTypeOK
<1>5. ASSUME NEW i \in Invariants, NEW c \in Channels, Fail(i, c) PROVE TypeOK'
  BY <1>5 DEF Fail, localVars, ghosts, LocalTypeOK, GlobalTypeOK, GhostTypeOK
<1>6. CASE Rerun
  <2>1. LocalTypeOK' /\ GhostTypeOK'
    BY <1>6 DEF Rerun, localVars, ghosts, LocalTypeOK, GhostTypeOK
  <2>2. GlobalTypeOK'
    BY <1>6, PipelineAssumption
    DEF Rerun, Beginning, StartStates, NoOutput, GlobalTypeOK
  <2> QED
    BY <2>1, <2>2
<1> QED
  BY <1>1, <1>2, <1>3, <1>4, <1>5, <1>6, ComesType, DeliverType
  DEF Next, Delivers, Consumes

(* Types: for every instance, and every record waits for a topic that its  *)
(* invariant has.                                                          *)
THEOREM PipelineTyping == Spec => []TypeOK
<1>1. Init => TypeOK
  BY TypeInit
<1>2. TypeOK /\ [Next]_vars => TypeOK'
  BY TypeStep
<1> QED
  BY <1>1, <1>2, PTL DEF Spec

-----------------------------------------------------------------------------
(* Independence of the invariants                                          *)

(* What InvariantsIndependent says of one node.                            *)
Whole(n) ==
  \A j \in 1..NumInvariants :
    ideal[n][invList[j]] =
      IF packet[n] = NoPacket \/ j <= at[n] THEN automata[n][invList[j]]
      ELSE Process(automata[n], invList[j], packet[n])[invList[j]]

LEMMA WholeIsIndependent ==
  InvariantsIndependent <=> \A n \in Nodes : process[n] # "dead" => Whole(n)
BY DEF InvariantsIndependent, Whole

LEMMA HandleWhole ==
  ASSUME TypeOK, NEW n \in Nodes, Handle(n), Whole(n), ideal' = ideal
  PROVE  Whole(n)'
<1> DEFINE i == Turn(n)
           kind == packet[n]
<1>1. /\ i \in Invariants /\ kind \in Kinds
      /\ NodeType(automata[n]) /\ invList \in Orders
      /\ at[n] \in Nat /\ at[n] < NumInvariants /\ i = invList[at[n] + 1]
  BY TurnType DEF Handle, TypeOK, LocalTypeOK, Turn
<1>2. NumInvariants \in Nat \ {0}
  BY Counts
<1>3. invList' = invList /\ automata'[n] = Process(automata[n], i, kind)
  BY DEF Handle, TypeOK, LocalTypeOK
<1>4. NodeType(automata'[n])
  BY <1>1, <1>3, ProcessType
<1>5. \/ at'[n] = at[n] + 1 /\ packet'[n] = packet[n]
      \/ at[n] + 1 = NumInvariants /\ packet'[n] = NoPacket
  BY <1>1, <1>2 DEF Handle, TypeOK, LocalTypeOK
<1>6. kind # NoPacket
  BY DEF Handle
<1> HIDE DEF i, kind
<1>7. ASSUME NEW j \in 1..NumInvariants
      PROVE  ideal[n][invList[j]] =
               IF packet'[n] = NoPacket \/ j <= at'[n] THEN automata'[n][invList[j]]
               ELSE Process(automata'[n], invList[j], packet'[n])[invList[j]]
  <2> DEFINE own == invList[j]
  <2>1. own \in Invariants
    BY <1>1 DEF Orders
  <2>2. ideal[n][own] =
          IF j <= at[n] THEN automata[n][own] ELSE Process(automata[n], own, kind)[own]
    BY <1>6 DEF Whole, kind
  <2>3. CASE j = at[n] + 1
    <3>1. own = i /\ ~ (j <= at[n])
      BY <1>1, <2>3
    <3>2. ideal[n][own] = automata'[n][own]
      BY <1>3, <2>2, <3>1
    <3>3. packet'[n] = NoPacket \/ j <= at'[n]
      BY <1>1, <1>5, <2>3
    <3> QED
      BY <3>2, <3>3
  <2>4. CASE j # at[n] + 1
    <3>1. own # i
      BY <1>1, <1>2, <2>4 DEF Orders
    <3>2. automata'[n][own] = automata[n][own]
      BY <1>1, <1>3, <2>1, <3>1, ProcessOwn
    <3>3. Process(automata'[n], own, kind)[own] = Process(automata[n], own, kind)[own]
      BY <1>1, <1>4, <2>1, <3>2, ProcessOwn
    <3>4. CASE j <= at[n]
      <4>1. packet'[n] = NoPacket \/ j <= at'[n]
        BY <1>1, <1>5, <3>4
      <4> QED
        BY <2>2, <3>2, <3>4, <4>1
    <3>5. CASE ~ (j <= at[n])
      <4>1. at[n] + 1 # NumInvariants
        BY <1>1, <1>2, <2>4, <3>5
      <4>2. at'[n] = at[n] + 1 /\ packet'[n] = packet[n]
        BY <1>5, <4>1
      <4>3. ~ (j <= at'[n]) /\ packet'[n] = kind
        BY <1>1, <2>4, <3>5, <4>2 DEF kind
      <4> QED
        BY <1>6, <2>2, <3>3, <3>5, <4>3
    <3> QED
      BY <3>4, <3>5
  <2> QED
    BY <2>3, <2>4
<1> QED
  BY <1>3, <1>7 DEF Whole

LEMMA ComesWhole ==
  ASSUME TypeOK, NEW n \in Nodes, NEW kind \in Kinds, Comes(n, kind), Whole(n)
  PROVE  Whole(n)'
<1>1. /\ packet[n] = NoPacket /\ packet'[n] = kind /\ at'[n] = 0
      /\ invList' = invList /\ automata' = automata /\ invList \in Orders
      /\ NodeType(ideal[n]) /\ NodeType(automata[n])
  BY DEF Comes, NextPacket, Idle, TypeOK, LocalTypeOK, GhostTypeOK
<1>2. ideal'[n] = [i \in Invariants |-> Process(ideal[n], i, kind)[i]]
  BY DEF Comes, TypeOK, GhostTypeOK
<1>3. kind # NoPacket
  BY LocalAssumption
<1>4. ASSUME NEW j \in 1..NumInvariants
      PROVE  ideal'[n][invList[j]] = Process(automata[n], invList[j], kind)[invList[j]]
  <2>1. invList[j] \in Invariants
    BY <1>1 DEF Orders
  <2>2. ideal[n][invList[j]] = automata[n][invList[j]]
    BY <1>1 DEF Whole
  <2>3. Process(ideal[n], invList[j], kind)[invList[j]]
          = Process(automata[n], invList[j], kind)[invList[j]]
    BY <1>1, <2>1, <2>2, ProcessOwn
  <2> QED
    BY <1>2, <2>1, <2>3
<1>5. \A j \in 1..NumInvariants : ~ (j <= 0)
  BY Counts
<1> QED
  BY <1>1, <1>3, <1>4, <1>5 DEF Whole

LEMMA IndependentStep ==
  TypeOK /\ InvariantsIndependent /\ [Next]_vars => InvariantsIndependent'
<1> SUFFICES ASSUME TypeOK, InvariantsIndependent, [Next]_vars
             PROVE  InvariantsIndependent'
  OBVIOUS
<1>1. \A m \in Nodes : process[m] # "dead" => Whole(m)
  BY WholeIsIndependent
<1>2. SUFFICES \A m \in Nodes : process'[m] # "dead" => Whole(m)'
  BY DEF InvariantsIndependent, Whole
<1>3. ASSUME UNCHANGED <<invList, packet, at, automata, ideal>>,
             \A m \in Nodes : process[m] = "dead" => process'[m] = "dead"
      PROVE  \A m \in Nodes : process'[m] # "dead" => Whole(m)'
  BY <1>1, <1>3 DEF Whole
<1>4. ASSUME NEW n \in Nodes, NEW m \in Nodes, m # n,
             UNCHANGED <<invList, packet[m], at[m], automata[m], ideal[m], process[m]>>,
             process'[m] # "dead"
      PROVE  Whole(m)'
  BY <1>1, <1>4 DEF Whole
<1>5. CASE UNCHANGED vars
  BY <1>3, <1>5 DEF vars, localVars, ghosts
<1>6. ASSUME NEW n \in Nodes, Step(n)
      PROVE  \A m \in Nodes : process'[m] # "dead" => Whole(m)'
  <2>1. CASE Handle(n)
    <3>1. ideal' = ideal /\ process' = process /\ process[n] # "dead"
      BY <1>6, <2>1 DEF Step, Handle, ghosts
    <3>2. Whole(n)'
      BY <1>1, <2>1, <3>1, HandleWhole
    <3>3. ASSUME NEW m \in Nodes, m # n
          PROVE  UNCHANGED <<invList, packet[m], at[m], automata[m], ideal[m], process[m]>>
      BY <2>1, <3>1, <3>3 DEF Handle, TypeOK, LocalTypeOK
    <3> QED
      BY <1>4, <3>2, <3>3
  <2>2. CASE Die(n)
    BY <1>3, <1>6, <2>2 DEF Step, Die, ghosts, TypeOK, LocalTypeOK
  <2>3. CASE EndFlush(n)
    BY <1>3, <1>6, <2>3 DEF Step, EndFlush, ghosts, TypeOK, LocalTypeOK
  <2> QED
    BY <1>6, <2>1, <2>2, <2>3 DEF Step, LocalStep
<1>7. ASSUME NEW n \in Nodes, Flushing(n)
      PROVE  \A m \in Nodes : process'[m] # "dead" => Whole(m)'
  BY <1>3, <1>7
  DEF Flushing, StartFlush, EndInput, FlushTimesOut, Idle, ghosts, TypeOK, LocalTypeOK
<1>8. ASSUME NEW n \in Nodes, NEW kind \in Kinds, Comes(n, kind)
      PROVE  \A m \in Nodes : process'[m] # "dead" => Whole(m)'
  <2>1. process' = process /\ process[n] # "dead"
    BY <1>8 DEF Comes, NextPacket, Idle
  <2>2. Whole(n)'
    BY <1>1, <1>8, <2>1, ComesWhole
  <2>3. ASSUME NEW m \in Nodes, m # n
        PROVE  UNCHANGED <<invList, packet[m], at[m], automata[m], ideal[m], process[m]>>
    BY <1>8, <2>1, <2>3 DEF Comes, NextPacket, TypeOK, LocalTypeOK, GhostTypeOK
  <2> QED
    BY <1>4, <2>2, <2>3
<1>9. ASSUME NEW n \in Nodes, NEW i \in Invariants, NEW c \in Channels, Deliver(n, i, c)
      PROVE  \A m \in Nodes : process'[m] # "dead" => Whole(m)'
  <2>1. UNCHANGED <<invList, packet, at, automata, process, ideal>>
    BY <1>9 DEF Deliver, ghosts
  <2> QED
    BY <1>3, <2>1
<1>10. ASSUME Consumes \/ Rerun
       PROVE  \A m \in Nodes : process'[m] # "dead" => Whole(m)'
  BY <1>3, <1>10 DEF Consumes, Consume, Fail, Rerun, localVars, ghosts
<1> QED
  BY <1>5, <1>6, <1>7, <1>8, <1>9, <1>10 DEF Next, Delivers

(* Invariants do not disturb each other, whatever they are and in whatever *)
(* order a packet is handed to them (the loop of main_process in main.cpp).*)
THEOREM Independence == Spec => []InvariantsIndependent
<1>1. Init => InvariantsIndependent
  BY DEF Init, LocalInit, InvariantsIndependent
<1> QED
  BY <1>1, TypeInit, TypeStep, IndependentStep, PTL DEF Spec

-----------------------------------------------------------------------------
(* Induction on numbers and on sequences, as sets closed under a step      *)

LEMMA EveryNumber ==
  ASSUME NEW S, 0 \in S, \A k \in Nat : k \in S => k + 1 \in S
  PROVE  Nat \subseteq S
<1>1. SUFFICES ASSUME Nat \ S # {} PROVE FALSE
  OBVIOUS
<1>2. PICK m \in Nat \ S : \A k \in Nat \ S : m <= k
  <2>1. \E m \in Nat \ S : \A k \in Nat \ S : m <= k
    BY <1>1, LeastPosition
  <2> QED
    BY <2>1
<1>3. m # 0
  BY <1>2
<1>4. m - 1 \in Nat /\ ~ (m <= m - 1) /\ m = (m - 1) + 1
  BY <1>2, <1>3
<1>5. m - 1 \in S
  BY <1>2, <1>4
<1> QED
  BY <1>2, <1>4, <1>5

LEMMA EverySequence ==
  ASSUME NEW X, NEW T, <<>> \in T,
         \A s \in Seq(X), x \in X : s \in T => Append(s, x) \in T
  PROVE  Seq(X) \subseteq T
<1> DEFINE S == {k \in Nat : \A s \in Seq(X) : Len(s) = k => s \in T}
<1>1. 0 \in S
  <2>1. \A s \in Seq(X) : Len(s) = 0 => s = <<>>
    OBVIOUS
  <2> QED
    BY <2>1
<1>2. ASSUME NEW k \in Nat, k \in S
      PROVE  k + 1 \in S
  <2>1. ASSUME NEW s \in Seq(X), Len(s) = k + 1
        PROVE  s \in T
    <3> DEFINE front == SubSeq(s, 1, k)
    <3>1. front \in Seq(X) /\ Len(front) = k /\ s[k + 1] \in X
      BY <2>1
    <3>2. s = Append(front, s[k + 1])
      BY <2>1
    <3>3. front \in T
      BY <1>2, <3>1
    <3> HIDE DEF front
    <3> QED
      BY <3>1, <3>2, <3>3
  <2> QED
    BY <2>1
<1>3. Nat \subseteq S
  <2> HIDE DEF S
  <2> QED
    BY <1>1, <1>2, EveryNumber
<1>4. \A s \in Seq(X) : Len(s) \in Nat
  OBVIOUS
<1> QED
  BY <1>3, <1>4

-----------------------------------------------------------------------------
(* Keep                                                                    *)

(* f is the function that Keep(s, S) computes along s.                     *)
KeepsAlong(f, s, S) ==
  f = [j \in 0..Len(s) |->
         IF j = 0 THEN <<>>
         ELSE IF s[j] \in S THEN Append(f[j - 1], s[j]) ELSE f[j - 1]]

LEMMA KeepsUnique ==
  ASSUME NEW X, NEW s \in Seq(X), NEW t \in Seq(X), NEW S, NEW f, NEW g,
         Len(s) <= Len(t), \A j \in 1..Len(s) : s[j] = t[j],
         KeepsAlong(f, s, S), KeepsAlong(g, t, S)
  PROVE  f[Len(s)] = g[Len(s)]
<1> DEFINE T == {k \in Nat : k <= Len(s) => f[k] = g[k]}
<1>1. Len(s) \in Nat /\ Len(t) \in Nat
  OBVIOUS
<1>2. 0 \in T
  BY <1>1 DEF KeepsAlong
<1>3. ASSUME NEW k \in Nat, k \in T
      PROVE  k + 1 \in T
  <2>1. SUFFICES ASSUME k + 1 <= Len(s) PROVE f[k + 1] = g[k + 1]
    OBVIOUS
  <2>2. f[k] = g[k] /\ s[k + 1] = t[k + 1]
    BY <1>1, <1>3, <2>1
  <2>3. k + 1 # 0 /\ (k + 1) - 1 = k /\ k + 1 \in 0..Len(s) /\ k + 1 \in 0..Len(t)
    BY <1>1, <2>1
  <2>4. f[k + 1] = IF s[k + 1] \in S THEN Append(f[k], s[k + 1]) ELSE f[k]
    BY <2>3 DEF KeepsAlong
  <2>5. g[k + 1] = IF t[k + 1] \in S THEN Append(g[k], t[k + 1]) ELSE g[k]
    BY <2>3 DEF KeepsAlong
  <2> QED
    BY <2>2, <2>4, <2>5
<1>4. Nat \subseteq T
  <2> HIDE DEF T
  <2> QED
    BY <1>2, <1>3, EveryNumber
<1> QED
  BY <1>1, <1>4

LEMMA KeepsExists ==
  ASSUME NEW X, NEW S
  PROVE  \A s \in Seq(X) : \E f : KeepsAlong(f, s, S)
<1> DEFINE T == {s \in Seq(X) : \E f : KeepsAlong(f, s, S)}
<1>1. <<>> \in T
  <2>1. KeepsAlong([j \in 0..0 |-> <<>>], <<>>, S)
    BY DEF KeepsAlong
  <2> QED
    BY <2>1
<1>2. ASSUME NEW s \in Seq(X), NEW x \in X, s \in T
      PROVE  Append(s, x) \in T
  <2>1. PICK f : KeepsAlong(f, s, S)
    BY <1>2
  <2> DEFINE t == Append(s, x)
             n == Len(s)
             g == [j \in 0..(n + 1) |->
                     IF j <= n THEN f[j] ELSE IF x \in S THEN Append(f[n], x) ELSE f[n]]
  <2>2. /\ t \in Seq(X) /\ Len(t) = n + 1 /\ n \in Nat
        /\ t[n + 1] = x /\ \A j \in 1..n : t[j] = s[j]
    OBVIOUS
  <2>3. ASSUME NEW j \in 0..(n + 1)
        PROVE  g[j] = IF j = 0 THEN <<>>
                      ELSE IF t[j] \in S THEN Append(g[j - 1], t[j]) ELSE g[j - 1]
    <3> HIDE DEF t
    <3>1. CASE j = 0
      BY <2>1, <2>2, <3>1 DEF KeepsAlong
    <3>2. CASE j \in 1..n
      <4>1. j - 1 \in 0..n /\ j \in 0..n /\ j # 0 /\ j - 1 <= n /\ j <= n
        BY <2>2, <3>2
      <4>2. g[j] = f[j] /\ g[j - 1] = f[j - 1]
        BY <2>2, <4>1
      <4>3. f[j] = IF s[j] \in S THEN Append(f[j - 1], s[j]) ELSE f[j - 1]
        BY <2>1, <4>1 DEF KeepsAlong
      <4> QED
        BY <2>2, <3>2, <4>1, <4>2, <4>3
    <3>3. CASE j = n + 1
      <4>1. ~ (j <= n) /\ j - 1 = n /\ n <= n /\ j # 0 /\ n \in 0..(n + 1)
        BY <2>2, <3>3
      <4>2. g[j - 1] = f[n]
        BY <4>1
      <4>3. g[j] = IF x \in S THEN Append(f[n], x) ELSE f[n]
        BY <4>1
      <4> QED
        BY <2>2, <3>3, <4>1, <4>2, <4>3
    <3> QED
      BY <2>2, <3>1, <3>2, <3>3
  <2>4. g = [j \in 0..(n + 1) |-> g[j]]
    OBVIOUS
  <2>5. KeepsAlong(g, t, S)
    <3> HIDE DEF g, t
    <3> QED
      BY <2>2, <2>3, <2>4 DEF KeepsAlong
  <2> HIDE DEF g, t
  <2> QED
    BY <2>2, <2>5 DEF t
<1>3. Seq(X) \subseteq T
  <2> HIDE DEF T
  <2> QED
    BY <1>1, <1>2, EverySequence
<1> QED
  BY <1>3

LEMMA KeepIsAlong ==
  ASSUME NEW X, NEW s \in Seq(X), NEW S
  PROVE  \E f : KeepsAlong(f, s, S) /\ Keep(s, S) = f[Len(s)]
<1> DEFINE f == CHOOSE f : KeepsAlong(f, s, S)
<1>1. KeepsAlong(f, s, S)
  BY KeepsExists
<1>2. Keep(s, S) = f[Len(s)]
  BY DEF Keep, KeepsAlong
<1> QED
  BY <1>1, <1>2

LEMMA KeepEmpty ==
  ASSUME NEW S
  PROVE  Keep(<<>>, S) = <<>>
<1>1. <<>> \in Seq({}) /\ Len(<<>>) = 0
  OBVIOUS
<1>2. PICK f : KeepsAlong(f, <<>>, S) /\ Keep(<<>>, S) = f[0]
  BY <1>1, KeepIsAlong
<1> QED
  BY <1>1, <1>2 DEF KeepsAlong

LEMMA KeepAppend ==
  ASSUME NEW X, NEW s \in Seq(X), NEW x \in X, NEW S
  PROVE  Keep(Append(s, x), S) = IF x \in S THEN Append(Keep(s, S), x) ELSE Keep(s, S)
<1> DEFINE t == Append(s, x)
           n == Len(s)
<1>1. /\ t \in Seq(X) /\ Len(t) = n + 1 /\ n \in Nat
      /\ t[n + 1] = x /\ \A j \in 1..n : s[j] = t[j]
  OBVIOUS
<1> HIDE DEF t
<1>2. PICK f : KeepsAlong(f, s, S) /\ Keep(s, S) = f[n]
  BY KeepIsAlong
<1>3. PICK g : KeepsAlong(g, t, S) /\ Keep(t, S) = g[Len(t)]
  BY <1>1, KeepIsAlong
<1>4. f[n] = g[n]
  <2>1. n <= Len(t)
    BY <1>1
  <2> QED
    BY <1>1, <1>2, <1>3, <2>1, KeepsUnique
<1>5. n + 1 \in 0..Len(t) /\ n + 1 # 0 /\ (n + 1) - 1 = n
  BY <1>1
<1>6. g[n + 1] = IF t[n + 1] \in S THEN Append(g[n], t[n + 1]) ELSE g[n]
  BY <1>3, <1>5 DEF KeepsAlong
<1> QED
  BY <1>1, <1>2, <1>3, <1>4, <1>6 DEF t

(* What is kept of a sequence is in the set, and among its elements.       *)
LEMMA KeepType ==
  ASSUME NEW X, NEW s \in Seq(X), NEW S
  PROVE  Keep(s, S) \in Seq(X \cap S)
<1> DEFINE T == {q \in Seq(X) : Keep(q, S) \in Seq(X \cap S)}
<1>1. <<>> \in T
  <2>1. <<>> \in Seq(X) /\ <<>> \in Seq(X \cap S)
    OBVIOUS
  <2> QED
    BY <2>1, KeepEmpty
<1>2. ASSUME NEW q \in Seq(X), NEW x \in X, q \in T
      PROVE  Append(q, x) \in T
  <2>1. Keep(Append(q, x), S) = IF x \in S THEN Append(Keep(q, S), x) ELSE Keep(q, S)
    BY KeepAppend
  <2>2. Append(q, x) \in Seq(X)
    OBVIOUS
  <2>3. ASSUME x \in S
        PROVE  Append(Keep(q, S), x) \in Seq(X \cap S)
    BY <1>2, <2>3
  <2> QED
    BY <1>2, <2>1, <2>2, <2>3
<1>3. Seq(X) \subseteq T
  <2> HIDE DEF T
  <2> QED
    BY <1>1, <1>2, EverySequence
<1> QED
  BY <1>3

LEMMA KeepConcat ==
  ASSUME NEW X, NEW s \in Seq(X), NEW t \in Seq(X), NEW S
  PROVE  Keep(s \o t, S) = Keep(s, S) \o Keep(t, S)
<1> DEFINE T == {q \in Seq(X) : Keep(s \o q, S) = Keep(s, S) \o Keep(q, S)}
<1>1. \A q \in Seq(X) : Keep(q, S) \in Seq(X)
  <2>1. \A q \in Seq(X) : Keep(q, S) \in Seq(X \cap S)
    BY KeepType
  <2>2. \A k \in Seq(X \cap S) : k \in Seq(X)
    OBVIOUS
  <2> QED
    BY <2>1, <2>2
<1>2. <<>> \in T
  <2>1. s \o <<>> = s /\ Keep(s, S) \o <<>> = Keep(s, S) /\ <<>> \in Seq(X)
    BY <1>1
  <2> QED
    BY <2>1, KeepEmpty
<1>3. ASSUME NEW q \in Seq(X), NEW x \in X, q \in T
      PROVE  Append(q, x) \in T
  <2>1. s \o Append(q, x) = Append(s \o q, x) /\ s \o q \in Seq(X) /\ Append(q, x) \in Seq(X)
    OBVIOUS
  <2>2. Keep(Append(s \o q, x), S) = IF x \in S THEN Append(Keep(s \o q, S), x) ELSE Keep(s \o q, S)
    BY <2>1, KeepAppend
  <2>3. Keep(Append(q, x), S) = IF x \in S THEN Append(Keep(q, S), x) ELSE Keep(q, S)
    BY KeepAppend
  <2>4. Keep(s, S) \o Append(Keep(q, S), x) = Append(Keep(s, S) \o Keep(q, S), x)
    <3>1. \A a \in Seq(X), b \in Seq(X) : a \o Append(b, x) = Append(a \o b, x)
      OBVIOUS
    <3> QED
      BY <1>1, <3>1
  <2> QED
    BY <1>3, <2>1, <2>2, <2>3, <2>4
<1>4. Seq(X) \subseteq T
  <2> HIDE DEF T
  <2> QED
    BY <1>2, <1>3, EverySequence
<1> QED
  BY <1>4

(* Sets that agree on the elements of a sequence keep the same of it.      *)
LEMMA KeepSame ==
  ASSUME NEW X, NEW s \in Seq(X), NEW S, NEW U,
         \A j \in 1..Len(s) : s[j] \in S <=> s[j] \in U
  PROVE  Keep(s, S) = Keep(s, U)
<1> DEFINE T == {q \in Seq(X) : (\A j \in 1..Len(q) : q[j] \in S <=> q[j] \in U)
                                   => Keep(q, S) = Keep(q, U)}
<1>1. <<>> \in T
  BY KeepEmpty
<1>2. ASSUME NEW q \in Seq(X), NEW x \in X, q \in T,
             \A j \in 1..Len(Append(q, x)) : Append(q, x)[j] \in S <=> Append(q, x)[j] \in U
      PROVE  Keep(Append(q, x), S) = Keep(Append(q, x), U)
  <2>1. /\ \A j \in 1..Len(q) : Append(q, x)[j] = q[j] /\ j \in 1..Len(Append(q, x))
        /\ Append(q, x)[Len(q) + 1] = x /\ Len(q) + 1 \in 1..Len(Append(q, x))
    OBVIOUS
  <2>2. (x \in S <=> x \in U) /\ Keep(q, S) = Keep(q, U)
    BY <1>2, <2>1
  <2>3. Keep(Append(q, x), S) = IF x \in S THEN Append(Keep(q, S), x) ELSE Keep(q, S)
    BY KeepAppend
  <2>4. Keep(Append(q, x), U) = IF x \in U THEN Append(Keep(q, U), x) ELSE Keep(q, U)
    BY KeepAppend
  <2> QED
    BY <2>2, <2>3, <2>4
<1>3. ASSUME NEW q \in Seq(X), NEW x \in X, q \in T
      PROVE  Append(q, x) \in T
  <2>1. Append(q, x) \in Seq(X)
    OBVIOUS
  <2> QED
    BY <1>2, <1>3, <2>1
<1>4. Seq(X) \subseteq T
  <2> HIDE DEF T
  <2> QED
    BY <1>1, <1>3, EverySequence
<1> QED
  BY <1>4

LEMMA KeepNone ==
  ASSUME NEW X, NEW s \in Seq(X), NEW S, \A j \in 1..Len(s) : s[j] \notin S
  PROVE  Keep(s, S) = <<>>
<1>1. Keep(s, S) = Keep(s, {})
  BY KeepSame
<1>2. Keep(s, {}) \in Seq(X \cap {})
  BY KeepType
<1>3. \A q \in Seq(X \cap {}) : q = <<>>
  OBVIOUS
<1> QED
  BY <1>1, <1>2, <1>3

LEMMA KeepOne ==
  ASSUME NEW x, NEW S
  PROVE  Keep(<<x>>, S) = IF x \in S THEN <<x>> ELSE <<>>
<1>1. <<>> \in Seq({x}) /\ x \in {x} /\ Append(<<>>, x) = <<x>>
  OBVIOUS
<1>2. Keep(Append(<<>>, x), S) = IF x \in S THEN Append(Keep(<<>>, S), x) ELSE Keep(<<>>, S)
  BY <1>1, KeepAppend
<1> QED
  BY <1>1, <1>2, KeepEmpty

-----------------------------------------------------------------------------
(* Nothing is lost on the way                                              *)

(* Whether packet n is at work on is still to be forwarded for i.          *)
ToForward(n, i) ==
  /\ packet[n] # NoPacket
  /\ \A j \in 1..at[n] : invList[j] # i
  /\ Forwards(automata[n], i, packet[n])

(* Of the kinds in S: what n has sent to topic <<i, c>>, what waits in its *)
(* buffer, and what is left to forward of its packet.                      *)
Sent(n, i, c, S) == KindsOf(Keep(logs[i][c], [node : {n}, kind : S]))

Waiting(n, i, S) == KindsOf(Keep(buffer[n], [inv : {i}, kind : S]))

Left(n, i, S) == IF ToForward(n, i) /\ packet[n] \in S THEN <<packet[n]>> ELSE <<>>

(* Every packet that is owed is in one of the three, in the order it came, *)
(* of every part of a topic: of the kinds of one key, for instance.        *)
Account ==
  \A n \in Nodes, i \in Invariants, c \in Channels : \A S \in SUBSET TopicKinds(i, c) :
    Keep(owed[n][i], S) = (Sent(n, i, c, S) \o Waiting(n, i, S)) \o Left(n, i, S)

(* A topic holds records of its own channel only, which their invariant    *)
(* lets through.                                                           *)
RightTopic ==
  /\ \A i \in Invariants, c \in Channels : \A j \in 1..Len(logs[i][c]) :
       logs[i][c][j].kind \in TopicKinds(i, c) \cap Filter[i]
  /\ \A n \in Nodes : \A j \in 1..Len(buffer[n]) :
       buffer[n][j].kind \in Filter[buffer[n][j].inv]

(* A process that flushes has no packet, one that has ended no record.     *)
Quiet ==
  \A n \in Nodes :
    /\ process[n] \in {"flushing", "closing", "ended"} => packet[n] = NoPacket
    /\ process[n] = "ended" => buffer[n] = <<>>

LEMMA KindsEmpty == KindsOf(<<>>) = <<>>
BY DEF KindsOf

LEMMA KindsType ==
  ASSUME NEW R, NEW K, \A r \in R : r.kind \in K, NEW s \in Seq(R)
  PROVE  KindsOf(s) \in Seq(K) /\ Len(KindsOf(s)) = Len(s)
<1>1. /\ DOMAIN s = 1..Len(s) /\ Len(s) \in Nat
      /\ \A j \in 1..Len(s) : s[j] \in R
  OBVIOUS
<1> QED
  BY <1>1 DEF KindsOf

LEMMA KindsAppend ==
  ASSUME NEW R, NEW s \in Seq(R), NEW r \in R
  PROVE  KindsOf(Append(s, r)) = Append(KindsOf(s), r.kind)
<1> DEFINE t == Append(s, r)
           K == {q.kind : q \in R}
           a == KindsOf(t)
           b == Append(KindsOf(s), r.kind)
<1>1. /\ t \in Seq(R) /\ Len(t) = Len(s) + 1 /\ Len(s) \in Nat
      /\ t[Len(s) + 1] = r /\ \A j \in 1..Len(s) : t[j] = s[j]
  OBVIOUS
<1>2. \A q \in R : q.kind \in K
  OBVIOUS
<1> HIDE DEF t, K
<1>3. a \in Seq(K) /\ Len(a) = Len(s) + 1
  BY <1>1, <1>2, KindsType
<1>4. KindsOf(s) \in Seq(K) /\ Len(KindsOf(s)) = Len(s)
  BY <1>2, KindsType
<1>5. b \in Seq(K) /\ Len(b) = Len(s) + 1
  BY <1>1, <1>2, <1>4
<1>6. ASSUME NEW j \in 1..(Len(s) + 1) PROVE a[j] = b[j]
  <2>1. DOMAIN t = 1..(Len(s) + 1) /\ DOMAIN s = 1..Len(s)
    BY <1>1
  <2>2. a[j] = t[j].kind
    BY <2>1 DEF KindsOf
  <2>3. CASE j = Len(s) + 1
    BY <1>1, <1>4, <2>2, <2>3
  <2>4. CASE j \in 1..Len(s)
    <3>1. KindsOf(s)[j] = s[j].kind
      BY <2>1, <2>4 DEF KindsOf
    <3>2. \A q \in Seq(K), k \in K : \A l \in 1..Len(q) : Append(q, k)[l] = q[l]
      OBVIOUS
    <3>3. b[j] = KindsOf(s)[j]
      BY <1>2, <1>4, <2>4, <3>2
    <3> QED
      BY <1>1, <2>2, <2>4, <3>1, <3>3
  <2>5. j = Len(s) + 1 \/ j \in 1..Len(s)
    <3>1. \A n \in Nat : \A k \in 1..(n + 1) : k = n + 1 \/ k \in 1..n
      OBVIOUS
    <3> QED
      BY <1>1, <3>1
  <2> QED
    BY <2>3, <2>4, <2>5
<1>7. \A p, q \in Seq(K) : Len(p) = Len(q) /\ (\A j \in 1..Len(p) : p[j] = q[j]) => p = q
  BY SeqEqual
<1> HIDE DEF a, b
<1>8. a = b
  BY <1>3, <1>5, <1>6, <1>7
<1> QED
  BY <1>8 DEF a, b, t

LEMMA KindsConcat ==
  ASSUME NEW R, NEW s \in Seq(R), NEW t \in Seq(R)
  PROVE  KindsOf(s \o t) = KindsOf(s) \o KindsOf(t)
<1> DEFINE T == {q \in Seq(R) : KindsOf(s \o q) = KindsOf(s) \o KindsOf(q)}
           K == {q.kind : q \in R}
<1>1. \A q \in R : q.kind \in K
  OBVIOUS
<1> HIDE DEF K
<1>2. \A q \in Seq(R) : KindsOf(q) \in Seq(K)
  BY <1>1, KindsType
<1>3. <<>> \in T
  <2>1. s \o <<>> = s /\ KindsOf(s) \o <<>> = KindsOf(s) /\ <<>> \in Seq(R)
    BY <1>2
  <2> QED
    BY <2>1, KindsEmpty
<1>4. ASSUME NEW q \in Seq(R), NEW r \in R, q \in T
      PROVE  Append(q, r) \in T
  <2>1. s \o Append(q, r) = Append(s \o q, r) /\ s \o q \in Seq(R) /\ Append(q, r) \in Seq(R)
    OBVIOUS
  <2>2. KindsOf(Append(s \o q, r)) = Append(KindsOf(s \o q), r.kind)
    BY <2>1, KindsAppend
  <2>3. KindsOf(Append(q, r)) = Append(KindsOf(q), r.kind)
    BY KindsAppend
  <2>4. KindsOf(s) \o Append(KindsOf(q), r.kind) = Append(KindsOf(s) \o KindsOf(q), r.kind)
    <3>1. \A a, b \in Seq(K), k \in K : a \o Append(b, k) = Append(a \o b, k)
      OBVIOUS
    <3> QED
      BY <1>1, <1>2, <3>1
  <2> QED
    BY <1>4, <2>1, <2>2, <2>3, <2>4
<1>5. Seq(R) \subseteq T
  <2> HIDE DEF T
  <2> QED
    BY <1>3, <1>4, EverySequence
<1> QED
  BY <1>5

(* The kinds of what is kept.                                              *)
LEMMA KeptType ==
  ASSUME NEW R, NEW s \in Seq(R), NEW U, NEW K, \A r \in R \cap U : r.kind \in K
  PROVE  KindsOf(Keep(s, U)) \in Seq(K)
BY KeepType, KindsType

LEMMA KeptAppend ==
  ASSUME NEW R, NEW s \in Seq(R), NEW r \in R, NEW U
  PROVE  KindsOf(Keep(Append(s, r), U)) =
           IF r \in U THEN Append(KindsOf(Keep(s, U)), r.kind) ELSE KindsOf(Keep(s, U))
<1>1. Keep(Append(s, r), U) = IF r \in U THEN Append(Keep(s, U), r) ELSE Keep(s, U)
  BY KeepAppend
<1>2. Keep(s, U) \in Seq(R \cap U)
  BY KeepType
<1>3. CASE r \in U
  <2>1. KindsOf(Append(Keep(s, U), r)) = Append(KindsOf(Keep(s, U)), r.kind)
    BY <1>2, <1>3, KindsAppend
  <2> QED
    BY <1>1, <1>3, <2>1
<1> QED
  BY <1>1, <1>3

LEMMA KeptConcat ==
  ASSUME NEW R, NEW s \in Seq(R), NEW t \in Seq(R), NEW U
  PROVE  KindsOf(Keep(s \o t, U)) = KindsOf(Keep(s, U)) \o KindsOf(Keep(t, U))
<1>1. Keep(s \o t, U) = Keep(s, U) \o Keep(t, U)
  BY KeepConcat
<1>2. Keep(s, U) \in Seq(R \cap U) /\ Keep(t, U) \in Seq(R \cap U)
  BY KeepType
<1> QED
  BY <1>1, <1>2, KindsConcat

-----------------------------------------------------------------------------
(* A packet has been handed to every invariant once at has counted them.   *)
LEMMA EveryTurn ==
  ASSUME invList \in Orders, NEW i \in Invariants
  PROVE  \E j \in 1..NumInvariants : invList[j] = i
<1>1. invList \in Injection(1..NumInvariants, Invariants)
  BY DEF Orders, Injection, IsInjective
<1>2. IsFiniteSet(Invariants) /\ NumInvariants = Cardinality(Invariants) /\ NumInvariants \in Nat
  BY Counts, LocalAssumption DEF NumInvariants
<1>3. Cardinality(1..NumInvariants) = NumInvariants
  BY <1>2, FS_Interval
<1>4. invList \in Surjection(1..NumInvariants, Invariants)
  BY <1>1, <1>2, <1>3, FS_Injection
<1> QED
  BY <1>4 DEF Surjection


(* What Account says of one node.                                          *)
AccountOf(n) ==
  \A i \in Invariants, c \in Channels : \A S \in SUBSET TopicKinds(i, c) :
    Keep(owed[n][i], S) = (Sent(n, i, c, S) \o Waiting(n, i, S)) \o Left(n, i, S)

LEMMA AccountTypes ==
  ASSUME TypeOK, NEW n \in Nodes, NEW i \in Invariants, NEW c \in Channels,
         NEW S \in SUBSET Kinds
  PROVE  /\ Sent(n, i, c, S) \in Seq(Kinds)
         /\ Waiting(n, i, S) \in Seq(Kinds)
         /\ Left(n, i, S) \in Seq(Kinds)
         /\ Keep(owed[n][i], S) \in Seq(Kinds)
<1>1. logs[i][c] \in Seq(LogRecord) /\ buffer[n] \in Seq(Record) /\ owed[n][i] \in Seq(Kinds)
  BY DEF TypeOK, LocalTypeOK, GlobalTypeOK, GhostTypeOK
<1>2. (\A r \in LogRecord : r.kind \in Kinds) /\ (\A r \in Record : r.kind \in Kinds)
  BY DEF LogRecord, Record
<1>3. Sent(n, i, c, S) \in Seq(Kinds)
  BY <1>1, <1>2, KeptType DEF Sent
<1>4. Waiting(n, i, S) \in Seq(Kinds)
  BY <1>1, <1>2, KeptType DEF Waiting
<1>5. Left(n, i, S) \in Seq(Kinds)
  BY DEF Left
<1>6. Keep(owed[n][i], S) \in Seq(Kinds)
  <2>1. Keep(owed[n][i], S) \in Seq(Kinds \cap S)
    BY <1>1, KeepType
  <2>2. \A q \in Seq(Kinds \cap S) : q \in Seq(Kinds)
    OBVIOUS
  <2> QED
    BY <2>1, <2>2
<1> QED
  BY <1>3, <1>4, <1>5, <1>6

(* A step that changes nothing of a node leaves its account.               *)
LEMMA SameAccount ==
  ASSUME NEW n \in Nodes, AccountOf(n),
         UNCHANGED <<invList, logs, packet[n], at[n], automata[n], buffer[n], owed[n]>>
  PROVE  AccountOf(n)'
<1>1. ASSUME NEW i \in Invariants, NEW c \in Channels, NEW S \in SUBSET TopicKinds(i, c)
      PROVE  Keep(owed'[n][i], S) = (Sent(n, i, c, S)' \o Waiting(n, i, S)') \o Left(n, i, S)'
  <2>1. Sent(n, i, c, S)' = Sent(n, i, c, S) /\ Waiting(n, i, S)' = Waiting(n, i, S)
    BY DEF Sent, Waiting
  <2>2. ToForward(n, i)' = ToForward(n, i)
    BY DEF ToForward
  <2>3. Left(n, i, S)' = Left(n, i, S)
    BY <2>2 DEF Left
  <2> QED
    BY <2>1, <2>3 DEF AccountOf
<1> QED
  BY <1>1 DEF AccountOf

(* Forwards reads the automata of the invariant alone.                     *)
LEMMA ForwardsOwn ==
  ASSUME NEW all, NEW some, NEW i \in Invariants, NEW kind \in Kinds, all[i] = some[i]
  PROVE  Forwards(all, i, kind) <=> Forwards(some, i, kind)
BY DEF Forwards

(* A packet that comes is owed, and left to forward.                       *)
LEMMA ComesAccount ==
  ASSUME TypeOK, NEW n \in Nodes, NEW kind \in Kinds, Comes(n, kind), Whole(n), AccountOf(n)
  PROVE  AccountOf(n)'
<1>1. /\ packet[n] = NoPacket /\ packet'[n] = kind /\ kind # NoPacket /\ at'[n] = 0
      /\ UNCHANGED <<invList, automata, buffer, logs>> /\ invList \in Orders
  BY LocalAssumption DEF Comes, NextPacket, Idle, globalVars, TypeOK, LocalTypeOK
<1>2. ASSUME NEW i \in Invariants, NEW c \in Channels, NEW S \in SUBSET TopicKinds(i, c)
      PROVE  Keep(owed'[n][i], S) = (Sent(n, i, c, S)' \o Waiting(n, i, S)') \o Left(n, i, S)'
  <2> DEFINE o == Keep(owed[n][i], S)
  <2>1. S \in SUBSET Kinds
    BY DEF TopicKinds
  <2>2. owed[n][i] \in Seq(Kinds) /\ o \in Seq(Kinds)
    BY <2>1, AccountTypes DEF TypeOK, GhostTypeOK
  <2>3. Sent(n, i, c, S)' = Sent(n, i, c, S) /\ Waiting(n, i, S)' = Waiting(n, i, S)
    BY <1>1 DEF Sent, Waiting
  <2>4. Forwards(ideal[n], i, kind) <=> Forwards(automata[n], i, kind)
    <3>1. PICK j \in 1..NumInvariants : invList[j] = i
      BY <1>1, EveryTurn
    <3>2. ideal[n][i] = automata[n][i]
      BY <1>1, <3>1 DEF Whole
    <3> QED
      BY <3>2, ForwardsOwn
  <2>5. ToForward(n, i)' <=> Forwards(automata[n], i, kind)
    <3>1. \A j \in 1..0 : FALSE
      OBVIOUS
    <3> QED
      BY <1>1, <3>1 DEF ToForward
  <2>6. owed'[n][i] = IF Forwards(automata[n], i, kind) THEN Append(owed[n][i], kind)
                      ELSE owed[n][i]
    BY <2>4 DEF Comes, TypeOK, GhostTypeOK
  <2>7. Keep(owed'[n][i], S) = IF ToForward(n, i)' /\ kind \in S THEN Append(o, kind) ELSE o
    <3>1. \A q \in Seq(Kinds) :
            Keep(Append(q, kind), S) = IF kind \in S THEN Append(Keep(q, S), kind) ELSE Keep(q, S)
      BY KeepAppend
    <3>2. Keep(Append(owed[n][i], kind), S) = IF kind \in S THEN Append(o, kind) ELSE o
      BY <2>2, <3>1
    <3> QED
      BY <2>5, <2>6, <3>2
  <2>8. Left(n, i, S)' = IF ToForward(n, i)' /\ kind \in S THEN <<kind>> ELSE <<>>
    BY <1>1 DEF Left
  <2>9. o = Sent(n, i, c, S) \o Waiting(n, i, S)
    <3>1. Left(n, i, S) = <<>>
      BY <1>1 DEF Left, ToForward
    <3>2. \A a, b \in Seq(Kinds) : (a \o b) \o <<>> = a \o b
      OBVIOUS
    <3>3. o = (Sent(n, i, c, S) \o Waiting(n, i, S)) \o <<>>
      BY <3>1 DEF AccountOf
    <3> QED
      BY <2>1, <3>2, <3>3, AccountTypes
  <2> HIDE DEF o
  <2>10. Append(o, kind) = o \o <<kind>> /\ o = o \o <<>>
    BY <2>2
  <2> QED
    BY <2>3, <2>7, <2>8, <2>9, <2>10
<1> QED
  BY <1>2 DEF AccountOf

(* The packet leaves for the buffer when its invariant's turn has come.    *)
LEMMA HandleAccount ==
  ASSUME TypeOK, NEW n \in Nodes, Handle(n), UNCHANGED <<logs, owed>>, AccountOf(n)
  PROVE  AccountOf(n)'
<1> DEFINE t == Turn(n)
           kind == packet[n]
           r == [inv |-> t, kind |-> kind]
<1>1. /\ t \in Invariants /\ kind \in Kinds /\ kind # NoPacket
      /\ NodeType(automata[n]) /\ invList \in Orders /\ buffer[n] \in Seq(Record)
      /\ at[n] \in Nat /\ at[n] < NumInvariants /\ t = invList[at[n] + 1]
  BY TurnType DEF Handle, TypeOK, LocalTypeOK, Turn
<1>2. NumInvariants \in Nat \ {0}
  BY Counts
<1>3. invList' = invList /\ automata'[n] = Process(automata[n], t, kind)
  BY DEF Handle, TypeOK, LocalTypeOK
<1>4. buffer'[n] = IF Forwarding(n) THEN Append(buffer[n], r) ELSE buffer[n]
  BY DEF Handle, TypeOK, LocalTypeOK
<1>5. \/ at'[n] = at[n] + 1 /\ packet'[n] = kind
      \/ at[n] + 1 = NumInvariants /\ packet'[n] = NoPacket
  BY <1>1, <1>2 DEF Handle, TypeOK, LocalTypeOK
<1>6. at[n] + 1 \in 1..NumInvariants /\ \A j \in 1..at[n] : j \in 1..NumInvariants /\ j # at[n] + 1
  BY <1>1, <1>2
<1>7. Forwarding(n) <=> Forwards(automata[n], t, kind)
  BY DEF Forwarding
<1>8. r \in Record /\ r.inv = t /\ r.kind = kind
  BY <1>1 DEF Record
<1> HIDE DEF t, kind, r
<1>9. ASSUME NEW i \in Invariants, NEW c \in Channels, NEW S \in SUBSET TopicKinds(i, c)
      PROVE  Keep(owed'[n][i], S) = (Sent(n, i, c, S)' \o Waiting(n, i, S)') \o Left(n, i, S)'
  <2> DEFINE s == Sent(n, i, c, S)
             w == Waiting(n, i, S)
             U == [inv : {i}, kind : S]
  <2>1. S \in SUBSET Kinds
    BY DEF TopicKinds
  <2>2. s \in Seq(Kinds) /\ w \in Seq(Kinds)
    BY <2>1, AccountTypes
  <2>3. Sent(n, i, c, S)' = s
    BY DEF Sent
  <2>4. Keep(owed'[n][i], S) = (s \o w) \o Left(n, i, S)
    BY DEF AccountOf
  <2>5. r \in U <=> t = i /\ kind \in S
    BY DEF r
  <2>6. KindsOf(Keep(Append(buffer[n], r), U)) = IF t = i /\ kind \in S THEN Append(w, kind) ELSE w
    <3>1. \A q \in Seq(Record) :
            KindsOf(Keep(Append(q, r), U)) =
              IF r \in U THEN Append(KindsOf(Keep(q, U)), r.kind) ELSE KindsOf(Keep(q, U))
      <4> HIDE DEF U
      <4> QED
        BY <1>8, KeptAppend
    <3>2. w = KindsOf(Keep(buffer[n], U))
      BY DEF Waiting
    <3>3. KindsOf(Keep(Append(buffer[n], r), U)) = IF r \in U THEN Append(w, r.kind) ELSE w
      <4> HIDE DEF U, w
      <4> QED
        BY <1>1, <3>1, <3>2
    <3> QED
      BY <1>8, <2>5, <3>3
  <2>7. Waiting(n, i, S)' = IF Forwarding(n) /\ t = i /\ kind \in S THEN Append(w, kind) ELSE w
    <3>1. Waiting(n, i, S)' = KindsOf(Keep(buffer'[n], U))
      BY DEF Waiting
    <3>2. KindsOf(Keep(buffer[n], U)) = w
      BY DEF Waiting
    <3> HIDE DEF w, U
    <3> QED
      BY <1>4, <2>6, <3>1, <3>2
  <2>8. CASE t = i
    <3>1. \A j \in 1..at[n] : invList[j] # i
      BY <1>1, <1>6, <2>8 DEF Orders
    <3>2. Left(n, i, S) = IF Forwarding(n) /\ kind \in S THEN <<kind>> ELSE <<>>
      BY <1>1, <1>7, <2>8, <3>1 DEF Left, ToForward, kind
    <3>3. Left(n, i, S)' = <<>>
      <4>1. CASE at'[n] = at[n] + 1
        <5>1. at[n] + 1 \in 1..(at[n] + 1)
          BY <1>1
        <5> QED
          BY <1>1, <1>3, <2>8, <4>1, <5>1 DEF Left, ToForward
      <4>2. CASE packet'[n] = NoPacket
        BY <4>2 DEF Left, ToForward
      <4> QED
        BY <1>5, <4>1, <4>2
    <3> HIDE DEF s, w
    <3>4. /\ (s \o w) \o <<kind>> = (s \o Append(w, kind)) \o <<>>
          /\ s \o w = (s \o w) \o <<>>
      <4>1. \A a, b \in Seq(Kinds), k \in Kinds :
              (a \o b) \o <<k>> = a \o Append(b, k) /\ Append(b, k) \in Seq(Kinds)
        OBVIOUS
      <4>2. \A a, b \in Seq(Kinds) : (a \o b) \o <<>> = a \o b
        OBVIOUS
      <4> QED
        BY <1>1, <2>2, <4>1, <4>2
    <3>5. CASE Forwarding(n) /\ kind \in S
      BY <2>3, <2>4, <2>7, <2>8, <3>2, <3>3, <3>4, <3>5
    <3>6. CASE ~ (Forwarding(n) /\ kind \in S)
      BY <2>3, <2>4, <2>7, <3>2, <3>3, <3>6
    <3> QED
      BY <3>5, <3>6
  <2>9. CASE t # i
    <3>1. Waiting(n, i, S)' = w
      BY <2>7, <2>9
    <3>2. automata'[n][i] = automata[n][i]
      BY <1>1, <1>3, <2>9, ProcessOwn
    <3>3. Left(n, i, S)' = Left(n, i, S)
      <4>1. CASE at'[n] = at[n] + 1 /\ packet'[n] = kind
        <5>1. (\A j \in 1..at'[n] : invList[j] # i) <=> \A j \in 1..at[n] : invList[j] # i
          <6>1. \A j \in 1..(at[n] + 1) : j = at[n] + 1 \/ j \in 1..at[n]
            BY <1>1
          <6>2. \A j \in 1..at[n] : j \in 1..(at[n] + 1)
            BY <1>1
          <6> QED
            BY <1>1, <2>9, <4>1, <6>1, <6>2
        <5>2. Forwards(automata'[n], i, kind) <=> Forwards(automata[n], i, kind)
          BY <1>1, <3>2, ForwardsOwn
        <5>3. ToForward(n, i)' <=> ToForward(n, i)
          BY <1>3, <4>1, <5>1, <5>2 DEF ToForward, kind
        <5> QED
          BY <4>1, <5>3 DEF Left, kind
      <4>2. CASE at[n] + 1 = NumInvariants /\ packet'[n] = NoPacket
        <5>1. PICK j \in 1..NumInvariants : invList[j] = i
          BY <1>1, EveryTurn
        <5>2. j \in 1..at[n]
          <6>1. j # at[n] + 1
            BY <1>1, <2>9, <5>1
          <6> QED
            BY <1>1, <4>2, <6>1
        <5>3. ~ ToForward(n, i)
          BY <5>1, <5>2 DEF ToForward
        <5>4. ~ ToForward(n, i)'
          BY <4>2 DEF ToForward
        <5> QED
          BY <5>3, <5>4 DEF Left
      <4> QED
        BY <1>5, <4>1, <4>2
    <3> QED
      BY <2>3, <2>4, <3>1, <3>3
  <2> QED
    BY <2>8, <2>9
<1> QED
  BY <1>9 DEF AccountOf

(* What is kept of a sequence, and of one without its j-th element.        *)
LEMMA KeptWithout ==
  ASSUME NEW R, NEW q \in Seq(R), NEW j \in 1..Len(q), NEW U
  PROVE  LET front == SubSeq(q, 1, j - 1)
             back == SubSeq(q, j + 1, Len(q))
             kept == KindsOf(Keep(q, U))
             first == KindsOf(Keep(front, U))
             last == KindsOf(Keep(back, U))
         IN /\ KindsOf(Keep(front \o back, U)) = first \o last
            /\ first \in Seq({r.kind : r \in R}) /\ last \in Seq({r.kind : r \in R})
            /\ kept = IF q[j] \in U THEN Append(first, q[j].kind) \o last ELSE first \o last
            /\ (\A k \in 1..(j - 1) : q[k] \notin U) => first = <<>>
<1> DEFINE front == SubSeq(q, 1, j - 1)
           back == SubSeq(q, j + 1, Len(q))
           K == {r.kind : r \in R}
           first == KindsOf(Keep(front, U))
           last == KindsOf(Keep(back, U))
<1>1. /\ front \in Seq(R) /\ back \in Seq(R) /\ q[j] \in R
      /\ Len(front) = j - 1 /\ \A k \in 1..(j - 1) : front[k] = q[k]
  OBVIOUS
<1>2. q = Append(front, q[j]) \o back
  <2>1. /\ Append(front, q[j]) \in Seq(R) /\ Len(Append(front, q[j])) = j
        /\ \A k \in 1..j : Append(front, q[j])[k] = q[k]
    OBVIOUS
  <2>2. Len(back) = Len(q) - j /\ \A k \in 1..(Len(q) - j) : back[k] = q[j + k]
    OBVIOUS
  <2> DEFINE b == Append(front, q[j])
  <2> HIDE DEF front, back, b
  <2>3. b \in Seq(R) /\ back \in Seq(R) /\ Len(b) = j /\ j \in Nat /\ Len(q) \in Nat /\ j <= Len(q)
    BY <1>1, <2>1 DEF b
  <2>4. b \o back \in Seq(R) /\ Len(b \o back) = Len(q)
    <3>1. b \o back \in Seq(R) /\ Len(b \o back) = Len(b) + Len(back)
      BY <2>3
    <3>2. \A k, l \in Nat : k + (l - k) = l
      OBVIOUS
    <3> QED
      BY <2>2, <2>3, <3>1, <3>2
  <2>5. ASSUME NEW k \in 1..Len(q) PROVE q[k] = (b \o back)[k]
    <3>1. CASE k \in 1..j
      BY <2>1, <2>2, <2>3, <3>1 DEF b
    <3>2. CASE ~ (k \in 1..j)
      <4>1. k - j \in 1..(Len(q) - j) /\ k = j + (k - j) /\ k > j
        BY <2>3, <3>2
      <4>2. (b \o back)[k] = back[k - j]
        BY <2>2, <2>3, <4>1
      <4> QED
        BY <2>2, <4>1, <4>2
    <3> QED
      BY <3>1, <3>2
  <2>6. \A x, y \in Seq(R) : Len(x) = Len(y) /\ (\A k \in 1..Len(x) : x[k] = y[k]) => x = y
    BY SeqEqual
  <2>7. q = b \o back
    <3> DEFINE y == b \o back
    <3> HIDE DEF y
    <3>1. y \in Seq(R) /\ Len(y) = Len(q) /\ \A k \in 1..Len(q) : q[k] = y[k]
      BY <2>4, <2>5 DEF y
    <3>2. q = y
      BY <2>6, <3>1
    <3> QED
      BY <3>2 DEF y
  <2> QED
    BY <2>7 DEF b
<1>3. \A r \in R \cap U : r.kind \in K
  OBVIOUS
<1> HIDE DEF front, back, K
<1>4. first \in Seq(K) /\ last \in Seq(K)
  BY <1>1, <1>3, KeptType
<1>5. KindsOf(Keep(front \o back, U)) = first \o last
  BY <1>1, KeptConcat
<1>6. KindsOf(Keep(q, U)) = IF q[j] \in U THEN Append(first, q[j].kind) \o last ELSE first \o last
  <2> DEFINE b == Append(front, q[j])
  <2>1. b \in Seq(R)
    BY <1>1
  <2>2. KindsOf(Keep(b, U)) = IF q[j] \in U THEN Append(first, q[j].kind) ELSE first
    BY <1>1, KeptAppend
  <2> HIDE DEF b
  <2>3. KindsOf(Keep(b \o back, U)) = KindsOf(Keep(b, U)) \o last
    BY <1>1, <2>1, KeptConcat
  <2>4. q = b \o back
    BY <1>2 DEF b
  <2> QED
    BY <2>2, <2>3, <2>4
<1>7. ASSUME \A k \in 1..(j - 1) : q[k] \notin U PROVE first = <<>>
  <2>1. Keep(front, U) = <<>>
    BY <1>1, <1>7, KeepNone
  <2> QED
    BY <2>1, KindsEmpty
<1> QED
  BY <1>4, <1>5, <1>6, <1>7 DEF front, back, K

(* A record that is delivered leaves the buffer for its topic: it is the   *)
(* first in the buffer of whatever part of the topic it belongs to.        *)
LEMMA DeliverAccount ==
  ASSUME TypeOK, NEW n \in Nodes, NEW i \in Invariants, NEW c \in Channels, Deliver(n, i, c),
         NEW m \in Nodes, AccountOf(m)
  PROVE  AccountOf(m)'
<1>1. PICK j \in DOMAIN buffer[n] :
        /\ buffer[n][j].inv = i /\ ChannelOf(buffer[n][j]) = c
        /\ \A k \in 1..(j - 1) : ~ (buffer[n][k].inv = i /\ ChannelOf(buffer[n][k]) = c)
        /\ logs' = [logs EXCEPT ![i][c] = Append(@, [node |-> n, kind |-> buffer[n][j].kind])]
        /\ buffer' = [buffer EXCEPT ![n] = SubSeq(@, 1, j - 1) \o SubSeq(@, j + 1, Len(@))]
        /\ UNCHANGED <<invList, packet, at, handled, automata, process>>
        /\ UNCHANGED <<offset, monitors, alerts, job, reruns, ghosts>>
  BY DEF Deliver
<1> DEFINE q == buffer[n]
           e == q[j]
           r == [node |-> n, kind |-> e.kind]
           rest == SubSeq(q, 1, j - 1) \o SubSeq(q, j + 1, Len(q))
<1>2. /\ q \in Seq(Record) /\ j \in 1..Len(q) /\ e \in Record
      /\ \A k \in 1..(j - 1) : q[k] \in Record
  BY DEF TypeOK, LocalTypeOK
<1>3. /\ e.inv = i /\ e.kind \in TopicKinds(i, c)
      /\ \A k \in 1..(j - 1) : ~ (q[k].inv = i /\ q[k].kind \in TopicKinds(i, c))
  BY <1>1, <1>2 DEF ChannelOf, TopicKinds, Record
<1>4. r \in LogRecord
  BY <1>2 DEF Record, LogRecord
<1>5. /\ buffer'[n] = rest /\ (m # n => buffer'[m] = buffer[m])
      /\ logs'[i][c] = Append(logs[i][c], r)
      /\ \A o \in Invariants, d \in Channels : <<o, d>> # <<i, c>> => logs'[o][d] = logs[o][d]
      /\ logs[i][c] \in Seq(LogRecord)
  BY <1>1 DEF TypeOK, LocalTypeOK, GlobalTypeOK
<1>6. UNCHANGED <<invList, packet, at, automata, owed>>
  BY <1>1 DEF ghosts
<1> HIDE DEF q, e, r, rest
<1>7. ASSUME NEW o \in Invariants, NEW d \in Channels, NEW S \in SUBSET TopicKinds(o, d)
      PROVE  Keep(owed'[m][o], S) = (Sent(m, o, d, S)' \o Waiting(m, o, S)') \o Left(m, o, S)'
  <2> DEFINE V == [node : {m}, kind : S]
             U == [inv : {o}, kind : S]
             s == Sent(m, o, d, S)
             w == Waiting(m, o, S)
  <2>1. Keep(owed'[m][o], S) = (s \o w) \o Left(m, o, S) /\ Left(m, o, S)' = Left(m, o, S)
    BY <1>6 DEF AccountOf, Left, ToForward
  <2>2. /\ s = KindsOf(Keep(logs[o][d], V)) /\ Sent(m, o, d, S)' = KindsOf(Keep(logs'[o][d], V))
        /\ w = KindsOf(Keep(buffer[m], U)) /\ Waiting(m, o, S)' = KindsOf(Keep(buffer'[m], U))
    BY DEF Sent, Waiting
  <2>3. s \in Seq(Kinds) /\ w \in Seq(Kinds)
    BY AccountTypes DEF TopicKinds
  <2>4. r \in V <=> n = m /\ e.kind \in S
    BY DEF r
  <2>5. e \in U <=> i = o /\ e.kind \in S
    BY <1>2, <1>3 DEF Record
  <2>6. KindsOf(Keep(Append(logs[i][c], r), V)) =
          IF r \in V THEN Append(KindsOf(Keep(logs[i][c], V)), e.kind)
          ELSE KindsOf(Keep(logs[i][c], V))
    <3>1. r.kind = e.kind
      BY DEF r
    <3> HIDE DEF V
    <3>2. \A p \in Seq(LogRecord) :
            KindsOf(Keep(Append(p, r), V)) =
              IF r \in V THEN Append(KindsOf(Keep(p, V)), r.kind) ELSE KindsOf(Keep(p, V))
      BY <1>4, KeptAppend
    <3> QED
      BY <1>5, <3>1, <3>2
  <2> DEFINE first == KindsOf(Keep(SubSeq(q, 1, j - 1), U))
             last == KindsOf(Keep(SubSeq(q, j + 1, Len(q)), U))
             K == {p.kind : p \in Record}
  <2>7. /\ KindsOf(Keep(rest, U)) = first \o last
        /\ first \in Seq(K) /\ last \in Seq(K)
        /\ KindsOf(Keep(q, U)) = IF e \in U THEN Append(first, e.kind) \o last ELSE first \o last
        /\ (\A k \in 1..(j - 1) : q[k] \notin U) => first = <<>>
    <3> HIDE DEF U
    <3> QED
      BY <1>2, KeptWithout DEF rest, e
  <2>8. CASE e.kind \in S /\ <<o, d>> = <<i, c>> /\ m = n
    <3>1. first = <<>>
      <4>1. \A k \in 1..(j - 1) : q[k] \notin U
        BY <1>2, <1>3, <2>8 DEF Record
      <4> QED
        BY <2>7, <4>1
    <3>2. Sent(m, o, d, S)' = Append(s, e.kind)
      BY <1>5, <2>2, <2>4, <2>6, <2>8
    <3>3. Waiting(m, o, S)' = last
      <4>1. \A p \in Seq(K) : <<>> \o p = p
        OBVIOUS
      <4> QED
        BY <1>5, <2>2, <2>7, <2>8, <3>1, <4>1
    <3>4. w = <<e.kind>> \o last
      <4>1. Append(<<>>, e.kind) = <<e.kind>>
        OBVIOUS
      <4>2. w = KindsOf(Keep(q, U))
        BY <2>2, <2>8 DEF q
      <4> HIDE DEF w, U, first, last
      <4> QED
        BY <2>5, <2>7, <2>8, <3>1, <4>1, <4>2
    <3>5. Append(s, e.kind) \o last = s \o (<<e.kind>> \o last)
      <4>1. e.kind \in Kinds /\ last \in Seq(Kinds)
        <5>1. e.kind \in Kinds /\ K \subseteq Kinds
          BY <1>2 DEF Record
        <5> HIDE DEF last, K
        <5> QED
          BY <2>7, <5>1
      <4>2. \A a, b, g \in Seq(Kinds) : (a \o b) \o g = a \o (b \o g)
        BY ConcatAssociative
      <4>3. Append(s, e.kind) = s \o <<e.kind>> /\ <<e.kind>> \in Seq(Kinds)
        BY <2>3, <4>1
      <4> HIDE DEF s, last
      <4> QED
        BY <2>3, <4>1, <4>2, <4>3
    <3> QED
      BY <2>1, <3>2, <3>3, <3>4, <3>5
  <2>9. CASE ~ (e.kind \in S /\ <<o, d>> = <<i, c>> /\ m = n)
    <3>1. S \cap TopicKinds(i, c) = {} \/ o # i \/ d = c
      BY DEF TopicKinds
    <3>2. Sent(m, o, d, S)' = s
      <4>1. CASE <<o, d>> = <<i, c>>
        BY <1>5, <2>2, <2>4, <2>6, <2>9, <4>1
      <4>2. CASE <<o, d>> # <<i, c>>
        BY <1>5, <2>2, <4>2
      <4> QED
        BY <4>1, <4>2
    <3>3. Waiting(m, o, S)' = w
      <4>1. CASE m = n
        <5>1. e \notin U
          BY <1>3, <2>5, <2>9, <3>1, <4>1
        <5> QED
          BY <1>5, <2>2, <2>7, <4>1, <5>1 DEF q
      <4>2. CASE m # n
        BY <1>5, <2>2, <4>2
      <4> QED
        BY <4>1, <4>2
    <3> QED
      BY <2>1, <3>2, <3>3
  <2> QED
    BY <2>8, <2>9
<1> QED
  BY <1>7 DEF AccountOf

LEMMA AccountInit == Init => Account /\ RightTopic /\ Quiet
<1> SUFFICES ASSUME Init PROVE Account /\ RightTopic /\ Quiet
  OBVIOUS
<1>1. ASSUME NEW n \in Nodes, NEW i \in Invariants, NEW c \in Channels,
             NEW S \in SUBSET TopicKinds(i, c)
      PROVE  Keep(owed[n][i], S) = (Sent(n, i, c, S) \o Waiting(n, i, S)) \o Left(n, i, S)
  <2>1. logs[i][c] = <<>> /\ buffer[n] = <<>> /\ owed[n][i] = <<>> /\ packet[n] = NoPacket
    BY DEF Init, LocalInit
  <2>2. Sent(n, i, c, S) = <<>> /\ Waiting(n, i, S) = <<>> /\ Keep(owed[n][i], S) = <<>>
    BY <2>1, KeepEmpty, KindsEmpty DEF Sent, Waiting
  <2>3. Left(n, i, S) = <<>>
    BY <2>1 DEF Left, ToForward
  <2> QED
    BY <2>2, <2>3
<1>2. \A j \in 1..Len(<<>>) : FALSE
  OBVIOUS
<1>3. RightTopic
  BY <1>2 DEF RightTopic, Init, LocalInit
<1>4. Quiet
  BY DEF Quiet, Init, LocalInit
<1> QED
  BY <1>1, <1>3, <1>4 DEF Account

LEMMA AccountStep ==
  TypeOK /\ InvariantsIndependent /\ Account /\ [Next]_vars => Account'
<1> SUFFICES ASSUME TypeOK, InvariantsIndependent, Account, [Next]_vars
             PROVE  Account'
  OBVIOUS
<1>1. \A m \in Nodes : AccountOf(m)
  BY DEF Account, AccountOf
<1>2. SUFFICES \A m \in Nodes : AccountOf(m)'
  BY DEF Account, AccountOf
<1>3. ASSUME UNCHANGED <<invList, logs, packet, at, automata, buffer, owed>>
      PROVE  \A m \in Nodes : AccountOf(m)'
  BY <1>1, <1>3, SameAccount
<1>4. CASE UNCHANGED vars
  BY <1>3, <1>4 DEF vars, localVars, globalVars, ghosts
<1>5. ASSUME NEW n \in Nodes, Step(n) PROVE \A m \in Nodes : AccountOf(m)'
  <2>1. UNCHANGED <<logs, owed>>
    BY <1>5 DEF Step, globalVars, ghosts
  <2>2. CASE Handle(n)
    <3>1. AccountOf(n)'
      BY <1>1, <2>1, <2>2, HandleAccount
    <3>2. ASSUME NEW m \in Nodes, m # n PROVE AccountOf(m)'
      <4>1. UNCHANGED <<invList, packet[m], at[m], automata[m], buffer[m], owed[m]>>
        BY <2>1, <2>2, <3>2 DEF Handle, TypeOK, LocalTypeOK
      <4> QED
        BY <1>1, <2>1, <4>1, SameAccount
    <3> QED
      BY <3>1, <3>2
  <2>3. CASE Die(n) \/ EndFlush(n)
    BY <1>3, <2>1, <2>3 DEF Die, EndFlush
  <2> QED
    BY <1>5, <2>2, <2>3 DEF Step, LocalStep
<1>6. ASSUME NEW n \in Nodes, Flushing(n) PROVE \A m \in Nodes : AccountOf(m)'
  BY <1>3, <1>6 DEF Flushing, StartFlush, EndInput, FlushTimesOut, globalVars, ghosts
<1>7. ASSUME NEW n \in Nodes, NEW kind \in Kinds, Comes(n, kind)
      PROVE  \A m \in Nodes : AccountOf(m)'
  <2>1. process[n] # "dead"
    BY <1>7 DEF Comes, NextPacket, Idle
  <2>2. AccountOf(n)'
    BY <1>1, <1>7, <2>1, WholeIsIndependent, ComesAccount
  <2>3. ASSUME NEW m \in Nodes, m # n PROVE AccountOf(m)'
    <3>1. UNCHANGED <<invList, logs, packet[m], at[m], automata[m], buffer[m], owed[m]>>
      BY <1>7, <2>3 DEF Comes, NextPacket, globalVars, TypeOK, LocalTypeOK, GhostTypeOK
    <3> QED
      BY <1>1, <3>1, SameAccount
  <2> QED
    BY <2>2, <2>3
<1>8. ASSUME NEW n \in Nodes, NEW i \in Invariants, NEW c \in Channels, Deliver(n, i, c)
      PROVE  \A m \in Nodes : AccountOf(m)'
  BY <1>1, <1>8, DeliverAccount
<1>9. ASSUME Consumes \/ Rerun PROVE \A m \in Nodes : AccountOf(m)'
  BY <1>3, <1>9 DEF Consumes, Consume, Fail, Rerun, localVars, ghosts
<1> QED
  BY <1>4, <1>5, <1>6, <1>7, <1>8, <1>9 DEF Next, Delivers

LEMMA RightTopicStep == TypeOK /\ RightTopic /\ [Next]_vars => RightTopic'
<1> SUFFICES ASSUME TypeOK, RightTopic, [Next]_vars PROVE RightTopic'
  OBVIOUS
<1>1. ASSUME UNCHANGED <<logs, buffer>> PROVE RightTopic'
  BY <1>1 DEF RightTopic, TopicKinds
<1>2. ASSUME NEW n \in Nodes, Step(n) PROVE RightTopic'
  <2>1. logs' = logs
    BY <1>2 DEF Step, globalVars
  <2>2. CASE Handle(n) /\ Forwarding(n)
    <3> DEFINE r == [inv |-> Turn(n), kind |-> packet[n]]
    <3>1. buffer' = [buffer EXCEPT ![n] = Append(@, r)]
      BY <2>2 DEF Handle
    <3>2. r.kind \in Filter[r.inv]
      BY <2>2 DEF Forwarding, Forwards
    <3>3. buffer[n] \in Seq(Record) /\ DOMAIN buffer = Nodes
      BY DEF TypeOK, LocalTypeOK
    <3> HIDE DEF r
    <3>4. /\ Len(Append(buffer[n], r)) = Len(buffer[n]) + 1 /\ Len(buffer[n]) \in Nat
          /\ Append(buffer[n], r)[Len(buffer[n]) + 1] = r
          /\ \A j \in 1..Len(buffer[n]) : Append(buffer[n], r)[j] = buffer[n][j]
      BY <3>3
    <3>5. \A j \in 1..(Len(buffer[n]) + 1) : j = Len(buffer[n]) + 1 \/ j \in 1..Len(buffer[n])
      BY <3>4
    <3>6. \A j \in 1..Len(buffer'[n]) : buffer'[n][j].kind \in Filter[buffer'[n][j].inv]
      <4>1. buffer'[n] = Append(buffer[n], r)
        BY <3>1, <3>3
      <4> QED
        BY <3>2, <3>4, <3>5, <4>1 DEF RightTopic
    <3>7. \A m \in Nodes : m # n => buffer'[m] = buffer[m]
      BY <3>1, <3>3
    <3> QED
      BY <2>1, <3>6, <3>7 DEF RightTopic, TopicKinds
  <2>3. CASE ~ (Handle(n) /\ Forwarding(n))
    BY <1>1, <1>2, <2>1, <2>3 DEF Step, LocalStep, Handle, Die, EndFlush
  <2> QED
    BY <2>2, <2>3
<1>3. ASSUME NEW n \in Nodes, NEW i \in Invariants, NEW c \in Channels, Deliver(n, i, c)
      PROVE  RightTopic'
  <2>1. PICK j \in DOMAIN buffer[n] :
          /\ buffer[n][j].inv = i /\ ChannelOf(buffer[n][j]) = c
          /\ logs' = [logs EXCEPT ![i][c] = Append(@, [node |-> n, kind |-> buffer[n][j].kind])]
          /\ buffer' = [buffer EXCEPT ![n] = SubSeq(@, 1, j - 1) \o SubSeq(@, j + 1, Len(@))]
    BY <1>3 DEF Deliver
  <2> DEFINE e == buffer[n][j]
             r == [node |-> n, kind |-> e.kind]
             rest == SubSeq(buffer[n], 1, j - 1) \o SubSeq(buffer[n], j + 1, Len(buffer[n]))
  <2>2. buffer[n] \in Seq(Record) /\ j \in 1..Len(buffer[n]) /\ e \in Record
    BY DEF TypeOK, LocalTypeOK
  <2>3. r.kind \in TopicKinds(i, c) \cap Filter[i]
    BY <2>1, <2>2 DEF RightTopic, ChannelOf, TopicKinds, Record
  <2>4. \A k \in 1..Len(rest) : rest[k].kind \in Filter[rest[k].inv]
    <3>1. /\ rest \in Seq(Record)
          /\ \A k \in DOMAIN rest : \E l \in DOMAIN buffer[n] : rest[k] = buffer[n][l]
      BY <2>2, WithoutOne
    <3>2. \A k \in 1..Len(buffer[n]) : buffer[n][k].kind \in Filter[buffer[n][k].inv]
      BY DEF RightTopic
    <3> HIDE DEF rest, e
    <3>3. DOMAIN rest = 1..Len(rest) /\ DOMAIN buffer[n] = 1..Len(buffer[n])
      BY <2>2, <3>1
    <3> QED
      BY <3>1, <3>2, <3>3, Zenon
  <2>5. logs[i][c] \in Seq(LogRecord)
    BY DEF TypeOK, GlobalTypeOK
  <2>6. /\ logs'[i][c] = Append(logs[i][c], r)
        /\ \A o \in Invariants, d \in Channels : <<o, d>> # <<i, c>> => logs'[o][d] = logs[o][d]
        /\ buffer'[n] = rest /\ \A m \in Nodes : m # n => buffer'[m] = buffer[m]
    BY <2>1 DEF TypeOK, LocalTypeOK, GlobalTypeOK
  <2> HIDE DEF r, rest
  <2>7. \A k \in 1..Len(logs'[i][c]) : logs'[i][c][k].kind \in TopicKinds(i, c) \cap Filter[i]
    <3>1. /\ Len(Append(logs[i][c], r)) = Len(logs[i][c]) + 1 /\ Len(logs[i][c]) \in Nat
          /\ Append(logs[i][c], r)[Len(logs[i][c]) + 1] = r
          /\ \A k \in 1..Len(logs[i][c]) : Append(logs[i][c], r)[k] = logs[i][c][k]
      BY <2>5
    <3>2. \A k \in 1..(Len(logs[i][c]) + 1) : k = Len(logs[i][c]) + 1 \/ k \in 1..Len(logs[i][c])
      BY <3>1
    <3> QED
      BY <2>3, <2>6, <3>1, <3>2 DEF RightTopic
  <2>8. ASSUME NEW o \in Invariants, NEW d \in Channels
        PROVE  \A k \in 1..Len(logs'[o][d]) :
                 logs'[o][d][k].kind \in TopicKinds(o, d) \cap Filter[o]
    <3>1. CASE <<o, d>> = <<i, c>>
      BY <2>7, <3>1
    <3>2. CASE <<o, d>> # <<i, c>>
      BY <2>6, <3>2 DEF RightTopic
    <3> QED
      BY <3>1, <3>2
  <2>9. \A m \in Nodes : \A k \in 1..Len(buffer'[m]) :
          buffer'[m][k].kind \in Filter[buffer'[m][k].inv]
    BY <2>4, <2>6 DEF RightTopic
  <2> QED
    BY <2>8, <2>9 DEF RightTopic, TopicKinds
<1>4. ASSUME NEW n \in Nodes, NEW kind \in Kinds, Comes(n, kind) PROVE RightTopic'
  BY <1>1, <1>4 DEF Comes, NextPacket, globalVars
<1>5. ASSUME NEW n \in Nodes, Flushing(n) PROVE RightTopic'
  BY <1>1, <1>5 DEF Flushing, StartFlush, EndInput, FlushTimesOut, globalVars
<1>6. ASSUME Consumes \/ Rerun \/ UNCHANGED vars PROVE RightTopic'
  BY <1>1, <1>6 DEF Consumes, Consume, Fail, Rerun, vars, localVars, globalVars
<1> QED
  BY <1>2, <1>3, <1>4, <1>5, <1>6 DEF Next, Delivers

LEMMA QuietStep == TypeOK /\ Quiet /\ [Next]_vars => Quiet'
<1> SUFFICES ASSUME TypeOK, Quiet, [Next]_vars PROVE Quiet'
  OBVIOUS
<1> USE DEF TypeOK, LocalTypeOK
<1>1. ASSUME UNCHANGED <<process, packet, buffer>> PROVE Quiet'
  BY <1>1 DEF Quiet
<1>2. ASSUME NEW n \in Nodes, process[n] = "running", process' = process,
             \A m \in Nodes \ {n} : packet'[m] = packet[m] /\ buffer'[m] = buffer[m]
      PROVE  Quiet'
  BY <1>2 DEF Quiet
<1>3. ASSUME NEW n \in Nodes, Step(n) PROVE Quiet'
  <2>1. CASE Handle(n)
    <3>1. process[n] = "running" /\ process' = process
      BY <2>1 DEF Handle
    <3>2. \A m \in Nodes \ {n} : packet'[m] = packet[m] /\ buffer'[m] = buffer[m]
      BY <2>1 DEF Handle
    <3> QED
      BY <1>2, <3>1, <3>2
  <2>2. CASE Die(n)
    BY <2>2 DEF Die, Quiet
  <2>3. CASE EndFlush(n)
    BY <2>3 DEF EndFlush, Quiet
  <2> QED
    BY <1>3, <2>1, <2>2, <2>3 DEF Step, LocalStep
<1>4. ASSUME NEW n \in Nodes, Flushing(n) PROVE Quiet'
  BY <1>4 DEF Flushing, StartFlush, EndInput, FlushTimesOut, Idle, Quiet
<1>5. ASSUME NEW n \in Nodes, NEW kind \in Kinds, Comes(n, kind) PROVE Quiet'
  BY <1>2, <1>5 DEF Comes, NextPacket, Idle
<1>6. ASSUME NEW n \in Nodes, NEW i \in Invariants, NEW c \in Channels, Deliver(n, i, c)
      PROVE  Quiet'
  <2>1. buffer[n] # <<>>
    BY <1>6 DEF Deliver
  <2>2. /\ \A m \in Nodes \ {n} : buffer'[m] = buffer[m]
        /\ UNCHANGED <<packet, process>>
    BY <1>6 DEF Deliver
  <2> QED
    BY <2>1, <2>2 DEF Quiet
<1>7. ASSUME Consumes \/ Rerun \/ UNCHANGED vars PROVE Quiet'
  BY <1>1, <1>7 DEF Consumes, Consume, Fail, Rerun, vars, localVars
<1> QED
  BY <1>3, <1>4, <1>5, <1>6, <1>7 DEF Next, Delivers

LEMMA AccountMeans ==
  TypeOK /\ Account /\ RightTopic /\ Quiet => OnlyTheLastAreLost
<1> SUFFICES ASSUME TypeOK, Account, RightTopic, Quiet,
                    NEW n \in Nodes, NEW i \in Invariants, NEW c \in Channels
             PROVE  LET d == Delivered(n, i, c)
                        o == Owed(n, i, c)
                    IN /\ Len(d) <= Len(o) /\ d = SubSeq(o, 1, Len(d))
                       /\ process[n] = "ended" => d = o
  BY DEF OnlyTheLastAreLost
<1> DEFINE S == TopicKinds(i, c)
           d == Delivered(n, i, c)
           o == Owed(n, i, c)
           w == Waiting(n, i, S)
           l == Left(n, i, S)
<1>1. S \in SUBSET Kinds
  BY DEF TopicKinds
<1>2. d = Sent(n, i, c, S)
  <2>1. logs[i][c] \in Seq(LogRecord)
    BY DEF TypeOK, GlobalTypeOK
  <2>2. ASSUME NEW j \in 1..Len(logs[i][c])
        PROVE  logs[i][c][j] \in [node : {n}, kind : Kinds]
                 <=> logs[i][c][j] \in [node : {n}, kind : S]
    <3>1. logs[i][c][j].kind \in S /\ S \subseteq Kinds
      BY <1>1 DEF RightTopic
    <3>2. logs[i][c][j] \in LogRecord
      BY <2>1
    <3> HIDE DEF S
    <3> QED
      BY <3>1, <3>2 DEF LogRecord
  <2>3. Keep(logs[i][c], [node : {n}, kind : Kinds]) = Keep(logs[i][c], [node : {n}, kind : S])
    <3> HIDE DEF S
    <3> QED
      BY <2>1, <2>2, KeepSame
  <2> QED
    BY <2>3 DEF Delivered, Sent
<1>3. o = (d \o w) \o l
  BY <1>2 DEF Account, Owed
<1>4. d \in Seq(Kinds) /\ w \in Seq(Kinds) /\ l \in Seq(Kinds)
  BY <1>1, <1>2, AccountTypes
<1>5. process[n] = "ended" => w = <<>> /\ l = <<>>
  <2>1. process[n] = "ended" => buffer[n] = <<>> /\ packet[n] = NoPacket
    BY DEF Quiet
  <2> QED
    BY <2>1, KeepEmpty, KindsEmpty DEF Waiting, Left, ToForward
<1> HIDE DEF d, o, w, l
<1>6. \A a, b \in Seq(Kinds) : /\ Len(a) <= Len(a \o b) /\ a = SubSeq(a \o b, 1, Len(a))
                               /\ a \o <<>> = a /\ a \o b \in Seq(Kinds)
  <2>1. ASSUME NEW a \in Seq(Kinds), NEW b \in Seq(Kinds)
        PROVE  Len(a) <= Len(a \o b) /\ a \o <<>> = a /\ a \o b \in Seq(Kinds)
    OBVIOUS
  <2>2. ASSUME NEW a \in Seq(Kinds), NEW b \in Seq(Kinds)
        PROVE  a = SubSeq(a \o b, 1, Len(a))
    OBVIOUS
  <2> QED
    BY <2>1, <2>2
<1>7. o = d \o (w \o l) /\ w \o l \in Seq(Kinds)
  <2>1. \A a, b, g \in Seq(Kinds) : (a \o b) \o g = a \o (b \o g) /\ a \o b \in Seq(Kinds)
    BY ConcatAssociative, ConcatProperties
  <2> QED
    BY <1>3, <1>4, <2>1, Zenon
<1>8. Len(d) <= Len(o) /\ d = SubSeq(o, 1, Len(d))
  <2> DEFINE g == w \o l
  <2> HIDE DEF g
  <2>1. g \in Seq(Kinds) /\ o = d \o g
    BY <1>7 DEF g
  <2> QED
    BY <1>4, <1>6, <2>1
<1>9. process[n] = "ended" => d = o
  BY <1>3, <1>4, <1>5, <1>6
<1> QED
  BY <1>8, <1>9 DEF d, o

(* A topic holds the first of the records a node owes it, in order and     *)
(* once each, and all of them once the node has ended (the producer of     *)
(* main.cpp, its flushes and its exits): for every number of nodes,        *)
(* invariants and channels, every size of the queue and every traffic.     *)
THEOREM LossesAreLast == Spec => []OnlyTheLastAreLost
<1>1. Init => TypeOK /\ InvariantsIndependent /\ Account /\ RightTopic /\ Quiet
  BY TypeInit, AccountInit DEF Init, LocalInit, InvariantsIndependent
<1>2. TypeOK /\ InvariantsIndependent /\ Account /\ RightTopic /\ Quiet /\ [Next]_vars
        => TypeOK' /\ InvariantsIndependent' /\ Account' /\ RightTopic' /\ Quiet'
  BY TypeStep, IndependentStep, AccountStep, RightTopicStep, QuietStep
<1> QED
  BY <1>1, <1>2, AccountMeans, PTL DEF Spec

-----------------------------------------------------------------------------
(* Counting along a sequence                                               *)

LEMMA CountNext ==
  ASSUME NEW s, NEW k \in Nat, NEW S
  PROVE  /\ Count(s, 0, S) = 0
         /\ Count(s, k, S) \in Nat
         /\ Count(s, k + 1, S) = IF s[k + 1] \in S THEN Count(s, k, S) + 1 ELSE Count(s, k, S)
<1> DEFINE T == {j \in 1..k : s[j] \in S}
           U == {j \in 1..(k + 1) : s[j] \in S}
<1>1. {j \in 1..0 : s[j] \in S} = {}
  OBVIOUS
<1>2. IsFiniteSet(T) /\ Cardinality(T) \in Nat
  <2>1. IsFiniteSet(1..k)
    BY FS_Interval
  <2>2. T \in SUBSET (1..k)
    OBVIOUS
  <2> HIDE DEF T
  <2> QED
    BY <2>1, <2>2, FS_Subset, FS_CardinalityType
<1>3. k + 1 \notin T /\ U = IF s[k + 1] \in S THEN T \cup {k + 1} ELSE T
  <2>1. \A j : j \in 1..(k + 1) <=> j \in 1..k \/ j = k + 1
    OBVIOUS
  <2>2. k + 1 \notin 1..k
    OBVIOUS
  <2> QED
    BY <2>1, <2>2
<1> HIDE DEF T, U
<1>4. Cardinality(T \cup {k + 1}) = Cardinality(T) + 1
  BY <1>2, <1>3, FS_AddElement
<1> QED
  BY <1>1, <1>2, <1>3, <1>4, FS_EmptySet DEF Count, T, U

LEMMA CountNone == \A s, S : Count(s, 0, S) = 0
<1>1. \A s, S : {j \in 1..0 : s[j] \in S} = {}
  OBVIOUS
<1> QED
  BY <1>1, FS_EmptySet DEF Count

(* Only the counted elements matter.                                       *)
LEMMA CountSame ==
  ASSUME NEW s, NEW t, NEW k, NEW S, \A j \in 1..k : s[j] \in S <=> t[j] \in S
  PROVE  Count(s, k, S) = Count(t, k, S)
<1>1. {j \in 1..k : s[j] \in S} = {j \in 1..k : t[j] \in S}
  OBVIOUS
<1> QED
  BY <1>1 DEF Count

(* An element of S has, in what is kept, as many before it as are counted. *)
LEMMA KeepNth ==
  ASSUME NEW X, NEW s \in Seq(X), NEW S
  PROVE  /\ Len(Keep(s, S)) = Count(s, Len(s), S)
         /\ \A k \in Nat : k < Len(s) /\ s[k + 1] \in S =>
              /\ Count(s, k, S) < Len(Keep(s, S))
              /\ Keep(s, S)[Count(s, k, S) + 1] = s[k + 1]
<1> DEFINE P(q) == /\ Len(Keep(q, S)) = Count(q, Len(q), S)
                   /\ \A k \in Nat : k < Len(q) /\ q[k + 1] \in S =>
                        /\ Count(q, k, S) < Len(Keep(q, S))
                        /\ Keep(q, S)[Count(q, k, S) + 1] = q[k + 1]
           T == {q \in Seq(X) : P(q)}
<1>1. <<>> \in T
  <2>1. <<>> \in Seq(X) /\ Len(<<>>) = 0 /\ \A k \in Nat : ~ (k < 0)
    OBVIOUS
  <2>2. Count(<<>>, 0, S) = 0 /\ Keep(<<>>, S) = <<>>
    BY CountNext, KeepEmpty
  <2> QED
    BY <2>1, <2>2
<1>2. ASSUME NEW q \in Seq(X), NEW x \in X, P(q)
      PROVE  P(Append(q, x))
  <2> DEFINE t == Append(q, x)
             n == Len(q)
             kept == Keep(q, S)
             c == Count(q, n, S)
  <2>1. /\ t \in Seq(X) /\ Len(t) = n + 1 /\ n \in Nat /\ t[n + 1] = x
        /\ \A j \in 1..n : t[j] = q[j]
    OBVIOUS
  <2>2. Keep(t, S) = IF x \in S THEN Append(kept, x) ELSE kept
    BY KeepAppend
  <2>3. kept \in Seq(X)
    <3>1. kept \in Seq(X \cap S)
      BY KeepType
    <3>2. \A p \in Seq(X \cap S) : p \in Seq(X)
      OBVIOUS
    <3> QED
      BY <3>1, <3>2
  <2>4. ASSUME NEW k \in Nat, k <= n PROVE Count(t, k, S) = Count(q, k, S)
    <3>1. \A j \in 1..k : t[j] = q[j]
      BY <2>1, <2>4
    <3> HIDE DEF t
    <3> QED
      BY <3>1, CountSame
  <2> HIDE DEF t, n
  <2>5. Count(t, n + 1, S) = IF x \in S THEN c + 1 ELSE c
    <3>1. Count(t, n + 1, S) = IF t[n + 1] \in S THEN Count(t, n, S) + 1 ELSE Count(t, n, S)
      BY <2>1, CountNext
    <3>2. Count(t, n, S) = c
      BY <2>1, <2>4
    <3> QED
      BY <2>1, <3>1, <3>2
  <2>6. Len(kept) = c /\ \A k \in Nat : k < n /\ q[k + 1] \in S =>
                           Count(q, k, S) < Len(kept) /\ kept[Count(q, k, S) + 1] = q[k + 1]
    BY <1>2 DEF n
  <2>7. c \in Nat
    BY <2>1, CountNext
  <2> HIDE DEF kept, c
  <2>8. /\ Len(Append(kept, x)) = Len(kept) + 1 /\ Append(kept, x)[Len(kept) + 1] = x
        /\ \A j \in 1..Len(kept) : Append(kept, x)[j] = kept[j]
        /\ Len(kept) \in Nat
    BY <2>3
  <2>9. Len(Keep(t, S)) = Count(t, n + 1, S)
    BY <2>2, <2>5, <2>6, <2>8
  <2>10. ASSUME NEW k \in Nat, k < n + 1, t[k + 1] \in S
         PROVE  /\ Count(t, k, S) < Len(Keep(t, S))
                /\ Keep(t, S)[Count(t, k, S) + 1] = t[k + 1]
    <3>1. CASE k = n
      <4>1. x \in S /\ Count(t, k, S) = c /\ t[k + 1] = x
        BY <2>1, <2>4, <2>10, <3>1 DEF c
      <4> QED
        BY <2>2, <2>6, <2>7, <2>8, <4>1
    <3>2. CASE k < n
      <4>1. t[k + 1] = q[k + 1] /\ k <= n /\ k + 1 \in 1..n
        BY <2>1, <3>2
      <4>2. Count(t, k, S) = Count(q, k, S) /\ Count(q, k, S) \in Nat
        BY <2>4, <4>1, CountNext
      <4>3. Count(q, k, S) < Len(kept) /\ kept[Count(q, k, S) + 1] = q[k + 1]
        BY <2>6, <2>10, <3>2, <4>1
      <4>4. Count(q, k, S) + 1 \in 1..Len(kept)
        BY <2>8, <4>2, <4>3
      <4> QED
        BY <2>2, <2>8, <4>1, <4>2, <4>3, <4>4
    <3> QED
      BY <2>1, <2>10, <3>1, <3>2
  <2> QED
    BY <2>1, <2>9, <2>10 DEF t
<1>3. ASSUME NEW q \in Seq(X), NEW x \in X, q \in T
      PROVE  Append(q, x) \in T
  <2>1. Append(q, x) \in Seq(X) /\ P(q)
    BY <1>3
  <2> HIDE DEF P
  <2> QED
    BY <1>2, <2>1
<1>4. Seq(X) \subseteq T
  <2> HIDE DEF T
  <2> QED
    BY <1>1, <1>3, EverySequence
<1> QED
  BY <1>4

-----------------------------------------------------------------------------
(* Refinement of KeyedMonitors                                             *)

LEMMA MonitorType ==
  ASSUME NEW m \in Monitors
  PROVE  /\ m[1] \in Invariants /\ m[2] \in Keys /\ m = <<m[1], m[2]>>
         /\ Channel(m[2]) \in Channels /\ Channel(m[2]) < ChannelsRead
         /\ KeyHash(m[2]) \in Hashes
         /\ KindsOfKey[m] = {kind \in Kinds : KeyOf[m[1]][kind] = m[2]}
         /\ KindsOfKey[m] \in SUBSET TopicKinds(m[1], Channel(m[2]))
<1>1. /\ m[1] \in Invariants /\ m[2] \in Keys /\ m = <<m[1], m[2]>>
      /\ FilesPerInvariant > 0 /\ Channel(m[2]) < ChannelsRead
  BY DEF Monitors
<1>2. Channel(m[2]) \in Channels
  BY <1>1, ChannelType
<1>3. KeyHash(m[2]) \in Hashes
  BY <1>1 DEF Hashes
<1>4. KindsOfKey[m] = {kind \in Kinds : KeyOf[m[1]][kind] = m[2]}
  BY DEF KindsOfKey
<1>5. KindsOfKey[m] \in SUBSET TopicKinds(m[1], Channel(m[2]))
  BY <1>4 DEF TopicKinds
<1> QED
  BY <1>1, <1>2, <1>3, <1>4, <1>5

(* Monitors of one invariant are told apart by channel and hash, from each *)
(* other and from every other key of the invariant.                        *)
LEMMA MonitorAlone ==
  ASSUME NEW m \in Monitors, NEW key \in KeysOf(m[1]),
         Channel(key) = Channel(m[2]), KeyHash(key) = KeyHash(m[2])
  PROVE  key = m[2]
BY DEF Monitors

LEMMA KeyedInit == Init => Keyed!Init
<1> SUFFICES ASSUME Init PROVE Keyed!Init
  OBVIOUS
<1>1. ASSUME NEW n \in Nodes, NEW m \in Monitors
      PROVE  OwedKinds(n, m) = <<>> /\ TakenFrom(n, m) = 0
  <2>1. owed[n][m[1]] = <<>> /\ offset[m[1]][Channel(m[2])] = 0
    BY MonitorType DEF Init, Beginning
  <2> QED
    BY <2>1, KeepEmpty, CountNone DEF OwedKinds, TakenFrom
<1>2. ASSUME NEW m \in Monitors
      PROVE  /\ AlertsFor(m) = 0
             /\ StateOf(m) = GlobalStart[m[1]]
  <2>1. /\ alerts[m[1]][Channel(m[2])] = <<>>
        /\ StateOf(m) = GlobalStart[m[1]]
    BY MonitorType DEF Init, NoOutput, StartStates, StateOf
  <2>2. Len(<<>>) = 0
    OBVIOUS
  <2> QED
    BY <2>1, <2>2, CountNone DEF AlertsFor
<1> QED
  BY <1>1, <1>2 DEF Keyed!Init, Keyed!Start, Keyed!NoneTaken

LEMMA KeyedRerun == Rerun => Keyed!Rerun
<1> SUFFICES ASSUME Rerun PROVE Keyed!Rerun
  OBVIOUS
<1>1. ASSUME NEW n \in Nodes, NEW m \in Monitors
      PROVE  OwedKinds(n, m)' = OwedKinds(n, m) /\ TakenFrom(n, m)' = 0
  <2>1. owed' = owed /\ offset'[m[1]][Channel(m[2])] = 0
    BY MonitorType DEF Rerun, Beginning, ghosts
  <2> QED
    BY <2>1, CountNone DEF OwedKinds, TakenFrom
<1>2. ASSUME NEW m \in Monitors
      PROVE  /\ AlertsFor(m)' = 0
             /\ StateOf(m)' = GlobalStart[m[1]]
  <2>1. /\ alerts'[m[1]][Channel(m[2])] = <<>>
        /\ StateOf(m)' = GlobalStart[m[1]]
    BY MonitorType DEF Rerun, NoOutput, StartStates, StateOf
  <2>2. Len(<<>>) = 0
    OBVIOUS
  <2> QED
    BY <2>1, <2>2, CountNone DEF AlertsFor
<1> QED
  BY <1>1, <1>2 DEF Keyed!Rerun, Keyed!NoneTaken

(* What the job has not read does not count.                               *)
LEMMA KeyedStutter ==
  ASSUME TypeOK, UNCHANGED <<owed, offset, monitors, alerts>>,
         \A i \in Invariants, c \in Channels : \A j \in 1..offset[i][c] :
           logs'[i][c][j] = logs[i][c][j]
  PROVE  UNCHANGED Keyed!monitorVars
<1>1. ASSUME NEW n \in Nodes, NEW m \in Monitors
      PROVE  OwedKinds(n, m)' = OwedKinds(n, m) /\ TakenFrom(n, m)' = TakenFrom(n, m)
  <2> DEFINE c == Channel(m[2])
             S == [node : {n}, kind : KindsOfKey[m]]
  <2>1. \A j \in 1..offset[m[1]][c] : logs'[m[1]][c][j] = logs[m[1]][c][j]
    BY MonitorType
  <2>2. Count(logs'[m[1]][c], offset[m[1]][c], S) = Count(logs[m[1]][c], offset[m[1]][c], S)
    <3> HIDE DEF S, c
    <3> QED
      BY <2>1, CountSame
  <2> QED
    BY <2>2 DEF OwedKinds, TakenFrom
<1>2. \A m \in Monitors : AlertsFor(m)' = AlertsFor(m)
  BY DEF AlertsFor
<1>3. \A m \in Monitors : StateOf(m)' = StateOf(m)
  BY DEF StateOf
<1> QED
  BY <1>1, <1>2, <1>3 DEF Keyed!monitorVars

(* A packet that comes is forwarded to the monitors of its keys.           *)
LEMMA KeyedForward ==
  ASSUME TypeOK, NEW n \in Nodes, NEW kind \in Kinds, Comes(n, kind)
  PROVE  Keyed!Forward(n, kind)
<1>1. UNCHANGED <<logs, offset, monitors, alerts>>
  BY DEF Comes, globalVars
<1>2. \A i \in Invariants : /\ owed'[n][i] \in {owed[n][i], Append(owed[n][i], kind)}
                            /\ owed[n][i] \in Seq(Kinds)
  BY DEF Comes, TypeOK, GhostTypeOK
<1>3. \A o \in Nodes \ {n} : owed'[o] = owed[o]
  BY DEF Comes, TypeOK, GhostTypeOK
<1>4. ASSUME NEW o \in Nodes, NEW m \in Monitors
      PROVE  /\ TakenFrom(o, m)' = TakenFrom(o, m)
             /\ AlertsFor(m)' = AlertsFor(m) /\ StateOf(m)' = StateOf(m)
  BY <1>1 DEF TakenFrom, AlertsFor, StateOf
<1>5. \A o \in Nodes \ {n}, m \in Monitors : OwedKinds(o, m)' = OwedKinds(o, m)
  BY <1>3 DEF OwedKinds
<1>6. ASSUME NEW m \in Monitors, OwedKinds(n, m)' # OwedKinds(n, m)
      PROVE  /\ OwedKinds(n, m)' = Append(OwedKinds(n, m), kind)
             /\ KeyOf[m[1]][kind] = m[2]
  <2>1. m[1] \in Invariants
    BY MonitorType
  <2>2. owed'[n][m[1]] = Append(owed[n][m[1]], kind)
    BY <1>2, <1>6, <2>1 DEF OwedKinds
  <2>3. \A q \in Seq(Kinds) : \A S :
          Keep(Append(q, kind), S) = IF kind \in S THEN Append(Keep(q, S), kind) ELSE Keep(q, S)
    BY KeepAppend
  <2>4. Keep(Append(owed[n][m[1]], kind), KindsOfKey[m]) =
          IF kind \in KindsOfKey[m] THEN Append(Keep(owed[n][m[1]], KindsOfKey[m]), kind)
          ELSE Keep(owed[n][m[1]], KindsOfKey[m])
    BY <1>2, <2>1, <2>3
  <2>5. /\ OwedKinds(n, m) = Keep(owed[n][m[1]], KindsOfKey[m])
        /\ OwedKinds(n, m)' = Keep(Append(owed[n][m[1]], kind), KindsOfKey[m])
    BY <2>2 DEF OwedKinds
  <2>6. kind \in KindsOfKey[m]
    BY <1>6, <2>4, <2>5
  <2>7. OwedKinds(n, m)' = Append(OwedKinds(n, m), kind)
    BY <2>4, <2>5, <2>6
  <2> QED
    BY <2>6, <2>7, MonitorType
<1>7. \A m1, m2 \in Monitors :
        (/\ OwedKinds(n, m1)' # OwedKinds(n, m1)
         /\ OwedKinds(n, m2)' # OwedKinds(n, m2)
         /\ m1[1] = m2[1]) => m1 = m2
  <2>1. ASSUME NEW m1 \in Monitors, NEW m2 \in Monitors, m1[1] = m2[1],
               OwedKinds(n, m1)' # OwedKinds(n, m1), OwedKinds(n, m2)' # OwedKinds(n, m2)
        PROVE  m1 = m2
    <3>1. m1[2] = m2[2]
      BY <1>6, <2>1
    <3>2. m1 = <<m1[1], m1[2]>> /\ m2 = <<m2[1], m2[2]>>
      BY MonitorType
    <3> QED
      BY <2>1, <3>1, <3>2
  <2> QED
    BY <2>1
<1> QED
  BY <1>1, <1>4, <1>5, <1>6, <1>7 DEF Keyed!Forward

(* The record the job reads next is one of the topic, let through.         *)
LEMMA NextRecordIs ==
  ASSUME TypeOK, RightTopic, NEW i \in Invariants, NEW c \in Channels, Unread(i, c)
  PROVE  LET r == NextRecord(i, c)
             k == offset[i][c]
         IN /\ k \in Nat /\ k < Len(logs[i][c]) /\ r = logs[i][c][k + 1]
            /\ logs[i][c] \in Seq(LogRecord)
            /\ r \in LogRecord /\ r.node \in Nodes /\ r.kind \in Kinds
            /\ r.kind \in Filter[i]
            /\ Channel(KeyOf[i][r.kind]) = c /\ c < ChannelsRead
            /\ KeyOf[i][r.kind] \in Keys /\ KeyOf[i][r.kind] \in KeysOf(i)
            /\ HashOf(i, r) = KeyHash(KeyOf[i][r.kind]) /\ HashOf(i, r) \in Hashes
<1> DEFINE r == NextRecord(i, c)
           k == offset[i][c]
<1>1. /\ k \in Nat /\ k < Len(logs[i][c]) /\ r = logs[i][c][k + 1] /\ c < ChannelsRead
      /\ logs[i][c] \in Seq(LogRecord)
  BY DEF TypeOK, GlobalTypeOK, Unread, NextRecord
<1>2. k + 1 \in 1..Len(logs[i][c])
  BY <1>1
<1>3. r \in LogRecord
  BY <1>1, <1>2
<1>4. r.node \in Nodes /\ r.kind \in Kinds
  BY <1>3 DEF LogRecord
<1>5. r.kind \in TopicKinds(i, c) \cap Filter[i]
  BY <1>1, <1>2 DEF RightTopic
<1> HIDE DEF r, k
<1>6. Channel(KeyOf[i][r.kind]) = c
  BY <1>5 DEF TopicKinds
<1>7. KeyOf[i][r.kind] \in Keys /\ KeyOf[i][r.kind] \in KeysOf(i)
  BY <1>4, LocalAssumption DEF KeysOf
<1>8. HashOf(i, r) = KeyHash(KeyOf[i][r.kind]) /\ HashOf(i, r) \in Hashes
  BY <1>7 DEF HashOf, Hashes
<1> QED
  BY <1>1, <1>3, <1>4, <1>5, <1>6, <1>7, <1>8 DEF r, k

(* A record leaves the monitors of other keys alone.                       *)
LEMMA ConsumeOthers ==
  ASSUME TypeOK, RightTopic, NEW i \in Invariants, NEW c \in Channels, Consume(i, c),
         NEW m \in Monitors, ~ (m[1] = i /\ m[2] = KeyOf[i][NextRecord(i, c).kind])
  PROVE  /\ \A o \in Nodes : TakenFrom(o, m)' = TakenFrom(o, m)
         /\ StateOf(m)' = StateOf(m)
         /\ AlertsFor(m)' = AlertsFor(m)
<1> DEFINE r == NextRecord(i, c)
           k == offset[i][c]
           d == Channel(m[2])
           h == KeyHash(m[2])
<1>1. Unread(i, c) /\ logs' = logs /\ offset' = [offset EXCEPT ![i][c] = k + 1]
  BY DEF Consume, TypeOK, GlobalTypeOK
<1>2. /\ k \in Nat /\ r = logs[i][c][k + 1] /\ r \in LogRecord /\ r.kind \in Filter[i]
      /\ Channel(KeyOf[i][r.kind]) = c /\ KeyOf[i][r.kind] \in KeysOf(i)
      /\ HashOf(i, r) = KeyHash(KeyOf[i][r.kind]) /\ HashOf(i, r) \in Hashes
  BY <1>1, NextRecordIs
<1>3. PICK s \in GlobalMoves[i][StateFor(i, c)][r.kind] :
        /\ monitors' = [monitors EXCEPT ![i][c][HashOf(i, r)] = s]
        /\ alerts' = IF s \in GlobalFinals[i]
                     THEN [alerts EXCEPT ![i][c] = Append(@, r)] ELSE alerts
  BY <1>2 DEF Consume
<1>4. m[1] \in Invariants /\ d \in Channels /\ h \in Hashes
  BY MonitorType
<1> HIDE DEF r, k, d, h
<1>5. CASE <<m[1], d>> # <<i, c>>
  <2>1. /\ offset'[m[1]][d] = offset[m[1]][d] /\ monitors'[m[1]][d] = monitors[m[1]][d]
        /\ alerts'[m[1]][d] = alerts[m[1]][d]
    BY <1>1, <1>3, <1>4, <1>5 DEF TypeOK, GlobalTypeOK
  <2> QED
    BY <1>1, <2>1 DEF TakenFrom, AlertsFor, StateOf, d, h
<1>6. CASE <<m[1], d>> = <<i, c>>
  <2>1. m[1] = i /\ d = c /\ m[2] # KeyOf[i][r.kind]
    BY <1>6 DEF r
  <2>2. r.kind \notin KindsOfKey[m]
    BY <2>1, MonitorType
  <2>3. KeyHash(KeyOf[i][r.kind]) # h
    BY <1>2, <2>1, MonitorAlone DEF d, h
  <2>4. monitors'[i][c][h] = monitors[i][c][h]
    BY <1>2, <1>3, <1>4, <2>1, <2>3 DEF TypeOK, GlobalTypeOK
  <2>5. ASSUME NEW o \in Nodes PROVE TakenFrom(o, m)' = TakenFrom(o, m)
    <3> DEFINE S == [node : {o}, kind : KindsOfKey[m]]
    <3>1. r \notin S
      BY <2>2
    <3>2. offset'[i][c] = k + 1
      BY <1>1 DEF TypeOK, GlobalTypeOK
    <3> HIDE DEF S
    <3>3. Count(logs[i][c], k + 1, S) = Count(logs[i][c], k, S)
      BY <1>2, <3>1, CountNext
    <3>4. TakenFrom(o, m) = Count(logs[i][c], k, S)
      BY <2>1 DEF TakenFrom, S, k, d
    <3>5. TakenFrom(o, m)' = Count(logs[i][c], k + 1, S)
      BY <1>1, <2>1, <3>2 DEF TakenFrom, S, d
    <3> QED
      BY <3>3, <3>4, <3>5
  <2>6. AlertsFor(m)' = AlertsFor(m)
    <3> DEFINE S == [node : Nodes, kind : KindsOfKey[m]]
               a == alerts[i][c]
    <3>1. r \notin S
      BY <2>2
    <3>2. a \in Seq(LogRecord)
      BY DEF TypeOK, GlobalTypeOK
    <3>3. alerts'[i][c] \in {a, Append(a, r)}
      BY <1>3 DEF TypeOK, GlobalTypeOK
    <3>4. AlertsFor(m) = Count(a, Len(a), S)
      BY <2>1 DEF AlertsFor, d
    <3>5. AlertsFor(m)' = Count(alerts'[i][c], Len(alerts'[i][c]), S)
      BY <2>1 DEF AlertsFor, d
    <3> HIDE DEF S, a
    <3>6. Count(Append(a, r), Len(Append(a, r)), S) = Count(a, Len(a), S)
      <4> DEFINE b == Append(a, r)
      <4>1. /\ Len(b) = Len(a) + 1 /\ Len(a) \in Nat /\ b[Len(a) + 1] = r
            /\ \A j \in 1..Len(a) : b[j] = a[j]
        BY <1>2, <3>2
      <4> HIDE DEF b
      <4>2. Count(b, Len(a), S) = Count(a, Len(a), S)
        BY <4>1, CountSame
      <4>3. Count(b, Len(a) + 1, S) = Count(b, Len(a), S)
        <5>1. \A p, l : l \in Nat =>
                Count(p, l + 1, S) = IF p[l + 1] \in S THEN Count(p, l, S) + 1 ELSE Count(p, l, S)
          BY CountNext
        <5>2. Count(b, Len(a) + 1, S) = IF b[Len(a) + 1] \in S THEN Count(b, Len(a), S) + 1
                                        ELSE Count(b, Len(a), S)
          BY <4>1, <5>1
        <5> QED
          BY <3>1, <4>1, <5>2
      <4> QED
        BY <4>1, <4>2, <4>3 DEF b
    <3> QED
      BY <3>3, <3>4, <3>5, <3>6
  <2> QED
    BY <2>1, <2>4, <2>5, <2>6 DEF StateOf, d, h
<1> QED
  BY <1>5, <1>6

(* A record of a monitor's key is the next that its node forwarded for it, *)
(* and the monitor is given it.                                            *)
LEMMA ConsumeOwn ==
  ASSUME TypeOK, RightTopic, Account,
         NEW i \in Invariants, NEW c \in Channels, Consume(i, c),
         NEW n \in Nodes, n = NextRecord(i, c).node,
         NEW m \in Monitors, m[1] = i, m[2] = KeyOf[i][NextRecord(i, c).kind]
  PROVE  /\ TakenFrom(n, m) \in Nat /\ TakenFrom(n, m) < Len(OwedKinds(n, m))
         /\ TakenFrom(n, m)' = TakenFrom(n, m) + 1
         /\ \A o \in Nodes \ {n} : TakenFrom(o, m)' = TakenFrom(o, m)
         /\ \E s \in GlobalMoves[i][StateOf(m)][OwedKinds(n, m)[TakenFrom(n, m) + 1]] :
              /\ StateOf(m)' = s
              /\ AlertsFor(m)' = IF s \in GlobalFinals[m[1]] THEN AlertsFor(m) + 1
                                 ELSE AlertsFor(m)
<1> DEFINE r == NextRecord(i, c)
           k == offset[i][c]
           h == KeyHash(m[2])
           q == logs[i][c]
<1>1. Unread(i, c) /\ logs' = logs /\ offset' = [offset EXCEPT ![i][c] = k + 1]
  BY DEF Consume, TypeOK, GlobalTypeOK
<1>2. /\ k \in Nat /\ k < Len(q) /\ r = q[k + 1] /\ q \in Seq(LogRecord)
      /\ r \in LogRecord /\ n = r.node /\ r.kind \in Filter[i] /\ r.kind \in Kinds
      /\ Channel(m[2]) = c /\ HashOf(i, r) = h /\ h \in Hashes
  BY <1>1, NextRecordIs
<1>3. PICK s \in GlobalMoves[i][StateFor(i, c)][r.kind] :
        /\ monitors' = [monitors EXCEPT ![i][c][h] = s]
        /\ alerts' = IF s \in GlobalFinals[i]
                     THEN [alerts EXCEPT ![i][c] = Append(@, r)] ELSE alerts
  BY <1>2 DEF Consume
<1>4. r.kind \in KindsOfKey[m] /\ KindsOfKey[m] \in SUBSET TopicKinds(i, c)
  BY <1>2, MonitorType
<1> HIDE DEF r, k, h, q
<1>5. ASSUME NEW o \in Nodes
      PROVE  /\ TakenFrom(o, m) = Count(q, k, [node : {o}, kind : KindsOfKey[m]])
             /\ TakenFrom(o, m)' = Count(q, k + 1, [node : {o}, kind : KindsOfKey[m]])
  <2>1. offset'[i][c] = k + 1
    BY <1>1 DEF TypeOK, GlobalTypeOK
  <2> QED
    BY <1>1, <1>2, <2>1 DEF TakenFrom, q, k
<1>6. \A o \in Nodes : r \in [node : {o}, kind : KindsOfKey[m]] <=> o = n
  BY <1>2, <1>4 DEF LogRecord
<1>7. ASSUME NEW o \in Nodes
      PROVE  /\ TakenFrom(o, m) \in Nat
             /\ TakenFrom(o, m)' = IF o = n THEN TakenFrom(o, m) + 1 ELSE TakenFrom(o, m)
  <2> DEFINE S == [node : {o}, kind : KindsOfKey[m]]
  <2>1. r \in S <=> o = n
    BY <1>6
  <2>2. TakenFrom(o, m) = Count(q, k, S) /\ TakenFrom(o, m)' = Count(q, k + 1, S)
    BY <1>5
  <2> HIDE DEF S
  <2>3. /\ Count(q, k, S) \in Nat
        /\ Count(q, k + 1, S) = IF q[k + 1] \in S THEN Count(q, k, S) + 1 ELSE Count(q, k, S)
    BY <1>2, CountNext
  <2> QED
    BY <1>2, <2>1, <2>2, <2>3
<1>8. /\ TakenFrom(n, m) < Len(OwedKinds(n, m))
      /\ OwedKinds(n, m)[TakenFrom(n, m) + 1] = r.kind
  <2> DEFINE S == [node : {n}, kind : KindsOfKey[m]]
             kept == Keep(q, S)
             t == TakenFrom(n, m)
             sent == KindsOf(kept)
             later == Waiting(n, i, KindsOfKey[m]) \o Left(n, i, KindsOfKey[m])
  <2>1. r \in S
    BY <1>2, <1>6
  <2>2. t = Count(q, k, S) /\ t \in Nat
    BY <1>2, <1>5, <1>7
  <2>3. t < Len(kept) /\ kept[t + 1] = r
    <3> HIDE DEF S
    <3> QED
      BY <1>2, <2>1, <2>2, KeepNth
  <2>4. KindsOfKey[m] \in SUBSET Kinds
    BY <1>4 DEF TopicKinds
  <2>5. OwedKinds(n, m) = sent \o later /\ sent \in Seq(Kinds) /\ later \in Seq(Kinds)
    <3>1. sent = Sent(n, i, c, KindsOfKey[m])
      BY DEF Sent, q
    <3> DEFINE w == Waiting(n, i, KindsOfKey[m])
               l == Left(n, i, KindsOfKey[m])
    <3>2. sent \in Seq(Kinds) /\ w \in Seq(Kinds) /\ l \in Seq(Kinds)
      BY <1>2, <2>4, <3>1, AccountTypes
    <3>3. OwedKinds(n, m) = (sent \o w) \o l
      <4>1. \A S2 \in SUBSET TopicKinds(i, c) :
              Keep(owed[n][i], S2) = (Sent(n, i, c, S2) \o Waiting(n, i, S2)) \o Left(n, i, S2)
        BY <1>2 DEF Account
      <4>2. OwedKinds(n, m) = Keep(owed[n][i], KindsOfKey[m])
        BY DEF OwedKinds
      <4> HIDE DEF sent
      <4> QED
        BY <1>4, <3>1, <4>1, <4>2
    <3> HIDE DEF sent, w, l
    <3>4. \A a, b, g \in Seq(Kinds) : (a \o b) \o g = a \o (b \o g) /\ b \o g \in Seq(Kinds)
      BY ConcatAssociative, ConcatProperties
    <3>5. OwedKinds(n, m) = sent \o (w \o l) /\ w \o l \in Seq(Kinds)
      BY <3>2, <3>3, <3>4, Zenon
    <3> QED
      BY <3>2, <3>5 DEF w, l
  <2>6. Len(sent) = Len(kept) /\ sent[t + 1] = r.kind
    <3>1. kept \in Seq(LogRecord \cap S)
      <4> HIDE DEF S
      <4> QED
        BY <1>2, KeepType
    <3> HIDE DEF kept, t, S
    <3>2. DOMAIN kept = 1..Len(kept) /\ Len(kept) \in Nat /\ t + 1 \in 1..Len(kept)
      BY <2>2, <2>3, <3>1
    <3>3. sent[t + 1] = r.kind
      BY <2>3, <3>2 DEF KindsOf
    <3>4. Len(sent) = Len(kept)
      BY <3>2 DEF KindsOf
    <3> QED
      BY <3>3, <3>4
  <2> HIDE DEF kept, t, sent, later
  <2>7. \A a, b \in Seq(Kinds) : /\ Len(a) <= Len(a \o b) /\ Len(a) \in Nat /\ Len(a \o b) \in Nat
                                 /\ \A j \in 1..Len(a) : (a \o b)[j] = a[j]
    OBVIOUS
  <2>8. /\ Len(sent) <= Len(OwedKinds(n, m))
        /\ \A j \in 1..Len(sent) : OwedKinds(n, m)[j] = sent[j]
        /\ Len(sent) \in Nat /\ Len(OwedKinds(n, m)) \in Nat
    BY <2>5, <2>7
  <2>9. t + 1 \in 1..Len(sent) /\ t < Len(OwedKinds(n, m))
    BY <2>2, <2>3, <2>6, <2>8
  <2> QED
    BY <2>6, <2>8, <2>9 DEF t
<1>9. StateFor(i, c) = monitors[i][c][h] /\ monitors'[i][c][h] = s
  BY <1>2, <1>3 DEF StateFor, TypeOK, GlobalTypeOK, r
<1>10. AlertsFor(m)' = IF s \in GlobalFinals[i] THEN AlertsFor(m) + 1 ELSE AlertsFor(m)
  <2> DEFINE S == [node : Nodes, kind : KindsOfKey[m]]
             a == alerts[i][c]
             b == Append(a, r)
  <2>1. r \in S
    BY <1>2, <1>4 DEF LogRecord
  <2>2. a \in Seq(LogRecord)
    BY DEF TypeOK, GlobalTypeOK
  <2>3. alerts'[i][c] = IF s \in GlobalFinals[i] THEN b ELSE a
    BY <1>3 DEF TypeOK, GlobalTypeOK
  <2>4. AlertsFor(m) = Count(a, Len(a), S) /\ AlertsFor(m)' = Count(alerts'[i][c], Len(alerts'[i][c]), S)
    BY <1>2 DEF AlertsFor
  <2> HIDE DEF S, a
  <2>5. /\ Len(b) = Len(a) + 1 /\ Len(a) \in Nat /\ b[Len(a) + 1] = r
        /\ \A j \in 1..Len(a) : b[j] = a[j]
    BY <1>2, <2>2
  <2> HIDE DEF b
  <2>6. Count(b, Len(a), S) = Count(a, Len(a), S)
    BY <2>5, CountSame
  <2>7. Count(b, Len(a) + 1, S) = Count(b, Len(a), S) + 1
    BY <2>1, <2>5, CountNext
  <2> QED
    BY <2>3, <2>4, <2>5, <2>6, <2>7
<1>11. /\ TakenFrom(n, m) \in Nat /\ TakenFrom(n, m)' = TakenFrom(n, m) + 1
       /\ \A o \in Nodes \ {n} : TakenFrom(o, m)' = TakenFrom(o, m)
  <2>1. TakenFrom(n, m) \in Nat /\ TakenFrom(n, m)' = TakenFrom(n, m) + 1
    BY <1>2, <1>7
  <2>2. ASSUME NEW o \in Nodes \ {n} PROVE TakenFrom(o, m)' = TakenFrom(o, m)
    BY <1>7
  <2> QED
    BY <2>1, <2>2
<1>12. /\ s \in GlobalMoves[i][monitors[i][c][h]][OwedKinds(n, m)[TakenFrom(n, m) + 1]]
       /\ StateOf(m) = monitors[i][c][h]
       /\ StateOf(m)' = s
  BY <1>2, <1>3, <1>8, <1>9 DEF StateOf, h
<1>13. \E x \in GlobalMoves[i][StateOf(m)]
                            [OwedKinds(n, m)[TakenFrom(n, m) + 1]] :
         /\ StateOf(m)' = x
         /\ AlertsFor(m)' = IF x \in GlobalFinals[m[1]] THEN AlertsFor(m) + 1 ELSE AlertsFor(m)
  BY <1>10, <1>12
<1> QED
  BY <1>8, <1>11, <1>13

LEMMA KeyedConsume ==
  ASSUME TypeOK, RightTopic, Account,
         NEW i \in Invariants, NEW c \in Channels, Consume(i, c)
  PROVE  (\E n \in Nodes, m \in Monitors : Keyed!Take(n, m)) \/ UNCHANGED Keyed!monitorVars
<1> DEFINE key == KeyOf[i][NextRecord(i, c).kind]
<1>1. PICK n \in Nodes : n = NextRecord(i, c).node
  BY NextRecordIs DEF Consume
<1>2. ASSUME NEW o \in Nodes, NEW m \in Monitors
      PROVE  OwedKinds(o, m)' = OwedKinds(o, m)
  BY DEF Consume, ghosts, OwedKinds
<1>3. ASSUME NEW m \in Monitors, ~ (m[1] = i /\ m[2] = key)
      PROVE  /\ \A o \in Nodes : TakenFrom(o, m)' = TakenFrom(o, m)
             /\ StateOf(m)' = StateOf(m) /\ AlertsFor(m)' = AlertsFor(m)
  BY <1>3, ConsumeOthers
<1>4. CASE \A m \in Monitors : ~ (m[1] = i /\ m[2] = key)
  <2>1. UNCHANGED Keyed!monitorVars
    BY <1>2, <1>3, <1>4 DEF Keyed!monitorVars
  <2> QED
    BY <2>1
<1>5. ASSUME NEW m \in Monitors, m[1] = i, m[2] = key
      PROVE  Keyed!Take(n, m)
  <2>1. \A o \in Monitors : o # m => ~ (o[1] = i /\ o[2] = key)
    BY <1>5, MonitorType
  <2>2. /\ TakenFrom(n, m) \in Nat /\ TakenFrom(n, m) < Len(OwedKinds(n, m))
        /\ TakenFrom(n, m)' = TakenFrom(n, m) + 1
        /\ \A o \in Nodes \ {n} : TakenFrom(o, m)' = TakenFrom(o, m)
    BY <1>1, <1>5, ConsumeOwn
  <2>3. \E s \in GlobalMoves[i][StateOf(m)][OwedKinds(n, m)[TakenFrom(n, m) + 1]] :
          /\ StateOf(m)' = s
          /\ AlertsFor(m)' = IF s \in GlobalFinals[m[1]] THEN AlertsFor(m) + 1 ELSE AlertsFor(m)
    BY <1>1, <1>5, ConsumeOwn
  <2>4. PICK s \in GlobalMoves[i][StateOf(m)][OwedKinds(n, m)[TakenFrom(n, m) + 1]] :
          /\ StateOf(m)' = s
          /\ AlertsFor(m)' = IF s \in GlobalFinals[m[1]] THEN AlertsFor(m) + 1 ELSE AlertsFor(m)
    BY <2>3
  <2> HIDE DEF key
  <2> DEFINE forwarded == [o \in Nodes |-> [p \in Monitors |-> OwedKinds(o, p)]]
             taken == [o \in Nodes |-> [p \in Monitors |-> TakenFrom(o, p)]]
             current == [p \in Monitors |-> StateOf(p)]
             raised == [p \in Monitors |-> AlertsFor(p)]
  <2>5. taken' = [taken EXCEPT ![n][m] = @ + 1]
    <3>1. \A o \in Nodes, p \in Monitors :
            TakenFrom(o, p)' = IF o = n /\ p = m THEN TakenFrom(n, m) + 1 ELSE TakenFrom(o, p)
      <4>1. ASSUME NEW o \in Nodes, NEW p \in Monitors, p # m
            PROVE  TakenFrom(o, p)' = TakenFrom(o, p)
        BY <1>3, <2>1, <4>1
      <4> QED
        BY <2>2, <4>1
    <3> QED
      BY <3>1
  <2>6. current' = [current EXCEPT ![m] = s]
    BY <1>3, <2>1, <2>4
  <2>7. raised' = [raised EXCEPT ![m] = IF s \in GlobalFinals[m[1]] THEN @ + 1 ELSE @]
    BY <1>3, <2>1, <2>4
  <2>8. s \in GoesTo(m, current[m], forwarded[n][m][taken[n][m] + 1])
    BY <1>1, <1>5, <2>4 DEF GoesTo
  <2>9. taken[n][m] < Len(forwarded[n][m]) /\ forwarded' = forwarded
    BY <1>1, <1>2, <2>2
  <2>10. [p \in Monitors |-> GlobalFinals[p[1]]][m] = GlobalFinals[m[1]]
    OBVIOUS
  <2> QED
    BY <2>5, <2>6, <2>7, <2>8, <2>9, <2>10 DEF Keyed!Take
<1> QED
  BY <1>1, <1>4, <1>5

LEMMA KeyedDeliver ==
  ASSUME TypeOK, NEW n \in Nodes, NEW i \in Invariants, NEW c \in Channels, Deliver(n, i, c)
  PROVE  UNCHANGED Keyed!monitorVars
<1>1. UNCHANGED <<owed, offset, monitors, alerts>>
  BY DEF Deliver, ghosts
<1>2. ASSUME NEW o \in Invariants, NEW d \in Channels, NEW j \in 1..offset[o][d]
      PROVE  logs'[o][d][j] = logs[o][d][j]
  <2>1. PICK r : logs' = [logs EXCEPT ![i][c] = Append(@, r)]
    BY DEF Deliver
  <2>2. /\ logs[o][d] \in Seq(LogRecord) /\ offset[o][d] \in Nat
        /\ offset[o][d] <= Len(logs[o][d])
    BY DEF TypeOK, GlobalTypeOK
  <2>3. j \in 1..Len(logs[o][d])
    BY <2>2
  <2>4. logs'[o][d] \in {logs[o][d], Append(logs[o][d], r)}
    BY <2>1 DEF TypeOK, GlobalTypeOK
  <2> QED
    BY <2>2, <2>3, <2>4
<1> QED
  BY <1>1, <1>2, KeyedStutter

LEMMA KeyedStep ==
  TypeOK /\ RightTopic /\ Account /\ [Next]_vars => [Keyed!Next]_(Keyed!monitorVars)
<1> SUFFICES ASSUME TypeOK, RightTopic, Account, [Next]_vars
             PROVE  Keyed!Next \/ UNCHANGED Keyed!monitorVars
  OBVIOUS
<1>1. ASSUME UNCHANGED <<owed, offset, monitors, alerts, logs>>
      PROVE  UNCHANGED Keyed!monitorVars
  BY <1>1, KeyedStutter
<1>2. CASE UNCHANGED vars
  <2>1. UNCHANGED Keyed!monitorVars
    BY <1>1, <1>2 DEF vars, globalVars, ghosts
  <2> QED
    BY <2>1
<1>3. ASSUME NEW n \in Nodes, Step(n) \/ Flushing(n)
      PROVE  UNCHANGED Keyed!monitorVars
  BY <1>1, <1>3 DEF Step, Flushing, globalVars, ghosts
<1>4. ASSUME NEW n \in Nodes, NEW kind \in Kinds, Comes(n, kind)
      PROVE  Keyed!Next
  <2>1. Keyed!Forward(n, kind)
    BY <1>4, KeyedForward
  <2> QED
    BY <2>1 DEF Keyed!Next
<1>5. ASSUME NEW n \in Nodes, NEW i \in Invariants, NEW c \in Channels, Deliver(n, i, c)
      PROVE  UNCHANGED Keyed!monitorVars
  BY <1>5, KeyedDeliver
<1>6. ASSUME NEW i \in Invariants, NEW c \in Channels, Consume(i, c)
      PROVE  Keyed!Next \/ UNCHANGED Keyed!monitorVars
  <2>1. (\E n \in Nodes, m \in Monitors : Keyed!Take(n, m)) \/ UNCHANGED Keyed!monitorVars
    BY <1>6, KeyedConsume
  <2> QED
    BY <2>1 DEF Keyed!Next
<1>7. ASSUME NEW i \in Invariants, NEW c \in Channels, Fail(i, c)
      PROVE  UNCHANGED Keyed!monitorVars
  BY <1>1, <1>7 DEF Fail, ghosts
<1>8. CASE Rerun
  <2>1. Keyed!Rerun
    BY <1>8, KeyedRerun
  <2> QED
    BY <2>1 DEF Keyed!Next
<1>9. \/ UNCHANGED vars
      \/ \E n \in Nodes : Step(n) \/ Flushing(n)
      \/ \E n \in Nodes, kind \in Kinds : Comes(n, kind)
      \/ \E n \in Nodes, i \in Invariants, c \in Channels : Deliver(n, i, c)
      \/ \E i \in Invariants, c \in Channels : Consume(i, c)
      \/ \E i \in Invariants, c \in Channels : Fail(i, c)
      \/ Rerun
  BY DEF Next, Delivers, Consumes
<1> QED
  BY <1>2, <1>3, <1>4, <1>5, <1>6, <1>7, <1>8, <1>9

(* Verifiers, topics and job implement one monitor per key, for every key  *)
(* whose hash is its own on its channel (Verifier.main with its keyed      *)
(* streams, and the producer of main.cpp): for every number of nodes,      *)
(* invariants, channels and reruns, and whatever dies or fails.            *)
THEOREM OneMonitorPerKey == Spec => KeyedSpec
<1>1. Init => TypeOK /\ InvariantsIndependent /\ Account /\ RightTopic
  BY TypeInit, AccountInit DEF Init, LocalInit, InvariantsIndependent
<1>2. TypeOK /\ InvariantsIndependent /\ Account /\ RightTopic /\ [Next]_vars
        => TypeOK' /\ InvariantsIndependent' /\ Account' /\ RightTopic'
  BY TypeStep, IndependentStep, AccountStep, RightTopicStep
<1>3. Init => Keyed!Init
  BY KeyedInit
<1>4. TypeOK /\ RightTopic /\ Account /\ [Next]_vars => [Keyed!Next]_(Keyed!monitorVars)
  BY KeyedStep
<1> QED
  BY <1>1, <1>2, <1>3, <1>4, PTL DEF Spec, KeyedSpec, Keyed!Spec

=============================================================================
