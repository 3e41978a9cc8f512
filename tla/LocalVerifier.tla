---------------------------- MODULE LocalVerifier ----------------------------
(***************************************************************************)
(* The C++ local verifiers, one process per node: every packet is handed   *)
(* to every invariant in turn, each of which advances the local automata   *)
(* of the packet's key and decides whether the packet is forwarded to the  *)
(* topic of that key. What is forwarded waits in the buffer of the Kafka   *)
(* producer. A packet is abstracted to its kind: what filters, group-by    *)
(* fields and guards read of it.                                           *)
(*                                                                         *)
(* The constraint trees are passed to DSFA.cpp by value: no split and no   *)
(* merge is kept, so an automaton with variables has one root, whose       *)
(* constraint is empty, and a guard that compares it throws. Such an       *)
(* automaton is a single state here, with kinds that throw.                *)
(***************************************************************************)
EXTENDS Integers, Sequences, FiniteSets

CONSTANTS
  Nodes,             \* one verifier each
  Invariants,        \* the .sm.g files of the configuration directory
  Kinds,             \* what the invariants can tell about a packet
  Keys,              \* values of group-by fields
  States,            \* states of local automata
  NoPacket,          \* no packet is being processed
  Filter,            \* Filter[i]: the kinds the filter of i lets through
  KeyOf,             \* KeyOf[i][kind]: the group-by fields of such a packet
  Locals,            \* Locals[i]: the local automata of i, perhaps none
  NegatedLocation,   \* NegatedLocation[i]: the kinds negatedLocExpr holds on
  NumberOfChannels,  \* the command-line argument
  StringHash,        \* std::hash of a key
  QueueSize,         \* bound of the producer's buffer
  Sees,              \* node -> the kinds of packets of its traffic
  MaxPackets         \* bound: node -> packets of its input

(* The guard of a move holds on when and throws on reads.                  *)
Move == [when : SUBSET Kinds, reads : SUBSET Kinds, to : States, suppress : BOOLEAN]
Automaton == [start : States, moves : [States -> Seq(Move)]]

ASSUME LocalAssumption ==
  /\ IsFiniteSet(Invariants) /\ Invariants # {}
  /\ NoPacket \notin Kinds
  /\ Filter \in [Invariants -> SUBSET Kinds]
  /\ KeyOf \in [Invariants -> [Kinds -> Keys]]
  /\ Locals \in [Invariants -> Seq(Automaton)]
  /\ NegatedLocation \in [Invariants -> SUBSET Kinds]
  /\ NumberOfChannels \in Nat
  /\ StringHash \in [Keys -> Nat]
  /\ QueueSize \in Nat
  /\ Sees \in [Nodes -> SUBSET Kinds]
  /\ MaxPackets \in [Nodes -> Nat]

VARIABLES
  invList,    \* the invariants, in the order of the unordered_map smFiles:
              \* the same for processes of one build and one directory
  packet,     \* node -> the packet being processed
  at,         \* node -> how many invariants it has been handed to
  handled,    \* node -> how many packets it has read
  automata,   \* node -> invariant -> key -> states of its local automata
  buffer,     \* node -> what was produced and not yet delivered, in order
  process     \* node -> what the process does

localVars == <<invList, packet, at, handled, automata, buffer, process>>

-----------------------------------------------------------------------------
(* main_process and SFAProcessor.processPacket, as functions.              *)

NumInvariants == Cardinality(Invariants)

(* Mutant: the argument is taken for the channels of one invariant, as the *)
(* README of the C++ verifier calls it.                                    *)
MutantFilesPerInvariant == NumberOfChannels

FilesPerInvariant == NumberOfChannels \div NumInvariants

(* Mutant: the number of files is not divided by the invariants.           *)
MutantChannel(key) == StringHash[key] % NumberOfChannels

Channel(key) == StringHash[key] % FilesPerInvariant

Record == [inv : Invariants, kind : Kinds]

ChannelOf(r) == Channel(KeyOf[r.inv][r.kind])

(* The moves whose guard is not false: the first of them decides.          *)
Open(a, s, kind) ==
  {j \in DOMAIN a.moves[s] : kind \in a.moves[s][j].when \cup a.moves[s][j].reads}

Taken(a, s, kind) ==
  a.moves[s][CHOOSE j \in Open(a, s, kind) : \A k \in Open(a, s, kind) : j <= k]

(* No move matches, or a variable is compared.                             *)
Throws(i, states, kind) ==
  \E k \in DOMAIN Locals[i] :
    \/ Open(Locals[i][k], states[k], kind) = {}
    \/ kind \in Taken(Locals[i][k], states[k], kind).reads

Fresh(i) == [k \in DOMAIN Locals[i] |-> Locals[i][k].start]

Advanced(i, states, kind) ==
  [k \in DOMAIN Locals[i] |-> Taken(Locals[i][k], states[k], kind).to]

(* The states of the local automata of i, and those of a node: for every   *)
(* invariant and key.                                                      *)
LocalStates(i) == [DOMAIN Locals[i] -> States]

NodeType(all) ==
  /\ all = [i \in Invariants |-> [key \in Keys |-> all[i][key]]]
  /\ \A i \in Invariants, key \in Keys : all[i][key] \in LocalStates(i)

Suppressible(i, states, kind) ==
  /\ Locals[i] # <<>>
  /\ \A k \in DOMAIN Locals[i] : Taken(Locals[i][k], states[k], kind).suppress
  /\ kind \in NegatedLocation[i]

(* The automata of one node after invariant i was handed a packet.         *)
Process(all, i, kind) ==
  LET key == KeyOf[i][kind]
  IN IF kind \notin Filter[i] \/ Throws(i, all[i][key], kind) THEN all
     ELSE [all EXCEPT ![i][key] = Advanced(i, @, kind)]

Forwards(all, i, kind) ==
  /\ kind \in Filter[i]
  /\ ~ Throws(i, all[i][KeyOf[i][kind]], kind)
  /\ ~ Suppressible(i, all[i][KeyOf[i][kind]], kind)

-----------------------------------------------------------------------------
Orders == {s \in [1..NumInvariants -> Invariants] :
             \A i, j \in 1..NumInvariants : s[i] = s[j] => i = j}

LocalInit ==
  /\ invList \in Orders
  /\ packet = [n \in Nodes |-> NoPacket]
  /\ at = [n \in Nodes |-> 0]
  /\ handled = [n \in Nodes |-> 0]
  /\ automata = [n \in Nodes |-> [i \in Invariants |-> [k \in Keys |-> Fresh(i)]]]
  /\ buffer = [n \in Nodes |-> <<>>]
  /\ process = [n \in Nodes |-> "running"]

Idle(n) == process[n] = "running" /\ packet[n] = NoPacket

(* The next line of the file, or record of the socket.                     *)
NextPacket(n, kind) ==
  /\ Idle(n)
  /\ kind \in Sees[n] /\ handled[n] < MaxPackets[n]
  /\ packet' = [packet EXCEPT ![n] = kind]
  /\ handled' = [handled EXCEPT ![n] = @ + 1]
  /\ UNCHANGED <<invList, at, automata, buffer, process>>

(* The invariant whose turn it is in main_process.                         *)
Turn(n) == invList[at[n] + 1]

Forwarding(n) == Forwards(automata[n], Turn(n), packet[n])

(* Mutant: out is not reset, so an invariant after one that forwarded the  *)
(* packet is not handed it and forwards it all the same.                   *)
MutantHandle(n) ==
  LET i == Turn(n)
      out == \E j \in 1..at[n] : Locals[invList[j]] = <<>> /\ packet[n] \in Filter[invList[j]]
  IN
  /\ process[n] = "running" /\ packet[n] # NoPacket
  /\ packet[n] \in Filter[i] => ~ Throws(i, automata[n][i][KeyOf[i][packet[n]]], packet[n])
  /\ automata' = IF out THEN automata ELSE [automata EXCEPT ![n] = Process(@, i, packet[n])]
  /\ IF out \/ Forwarding(n)
     THEN /\ FilesPerInvariant > 0 /\ Len(buffer[n]) < QueueSize
          /\ buffer' = [buffer EXCEPT ![n] = Append(@, [inv |-> i, kind |-> packet[n]])]
     ELSE UNCHANGED buffer
  /\ IF at[n] + 1 < NumInvariants
     THEN at' = [at EXCEPT ![n] = @ + 1] /\ UNCHANGED packet
     ELSE at' = [at EXCEPT ![n] = 0] /\ packet' = [packet EXCEPT ![n] = NoPacket]
  /\ UNCHANGED <<invList, handled, process>>

(* One iteration of the loop over the invariants; the last one returns.    *)
Handle(n) ==
  LET i == Turn(n) IN
  /\ process[n] = "running" /\ packet[n] # NoPacket
  /\ packet[n] \in Filter[i] => ~ Throws(i, automata[n][i][KeyOf[i][packet[n]]], packet[n])
  /\ automata' = [automata EXCEPT ![n] = Process(@, i, packet[n])]
  /\ IF Forwarding(n)
     THEN /\ FilesPerInvariant > 0 /\ Len(buffer[n]) < QueueSize
          /\ buffer' = [buffer EXCEPT ![n] = Append(@, [inv |-> i, kind |-> packet[n]])]
     ELSE UNCHANGED buffer
  /\ IF at[n] + 1 < NumInvariants
     THEN at' = [at EXCEPT ![n] = @ + 1] /\ UNCHANGED packet
     ELSE at' = [at EXCEPT ![n] = 0] /\ packet' = [packet EXCEPT ![n] = NoPacket]
  /\ UNCHANGED <<invList, handled, process>>

(* An exception nothing catches, or a remainder by zero.                   *)
Die(n) ==
  LET i == Turn(n) IN
  /\ process[n] = "running" /\ packet[n] # NoPacket
  /\ packet[n] \in Filter[i]
  /\ \/ Throws(i, automata[n][i][KeyOf[i][packet[n]]], packet[n])
     \/ Forwarding(n) /\ (FilesPerInvariant = 0 \/ Len(buffer[n]) >= QueueSize)
  /\ process' = [process EXCEPT ![n] = "dead"]
  /\ UNCHANGED <<invList, packet, at, handled, automata, buffer>>

(* The flush of the socket loop, if there is anything to wait for, and the *)
(* last one once the input has ended. Each waits for the buffer to empty,  *)
(* or throws.                                                              *)
StartFlush(n) ==
  /\ Idle(n) /\ buffer[n] # <<>>
  /\ process' = [process EXCEPT ![n] = "flushing"]
  /\ UNCHANGED <<invList, packet, at, handled, automata, buffer>>

EndInput(n) ==
  /\ Idle(n) /\ handled[n] = MaxPackets[n]
  /\ process' = [process EXCEPT ![n] = "closing"]
  /\ UNCHANGED <<invList, packet, at, handled, automata, buffer>>

(* Mutant: the flush does not wait.                                        *)
MutantEndFlush(n) ==
  /\ process[n] \in {"flushing", "closing"}
  /\ process' = [process EXCEPT ![n] = IF @ = "closing" THEN "ended" ELSE "running"]
  /\ UNCHANGED <<invList, packet, at, handled, automata, buffer>>

EndFlush(n) ==
  /\ process[n] \in {"flushing", "closing"}
  /\ buffer[n] = <<>>
  /\ process' = [process EXCEPT ![n] = IF @ = "closing" THEN "ended" ELSE "running"]
  /\ UNCHANGED <<invList, packet, at, handled, automata, buffer>>

FlushTimesOut(n) ==
  /\ process[n] \in {"flushing", "closing"}
  /\ buffer[n] # <<>>
  /\ process' = [process EXCEPT ![n] = "dead"]
  /\ UNCHANGED <<invList, packet, at, handled, automata, buffer>>

(* What the process does by itself once it has a packet or flushes.        *)
LocalStep(n) == Handle(n) \/ Die(n) \/ EndFlush(n)

=============================================================================
