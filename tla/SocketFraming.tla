---------------------------- MODULE SocketFraming ----------------------------
(***************************************************************************)
(* How a local verifier cuts the bytes of the tracker's socket into        *)
(* packets: main reads into buffer, copies packetLength bytes at a time    *)
(* into readBuffer, and keeps what a read leaves over for the next one.    *)
(*                                                                         *)
(* A byte is its position in the stream, so record r is the bytes          *)
(* r * PacketLength and following. The tracker writes whole records; a     *)
(* read returns any number of the bytes that are there, or fails.          *)
(***************************************************************************)
EXTENDS Integers, Sequences

CONSTANTS
  PacketLength,  \* packetLength, the sum of the field lengths: 24 as shipped
  BufferSize,    \* sizeof buffer: 1024
  ReadsFail,     \* environment: whether read may return -1
  MaxRecords,    \* bound: the records the tracker writes
  NoByte         \* a byte of buffer or readBuffer this read did not put there

ASSUME FramingAssumption ==
  /\ PacketLength \in Nat \ {0}
  /\ BufferSize \in Nat \ {0}
  /\ ReadsFail \in BOOLEAN
  /\ MaxRecords \in Nat
  /\ NoByte \notin Nat

VARIABLES
  written,     \* records the tracker wrote
  closed,      \* whether it closed the connection
  taken,       \* bytes read from the socket
  pc,          \* "read", "frame", "overrun" or "done"
  valread,     \* what the last read returned
  pos,         \* how many bytes of buffer are used up
  readBuffer,
  startIndex,  \* where readBuffer is filled from
  parsed       \* the packets handed to main_process

(* Ghosts: the reads that left bytes over, and whether the bytes carried   *)
(* are those of two such reads.                                            *)
VARIABLES cuts, torn

socketVars == <<written, closed>>
loopVars == <<valread, pos, readBuffer, startIndex>>
vars == <<socketVars, taken, pc, loopVars, parsed, cuts, torn>>

Slots == 0..(PacketLength - 1)

Record(r) == [k \in Slots |-> r * PacketLength + k]

Unread == written * PacketLength - taken

Lesser(m, n) == IF m <= n THEN m ELSE n

(* buffer[j]. Beyond valread are bytes of earlier reads.                   *)
Buffer(j) == IF j < valread THEN (taken - valread) + j ELSE NoByte

(* Mutant: every copy starts at the first byte of buffer.                  *)
MutantCopied(count) ==
  [k \in Slots |-> IF k >= startIndex /\ k < startIndex + count
                   THEN Buffer(k - startIndex) ELSE readBuffer[k]]

(* memcpy of count bytes of buffer, from pos, to readBuffer + startIndex.  *)
Copied(count) ==
  [k \in Slots |-> IF k >= startIndex /\ k < startIndex + count
                   THEN Buffer(pos + (k - startIndex)) ELSE readBuffer[k]]

Rest == valread - pos

(* valread - pos >= packetLength, compared unsigned: -1 is 2^64 - 1.       *)
More == valread = -1 \/ Rest >= PacketLength

Init ==
  /\ written = 0
  /\ closed = FALSE
  /\ taken = 0
  /\ pc = "read"
  /\ valread = 0
  /\ pos = 0
  /\ readBuffer = [k \in Slots |-> NoByte]
  /\ startIndex = 0
  /\ parsed = <<>>
  /\ cuts = 0
  /\ torn = FALSE

(* local_connection.send of one record.                                    *)
Write ==
  /\ ~ closed
  /\ written < MaxRecords
  /\ written' = written + 1
  /\ UNCHANGED <<closed, taken, pc, loopVars, parsed, cuts, torn>>

Close ==
  /\ ~ closed
  /\ closed' = TRUE
  /\ UNCHANGED <<written, taken, pc, loopVars, parsed, cuts, torn>>

(* Mutant: pos is set to 0 once, before the loop.                          *)
MutantRead ==
  /\ pc = "read"
  /\ \E n \in 1..Lesser(Unread, BufferSize) :
       /\ valread' = n
       /\ taken' = taken + n
  /\ pc' = "frame"
  /\ UNCHANGED <<socketVars, pos, readBuffer, startIndex, parsed, cuts, torn>>

(* read returns some of the bytes there are, wherever records end.         *)
Read ==
  /\ pc = "read"
  /\ \E n \in 1..Lesser(Unread, BufferSize) :
       /\ valread' = n
       /\ taken' = taken + n
  /\ pos' = 0
  /\ pc' = "frame"
  /\ UNCHANGED <<socketVars, readBuffer, startIndex, parsed, cuts, torn>>

(* read returns -1, which the loop takes for bytes read.                   *)
ReadFails ==
  /\ ReadsFail
  /\ pc = "read"
  /\ valread' = -1
  /\ pos' = 0
  /\ pc' = "frame"
  /\ UNCHANGED <<socketVars, taken, readBuffer, startIndex, parsed, cuts, torn>>

(* Mutants: a packet that ends the read is not recognised as complete;     *)
(* pos moves on by the bytes carried over too; startIndex is not reset.    *)
MutantFrameShort ==
  /\ pc = "frame"
  /\ valread = -1 \/ Rest > PacketLength
  /\ pos + (PacketLength - startIndex) <= BufferSize
  /\ readBuffer' = Copied(PacketLength - startIndex)
  /\ parsed' = Append(parsed, readBuffer')
  /\ pos' = pos + PacketLength
  /\ startIndex' = 0
  /\ torn' = FALSE
  /\ UNCHANGED <<socketVars, taken, pc, valread, cuts>>
MutantFrameTwice ==
  /\ pc = "frame"
  /\ More
  /\ pos + (PacketLength - startIndex) <= BufferSize
  /\ readBuffer' = Copied(PacketLength - startIndex)
  /\ parsed' = Append(parsed, readBuffer')
  /\ pos' = Lesser(pos + PacketLength + startIndex, valread)
  /\ startIndex' = 0
  /\ torn' = FALSE
  /\ UNCHANGED <<socketVars, taken, pc, valread, cuts>>
MutantFrameKeeps ==
  /\ pc = "frame"
  /\ More
  /\ pos + (PacketLength - startIndex) <= BufferSize
  /\ readBuffer' = Copied(PacketLength - startIndex)
  /\ parsed' = Append(parsed, readBuffer')
  /\ pos' = pos + PacketLength
  /\ torn' = FALSE
  /\ UNCHANGED <<socketVars, taken, pc, valread, startIndex, cuts>>

(* One iteration of the inner loop: readBuffer is completed and parsed,    *)
(* and pos moves a whole packet on, whatever was copied.                   *)
Frame ==
  /\ pc = "frame"
  /\ More
  /\ pos + (PacketLength - startIndex) <= BufferSize
  /\ readBuffer' = Copied(PacketLength - startIndex)
  /\ parsed' = Append(parsed, readBuffer')
  /\ pos' = pos + PacketLength
  /\ startIndex' = 0
  /\ torn' = FALSE
  /\ UNCHANGED <<socketVars, taken, pc, valread, cuts>>

(* The rest of the read is kept behind what is carried already, and        *)
(* replaces startIndex.                                                    *)
Leftover ==
  /\ pc = "frame"
  /\ ~ More
  /\ startIndex + Rest <= PacketLength
  /\ readBuffer' = Copied(Rest)
  /\ IF Rest > 0
     THEN startIndex' = Rest /\ cuts' = cuts + 1 /\ torn' = (startIndex > 0)
     ELSE UNCHANGED <<startIndex, cuts, torn>>
  /\ pc' = "read"
  /\ UNCHANGED <<socketVars, taken, valread, pos, parsed>>

(* Nothing checks that a copy stays inside buffer (after a failed read) or *)
(* readBuffer (a rest behind a rest). What follows is undefined.           *)
Overrun ==
  /\ pc = "frame"
  /\ IF More THEN pos + (PacketLength - startIndex) > BufferSize
             ELSE startIndex + Rest > PacketLength
  /\ pc' = "overrun"
  /\ UNCHANGED <<socketVars, taken, loopVars, parsed, cuts, torn>>

(* read returns 0: the loop ends, and main flushes and returns.            *)
End ==
  /\ pc = "read"
  /\ Unread = 0
  /\ closed
  /\ pc' = "done"
  /\ UNCHANGED <<socketVars, taken, loopVars, parsed, cuts, torn>>

Step == Read \/ Frame \/ Leftover \/ Overrun \/ End

Next == Write \/ Close \/ Step \/ ReadFails

Spec == Init /\ [][Next]_vars

(* The verifier is a process of its own that does nothing but this loop.   *)
FairSpec == Spec /\ WF_vars(Step)

-----------------------------------------------------------------------------
(* Every variable of main's loop stays in its range; in particular no read *)
(* that succeeds makes it go past the bytes read.                          *)
TypeOK ==
  /\ written \in 0..MaxRecords
  /\ closed \in BOOLEAN
  /\ taken \in 0..(written * PacketLength)
  /\ pc \in {"read", "frame", "overrun", "done"}
  /\ valread \in -1..BufferSize
  /\ pos \in Nat
  /\ valread # -1 => pos <= valread
  /\ readBuffer \in [Slots -> Nat \cup {NoByte}]
  /\ startIndex \in Slots
  /\ parsed \in Seq([Slots -> Nat \cup {NoByte}])
  /\ cuts \in Nat
  /\ torn \in BOOLEAN

(* The bytes of the last read that are still in buffer.                    *)
InHand == IF pc \in {"frame", "overrun"} THEN Rest ELSE 0

(* The byte the next packet begins with, when what is carried is one piece.*)
NextByte == (taken - InHand) - startIndex

Failed == valread = -1

(* As long as no byte was skipped, the packets are the records written, in *)
(* order, and all of them once the connection is closed: also the one that *)
(* a read cut in two (the copies of main.cpp:185 and 200).                 *)
SameUntilSkipped ==
  ~ Failed /\ NextByte = Len(parsed) * PacketLength =>
    /\ \A i \in DOMAIN parsed : parsed[i] = Record(i - 1)
    /\ pc = "done" => Len(parsed) = written

(* A packet is one piece of the stream, behind all bytes parsed before:    *)
(* no byte is parsed twice, and none is glued to one it does not follow,   *)
(* unless two reads in a row were too short for a packet.                  *)
WholePieces ==
  [][LET p == parsed'[Len(parsed')] IN
     Len(parsed') > Len(parsed) /\ ~ torn /\ ~ Failed =>
       /\ \A k \in Slots : p[k] = p[0] + k
       /\ \A i \in DOMAIN parsed, k \in Slots : parsed[i][k] < p[0]]_vars

(* No packet is made of nothing, and each read that leaves bytes over      *)
(* costs less than one packet, however reads cut the stream.               *)
CutsCostOnePacket ==
  ~ Failed /\ pc \in {"read", "done"} =>
    /\ Len(parsed) * PacketLength <= taken
    /\ taken <= Len(parsed) * PacketLength + cuts * (PacketLength - 1)

(* A record the tracker wrote is parsed in the end, or paid for by a read  *)
(* that left bytes over, unless the verifier runs off a buffer.            *)
EventuallyParsed ==
  \A n \in 1..MaxRecords :
    written >= n ~> (Len(parsed) + cuts >= n \/ pc = "overrun")

(* The packets of the socket are the records, as the lines of a file are   *)
(* ("Read strings from file or bytes from socket should have the same      *)
(* output", main.cpp:263).                                                 *)
PacketsAreRecords == \A i \in DOMAIN parsed : parsed[i] = Record(i - 1)

=============================================================================
