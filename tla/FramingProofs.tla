---------------------------- MODULE FramingProofs ----------------------------
(***************************************************************************)
(* Proofs about SocketFraming, for every packet length and buffer size and *)
(* however reads cut the stream.                                           *)
(***************************************************************************)
EXTENDS SocketFraming, TLAPS

(* The bytes of the packets parsed.                                        *)
Out == Len(parsed) * PacketLength

(* What the reads that left bytes over may have cost.                      *)
Price == cuts * (PacketLength - 1)

(* Where main's loop stands in the stream.                                 *)
Position ==
  /\ startIndex <= taken - InHand
  /\ startIndex > 0 /\ pc \in {"frame", "overrun"} => pos = 0 /\ Rest > 0
  /\ pc = "done" => closed /\ Unread = 0
  /\ torn => startIndex > 0

(* What is carried is the piece of the stream just before the bytes in     *)
(* hand, or, when torn, two such pieces.                                   *)
Carried ==
  \A k \in Slots : k < startIndex =>
    /\ ~ torn => readBuffer[k] = NextByte + k
    /\ readBuffer[k] \in Nat
    /\ readBuffer[k] < NextByte + startIndex

(* What is parsed lies before the next byte, and is in order as long as    *)
(* nothing was skipped.                                                    *)
Behind ==
  /\ \A i \in DOMAIN parsed, k \in Slots :
       parsed[i][k] \in Nat /\ parsed[i][k] < NextByte
  /\ Out <= NextByte
  /\ torn => Out < NextByte
  /\ Out = NextByte => \A i \in DOMAIN parsed : parsed[i] = Record(i - 1)

(* Every byte skipped or carried was left over by a read.                  *)
Paid == NextByte + startIndex <= Out + Price

FramingInv ==
  /\ TypeOK
  /\ valread <= taken
  /\ Failed => pc \in {"frame", "overrun"}
  /\ ~ Failed => Position /\ Carried /\ Behind /\ Paid

-----------------------------------------------------------------------------
(* One packet more, and one read more that left bytes over.                *)
LEMMA Multiples ==
  ASSUME NEW a \in Nat, NEW l \in Nat
  PROVE  a * l \in Nat /\ (a + 1) * l = a * l + l
OBVIOUS

(* A stream of written records of which all but fewer than l bytes are in  *)
(* n packets has n records.                                                *)
LEMMA AllParsed ==
  ASSUME NEW n \in Nat, NEW w \in Nat, NEW l \in Nat \ {0}, NEW r \in Nat,
         r < l, w * l = n * l + r
  PROVE  n = w
<1>1. n * l \in Nat /\ w * l \in Nat
      /\ (n + 1) * l = n * l + l /\ (w + 1) * l = w * l + l
  BY Multiples
<1>2. CASE w >= n + 1
  <2>1. (w - (n + 1)) \in Nat /\ (w - (n + 1)) * l = w * l - (n + 1) * l
    BY <1>2
  <2>2. (w - (n + 1)) * l \in Nat
    BY <2>1, Multiples
  <2> QED
    BY <1>1, <2>1, <2>2
<1>3. CASE n >= w + 1
  <2>1. (n - (w + 1)) \in Nat /\ (n - (w + 1)) * l = n * l - (w + 1) * l
    BY <1>3
  <2>2. (n - (w + 1)) * l \in Nat
    BY <2>1, Multiples
  <2> QED
    BY <1>1, <2>1, <2>2
<1> QED
  BY <1>2, <1>3

(* The ranges the steps below compute with.                                *)
LEMMA Ranges ==
  ASSUME FramingInv
  PROVE  /\ PacketLength \in Nat \ {0} /\ BufferSize \in Nat \ {0}
         /\ written \in Nat /\ taken \in Nat /\ pos \in Nat /\ startIndex \in Nat
         /\ startIndex < PacketLength
         /\ valread \in Int /\ valread >= -1 /\ valread <= taken
         /\ cuts \in Nat /\ Len(parsed) \in Nat
         /\ Out \in Nat /\ Price \in Nat /\ written * PacketLength \in Nat
         /\ Rest \in Int /\ InHand \in Int /\ NextByte \in Int /\ Unread \in Nat
<1>1. /\ written \in Nat /\ taken \in Nat /\ pos \in Nat /\ startIndex \in Nat
      /\ startIndex < PacketLength /\ valread \in Int /\ valread >= -1
      /\ cuts \in Nat /\ Len(parsed) \in Nat
  BY FramingAssumption DEF FramingInv, TypeOK, Slots
<1>2. Out \in Nat /\ Price \in Nat /\ written * PacketLength \in Nat
  BY <1>1, Multiples, FramingAssumption DEF Out, Price
<1>3. taken <= written * PacketLength
  BY <1>1, <1>2 DEF FramingInv, TypeOK
<1> QED
  BY <1>1, <1>2, <1>3, FramingAssumption
  DEF FramingInv, Rest, InHand, NextByte, Unread

(* A byte of buffer is a byte read, when the read put it there.            *)
LEMMA BufferByte ==
  ASSUME FramingInv, NEW j \in Nat
  PROVE  /\ Buffer(j) \in Nat \cup {NoByte}
         /\ j < valread => Buffer(j) = (taken - valread) + j /\ Buffer(j) \in Nat
<1>1. taken \in Nat /\ valread \in Int /\ valread <= taken
  BY Ranges
<1>2. Buffer(j) \in Nat \cup {NoByte}
  BY <1>1 DEF Buffer
<1>3. j < valread => Buffer(j) = (taken - valread) + j
  BY <1>1 DEF Buffer
<1>4. j < valread => (taken - valread) + j \in Nat
  BY <1>1
<1> QED
  BY <1>2, <1>3, <1>4

LEMMA CopiedType ==
  ASSUME FramingInv, NEW count \in Int
  PROVE  Copied(count) \in [Slots -> Nat \cup {NoByte}]
<1> SUFFICES ASSUME NEW k \in Slots, k >= startIndex
             PROVE  Buffer(pos + (k - startIndex)) \in Nat \cup {NoByte}
  BY DEF Copied, FramingInv, TypeOK
<1>1. pos \in Nat /\ startIndex \in Nat
  BY Ranges
<1>2. pos + (k - startIndex) \in Nat
  BY <1>1, FramingAssumption DEF Slots
<1> QED
  BY <1>2, BufferByte

LEMMA FramingInit == Init => FramingInv
<1> SUFFICES ASSUME Init
             PROVE  FramingInv
  OBVIOUS
<1> USE FramingAssumption
<1>1. parsed \in Seq([Slots -> Nat \cup {NoByte}]) /\ DOMAIN parsed = {} /\ Len(parsed) = 0
  BY DEF Init
<1>2. /\ readBuffer \in [Slots -> Nat \cup {NoByte}]
      /\ startIndex \in Slots /\ 0 <= written * PacketLength
  BY DEF Init, Slots
<1>3. TypeOK
  BY <1>1, <1>2 DEF Init, TypeOK
<1>4. Out = 0 /\ Price = 0
  BY <1>1 DEF Init, Out, Price
<1> QED
  BY <1>1, <1>3, <1>4
  DEF Init, FramingInv, Position, Carried, Behind, Paid, NextByte, InHand, Failed

-----------------------------------------------------------------------------
(* The packet of an iteration: one piece from the next byte on unless what *)
(* is carried is torn, and of bytes that lie before the one that follows.  *)
LEMMA FramePacket ==
  ASSUME FramingInv, Frame, ~ Failed
  PROVE  \A k \in Slots :
           /\ ~ torn => readBuffer'[k] = NextByte + k
           /\ readBuffer'[k] \in Nat
           /\ readBuffer'[k] < (NextByte + startIndex) + PacketLength
<1> USE FramingAssumption
<1>1. /\ taken \in Nat /\ pos \in Nat /\ startIndex \in Nat /\ startIndex < PacketLength
      /\ valread \in Int /\ valread <= taken /\ NextByte \in Int /\ Rest \in Int
  BY Ranges
<1>2. /\ Position /\ Carried /\ pc = "frame" /\ Rest >= PacketLength
      /\ readBuffer' = Copied(PacketLength - startIndex)
  BY DEF FramingInv, Frame, More, Failed
<1>3. NextByte = (taken - Rest) - startIndex /\ Rest = valread - pos
  BY <1>2 DEF NextByte, InHand, Rest
<1>4. startIndex > 0 => pos = 0
  BY <1>2 DEF Position
<1>5. NextByte \in Nat
  BY <1>1, <1>2, <1>3 DEF Position, InHand
<1> SUFFICES ASSUME NEW k \in Slots
             PROVE  /\ ~ torn => readBuffer'[k] = NextByte + k
                    /\ readBuffer'[k] \in Nat
                    /\ readBuffer'[k] < (NextByte + startIndex) + PacketLength
  OBVIOUS
<1>6. k \in Nat /\ k < PacketLength
  BY DEF Slots
<1>7. CASE k < startIndex
  <2>1. readBuffer'[k] = readBuffer[k]
    BY <1>1, <1>2, <1>6, <1>7 DEF Copied
  <2>2. /\ ~ torn => readBuffer[k] = NextByte + k
        /\ readBuffer[k] \in Nat /\ readBuffer[k] < NextByte + startIndex
    BY <1>2, <1>7 DEF Carried
  <2> QED
    BY <1>1, <2>1, <2>2
<1>8. CASE k >= startIndex
  <2>1. readBuffer'[k] = Buffer(pos + (k - startIndex))
    BY <1>1, <1>2, <1>6, <1>8 DEF Copied
  <2>2. pos + (k - startIndex) \in Nat /\ pos + (k - startIndex) < valread
    BY <1>1, <1>2, <1>3, <1>6, <1>8
  <2>3. readBuffer'[k] = (taken - valread) + (pos + (k - startIndex))
    BY <2>1, <2>2, BufferByte
  <2>4. readBuffer'[k] = NextByte + k
    BY <1>1, <1>3, <1>6, <2>3
  <2> QED
    BY <1>1, <1>5, <1>6, <2>4
<1> QED
  BY <1>1, <1>6, <1>7, <1>8

LEMMA FrameStep ==
  ASSUME FramingInv, Frame
  PROVE  FramingInv'
<1> USE FramingAssumption
<1>1. /\ taken \in Nat /\ pos \in Nat /\ startIndex \in Nat /\ startIndex < PacketLength
      /\ valread \in Int /\ valread <= taken /\ NextByte \in Int /\ Rest \in Int
      /\ Len(parsed) \in Nat /\ Out \in Nat /\ Price \in Nat
  BY Ranges
<1>2. /\ pc = "frame" /\ More
      /\ readBuffer' = Copied(PacketLength - startIndex)
      /\ parsed' = Append(parsed, readBuffer')
      /\ pos' = pos + PacketLength /\ startIndex' = 0 /\ torn' = FALSE
      /\ UNCHANGED <<written, closed, taken, pc, valread, cuts>>
  BY DEF Frame, socketVars
<1>3. readBuffer' \in [Slots -> Nat \cup {NoByte}]
  BY <1>1, <1>2, CopiedType
<1>4. /\ parsed' \in Seq([Slots -> Nat \cup {NoByte}])
      /\ Len(parsed') = Len(parsed) + 1
      /\ \A i \in DOMAIN parsed' :
           \/ i \in DOMAIN parsed /\ parsed'[i] = parsed[i]
           \/ i = Len(parsed) + 1 /\ parsed'[i] = readBuffer'
  BY <1>2, <1>3 DEF FramingInv, TypeOK
<1>5. valread # -1 => pos' <= valread
  BY <1>1, <1>2 DEF More, Rest
<1>6. startIndex' \in Slots /\ pos' \in Nat
  BY <1>1, <1>2 DEF Slots
<1>7. TypeOK'
  BY <1>2, <1>3, <1>4, <1>5, <1>6 DEF FramingInv, TypeOK
<1>8. (valread <= taken)' /\ (Failed => pc \in {"frame", "overrun"})'
  BY <1>1, <1>2
<1>9. ASSUME ~ Failed'
      PROVE  (Position /\ Carried /\ Behind /\ Paid)'
  <2>1. ~ Failed /\ Position /\ Behind /\ Paid /\ Rest >= PacketLength
    BY <1>2, <1>9 DEF Failed, FramingInv, More
  <2>2. Rest' = Rest - PacketLength /\ InHand' = Rest' /\ InHand = Rest
    BY <1>1, <1>2 DEF Rest, InHand
  <2>3. NextByte' = (NextByte + startIndex) + PacketLength
    BY <1>1, <1>2, <2>2 DEF NextByte
  <2>4. Out' = Out + PacketLength /\ Price' = Price
    BY <1>1, <1>2, <1>4, Multiples DEF Out, Price
  <2>5. Position'
    BY <1>1, <1>2, <2>1, <2>2 DEF Position
  <2>6. Carried'
    BY <1>2 DEF Carried, Slots
  <2>7. \A k \in Slots : /\ ~ torn => readBuffer'[k] = NextByte + k
                         /\ readBuffer'[k] \in Nat
                         /\ readBuffer'[k] < NextByte'
    BY <2>1, <2>3, FramePacket
  <2>8. \A i \in DOMAIN parsed', k \in Slots :
          parsed'[i][k] \in Nat /\ parsed'[i][k] < NextByte'
    <3> SUFFICES ASSUME NEW i \in DOMAIN parsed', NEW k \in Slots
                 PROVE  parsed'[i][k] \in Nat /\ parsed'[i][k] < NextByte'
      OBVIOUS
    <3>1. CASE i \in DOMAIN parsed /\ parsed'[i] = parsed[i]
      <4>1. parsed[i][k] \in Nat /\ parsed[i][k] < NextByte
        BY <2>1, <3>1 DEF Behind
      <4> QED
        BY <1>1, <2>3, <3>1, <4>1
    <3>2. CASE parsed'[i] = readBuffer'
      BY <2>7, <3>2
    <3> QED
      BY <1>4, <3>1, <3>2
  <2>9. Out' <= NextByte'
    BY <1>1, <2>1, <2>3, <2>4 DEF Behind
  <2>10. ASSUME Out' = NextByte', NEW i \in DOMAIN parsed'
         PROVE  parsed'[i] = Record(i - 1)
    <3>1. Out = NextByte /\ startIndex = 0
      BY <1>1, <2>1, <2>3, <2>4, <2>10 DEF Behind
    <3>2. CASE i \in DOMAIN parsed /\ parsed'[i] = parsed[i]
      BY <2>1, <3>1, <3>2 DEF Behind
    <3>3. CASE i = Len(parsed) + 1 /\ parsed'[i] = readBuffer'
      <4>1. ~ torn
        BY <2>1, <3>1 DEF Position
      <4>2. i - 1 = Len(parsed)
        BY <1>1, <3>3
      <4>3. \A k \in Slots : readBuffer'[k] = Len(parsed) * PacketLength + k
        BY <2>7, <3>1, <4>1 DEF Out
      <4> QED
        BY <1>3, <3>3, <4>2, <4>3 DEF Record
    <3> QED
      BY <1>4, <3>2, <3>3
  <2>11. Behind'
    BY <1>2, <2>8, <2>9, <2>10 DEF Behind, Record, Slots
  <2>12. Paid'
    BY <1>1, <1>2, <2>1, <2>3, <2>4 DEF Paid
  <2> QED
    BY <2>5, <2>6, <2>11, <2>12
<1> QED
  BY <1>7, <1>8, <1>9 DEF FramingInv

(* What is carried out of a read: its rest, behind what was carried before *)
(* when the read was too short for a packet.                               *)
LEMMA LeftoverCarries ==
  ASSUME FramingInv, Leftover, ~ Failed, Rest > 0
  PROVE  \A k \in Slots : k < Rest =>
           /\ startIndex = 0 => readBuffer'[k] = NextByte + k
           /\ readBuffer'[k] \in Nat
           /\ readBuffer'[k] < (NextByte + startIndex) + Rest
<1> USE FramingAssumption
<1>1. /\ taken \in Nat /\ pos \in Nat /\ startIndex \in Nat /\ startIndex < PacketLength
      /\ valread \in Int /\ valread <= taken /\ NextByte \in Int /\ Rest \in Int
  BY Ranges
<1>2. /\ Position /\ Carried /\ pc = "frame" /\ readBuffer' = Copied(Rest)
  BY DEF FramingInv, Leftover
<1>3. NextByte = (taken - Rest) - startIndex /\ Rest = valread - pos
  BY <1>2 DEF NextByte, InHand, Rest
<1>4. startIndex > 0 => pos = 0
  BY <1>2 DEF Position
<1>5. NextByte \in Nat
  BY <1>1, <1>2, <1>3 DEF Position, InHand
<1> SUFFICES ASSUME NEW k \in Slots, k < Rest
             PROVE  /\ startIndex = 0 => readBuffer'[k] = NextByte + k
                    /\ readBuffer'[k] \in Nat
                    /\ readBuffer'[k] < (NextByte + startIndex) + Rest
  OBVIOUS
<1>6. k \in Nat /\ k < PacketLength
  BY DEF Slots
<1>7. CASE k < startIndex
  <2>1. readBuffer'[k] = readBuffer[k]
    BY <1>1, <1>2, <1>6, <1>7 DEF Copied
  <2>2. readBuffer[k] \in Nat /\ readBuffer[k] < NextByte + startIndex
    BY <1>2, <1>7 DEF Carried
  <2> QED
    BY <1>1, <1>6, <1>7, <2>1, <2>2
<1>8. CASE k >= startIndex
  <2>1. readBuffer'[k] = Buffer(pos + (k - startIndex))
    BY <1>1, <1>2, <1>6, <1>8 DEF Copied
  <2>2. pos + (k - startIndex) \in Nat /\ pos + (k - startIndex) < valread
    BY <1>1, <1>3, <1>6, <1>8
  <2>3. readBuffer'[k] = (taken - valread) + (pos + (k - startIndex))
    BY <2>1, <2>2, BufferByte
  <2>4. readBuffer'[k] = NextByte + k
    BY <1>1, <1>3, <1>6, <2>3
  <2> QED
    BY <1>1, <1>5, <1>6, <2>4
<1> QED
  BY <1>1, <1>6, <1>7, <1>8

LEMMA LeftoverStep ==
  ASSUME FramingInv, Leftover
  PROVE  FramingInv'
<1> USE FramingAssumption
<1>1. /\ taken \in Nat /\ pos \in Nat /\ startIndex \in Nat /\ startIndex < PacketLength
      /\ valread \in Int /\ valread <= taken /\ NextByte \in Int /\ Rest \in Int
      /\ Out \in Nat /\ Price \in Nat /\ cuts \in Nat
  BY Ranges
<1>2. /\ pc = "frame" /\ ~ More /\ readBuffer' = Copied(Rest) /\ pc' = "read"
      /\ UNCHANGED <<written, closed, taken, valread, pos, parsed>>
  BY DEF Leftover, socketVars
<1>3. ~ Failed /\ ~ Failed' /\ Position /\ Carried /\ Behind /\ Paid /\ Rest < PacketLength
  BY <1>1, <1>2 DEF FramingInv, More, Failed
<1>4. Rest >= 0
  BY <1>1, <1>3 DEF FramingInv, TypeOK, Failed, Rest
<1>5. readBuffer' \in [Slots -> Nat \cup {NoByte}]
  BY <1>1, <1>2, CopiedType
<1>a. /\ Rest > 0 => /\ startIndex' = Rest /\ cuts' = cuts + 1
                    /\ torn' = (startIndex > 0)
      /\ ~ (Rest > 0) => UNCHANGED <<startIndex, cuts, torn>>
  BY DEF Leftover
<1>b. startIndex \in Slots /\ torn \in BOOLEAN
  BY DEF FramingInv, TypeOK
<1>c. startIndex' \in Slots /\ cuts' \in Nat
  BY <1>1, <1>3, <1>4, <1>a, <1>b DEF Slots
<1>d. torn' \in BOOLEAN
  <2>1. (startIndex > 0) \in BOOLEAN
    OBVIOUS
  <2> QED
    BY <1>a, <1>b, <2>1
<1>6. /\ startIndex' \in Slots /\ cuts' \in Nat /\ torn' \in BOOLEAN
  BY <1>c, <1>d
<1>7. TypeOK'
  BY <1>2, <1>5, <1>6 DEF FramingInv, TypeOK
<1>8. InHand' = 0 /\ InHand = Rest /\ Out' = Out /\ NextByte = (taken - Rest) - startIndex
  BY <1>2 DEF InHand, Out, NextByte
<1>9. NextByte' = taken - startIndex'
  BY <1>1, <1>2, <1>6, <1>8 DEF NextByte
<1>10. CASE Rest = 0
  <2>1. startIndex = 0 /\ startIndex' = 0 /\ torn' = torn /\ cuts' = cuts
    BY <1>1, <1>2, <1>3, <1>10 DEF Position, Leftover
  <2>2. NextByte' = NextByte /\ Price' = Price
    BY <1>1, <1>8, <1>9, <1>10, <2>1 DEF Price
  <2>3. Position'
    BY <1>1, <1>2, <1>3, <1>8, <2>1 DEF Position
  <2>4. Carried'
    BY <2>1 DEF Carried, Slots
  <2>5. Behind' /\ Paid'
    BY <1>2, <1>3, <1>8, <2>1, <2>2 DEF Behind, Paid, Record, Slots
  <2> QED
    BY <1>2, <1>3, <1>7, <2>3, <2>4, <2>5, <1>1 DEF FramingInv
<1>11. CASE Rest > 0
  <2>1. startIndex' = Rest /\ cuts' = cuts + 1 /\ (torn' <=> startIndex > 0)
    <3>1. CASE startIndex > 0
      BY <1>11, <1>a, <3>1
    <3>2. CASE ~ (startIndex > 0)
      BY <1>11, <1>a, <3>2
    <3> QED
      BY <3>1, <3>2
  <2>2. NextByte' = NextByte + startIndex
    BY <1>1, <1>8, <1>9, <2>1
  <2>3. Price' = Price + (PacketLength - 1)
    BY <1>1, <2>1, Multiples DEF Price
  <2>4. Position'
    <3>1. Rest <= taken
      BY <1>1 DEF Rest
    <3> QED
      BY <1>1, <1>2, <1>8, <1>11, <2>1, <3>1 DEF Position
  <2>5. Carried'
    <3>1. \A k \in Slots : k < Rest =>
            /\ startIndex = 0 => readBuffer'[k] = NextByte + k
            /\ readBuffer'[k] \in Nat
            /\ readBuffer'[k] < (NextByte + startIndex) + Rest
      BY <1>3, <1>11, LeftoverCarries
    <3> SUFFICES ASSUME NEW k \in Slots, k < Rest
                 PROVE  /\ ~ torn' => readBuffer'[k] = NextByte' + k
                        /\ readBuffer'[k] \in Nat
                        /\ readBuffer'[k] < NextByte' + Rest
      BY <2>1 DEF Carried, Slots
    <3>2. ~ torn' => startIndex = 0 /\ NextByte' = NextByte
      BY <1>1, <2>1, <2>2
    <3> QED
      BY <2>2, <3>1, <3>2
  <2>6. Behind'
    <3>1. \A i \in DOMAIN parsed, k \in Slots :
            parsed[i][k] \in Nat /\ parsed[i][k] < NextByte'
      BY <1>1, <1>3, <2>2 DEF Behind
    <3>2. Out <= NextByte' /\ (torn' => Out < NextByte')
      BY <1>1, <1>3, <2>1, <2>2 DEF Behind
    <3>3. Out = NextByte' => Out = NextByte
      BY <1>1, <1>3, <2>2 DEF Behind
    <3> QED
      BY <1>2, <1>3, <1>8, <3>1, <3>2, <3>3 DEF Behind, Record, Slots
  <2>7. Paid'
    BY <1>1, <1>3, <1>8, <2>1, <2>2, <2>3 DEF Paid
  <2> QED
    BY <1>1, <1>2, <1>3, <1>7, <2>4, <2>5, <2>6, <2>7 DEF FramingInv
<1> QED
  BY <1>1, <1>4, <1>10, <1>11

LEMMA ReadStep ==
  ASSUME FramingInv, Read
  PROVE  FramingInv'
<1> USE FramingAssumption
<1>1. /\ taken \in Nat /\ startIndex \in Nat /\ NextByte \in Int /\ Unread \in Nat
      /\ written * PacketLength \in Nat
  BY Ranges
<1>2. PICK n \in 1..Lesser(Unread, BufferSize) : valread' = n /\ taken' = taken + n
  BY DEF Read
<1>3. /\ pc = "read" /\ pos' = 0 /\ pc' = "frame"
      /\ UNCHANGED <<written, closed, readBuffer, startIndex, parsed, cuts, torn>>
  BY DEF Read, socketVars
<1>4. n \in Nat /\ 1 <= n /\ n <= Unread /\ n <= BufferSize
  BY <1>1, <1>2 DEF Lesser
<1>5. Unread = written * PacketLength - taken
  BY DEF Unread
<1>6. taken' \in 0..(written * PacketLength) /\ valread' \in -1..BufferSize
  BY <1>1, <1>2, <1>4, <1>5
<1>7. TypeOK'
  BY <1>2, <1>3, <1>4, <1>6 DEF FramingInv, TypeOK
<1>8. ~ Failed /\ ~ Failed' /\ valread' <= taken'
  BY <1>1, <1>2, <1>3, <1>4 DEF FramingInv, Failed
<1>9. Position /\ Carried /\ Behind /\ Paid
  BY <1>8 DEF FramingInv
<1>10. /\ NextByte' = NextByte /\ InHand' = n /\ InHand = 0 /\ Rest' = n
       /\ Out' = Out /\ Price' = Price
  BY <1>1, <1>2, <1>3, <1>4 DEF NextByte, InHand, Rest, Out, Price
<1>11. Position'
  BY <1>1, <1>2, <1>3, <1>4, <1>9, <1>10 DEF Position
<1>12. (Carried /\ Behind /\ Paid)'
  BY <1>3, <1>9, <1>10 DEF Carried, Behind, Paid, Record, Slots
<1> QED
  BY <1>3, <1>7, <1>8, <1>11, <1>12 DEF FramingInv

LEMMA ReadFailsStep ==
  ASSUME FramingInv, ReadFails
  PROVE  FramingInv'
<1>1. /\ valread' = -1 /\ pos' = 0 /\ pc' = "frame"
      /\ UNCHANGED <<written, closed, taken, readBuffer, startIndex, parsed, cuts, torn>>
  BY DEF ReadFails, socketVars
<1>2. taken \in Nat /\ -1 \in -1..BufferSize
  BY Ranges, FramingAssumption
<1>3. TypeOK'
  BY <1>1, <1>2 DEF FramingInv, TypeOK
<1> QED
  BY <1>1, <1>2, <1>3 DEF FramingInv, Failed

(* A step that moves no byte: the position in the stream stays.            *)
LEMMA IdleStep ==
  ASSUME FramingInv, UNCHANGED <<taken, loopVars, parsed, cuts, torn>>,
         InHand' = InHand, TypeOK', Failed => pc' \in {"frame", "overrun"},
         ~ Failed => Position'
  PROVE  FramingInv'
<1>1. /\ UNCHANGED <<taken, valread, pos, readBuffer, startIndex, parsed, cuts, torn>>
      /\ NextByte' = NextByte /\ Out' = Out /\ Price' = Price
  BY DEF loopVars, NextByte, Out, Price
<1>2. ~ Failed => (Carried /\ Behind /\ Paid)'
  BY <1>1 DEF FramingInv, Carried, Behind, Paid, Record, Slots
<1> QED
  BY <1>1, <1>2 DEF FramingInv, Failed

LEMMA FramingStep == FramingInv /\ [Next]_vars => FramingInv'
<1> SUFFICES ASSUME FramingInv, [Next]_vars
             PROVE  FramingInv'
  OBVIOUS
<1> USE FramingAssumption
<1>0. /\ written \in Nat /\ taken \in Nat /\ startIndex \in Nat /\ InHand \in Int
      /\ written * PacketLength \in Nat /\ ~ Failed => Position
      /\ (written + 1) * PacketLength = written * PacketLength + PacketLength
  BY Ranges, Multiples DEF FramingInv
<1>1. CASE Write
  <2>1. UNCHANGED <<closed, taken, pc, loopVars, parsed, cuts, torn>> /\ ~ closed
        /\ written' = written + 1 /\ written < MaxRecords
    BY <1>1 DEF Write
  <2>2. taken' \in 0..(written' * PacketLength) /\ written' \in 0..MaxRecords
    BY <1>0, <2>1 DEF FramingInv, TypeOK
  <2>3. TypeOK'
    BY <2>1, <2>2 DEF FramingInv, TypeOK, loopVars
  <2>4. InHand' = InHand /\ Rest' = Rest
    BY <2>1 DEF InHand, Rest, loopVars
  <2>5. ~ Failed => Position'
    BY <1>0, <2>1, <2>4 DEF Position, loopVars
  <2> QED
    BY <2>1, <2>3, <2>4, <2>5, IdleStep DEF FramingInv, loopVars
<1>2. CASE Close
  <2>1. UNCHANGED <<written, taken, pc, loopVars, parsed, cuts, torn>> /\ ~ closed /\ closed'
    BY <1>2 DEF Close
  <2>2. TypeOK'
    BY <1>2, <2>1 DEF FramingInv, TypeOK, loopVars, Close
  <2>3. InHand' = InHand /\ Rest' = Rest
    BY <2>1 DEF InHand, Rest, loopVars
  <2>4. ~ Failed => Position'
    BY <1>0, <2>1, <2>3 DEF Position, loopVars
  <2> QED
    BY <2>1, <2>2, <2>3, <2>4, IdleStep DEF FramingInv, loopVars
<1>3. CASE Read
  BY <1>3, ReadStep
<1>4. CASE Frame
  BY <1>4, FrameStep
<1>5. CASE Leftover
  BY <1>5, LeftoverStep
<1>6. CASE Overrun
  <2>1. UNCHANGED <<written, closed, taken, loopVars, parsed, cuts, torn>>
        /\ pc = "frame" /\ pc' = "overrun"
    BY <1>6 DEF Overrun, socketVars
  <2>2. TypeOK'
    BY <2>1 DEF FramingInv, TypeOK, loopVars
  <2>3. InHand' = InHand /\ Rest' = Rest
    BY <2>1 DEF InHand, Rest, loopVars
  <2>4. ~ Failed => Position'
    BY <1>0, <2>1, <2>3 DEF Position, loopVars
  <2> QED
    BY <2>1, <2>2, <2>3, <2>4, IdleStep
<1>7. CASE End
  <2>1. UNCHANGED <<written, closed, taken, loopVars, parsed, cuts, torn>>
        /\ pc = "read" /\ pc' = "done" /\ closed /\ Unread = 0
    BY <1>7 DEF End, socketVars
  <2>2. TypeOK'
    BY <2>1 DEF FramingInv, TypeOK, loopVars
  <2>3. InHand' = InHand /\ Unread' = Unread
    BY <2>1 DEF InHand, Unread
  <2>4. ~ Failed
    BY <2>1 DEF FramingInv
  <2>5. Position'
    BY <1>0, <2>1, <2>3, <2>4 DEF Position, loopVars
  <2> QED
    BY <2>1, <2>2, <2>3, <2>4, <2>5, IdleStep
<1>8. CASE ReadFails
  BY <1>8, ReadFailsStep
<1>9. CASE UNCHANGED vars
  <2>1. UNCHANGED <<written, closed, taken, pc, loopVars, parsed, cuts, torn>>
    BY <1>9 DEF vars, socketVars
  <2>2. TypeOK'
    BY <2>1 DEF FramingInv, TypeOK, loopVars
  <2>3. InHand' = InHand /\ Rest' = Rest /\ Unread' = Unread
    BY <2>1 DEF InHand, Rest, Unread, loopVars
  <2>4. ~ Failed => Position'
    BY <1>0, <2>1, <2>3 DEF Position, loopVars
  <2> QED
    BY <2>1, <2>2, <2>3, <2>4, IdleStep DEF FramingInv
<1> QED
  BY <1>1, <1>2, <1>3, <1>4, <1>5, <1>6, <1>7, <1>8, <1>9 DEF Next, Step

-----------------------------------------------------------------------------
(* The variables of main's loop keep their ranges however reads cut the    *)
(* stream: startIndex stays inside readBuffer, and pos within the bytes a  *)
(* read returned unless it failed.                                         *)
THEOREM FramingTyping == Spec => []TypeOK
<1>1. FramingInv => TypeOK
  BY DEF FramingInv
<1> QED
  BY <1>1, FramingInit, FramingStep, PTL DEF Spec

(* For every packet length and buffer size: until a byte is skipped, the   *)
(* packets are the records the tracker wrote, those that a read cut in two *)
(* included, and at the end of the stream all of them.                     *)
THEOREM UncutIsTheSame == Spec => []SameUntilSkipped
<1>1. ASSUME FramingInv
      PROVE  SameUntilSkipped
  <2> SUFFICES ASSUME ~ Failed, NextByte = Len(parsed) * PacketLength
               PROVE  /\ \A i \in DOMAIN parsed : parsed[i] = Record(i - 1)
                      /\ pc = "done" => Len(parsed) = written
    BY DEF SameUntilSkipped
  <2>1. \A i \in DOMAIN parsed : parsed[i] = Record(i - 1)
    BY <1>1 DEF FramingInv, Behind, Out
  <2>2. ASSUME pc = "done"
        PROVE  Len(parsed) = written
    <3>1. /\ PacketLength \in Nat \ {0} /\ written \in Nat /\ taken \in Nat
          /\ startIndex \in Nat /\ startIndex < PacketLength /\ Len(parsed) \in Nat
          /\ Out \in Nat /\ written * PacketLength \in Nat
      BY <1>1, Ranges
    <3>2. Unread = 0 /\ InHand = 0
      BY <1>1, <2>2 DEF FramingInv, Position, InHand
    <3>3. taken = written * PacketLength /\ Out = taken - startIndex
      BY <3>1, <3>2 DEF Unread, NextByte, Out
    <3>4. written * PacketLength = Len(parsed) * PacketLength + startIndex
      BY <3>1, <3>3 DEF Out
    <3> QED
      BY <3>1, <3>4, AllParsed
  <2> QED
    BY <2>1, <2>2
<1> QED
  BY <1>1, FramingInit, FramingStep, PTL DEF Spec

(* For every packet length and buffer size: each read that leaves bytes    *)
(* over costs less than one packet, however many there are.                *)
THEOREM CutsAreCheap == Spec => []CutsCostOnePacket
<1>1. ASSUME FramingInv
      PROVE  CutsCostOnePacket
  <2> SUFFICES ASSUME ~ Failed, pc \in {"read", "done"}
               PROVE  /\ Len(parsed) * PacketLength <= taken
                      /\ taken <= Len(parsed) * PacketLength + cuts * (PacketLength - 1)
    BY DEF CutsCostOnePacket
  <2>1. /\ taken \in Nat /\ startIndex \in Nat /\ NextByte \in Int
        /\ Out \in Nat /\ Price \in Nat
    BY <1>1, Ranges
  <2>2. NextByte = taken - startIndex
    BY <2>1 DEF NextByte, InHand
  <2>3. Out <= NextByte /\ NextByte + startIndex <= Out + Price
    BY <1>1 DEF FramingInv, Behind, Paid
  <2>4. Out <= taken /\ taken <= Out + Price
    BY <2>1, <2>2, <2>3
  <2> QED
    BY <2>4 DEF Out, Price
<1> QED
  BY <1>1, FramingInit, FramingStep, PTL DEF Spec

(* For every packet length and buffer size: no byte is parsed twice or     *)
(* before one that precedes it, and a packet is one piece of the stream    *)
(* unless two reads in a row were too short for one.                       *)
THEOREM PacketsAreWhole == Spec => WholePieces
<1> DEFINE Whole ==
      LET p == parsed'[Len(parsed')] IN
      Len(parsed') > Len(parsed) /\ ~ torn /\ ~ Failed =>
        /\ \A k \in Slots : p[k] = p[0] + k
        /\ \A i \in DOMAIN parsed, k \in Slots : parsed[i][k] < p[0]
<1>1. ASSUME FramingInv, [Next]_vars
      PROVE  Whole
  <2> SUFFICES ASSUME Len(parsed') > Len(parsed), ~ torn, ~ Failed
               PROVE  LET p == parsed'[Len(parsed')] IN
                      /\ \A k \in Slots : p[k] = p[0] + k
                      /\ \A i \in DOMAIN parsed, k \in Slots : parsed[i][k] < p[0]
    OBVIOUS
  <2>1. Len(parsed) \in Nat /\ NextByte \in Int /\ 0 \in Slots /\ Slots \subseteq Int
    BY <1>1, Ranges, FramingAssumption DEF Slots
  <2>2. parsed' # parsed
    BY <2>1
  <2>3. Frame
    BY <1>1, <2>2 DEF Next, Step, Write, Close, Read, ReadFails, Leftover, Overrun, End, vars
  <2>4. parsed'[Len(parsed')] = readBuffer'
    <3>0. PacketLength - startIndex \in Int /\ readBuffer' = Copied(PacketLength - startIndex)
      BY <1>1, <2>3, FramingAssumption DEF Frame, FramingInv, TypeOK, Slots
    <3>1. readBuffer' \in [Slots -> Nat \cup {NoByte}]
      BY <1>1, <3>0, CopiedType
    <3> QED
      BY <1>1, <2>3, <3>1 DEF Frame, FramingInv, TypeOK
  <2>5. \A k \in Slots : readBuffer'[k] = NextByte + k
    BY <1>1, <2>3, FramePacket
  <2>6. readBuffer'[0] = NextByte
    BY <2>1, <2>5
  <2>7. \A i \in DOMAIN parsed, k \in Slots : parsed[i][k] < NextByte
    BY <1>1 DEF FramingInv, Behind
  <2> QED
    BY <2>4, <2>5, <2>6, <2>7
<1>2. Init /\ [][Next]_vars => [][Whole]_vars
  <2>1. FramingInv /\ [Next]_vars => [Whole]_vars
    BY <1>1
  <2> HIDE DEF Whole
  <2> QED
    BY <2>1, FramingInit, FramingStep, PTL
<1> QED
  BY <1>2 DEF Spec, WholePieces

=============================================================================
