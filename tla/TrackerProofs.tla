---------------------------- MODULE TrackerProofs ----------------------------
(***************************************************************************)
(* Proofs about FirewallTracker, for every capacity of the pipe and every  *)
(* number of lines and block messages.                                     *)
(***************************************************************************)
EXTENDS FirewallTracker, SequenceTheorems, TLAPS

EventKinds == {"stdin", "hup", "server", "pipe", "client"}

(* What the steps below compute with.                                      *)
CountsOK ==
  /\ written \in Nat /\ read \in Nat /\ read <= written
  /\ blocks \in Nat
  /\ batch \in Seq(Nat)
  /\ pipe \in Seq(Nat)
  /\ events \in Seq(EventKinds)

(* poll reports the pipe at most once, and only when it holds a message:   *)
(* recv never waits for one.                                               *)
PipeReported ==
  \A i \in DOMAIN events :
    events[i] = "pipe" =>
      pipe # <<>> /\ \A j \in DOMAIN events : events[j] = "pipe" => j = i

TrackerInv == CountsOK /\ PipeReported

LEMMA LinesType ==
  ASSUME NEW m \in Nat, NEW n \in Nat, m <= n
  PROVE  Lines(m + 1, n) \in Seq(Nat) /\ Len(Lines(m + 1, n)) = n - m
<1>1. n - (m + 1) + 1 = n - m /\ n - m \in Nat
  OBVIOUS
<1>2. Lines(m + 1, n) = [i \in 1..(n - m) |-> (m + 1) + i - 1]
  BY <1>1 DEF Lines
<1>3. \A i \in 1..(n - m) : (m + 1) + i - 1 \in Nat
  OBVIOUS
<1> QED
  BY <1>1, <1>2, <1>3

(* Polled is made of at most four events.                                  *)
LEMMA PolledType ==
  /\ Polled \in Seq(EventKinds)
  /\ \A i \in DOMAIN Polled :
       Polled[i] = "pipe" =>
         pipe # <<>> /\ \A j \in DOMAIN Polled : Polled[j] = "pipe" => j = i
<1> DEFINE a == IF written > read THEN <<"stdin">>
                ELSE IF hungUp THEN <<"hup">> ELSE <<>>
           b == IF client = "knocking" THEN <<"server">> ELSE <<>>
           c == IF pipe # <<>> THEN <<"pipe">> ELSE <<>>
           d == IF client = "closing" \/ (client = "connected" /\ blocks > 0)
                THEN <<"client">> ELSE <<>>
           ab == a \o b
           abc == ab \o c
<1>1. Polled = abc \o d
  BY DEF Polled
<1>2. /\ a \in Seq(EventKinds \ {"pipe"}) /\ b \in Seq(EventKinds \ {"pipe"})
      /\ d \in Seq(EventKinds \ {"pipe"})
  <2>1. \A e \in EventKinds \ {"pipe"} : <<e>> \in Seq(EventKinds \ {"pipe"})
    OBVIOUS
  <2>2. <<>> \in Seq(EventKinds \ {"pipe"})
    OBVIOUS
  <2>3. {"stdin", "hup", "server", "client"} \subseteq EventKinds \ {"pipe"}
    BY DEF EventKinds
  <2> HIDE DEF EventKinds
  <2> QED
    BY <2>1, <2>2, <2>3
<1>3. c = <<>> \/ (c = <<"pipe">> /\ pipe # <<>>)
  OBVIOUS
<1> HIDE DEF a, b, c, d
<1>4. ab \in Seq(EventKinds \ {"pipe"})
  BY <1>2
<1> HIDE DEF ab
<1>5. CASE c = <<>>
  <2>1. abc = ab
    BY <1>4, <1>5
  <2>2. Polled \in Seq(EventKinds \ {"pipe"})
    BY <1>1, <1>2, <1>4, <2>1
  <2>3. Polled \in Seq(EventKinds)
    BY <2>2
  <2> QED
    BY <2>2, <2>3
<1>6. CASE c = <<"pipe">> /\ pipe # <<>>
  <2>1. /\ abc \in Seq(EventKinds) /\ Len(abc) = Len(ab) + 1 /\ abc[Len(ab) + 1] = "pipe"
        /\ \A i \in 1..Len(ab) : abc[i] = ab[i]
    BY <1>4, <1>6 DEF EventKinds
  <2> HIDE DEF abc
  <2>2. d \in Seq(EventKinds)
    BY <1>2
  <2>3. /\ Polled \in Seq(EventKinds) /\ Len(Polled) = Len(abc) + Len(d)
        /\ \A i \in 1..Len(abc) : Polled[i] = abc[i]
        /\ \A i \in (Len(abc) + 1)..(Len(abc) + Len(d)) : Polled[i] = d[i - Len(abc)]
    <3>1. abc \in Seq(EventKinds) /\ d \in Seq(EventKinds)
      BY <2>1, <2>2
    <3>2. Polled \in Seq(EventKinds) /\ Len(Polled) = Len(abc) + Len(d)
      BY <1>1, <3>1
    <3>3. \A i \in 1..Len(abc) : Polled[i] = abc[i]
      BY <1>1, <3>1
    <3>4. \A i \in (Len(abc) + 1)..(Len(abc) + Len(d)) : Polled[i] = d[i - Len(abc)]
      BY <1>1, <3>1
    <3> QED
      BY <3>2, <3>3, <3>4
  <2>4. ASSUME NEW i \in DOMAIN Polled, Polled[i] = "pipe"
        PROVE  i = Len(ab) + 1
    <3>1. i \in 1..(Len(abc) + Len(d))
      BY <2>3
    <3>2. CASE i \in 1..Len(ab)
      BY <1>4, <2>1, <2>3, <2>4, <3>2
    <3>3. CASE i \in (Len(abc) + 1)..(Len(abc) + Len(d))
      <4>1. i - Len(abc) \in 1..Len(d)
        BY <2>1, <2>2, <3>3
      <4> QED
        BY <1>2, <2>3, <2>4, <3>3, <4>1
    <3> QED
      BY <1>4, <2>1, <2>2, <3>1, <3>2, <3>3
  <2> QED
    BY <1>6, <2>3, <2>4
<1> QED
  BY <1>3, <1>5, <1>6

LEMMA TrackerInit == Init => TrackerInv
<1> SUFFICES ASSUME Init
             PROVE  TrackerInv
  OBVIOUS
<1>1. CountsOK /\ PipeReported
  BY DEF Init, CountsOK, PipeReported
<1> QED
  BY <1>1 DEF TrackerInv

(* Taking the first event leaves events, the pipe reported no more often.  *)
LEMMA HandlesStep ==
  ASSUME NEW e, CountsOK, PipeReported, Handles(e)
  PROVE  /\ events' \in Seq(EventKinds)
         /\ e = "pipe" => pipe # <<>> /\ \A i \in DOMAIN events' : events'[i] # "pipe"
         /\ \A i \in DOMAIN events' :
              events'[i] = "pipe" =>
                pipe # <<>> /\ \A j \in DOMAIN events' : events'[j] = "pipe" => j = i
<1>1. /\ events \in Seq(EventKinds) /\ events # <<>> /\ events[1] = e
      /\ events' = Tail(events)
  BY DEF CountsOK, Handles
<1>2. /\ events' \in Seq(EventKinds) /\ Len(events') = Len(events) - 1
      /\ \A i \in 1..Len(events') : events'[i] = events[i + 1]
  BY <1>1
<1>3. \A i \in DOMAIN events' : i + 1 \in DOMAIN events /\ events'[i] = events[i + 1]
                                /\ i \in Nat /\ i # 0
  BY <1>1, <1>2
<1>4. 1 \in DOMAIN events
  BY <1>1
<1>5. e = "pipe" => pipe # <<>> /\ \A i \in DOMAIN events' : events'[i] # "pipe"
  BY <1>1, <1>3, <1>4 DEF PipeReported
<1>6. ASSUME NEW i \in DOMAIN events', events'[i] = "pipe"
      PROVE  pipe # <<>> /\ \A j \in DOMAIN events' : events'[j] = "pipe" => j = i
  BY <1>3, <1>6 DEF PipeReported
<1> QED
  BY <1>2, <1>5, <1>6

LEMMA TrackerStep == TrackerInv /\ [Next]_vars => TrackerInv'
<1> SUFFICES ASSUME TrackerInv, [Next]_vars
             PROVE  TrackerInv'
  OBVIOUS
<1> USE TrackerAssumption
<1> USE DEF TrackerInv
<1>1. /\ Len(batch) \in Nat /\ Len(pipe) \in Nat /\ blocks \in Nat
      /\ written \in Nat /\ read \in Nat /\ read <= written
  BY DEF CountsOK
<1>2. CASE WriteLine
  BY <1>1, <1>2 DEF WriteLine, clientVars, CountsOK, PipeReported
<1>3. CASE SendBlock
  BY <1>1, <1>3 DEF SendBlock, inputVars, CountsOK, PipeReported
<1>4. ASSUME UNCHANGED <<written, read, blocks, events, batch, pipe>>
      PROVE  TrackerInv'
  BY <1>4 DEF CountsOK, PipeReported
<1>5. CASE Poll
  BY <1>5, PolledType DEF Poll, inputVars, clientVars, CountsOK, PipeReported
<1>6. CASE ReadLines
  <2>1. batch' \in Seq(Nat) /\ Len(batch') = written - read
    BY <1>1, <1>6, LinesType DEF ReadLines
  <2>2. CountsOK' /\ PipeReported'
    BY <1>1, <1>6, <2>1, HandlesStep
    DEF ReadLines, inputVars, clientVars, CountsOK, PipeReported
  <2> QED
    BY <2>2
<1>7. CASE SendLine
  <2>1. /\ Head(batch) \in Nat /\ Tail(batch) \in Seq(Nat)
        /\ Len(Tail(batch)) = Len(batch) - 1
    BY <1>7 DEF SendLine, CountsOK
  <2>2. pipe \in Seq(Nat) /\ pipe' = Append(pipe, Head(batch)) /\ batch' = Tail(batch)
    BY <1>7 DEF SendLine, CountsOK
  <2>3. pipe' \in Seq(Nat)
    BY <2>1, <2>2
  <2>4. pipe' # <<>>
    <3>1. Len(pipe') = Len(pipe) + 1 /\ Len(pipe) \in Nat
      BY <2>1, <2>2
    <3> QED
      BY <3>1
  <2> QED
    BY <1>1, <1>7, <2>1, <2>2, <2>3, <2>4
    DEF SendLine, inputVars, clientVars, CountsOK, PipeReported
<1>8. CASE Receive
  <2>1. pipe # <<>> /\ events' \in Seq(EventKinds)
        /\ \A i \in DOMAIN events' : events'[i] # "pipe"
    BY <1>8, HandlesStep DEF Receive
  <2>2. Tail(pipe) \in Seq(Nat) /\ Len(Tail(pipe)) = Len(pipe) - 1
    BY <2>1 DEF CountsOK
  <2> QED
    BY <1>1, <1>8, <2>1, <2>2
    DEF Receive, inputVars, clientVars, CountsOK, PipeReported
<1>9. CASE ReceiveBlock
  <2>1. pipe' \in Seq(Nat) /\ Len(pipe') = Len(pipe) + 1 /\ pipe' # <<>>
    BY <1>9 DEF ReceiveBlock, CountsOK, Block
  <2>2. CountsOK' /\ PipeReported'
    BY <1>9, <2>1, HandlesStep DEF ReceiveBlock, inputVars, CountsOK, PipeReported
  <2> QED
    BY <2>2
<1>10. ASSUME InputClosed \/ Accept \/ ClientGone
       PROVE  TrackerInv'
  <2>1. PICK e : Handles(e)
    BY <1>10 DEF InputClosed, Accept, ClientGone
  <2>2. UNCHANGED <<written, read, blocks, batch, pipe>>
    BY <1>10 DEF InputClosed, Accept, ClientGone, inputVars, clientVars
  <2> QED
    BY <2>1, <2>2, HandlesStep DEF CountsOK, PipeReported
<1>11. ASSUME \/ CloseInput \/ Client("absent", "knocking") \/ Client("connected", "closing")
              \/ EndLines \/ EndRound \/ UNCHANGED vars
       PROVE  UNCHANGED <<written, read, blocks, events, batch, pipe>>
  BY <1>11 DEF CloseInput, Client, EndLines, EndRound, vars, inputVars, clientVars
<1> QED
  BY <1>2, <1>3, <1>4, <1>5, <1>6, <1>7, <1>8, <1>9, <1>10, <1>11
  DEF Next, Environment, Step

-----------------------------------------------------------------------------
LEMMA TypeInit == Init => TypeOK
<1> SUFFICES ASSUME Init
             PROVE  TypeOK
  OBVIOUS
<1>1. written \in 0..MaxLines /\ asked \in 0..MaxBlocks
  BY TrackerAssumption DEF Init
<1>2. read \in 0..written /\ blocks \in 0..asked
  BY DEF Init
<1>3. /\ events \in Seq({"stdin", "hup", "server", "pipe", "client"})
      /\ batch \in Seq(1..MaxLines) /\ pipe \in Seq(0..MaxLines) /\ local \in Seq(1..MaxLines)
  BY DEF Init
<1>4. /\ hungUp \in BOOLEAN /\ alone \in BOOLEAN /\ pc = "poll" /\ client = "absent"
  BY DEF Init
<1> QED
  BY <1>1, <1>2, <1>3, <1>4 DEF TypeOK

(* What is in the pipe is a block message or a line.                       *)
LEMMA TypeStep == TypeOK /\ TrackerInv /\ [Next]_vars => TypeOK'
<1> SUFFICES ASSUME TypeOK, TrackerInv, [Next]_vars
             PROVE  TypeOK'
  OBVIOUS
<1> USE TrackerAssumption
<1>1. CASE WriteLine
  BY <1>1 DEF WriteLine, clientVars, TypeOK
<1>2. CASE CloseInput
  BY <1>2 DEF CloseInput, clientVars, TypeOK
<1>3. CASE SendBlock
  BY <1>3 DEF SendBlock, inputVars, TypeOK
<1>4. ASSUME NEW from, NEW to \in {"knocking", "closing"}, Client(from, to)
      PROVE  TypeOK'
  BY <1>4 DEF Client, inputVars, TypeOK
<1>5. CASE Poll
  BY <1>5, PolledType DEF Poll, inputVars, clientVars, EventKinds, TypeOK
<1>6. ASSUME NEW e, Handles(e)
      PROVE  events' \in Seq({"stdin", "hup", "server", "pipe", "client"})
  BY <1>6, HandlesStep DEF TrackerInv, EventKinds
<1>7. CASE ReadLines
  <2>1. read \in Nat /\ written \in Nat /\ read <= written /\ written <= MaxLines
    BY DEF TypeOK
  <2>2. Lines(read + 1, written) = [i \in 1..(written - read) |-> (read + 1) + i - 1]
    BY <2>1 DEF Lines
  <2>3. \A i \in 1..(written - read) : (read + 1) + i - 1 \in 1..MaxLines
    BY <2>1
  <2>4. written - read \in Nat
    BY <2>1
  <2>5. Lines(read + 1, written) \in Seq(1..MaxLines)
    BY <2>2, <2>3, <2>4
  <2> QED
    BY <1>6, <1>7, <2>1, <2>5 DEF ReadLines, inputVars, clientVars, TypeOK
<1>8. CASE SendLine
  <2>1. Head(batch) \in 1..MaxLines /\ Tail(batch) \in Seq(1..MaxLines)
    BY <1>8 DEF SendLine, TypeOK
  <2>2. pipe' \in Seq(0..MaxLines)
    BY <1>8, <2>1 DEF SendLine, TypeOK
  <2> QED
    BY <1>8, <2>1, <2>2 DEF SendLine, inputVars, clientVars, TypeOK
<1>9. CASE Receive
  <2>1. pipe # <<>>
    BY <1>9, HandlesStep DEF Receive, TrackerInv
  <2>2. Head(pipe) \in 0..MaxLines /\ Tail(pipe) \in Seq(0..MaxLines)
    BY <2>1 DEF TypeOK
  <2>3. Head(pipe) # Block => Append(local, Head(pipe)) \in Seq(1..MaxLines)
    BY <2>2 DEF TypeOK, Block
  <2> QED
    BY <1>6, <1>9, <2>2, <2>3 DEF Receive, inputVars, clientVars, TypeOK
<1>10. CASE ReceiveBlock
  <2>1. pipe' \in Seq(0..MaxLines)
    BY <1>10 DEF ReceiveBlock, Block, TypeOK
  <2> QED
    BY <1>6, <1>10, <2>1 DEF ReceiveBlock, inputVars, TypeOK
<1>11. CASE InputClosed
  BY <1>6, <1>11 DEF InputClosed, inputVars, clientVars, TypeOK
<1>12. CASE Accept \/ ClientGone
  BY <1>6, <1>12 DEF Accept, ClientGone, inputVars, TypeOK
<1>13. CASE EndLines \/ EndRound \/ UNCHANGED vars
  BY <1>13 DEF EndLines, EndRound, vars, inputVars, clientVars, TypeOK
<1> QED
  BY <1>1, <1>2, <1>3, <1>4, <1>5, <1>7, <1>8, <1>9, <1>10, <1>11, <1>12, <1>13
  DEF Next, Environment, Step

(* However much is read, what comes out of the pipe is a line or a block   *)
(* message: main takes nothing off an empty pipe.                          *)
THEOREM TrackerTyping == Spec => []TypeOK
BY TypeInit, TypeStep, TrackerInit, TrackerStep, PTL DEF Spec

-----------------------------------------------------------------------------
(* No line is lost                                                         *)

(* Only what main is sending waits outside the pipe. A hang-up is reported *)
(* once the input is closed and read to its end; if it is all that poll    *)
(* reported then the pipe is empty, and stays so until it is handled.      *)
HangUpInv ==
  /\ pc # "sending" => batch = <<>>
  /\ \A i \in DOMAIN events : events[i] = "hup" => hungUp /\ written = read
  /\ alone /\ events # <<>> =>
       /\ Len(events) = 1
       /\ pc # "sending"
       /\ events[1] = "hup" => pipe = <<>>
  /\ pc = "exited" => hungUp

(* Of a sequence with at most one event before others.                     *)
LEMMA FirstReported ==
  ASSUME NEW Others, "hup" \notin Others,
         NEW first, first \in {<<>>, <<"stdin">>, <<"hup">>},
         NEW rest \in Seq(Others)
  PROVE  /\ \A i \in DOMAIN (first \o rest) :
              (first \o rest)[i] = "hup" => first = <<"hup">>
         /\ Len(first \o rest) = 1 /\ (first \o rest)[1] = "hup" => rest = <<>>
<1>1. CASE first = <<>>
  <2>1. first \o rest = rest
    BY <1>1
  <2>2. \A i \in DOMAIN rest : rest[i] \in Others
    OBVIOUS
  <2>3. Len(rest) = 1 => 1 \in DOMAIN rest
    OBVIOUS
  <2> QED
    BY <2>1, <2>2, <2>3
<1>2. ASSUME NEW e, first = <<e>>
      PROVE  /\ Len(first \o rest) = Len(rest) + 1
             /\ (first \o rest)[1] = e
             /\ \A i \in DOMAIN (first \o rest) :
                  i = 1 \/ (first \o rest)[i] \in Others
             /\ Len(first \o rest) = 1 => rest = <<>>
  BY <1>2
<1>3. CASE first = <<"stdin">>
  BY <1>2, <1>3
<1>4. CASE first = <<"hup">>
  BY <1>2, <1>4
<1> QED
  BY <1>1, <1>3, <1>4

LEMMA PolledHangUp ==
  /\ \A i \in DOMAIN Polled : Polled[i] = "hup" => hungUp /\ ~ (written > read)
  /\ Len(Polled) = 1 /\ Polled[1] = "hup" => pipe = <<>>
<1> DEFINE a == IF written > read THEN <<"stdin">>
                ELSE IF hungUp THEN <<"hup">> ELSE <<>>
           b == IF client = "knocking" THEN <<"server">> ELSE <<>>
           c == IF pipe # <<>> THEN <<"pipe">> ELSE <<>>
           d == IF client = "closing" \/ (client = "connected" /\ blocks > 0)
                THEN <<"client">> ELSE <<>>
           Others == {"server", "pipe", "client"}
           rest == (b \o c) \o d
<1>1. Polled = ((a \o b) \o c) \o d
  BY DEF Polled
<1>2. b \in Seq(Others) /\ c \in Seq(Others) /\ d \in Seq(Others)
  <2>1. <<>> \in Seq(Others) /\ \A e \in Others : <<e>> \in Seq(Others)
    OBVIOUS
  <2>2. "server" \in Others /\ "pipe" \in Others /\ "client" \in Others
    OBVIOUS
  <2> HIDE DEF Others
  <2> QED
    BY <2>1, <2>2, Zenon
<1>3. a \in {<<>>, <<"stdin">>, <<"hup">>} /\ a \in Seq(EventKinds)
  <2>1. <<>> \in Seq(EventKinds) /\ <<"stdin">> \in Seq(EventKinds)
        /\ <<"hup">> \in Seq(EventKinds)
    BY DEF EventKinds
  <2>2. a \in {<<>>, <<"stdin">>, <<"hup">>}
    OBVIOUS
  <2> HIDE DEF a
  <2> QED
    BY <2>1, <2>2
<1>4. a = <<"hup">> => hungUp /\ ~ (written > read)
  <2>1. <<"stdin">>[1] # <<"hup">>[1] /\ Len(<<>>) # Len(<<"hup">>)
    OBVIOUS
  <2>2. <<"stdin">> # <<"hup">> /\ <<>> # <<"hup">>
    BY <2>1
  <2> QED
    BY <2>2, Zenon
<1>5. pipe # <<>> => c = <<"pipe">>
  OBVIOUS
<1>6. "hup" \notin Others /\ Others \subseteq EventKinds
  BY DEF EventKinds
<1> HIDE DEF a, b, c, d, Others
<1>7. Polled = a \o rest
  <2>1. b \in Seq(EventKinds) /\ c \in Seq(EventKinds) /\ d \in Seq(EventKinds)
    BY <1>2, <1>6
  <2>2. \A x, y, z \in Seq(EventKinds) : (x \o y) \o z = x \o (y \o z)
    BY ConcatAssociative
  <2>3. b \o c \in Seq(EventKinds)
    BY <2>1
  <2>4. (a \o b) \o c = a \o (b \o c) /\ (a \o (b \o c)) \o d = a \o ((b \o c) \o d)
    BY <1>3, <2>1, <2>2, <2>3, Zenon
  <2> QED
    BY <1>1, <2>4, Zenon DEF rest
<1>8. rest \in Seq(Others)
  BY <1>2
<1>9. pipe # <<>> => rest # <<>>
  <2>1. Len(rest) = Len(b) + Len(c) + Len(d) /\ Len(b) \in Nat /\ Len(d) \in Nat
    BY <1>2
  <2>2. pipe # <<>> => Len(c) = 1
    BY <1>5
  <2>3. rest = <<>> => Len(rest) = 0
    OBVIOUS
  <2> HIDE DEF rest
  <2> QED
    BY <2>1, <2>2, <2>3
<1> HIDE DEF rest
<1>10. /\ \A i \in DOMAIN Polled : Polled[i] = "hup" => a = <<"hup">>
       /\ Len(Polled) = 1 /\ Polled[1] = "hup" => rest = <<>>
  BY <1>3, <1>6, <1>7, <1>8, FirstReported
<1> QED
  BY <1>4, <1>9, <1>10

LEMMA HangUpInit == Init => HangUpInv
BY DEF Init, HangUpInv

(* The first event is handled. If it was alone, none is left.              *)
LEMMA HandlesHangUp ==
  ASSUME NEW e, TrackerInv, HangUpInv, Handles(e), UNCHANGED <<hungUp, written, alone>>,
         read' = read \/ read' = written
  PROVE  /\ \A i \in DOMAIN events' : events'[i] = "hup" => hungUp' /\ written' = read'
         /\ alone' => events' = <<>>
<1>1. /\ events \in Seq(EventKinds) /\ events # <<>> /\ events[1] = e
      /\ events' = Tail(events)
  BY DEF TrackerInv, CountsOK, Handles
<1>2. /\ Len(events') = Len(events) - 1
      /\ \A i \in 1..Len(events') : events'[i] = events[i + 1] /\ i + 1 \in DOMAIN events
      /\ DOMAIN events' = 1..Len(events') /\ events' \in Seq(EventKinds)
  BY <1>1
<1>3. alone' => events' = <<>>
  BY <1>1, <1>2 DEF HangUpInv
<1>4. \A i \in DOMAIN events' : events'[i] = "hup" => hungUp' /\ written' = read'
  BY <1>2 DEF HangUpInv
<1> QED
  BY <1>3, <1>4

LEMMA HangUpStep == TrackerInv /\ HangUpInv /\ [Next]_vars => HangUpInv'
<1> SUFFICES ASSUME TrackerInv, HangUpInv, [Next]_vars
             PROVE  HangUpInv'
  OBVIOUS
<1>1. written \in Nat /\ read \in Nat /\ read <= written /\ events \in Seq(EventKinds)
  BY DEF TrackerInv, CountsOK
<1>2. CASE WriteLine \/ CloseInput
  BY <1>1, <1>2 DEF WriteLine, CloseInput, clientVars, HangUpInv
<1>3. CASE Poll
  <2>1. /\ Polled \in Seq(EventKinds)
        /\ alone' => Len(Polled) = 1
        /\ pc = "poll" /\ pc' = "handle" /\ events' = Polled
        /\ UNCHANGED <<hungUp, written, read, batch, pipe>>
    BY <1>3, PolledType DEF Poll, inputVars
  <2>2. /\ \A i \in DOMAIN Polled : Polled[i] = "hup" => hungUp /\ written = read
        /\ Len(Polled) = 1 /\ Polled[1] = "hup" => pipe = <<>>
    BY <1>1, PolledHangUp
  <2> HIDE DEF Polled
  <2> QED
    BY <2>1, <2>2 DEF HangUpInv
<1>4. CASE ReadLines
  BY <1>4, HandlesHangUp DEF ReadLines, inputVars, HangUpInv
<1>5. CASE SendLine
  BY <1>5 DEF SendLine, inputVars, HangUpInv
<1>6. CASE EndLines \/ EndRound
  BY <1>6 DEF EndLines, EndRound, inputVars, HangUpInv
<1>7. CASE InputClosed
  <2>1. 1 \in DOMAIN events /\ events[1] = "hup"
    BY <1>1, <1>7 DEF InputClosed, Handles
  <2>2. hungUp
    BY <2>1 DEF HangUpInv
  <2> QED
    BY <1>7, <2>2, HandlesHangUp DEF InputClosed, Handles, inputVars, HangUpInv
<1>8. CASE Receive
  BY <1>8, HandlesHangUp DEF Receive, Handles, inputVars, HangUpInv
<1>9. CASE Accept \/ ReceiveBlock \/ ClientGone
  BY <1>9, HandlesHangUp DEF Accept, ReceiveBlock, ClientGone, Handles, inputVars, HangUpInv
<1>10. ASSUME UNCHANGED <<written, hungUp, read, pc, events, alone, batch, pipe>>
       PROVE  HangUpInv'
  BY <1>10 DEF HangUpInv
<1>11. ASSUME \/ Client("absent", "knocking") \/ Client("connected", "closing")
              \/ SendBlock \/ UNCHANGED vars
       PROVE  UNCHANGED <<written, hungUp, read, pc, events, alone, batch, pipe>>
  BY <1>11 DEF Client, SendBlock, vars, inputVars
<1> QED
  BY <1>2, <1>3, <1>4, <1>5, <1>6, <1>7, <1>8, <1>9, <1>10, <1>11
  DEF Next, Environment, Step

-----------------------------------------------------------------------------
(* The lines from..to, one after the other.                                *)
LEMMA LinesAre ==
  ASSUME NEW from \in Nat, NEW to \in Nat, from <= to + 1
  PROVE  /\ Lines(from, to) \in Seq(Nat)
         /\ Len(Lines(from, to)) = to - from + 1
         /\ \A i \in 1..(to - from + 1) : Lines(from, to)[i] = from + i - 1
<1>1. to - from + 1 \in Nat
  OBVIOUS
<1>2. \A i \in 1..(to - from + 1) : from + i - 1 \in Nat
  OBVIOUS
<1> QED
  BY <1>1, <1>2 DEF Lines

LEMMA LineInit == Init => NothingLostInside
<1> SUFFICES ASSUME Init PROVE NothingLostInside
  OBVIOUS
<1>1. Len(local) = 0 /\ local = Lines(1, 0) /\ read = 0
  BY LinesAre DEF Init, Lines
<1>2. pipe \o batch = <<>>
  BY DEF Init
<1>3. (0 + 1)..0 = {} /\ Range(<<>>) = {}
  BY DEF Range
<1> QED
  BY <1>1, <1>2, <1>3 DEF NothingLostInside

(* What is on the way: the lines after sent up to last, in order, with     *)
(* block messages between them.                                            *)
InTransit(way, sent, last) ==
  /\ Range(way) \ {Block} = (sent + 1)..last
  /\ \A j, k \in DOMAIN way : j < k /\ way[k] # Block => way[j] < way[k]

(* What comes out first is the next line, or a block message.              *)
LEMMA TakeFirst ==
  ASSUME NEW way \in Seq(Nat), NEW sent \in Nat, NEW last \in Nat,
         way # <<>>, Head(way) # Block, InTransit(way, sent, last)
  PROVE  /\ Head(way) = sent + 1 /\ sent + 1 <= last
         /\ InTransit(Tail(way), sent + 1, last)
<1>1. /\ Len(way) \in Nat \ {0} /\ DOMAIN way = 1..Len(way)
      /\ \A k \in 1..Len(way) : way[k] \in Nat
      /\ Head(way) = way[1]
  OBVIOUS
<1>2. way[1] \in (sent + 1)..last
  BY <1>1 DEF InTransit, Range
<1>3. sent + 1 \in Range(way) /\ sent + 1 <= last
  BY <1>2 DEF InTransit
<1>4. PICK k \in 1..Len(way) : way[k] = sent + 1
  BY <1>1, <1>3 DEF Range
<1>5. way[1] = sent + 1
  <2>1. CASE k = 1
    BY <1>4, <2>1
  <2>2. CASE k # 1
    <3>1. 1 < k /\ way[k] # Block
      BY <1>1, <1>4, <2>2 DEF Block
    <3>2. way[1] < way[k]
      BY <1>1, <3>1 DEF InTransit
    <3> QED
      BY <1>1, <1>2, <1>4, <3>2
  <2> QED
    BY <2>1, <2>2
<1> DEFINE rest == Tail(way)
<1>6. /\ DOMAIN rest = 1..(Len(way) - 1)
      /\ \A j \in DOMAIN rest : rest[j] = way[j + 1] /\ j + 1 \in DOMAIN way /\ j \in Nat
  BY <1>1
<1> HIDE DEF rest
<1>7. \A j, m \in DOMAIN rest : j < m /\ rest[m] # Block => rest[j] < rest[m]
  BY <1>6 DEF InTransit
<1>8. Range(rest) \ {Block} = (sent + 2)..last
  <2>1. ASSUME NEW x \in Range(rest), x # Block
        PROVE  x \in (sent + 2)..last
    <3>1. PICK j \in DOMAIN rest : x = way[j + 1] /\ j + 1 \in DOMAIN way /\ j \in Nat
      BY <1>6 DEF Range
    <3>2. 1 < j + 1
      BY <1>6, <3>1
    <3>3. way[1] < way[j + 1]
      BY <1>1, <2>1, <3>1, <3>2 DEF InTransit
    <3>4. way[j + 1] \in (sent + 1)..last
      BY <2>1, <3>1 DEF InTransit, Range
    <3> QED
      BY <1>5, <3>1, <3>3, <3>4
  <2>2. ASSUME NEW x \in (sent + 2)..last
        PROVE  x \in Range(rest) \ {Block}
    <3>1. x \in (sent + 1)..last /\ x # sent + 1 /\ x # Block
      BY DEF Block
    <3>2. PICK j \in DOMAIN way : way[j] = x
      BY <3>1 DEF InTransit, Range
    <3>3. j # 1 /\ j - 1 \in DOMAIN rest /\ (j - 1) + 1 = j
      BY <1>1, <1>5, <1>6, <3>1, <3>2
    <3>4. rest[j - 1] = x
      BY <1>6, <3>2, <3>3
    <3> QED
      BY <3>1, <3>3, <3>4 DEF Range
  <2> QED
    BY <2>1, <2>2
<1>9. (sent + 1) + 1 = sent + 2
  OBVIOUS
<1> QED
  BY <1>1, <1>3, <1>5, <1>7, <1>8, <1>9 DEF InTransit, rest

(* A block message joins them.                                             *)
LEMMA AddBlock ==
  ASSUME NEW way \in Seq(Nat), NEW sent \in Nat, NEW last \in Nat, InTransit(way, sent, last)
  PROVE  InTransit(Append(way, Block), sent, last)
<1> DEFINE longer == Append(way, Block)
<1>1. /\ Len(way) \in Nat /\ DOMAIN way = 1..Len(way)
      /\ DOMAIN longer = 1..(Len(way) + 1)
      /\ \A j \in 1..Len(way) : longer[j] = way[j]
      /\ longer[Len(way) + 1] = Block
  OBVIOUS
<1> HIDE DEF longer
<1>2. \A j, k \in DOMAIN longer : j < k /\ longer[k] # Block => longer[j] < longer[k]
  <2> SUFFICES ASSUME NEW j \in DOMAIN longer, NEW k \in DOMAIN longer,
                      j < k, longer[k] # Block
               PROVE  longer[j] < longer[k]
    OBVIOUS
  <2>1. k \in 1..Len(way) /\ j \in 1..Len(way)
    BY <1>1
  <2> QED
    BY <1>1, <2>1 DEF InTransit
<1>3. Range(longer) \ {Block} = Range(way) \ {Block}
  BY <1>1 DEF Range
<1> QED
  BY <1>2, <1>3 DEF InTransit, longer

(* So do the lines that are read next.                                     *)
LEMMA AddLines ==
  ASSUME NEW way \in Seq(Nat), NEW sent \in Nat, NEW last \in Nat, NEW next \in Nat,
         sent <= last, last <= next, InTransit(way, sent, last)
  PROVE  InTransit(way \o Lines(last + 1, next), sent, next)
<1> DEFINE lines == Lines(last + 1, next)
           longer == way \o lines
<1>1. /\ lines \in Seq(Nat) /\ Len(lines) = next - last
      /\ \A i \in 1..(next - last) : lines[i] = last + i
  <2>1. last + 1 <= next + 1 /\ next - (last + 1) + 1 = next - last
    OBVIOUS
  <2>2. \A i \in 1..(next - last) : last + 1 + i - 1 = last + i
    OBVIOUS
  <2>3. /\ lines \in Seq(Nat) /\ Len(lines) = next - (last + 1) + 1
        /\ \A i \in 1..(next - (last + 1) + 1) : lines[i] = last + 1 + i - 1
    <3>1. last + 1 \in Nat
      OBVIOUS
    <3> HIDE DEF lines
    <3> QED
      BY <2>1, <3>1, LinesAre DEF lines
  <2> HIDE DEF lines
  <2> QED
    BY <2>1, <2>2, <2>3
<1> HIDE DEF lines
<1>2. /\ Len(way) \in Nat /\ DOMAIN way = 1..Len(way)
      /\ \A j \in DOMAIN way : way[j] \in Nat
      /\ DOMAIN longer = 1..(Len(way) + (next - last))
      /\ \A j \in 1..Len(way) : longer[j] = way[j]
      /\ \A j \in (Len(way) + 1)..(Len(way) + (next - last)) :
           longer[j] = last + (j - Len(way)) /\ j - Len(way) \in 1..(next - last)
  BY <1>1
<1> HIDE DEF longer
<1> DEFINE n == Len(way)
           d == next - last
<1>3. /\ n \in Nat /\ d \in Nat /\ next = last + d
      /\ DOMAIN way = 1..n /\ DOMAIN longer = 1..(n + d)
      /\ \A j \in 1..n : longer[j] = way[j] /\ way[j] \in Nat
      /\ \A j \in (n + 1)..(n + d) : longer[j] = last + (j - n)
  BY <1>2
<1> HIDE DEF n, d
<1>4. \A j \in DOMAIN way : way[j] <= last
  BY <1>3 DEF InTransit, Range, Block
<1>5. ASSUME NEW j \in DOMAIN longer, NEW k \in DOMAIN longer, j < k, longer[k] # Block
      PROVE  longer[j] < longer[k]
  <2>1. CASE k \in 1..n
    <3>1. j \in 1..n
      BY <1>3, <1>5, <2>1
    <3> QED
      BY <1>3, <1>5, <2>1, <3>1 DEF InTransit
  <2>2. CASE k \in (n + 1)..(n + d) /\ j \in 1..n
    BY <1>3, <1>4, <2>2
  <2>3. CASE /\ k \in (n + 1)..(n + d)
             /\ j \in (n + 1)..(n + d)
    BY <1>3, <1>5, <2>3
  <2> QED
    BY <1>3, <2>1, <2>2, <2>3
<1>6. Range(longer) \ {Block} = (sent + 1)..next
  <2>1. ASSUME NEW j \in DOMAIN longer, longer[j] # Block
        PROVE  longer[j] \in (sent + 1)..next
    <3>1. CASE j \in 1..n
      <4>1. way[j] \in (sent + 1)..last
        BY <1>3, <2>1, <3>1 DEF InTransit, Range
      <4> QED
        BY <1>3, <3>1, <4>1
    <3>2. CASE j \in (n + 1)..(n + d)
      BY <1>3, <3>2
    <3> QED
      BY <1>3, <3>1, <3>2
  <2>2. ASSUME NEW x \in (sent + 1)..next
        PROVE  x # Block /\ \E j \in DOMAIN longer : longer[j] = x
    <3>1. CASE x <= last
      <4>1. x \in Range(way)
        BY <3>1 DEF InTransit
      <4> QED
        BY <1>3, <4>1 DEF Range, Block
    <3>2. CASE x > last
      <4> DEFINE j == n + (x - last)
      <4>1. j \in (n + 1)..(n + d) /\ j - n = x - last
        BY <1>3, <3>2
      <4>2. longer[j] = x /\ j \in DOMAIN longer
        BY <1>3, <3>2, <4>1
      <4> QED
        BY <4>2 DEF Block
    <3> QED
      BY <3>1, <3>2
  <2> QED
    BY <2>1, <2>2 DEF Range
<1> QED
  BY <1>5, <1>6 DEF InTransit, longer, lines

LEMMA LineStep ==
  TypeOK /\ TrackerInv /\ HangUpInv /\ NothingLostInside /\ [Next]_vars => NothingLostInside'
<1> SUFFICES ASSUME TypeOK, TrackerInv, HangUpInv, NothingLostInside, [Next]_vars,
                    ~ Stopped'
             PROVE  NothingLostInside'
  BY DEF NothingLostInside
<1> DEFINE sent == Len(local)
           onTheWay == pipe \o batch
<1>1. /\ written \in Nat /\ read \in Nat /\ read <= written
      /\ batch \in Seq(Nat) /\ pipe \in Seq(Nat) /\ local \in Seq(1..MaxLines)
      /\ sent \in Nat /\ onTheWay \in Seq(Nat)
  BY DEF TypeOK, TrackerInv, CountsOK
<1>2. ASSUME ~ Stopped
      PROVE  sent <= read /\ local = Lines(1, sent) /\ InTransit(onTheWay, sent, read)
  BY <1>2 DEF NothingLostInside, InTransit
<1>3. SUFFICES /\ Len(local') <= read' /\ local' = Lines(1, Len(local'))
               /\ InTransit(pipe' \o batch', Len(local'), read')
  BY DEF NothingLostInside, InTransit
<1> HIDE DEF sent, onTheWay
<1>4. ASSUME UNCHANGED <<read, pc, batch, pipe, local>>
      PROVE  /\ Len(local') <= read' /\ local' = Lines(1, Len(local'))
             /\ InTransit(pipe' \o batch', Len(local'), read')
  BY <1>2, <1>4 DEF Stopped, sent, onTheWay
<1>5. ASSUME pc \in {"poll", "handle", "sending"}, UNCHANGED <<read, batch, pipe, local>>
      PROVE  /\ Len(local') <= read' /\ local' = Lines(1, Len(local'))
             /\ InTransit(pipe' \o batch', Len(local'), read')
  BY <1>2, <1>5 DEF Stopped, sent, onTheWay
<1>6. CASE ReadLines
  <2>1. pc = "handle" /\ batch = <<>>
    BY <1>6 DEF ReadLines, Handles, HangUpInv
  <2>2. onTheWay = pipe
    BY <1>1, <2>1 DEF onTheWay
  <2>3. InTransit(pipe \o Lines(read + 1, written), sent, written)
    BY <1>1, <1>2, <2>1, <2>2, AddLines DEF Stopped
  <2> QED
    BY <1>1, <1>2, <1>6, <2>1, <2>3 DEF ReadLines, Stopped, sent
<1>7. CASE SendLine
  <2>1. pipe' \o batch' = onTheWay
    <3>1. batch = <<Head(batch)>> \o Tail(batch) /\ Tail(batch) \in Seq(Nat)
          /\ Head(batch) \in Nat
      BY <1>1, <1>7 DEF SendLine
    <3>2. pipe' = pipe \o <<Head(batch)>> /\ batch' = Tail(batch)
      BY <1>1, <1>7 DEF SendLine
    <3>3. (pipe \o <<Head(batch)>>) \o Tail(batch) = pipe \o (<<Head(batch)>> \o Tail(batch))
      BY <1>1, <3>1, ConcatAssociative
    <3> QED
      BY <3>1, <3>2, <3>3 DEF onTheWay
  <2>2. pc = "sending" /\ UNCHANGED <<read, local>>
    BY <1>7 DEF SendLine
  <2> QED
    BY <1>2, <2>1, <2>2 DEF Stopped, sent
<1>8. CASE Receive
  <2>1. pc = "handle" /\ batch = <<>> /\ pipe # <<>>
    BY <1>8, HandlesStep DEF Receive, Handles, HangUpInv, TrackerInv
  <2>2. onTheWay = pipe /\ pipe' = Tail(pipe) /\ batch' = <<>> /\ read' = read
    BY <1>1, <1>8, <2>1 DEF onTheWay, Receive
  <2>3. Head(pipe) # Block /\ local' = Append(local, Head(pipe))
    BY <1>8 DEF Receive, Stopped
  <2>4. /\ sent <= read /\ local = Lines(1, sent) /\ InTransit(pipe, sent, read)
    BY <1>2, <2>1, <2>2 DEF Stopped
  <2>5. /\ Head(pipe) = sent + 1 /\ sent + 1 <= read
        /\ InTransit(Tail(pipe), sent + 1, read)
    BY <1>1, <2>1, <2>3, <2>4, TakeFirst
  <2>6. local' = Lines(1, sent + 1) /\ Len(local') = sent + 1
    <3>1. Lines(1, sent) = [i \in 1..sent |-> i]
      BY <1>1 DEF Lines
    <3>2. Lines(1, sent + 1) = [i \in 1..(sent + 1) |-> i]
      BY <1>1 DEF Lines
    <3>3. Append([i \in 1..sent |-> i], sent + 1) = [i \in 1..(sent + 1) |-> i]
      BY <1>1
    <3>4. Len([i \in 1..(sent + 1) |-> i]) = sent + 1
      BY <1>1
    <3> QED
      BY <2>3, <2>4, <2>5, <3>1, <3>2, <3>3, <3>4
  <2>7. pipe' \o batch' = Tail(pipe)
    BY <1>1, <2>1, <2>2
  <2> QED
    BY <2>2, <2>5, <2>6, <2>7
<1>9. CASE ReceiveBlock
  <2>1. pc = "handle" /\ batch = <<>>
    BY <1>9 DEF ReceiveBlock, Handles, HangUpInv
  <2>2. onTheWay = pipe /\ pipe' \o batch' = Append(pipe, Block) /\ UNCHANGED <<read, local>>
    BY <1>1, <1>9, <2>1 DEF onTheWay, ReceiveBlock, Block
  <2>3. InTransit(Append(pipe, Block), sent, read)
    BY <1>1, <1>2, <2>1, <2>2, AddBlock DEF Stopped
  <2> QED
    BY <1>2, <2>1, <2>2, <2>3 DEF Stopped, sent
<1>10. CASE Poll \/ EndLines \/ Accept \/ ClientGone \/ EndRound
  BY <1>5, <1>10 DEF Poll, EndLines, Accept, ClientGone, EndRound, Handles, inputVars
<1>11. CASE InputClosed
  BY <1>11 DEF InputClosed, Stopped
<1>12. ASSUME Environment \/ UNCHANGED vars
       PROVE  UNCHANGED <<read, pc, batch, pipe, local>>
  BY <1>12 DEF Environment, WriteLine, CloseInput, Client, SendBlock, vars, inputVars
<1> QED
  BY <1>4, <1>6, <1>7, <1>8, <1>9, <1>10, <1>11, <1>12 DEF Next, Step

(* While the tracker runs, no line is lost, repeated or overtaken inside:  *)
(* however much is read at once, whatever comes from the client and      *)
(* however poll reports them (main in firewallTracker.py).                 *)
THEOREM LinesKept == Spec => []NothingLostInside
BY TypeInit, TypeStep, TrackerInit, TrackerStep, HangUpInit, HangUpStep,
   LineInit, LineStep, PTL DEF Spec

(* A normal end comes only with nothing left behind.                       *)
LEMMA ExitStep ==
  TypeOK /\ TrackerInv /\ HangUpInv /\ NothingLostInside /\ CleanExitLosesNothing /\ [Next]_vars
    => CleanExitLosesNothing'
<1> SUFFICES ASSUME TypeOK, TrackerInv, HangUpInv, NothingLostInside, CleanExitLosesNothing,
                    [Next]_vars, pc' = "exited"
             PROVE  local' = Lines(1, written')
  BY DEF CleanExitLosesNothing
<1>1. CASE InputClosed
  <2>1. /\ pc = "handle" /\ alone /\ events # <<>> /\ events[1] = "hup" /\ 1 \in DOMAIN events
        /\ UNCHANGED <<local, written>>
    BY <1>1 DEF InputClosed, Handles, TrackerInv, CountsOK, inputVars
  <2>2. batch = <<>> /\ pipe = <<>> /\ written = read
    BY <2>1 DEF HangUpInv
  <2>3. pipe \o batch = <<>>
    BY <2>2
  <2>4. Range(<<>>) = {}
    BY DEF Range
  <2>5. /\ Len(local) <= read /\ local = Lines(1, Len(local))
        /\ (Len(local) + 1)..read = {}
    BY <2>1, <2>3, <2>4 DEF NothingLostInside, Stopped
  <2>6. Len(local) \in Nat /\ read \in Nat
    BY DEF TypeOK, TrackerInv, CountsOK
  <2>7. Len(local) = read
    BY <2>5, <2>6
  <2> QED
    BY <2>1, <2>2, <2>5, <2>7
<1>2. CASE pc = "exited" /\ UNCHANGED <<local, written>>
  BY <1>2 DEF CleanExitLosesNothing
<1>3. ASSUME ~ InputClosed
      PROVE  pc = "exited" /\ UNCHANGED <<local, written>>
  <2>1. ~ Step
    BY <1>3 DEF Step, Poll, ReadLines, SendLine, EndLines, Receive, Accept, ReceiveBlock,
                ClientGone, EndRound, Handles
  <2>2. UNCHANGED <<pc, local>>
    BY <2>1 DEF Next, Environment, WriteLine, CloseInput, Client, SendBlock, vars
  <2>3. hungUp
    BY <2>2 DEF HangUpInv
  <2>4. UNCHANGED written
    BY <2>1, <2>3 DEF Next, Environment, WriteLine, CloseInput, Client, SendBlock, vars, inputVars
  <2> QED
    BY <2>2, <2>4
<1> QED
  BY <1>1, <1>2, <1>3

(* The test len(events) == 1 is enough: when the input has hung up and     *)
(* poll reports nothing else, all that was written is at the verifier.     *)
THEOREM ExitIsClean == Spec => []CleanExitLosesNothing
<1>1. Init => CleanExitLosesNothing
  BY DEF Init, CleanExitLosesNothing
<1> QED
  BY <1>1, ExitStep, TypeInit, TypeStep, TrackerInit, TrackerStep, HangUpInit, HangUpStep,
     LineInit, LineStep, PTL DEF Spec

=============================================================================
