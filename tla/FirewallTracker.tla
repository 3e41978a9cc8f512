---------------------------- MODULE FirewallTracker ----------------------------
(***************************************************************************)
(* The tracker of a firewall node: one thread that polls its input (the    *)
(* lines of conntrack), a server socket for block messages, one client of  *)
(* it, and the reading end of a pipe to itself. What comes in is sent down *)
(* the pipe, and what comes out of the pipe goes to the local verifier.    *)
(* The verifier always accepts what it is sent here.                       *)
(***************************************************************************)
EXTENDS Integers, Sequences, Functions

CONSTANTS
  Capacity,  \* the messages the pipe holds before send blocks
  MaxLines,  \* bound: the lines of the input
  MaxBlocks  \* bound: the block messages

ASSUME TrackerAssumption ==
  /\ Capacity \in Nat
  /\ MaxLines \in Nat
  /\ MaxBlocks \in Nat

VARIABLES
  written,  \* lines conntrack wrote
  hungUp,   \* whether it closed the pipe to the tracker
  read,     \* lines the tracker read
  client,   \* the connection of the block adder
  asked,    \* block messages it sent
  blocks,   \* those not received yet
  pc,       \* where main stands
  events,   \* what poll returned and is not handled yet
  alone,    \* len(events) == 1
  batch,    \* the lines read and not yet sent down the pipe
  pipe,
  local     \* what the local verifier was sent

inputVars == <<written, hungUp>>
clientVars == <<client, asked, blocks>>
vars == <<inputVars, read, clientVars, pc, events, alone, batch, pipe, local>>

(* Line n is n. A message from the client is bytes, not a string.          *)
Block == 0
Lines(from, to) == [i \in 1..(to - from + 1) |-> from + i - 1]

(* Mutant: the reading end of the pipe is not registered.                  *)
MutantPolled ==
  (IF written > read THEN <<"stdin">> ELSE IF hungUp THEN <<"hup">> ELSE <<>>)
    \o (IF client = "knocking" THEN <<"server">> ELSE <<>>)
    \o (IF client = "closing" \/ (client = "connected" /\ blocks > 0)
        THEN <<"client">> ELSE <<>>)

(* The events in the order of registration. Input that is closed and empty *)
(* is POLLHUP alone; with lines left it is POLLIN too.                     *)
Polled ==
  (IF written > read THEN <<"stdin">> ELSE IF hungUp THEN <<"hup">> ELSE <<>>)
    \o (IF client = "knocking" THEN <<"server">> ELSE <<>>)
    \o (IF pipe # <<>> THEN <<"pipe">> ELSE <<>>)
    \o (IF client = "closing" \/ (client = "connected" /\ blocks > 0)
        THEN <<"client">> ELSE <<>>)

Init ==
  /\ written = 0
  /\ hungUp = FALSE
  /\ read = 0
  /\ client = "absent"
  /\ asked = 0
  /\ blocks = 0
  /\ pc = "poll"
  /\ events = <<>>
  /\ alone = FALSE
  /\ batch = <<>>
  /\ pipe = <<>>
  /\ local = <<>>

(* The environment.                                                        *)
WriteLine ==
  /\ ~ hungUp
  /\ written < MaxLines
  /\ written' = written + 1
  /\ UNCHANGED <<hungUp, read, clientVars, pc, events, alone, batch, pipe, local>>

CloseInput ==
  /\ ~ hungUp
  /\ hungUp' = TRUE
  /\ UNCHANGED <<written, read, clientVars, pc, events, alone, batch, pipe, local>>

Client(from, to) ==
  /\ client = from
  /\ client' = to
  /\ UNCHANGED <<inputVars, read, asked, blocks, pc, events, alone, batch, pipe, local>>

SendBlock ==
  /\ client = "connected"
  /\ asked < MaxBlocks
  /\ asked' = asked + 1
  /\ blocks' = blocks + 1
  /\ UNCHANGED <<inputVars, read, client, pc, events, alone, batch, pipe, local>>

Environment ==
  \/ WriteLine
  \/ CloseInput
  \/ MaxBlocks > 0 /\ Client("absent", "knocking")
  \/ Client("connected", "closing")
  \/ SendBlock

-----------------------------------------------------------------------------
Poll ==
  /\ pc = "poll"
  /\ Polled # <<>>
  /\ events' = Polled
  /\ alone' = (Len(Polled) = 1)
  /\ pc' = "handle"
  /\ UNCHANGED <<inputVars, read, clientVars, batch, pipe, local>>

(* The event of kind e is next.                                            *)
Handles(e) ==
  /\ pc = "handle"
  /\ events # <<>>
  /\ Head(events) = e
  /\ events' = Tail(events)

(* Mutants: one line too many is counted as read; only the last line of    *)
(* what was read is kept.                                                  *)
MutantReadLinesCount ==
  /\ Handles("stdin")
  /\ batch' = Lines(read + 1, written)
  /\ read' = written + 1
  /\ pc' = "sending"
  /\ UNCHANGED <<inputVars, clientVars, alone, pipe, local>>
MutantReadLastLine ==
  /\ Handles("stdin")
  /\ batch' = Lines(written, written)
  /\ read' = written
  /\ pc' = "sending"
  /\ UNCHANGED <<inputVars, clientVars, alone, pipe, local>>

(* allOut = currentObject.read(): every line there is.                     *)
ReadLines ==
  /\ Handles("stdin")
  /\ batch' = Lines(read + 1, written)
  /\ read' = written
  /\ pc' = "sending"
  /\ UNCHANGED <<inputVars, clientVars, alone, pipe, local>>

(* pipe_send.send(line) blocks while the pipe is full, and the only reader *)
(* of the pipe is this thread.                                             *)
SendLine ==
  /\ pc = "sending"
  /\ batch # <<>>
  /\ Len(pipe) < Capacity
  /\ pipe' = Append(pipe, Head(batch))
  /\ batch' = Tail(batch)
  /\ UNCHANGED <<inputVars, read, clientVars, pc, events, alone, local>>

EndLines ==
  /\ pc = "sending"
  /\ batch = <<>>
  /\ pc' = "handle"
  /\ UNCHANGED <<inputVars, read, clientVars, events, alone, batch, pipe, local>>

(* Mutant: the end does not wait to be the only event.                     *)
MutantInputClosed ==
  /\ Handles("hup")
  /\ pc' = IF client = "gone" THEN "crashed" ELSE "exited"
  /\ UNCHANGED <<inputVars, read, clientVars, alone, batch, pipe, local>>

(* The input hung up. With no other event the tracker ends, by an          *)
(* exception of unregister when a client has come and gone; with another   *)
(* event it falls through to "Unknown context".                            *)
InputClosed ==
  /\ Handles("hup")
  /\ pc' = IF ~ alone THEN "unknown" ELSE IF client = "gone" THEN "crashed" ELSE "exited"
  /\ UNCHANGED <<inputVars, read, clientVars, alone, batch, pipe, local>>

(* One message per event. "block" in line raises TypeError on bytes.       *)
Receive ==
  /\ Handles("pipe")
  /\ pipe' = Tail(pipe)
  /\ IF Head(pipe) = Block
     THEN pc' = "crashed" /\ UNCHANGED local
     ELSE local' = Append(local, Head(pipe)) /\ UNCHANGED pc
  /\ UNCHANGED <<inputVars, read, clientVars, alone, batch>>

Accept ==
  /\ Handles("server")
  /\ client' = "connected"
  /\ UNCHANGED <<inputVars, read, asked, blocks, pc, alone, batch, pipe, local>>

(* recv(1024) takes all there is and sends it as one message.              *)
ReceiveBlock ==
  /\ Handles("client")
  /\ blocks > 0
  /\ Len(pipe) < Capacity
  /\ pipe' = Append(pipe, Block)
  /\ blocks' = 0
  /\ UNCHANGED <<inputVars, read, client, asked, pc, alone, batch, local>>

ClientGone ==
  /\ Handles("client")
  /\ blocks = 0
  /\ client' = "gone"
  /\ UNCHANGED <<inputVars, read, asked, blocks, pc, alone, batch, pipe, local>>

EndRound ==
  /\ pc = "handle"
  /\ events = <<>>
  /\ pc' = "poll"
  /\ UNCHANGED <<inputVars, read, clientVars, events, alone, batch, pipe, local>>

Step ==
  \/ Poll
  \/ ReadLines
  \/ SendLine
  \/ EndLines
  \/ InputClosed
  \/ Receive
  \/ Accept
  \/ ReceiveBlock
  \/ ClientGone
  \/ EndRound

Next == Environment \/ Step

Spec == Init /\ [][Next]_vars

(* The tracker is a process that does nothing but this loop.               *)
FairSpec == Spec /\ WF_vars(Step)

-----------------------------------------------------------------------------
Stopped == pc \in {"exited", "unknown", "crashed"}

(* The thread waits for room in its own pipe, at one of its two sends.     *)
Blocked ==
  /\ Len(pipe) >= Capacity
  /\ \/ pc = "sending" /\ batch # <<>>
     \/ pc = "handle" /\ events # <<>> /\ Head(events) = "client" /\ blocks > 0

(* Every variable of the tracker has the values it can hold.               *)
TypeOK ==
  /\ written \in 0..MaxLines
  /\ hungUp \in BOOLEAN
  /\ read \in 0..written
  /\ client \in {"absent", "knocking", "connected", "closing", "gone"}
  /\ asked \in 0..MaxBlocks
  /\ blocks \in 0..asked
  /\ pc \in {"poll", "handle", "sending", "exited", "unknown", "crashed"}
  /\ events \in Seq({"stdin", "hup", "server", "pipe", "client"})
  /\ alone \in BOOLEAN
  /\ batch \in Seq(1..MaxLines)
  /\ pipe \in Seq(0..MaxLines)
  /\ local \in Seq(1..MaxLines)

(* While the tracker runs, each line it read is in one place, in order:    *)
(* the first ones sent, the others behind each other on their way, with    *)
(* block messages between them.                                            *)
NothingLostInside ==
  ~ Stopped =>
    LET sent == Len(local)
        onTheWay == pipe \o batch
    IN /\ sent <= read /\ local = Lines(1, sent)
       /\ Range(onTheWay) \ {Block} = (sent + 1)..read
       /\ \A j, k \in DOMAIN onTheWay :
            j < k /\ onTheWay[k] # Block => onTheWay[j] < onTheWay[k]

(* The tracker ends normally only once every line has gone to the          *)
(* verifier: what the test len(events) == 1 is for.                        *)
CleanExitLosesNothing ==
  pc = "exited" => local = Lines(1, written)

(* A line that conntrack wrote goes to the verifier, unless the tracker    *)
(* stops or waits for itself.                                              *)
EventuallySent ==
  \A n \in 1..MaxLines : written >= n ~> (Len(local) >= n \/ Stopped \/ Blocked)

(* Input that ends is sent to the verifier before the tracker stops: how   *)
(* its test is run ("cat sampledata.txt | python3 firewallTracker.py 1").  *)
InputIsSentBeforeTheEnd ==
  Stopped => local = Lines(1, written)

(* The thread that must empty the pipe never waits on filling it, so that  *)
(* input of any length goes through, as in the test of the whole of        *)
(* sampledata.txt (firewallTracker.py:12-13).                              *)
NeverStuck == ~ Blocked

=============================================================================
