# A TLA+ model of Aragog

Aragog verifies invariants of a distributed network function at run time. This directory
holds TLA+ modules translated from its code, TLC configurations that check them on small
instances, and proofs that TLAPS checks. `PROJECT.json` maps each definition to the lines it
models, lists the runs, the mutants that show each property can fail, the findings, the
hazards of the code and the theorems. Source paths are relative to `src/`; `V/` is
`verification/src/main/java/org/msr/mnr/verification/`, `S/` is
`generateSFA/src/main/java/generateSFA/`.

## The system

An operator writes an invariant as a regular expression over packet events. Offline, the
invariant compiler makes a global automaton and one local automaton per location. At run
time:

    conntrack --> tracker --> local verifier --> Kafka topics --> global verifier --> alerts
     (lines)     (python)   (C++, per node)    <inv>.sm<channel>     (Flink, Java)

| component | state | operations | talks to | hard because |
|---|---|---|---|---|
| Tracker, `firewall/firewallTracker.py` | poll set, pipe to itself, connections | handle an event of the input, the server socket, a client, the pipe | local verifier (socket), block adder (socket) | one thread on both ends of a bounded pipe; hang-up and pending data race; two kinds of message |
| Local verifier, socket reader, `C++Verifier/src/main.cpp` | read buffer, leftover, positions | read, frame, keep the rest | tracker, packet processing | reads cut records anywhere |
| Local verifier, processing, `main.cpp`, `SFAProcessor.cpp`, `DSFA/` | a state or a tree per invariant, key and automaton | advance, decide suppression, forward | Kafka producer | what may be dropped depends on the global automaton |
| Java local processor, `V/LocalSFAProcessor.java` | queue, states, trees | as above, on Flink | sink | judges one packet and sends another |
| Kafka topics and Flink job, `V/Verifier.java` | logs, offsets | consume, key, run | local verifiers, processors | order across channels, restart |
| Global processor, `V/GlobalSFAProcessor.java` | queue, greatest time, state or list of roots per key | processElement | Flink | reordering, splits and merges inside one batch |
| Automaton and constraint tree, `V/dsfa/` | roots `[constraint, state]` | advance, split, merge | processors | values share and lose instances |
| Expressions, integer arrays, parsers, `V/expressions`, `V/utils`, `V/parser` | none | evaluate, compare, parse | automaton | negation, signedness, widths |
| Invariant compiler, `S/` | automata | compile, mark suppressible, split by location | files | soundness of suppression |

What makes each of them correct:

- Tracker: each line reaches the local verifier once and in order; the thread never waits
  for itself; it stops only when its input has ended and has been sent.
- Socket reader: the packets parsed are the records sent.
- Local processing: a packet that is dropped changes no alert of the global automaton; invariants do not disturb
  each other; a verifier that stops has lost at most the last records of each topic.
- Topics and job: the packets of a key reach one processor, each of them, and a restart
  neither loses nor repeats an alert.
- Java local processor: what is judged is what is forwarded, and splits and merges cost no packet.
- Expressions: a guard holds on the packets its text says.
- Global processor: packets advance the automaton once each, in timestamp order; a packet
  raises an alert iff it takes some instance (one per value of the variable) to a final state.
- Compiler: suppression is sound.

## Modules

| module | models |
|---|---|
| `DSFA` | the automaton of one `.sm` file and the list of roots, as operators |
| `OrderedMonitor` | abstract: what a global verifier promises for one key |
| `GlobalSFAProcessor` | `processElement`, seen from one key; EXTENDS `DSFA`, instantiates `OrderedMonitor` |
| `TreeAutomata` | moves of the automata with a variable used by TLC |
| `MCSingle`, `MCTree` | automata for TLC, without and with a variable |
| `SocketFraming` | the read loop of the local verifier's `main` |
| `FirewallTracker` | the poll loop of the tracker |
| `GenerateSFA` | what the compiler writes for suppression: flags of the global moves, local automata, as operators |
| `GlobalSuppression` | abstract: which events may be kept from the global verifier |
| `Suppression` | the local verifiers of several nodes on the events of a key, and what they suppress; EXTENDS `GenerateSFA`, instantiates `GlobalSuppression` |
| `SampleAutomata`, `MCSuppression`, `MCSuppressionSound` | global automata for TLC |
| `LocalVerifier` | `main_process`, `SFAProcessor` and the producer's buffer of every node |
| `KeyedMonitors` | abstract: what verifiers, topics and job promise together, one monitor per key |
| `Pipeline` | the composition: verifiers, topics, the Flink job and its reruns; EXTENDS `LocalVerifier`, instantiates `KeyedMonitors` |
| `MCPipeline` | two invariants for TLC |
| `JavaLocal`, `MCJavaLocal` | the Java local processor, seen from one key; EXTENDS `DSFA`, and instantiates it a second time for an automaton without variables |
| `GuardBuilder`, `MCGuardBuilder` | how guards are built from SMT-LIB text, and what they mean |
| `DSFAProofs`, `GlobalProofs`, `FramingProofs`, `TrackerProofs`, `SuppressionProofs`, `PipelineProofs`, `JavaLocalProofs`, `GuardBuilderProofs` | theorems and proofs |

### DSFA

A guard is reduced to what it tells apart: the kind of the packet (all comparisons with
literals, fields and locations) and whether its value equals the variable. `Moves[state]` is a
sequence because moves are tried in file order. `compares` says on which kinds the guard
reads the variable before it short-circuits: that is when `EqExpr.evaluate` calls
`splitIfNew`. A guard that does not read the variable cannot tell values apart (`GuardAssumption`).
A root's constraint is the *packet* its array comes from, not the value,
because `DSFA.find` compares references. Splits append to the list during the pass, and the
pass visits them: `AdvanceRoots` splits, then advances every root. One split per pass is
enough: the value clones the root at index 0, and the same packet's array is found afterwards.

The model covers automata with at most one location or variable (a tree of depth one), as in
every `.sm.g` of `out/` and every invariant of `config/firewall`.

### GlobalSFAProcessor

The state is the processor's keyed state (`pending`, `maxTime`, `lastTime`, `currentState`,
`roots`) and the position of the handler: `pc` is "idle" between calls, "drain" at the head of the
while loop, "dedupe" and "purge" in the two loops of `DSFA.merge`, "failed" after the
exception. Flink calls the handler for one packet at a time, so nothing interleaves with these
steps; they are separate so that what holds between two iterations can be stated.
`processed` and `alerts` are histories.

| action | code |
|---|---|
| `Filter`, `Enqueue` | the early return; else everything up to the drain: queue, greatest time, fresh tree |
| `ProcessSingle` | one iteration for an automaton without variables |
| `TraverseTree`, `Dedupe`, `EndDedupe`, `Purge`, `EndTree` | one iteration of the other branch |
| `Fail` | no move matches: the exception fails the job, and the job sets no restart strategy or checkpoint |
| `Return` | the head is too recent or the queue is empty |

`Heads` has every packet with the least timestamp: `Packet.compareTo` compares timestamps only and
`PriorityQueue` fixes no order among equals. The environment, `Arrives`, hands over packets at
most `Lateness` behind the greatest timestamp seen of the key. `MaxRTT` is `MAX_RTT`, 0 in the
code and marked "TODO: update this"; both are parameters, so that the runs can ask when the
queue does its work. A packet's `id` numbers arrivals and keeps equal packets apart.

The refinement: `Instances` gives each value the state of the first root of that value, else of the
unconstrained root, else the start state; `Reported` counts the alert the pass has found and not
yet collected. Dedupe, purge and return steps are stutters of the monitor.

### SocketFraming

A byte is its position in the stream. The tracker writes whole records (`Write`), and a read returns any number of the
bytes that are there, up to the buffer: it cuts records anywhere.

| action | code |
|---|---|
| `Read`, `ReadFails` | `read`, which returns bytes or -1; the loop takes -1 for bytes, and compares it unsigned (`More`) |
| `Frame` | one inner iteration: `readBuffer` is completed behind what is carried and parsed, and `pos` moves a whole packet |
| `Leftover` | the rest of the read goes behind what is carried, and replaces `startIndex` |
| `Overrun` | a copy that would leave `buffer` (after a failed read) or `readBuffer` (a rest behind a rest): what follows is undefined in the code, and the model stops |
| `End` | `read` returns 0 |

After a carried beginning `Frame` skips bytes: only what the packet lacks is copied, but `pos` moves a whole packet (`FramingSkips`).
What is left to say of the reader, however reads cut the stream, is how far this goes: nothing changes until a byte is
skipped (`SameUntilSkipped`), a packet is one piece of the stream and nothing is parsed twice (`WholePieces`), and a read
that leaves bytes over costs less than one packet (`CutsCostOnePacket`). Two ghosts serve these: `cuts` counts the reads
that left bytes over, and `torn` says that two reads in a row were too short for a packet, whose bytes are then put
together wrongly. The time-driven flush of the Kafka producer touches none of this state. In the code a record is 24 bytes
and the buffer 1024; the runs use 3 and 8. In both a full read ends inside a record.

### FirewallTracker

One action per branch of the loop. `Polled` is what poll returns: the ready descriptors in order
of registration, the input as POLLIN while lines are left and as POLLHUP alone after. `read()`
takes every line there is and the loop sends them one at a time: `SendLine` is disabled while the
pipe is full, and so is `ReceiveBlock`, the other send (line 142). Since the only reader is the same thread, either is a
deadlock (`Blocked`; `TrackerBurst.cfg` shows one). Nothing bounds what conntrack writes between two reads, and the model does not either.
`Receive` takes one message per round. A block message is bytes, so `"block" in line` raises. The
content of a line and the record `parse_line` makes of it are abstracted to the line's number; a line
`parse_line` cannot parse, a partial line at the end of a read, and socket errors are left out.

### GenerateSFA, GlobalSuppression, Suppression

A guard is the set of letters it holds on; a letter is the kind of an event and the locations whose equation
`META_rho = name` it makes true. Satisfiability, equivalence of guards and the substitution of locations become
membership and equality of sets. Several locations may be true at once: nothing calls `registerLocation`, so the
solver does not know that names denote different nodes.

| operator | code |
|---|---|
| `SameExits`, `Equivalent`, `Suppressible`, `NegatedLocation` | `calculateSupressionGlobal` |
| `Holding`, `Specified` | `specifyLocation`: the other locations are true in the opposite automaton, false in the other |
| `LocalPresent`, `Silent`, `LocalMoves` | `GenerateLocalSFA`: an epsilon move beside a guard that may hold elsewhere |
| `LocalSuppressible` | `setSupressionLocal`, whose parameter `opposite` is not used |
| `Closure`, `LocalStart`, `LocalTarget`, `LocalFlag` | `determinize` of the automata library, which is a git submodule and not here: a state is a set of states closed under epsilon, a flag the conjunction of those it stands for |

`Suppression` has the state of every local automaton at every node, `currentStateMap`. `Suppressed` is
`processPacket`: the conjunction over all automata, and the negated-location expression as it is. `GlobalSuppression`
runs one instance of the global automaton per binding of locations to nodes (the roots of the constraint tree),
once over every event (`full`) and once over the forwarded ones (`seen`). These are the instances that a global verifier
should keep, not the list of roots with its splits and merges, which is the subject of `DSFA`. Left out: variables (so `simplifyNegFilter`
changes nothing), more than one key, and loss or delay between the verifiers.

The local automata are not right for every invariant. `SoundlyCompiled` says when they are, as conditions on the moves
that the compiler writes: one location; moves that an event of a third node may take are epsilon moves of the opposite automaton
(`ThirdNodesAreSilent`, which holds of any automaton with two nodes); and the flag of an opposite move, which
`setSupressionLocal` computes for an event at the location, is right elsewhere too (`OppositeFlagsAreRight`). Opening, `a @ ANY ((a or b)
@ ANY | c @ X)* c @ X`, meets them; Handover fails the second, and Relay the third.

### LocalVerifier, Pipeline, KeyedMonitors

A packet is its kind: what filters, group-by fields and guards of any invariant tell about it. `Handle` is one
iteration of the loop of `main_process`, so that whatever the producer does may come between two invariants, and an
exception may stop the node there. `invList` is any order of the invariants: they come out of an unordered map.

| action | code |
|---|---|
| `NextPacket`, `Handle`, `Die` | the input loop; one invariant; an exception, of a guard, of `produce` with a full queue or of the remainder by zero |
| `StartFlush`, `EndInput`, `EndFlush`, `FlushTimesOut` | the flush of the socket loop and the last one, which wait for the buffer to empty or throw |
| `Deliver` | librdkafka (external): the records of a topic in order, those of different topics in any order |
| `Consume`, `Fail` | a processor of a channel on its next record; no move matches |
| `Rerun` | the job is submitted again: from the earliest record, without state, overwriting its output |

The C++ trees: the list of roots is passed by value all the way down, so no split and no merge outlives a packet, and
`EqExpr` looks a variable up by its value, which throws. An automaton with variables is therefore one state, and its
guards throw where they compare the variable (`reads`); a tree of one root is what `Fresh` and `Advanced` describe.

The channel of a key is `std::hash` of the text of its fields modulo `FilesPerInvariant`; its key in the job is a tuple
of 32-bit hashes, `FieldHash`. `MCPipeline` has two keys with one hash on one channel (31 * 1 + 31 = 31 * 2 + 0, as the
strings 10.10.15.21 and 10.10.95.19 have), and `KeyedSpec` is about the keys that are alone in theirs.

The processors are `GlobalSFAProcessor` with `MAX_RTT = 0`, whose queue never keeps a packet between calls
(`TreeNeverEmpty` rests on that), and automata without variables. Two ghosts, `ideal` and `owed`, are the automata of a
node that handles packets whole, and what it then forwards. The refinement: a monitor has consumed, of each node, the
first records of what that node owes for the key. `Keep(s, S)`, the members of `s` that are in `S`, is a recursive function
on the positions of `s`, so that the proofs can unfold it.

### JavaLocal

`processElement` of `LocalSFAProcessor`, in the steps of `GlobalSFAProcessor`: `Traverse` takes the head of the queue
through the automaton with a variable, `Dedupe` and `Purge` are the loops of `merge`, and `Judge` takes it through the
other one, collects and polls. The `assert` that no list is empty (line 152) is off, since nothing starts Java with `-ea`, so the model
goes on where it fails (`RootsNotEmpty`, which `JavaLocalEmpty` violates). Five ghosts say
what one instance of the first automaton per value would make of the packets: their states (`instances`), whether one of
them does not suppress the packet at work (`wanted`), and the packets that they or the other automaton let through (`due`).
They are followed until `merge` has done what no instance does: left an empty list (`emptied`), or taken away the only root
in its state of a value, its own or the unconstrained one, while others go on (`astray`, from `Strays`).

### GuardBuilder

The recursion of `buildBoolExpr` is seen from the nodes it makes, children first: `stack` holds the results whose parent
is missing, `lets` the bindings of the lets being built, old ones for their values and new ones for their body. Java
and C++ build alike; the lines are of the C++ one. `not` sets a flag on the node it is given, and false is a negated
true. A comparison is the set of packets it holds on, so `NodeValue` is the `evaluate` of a node given its children's, and
`Values` that of all nodes of a heap. `meanings` is what the text says.

## Runs

| run | instance | shows |
|---|---|---|
| `SingleReordered` | 4 packets, 4 times, MaxRTT = Lateness = 2, an automaton with a gap | with a sufficient delay: order, exact hold-back, refinement, and every packet whose delay is over is processed unless the job fails |
| `TreeBlockIp` | 4 packets, MaxRTT = 0 as shipped, the shipped `block_ip` automaton, one value | the root list refines one instance per value, every packet processed, no packet meets an empty list, the unconstrained root is never behind another |
| `TreeSplitTwice` | 4 packets of Lease | finding: one value, two roots |
| `FramingShortReads` | 4 records of 3 bytes, buffer 8, reads of any length and failing ones | the records until a byte is skipped; pieces of the stream, none twice; each cut costs less than a packet; each record parsed or paid for |
| `FramingSkips` | the same, without failing reads | finding: a packet made of two records |
| `TrackerRuns` | 5 lines, 2 block messages, pipe 3 | nothing lost or reordered inside, clean exit only when all is sent, each line sent or the tracker stops or waits for itself |
| `SuppressionTwoNodes` | 2 nodes, 4 kinds, one location, the Relay automaton; `SoundlyCompiled` evaluated for Opening and 3 nodes | only what is suppressible is suppressed, the alerts are those of all events, the automaton of the location follows its instances |
| `SuppressionThirdNode` | 3 nodes, the Handover automaton | finding: an event of a third node is missed, and the node suppresses what matters |
| `Pipeline` | 2 nodes, 2 and 1 packets, 2 invariants, 2 channels, a queue of 2, 1 rerun | invariants independent, only the last records of a topic lost, one monitor per key, every record of every topic written to consumed or the job fails |
| `JavaLocal` | 5 packets, 2 values, MaxRTT = 0, Lateness 1, Lease and a counting automaton | judges its argument; misses nothing the instances would forward, until a list is left empty or a value astray |
| `JavaLocalEmpty` | the same | finding: a packet meets an empty list |
| `GuardBuilder` | 8 calls, 2 comparisons, 2 names | a guard means its text if each not is given a comparison, conjunction or disjunction of its own |

Three more configurations each violate one property and are kept for the reader, outside the list of runs:
`TreeLosesStar` (`MCTree`: one block packet of `block_ip`, and the unconstrained root is removed while another stays),
`TrackerBurst` (`FirewallTracker`: 4 lines, no block message, a pipe for 3: one read of more lines than the pipe holds) and
`TrackerHangUp` (3 lines, no block message: input that ends is not all sent).

All runs but those of `Suppression`, where events never end, set `CHECK_DEADLOCK FALSE`: a stream may end, the job
fails, a process exits.

Why the bounds are enough. Global processor: reordering shows with two packets, ties with two of one
timestamp, and a queue holding several released together with three; 4 packets take both
automata from start to final and back. Framing: with 3 and 8 every length of a carried beginning meets reads that are too short for it, complete it,
or hold packets behind it, up to the full buffer; 4 records leave records to parse after bytes were skipped and a second
read was cut. Tracker: the pipe fills at 3, and 5
lines let it drain and fill again with a client present, or block it. Suppression: the state space of an automaton is explored
without a bound. Relay has moves with and without a location, and two accepting states, each equivalent to one that is
not, so events are dropped between equivalent states too; with two nodes each of them sees the other's events
only as epsilon moves. Relay and two nodes do not meet `SoundlyCompiled`, the hypothesis of two theorems, and still pass; that
some automaton with three nodes meets it is what evaluating it for Opening shows (`OpeningIsSound`).

Pipeline: a packet of one node is forwarded for both invariants, so it dies, flushes and is delivered between them; two
packets fill the queue of 2; n1 and n2 share a key of each invariant, which makes their records meet in one log; 5 files
for 2 invariants make the division inexact; one rerun comes at every point of the consumption. JavaLocal: 5 packets let both
values split off, one of them again for an equal value, or every root come back to the start and a packet follow; with 5
a packet is first missed after merge has led a value astray, so that `NothingMissed` fails if `astray` is left out. GuardBuilder: 8 calls reach a not over a conjunction
that uses a name twice, and lets inside the values and the body of another.

Each property of a passing run has a mutant: a named operator next to the definition it
replaces (no delay, unsorted queue, alert before the move, root missed by the pass, loop that does not
advance, wrong copy offset, unregistered pipe...) under which TLC finds it violated.

## Fairness

Always weak, on `Step`, the steps of the code, never on the environment. Flink runs a handler it
has called to its end; the verifier and the tracker are processes that do nothing but their
loop. A tracker blocked on its pipe has no step enabled, so fairness does not hide that.
`EventuallyConsumed` needs it of the job alone (`Consumes`): a job that runs reads what is there.
The excuses: `EventuallyProcessed` and `EventuallyConsumed` have the failure of the job; `EventuallySent` has the stop of
the tracker and its waiting for itself (`Blocked`); `EventuallyParsed` has a copy outside a buffer and the records that
cuts paid for.

## Findings

1. `TreeSplitTwice`: constraints are compared by reference, so an equal value splits again.
2. `FramingSkips`: after a carried beginning `pos` moves a whole packet although less was copied, so the next packet is
   made of pieces of two records.
3. `SuppressionThirdNode`: a guard that holds only outside the location gets no epsilon move in the opposite automaton,
   though other nodes are outside too; a node then suppresses an event that ends another's instance, and the next event
   of the location raises a false alert.
4. `JavaLocalEmpty`: `merge` leaves an empty list, which no later call fills again (the global processor makes a fresh one),
   and the next packet of the key meets what the `assert` at line 152 rules out. With assertions off that automaton then
   suppresses every packet of the key.

Seen while modelling, and not kept as runs:

- Global verifier. With `MAX_RTT = 0`, as shipped, a packet that comes late is processed late,
  since the queue holds packets back only within one call (`verification/README.md` line 29 says it orders them). `merge`
  removes the unconstrained root while others remain, although the comment at `DSFA.java` lines 215-217 keeps "*" at index
  0 and splits everything off it (`TreeLosesStar.cfg`; `TreeBlockIp` shows that `block_ip` loses nothing by it for a key with one value).
- Tracker. A read of more lines than its pipe holds never ends (`TrackerBurst.cfg`; `EventuallySent` excuses a tracker that waits for
  itself). A hang-up that comes together with another event ends it through "Unknown context", and the lines in the pipe are lost
  (`TrackerHangUp.cfg`; `CleanExitLosesNothing` is about the other exit). A message of its server socket is bytes, so
  `"block" in line` raises a TypeError and ends the tracker (`EventuallySent` excuses that stop).
- Suppression. `setSupressionLocal` does not use its parameter `opposite`, so the flags of an opposite automaton are
  computed as if it ran at the location: for `(. @ ANY)* a @ NOT X` an `a` outside X, which completes the violation, is
  suppressed, against GenerateSFA.java:270. The expression for events of no location is the disjunction of the guards that are
  not suppressible, and `processPacket` conjoins it as it is: `DEBUG_location`, the documented example of suppression
  (config/readme.md:10), suppresses nothing.
- Java local processor. An automaton that compares its variable at
  the first event loses the unconstrained root that later values split from. Before any list is empty, `merge` drops a root
  because another value is in its state: with Lease, after an open, a use of v and one of w, the root of w is gone, and after
  a second use of w, which splits off the unconstrained state again, an open is suppressed that the instance of w, in its
  final state, would forward.
- Java local modes write to a topic named after the invariant (Verifier.java:286 and 309), and GLOBAL_KAFKA reads
  `<inv>.sm<channel>`: a Java local verifier does not feed a global one.
- Guards: `(not (not e))` is `(not e)`, `(not false)` is false, and `not` of a let name negates what the name is bound to
  for every use. The shipped guards negate only comparisons and conjunctions of their own.
- C++ `<`, `<=`, `>`, `>=` without constraints write through a null pointer (LtExpr.cpp:17-18); `(* (- k) y)` is `-y`
  (ExprBuilder.cpp:144-146); `.sm.10` is cut as if it had five characters (main.cpp:108).
- Java arrays: `fromBytes` skips zeros from `start` and then reads as if it were 0 (ParseIntArray.java:24-30), `compare` takes
  words as signed (:199), and conditional parsing compares arrays by reference (GenericParser.java:151).
- Deployment: `C++Verifier/README.md` documents `--channel_per_invariant`, which `main.cpp` does not have, and
  `numberOfChannels` is divided by the number of invariants there while `channel_per_invariant` of the global verifier
  is not: the two must be chosen to agree. The shipped `out/*.sm.g` come without local automata, so the C++ verifier forwards
  all that their filters let through.

## Proofs

The provers take every value of the constants, restricted only by the named ASSUMEs of the modules
(types of constants, `Star` and `NoPacket` are no packets) and by the hypothesis a theorem states.

`GlobalProofs`
- `Typing`. `TypeOK` is not inductive: removing a root needs the loop variable inside the list, so `TypeInv`
  adds `IndexInRange` (`index` at most the length during the merge; `next` and `packet` packets while they are
  used). `TargetType`, `SplitType`, `AdvanceType` and `RemoveType` type the list operators.
- `HeldBack`. `ReleasedOnly`, what was taken was releasable and stays so since the greatest time only
  grows, is one half; the other half comes from the guard of `Return`, and is kept while idle.
- `InTimestampOrder`, for `Lateness <= MaxRTT`. `OrderInv` adds `NothingOvertaken`, no pending packet is older than a
  processed one, without which order is not inductive; a new packet keeps it because
  it is at most `Lateness` behind the greatest time, and all that was taken is at least `MaxRTT` behind.
- `SingleImplementsMonitor`, same hypothesis and no variables: the refinement. It needs `OrderInv` for the monitor's
  guard, and that pending and processed packets have different ids, each handed over already.
- `StarFirst`. Inductive with the type invariant; `StarAfterSplit`, `StarAfterAdvance` and
  `StarAfterRemove`, in `DSFAProofs`, are the list lemmas.
- `TreeNeverEmpty`, for `MaxRTT = 0`. `OneAtATime`: every call drains all, so the queue holds the packet of the call and
  no other, and the tree made at the start of the call is still there when it is taken.
- `TreeImplementsMonitor`, the refinement with a variable: for every automaton that stays in its start state until a packet
  names the value (`BindsFirst`) of a key that sees one value (`OneValue`), with `MaxRTT = 0` and `Lateness = 0`. `out/block_ip.sm.g`
  is one: its variable is compared with `srcIp`, its group-by field, and TLC evaluates `BlockIpAssumption`, that `BindsFirst`
  holds of it. `ShapeInv` gives the lists there are, and where merge stands in each: the unconstrained root alone, the root of
  the value alone (merge has dropped the other one, which was back in the start state), both, or none. `FollowedBy` reads the
  state of the value off such a list; a pass moves it as the monitor does (`Pass`), even where no root is made because no guard
  read the variable (`UnreadMoves`), and no step of merge changes it (`DedupeShort`, `PurgeShort`). None of the four hypotheses
  can go: TLC refutes `MonitorSpec` on `block_ip` with two values, with a MAX_RTT of 1 (a batch goes on with an emptied list),
  or with a late packet, and on an automaton that leaves the start state unbound (an equal value splits off the
  unconstrained state again, and its second root raises an alert of its own).

`FramingProofs`, for every packet length and buffer size, and however reads cut the stream or fail: `FramingTyping`,
`UncutIsTheSame`, `CutsAreCheap` and `PacketsAreWhole`, from `FramingInv`, which says, until a copy leaves its buffer:
- `Position`: where the loop stands; a beginning is carried only into the first packet of a read (`pos = 0`).
- `Carried`: what is carried is the piece of the stream just before the bytes in hand, unless two reads tore it.
- `Behind`: what is parsed lies before the next byte, and is in order as long as nothing was skipped. This is what makes
  `SameUntilSkipped` inductive, and `WholePieces` a property of one step.
- `Paid`: every byte skipped or carried was left over by a read. `Multiples` and `AllParsed` are the arithmetic.

`TrackerProofs`: `TrackerTyping`, `LinesKept` and `ExitIsClean`, without hypothesis. That the pipe never fills cannot be one of them.
Poll reports the pipe at most once per round, so a message is there when it is received (`PolledType`), hence
`TrackerTyping`: the head of the pipe is a message.
`LinesKept` and `ExitIsClean` rest on `HangUpInv` too: only what `main` is sending waits outside
the pipe, and if a hang-up is all that poll reported, the pipe is empty and stays so until it is handled.
`NothingLostInside` is about the lines between `sent` and `written` wherever they are (pipe, then batch); it is kept because
taking the head of a way in order leaves it in order (`TakeFirst`), and what is added comes after it (`AddBlock`, `AddLines`).

`SuppressionProofs`
- `SuppressionTyping`, part of `TrackingInv`.
- `LocationTracks`. `TrackingInv` adds that each set of states a node holds is closed under epsilon: an event of
  the node itself moves the automaton as the instance moves (`OwnMove`), one of another node is an epsilon move (`OthersMove`).
- `LocationDrops`, from it: the flag of the move the instance takes was compared with that very move.
- `DropsKeepAlerts`, the soundness of the flags of `calculateSupressionGlobal`, assuming only that
  the automaton is deterministic and total. What is dropped leaves the instance that missed it elsewhere, so the
  invariant `SuppressionInv` says that no event tells the two states apart (`SameTargets`). Being `Equivalent`, which the
  code computes, would not do: it is not kept when a second event is dropped. `SuppressibleIsHarmless` is the lemma about one move.
- `CompiledDropsImplement`: when the automata are `SoundlyCompiled`, the nodes implement `GlobalSuppression`; and
  `CompiledDropsKeepAlerts`: they raise the alerts of all events and no others. The hypothesis is about the moves the compiler writes and
  the number of nodes, and says nothing of what is suppressed. `SoundInv` adds to `TrackingInv` that the opposite automaton
  follows the instances of the other nodes (`OppositeTracks`): with one location a node plays it or none (`OneRole`), its own events
  move the automaton as the instance (`OppositeOwnMove`), and those of the location and of third nodes are epsilon moves
  (`OppositeOthersMove`, where `ThirdNodesAreSilent` is needed). So the move the instance takes is among those whose flags are tested;
  `OppositeFlagsAreRight` says its flag means what it should (`SoundDrops`), as `LocationDrops` shows of the location's.
  Handover with three nodes, in `SuppressionThirdNode`, meets neither of the two conditions.

`PipelineProofs`
- `PipelineTyping`. `TypeOK` is inductive: a record waits for a channel its invariant has because a remainder is less than
  its divisor (`ChannelType`) and `Handle` forwards only if there is a channel; taking a record out of the middle of a
  buffer keeps the others (`WithoutOne`).
- `Independence`. In the induction the invariant says, of every invariant in turn, either what it did to the packet or
  what it will do; `ProcessOwn` is the reason: what an invariant makes of a packet depends on its own automata only.
- `LossesAreLast`. That a topic has the first records of what is owed is not inductive: it does not say where the others are.
  `Account` does: what a node owes a topic is what it sent, then what waits in its buffer, then the packet at work if its
  turn has not come. It is stated for every set of kinds of a topic, so that it also speaks of one key. `RightTopic` keeps the
  topics apart, `Quiet` says that a process that ended has an empty buffer and no packet, and `EveryTurn` that each invariant gets its
  turn, since an injection of a finite set into one of its size is onto.
- `OneMonitorPerKey`: the pipeline implements `KeyedMonitors`, one step of the monitors or a stutter for each action
  (`KeyedForward`, `KeyedConsume`, `KeyedRerun`, `KeyedDeliver`, `KeyedStutter`). From `Account`: the next record of a node in a log
  is the next the monitor has not consumed of what that node owes for the key (`NextRecordIs`, `KeepNth`); from `MonitorAlone`: a
  processor of a channel finds its state by hash, so a step of another key leaves the monitor alone (`ConsumeOthers`).

`JavaLocalProofs`
- `LocalTyping`, with the list lemmas of `DSFAProofs`, which `GlobalProofs` shares: types, the unconstrained root, and what a
  list looks like after a split, a pass and a removal (`SplitShape`, `AdvanceShape`, `RemoveShape`).
- `LocalJudgesItsArgument`, for `MaxRTT = 0`: the queue holds the packet of the call and no other (`OnlyStep`).
- `LocalNothingMissed`, for `MaxRTT = 0`, any number of values and any two automata. `Covers`: the unconstrained root comes first,
  in the state of its instance, and every other instance is in the state of a root of its value or of the unconstrained one; a
  value may have more roots than one. After the split of a pass each instance makes the move of some root (`Represented`),
  so the list covers the moved instances (`AdvanceCovers`) and forwards if one of them does (`AdvanceJudges`); a removal keeps
  it covering unless it empties the list or leads a value astray (`RemoveCovers`). `Numbered` says that a packet about to be
  judged is no constraint yet: its root, if one is needed, is made by this pass.

`GuardBuilderProofs`: `GuardTyping` and `GuardsFaithful`, for any number of nodes, names and lets, from `IInv`.
- `Kept`: a result or a binding is a node, and a node's children were made before it (`WellMade`), so values are defined by
  recursion on positions (`ValuesExist`, `ValueOf`).
- `Scoped`: the bindings a let's values are built with are bindings of a let further out. Without it
  faithfulness is not inductive: `FaithfulWithOwnNots` is about the new bindings, and a name in a value of a let takes an old one.
- `Faithful`: what a node means is what its text says. A new node changes no other (`AppendValues`, from `ValuesAgree`: two heaps that
  differ outside a set closed under children agree on the set). `not` changes a node in place; when it is used once it is
  nobody's child and has no name (`UsedOnce`), so no other value changes (`NegatedValues`).

Induction. The induction theorems of the library take a predicate as a parameter. Where a proof needs one, the
set of positions that fail has a least member (`LeastPosition`), hence `EveryNumber` and `EverySequence`, with sets in place of
predicates. That recursive functions exist and unfold is proved in this way: `KeepsExists` and `KeepIsAlong`, `ValuesExist` and
`ValueOf`. No module here has a RECURSIVE operator, in whose reach the prover loses its SMT backend.

Only model-checked:
- `EventuallyParsed`, `EventuallyProcessed`, `EventuallySent`, `EventuallyConsumed`: liveness under fairness, and ENABLED, are out of the prover's reach.

## Not modelled

- Trees of more than one level: every shipped automaton has at most one variable.
- Arithmetic, comparisons and packet parsing in `V/utils`, `V/parser`, `expressions/` and `PacketParser.cpp`: functions without
  state. What they make of a packet is an input of the models (`Kinds`, `KeyOf`, `Holds`); where they go wrong is listed above.
- The compiler's visitor and files: it drives an automata library that is a git submodule, so what it computes is not
  determined by the code here. `SHUFFLE` is a sequential recursion.
- The Flink modes that read files, folders or sockets: the same processors behind another source. State serializers: the
  job configures neither a state backend nor checkpoints. `PacketStringSource` and `PacketSocketSource` are not used by `Verifier`.
- Retries of the Kafka producer. `main.cpp:89-92` sets the broker list and nothing else, so librdkafka's defaults apply: it retries,
  without idempotence, and a retry may repeat or reorder records. `Deliver` delivers each record once and in order.
- Setup, traffic, measurement and plotting scripts, and the examples of `S/ExprExamples.java`: no logic of the verifier.

How much of the code the map covers: most lines of the C and C++ files are the ANTLR-generated SMT-LIB parser
and lexer and the vendored rapidjson, which are not modelled on principle; the code written for Aragog in C++ is some 2700 lines. Much
of the system's logic is in Java and Python, which is mapped as well.

## Plan

1. *Done.* `DSFA`, `OrderedMonitor`, `GlobalSFAProcessor`, `SocketFraming`, `FirewallTracker`, and the theorems above.
2. *Done.* `GenerateSFA`, `GlobalSuppression`, `Suppression`, and their theorems.
3. *Done.* `LocalVerifier`, `Pipeline`, `KeyedMonitors`, `JavaLocal`, `GuardBuilder`, and the proofs above.
4. `ConstraintTree`: any depth, shown to agree with `DSFA` at depth one, once an automaton with two variables exists.
5. *Done.* Proofs of `KeyedMonitors`, `OnlyTheLastAreLost`, the tracker's lines and exit, the guards, and the alerts of `Suppression`.
6. *Done.* Conditions under which the root lists follow one instance per value: `LocalNothingMissed`, `TreeImplementsMonitor`.
7. *Done.* Conditions under which an opposite automaton follows its instances, so that what it drops may be dropped: `SoundlyCompiled`.
8. Deliveries that repeat or reorder records in `Pipeline`, and which alerts then remain right.
