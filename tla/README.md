# mini_middleware in TLA+

A verification development for mini_middleware, a C++17 publish/subscribe and
RPC middleware in the style of DDS: TLA+ modules translated from the sources,
TLC configurations that check them on small instances, and TLAPS proofs of the
properties that matter most for every instance.  Paths below are relative to
the repository's root, which is `src/` in `PROJECT.json`.

Run everything from this directory: `tlc -config X.cfg M` for a run (the table
below names module and configuration), `tlapm M.tla` for the proofs.

## 1. The system

A process creates a `Node` (core/src/node.cpp).  The Node has a `LocalBus`, a
`DiscoveryAgent`, a `DataPlane` and the entities the application made:
Publishers, Subscribers, Services and Clients.

| Part | State | Operations and threads | Hard behaviour |
|---|---|---|---|
| Discovery agent (discovery/) | local endpoints, dirty flag, remote participants with time of last sign, active matches | `add_endpoint` on application threads; one thread receives announcements, rematches, announces, reaps | lost, late, reordered datagrams; an endpoint added between two steps of the thread; timeouts of participants that are alive; both ends decide on their own |
| Endpoint matcher (discovery/, common/qos.h) | none | topic, type and QoS rules; key of a match | several endpoints behind one key |
| Data plane (core/data_plane.cpp) | sinks, connections, reference counts, SHM channels | `handle_match`, `handle_unmatch` on the discovery thread; `stop` | long sequences of matches and unmatches; creation that fails; publishing threads that hold what is taken down |
| SHM segment (transport/shm_segment.cpp) | POSIX names, mapped memory | `create`, `open`, destructor | a reader between `shm_open` and the end of the initialisation; names used again |
| SHM ring (transport/shm_ring.h) | write_seq, slots, cursors | `write`, `read` in different processes | no lock at all: overwriting during a copy |
| SHM reader manager (core/shm_reader.cpp) | readers by segment name | poller thread | opens at any time relative to the creator |
| TCP client and server (transport/) | connection state, epoll registration, buffers | `start`, `send`, `stop` on other threads, an event loop each | short reads and writes, registration from two threads, stop during everything |
| Frame codec (transport/frame_codec.cpp) | none | `encode`, `decode` | frames cut anywhere; length limits |
| Local bus (core/local_bus.cpp) | weak pointers to sinks of a topic | `subscribe`, `publish`, `deliver_inbound` from any thread | objects used after the lock was released; the last reference dropped on any thread |
| Subscriber, blocking queue (core/subscriber.h, common/blocking_queue.h) | queue, worker thread | `push`, `pop`, `close`, destructor | full queue; close during a wait; join |
| Client, Service (core/client.h, core/service.h) | pending calls, reply publishers | `call`, reply and request callbacks | timeout against late reply; several services; first reply before its route exists; order of destruction |
| Node (core/node.cpp, core/rpc_topics.h) | the objects above, their threads and who points to whom | constructor, `create_...`, destructor | raw pointers between members; the last reference dropped by a delivering thread; a start that fails |
| Benchmark (bench/) | options, published, collector, deadline | main thread, subscriber's worker | flow control against loss; sizes and percentiles at their limits |
| Command line tool (cli/) | command, state shared with the callback | main thread, subscriber's worker | signs and limits of numbers; messages during the report |
| Configuration (config/) | settings, current section | reads a file line by line | integer limits, order of lines |

Left out altogether, because they are pure I/O, generated or without behaviour
of their own: logger, host id, protobuf wire formats, examples (section 6).

How the parts meet: discovery reports a match to the data plane of each end.
The publisher's end opens a TCP connection or creates an SHM segment and adds
a sink to its bus; the subscriber's end, on one host, adds a reader.  A publish
collects the bus's sinks under the lock and writes to them outside it.  What
arrives, over TCP or from a ring, is delivered to the local Subscribers of the
topic, whose workers call back into the application.  RPC is two topics: one
for requests, and one per client for replies.

## 2. Modules

| Module | Models | State and actions |
|---|---|---|
| `ShmRing` | transport/shm_ring.h | one action per atomic access, length store or word copy: `Claim`, `Mark`, `StoreLen`, `StoreWord`, `Publish` are `write`; `ReadHead`, `FirstCheck`, `LoadLen`, `CopyWord`, `SecondCheck` are `read`; `Attach` makes a cursor |
| `LossyBroadcast` | what the ring promises | an abstract log: writers append, a reader receives the next message or skips, counting each skip |
| `ShmRingProofs` | proofs about `ShmRing` | |
| `Matching` | endpoint_matcher.cpp, qos.h, `match_key`, `use_shm`, `pubsub_pair` | operators only, shared by the next two |
| `Discovery` | discovery_agent.cpp, udp_multicast.cpp | `add_endpoint`, `start`, the thread's `handle_announcement`, `RecvTimeout`, `ConsumeDirty`, `rematch_all`, `announce`, `reap_dead`; `Expire` is time passing, `Halt` the end of a process; the network is a set of datagrams per receiver |
| `DiscoveryProofs` | proofs about `Discovery` | |
| `ShmSegment` | shm_segment.cpp, `seg_name` | POSIX names and segments with a ready mark; operators and actions used by `DataPlane` |
| `DataPlane` | data_plane.cpp, shm_reader.cpp, the remote sinks of local_bus.cpp | a group of processes; one action per branch of `handle_match` and `handle_unmatch`, `BeginCreate`/`EndCreate` because readers look at the segment in between; `Collect`, `Enqueue`, `Release` are a publish; `PollOpen`, `PollRead` the poller; `stop`, `StopReaders` |
| `DataPlaneProofs` | proofs about `DataPlane`: lifetimes of sinks and segments; tables against matches | |
| `FrameCodec` | frame_codec.cpp | `encode`, `decode` on sequences of digits of a small base |
| `TcpTransport` | tcp_client_transport.cpp, tcp_server_transport.cpp | client with event loop, sending threads and a stopping thread; the kernel as a pipe of bounded size and a link; the server's loop (`SrvWait`, `handle_accept`, `srv_handle_read`, `SrvCheck`) and its stop (`SrvStopBegin`, `SrvStopListen`, `SrvStopEnd`) |
| `TcpTransportProofs` | proofs about `TcpTransport` and `FrameCodec` | |
| `LocalBus` | local_bus.cpp, subscriber.h, blocking_queue.h, destruction of entities in node.cpp | Subscribers with lives, queues, workers; `Collect`, `Enqueue`, `Release` of each publishing, calling back or network thread; `Disown`, `Join` |
| `LocalBusProofs` | proofs about `LocalBus` | |
| `Rpc` | client.h, service.h | `Register`, `PublishRequest`, `PublishFails`, `Wake` are `call`; `FindPending`, `Complete` the reply callback; `handle_request`, `PublishReply`, `Match` a service; `DestroyClient`, `DestroyService` member by member |
| `RpcProofs` | proofs about `Rpc` | |
| `Node` | node.h, node.cpp, rpc_topics.h; start and stop of DataPlane, DiscoveryAgent and the servers; subscriber.h, service.h and client.h as far as lifetimes go | `StartPlane`, `MakeAgent`, `SetIdentity`, `StartAgent` are the constructor; `Create`, `Add` the `create_...` functions; `TakeDirty`, `rematch_all`, `Report`, `Handled`, `reap_dead`, `Withdraw` the discovery thread in and out of the data plane; `Collect`, `Enqueue`, `Release`, `Joined` the server's loop and the poller; `Take`, `CallbackReturns`, `Reply` a worker; `DestroyBegins` to `DestroyEnds` the destructor |
| `NodeProofs` | proofs about `Node` | |
| `Tokens` | the arguments as args.cpp and bench_args.cpp see them | operators only |
| `BenchArgs` | bench_args.cpp, the sizes of message_codec.cpp, stats.cpp | operators only |
| `Bench` | bench/src/main.cpp, the collector of message_codec.cpp | `ParseArgs`, `Publish`, `Write`, `FlowControl`, `Drain`, `Report` of main; `Read` of the poller; `Callback` of the worker; route and deadline as environment |
| `BenchProofs` | proofs about `Bench` and `BenchArgs` | |
| `Config` | config.cpp | `ReadLine` is one turn of the loop of `parse_config_text`, `Open`, `OpenFails` and `EndOfText` the rest; steps of `Cli` |
| `Cli` | cli/src | `ParseArgs`, `CheckCommand`, `LoadFile`, `Loaded`, `Construct` are main; `Subscribe`, `Wait`, `Wake`, `Report`, `Return` a topic command; `Take`, `Callback` the worker |
| `MC*` | | values of the constants for TLC |

Composition.  `DataPlane` is composed of `Matching`, `ShmSegment` and its own
tables; it takes from `Discovery` what is established there: matches are
reported and withdrawn in turn, one per key, at each end on its own
(`MatchesSound`, `MatchesStick`).  `Bench` has its own picture of the ring, by
message: a position is claimed, then written; a reader that comes in between
gives it up, as in `ShmRing`, and one that is more than a ring behind is moved
forward.  `TcpTransport` uses `FrameCodec`, `Cli` takes the steps of
`Config`.  `Node` puts discovery, data plane, server, poller, Subscribers and
Services side by side, each reduced to its life, its thread and its pointers to
the others, and uses `Matching` for what discovery reports; what happens inside
each part is in the part's own module.

Abstractions worth knowing:

* Ring words carry the position of the message they belong to, which is all by
  which a torn read can be told.  Accesses interleave as on x86-64, the
  documented target: stores are seen in program order.
* Time is a nondeterministic step (`Expire`, a timed out `Wake`, `DeadlinePasses`)
  that may happen whenever the code could see it.
* Characters, lines and payloads are members of small sets; strings that are
  only compared are model values.  `seg_name` and the RPC topic names are
  modelled on sequences of characters, because their replacement of characters
  matters; bytes of frames are digits, because lengths matter; an argument is a
  word, or blanks, a sign, digits and a rest, which is what `strtol` tells apart.
* An action covers what a thread does between two points where another thread
  can see or change something it uses: a critical section is one action, what
  follows outside the lock is another.
* The undefined behaviour of a callback into destroyed members ends the
  behaviour in `Rpc` (`dangling`); in `Node` the process may die of it
  (`crashed`) or go on.  SIGPIPE ends the process in `TcpTransport` (`killed`).

## 3. Runs

Each run finishes within two minutes on two free cores, and within about
three when two share them.  Deadlock is not checked: in
every module the environment may rightly stop (nobody has to publish, match or
call), and bounds end the counters.  That threads do not wait for ever is
stated by liveness properties instead.

| Run | Instance | Properties | What it shows |
|---|---|---|---|
| `ShmRing` | 1 writer, 1 reader, 2 slots of 2 words, messages of 1 or 2 words and one too long, 5 writes; 139,682 states | `NoTornRead`, `RingInv`, `DropJustified`, `ImplementsBroadcast`, `CatchesUp` | reads are never torn; a message is given up only for a reason, and counted; a polling reader catches up |
| `Discovery` | 2 participants, an endpoint each, 2 datagrams per receive buffer; 370,102 states | `NoMissedMatch`, `MatchesSound`, `MatchesStick` | the dirty flag misses nothing; matches are real under loss and reordering, and only go with their participant |
| `DiscoveryLive` | the same with 1 datagram per buffer; 44,181 states | `Discovered`, `HaltDetected` | participants that stay up find each other; a silent one is unmatched |
| `DataPlane` | 1 process, 2 topics, 2 remote participants, SHM and TCP matches; 203,537 states | `TcpChannels`, `ShmChannels` | counts, connections, sinks and the bus agree with the active matches |
| `DataPlaneJoin` | both ends of an SHM match, a second topic with the same segment name, creations that fail; 122,528 states | `ShmReaders`, `NoLeak`, `ReaderJoins` | readers agree with matches; nothing in use is freed, and no name is left in /dev/shm; a fresh reader joins the writer's segment |
| `TcpTransport` | 2 sending threads, 2 payloads out of empty, longest and too long, frames of 2-digit headers, a pipe of 3 bytes; both ends may stop; 125,797 states | `Conserved`, `QuietAfterStop`, `StopReturns`, `Arrives` | no byte is lost, doubled or reordered; the client's closed descriptors are not used, and no message is delivered after the server's `stop`; `stop` returns |
| `TcpTransportStall` | 1 sending thread, 1 payload | `ReliableDelivers` (violated) | section 5 |
| `LocalBus` | 2 Subscribers (KEEP_LAST 1 and KEEP_ALL), one with a publishing callback, a publishing and a network thread, 2 messages; 73,016 states | `KeepLast`, `PublisherOrder`, `NoUseAfterDestroy`, `DestructorReturns`, `Handled` | queues lose the oldest and count it; no use of destroyed Subscribers; queued messages are handled |
| `Rpc` | 2 calling threads, one of them with a long timeout, 2 remote services, one of them with loss, 2 calls; 285,765 states | `OwnReply`, `PendingExact`, `Answered` | replies find their call, however late or doubled; `pending_` does not leak; a call whose reply has a way back is completed |
| `Bench` | 53 command lines around every limit; up to 5 messages, window 2, ring of 3 slots, a message of another run, latencies 0 and 1; 190,490 states | `PayloadFits`, `NoOverrun`, `ReportFinal`, `Ends`, `KeepsGoing` | accepted options give messages that fit; the publisher does not overrun the ring; main publishes everything as long as no more than a window is lost, and ends, early if nothing is lost; reports and percentiles are true |
| `Cli` | every command with up to two options out of 40 and a type, complete or cut short; files of up to 4 lines out of 18; 4 messages; 204,992 states | `ReadsAsReference`, `ArgsAsUsage`, `PrintsFirst`, `Returns` | arguments are read as the usage has them, numbers with a minus sign behind blanks left out (section 5); files as a reference reads the whole text; echo and hz report the first messages only, and are woken |
| `Node` | 4 programs (Subscriber and Publisher, Service, a Service the application keeps, Client) with the peer that matches each, queues of depth 1; 55,510 states | `PlaneReady`, `NoStrayCallback`, `DestructorReturns`, `RepliesRouted` | callbacks find the data plane ready and alive; the destructor returns and leaves no callback behind; reply topics registered by a worker are matched |

For every property `PROJECT.json` names a mutant: a plausible mistake in one
action (a dropped check, a missing reset, an off-by-one) under which TLC finds
the property violated.  The operators called `...Late`, `...Nothing`,
`...Always` and so on before a definition are these mutants.

### Bounds

`MaxWrites = 5` on two slots lets the writer lap a reader twice, so that every
branch of `read` is taken, the fast-forward included.  Two datagrams per buffer
are what reordering needs.  Two remote participants and three matches on one
topic let counts rise to two and fall in every order; `SinkIds`, `Conns` and
`Segments` are enough for one object more than the tables hold, the one a
publish still keeps.  A pipe of three bytes is shorter than a frame of four and
longer than a header, so writes and reads cut frames everywhere.  Two messages
are enough to fill a queue of depth one.  Two calls with two services give late
replies, duplicates, and concurrent entries in `pending_`.  In `Bench` the
window is smaller than the ring by one, as 16 is smaller than 32 by more; the
sizes of slots and frames are the code's own; two latencies are enough to tell
an order statistic from its neighbours, and `ULongMax` is a small stand-in for the width of `size_t` that lies above them.  In `Cli` both limits
of the configuration are 65535, because TLC's integers end at 2^31: the check
is the same code for both widths; `IntMax` and `LongMax` are those of 8 and 16
bits, between which `parse_non_negative_int` behaves as between 32 and 64.
Four messages are one more than the counts that are reached.  In `Node` one entity with a
worker next to the server's loop and the poller is enough for each of them to
drop the last reference; the four programs are explored one by one.

### Fairness

Safety properties need none.  The fair specifications assume that threads the code
keeps running do run: the poller and the event loops turn, workers pop,
callbacks and handlers return, a critical section or a publish that began
ends.  Nobody is obliged to publish, call, match, stop or attach, and no time
is obliged to pass, except in these places.  `Discovery` assumes that announce
intervals elapse, that of the datagrams sent again and again some arrive (strong
fairness, without which nothing can be said of UDP), and that the last sign of a
halted participant grows old.  `Rpc` assumes that discovery matches what is
advertised, which is `Discovered`, and that a wait ends, be it by its timeout.
`Cli` assumes that messages keep coming up to its bound and that a file ends;
`Node` that handlers and callbacks of the application return.  `Bench` assumes
main, worker and poller to run, and nothing of a TCP connection, whose last
payload may wait (`TcpTransportStall`): what its properties say of a run before
the deadline is said of the ring.

## 4. Proofs

| Theorem | Statement | Assumptions |
|---|---|---|
| `TypeCorrect` (`ShmRingProofs`) | `Spec => []TypeOK` | at least two slots; any writers, readers, slots, words, lengths |
| `NoTornReadHolds` (`ShmRingProofs`) | `Spec => []NoTornRead` | the same, and `SingleWriter` |
| `RingInvHolds`, `DropJustifiedHolds` (`ShmRingProofs`) | `Spec => []RingInv`, `Spec => DropJustified` | the same, and `SingleWriter` |
| `RingImplementsBroadcast` (`ShmRingProofs`) | `Spec => ImplementsBroadcast` | the same, and `SingleWriter` |
| `NoMissedMatchHolds` (`DiscoveryProofs`) | `Spec => []NoMissedMatch` | any participants, endpoints and buffers |
| `MatchesSoundHolds` (`DiscoveryProofs`) | `Spec => []MatchesSound` | any participants, endpoints and buffers |
| `MatchesStickHolds` (`DiscoveryProofs`) | `Spec => MatchesStick` | any participants, endpoints and buffers |
| `NoLeakHolds` (`DataPlaneProofs`) | `Spec => []NoLeak` | any processes, matches, sinks, connections and segments; creations may fail |
| `TcpChannelsHolds`, `ShmReadersHolds` (`DataPlaneProofs`) | `Spec => []TcpChannels`, `Spec => []ShmReaders` | the same, and `PossibleAssumption`: the matches discovery may report to a process are finitely many |
| `ShmChannelsHolds` (`DataPlaneProofs`) | `Spec => []ShmChannels` | the same, and no creation fails (`~MayFail`) |
| `ConservedHolds`, `QuietAfterStopHolds` (`TcpTransportProofs`) | `Spec => []Conserved`, `Spec => QuietAfterStop` | any senders and payloads, any size of the pipe; `CodecAssumption`: a byte has two values at least, a header a byte at least, and the longest payload's length fits the header; `TcpAssumption`: payloads are sequences of bytes |
| `ReadBack` (`TcpTransportProofs`) | `read_uint32_be` gives back what `write_uint32_be` wrote | `CodecAssumption`; a length up to `MAX_PAYLOAD_SIZE` |
| `DecodeTakes` (`TcpTransportProofs`) | `decode` takes the next whole payloads off the stream, in order, and keeps the rest | the same; any payloads that are not too long, cut anywhere |
| `KeepLastHolds`, `PublisherOrderHolds`, `NoUseAfterDestroyHolds` (`LocalBusProofs`) | `Spec => []KeepLast`, `Spec => []PublisherOrder`, `Spec => []NoUseAfterDestroy` | any Subscribers, types, threads and number of messages; `BusAssumption`: depths are naturals, publishing callbacks are those of Subscribers, and the thread that destroys the Node has no publish under way |
| `NoOverrunHolds` (`BenchProofs`) | `Spec => []NoOverrun` | any command lines, window, messages of other runs, and ring of two slots at least |
| `PayloadFitsHolds` (`BenchProofs`) | `Spec => []PayloadFits` | any command lines (`BenchAssumption`: sequences of tokens); `ArgsAssumption`: the default count is positive, the limits are naturals |
| `ReportFinalHolds` (`BenchProofs`) | `Spec => []ReportFinal` | the same; any window, latencies and messages of other runs, a ring of two slots at least |
| `NearestRank` (`BenchProofs`) | the rank of a percentile is in the sample and the least that covers it | any sample size above zero, percentages from 1 to 100 |
| `OwnReplyHolds`, `PendingExactHolds` (`RpcProofs`) | `Spec => []OwnReply`, `Spec => []PendingExact` | any callers, services and number of calls |
| `PlaneReadyHolds`, `NoStrayCallbackHolds` (`NodeProofs`) | `Spec => []PlaneReady`, `Spec => []NoStrayCallback` | any programs, peers and depth of the queues |

The ring.  `NoTornRead` speaks of what a reader got and is not inductive.  The
strengthening `RingInv` (also checked by TLC) says why the two loads of `seq`
are enough: a slot whose mark is clear holds, whole, the published message its
sequence word names; a writer that fills a slot has it marked with its own
position; and as long as a reader's slot still carries the reader's position
unmarked, whatever it has copied so far belongs to that position.  The last
part is kept by every writer step because a position, once published, is never
marked again: with one writer a later mark of the slot carries a later
position.  The refinement maps `write_seq` to the length of the log and every
step that moves a cursor to a receive or a counted skip; all other steps
stutter.  `SingleWriter` is needed: see `ShmRingTwoWriters` below.

`DropJustified` speaks of a step and rests on a second invariant, `RecentInv`:
the writer works at the last position claimed, and every position less than a
ring old is still carried by its slot, or is the one just claimed and not yet
marked.  So a reader whose slot does not carry its position, or whose copy was
disturbed, is a ring behind or meets the claimed position.  That two positions
less than a ring apart never share a slot is `SlotsDiffer`.

Discovery.  `NoMissedMatch` speaks of an agent at the head of its loop.  The
inductive form is `DirtyInv`: the key of a compatible pair that is not reported is
explained by the dirty flag or by a remote participant the running
`rematch_all` has still to visit.  `MatchesSound` needs `Provenance` besides:
what an agent knows or has in its socket of another's endpoints was registered
by that other, which stays true because endpoints are never removed.  The
proof splits the invariant into one part per agent, shows that agents which do
not act keep theirs, and treats the steps of the acting one.  That
`match_endpoints` reports the first pair of each key rests on
`FirstMatchIsMatch`, from the least element of a set of pairs of indices.
`MatchesStick` follows from the same invariant: matching only adds keys that
are new (`ReportedSticks`), and `reap_dead` removes participant and matches
together (`ReapSticks`).

Data plane.  The proof has two layers.  `LeakInv` is about lifetimes: the sinks
of the tables and of a publish under way are alive and of their process, no two
entries of `sinks_` share one, the bus has the sinks of the tables until `stop`
empties them, and every name in /dev/shm belongs to a living SHM sink or to the
one creation under way.  `NoLeak` follows; it needs the whole of it, because a
sink goes with its last holder, which is the table or a publish, and takes the
name along.  `Inv` adds the tables: the keys of `sinks_` are those of the TCP
matches, and each of the three reference counts counts the matches that share a
participant, a topic or a segment name, without entries that count none
(`Counts`).  `CountIn` and `CountOut` say once, by cardinalities of finite sets,
that a match more or less keeps such a table exact, and that the entry goes with
the last match; every handler is an instance of them.  They need `OnePerKey`,
which is what discovery establishes.  `ShmTable` leaves out the match whose
segment is being created.  It holds only while no creation fails: a failed one is
not counted when it comes but is when it goes (`DataPlaneShared` below), so
`ShmChannels` is proved under `~MayFail` and the other three without it.  TLC
checks `Inv` on the instances of `DataPlane` and `DataPlaneJoin` too.

TCP.  `QuietAfterStop` speaks of a step and follows from `ControlInv`, the order of
things in both `stop` functions: `stopped_` and `running_` change first, the loops
are joined before the descriptors are closed, and a loop has events at hand only
while it handles them.  `Conserved` needs to know of a number `n` of payloads
delivered such that what waits at the server, in the pipe and in `write_buffer_`
is what is left of the stream after them (`StreamInv`).  Reads and writes move
bytes along, which associativity of concatenation covers; the server's read is
`DecodeTakes`: as long as the buffer begins with what is left of a stream of
frames, a round of `decode` takes the next payload or changes nothing
(`TakeGood`), because the header reads back as the length (`ReadBack`).  A
length out of range, which would empty the buffer, is thus never met.  The loops of
the codec are recursive functions; `Recursion` shows that they exist and `UpTo` is
induction over their arguments.

Local bus.  `NoUseAfterDestroy` is inductive with the types: a Subscriber is
destroyed only when no publish holds it and its worker is through.  `KeepLast` is
proved position by position (`Keeps`): the queue is the end of what was pushed,
and pushed is handled, waiting or dropped.  `PublisherOrder` needs `Ordered`,
which takes in besides the callbacks what waits and what a publish still brings:
a publish enqueues outside the lock, but has a Subscriber once among its targets
(`OnceEach`), and carries the number it got under the lock
(`OutMsg`).  The recursive function behind the list of living Subscribers is
reasoned about by `UpTo`, induction on the set of the numbers for which a
formula holds.

Benchmark.  `BenchInv` says that the ring holds the last messages published, in
their order, that what was received had left the ring before, and that where
main may publish at most `Window` messages are not known to be received.  What
is unread is then never more than the window when a position is claimed, which is
less than the slots.  `NoOverrun` speaks of overwriting only: a message the reader
meets between claim and mark, or without a route, is lost all the same.

`PayloadFits` rests on the parser: a round of its loop keeps the options in order
(`ParseRound`), and so does the whole loop (`ParseEnds`); what passes the checks
after it is `Accepted`.  Since a number has no more digits than a greater one
(`DigitsGrow`), the payload made large enough for the last sequence number has
room for every one.  `ReportFinal` needs `ReportInv`: nothing is under way before
main has its options, what is seen is of this run and was received, main leaves
its loop with everything published or with `publish_failed`, and after the report
nothing is accepted.  Of the percentiles, `NearestRank` says which position is
read, and `NearestSample` that what `sort` puts there is the percentile: the
places it gives to samples are different (`OnePlace`), so that each is taken
(`EveryPlace`).

RPC.  `RpcInv` relates ids: `pending_` has the ids of the calls under way, which
are different and below `next_request_id`; every request, reply and `Pending`
carries a response to its own id.  A late reply finds no entry, because no id is
given out twice.

Node.  `PlaneInv` ties the data plane to the place of main: nothing runs before
it is made, discovery has a thread only between the last step of the constructor
and its join, and the plane goes after both delivering threads have ended.
`PlaneReady` follows.  `NoStrayCallback` needs to know who will join a worker:
`OwnerInv` says that the owner refers to a subscriber only while it is kept or in
`entities_`, `HolderInv` that a delivering thread refers to nothing but what it
holds, and `WorkerInv` that a running worker has someone who refers to its
subscriber, or main or a delivering thread that joins it.  When main is past the
join of both threads, none of these is left.

Only model-checked:

* everything under fairness (`CatchesUp`, `Discovered`, `HaltDetected`,
  `ReaderJoins`, `StopReturns`, `Arrives`, `DestructorReturns`, `Handled`,
  `Answered`, `Ends`, `KeepsGoing`, `Returns`, `RepliesRouted`), which the prover
  does not treat;
* `ReadsAsReference` of `Config` and `ArgsAsUsage` of `Cli`, which compare a fold
  over lines or arguments with a reference in closed form: that is an induction over
  data, with powers of ten in the reference, of which the prover knows nothing;
* `PrintsFirst` of `Cli`, which could be proved from an invariant that ties `out`
  and `samples` to `arrivals`, but has not been.

## 5. Disagreements between code and documents

While the modules were written the code turned out to do other things than a
comment or a document says.  Each configuration below makes TLC print the
shortest behaviour that shows it.  Where a row names a property, put it in place
of the property of that configuration.  `TcpTransportStall` is one of the runs
of `PROJECT.json`; the others are kept for whoever changes the code at that
place.

| Configuration (module) | The document says | The code does |
|---|---|---|
| `TcpTransportStall` (`MCTcpTransport`) | qos.h:9, RELIABLE over TCP is in order and without loss | `handle_connect_complete` stores CONNECTED, then registers EPOLLIN without the lock (tcp_client_transport.cpp:175-179); a `send` in between loses its EPOLLOUT, and the payload waits for another `send` |
| `ShmRingTwoWriters` (`ShmRing`) | README.md:32, sequence checks detect torn reads | threads that publish on one topic write to one ring without a lock (shm_sink.h:24); a read can mix two messages |
| `ShmRingOverwritten` (`ShmRing`) | shm_ring.h:175, the slot was overwritten by newer data | a message may be dropped between `fetch_add` and the mark of its own writer; `DropJustified` states the exact condition |
| `DiscoveryDedup` (`MCDiscovery`) | discovery_agent.h:31, matches are told apart by endpoint | the key has kind and topic only: endpoints that share them share one match |
| `DiscoveryDedup` with `ReliableOverTcp` (`MCDiscovery`) | QoS design:29, a RELIABLE pair never uses SHM | the match that stands for a key may be that of a best-effort Subscriber |
| `DiscoveryRoutes` (`MCDiscovery`) | data_plane.h:27, both ends act | the ends may choose different transports for such a match |
| `DataPlaneHandshake` (`MCDataPlane`) | data_plane.cpp:25, no handshake is needed | when one end is unmatched and matched again the reader stays on the unlinked segment |
| `DataPlaneUnlink` (`MCDataPlane`) | data_plane.h:83, unlinked when ref is zero | a publish that outlives its channel unlinks the name of the next one |
| `DataPlaneShared` (`MCDataPlane`) | data_plane.cpp:205, others still use it | a match whose creation failed is not counted, its unmatch is |
| `DataPlaneLookalike` (`MCDataPlane`) | data_plane.cpp:24, names are unique | topics that differ in `/`, `.` or space share a segment |
| `DataPlaneShmOff` (`MCDataPlane`) | node.h:36, enable_shm=false makes one host use TCP | only the own end knows; the other writes to a ring nobody reads |
| `TcpTransportStall` with the temporal property `RefusedWithoutConnection` (`MCTcpTransport`) | remote_sink.h:30, `send` returns false without connection | `state_` stays CONNECTED when the event loop ends |
| `TcpTransportStall` with `GracefulStop` (`MCTcpTransport`) | transport.h:28, graceful stop | a write after the `shutdown` of `stop` raises SIGPIPE |
| `LocalBusInbound` (`MCLocalBus`) | local_bus.cpp:80, discovery guarantees the type | a Subscriber the bus refused is announced all the same |
| `LocalBusReentrant` (`MCLocalBus`) | subscriber.h:19, the destructor joins the worker | a worker whose callback publishes may join itself |
| `LocalBusDepth` (`MCLocalBus`) | qos.h:11, depth is the limit of the queue | KEEP_LAST with depth 0 has no limit |
| `RpcDestroyed` (`Rpc`) | README.md:166, no callbacks into destroyed state | `pending_` (client.h:122) and the members of Service go before the worker that uses them is joined |
| `NodeDangling` (`MCNode`) | README.md:166, the order of shutdown prevents callbacks into destroyed state | the server's loop, or the poller, may hold the subscriber of a Service when ~Node destroys the Service: its worker then calls into members that are gone; and a Service the application keeps registers a reply topic with an agent that is gone |
| `NodeDangling` with `NoNullReaders` (`MCNode`) | node.cpp:22, a data plane that fails to start is only warned of | the first same-host match of a best-effort Subscriber uses a null reader manager |
| `NodeDangling` with `ServedByName`, `Programs <- OtherName` (`MCNode`) | RPC design:12, endpoints are matched by service name and types | names that differ in characters which are not alphanumeric share the request topic, and requests arrive without a match of the services |
| `NodeDangling` with `MatchedCanCall`, `Programs <- OtherReliability` (`MCNode`) | the same line | services are matched whatever their QoS, and then no request can be sent, or no reply |
| `Bench` with `WithinWindow` (`MCBench`) | benchmark design:102, waits before publishing beyond the window | one message more is published before the wait; harmless for the ring (`NoOverrun`) |
| `CliEmpty` (`MCCli`) | CLI and config design:71, invalid values are errors | a setting without a value is a section |
| `Cli` with `NonNegative` (`MCCli`) | args.cpp:101 and 109, `--wait-ms` and `--count` must be non-negative integers | a blank before the minus sign passes the check, and `strtol` skips it: `" -1"` is taken as -1; `ArgsAsUsage` leaves such numbers out |
| `Cli` with `WindowIntervals` (`MCCli`) | CLI and config design, section 7, `--window` is the number of intervals | it is the number of samples, one more |
| `Cli` with the temporal property `PrintsRate` (`MCCli`) | the same section, prints once at least two messages are available | the rate is printed once, after `--count` messages, and never without a count |

## 6. Not modelled, and why

* Weaker memory orderings than x86-64's (shm_ring.h:115): the code's release
  stores alone would not order the mark before the payload.
* Positions beyond 2^32 and the widths of other counters: out of TLC's reach;
  the index of a slot is `position % slot_count`, which is the code's mask for
  powers of two.
* Set-up of sockets, parsing of inbound envelopes, text of payloads and printed
  messages, logging, generated code: they change no state the properties speak
  of.
* `try_pop` of the queue, which only an example calls.
* The server has one connection; its handlers treat each by itself.
* A match between a service and a client changes nothing in the data plane
  (`Ignored`); the instances of `DataPlane` contain none, and fire `ignore_match`
  after `stop` only.
* In `Node` the tables of the data plane and the contents of messages: they are
  in `DataPlane`, `LocalBus` and `Rpc`.

`PROJECT.json` lists every part with its state, and the hazards of the code with
the property that covers each, or the reason why none does.

## 7. Next

1. Theorems: `PrintsFirst` and `ArgsAsUsage` of `Cli`.
2. Several connections of a server, and two data planes under one `Discovery`.
3. A variant of the ring with the C++ memory orderings.
