------------------------------- MODULE Bench --------------------------------
(***************************************************************************)
(* mm_bench (bench/src/main.cpp): main parses its arguments, publishes     *)
(* numbered messages and keeps a window of them in flight; the worker of   *)
(* the benchmark's subscriber collects the samples                         *)
(* (bench/src/message_codec.cpp).                                          *)
(*                                                                         *)
(* The route between the two nodes is the SHM ring or a TCP connection.    *)
(* It is up at some time after discovery and may go again; what is         *)
(* published meanwhile, or not read when it goes, is lost.  Of the ring's  *)
(* steps in ShmRing two matter here: write is claiming a position, then    *)
(* filling it, and read may come in between.  Another benchmark may        *)
(* publish on the topic at the same time.  The deadline passes at any      *)
(* time.  Payloads count by run id, sequence and size.                     *)
(***************************************************************************)
EXTENDS BenchArgs, Functions

CONSTANTS
  Argvs,       \* the arguments the benchmark may be called with
  Latencies,   \* microseconds a message may take
  Window,      \* kBenchmarkInFlightWindow
  Slots,       \* slots of the ring
  MaxForeign   \* bound: messages of the other benchmark

ASSUME BenchAssumption ==
  /\ Argvs \subseteq Seq(Token)
  /\ Latencies \subseteq Nat
  /\ Window \in Nat /\ Slots \in Nat \ {0, 1}

VARIABLES
  argv,            \* the arguments
  options,         \* BenchOptions, as parsed
  pc,              \* where main is
  published,       \* messages main has published
  publish_failed,
  deadline,        \* the deadline has passed
  up,              \* the route is up
  ring,            \* what is between the reader's next_ and write_seq, or in the connection
  foreign,         \* messages of the other benchmark so far
  queue,           \* queue of the subscriber
  got,             \* history: messages the callback was called with
  seen,            \* sequences in the collector
  accepting,
  report           \* samples, statistics and exit code, once main is done

mainVars == <<argv, options, pc, published, publish_failed, report>>
routeVars == <<up, ring>>
vars == <<mainVars, deadline, routeVars, foreign, queue, got, seen, accepting>>

Count == options.count
Started == pc \notin {"args", "exited"}
SequenceNumbers == 0..(Count - 1)
Own(n) == [run |-> "own", sequence |-> n]
Other(n) == [run |-> "other", sequence |-> n]

\* received_count_ of the collector.
received_count == Cardinality(seen)

Init ==
  /\ argv \in Argvs /\ options = BenchOptions
  /\ pc = "args" /\ published = 0 /\ publish_failed = FALSE
  /\ deadline = FALSE
  /\ up = FALSE /\ ring = <<>>
  /\ foreign = 0 /\ queue = <<>> /\ got = {}
  /\ seen = {} /\ accepting = TRUE
  /\ report = [exit_code |-> -1]

\* Mutant of flow_control_target: no flow control.
flow_control_targetNone(published_count) == 0

\* Mutant of flow_control_target: a window that is one too small.
flow_control_targetStrict(published_count) ==
  IF published_count > Window THEN published_count - Window + 1 ELSE 0

\* How many messages must have been received once so many are published.
flow_control_target(published_count) ==
  IF published_count > Window THEN published_count - Window ELSE 0

-----------------------------------------------------------------------------
(***************************************************************************)
(* The main thread                                                         *)
(***************************************************************************)

\* Help and errors end the program; otherwise the nodes, the subscriber and the
\* publisher are made.
ParseArgs ==
  LET parsed == parse_bench_args(argv)
  IN /\ pc = "args"
     /\ argv' = <<>>
     /\ IF parsed.kind # "run"
        THEN /\ pc' = "exited" /\ report' = [exit_code |-> parsed.exit_code]
             /\ UNCHANGED options
        ELSE pc' = "publish" /\ options' = parsed.options /\ UNCHANGED report
     /\ UNCHANGED <<published, publish_failed, deadline, routeVars, foreign, queue, got, seen,
                    accepting>>

\* Where the loop goes on after n messages.
Continue(n) == IF n < Count THEN "publish" ELSE "drain"

\* What follows publish, when it has returned for the n-th time.
Published(n) == IF flow_control_target(n) > 0 THEN "flow" ELSE Continue(n)

\* One message is published.  If the route is up it is sent over the connection,
\* or write claims a position of the ring with fetch_add.
Publish ==
  /\ pc = "publish" /\ ~deadline
  /\ published' = published + 1
  /\ ring' = IF up THEN Append(ring, Own(published)) ELSE ring
  /\ pc' = IF up /\ options.mode = "shm" THEN "claimed" ELSE Published(published + 1)
  /\ UNCHANGED <<argv, options, publish_failed, report, deadline, up, foreign,
                 queue, got, seen, accepting>>

\* write marks the slot, fills it and publishes it.  In between a reader finds
\* the mark, and comes again.
Write ==
  /\ pc = "claimed"
  /\ pc' = Published(published)
  /\ UNCHANGED <<argv, options, published, publish_failed, report, deadline, routeVars, foreign,
                 queue, got, seen, accepting>>

\* The deadline has passed, or publish returns false.
PublishStops ==
  /\ pc = "publish"
  /\ publish_failed' = TRUE
  /\ pc' = "drain"
  /\ UNCHANGED <<argv, options, published, report, deadline, routeVars, foreign, queue, got,
                 seen, accepting>>

\* The wait for the window ends: by an accepted sample or by the deadline.
FlowControl ==
  /\ pc = "flow"
  /\ \/ /\ received_count >= flow_control_target(published)
        /\ pc' = Continue(published)
        /\ UNCHANGED publish_failed
     \/ /\ received_count < flow_control_target(published) /\ deadline
        /\ pc' = "drain"
        /\ publish_failed' = TRUE
  /\ UNCHANGED <<argv, options, published, report, deadline, routeVars, foreign, queue, got,
                 seen, accepting>>

\* Mutant of Drained: the deadline does not end the wait.
DrainedAll == received_count >= Count

\* What the last wait of main waits for.
Drained == received_count >= Count \/ deadline

Drain ==
  /\ pc = "drain" /\ Drained
  /\ pc' = "report"
  /\ UNCHANGED <<argv, options, published, publish_failed, report, deadline, routeVars, foreign,
                 queue, got, seen, accepting>>

\* Samples are no longer accepted; the statistics are computed, and the exit code
\* is given.
Report ==
  /\ pc = "report"
  /\ accepting' = FALSE
  /\ \E samples \in [1..received_count -> Latencies] :
       report' = [samples |-> samples, stats |-> compute_latency_stats(samples),
                  exit_code |-> IF publish_failed \/ received_count # Count THEN 1 ELSE 0]
  /\ pc' = "done"
  /\ UNCHANGED <<argv, options, published, publish_failed, deadline, routeVars, foreign, queue,
                 got, seen>>

-----------------------------------------------------------------------------
(***************************************************************************)
(* The subscriber, the route and the rest of the world                     *)
(***************************************************************************)

\* Mutant of record: samples are accepted for ever.
recordLate(msg) ==
  IF msg.run = "own" /\ msg.sequence < Count THEN seen \cup {msg.sequence} ELSE seen

\* The collector takes a sequence of this run once, as long as main accepts.
record(msg) ==
  IF accepting /\ msg.run = "own" /\ msg.sequence < Count
  THEN seen \cup {msg.sequence} ELSE seen

\* The worker calls the callback.
Callback ==
  /\ queue # <<>>
  /\ seen' = record(Head(queue))
  /\ got' = got \cup {Head(queue)}
  /\ queue' = Tail(queue)
  /\ UNCHANGED <<mainVars, deadline, routeVars, foreign, accepting>>

\* Positions that a reader more than a ring behind write_seq gives up: it goes
\* on one slot after the oldest.
Overtaken ==
  IF options.mode = "shm" /\ Len(ring) > Slots THEN Len(ring) - Slots + 1 ELSE 0

\* The position is the last one claimed, and its slot does not carry it yet: read
\* takes it for overwritten.
NotMarked(position) == pc = "claimed" /\ position = Len(ring)

\* The next message is moved to the subscriber's queue, which is KEEP_ALL, by the
\* poller from the ring or by the server's loop from the connection; a position
\* that is not marked is given up.
Read ==
  /\ ring # <<>>
  /\ LET next == Overtaken + 1
     IN /\ queue' = IF NotMarked(next) THEN queue ELSE Append(queue, ring[next])
        /\ ring' = SubSeq(ring, next + 1, Len(ring))
  /\ UNCHANGED <<mainVars, deadline, up, foreign, got, seen, accepting>>

Connect ==
  /\ Started /\ ~up /\ up' = TRUE
  /\ UNCHANGED <<mainVars, deadline, ring, foreign, queue, got, seen, accepting>>

\* Discovery takes one of the nodes for gone; what was not read is lost.
Disconnect ==
  /\ up /\ up' = FALSE /\ ring' = <<>>
  /\ UNCHANGED <<mainVars, deadline, foreign, queue, got, seen, accepting>>

ForeignMessage ==
  /\ Started /\ foreign < MaxForeign
  /\ foreign' = foreign + 1
  /\ queue' = Append(queue, Other(foreign))
  /\ UNCHANGED <<mainVars, deadline, routeVars, got, seen, accepting>>

DeadlinePasses ==
  /\ Started /\ ~deadline /\ deadline' = TRUE
  /\ UNCHANGED <<mainVars, routeVars, foreign, queue, got, seen, accepting>>

Main == Publish \/ Write \/ PublishStops \/ FlowControl \/ Drain \/ Report

Next ==
  ParseArgs \/ Main \/ Callback \/ Read \/ Connect \/ Disconnect \/ ForeignMessage
    \/ DeadlinePasses

Spec == Init /\ [][Next]_vars

\* Main, once it has its options, the poller of the ring and the worker run;
\* nothing is said of the deadline, the route and the connection.
FairSpec ==
  Spec /\ WF_vars(Main) /\ WF_vars(Callback) /\ WF_vars(options.mode = "shm" /\ Read)

-----------------------------------------------------------------------------
(***************************************************************************)
(* Properties                                                              *)
(***************************************************************************)

\* Arguments that are accepted are good for the whole run: every message, for
\* every run id, sequence and time there can be, has the size that is reported,
\* and gets through the slot or the frame, so that none is dropped for its size.
PayloadFits ==
  Started =>
    /\ \A run_id \in {5, 42}, n \in SequenceNumbers, time \in {1, MaxDigits} :
         payload_size(run_id, n, time, options.payload_bytes) = options.payload_bytes
    /\ LET message == 1 + Varint(options.payload_bytes) + options.payload_bytes
           topic == IF options.topic = 0 THEN 0 ELSE 1 + Varint(options.topic) + options.topic
       IN IF options.mode = "shm" THEN message <= kShmSlotCapacity
          ELSE topic + 1 + Varint(message) + message <= MAX_PAYLOAD_SIZE

\* The window keeps the publisher from overrunning the ring: it never claims a
\* slot whose message the reader has not passed, although the publisher never
\* looks at the ring, and messages that were lost or wait in the subscriber's
\* queue count as in flight.  What is lost on the way is thus lost without a
\* route, or given up by a reader that came before the mark.
NoOverrun == Window < Slots => Len(ring) <= Slots

\* The nearest rank: at least p per cent of the samples are not above it, and
\* fewer are below it.
IsPercentile(x, p, samples) ==
  LET below == {i \in DOMAIN samples : samples[i] < x}
      upto == {i \in DOMAIN samples : samples[i] <= x}
  IN 100 * Cardinality(upto) >= p * Len(samples) /\ 100 * Cardinality(below) < p * Len(samples)

\* What is reported is true and stays so: no sample is added after they were
\* counted, none is of another run, exit code 0 means that every message was
\* published and received, and the percentiles are those of the samples.
ReportFinal ==
  pc = "done" =>
    /\ report.stats.count = received_count
    /\ \A n \in seen : Own(n) \in got
    /\ report.exit_code = 0 => seen = SequenceNumbers /\ published = Count /\ ~publish_failed
    /\ received_count > 0 => /\ IsPercentile(report.stats.p50, 50, report.samples)
                             /\ IsPercentile(report.stats.p95, 95, report.samples)
                             /\ IsPercentile(report.stats.p99, 99, report.samples)

\* Messages that were published and are neither on their way nor received.
Lost ==
  {n \in 0..(published - 1) : Own(n) \notin got \cup Range(queue) \cup Range(ring)}

\* main ends after its deadline, whatever is lost; over the ring it ends earlier
\* and with exit code 0, unless a message is lost or publish fails.
Ends ==
  /\ deadline ~> pc = "done"
  /\ pc = "publish" /\ options.mode = "shm" ~>
       (pc = "done" /\ report.exit_code = 0) \/ deadline \/ publish_failed \/ Lost # {}

\* A lost message takes a place of the window for good, since nothing is sent
\* again.  Over the ring, main still publishes everything as long as no more
\* messages than a window are lost, be it without a route or before the mark.
KeepsGoing ==
  pc = "publish" /\ options.mode = "shm" ~>
    published = Count \/ deadline \/ publish_failed \/ Cardinality(Lost) > Window

\* The design: main waits for accepted sequences to advance before it publishes
\* beyond the window.
WithinWindow == published - received_count <= Window
=============================================================================
