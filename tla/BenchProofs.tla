---------------------------- MODULE BenchProofs -----------------------------
(***************************************************************************)
(* Proofs about mm_bench, for every window, ring, number of messages and   *)
(* arguments: the window keeps the ring from overrunning; the percentiles  *)
(* are those of the samples; arguments that are accepted are good for the  *)
(* whole run; and what is reported is true and stays so.                   *)
(***************************************************************************)
EXTENDS Bench, FiniteSetTheorems, TLAPS

\* A leaf that names no prover goes to these two, in this order.
USE SMTT(30), ZenonT(30)

Messages == [run : {"own", "other"}, sequence : Nat]

\* Messages that have left the ring, or were published before the route was up.
Gone == published - Len(ring)

\* The ring holds the last messages published, in their order; what the
\* subscriber has was taken from it earlier; and where main may publish, the
\* messages it does not know to be received are within the window.
BenchInv ==
  /\ published \in Nat /\ ring \in Seq(Messages) /\ queue \in Seq(Messages)
  /\ Gone \in Nat
  /\ ~up => ring = <<>>
  /\ \A i \in 1..Len(ring) : ring[i] = Own(Gone + i - 1)
  /\ \A i \in 1..Len(queue) : queue[i].run = "own" => queue[i].sequence < Gone
  /\ seen \subseteq 0..(Gone - 1)
  /\ foreign \in Nat
  /\ pc \in {"args", "publish"} => published - received_count <= Window
  /\ NoOverrun

-----------------------------------------------------------------------------

\* A set of sequences below n is finite and has at most n members.
LEMMA SeenBelow ==
  ASSUME NEW n \in Nat, NEW S \in SUBSET (0..(n - 1))
  PROVE  IsFiniteSet(S) /\ Cardinality(S) \in Nat /\ Cardinality(S) <= n
<1>1. IsFiniteSet(0..(n - 1)) /\ Cardinality(0..(n - 1)) = n
  BY FS_Interval
<1>2. IsFiniteSet(S) /\ Cardinality(S) <= Cardinality(0..(n - 1))
  BY Zenon, <1>1, FS_Subset
<1> QED
  BY <1>1, <1>2, FS_CardinalityType

\* Where main may publish, the ring has a free slot.
LEMMA FreeSlot ==
  ASSUME BenchInv, pc = "publish", Window < Slots
  PROVE  Len(ring) < Slots
<1>1. received_count \in Nat /\ received_count <= Gone
  BY SeenBelow DEF BenchInv, received_count
<1>2. Len(ring) \in Nat
  BY DEF BenchInv
<1> QED
  BY <1>1, <1>2, BenchAssumption DEF BenchInv, Gone

\* Own messages are messages.
LEMMA OwnMessage ==
  ASSUME NEW n \in Nat
  PROVE  Own(n) \in Messages /\ Own(n).run = "own" /\ Own(n).sequence = n
BY DEF Own, Messages

\* At first nothing is published.
LEMMA InitBench == Init => BenchInv
<1> SUFFICES ASSUME Init PROVE BenchInv
  OBVIOUS
<1>1. published = 0 /\ ring = <<>> /\ queue = <<>> /\ seen = {} /\ Len(ring) = 0 /\ Len(queue) = 0
  BY DEF Init
<1>2. received_count = 0
  BY <1>1, FS_EmptySet DEF received_count
<1> QED
  BY <1>1, <1>2, BenchAssumption DEF BenchInv, Gone, Init, NoOverrun

\* What follows publish: the next one only if the window has room.
LEMMA PublishedFacts ==
  ASSUME NEW n \in Nat
  PROVE  /\ Published(n) \in {"flow", "publish", "drain"}
         /\ Published(n) = "publish" => n <= Window /\ n < Count
         /\ Published(n) = "drain" => ~(n < Count)
BY BenchAssumption DEF Published, Continue, flow_control_target

\* publish appends to a ring that has room.
LEMMA PublishKeeps ==
  ASSUME BenchInv, Publish, Window < Slots
  PROVE  BenchInv'
<1>1. received_count \in Nat /\ received_count' = received_count
  BY Zenon, SeenBelow DEF BenchInv, received_count, Publish
<1>2. published' = published + 1 /\ (pc' = "claimed" \/ pc' = Published(published + 1))
  BY DEF Publish
<1>3. pc' # "args" /\ (pc' = "publish" => published' - received_count <= Window)
  BY <1>1, <1>2, PublishedFacts, BenchAssumption DEF BenchInv
<1>4. CASE ~up
  <2>1. ring = <<>> /\ ring' = <<>> /\ Len(ring) = 0 /\ Len(ring') = 0
    BY <1>4 DEF Publish, BenchInv
  <2>2. published' = published + 1 /\ Gone = published /\ Gone' = published + 1
    BY <2>1 DEF Gone, Publish, BenchInv
  <2>3. seen' = seen /\ queue' = queue /\ foreign' = foreign
    BY DEF Publish
  <2>4. \A i \in 1..Len(queue) : queue[i].run = "own" => queue[i].sequence < Gone + 1
    <3> SUFFICES ASSUME NEW i \in 1..Len(queue), queue[i].run = "own"
                 PROVE  queue[i].sequence < Gone + 1
      OBVIOUS
    <3>1. queue[i] \in Messages
      BY DEF BenchInv
    <3> QED
      BY <3>1 DEF BenchInv, Messages
  <2> QED
    BY <2>1, <2>2, <2>3, <2>4, <1>1, <1>3, BenchAssumption DEF BenchInv, NoOverrun
<1>5. CASE up
  <2>1. Len(ring) < Slots
    BY FreeSlot DEF Publish
  <2>2. ring' = Append(ring, Own(published))
    BY <1>5 DEF Publish
  <2>3. Own(published) \in Messages
    BY OwnMessage DEF BenchInv
  <2>4. Len(ring') = Len(ring) + 1 /\ ring' \in Seq(Messages) /\ Len(ring) \in Nat
    BY <2>2, <2>3 DEF BenchInv
  <2>5. Gone' = Gone
    BY <2>4 DEF Gone, Publish, BenchInv
  <2>6. \A i \in 1..Len(ring') : ring'[i] = Own(Gone + i - 1)
    <3> SUFFICES ASSUME NEW i \in 1..Len(ring') PROVE ring'[i] = Own(Gone + i - 1)
      OBVIOUS
    <3>1. CASE i = Len(ring) + 1
      <4>1. ring'[i] = Own(published)
        BY <3>1, <2>2, <2>4 DEF BenchInv
      <4>2. Gone + i - 1 = published
        BY <3>1, <2>4 DEF Gone, BenchInv
      <4> QED
        BY <4>1, <4>2
    <3>2. CASE i # Len(ring) + 1
      BY <3>2, <2>2, <2>4 DEF BenchInv
    <3> QED
      BY <3>1, <3>2
  <2>7. up' = up /\ published' = published + 1 /\ seen' = seen /\ queue' = queue /\ foreign' = foreign
    BY DEF Publish
  <2> QED
    BY <1>5, <2>1, <2>4, <2>5, <2>6, <2>7, <1>1, <1>3, BenchAssumption DEF BenchInv, NoOverrun
<1> QED
  BY <1>4, <1>5

\* read gets past a position at least, and leaves the ring or gives up what is
\* before it and at it.
LEMMA ReadFacts ==
  ASSUME ring \in Seq(Messages), queue \in Seq(Messages), Read
  PROVE  /\ Overtaken + 1 \in 1..Len(ring) /\ ring[Overtaken + 1] \in Messages
         /\ ring' = SubSeq(ring, Overtaken + 2, Len(ring)) /\ ring' \in Seq(Messages)
         /\ queue' = queue \/ queue' = Append(queue, ring[Overtaken + 1])
         /\ queue' \in Seq(Messages)
<1>1. Len(ring) \in Nat /\ Len(ring) > 0
  BY DEF Read
<1>2. Overtaken \in Nat /\ Overtaken + 1 \in 1..Len(ring)
  BY <1>1, BenchAssumption DEF Overtaken
<1>3. ring[Overtaken + 1] \in Messages
  BY <1>2
<1>4. /\ ring' = SubSeq(ring, Overtaken + 1 + 1, Len(ring))
      /\ queue' = queue \/ queue' = Append(queue, ring[Overtaken + 1])
  BY Zenon DEF Read
<1>5. Overtaken + 1 + 1 = Overtaken + 2 /\ SubSeq(ring, Overtaken + 2, Len(ring)) \in Seq(Messages)
  BY <1>1, <1>2
<1>6. Append(queue, ring[Overtaken + 1]) \in Seq(Messages)
  BY <1>3
<1> QED
  BY Zenon, <1>2, <1>3, <1>4, <1>5, <1>6

\* The reader takes the oldest message of the ring, or gives it up.
LEMMA ReadKeeps ==
  ASSUME BenchInv, Read, Window < Slots
  PROVE  BenchInv'
<1>1. ring \in Seq(Messages) /\ ring # <<>> /\ Len(ring) \in Nat /\ Len(ring) > 0
        /\ Len(ring) <= Slots /\ queue \in Seq(Messages) /\ Len(queue) \in Nat
  BY DEF BenchInv, NoOverrun, Read
<1>0. Overtaken = 0
  BY <1>1, BenchAssumption DEF Overtaken
<1>2. ring' = SubSeq(ring, 2, Len(ring)) /\ ring' \in Seq(Messages) /\ Len(ring') = Len(ring) - 1
        /\ \A i \in 1..Len(ring') : ring'[i] = ring[i + 1]
  BY <1>1, <1>0, ReadFacts
<1>3. published' = published /\ Gone' = Gone + 1
  BY <1>1, <1>2 DEF Read, mainVars, Gone, BenchInv
<1>4. ring[1] = Own(Gone) /\ ring[1] \in Messages
  BY <1>1 DEF BenchInv
<1>5. \A i \in 1..Len(ring') : ring'[i] = Own(Gone + 1 + i - 1)
  <2> SUFFICES ASSUME NEW i \in 1..Len(ring') PROVE ring'[i] = Own(Gone + 1 + i - 1)
    OBVIOUS
  <2>1. ring'[i] = ring[i + 1] /\ i + 1 \in 1..Len(ring)
    BY <1>1, <1>2
  <2>2. Gone + (i + 1) - 1 = Gone + 1 + i - 1
    BY DEF BenchInv
  <2> QED
    BY <2>1, <2>2 DEF BenchInv
<1>6. queue' \in Seq(Messages) /\ (queue' = queue \/ queue' = Append(queue, ring[1]))
  BY <1>0, <1>1, ReadFacts
<1>7. \A i \in 1..Len(queue') : queue'[i].run = "own" => queue'[i].sequence < Gone + 1
  <2> SUFFICES ASSUME NEW i \in 1..Len(queue'), queue'[i].run = "own"
               PROVE  queue'[i].sequence < Gone + 1
    OBVIOUS
  <2>1. CASE i \in 1..Len(queue)
    <3>1. queue'[i] = queue[i]
      BY <2>1, <1>1, <1>4, <1>6
    <3>2. queue[i] \in Messages
      BY <2>1, <1>1
    <3> QED
      BY <2>1, <3>1, <3>2 DEF BenchInv, Messages
  <2>2. CASE i \notin 1..Len(queue)
    <3>1. queue'[i] = Own(Gone)
      BY <2>2, <1>1, <1>4, <1>6
    <3> QED
      BY <3>1, OwnMessage DEF BenchInv
  <2> QED
    BY <2>1, <2>2
<1>8. seen' = seen /\ seen \subseteq 0..(Gone + 1 - 1) /\ received_count' = received_count
  BY DEF Read, BenchInv, received_count
<1>9. up' = up /\ foreign' = foreign /\ pc' = pc
  BY DEF Read, mainVars
<1>10. up
  BY <1>1 DEF BenchInv
<1> QED
  BY <1>1, <1>2, <1>3, <1>5, <1>6, <1>7, <1>8, <1>9, <1>10, BenchAssumption DEF BenchInv, NoOverrun

\* The callback records a message that has left the ring, and forgets none.
LEMMA CallbackKeeps ==
  ASSUME BenchInv, Callback
  PROVE  BenchInv'
<1>1. queue \in Seq(Messages) /\ queue # <<>> /\ Len(queue) \in Nat /\ Len(queue) > 0
  BY DEF BenchInv, Callback
<1>2. queue' = Tail(queue) /\ queue' \in Seq(Messages) /\ Len(queue') = Len(queue) - 1
  BY <1>1 DEF Callback
<1>3. published' = published /\ pc' = pc /\ ring' = ring /\ up' = up
        /\ foreign' = foreign /\ Gone' = Gone
  BY DEF Callback, mainVars, routeVars, Gone
<1>4. \A i \in 1..Len(queue') : queue'[i] = queue[i + 1] /\ i + 1 \in 1..Len(queue)
  BY <1>1, <1>2
<1>5. Head(queue) \in Messages /\ (Head(queue).run = "own" => Head(queue).sequence < Gone)
  BY <1>1 DEF BenchInv
<1>6. seen \subseteq seen' /\ seen' \subseteq 0..(Gone - 1)
  <2>1. seen' = seen \/ (Head(queue).run = "own" /\ seen' = seen \cup {Head(queue).sequence})
    BY DEF Callback, record
  <2>2. Head(queue).run = "own" => Head(queue).sequence \in 0..(Gone - 1)
    BY <1>5 DEF Messages, BenchInv
  <2>3. seen \subseteq 0..(Gone - 1)
    BY DEF BenchInv
  <2> QED
    BY Zenon, <2>1, <2>2, <2>3
<1>7. received_count \in Nat /\ received_count' \in Nat /\ received_count <= received_count'
  <2>1. IsFiniteSet(seen') /\ Cardinality(seen') \in Nat
    BY Zenon, <1>6, SeenBelow DEF BenchInv
  <2>2. Cardinality(seen) \in Nat
    BY Zenon, SeenBelow DEF BenchInv
  <2> QED
    BY Zenon, <2>1, <2>2, <1>6, FS_Subset DEF received_count
<1>8. pc \in {"args", "publish"} => published - received_count' <= Window
  <2> SUFFICES ASSUME pc \in {"args", "publish"} PROVE published - received_count' <= Window
    OBVIOUS
  <2>1. published \in Nat /\ published - received_count <= Window
    BY DEF BenchInv
  <2>2. \A p, r, s, w \in Nat : p - r <= w /\ r <= s => p - s <= w
    OBVIOUS
  <2> QED
    BY Zenon, <2>1, <2>2, <1>7, BenchAssumption
<1> QED
  BY <1>2, <1>3, <1>4, <1>6, <1>8 DEF BenchInv, NoOverrun

\* A message of another run counts for nothing.
LEMMA ForeignMessageKeeps ==
  ASSUME BenchInv, ForeignMessage
  PROVE  BenchInv'
<1>1. Other(foreign) \in Messages /\ Other(foreign).run = "other"
  BY DEF Other, Messages, BenchInv
<1>2. queue' = Append(queue, Other(foreign)) /\ queue' \in Seq(Messages)
        /\ Len(queue') = Len(queue) + 1 /\ Len(queue) \in Nat
  BY <1>1 DEF ForeignMessage, BenchInv
<1>3. \A i \in 1..Len(queue') : queue'[i].run = "own" => queue'[i].sequence < Gone
  <2> SUFFICES ASSUME NEW i \in 1..Len(queue'), queue'[i].run = "own"
               PROVE  queue'[i].sequence < Gone
    OBVIOUS
  <2>1. i # Len(queue) + 1
    BY <1>1, <1>2 DEF BenchInv
  <2>2. queue'[i] = queue[i] /\ i \in 1..Len(queue)
    BY <2>1, <1>1, <1>2 DEF BenchInv
  <2> QED
    BY <2>2 DEF BenchInv
<1>4. published' = published /\ pc' = pc /\ ring' = ring /\ up' = up
        /\ foreign' = foreign + 1 /\ Gone' = Gone /\ seen' = seen
        /\ received_count' = received_count
  BY DEF ForeignMessage, mainVars, routeVars, Gone, received_count
<1> QED
  BY <1>2, <1>3, <1>4 DEF BenchInv, NoOverrun

\* The steps that leave messages and samples alone, and do not enter the loop
\* without room in the window.
LEMMA OthersKeep ==
  ASSUME BenchInv,
         published' = published /\ ring' = ring /\ queue' = queue /\ seen' = seen
           /\ foreign' = foreign,
         up => up',
         pc' \in {"args", "publish"} =>
           pc \in {"args", "publish"} \/ received_count >= flow_control_target(published)
  PROVE  BenchInv'
<1>1. Gone' = Gone /\ received_count' = received_count /\ received_count \in Nat
  BY SeenBelow DEF Gone, received_count, BenchInv
<1>2. received_count >= flow_control_target(published) => published - received_count <= Window
  BY <1>1, BenchAssumption DEF flow_control_target, BenchInv
<1> QED
  BY <1>1, <1>2 DEF BenchInv, NoOverrun

\* With the route goes what was not read.
LEMMA DisconnectKeeps ==
  ASSUME BenchInv, Disconnect
  PROVE  BenchInv'
<1>1. ring' = <<>> /\ Len(ring') = 0 /\ published' = published /\ pc' = pc /\ seen' = seen
        /\ queue' = queue /\ foreign' = foreign /\ received_count' = received_count
  BY DEF Disconnect, mainVars, received_count
<1>2. Gone \in Nat /\ Gone' \in Nat /\ Gone <= Gone'
  BY <1>1 DEF Gone, BenchInv
<1>3. \A i \in 1..Len(queue) : queue[i].run = "own" => queue[i].sequence < Gone'
  <2> SUFFICES ASSUME NEW i \in 1..Len(queue), queue[i].run = "own"
               PROVE  queue[i].sequence < Gone'
    OBVIOUS
  <2>1. queue[i] \in Messages /\ queue[i].sequence < Gone
    BY DEF BenchInv
  <2> QED
    BY <1>2, <2>1 DEF Messages
<1>4. seen \subseteq 0..(Gone' - 1)
  <2>1. \A a, b \in Nat : a <= b => 0..(a - 1) \subseteq 0..(b - 1)
    OBVIOUS
  <2> QED
    BY Zenon, <1>2, <2>1 DEF BenchInv
<1>5. ring' \in Seq(Messages) /\ (\A i \in 1..Len(ring') : ring'[i] = Own(Gone' + i - 1))
  BY <1>1
<1>6. NoOverrun'
  BY <1>1, BenchAssumption DEF NoOverrun
<1> QED
  BY Zenon, <1>1, <1>2, <1>3, <1>4, <1>5, <1>6 DEF BenchInv

\* Every step of the benchmark keeps the invariant.
LEMMA NextKeeps ==
  ASSUME BenchInv, [Next]_vars, Window < Slots
  PROVE  BenchInv'
<1>1. CASE Publish
  BY <1>1, PublishKeeps
<1>2. CASE Read
  BY <1>2, ReadKeeps
<1>3. CASE Callback
  BY <1>3, CallbackKeeps
<1>4. CASE ForeignMessage
  BY <1>4, ForeignMessageKeeps
<1>5. CASE ParseArgs
  BY <1>5, OthersKeep DEF ParseArgs, routeVars
<1>6. CASE PublishStops
  BY <1>6, OthersKeep DEF PublishStops, routeVars
<1>7. CASE FlowControl
  BY <1>7, OthersKeep DEF FlowControl, routeVars
<1>8. CASE Drain
  BY <1>8, OthersKeep DEF Drain, routeVars
<1>9. CASE Report
  BY <1>9, OthersKeep DEF Report, routeVars
<1>10. CASE Connect
  BY <1>10, OthersKeep DEF Connect, mainVars
<1>11. CASE DeadlinePasses
  BY <1>11, OthersKeep DEF DeadlinePasses, mainVars, routeVars
<1>12. CASE UNCHANGED vars
  BY <1>12, OthersKeep DEF vars, mainVars, routeVars
<1>13. CASE Write
  <2>1. received_count \in Nat /\ published \in Nat
    BY SeenBelow DEF received_count, BenchInv
  <2>2. pc' = Published(published)
    BY <1>13 DEF Write
  <2>3. pc' # "args" /\ (pc' = "publish" => published <= Window)
    BY Zenon, <2>1, <2>2, PublishedFacts
  <2>4. published <= Window => received_count >= flow_control_target(published)
    BY <2>1, BenchAssumption DEF flow_control_target
  <2> QED
    BY <1>13, <2>3, <2>4, OthersKeep DEF Write, routeVars
<1>14. CASE Disconnect
  BY <1>14, DisconnectKeeps
<1> QED
  BY <1>1, <1>2, <1>3, <1>4, <1>5, <1>6, <1>7, <1>8, <1>9, <1>10, <1>11, <1>12, <1>13, <1>14
  DEF Next, Main

\* For every window smaller than the ring and every number of messages, the
\* benchmark's flow control keeps the reader within a ring of the publisher, so
\* that no slot is written again before its message was read or given up,
\* whatever was lost on the way and however slow the subscriber is.
THEOREM NoOverrunHolds == Spec => []NoOverrun
<1>1. CASE Window < Slots
  <2>1. Init => BenchInv
    BY InitBench
  <2>2. BenchInv /\ [Next]_vars => BenchInv'
    BY <1>1, NextKeeps
  <2>3. BenchInv => NoOverrun
    BY DEF BenchInv
  <2> QED
    BY <2>1, <2>2, <2>3, PTL DEF Spec
<1>2. CASE ~(Window < Slots)
  <2>1. NoOverrun
    BY <1>2 DEF NoOverrun
  <2> QED
    BY <2>1, PTL
<1> QED
  BY <1>1, <1>2

\* The position a percentile is read at is one of the samples' positions, has
\* at least percentile per cent of them up to it, and is the first that has:
\* compute_latency_stats never reads past its samples, and reports nearest ranks.
THEOREM NearestRank ==
  ASSUME NEW count \in Nat \ {0}, NEW percentile \in 1..100
  PROVE  /\ rank(count, percentile) \in 1..count
         /\ 100 * rank(count, percentile) >= count * percentile
         /\ 100 * (rank(count, percentile) - 1) < count * percentile
<1> DEFINE product == count * percentile
<1>1. product \in Nat /\ product >= 1 /\ product <= 100 * count
  OBVIOUS
<1> HIDE DEF product
<1>2. (product + 99) \div 100 \in Nat /\ 100 * ((product + 99) \div 100) >= product
        /\ 100 * ((product + 99) \div 100) < product + 100
  BY <1>1
<1>3. (product + 99) \div 100 \in 1..count
  BY <1>1, <1>2
<1> QED
  BY <1>2, <1>3 DEF rank, product
-----------------------------------------------------------------------------
(***************************************************************************)
(* The percentiles                                                         *)
(***************************************************************************)

\* The samples that std::sort puts no later than the i-th.
UpToPlace(s, i) == {j \in DOMAIN s : s[j] < s[i] \/ (s[j] = s[i] /\ j <= i)}

\* Each sample has a place among the samples, together with all that come before.
LEMMA Places ==
  ASSUME NEW n \in Nat, NEW s \in [1..n -> Nat], NEW i \in 1..n
  PROVE  /\ IsFiniteSet(UpToPlace(s, i)) /\ Cardinality(UpToPlace(s, i)) = place(s, i)
         /\ UpToPlace(s, i) \subseteq 1..n /\ place(s, i) \in 1..n
<1>1. UpToPlace(s, i) \subseteq 1..n /\ i \in UpToPlace(s, i)
  BY DEF UpToPlace
<1>2. IsFiniteSet(1..n) /\ Cardinality(1..n) = n
  BY FS_Interval
<1>3. IsFiniteSet(UpToPlace(s, i)) /\ Cardinality(UpToPlace(s, i)) <= n
  BY <1>1, <1>2, FS_Subset
<1>4. Cardinality(UpToPlace(s, i)) \in Nat /\ Cardinality(UpToPlace(s, i)) # 0
  BY <1>1, <1>3, FS_CardinalityType, FS_EmptySet
<1>5. place(s, i) = Cardinality(UpToPlace(s, i))
  BY Zenon DEF place, UpToPlace
<1> QED BY <1>1, <1>3, <1>4, <1>5

\* No two samples have the same place,
LEMMA OnePlace ==
  ASSUME NEW n \in Nat, NEW s \in [1..n -> Nat], NEW i \in 1..n, NEW k \in 1..n,
         place(s, i) = place(s, k)
  PROVE  i = k
<1>1. UpToPlace(s, i) \subseteq UpToPlace(s, k) \/ UpToPlace(s, k) \subseteq UpToPlace(s, i)
  <2>1. CASE s[i] < s[k] \/ (s[i] = s[k] /\ i <= k)
    BY <2>1 DEF UpToPlace
  <2>2. CASE s[k] < s[i] \/ (s[k] = s[i] /\ k <= i)
    BY <2>2 DEF UpToPlace
  <2>3. s[i] \in Nat /\ s[k] \in Nat
    OBVIOUS
  <2> QED BY <2>1, <2>2, <2>3
<1>2. /\ IsFiniteSet(UpToPlace(s, i)) /\ IsFiniteSet(UpToPlace(s, k))
      /\ Cardinality(UpToPlace(s, i)) = Cardinality(UpToPlace(s, k))
  BY Zenon, Places
<1>3. UpToPlace(s, i) = UpToPlace(s, k)
  BY <1>1, <1>2, FS_Subset
<1>4. i \in UpToPlace(s, k) /\ k \in UpToPlace(s, i)
  BY <1>3 DEF UpToPlace
<1> QED BY <1>4 DEF UpToPlace

\* so that every place is taken: sort finds a sample for it.
LEMMA EveryPlace ==
  ASSUME NEW n \in Nat, NEW s \in [1..n -> Nat], NEW r \in 1..n
  PROVE  \E i \in 1..n : place(s, i) = r
<1> DEFINE f == [i \in 1..n |-> place(s, i)]
<1>1. f \in [1..n -> 1..n] /\ \A i \in 1..n : f[i] = place(s, i)
  BY Places
<1> HIDE DEF f
<1>2. f \in Injection(1..n, 1..n)
  BY Zenon, <1>1, OnePlace DEF Injection, IsInjective
<1>3. f \in Surjection(1..n, 1..n)
  <2>1. IsFiniteSet(1..n)
    BY FS_Interval
  <2> QED BY Zenon, <1>2, <2>1, FS_Injection
<1> QED BY <1>1, <1>3 DEF Surjection

\* What compute_latency_stats reports for a percentile is one: the sample at the
\* nearest rank of the sorted samples.
LEMMA NearestSample ==
  ASSUME NEW n \in Nat \ {0}, NEW s \in [1..n -> Nat], NEW p \in 1..100
  PROVE  IsPercentile(sort(s)[rank(n, p)], p, s)
<1> DEFINE r == rank(n, p)
           i == CHOOSE i \in DOMAIN s : place(s, i) = r
           below == {j \in DOMAIN s : s[j] < s[i]}
           upto == {j \in DOMAIN s : s[j] <= s[i]}
<1>1. r \in 1..n /\ 100 * r >= n * p /\ 100 * (r - 1) < n * p
  BY Zenon, NearestRank
<1>2. DOMAIN s = 1..n /\ Len(s) = n
  BY DEF Len
<1> HIDE DEF r
<1>3. i \in 1..n /\ place(s, i) = r
  <2>1. \E j \in DOMAIN s : place(s, j) = r
    <3>1. n \in Nat /\ r \in 1..n
      BY <1>1
    <3>2. \E j \in 1..n : place(s, j) = r
      BY <3>1, EveryPlace
    <3> QED BY Zenon, <1>2, <3>2
  <2> QED BY <1>2, <2>1
<1>4. sort(s)[r] = s[i]
  BY Zenon, <1>1, <1>2 DEF sort
<1> HIDE DEF i
<1> DEFINE U == UpToPlace(s, i)
<1>5. IsFiniteSet(U) /\ Cardinality(U) = r /\ U \subseteq 1..n /\ i \in U
  <2>1. IsFiniteSet(U) /\ Cardinality(U) = r /\ U \subseteq 1..n
    BY Zenon, <1>3, Places
  <2>2. i \in U
    BY <1>3 DEF UpToPlace
  <2> QED BY <2>1, <2>2
<1>6. U \subseteq upto /\ below \subseteq U \ {i} /\ upto \subseteq 1..n
  BY <1>2, <1>3 DEF UpToPlace
<1>7. Cardinality(upto) \in Nat /\ Cardinality(upto) >= r
  <2> HIDE DEF U, upto
  <2>0. IsFiniteSet(1..n)
    BY FS_Interval
  <2>1. IsFiniteSet(upto)
    BY Zenon, <1>6, <2>0, FS_Subset
  <2>2. Cardinality(upto) \in Nat
    BY <2>1, FS_CardinalityType
  <2>3. Cardinality(U) <= Cardinality(upto)
    BY Zenon, <1>6, <2>1, FS_Subset
  <2> QED BY <1>1, <1>5, <2>2, <2>3
<1>8. Cardinality(below) \in Nat /\ Cardinality(below) <= r - 1
  <2> HIDE DEF U, below
  <2>1. IsFiniteSet(U \ {i}) /\ Cardinality(U \ {i}) = r - 1
    BY Zenon, <1>5, FS_RemoveElement
  <2>2. IsFiniteSet(below) /\ Cardinality(below) <= Cardinality(U \ {i})
    BY Zenon, <1>6, <2>1, FS_Subset
  <2>3. Cardinality(below) \in Nat
    BY <2>2, FS_CardinalityType
  <2> QED BY <2>1, <2>2, <2>3
<1>9. 100 * Cardinality(upto) >= p * n /\ 100 * Cardinality(below) < p * n
  <2> DEFINE a == Cardinality(upto)
             b == Cardinality(below)
             m == n * p
  <2>1. a \in Nat /\ b \in Nat /\ r \in Nat /\ m \in Nat /\ p * n = m /\ a >= r /\ b <= r - 1
    BY <1>1, <1>7, <1>8
  <2>2. 100 * r >= m /\ 100 * (r - 1) < m
    BY <1>1
  <2> HIDE DEF a, b, m
  <2>3. 100 * a >= m /\ 100 * b < m
    BY <2>1, <2>2
  <2> QED BY Zenon, <2>1, <2>3 DEF a, b
<1>10. IsPercentile(s[i], p, s)
  BY Zenon, <1>2, <1>9 DEF IsPercentile
<1> QED BY Zenon, <1>4, <1>10 DEF r

-----------------------------------------------------------------------------
(***************************************************************************)
(* The arguments                                                           *)
(***************************************************************************)

\* Induction up to N, on the set of the numbers for which a formula holds.
LEMMA UpTo ==
  ASSUME NEW N \in Nat, NEW T, 0 \in T,
         \A n \in 1..N : n - 1 \in T => n \in T
  PROVE  0..N \subseteq T
<1> DEFINE Bad == (0..N) \ T
           LT == {ss \in Nat \X Nat : ss[1] < ss[2]}
<1>1. SUFFICES ASSUME Bad # {} PROVE FALSE
  OBVIOUS
<1>2. LT = OpToRel(<, Nat)
  BY Zenon DEF OpToRel
<1>3. IsWellFoundedOn(LT, Nat)
  BY Zenon, <1>2, NatLessThanWellFounded
<1>4. Bad \subseteq Nat
  OBVIOUS
<1>5. PICK m \in Bad : \A k \in Bad : ~(<<k, m>> \in LT)
  <2> HIDE DEF LT, Bad
  <2> QED BY Zenon, <1>1, <1>3, <1>4, WFMin
<1>6. m \in 1..N
  BY <1>5
<1>7. m - 1 \in 0..N /\ <<m - 1, m>> \in LT
  BY <1>6
<1>8. m - 1 \in T
  <2> HIDE DEF LT
  <2>1. m - 1 \notin Bad
    BY Zenon, <1>5, <1>7
  <2> QED BY <1>7, <2>1
<1> QED BY <1>5, <1>6, <1>8

\* f is defined by recursion up to N: it begins with v and goes on by step.
Recursive(f, N, v, step) ==
  f[0] = v /\ \A i \in 1..N : f[i] = step[i][f[i - 1]]

\* Such a function exists.
LEMMA Recursion ==
  ASSUME NEW N \in Nat, NEW V, NEW v \in V, NEW step \in [1..N -> [V -> V]]
  PROVE  \E f \in [0..N -> V] : Recursive(f, N, v, step)
<1> USE DEF Recursive
<1> DEFINE Has(m) == \E f \in [0..m -> V] :
                       f[0] = v /\ \A i \in 1..m : f[i] = step[i][f[i - 1]]
           T == {m \in 0..N : Has(m)}
<1>1. 0 \in T
  <2> DEFINE f == [i \in 0..0 |-> v]
  <2>1. f \in [0..0 -> V] /\ f[0] = v /\ \A i \in 1..0 : f[i] = step[i][f[i - 1]]
    OBVIOUS
  <2>2. Has(0)
    <3> HIDE DEF f
    <3> QED BY <2>1
  <2> HIDE DEF Has
  <2> QED BY <2>2
<1>2. ASSUME NEW n \in 1..N, n - 1 \in T PROVE n \in T
  <2>1. PICK g \in [0..(n - 1) -> V] :
          g[0] = v /\ \A i \in 1..(n - 1) : g[i] = step[i][g[i - 1]]
    BY <1>2
  <2> DEFINE w == step[n][g[n - 1]]
             f == [i \in 0..n |-> IF i = n THEN w ELSE g[i]]
  <2>2. g[n - 1] \in V /\ step[n] \in [V -> V]
    BY <2>1
  <2>3. w \in V
    BY <2>2
  <2> HIDE DEF w, T, Has
  <2>4. f \in [0..n -> V] /\ f[0] = v /\ f[n] = w /\ \A i \in 0..(n - 1) : f[i] = g[i]
    BY <2>1, <2>3
  <2> HIDE DEF f
  <2>5. \A i \in 1..n : f[i] = step[i][f[i - 1]]
    <3> TAKE i \in 1..n
    <3>1. CASE i = n
      BY <2>4, <3>1 DEF w
    <3>2. CASE i # n
      BY <2>1, <2>4, <3>2
    <3> QED BY <3>1, <3>2
  <2>6. Has(n)
    BY <2>4, <2>5 DEF Has
  <2> QED BY <2>6 DEF T
<1>3. N \in T
  <2> HIDE DEF T
  <2>1. 0..N \subseteq T
    BY Zenon, <1>1, <1>2, UpTo
  <2> QED BY <2>1
<1> QED BY <1>3

\* What the parser has at any time.
Options ==
  [mode : {"shm", "tcp"}, count : Nat \ {0}, requested : Nat, payload_bytes : Nat, topic : Nat]
Results == [kind : {"run", "help", "error"}, exit_code : {0, 2}, options : Options]
Parsing == [value : BOOLEAN, result : Results]

\* A number that is accepted is positive.
LEMMA Positive ==
  ASSUME NEW t \in Token
  PROVE  parse_positive_size(t) \subseteq Nat \ {0}
<1> DEFINE v == Signed(t) % (ULongMax + 1)
<1>1. Signed(t) \in Int /\ ULongMax + 1 \in Nat \ {0}
  BY ArgsAssumption DEF Signed, Token
<1>2. v \in Nat
  BY <1>1
<1>3. parse_positive_size(t) \subseteq {v} \ {0}
  <2> HIDE DEF v
  <2>1. parse_positive_size(t) = IF t.rest \/ (t.minus /\ ~t.blank) \/ t.digits > ULongMax \/ v = 0
                                 THEN {} ELSE {v}
    BY Zenon DEF parse_positive_size, v
  <2> QED BY <2>1
<1> HIDE DEF v
<1> QED BY <1>2, <1>3

\* Every option takes a value of its type, zero excluded for the count.
LEMMA OptionTaken ==
  ASSUME NEW o \in Options, NEW t \in Token, NEW word,
         OptionOf(word) # "none", NEW v \in ValuesOf(OptionOf(word), t)
  PROVE  [o EXCEPT ![OptionOf(word)] = v] \in Options
<1>1. OptionOf(word) \in {"mode", "count", "payload_bytes", "topic"}
  BY DEF OptionOf
<1> DEFINE option == OptionOf(word)
<1>0. v \in ValuesOf(option, t) /\ option \in {"mode", "count", "payload_bytes", "topic"}
  BY <1>1
<1> HIDE DEF option
<1>2. CASE option = "mode"
  <2>1. v \in {"shm", "tcp"}
    BY <1>0, <1>2 DEF ValuesOf
  <2> QED BY <1>2, <2>1 DEF Options, option
<1>3. CASE option = "count"
  <2>1. v \in Nat \ {0}
    BY <1>0, <1>3, Positive DEF ValuesOf
  <2> QED BY <1>3, <2>1 DEF Options, option
<1>4. CASE option = "payload_bytes"
  <2>1. v \in Nat
    BY <1>0, <1>4, Positive DEF ValuesOf
  <2> QED BY <1>4, <2>1 DEF Options, option
<1>5. CASE option = "topic"
  <2>1. v \in Nat
    BY <1>0, <1>5 DEF ValuesOf, Token
  <2> QED BY <1>5, <2>1 DEF Options, option
<1> QED BY <1>0, <1>2, <1>3, <1>4, <1>5

\* The defaults are in order, and so are the results that carry them.
LEMMA Defaults ==
  /\ BenchOptions \in Options /\ help_result \in Results /\ error_result \in Results
  /\ Result("run", 0) \in Results
  /\ help_result.kind = "help" /\ error_result.kind = "error"
BY ArgsAssumption DEF BenchOptions, Options, Results, help_result, error_result, Result

\* A round of the loop keeps what the parser has in order.
LEMMA ParseRound ==
  ASSUME NEW args \in Seq(Token), NEW acc \in Parsing, NEW i \in 1..Len(args)
  PROVE  ParseOption(args, acc, i) \in Parsing
<1> DEFINE option == OptionOf(args[i].word)
           values == ValuesOf(option, args[i + 1])
           w == CHOOSE v \in values : TRUE
           taken == [acc EXCEPT !.value = TRUE, !.result.options[option] = w]
<1>1. /\ [acc EXCEPT !.value = FALSE] \in Parsing /\ [acc EXCEPT !.result = help_result] \in Parsing
      /\ [acc EXCEPT !.result = error_result] \in Parsing
  BY Zenon, Defaults DEF Parsing
<1>2. ASSUME option # "none", i # Len(args), values # {} PROVE taken \in Parsing
  <2>1. args[i + 1] \in Token /\ w \in values
    BY <1>2
  <2>2. acc.result.options \in Options
    BY DEF Parsing, Results
  <2> HIDE DEF w
  <2>3. [acc.result.options EXCEPT ![option] = w] \in Options
    BY Zenon, <1>2, <2>1, <2>2, OptionTaken
  <2> DEFINE o == [acc.result.options EXCEPT ![option] = w]
  <2>4. taken = [acc EXCEPT !.value = TRUE, !.result = [acc.result EXCEPT !.options = o]]
    BY DEF Parsing, Results
  <2> HIDE DEF o
  <2>5. o \in Options
    BY <2>3 DEF o
  <2>6. [acc.result EXCEPT !.options = o] \in Results
    BY <2>5 DEF Parsing, Results
  <2> HIDE DEF taken
  <2> QED BY Zenon, <2>4, <2>6 DEF Parsing
<1>3. \/ ParseOption(args, acc, i) \in {acc, [acc EXCEPT !.value = FALSE],
                [acc EXCEPT !.result = help_result], [acc EXCEPT !.result = error_result]}
      \/ /\ option # "none" /\ i # Len(args) /\ values # {}
         /\ ParseOption(args, acc, i) = taken
  BY Zenon DEF ParseOption
<1> HIDE DEF option, values, taken
<1> QED BY Zenon, <1>1, <1>2, <1>3

\* Whatever the arguments are, the loop ends with options that are in order.
LEMMA ParseEnds ==
  ASSUME NEW args \in Seq(Token)
  PROVE  parse_options(args) \in Results
<1> DEFINE N == Len(args)
           first == [value |-> FALSE, result |-> Result("run", 0)]
           Is(f) == f = [i \in 0..N |-> IF i = 0 THEN first ELSE ParseOption(args, f[i - 1], i)]
           acc == CHOOSE f : Is(f)
           step == [i \in 1..N |-> [x \in Parsing |-> ParseOption(args, x, i)]]
<1>0. N \in Nat /\ first \in Parsing
  BY Defaults DEF Parsing
<1> HIDE DEF first
<1>1. PICK g \in [0..N -> Parsing] : Recursive(g, N, first, step)
  <2>1. step \in [1..N -> [Parsing -> Parsing]]
    BY ParseRound
  <2> HIDE DEF step, N
  <2> QED BY Zenon, <1>0, <2>1, Recursion
<1>2. Is(g)
  <2>1. \A i \in 1..N, x \in Parsing : step[i][x] = ParseOption(args, x, i)
    OBVIOUS
  <2> HIDE DEF step, N
  <2>2. ASSUME NEW i \in 1..N PROVE g[i] = ParseOption(args, g[i - 1], i)
    <3>1. g[i - 1] \in Parsing
      BY <1>0, <1>1
    <3> QED BY <1>1, <2>1, <3>1 DEF Recursive
  <2>3. \A i \in 0..N : g[i] = IF i = 0 THEN first ELSE ParseOption(args, g[i - 1], i)
    <3>1. \A i \in 0..N : i = 0 \/ i \in 1..N
      BY <1>0
    <3> QED BY Zenon, <1>1, <2>2, <3>1 DEF Recursive
  <2>4. g = [i \in 0..N |-> g[i]]
    BY <1>1
  <2> QED BY <2>3, <2>4
<1>3. Is(acc)
  <2> HIDE DEF Is
  <2> QED BY <1>2
<1>4. parse_options(args) = acc[N].result
  BY Zenon DEF parse_options, first
<1> HIDE DEF acc, N, step
<1>5. \A i \in 0..N : acc[i] = IF i = 0 THEN first ELSE ParseOption(args, acc[i - 1], i)
  BY Zenon, <1>3
<1>6. \A i \in 0..N : acc[i] \in Parsing
  <2> DEFINE T == {i \in 0..N : acc[i] \in Parsing}
  <2>1. 0 \in T
    BY <1>0, <1>5
  <2>2. ASSUME NEW i \in 1..N, i - 1 \in T PROVE i \in T
    <3>1. i \in 0..N /\ i # 0 /\ acc[i - 1] \in Parsing
      BY <1>0, <2>2
    <3>2. ParseOption(args, acc[i - 1], i) \in Parsing
      BY <3>1, ParseRound DEF N
    <3>3. acc[i] = ParseOption(args, acc[i - 1], i)
      BY Zenon, <1>5, <3>1
    <3> QED BY <3>1, <3>2, <3>3
  <2> HIDE DEF T
  <2>3. 0..N \subseteq T
    BY Zenon, <1>0, <2>1, <2>2, UpTo
  <2> QED BY <2>3 DEF T
<1>7. acc[N] \in Parsing
  BY <1>0, <1>6
<1> QED BY <1>4, <1>7 DEF Parsing

\* Options that were accepted: of their types, the payload large enough for the
\* longest run id, the last sequence number and any time, and the message that
\* results small enough for the route.
Accepted(o) ==
  /\ o \in Options
  /\ o.payload_bytes >= minimum_benchmark_payload_bytes(kMaxBenchmarkRunIdBytes, o.count)
  /\ Fits(o)

\* The powers and the limits are finitely many numbers.
LEMMA Limits ==
  /\ IsFiniteSet(TensPowers) /\ TensPowers \subseteq Nat
  /\ IsFiniteSet(VarintLimits) /\ VarintLimits \subseteq Nat
<1>1. TensPowers \subseteq Nat /\ VarintLimits \subseteq Nat
  BY DEF TensPowers, Tens, VarintLimits
<1>2. ASSUME NEW a, NEW b, NEW c PROVE IsFiniteSet({a, b, c})
  <2>1. IsFiniteSet({a}) /\ IsFiniteSet({b}) /\ IsFiniteSet({c})
    BY Zenon, FS_Singleton
  <2>2. IsFiniteSet({a} \cup {b})
    BY Zenon, <2>1, FS_Union
  <2>3. IsFiniteSet(({a} \cup {b}) \cup {c})
    BY Zenon, <2>1, <2>2, FS_Union
  <2>4. {a, b, c} = ({a} \cup {b}) \cup {c}
    BY Zenon
  <2> QED BY Zenon, <2>3, <2>4
<1>3. IsFiniteSet(VarintLimits)
  BY ZenonT(30), <1>2 DEF VarintLimits
<1>4. ASSUME NEW a, NEW b, NEW c PROVE IsFiniteSet(Tens(a) \cup Tens(b) \cup Tens(c))
  <2>1. IsFiniteSet(Tens(a)) /\ IsFiniteSet(Tens(b)) /\ IsFiniteSet(Tens(c))
    BY Zenon, <1>2 DEF Tens
  <2>2. IsFiniteSet(Tens(a) \cup Tens(b))
    BY Zenon, <2>1, FS_Union
  <2> QED BY Zenon, <2>1, <2>2, FS_Union
<1>5. IsFiniteSet(TensPowers)
  BY <1>4 DEF TensPowers
<1> QED BY <1>1, <1>3, <1>5

\* No more limits are below a number than below a greater one.
LEMMA LimitsBelow ==
  ASSUME NEW S, IsFiniteSet(S), S \subseteq Nat, NEW m \in Nat, NEW n \in Nat, m <= n
  PROVE  /\ Cardinality({p \in S : p <= m}) \in Nat /\ Cardinality({p \in S : p <= n}) \in Nat
         /\ Cardinality({p \in S : p <= m}) <= Cardinality({p \in S : p <= n})
<1> DEFINE P(k) == {p \in S : p <= k}
<1>0. \A p \in S : p <= m => p <= n
  OBVIOUS
<1>1. P(m) \subseteq P(n) /\ P(n) \subseteq S
  BY Zenon, <1>0
<1> HIDE DEF P
<1>2. IsFiniteSet(P(n))
  BY Zenon, <1>1, FS_Subset
<1>3. IsFiniteSet(P(m)) /\ Cardinality(P(m)) <= Cardinality(P(n))
  BY Zenon, <1>1, <1>2, FS_Subset
<1>4. Cardinality(P(m)) \in Nat /\ Cardinality(P(n)) \in Nat
  BY Zenon, <1>2, <1>3, FS_CardinalityType
<1> QED BY Zenon, <1>3, <1>4 DEF P

\* A number has no more digits than a greater one.
LEMMA DigitsGrow ==
  ASSUME NEW m \in Nat, NEW n \in Nat, m <= n
  PROVE  DigitCount(m) \in Nat /\ DigitCount(n) \in Nat /\ DigitCount(m) <= DigitCount(n)
<1> DEFINE c == Cardinality({p \in TensPowers : p <= m})
           d == Cardinality({p \in TensPowers : p <= n})
<1>1. c \in Nat /\ d \in Nat /\ c <= d
  BY Zenon, Limits, LimitsBelow
<1>2. DigitCount(m) = 1 + c /\ DigitCount(n) = 1 + d
  BY Zenon DEF DigitCount
<1> HIDE DEF c, d
<1> QED BY <1>1, <1>2

\* The length of a field takes a number of bytes.
LEMMA VarintType ==
  ASSUME NEW n \in Nat
  PROVE  Varint(n) \in Nat
<1> DEFINE c == Cardinality({p \in VarintLimits : p <= n})
<1>1. n <= n
  OBVIOUS
<1>2. c \in Nat
  BY Zenon, <1>1, Limits, LimitsBelow
<1>3. Varint(n) = 1 + c
  BY Zenon DEF Varint
<1> HIDE DEF c
<1> QED BY <1>2, <1>3

\* The payload that make_benchmark_payload begins with is as long as its parts.
LEMMA Metadata ==
  ASSUME NEW run_id \in Nat, NEW n \in Nat, NEW time \in Nat, NEW bytes \in Nat
  PROVE  /\ DigitCount(n) \in Nat
         /\ payload_size(run_id, n, time, bytes) =
              IF run_id + DigitCount(n) + time + 3 < bytes
              THEN bytes ELSE run_id + DigitCount(n) + time + 3
<1>1. n <= n
  OBVIOUS
<1>2. DigitCount(n) \in Nat
  BY Zenon, <1>1, DigitsGrow
<1>3. run_id + 1 + DigitCount(n) + 1 + time + 1 = run_id + DigitCount(n) + time + 3
  BY <1>2
<1>4. payload_size(run_id, n, time, bytes) =
        IF run_id + DigitCount(n) + time + 3 < bytes
        THEN bytes ELSE run_id + DigitCount(n) + time + 3
  BY Zenon, <1>3 DEF payload_size
<1> QED BY Zenon, <1>2, <1>4

\* Without padding it has just the parts, and room for those of any message.
LEMMA Minimum ==
  ASSUME NEW count \in Nat \ {0}
  PROVE  /\ DigitCount(count - 1) \in Nat
         /\ minimum_benchmark_payload_bytes(kMaxBenchmarkRunIdBytes, count) =
              kMaxBenchmarkRunIdBytes + DigitCount(count - 1) + MaxDigits + 3
         /\ minimum_benchmark_payload_bytes(kMaxBenchmarkRunIdBytes, count) \in Nat
<1> DEFINE m == kMaxBenchmarkRunIdBytes + 1 + DigitCount(count - 1) + 1 + MaxDigits + 1
<1>1. count - 1 \in Nat /\ count - 1 <= count - 1 /\ count # 0
  OBVIOUS
<1>2. DigitCount(count - 1) \in Nat
  BY Zenon, <1>1, DigitsGrow
<1>3. minimum_benchmark_payload_bytes(kMaxBenchmarkRunIdBytes, count) = IF m < 0 THEN 0 ELSE m
  BY Zenon, <1>1 DEF minimum_benchmark_payload_bytes, payload_size
<1>4. m \in Nat /\ m = kMaxBenchmarkRunIdBytes + DigitCount(count - 1) + MaxDigits + 3
  BY <1>2 DEF kMaxBenchmarkRunIdBytes, MaxDigits
<1> HIDE DEF m
<1> QED BY <1>2, <1>3, <1>4

\* What parse_bench_args lets through is accepted.
LEMMA ParseAccepts ==
  ASSUME NEW args \in Seq(Token), parse_bench_args(args).kind = "run"
  PROVE  Accepted(parse_bench_args(args).options)
<1> DEFINE parsed == parse_options(args)
           requested == parsed.options.payload_bytes
           limit == IF parsed.options.mode = "shm" THEN kShmSlotCapacity ELSE MAX_PAYLOAD_SIZE
           payload == effective_benchmark_payload_bytes(requested, parsed.options.count)
           options0 == [parsed.options EXCEPT !.requested = requested, !.payload_bytes = payload]
           minimum == minimum_benchmark_payload_bytes(kMaxBenchmarkRunIdBytes, parsed.options.count)
<1>1. parse_bench_args(args) = IF parsed.kind # "run" THEN parsed
                               ELSE IF payload > limit THEN error_result
                               ELSE IF ~Fits(options0) THEN error_result
                               ELSE [parsed EXCEPT !.options = options0]
  BY Zenon DEF parse_bench_args
<1>2. parsed \in Results /\ parsed.options \in Options /\ requested \in Nat
      /\ parsed.options.count \in Nat \ {0}
  <2>1. parsed \in Results
    BY ParseEnds
  <2> HIDE DEF parsed
  <2> QED BY <2>1 DEF Results, Options
<1>3. error_result.kind = "error"
  BY Defaults
<1>4. minimum \in Nat
  <2> HIDE DEF parsed
  <2> QED BY Zenon, <1>2, Minimum
<1>5. payload = IF requested < minimum THEN minimum ELSE requested
  BY Zenon DEF effective_benchmark_payload_bytes
<1> HIDE DEF parsed, minimum, payload
<1>6. payload \in Nat /\ payload >= minimum
  BY <1>2, <1>4, <1>5
<1>7. /\ options0 \in Options /\ options0.payload_bytes = payload
      /\ options0.count = parsed.options.count
  BY Zenon, <1>2, <1>6 DEF Options
<1> HIDE DEF options0, limit
<1>8. parsed.kind = "run" /\ Fits(options0) /\ parse_bench_args(args).options = options0
  BY <1>1, <1>2, <1>3 DEF Results
<1> QED BY Zenon, <1>6, <1>7, <1>8 DEF Accepted, minimum

\* While main runs, its options are accepted ones; before, its arguments are such.
ArgsInv ==
  /\ pc = "args" => argv \in Seq(Token)
  /\ Started => Accepted(options)

\* Only ParseArgs sets them.
LEMMA ArgsStep ==
  ASSUME ArgsInv, [Next]_vars
  PROVE  ArgsInv'
<1>1. CASE ParseArgs
  <2> DEFINE parsed == parse_bench_args(argv)
  <2>1. argv \in Seq(Token) /\ pc' # "args"
    BY <1>1 DEF ParseArgs, ArgsInv
  <2>2. Started' => parsed.kind = "run" /\ options' = parsed.options
    BY <1>1 DEF ParseArgs, Started
  <2>3. parsed.kind = "run" => Accepted(parsed.options)
    BY Zenon, <2>1, ParseAccepts
  <2> HIDE DEF parsed
  <2>4. Started' => Accepted(options')
    BY Zenon, <2>2, <2>3
  <2> QED BY Zenon, <2>1, <2>4 DEF ArgsInv, Accepted
<1>2. CASE ~ParseArgs
  <2>1. UNCHANGED <<argv, options>> /\ (pc' = "args" => pc = "args") /\ (Started' => Started)
    BY Zenon, <1>2 DEF Next, Main, Publish, PublishStops, FlowControl, Drain, Report, Callback, Read,
                Write, Connect, Disconnect, ForeignMessage, DeadlinePasses, Continue, Published, Started, mainVars, vars
  <2> QED BY Zenon, <2>1 DEF ArgsInv, Accepted
<1> QED BY <1>1, <1>2

\* At first there are only arguments.
LEMMA ArgsInvariant == Spec => []ArgsInv
<1>1. Init => ArgsInv
  BY BenchAssumption DEF Init, ArgsInv, Started
<1>2. ArgsInv /\ [Next]_vars => ArgsInv'
  BY ArgsStep
<1> QED BY <1>1, <1>2, PTL DEF Spec

\* Accepted arguments are good for the whole run, for every count, topic and size
\* there may be: all messages have the size that is reported, and none is too long
\* for the slot or the frame.
THEOREM PayloadFitsHolds == Spec => []PayloadFits
<1>1. ArgsInv => PayloadFits
  <2> SUFFICES ASSUME ArgsInv, Started PROVE PayloadFits
    BY DEF PayloadFits
  <2>1. Accepted(options)
    BY Zenon DEF ArgsInv
  <2> DEFINE bytes == options.payload_bytes
  <2>2. /\ Count \in Nat \ {0} /\ bytes \in Nat /\ options.topic \in Nat
        /\ options.mode \in {"shm", "tcp"}
    BY <2>1 DEF Accepted, Options, Count
  <2>3. bytes >= kMaxBenchmarkRunIdBytes + DigitCount(Count - 1) + MaxDigits + 3
    BY Zenon, <2>1, <2>2, Minimum DEF Accepted, Count
  <2>4. ASSUME NEW run_id \in {5, 42}, NEW n \in SequenceNumbers, NEW time \in {1, MaxDigits}
        PROVE  payload_size(run_id, n, time, bytes) = bytes
    <3>1. n \in Nat /\ Count - 1 \in Nat /\ n <= Count - 1
      BY <2>2 DEF SequenceNumbers
    <3>2. DigitCount(n) \in Nat /\ DigitCount(Count - 1) \in Nat /\ DigitCount(n) <= DigitCount(Count - 1)
      BY <3>1, DigitsGrow
    <3>3. run_id \in Nat /\ time \in Nat /\ time <= MaxDigits /\ run_id < kMaxBenchmarkRunIdBytes
      BY DEF MaxDigits, kMaxBenchmarkRunIdBytes
    <3>4. run_id + DigitCount(n) + time + 3 < bytes
      BY <2>2, <2>3, <3>2, <3>3 DEF MaxDigits, kMaxBenchmarkRunIdBytes
    <3> QED BY Zenon, <2>2, <3>1, <3>3, <3>4, Metadata
  <2> DEFINE message == 1 + Varint(bytes) + bytes
             topic == IF options.topic = 0 THEN 0 ELSE 1 + Varint(options.topic) + options.topic
  <2>5. message \in Nat \ {0} /\ bytes # 0
    <3>1. Varint(bytes) \in Nat
      BY <2>2, VarintType
    <3>2. DigitCount(Count - 1) \in Nat
      BY <2>2, DigitsGrow
    <3> QED BY <2>2, <2>3, <3>1, <3>2 DEF MaxDigits, kMaxBenchmarkRunIdBytes
  <2>6. serialized_string_message_size(bytes) = message
    BY Zenon, <2>5 DEF serialized_string_message_size, FieldSize
  <2>7. tcp_frame_payload_size(options.topic, bytes) = topic + (1 + Varint(message) + message)
    <3> HIDE DEF message
    <3> QED BY <2>5, <2>6 DEF tcp_frame_payload_size, FieldSize
  <2>8. IF options.mode = "shm" THEN message <= kShmSlotCapacity
        ELSE topic + (1 + Varint(message) + message) <= MAX_PAYLOAD_SIZE
    BY Zenon, <2>1, <2>6, <2>7 DEF Accepted, Fits
  <2>9. topic + (1 + Varint(message) + message) = topic + 1 + Varint(message) + message
    <3>1. Varint(message) \in Nat
      BY <2>5, VarintType
    <3>2. topic \in Nat
      BY <2>2, VarintType
    <3> HIDE DEF message, topic
    <3> QED BY <2>5, <3>1, <3>2
  <2>10. IF options.mode = "shm" THEN message <= kShmSlotCapacity
         ELSE topic + 1 + Varint(message) + message <= MAX_PAYLOAD_SIZE
    BY Zenon, <2>8, <2>9
  <2> QED BY Zenon, <2>4, <2>10 DEF PayloadFits
<1> QED BY <1>1, ArgsInvariant, PTL

-----------------------------------------------------------------------------
(***************************************************************************)
(* The report                                                              *)
(***************************************************************************)

\* The report is that of the samples received and of how main went.
Reported ==
  \E samples \in [1..received_count -> Latencies] :
    report = [samples |-> samples, stats |-> compute_latency_stats(samples),
              exit_code |-> IF publish_failed \/ received_count # Count THEN 1 ELSE 0]

\* Nothing is under way before main starts; what is seen is of this run and was
\* received; main leaves its loop with all messages published, or knows that it
\* has not; and once it has reported, nothing more is accepted.
ReportInv ==
  /\ ring \in Seq(Messages) /\ queue \in Seq(Messages)
  /\ published \in Nat /\ foreign \in Nat
  /\ pc = "args" => ~up /\ ring = <<>> /\ queue = <<>> /\ seen = {} /\ published = 0
  /\ Started => seen \subseteq SequenceNumbers
  /\ \A n \in seen : Own(n) \in got
  /\ pc = "publish" => published < Count
  /\ pc \in {"claimed", "flow"} => published <= Count
  /\ pc \in {"drain", "report", "done"} /\ ~publish_failed => published = Count
  /\ pc = "done" => ~accepting /\ Reported

\* At first nothing is under way.
LEMMA InitReport == Init => ReportInv
BY DEF Init, ReportInv, Started

\* The options make a run of a message at least.
LEMMA CountPositive ==
  ASSUME ArgsInv, Started
  PROVE  Count \in Nat \ {0}
BY DEF ArgsInv, Accepted, Options, Count

\* main starts with nothing published or received.
LEMMA ParseArgsReports ==
  ASSUME ReportInv, ArgsInv', ParseArgs
  PROVE  ReportInv'
<1>1. /\ pc = "args" /\ pc' \in {"exited", "publish"} /\ seen' = seen /\ got' = got
      /\ published' = published /\ ring' = ring /\ queue' = queue /\ foreign' = foreign
  BY DEF ParseArgs, routeVars
<1>2. seen' = {} /\ published' = 0
  BY <1>1 DEF ReportInv
<1>3. pc' = "publish" => Count' \in Nat \ {0}
  BY <1>1 DEF ArgsInv, Started, Accepted, Options, Count
<1>4. pc' = "publish" => published' < Count'
  BY <1>2, <1>3
<1>5. ring' \in Seq(Messages) /\ queue' \in Seq(Messages) /\ published' \in Nat /\ foreign' \in Nat
  BY <1>1 DEF ReportInv
<1> QED BY <1>1, <1>2, <1>4, <1>5 DEF ReportInv

\* The steps of main in its loop and its waits: what is received stays the same,
\* and the loop is left with everything published, or with publish_failed.
LEMMA MainReports ==
  ASSUME ReportInv, ArgsInv,
         pc \in {"publish", "claimed", "flow", "drain"},
         pc' \in {"publish", "claimed", "flow", "drain", "report"},
         seen' = seen, got' = got, options' = options, queue' = queue, foreign' = foreign,
         ring' \in Seq(Messages), published' \in Nat,
         pc' = "publish" => published' < Count,
         pc' \in {"claimed", "flow"} => published' <= Count,
         pc' \in {"drain", "report"} /\ ~publish_failed' => published' = Count
  PROVE  ReportInv'
<1>1. Count' = Count /\ SequenceNumbers' = SequenceNumbers /\ Started
  BY DEF Count, SequenceNumbers, Started
<1>2. seen \subseteq SequenceNumbers /\ queue \in Seq(Messages) /\ foreign \in Nat
      /\ \A n \in seen : Own(n) \in got
  BY Zenon, <1>1 DEF ReportInv
<1>3. pc' \notin {"args", "done"}
  OBVIOUS
<1>4. \A n \in seen' : Own(n) \in got'
  BY Zenon, <1>2
<1> HIDE DEF Started, SequenceNumbers, Count
<1> QED BY <1>1, <1>2, <1>3, <1>4 DEF ReportInv

\* publish counts up to the number of messages.
LEMMA PublishReports ==
  ASSUME ReportInv, ArgsInv, Publish
  PROVE  ReportInv'
<1>1. pc = "publish" /\ published \in Nat /\ published < Count /\ published' = published + 1
  BY DEF Publish, ReportInv
<1>2. Count \in Nat
  BY <1>1, CountPositive DEF Started
<1>3. ring' \in Seq(Messages)
  <2>1. Own(published) \in Messages
    BY <1>1, OwnMessage
  <2>2. ring \in Seq(Messages)
    BY DEF ReportInv
  <2>3. Append(ring, Own(published)) \in Seq(Messages)
    BY <2>1, <2>2
  <2> QED BY <2>2, <2>3 DEF Publish
<1>4. published' \in Nat /\ published' <= Count /\ (pc' = "claimed" \/ pc' = Published(published'))
  BY <1>1, <1>2 DEF Publish
<1>5. pc' \in {"claimed", "flow", "publish", "drain"} /\ (pc' = "publish" => published' < Count)
  BY <1>4, PublishedFacts
<1>6. pc' = "drain" => published' = Count
  <2>1. pc' = "drain" => ~(published' < Count)
    BY Zenon, <1>4, PublishedFacts
  <2> QED BY <1>2, <1>4, <2>1
<1>7. seen' = seen /\ got' = got /\ options' = options /\ queue' = queue /\ foreign' = foreign
  BY DEF Publish
<1> QED BY <1>1, <1>3, <1>4, <1>5, <1>6, <1>7, MainReports

\* The message that was claimed is written.
LEMMA WriteReports ==
  ASSUME ReportInv, ArgsInv, Write
  PROVE  ReportInv'
<1>1. /\ pc = "claimed" /\ pc' = Published(published) /\ published' = published
      /\ seen' = seen /\ got' = got /\ options' = options /\ queue' = queue
      /\ foreign' = foreign /\ ring' = ring
  BY DEF Write, routeVars
<1>2. ring' \in Seq(Messages) /\ published \in Nat /\ published <= Count
  BY <1>1 DEF ReportInv
<1>3. Count \in Nat
  BY <1>1, CountPositive DEF Started
<1>4. pc' \in {"flow", "publish", "drain"} /\ (pc' = "publish" => published < Count)
  BY <1>1, <1>2, PublishedFacts
<1>5. pc' = "drain" => published = Count
  <2>1. pc' = "drain" => ~(published < Count)
    BY Zenon, <1>1, <1>2, PublishedFacts
  <2> QED BY <1>2, <1>3, <2>1
<1> QED BY <1>1, <1>2, <1>4, <1>5, MainReports

\* The waits of main.
LEMMA WaitsReport ==
  ASSUME ReportInv, ArgsInv, PublishStops \/ FlowControl \/ Drain
  PROVE  ReportInv'
<1>1. /\ published' = published /\ seen' = seen /\ got' = got /\ options' = options
      /\ queue' = queue /\ foreign' = foreign /\ ring' = ring
  BY DEF PublishStops, FlowControl, Drain, routeVars
<1>2. ring' \in Seq(Messages) /\ published' \in Nat
  BY <1>1 DEF ReportInv
<1>3. CASE PublishStops
  BY <1>1, <1>2, <1>3, MainReports DEF PublishStops
<1>4. CASE FlowControl
  <2>1. published \in Nat /\ published <= Count /\ pc = "flow"
    BY <1>4 DEF FlowControl, ReportInv
  <2>2. Count \in Nat
    BY <2>1, CountPositive DEF Started
  <2>3. pc' \in {"publish", "drain"} /\ (pc' = "publish" => published < Count)
    BY <1>4 DEF FlowControl, Continue
  <2>4. pc' = "drain" /\ ~publish_failed' => published = Count
    BY <1>4, <2>1, <2>2 DEF FlowControl, Continue
  <2> QED BY <1>1, <1>2, <2>1, <2>3, <2>4, MainReports
<1>5. CASE Drain
  <2>1. pc = "drain" /\ pc' = "report" /\ publish_failed' = publish_failed
    BY <1>5 DEF Drain
  <2>2. ~publish_failed => published = Count
    BY <2>1 DEF ReportInv
  <2> QED BY <1>1, <1>2, <2>1, <2>2, MainReports
<1> QED BY <1>3, <1>4, <1>5

\* The report is made of what is received so far, and ends the acceptance.
LEMMA ReportReports ==
  ASSUME ReportInv, Report
  PROVE  ReportInv'
<1>1. /\ pc = "report" /\ pc' = "done" /\ ~accepting' /\ Started /\ published' = published
      /\ seen' = seen /\ got' = got /\ options' = options /\ queue' = queue
      /\ foreign' = foreign /\ ring' = ring /\ publish_failed' = publish_failed
  BY DEF Report, routeVars, Started
<1>2. received_count' = received_count /\ Count' = Count /\ SequenceNumbers' = SequenceNumbers
  BY Zenon, <1>1 DEF received_count, Count, SequenceNumbers
<1>3. Reported'
  <2> DEFINE of(s) == [samples |-> s, stats |-> compute_latency_stats(s),
                       exit_code |-> IF publish_failed \/ received_count # Count THEN 1 ELSE 0]
  <2>1. PICK samples \in [1..received_count -> Latencies] : report' = of(samples)
    BY Zenon DEF Report
  <2>2. Reported' = \E s \in [1..received_count' -> Latencies] :
                      report' = [samples |-> s, stats |-> compute_latency_stats(s),
                        exit_code |-> IF publish_failed' \/ received_count' # Count' THEN 1 ELSE 0]
    BY Zenon DEF Reported
  <2>3. Reported' = \E s \in [1..received_count -> Latencies] : report' = of(s)
    BY Zenon, <1>1, <1>2, <2>2
  <2> HIDE DEF of
  <2> QED BY Zenon, <2>1, <2>3
<1>4. /\ ring' \in Seq(Messages) /\ queue' \in Seq(Messages) /\ published' \in Nat
      /\ foreign' \in Nat /\ seen' \subseteq SequenceNumbers'
      /\ (~publish_failed' => published' = Count')
  BY <1>1, <1>2 DEF ReportInv
<1>5. \A n \in seen' : Own(n) \in got'
  BY Zenon, <1>1 DEF ReportInv
<1> HIDE DEF SequenceNumbers, Count, Reported
<1> QED BY <1>1, <1>3, <1>4, <1>5 DEF ReportInv

\* What the world around main does, if no sample is added: the report stays true.
LEMMA WorldReports ==
  ASSUME ReportInv, pc' = pc, published' = published, options' = options, report' = report,
         publish_failed' = publish_failed, accepting' = accepting, seen' = seen,
         got \subseteq got', ring' \in Seq(Messages), queue' \in Seq(Messages), foreign' \in Nat,
         pc = "args" => ~up' /\ ring' = <<>> /\ queue' = <<>>
  PROVE  ReportInv'
<1>1. /\ received_count' = received_count /\ Count' = Count
      /\ SequenceNumbers' = SequenceNumbers /\ Started' = Started
  BY Zenon DEF received_count, Count, SequenceNumbers, Started
<1>2. Reported => Reported'
  BY Zenon, <1>1 DEF Reported
<1>3. \A n \in seen' : Own(n) \in got'
  BY Zenon DEF ReportInv
<1> HIDE DEF SequenceNumbers, Count, Reported, Started
<1> QED BY <1>1, <1>2, <1>3 DEF ReportInv

\* The callback adds a message of this run, which it was called with, unless the
\* report has been made.
LEMMA CallbackReports ==
  ASSUME ReportInv, ArgsInv, Callback
  PROVE  ReportInv'
<1>1. /\ pc' = pc /\ published' = published /\ options' = options /\ report' = report
      /\ publish_failed' = publish_failed /\ accepting' = accepting /\ up' = up
      /\ ring' = ring /\ foreign' = foreign /\ got' = got \cup {Head(queue)}
      /\ queue' = Tail(queue) /\ queue # <<>>
  BY DEF Callback, mainVars, routeVars
<1>2. queue \in Seq(Messages) /\ Head(queue) \in Messages /\ queue' \in Seq(Messages) /\ pc # "args"
  BY <1>1 DEF ReportInv
<1>3. ring' \in Seq(Messages) /\ foreign' \in Nat /\ got \subseteq got'
  BY <1>1 DEF ReportInv
<1>4. CASE seen' = seen
  BY <1>1, <1>2, <1>3, <1>4, WorldReports
<1>5. CASE seen' # seen
  <2> DEFINE msg == Head(queue)
  <2>1. accepting /\ msg.run = "own" /\ msg.sequence < Count /\ seen' = seen \cup {msg.sequence}
    BY <1>5 DEF Callback, record
  <2>2. pc # "done"
    BY <2>1 DEF ReportInv
  <2>3. msg.sequence \in Nat /\ msg = Own(msg.sequence)
    BY <1>2, <2>1 DEF Messages, Own
  <2> HIDE DEF msg
  <2>4. Started => seen' \subseteq SequenceNumbers
    <3> SUFFICES ASSUME Started PROVE seen' \subseteq SequenceNumbers
      OBVIOUS
    <3>1. Count \in Nat
      BY CountPositive
    <3>2. msg.sequence \in SequenceNumbers
      BY <2>1, <2>3, <3>1 DEF SequenceNumbers
    <3>3. seen \subseteq SequenceNumbers
      BY Zenon DEF ReportInv
    <3> QED BY Zenon, <2>1, <3>2, <3>3
  <2>5. \A n \in seen' : Own(n) \in got'
    <3>1. \A n \in seen : Own(n) \in got
      BY Zenon DEF ReportInv
    <3>2. msg \in got'
      BY Zenon, <1>1 DEF msg
    <3> QED BY Zenon, <1>3, <2>1, <2>3, <3>1, <3>2
  <2>6. Count' = Count /\ SequenceNumbers' = SequenceNumbers /\ Started' = Started
    BY Zenon, <1>1 DEF Count, SequenceNumbers, Started
  <2> HIDE DEF SequenceNumbers, Count, Reported, Started
  <2>7. /\ pc = "publish" => published' < Count'
        /\ pc \in {"claimed", "flow"} => published' <= Count'
        /\ pc \in {"drain", "report", "done"} /\ ~publish_failed' => published' = Count'
        /\ published' \in Nat
    BY <1>1, <2>6 DEF ReportInv
  <2> QED BY <1>1, <1>2, <1>3, <2>2, <2>4, <2>5, <2>6, <2>7 DEF ReportInv
<1> QED BY <1>4, <1>5

\* The reader, the route, the other benchmark and the clock add no sample.
LEMMA OthersReport ==
  ASSUME ReportInv,
         Read \/ Connect \/ Disconnect \/ ForeignMessage \/ DeadlinePasses \/ UNCHANGED vars
  PROVE  ReportInv'
<1>1. /\ pc' = pc /\ published' = published /\ options' = options /\ report' = report
      /\ publish_failed' = publish_failed /\ accepting' = accepting /\ seen' = seen
      /\ got' = got
  BY DEF Read, Connect, Disconnect, ForeignMessage, DeadlinePasses, vars, mainVars, routeVars
<1>2. ring \in Seq(Messages) /\ queue \in Seq(Messages) /\ foreign \in Nat
  BY DEF ReportInv
<1>3. CASE Read
  <2>1. ring # <<>> /\ foreign' = foreign
    BY <1>3 DEF Read
  <2>2. ring' \in Seq(Messages) /\ queue' \in Seq(Messages)
    BY <1>2, <1>3, ReadFacts
  <2>3. pc # "args"
    BY <2>1 DEF ReportInv
  <2> QED BY <1>1, <1>2, <2>1, <2>2, <2>3, WorldReports
<1>4. CASE ForeignMessage
  <2>1. queue' = Append(queue, Other(foreign)) /\ ring' = ring /\ foreign' = foreign + 1 /\ pc # "args"
    BY <1>4 DEF ForeignMessage, Started, routeVars
  <2>2. Other(foreign) \in Messages
    BY <1>2 DEF Other, Messages
  <2>3. queue' \in Seq(Messages) /\ foreign' \in Nat
    BY <1>2, <2>1, <2>2
  <2> QED BY <1>1, <1>2, <2>1, <2>3, WorldReports
<1>5. CASE Connect \/ DeadlinePasses \/ UNCHANGED vars
  <2>1. queue' = queue /\ ring' = ring /\ foreign' = foreign
    BY <1>5 DEF Connect, DeadlinePasses, vars, routeVars
  <2>2. pc = "args" => ~up'
    BY <1>5 DEF Connect, DeadlinePasses, vars, routeVars, Started, ReportInv
  <2>3. pc = "args" => ring = <<>> /\ queue = <<>>
    BY Zenon DEF ReportInv
  <2> QED BY <1>1, <1>2, <2>1, <2>2, <2>3, WorldReports
<1>6. CASE Disconnect
  <2>1. queue' = queue /\ ring' = <<>> /\ foreign' = foreign /\ ~up'
    BY <1>6 DEF Disconnect
  <2>2. ring' \in Seq(Messages)
    BY <2>1
  <2>3. pc = "args" => queue = <<>>
    BY Zenon DEF ReportInv
  <2> QED BY <1>1, <1>2, <2>1, <2>2, <2>3, WorldReports
<1> QED BY <1>3, <1>4, <1>5, <1>6

\* Every step keeps the report true, with the options that were accepted.
LEMMA ReportInvariant == Spec => []ReportInv
<1>1. ArgsInv /\ ArgsInv' /\ ReportInv /\ [Next]_vars => ReportInv'
  <2> SUFFICES ASSUME ArgsInv, ArgsInv', ReportInv, [Next]_vars PROVE ReportInv'
    OBVIOUS
  <2>1. CASE ParseArgs
    BY Zenon, <2>1, ParseArgsReports
  <2>2. CASE Publish
    BY Zenon, <2>2, PublishReports
  <2>3. CASE PublishStops \/ FlowControl \/ Drain
    BY Zenon, <2>3, WaitsReport
  <2>4. CASE Report
    BY Zenon, <2>4, ReportReports
  <2>5. CASE Callback
    BY ZenonT(30), <2>5, CallbackReports
  <2>6. CASE Read \/ Connect \/ Disconnect \/ ForeignMessage \/ DeadlinePasses \/ UNCHANGED vars
    BY Zenon, <2>6, OthersReport
  <2>7. CASE Write
    BY Zenon, <2>7, WriteReports
  <2> QED BY Zenon, <2>1, <2>2, <2>3, <2>4, <2>5, <2>6, <2>7 DEF Next, Main
<1> QED BY <1>1, InitReport, ArgsInvariant, PTL DEF Spec

\* What main reports is true and stays so, for every number of messages, window,
\* ring and set of latencies: the number of samples is that of the messages
\* received, all of this run; exit code 0 is given only if every message was
\* published and received; and the percentiles are those of the samples.
THEOREM ReportFinalHolds == Spec => []ReportFinal
<1>1. ArgsInv /\ ReportInv => ReportFinal
  <2> SUFFICES ASSUME ArgsInv, ReportInv, pc = "done" PROVE ReportFinal
    BY DEF ReportFinal
  <2>1. Started /\ seen \subseteq SequenceNumbers /\ Reported
        /\ (~publish_failed => published = Count)
    BY DEF ReportInv, Started
  <2>2. Count \in Nat \ {0}
    BY <2>1, CountPositive
  <2>3. IsFiniteSet(SequenceNumbers) /\ Cardinality(SequenceNumbers) = Count
    BY <2>2, FS_Interval DEF SequenceNumbers
  <2>4. IsFiniteSet(seen) /\ received_count \in Nat
        /\ (received_count = Count => seen = SequenceNumbers)
    BY <2>1, <2>3, FS_Subset, FS_CardinalityType DEF received_count
  <2>5. PICK s \in [1..received_count -> Latencies] :
          report = [samples |-> s, stats |-> compute_latency_stats(s),
                    exit_code |-> IF publish_failed \/ received_count # Count THEN 1 ELSE 0]
    BY Zenon, <2>1 DEF Reported
  <2> DEFINE n == received_count
             nearest(p) == IF s = <<>> THEN 0 ELSE sort(s)[rank(Len(s), p)]
  <2>6. s \in [1..n -> Nat] /\ Len(s) = n
    <3>1. s \in [1..n -> Nat]
      BY Zenon, BenchAssumption
    <3> HIDE DEF n
    <3> QED BY <2>4, <3>1 DEF n
  <2>7. compute_latency_stats(s) = [count |-> Len(s), p50 |-> nearest(50), p95 |-> nearest(95),
                                    p99 |-> nearest(99)]
    BY Zenon DEF compute_latency_stats
  <2> HIDE DEF nearest
  <2>8. /\ report.samples = s /\ report.stats.count = n /\ report.stats.p50 = nearest(50)
        /\ report.stats.p95 = nearest(95) /\ report.stats.p99 = nearest(99)
        /\ (report.exit_code = 0 => ~publish_failed /\ n = Count)
    BY <2>5, <2>6, <2>7
  <2>9. ASSUME n > 0, NEW p \in 1..100 PROVE IsPercentile(nearest(p), p, s)
    <3>1. n \in Nat \ {0} /\ s # <<>>
      BY <2>4, <2>6, <2>9
    <3> HIDE DEF n
    <3>2. IsPercentile(sort(s)[rank(n, p)], p, s)
      BY Zenon, <2>6, <3>1, NearestSample
    <3> QED BY Zenon, <2>6, <3>1, <3>2 DEF nearest
  <2>10. 50 \in 1..100 /\ 95 \in 1..100 /\ 99 \in 1..100
    OBVIOUS
  <2>11. n > 0 => /\ IsPercentile(report.stats.p50, 50, report.samples)
                  /\ IsPercentile(report.stats.p95, 95, report.samples)
                  /\ IsPercentile(report.stats.p99, 99, report.samples)
    BY <2>8, <2>9, <2>10
  <2>12. report.exit_code = 0 => seen = SequenceNumbers /\ published = Count /\ ~publish_failed
    BY Zenon, <2>1, <2>4, <2>8
  <2>13. \A m \in seen : Own(m) \in got
    BY Zenon DEF ReportInv
  <2> QED BY Zenon, <2>8, <2>11, <2>12, <2>13 DEF ReportFinal
<1> QED BY <1>1, ArgsInvariant, ReportInvariant, PTL
=============================================================================
