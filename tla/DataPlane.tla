----------------------------- MODULE DataPlane ------------------------------
(***************************************************************************)
(* The data plane (core/src/data_plane.cpp) of a group of processes, with  *)
(* the remote sinks of their LocalBus, the SHM poller of their             *)
(* ShmReaderManager and the segments the channels use.                     *)
(*                                                                         *)
(* The discovery thread of a process calls handle_match and handle_unmatch *)
(* under mtx_; an application thread publishes, holding strong references  *)
(* to the sinks it collected while it writes to them outside every lock;   *)
(* the poller opens segments and reads them.  Discovery is abstracted to   *)
(* what Discovery shows of it: matches are reported and withdrawn in turn, *)
(* at any time and independently at the two ends, at most one per key, and *)
(* the match withdrawn is the one that was reported.                       *)
(*                                                                         *)
(* Sinks and connections are objects with an identity; an identity is used *)
(* again only when nothing refers to the object any more.                  *)
(***************************************************************************)
EXTENDS Matching, ShmSegment, FiniteSets

CONSTANTS
  Processes,     \* the processes whose data planes run
  Possible,      \* Possible[p]: the matches discovery may report to p
  SharesHost,    \* pairs <<p, q>>: p has SHM enabled and q's host_id is p's
  SinkIds,       \* bound: sinks alive at a time
  Conns,         \* bound: connections alive at a time
  MayFail        \* whether creating a segment may fail

VARIABLES
  matched,       \* matches reported and not withdrawn
  creating,      \* the match whose segment is being created, if any
  sinks,         \* match key -> RemoteSink
  connections,   \* remote participant -> connection
  refcount,      \* remote participant -> number of TCP matches
  shm_pub,       \* topic -> ShmSink and number of SHM matches
  shm_sub_ref,   \* segment name -> number of SHM matches
  readers,       \* segment name -> topic, mapped segment, cursor
  stopped,       \* stop was called
  sink,          \* the sinks that are alive
  remote_sinks,  \* those registered in the bus
  targets,       \* those the publishing thread holds
  todo,          \* those it has still to write to
  delivered      \* history: topic delivered to, topic published on

tableVars == <<sinks, connections, refcount, shm_pub, shm_sub_ref>>
busVars == <<sink, remote_sinks, targets, todo>>
vars == <<matched, creating, tableVars, readers, stopped, busVars, delivered, segVars>>

NoSeg == 0

ASSUME SegmentsAssumption == NoSeg \notin Segments

\* A process has finitely many endpoints, and so do those it hears of.
ASSUME PossibleAssumption == \A p \in Processes : IsFiniteSet(Possible[p])

same_host(p, m) == <<p, m.remote_participant_id>> \in SharesHost
Shm(p, m) == use_shm(m, same_host(p, m))
IsPub(m) == m.local.kind = "PUBLISHER"
Key(m) == match_key(m.local, m.remote_participant_id, m.remote)

Init ==
  /\ matched = [p \in Processes |-> {}]
  /\ creating = [p \in Processes |-> {}]
  /\ sinks = [p \in Processes |-> Empty]
  /\ connections = [p \in Processes |-> Empty]
  /\ refcount = [p \in Processes |-> Empty]
  /\ shm_pub = [p \in Processes |-> Empty]
  /\ shm_sub_ref = [p \in Processes |-> Empty]
  /\ readers = [p \in Processes |-> Empty]
  /\ stopped = [p \in Processes |-> FALSE]
  /\ sink = Empty
  /\ remote_sinks = {}
  /\ targets = [p \in Processes |-> {}]
  /\ todo = [p \in Processes |-> {}]
  /\ delivered = {}
  /\ names = Empty
  /\ segs = [s \in Segments |-> Zeroed]

-----------------------------------------------------------------------------
(***************************************************************************)
(* Sinks and the bus                                                       *)
(***************************************************************************)

FreeSinks == SinkIds \ DOMAIN sink
FreeConns ==
  Conns \ (UNION {Range(connections[p]) : p \in Processes}
             \cup {sink[i].at : i \in {j \in DOMAIN sink : sink[j].via = "tcp"}})
FreeSegs ==
  Segments \ (Range(names)
                \cup {sink[i].at : i \in {j \in DOMAIN sink : sink[j].via = "shm"}}
                \cup UNION {{readers[p][n].seg : n \in DOMAIN readers[p]} : p \in Processes})

\* A new sink, registered with add_remote_sink.
AddSink(i, s) ==
  /\ sink' = Put(sink, i, s)
  /\ remote_sinks' = remote_sinks \cup {i}
  /\ UNCHANGED <<targets, todo>>

\* Mutant of Drop: the segment is not unlinked.
DropLinked(I, others) ==
  /\ sink' = Without(sink, I \ others)
  /\ UNCHANGED segVars

\* References to the sinks of I are dropped; those nobody else refers to are
\* destroyed, and an owned segment is unlinked with its sink.
Drop(I, others) ==
  LET dead == I \ others
  IN /\ sink' = Without(sink, dead)
     /\ Unlink({sink[i].name : i \in {j \in dead : sink[j].via = "shm"}})

\* A sink leaves its table: remove_remote_sink, then the table's reference.
RemoveSinks(p, I) ==
  /\ Drop(I, targets[p])
  /\ remote_sinks' = remote_sinks \ I
  /\ UNCHANGED <<targets, todo>>

Owned(p) == Range(sinks[p]) \cup {shm_pub[p][t].sink : t \in DOMAIN shm_pub[p]}

\* LocalBus::publish under the lock: collect the live sinks of the topic.
Collect(p, t) ==
  /\ targets[p] = {}
  /\ LET found == {i \in remote_sinks : sink[i].owner = p /\ sink[i].topic = t}
     IN /\ found # {}
        /\ targets' = [targets EXCEPT ![p] = found]
        /\ todo' = [todo EXCEPT ![p] = found]
  /\ UNCHANGED <<matched, creating, tableVars, readers, stopped, sink, remote_sinks,
                 delivered, segVars>>

\* enqueue, outside the lock: a ShmSink writes to its ring; what a RemoteSink
\* hands to its connection is not followed here.
Enqueue(p, i) ==
  /\ i \in todo[p]
  /\ todo' = [todo EXCEPT ![p] = @ \ {i}]
  /\ IF sink[i].via = "shm" THEN Write(sink[i].at, sink[i].topic) ELSE UNCHANGED segVars
  /\ UNCHANGED <<matched, creating, tableVars, readers, stopped, sink, remote_sinks,
                 targets, delivered>>

\* publish returns and drops its references.
Release(p) ==
  /\ targets[p] # {}
  /\ todo[p] = {}
  /\ Drop(targets[p], Owned(p))
  /\ remote_sinks' = remote_sinks \ (targets[p] \ Owned(p))
  /\ targets' = [targets EXCEPT ![p] = {}]
  /\ UNCHANGED <<matched, creating, tableVars, readers, stopped, todo, delivered>>

-----------------------------------------------------------------------------
(***************************************************************************)
(* handle_match                                                            *)
(***************************************************************************)

\* Discovery reports m to p; mtx_ is free.
Reports(p, m) ==
  /\ m \in Possible[p]
  /\ creating[p] = {}
  /\ \A x \in matched[p] : Key(x) # Key(m)
  /\ matched' = [matched EXCEPT ![p] = @ \cup {m}]

\* The matches for which handle_match and handle_unmatch do nothing: after
\* stop, between a service and a client, and of a subscriber that is served
\* over TCP.
Ignored(p, m) ==
  stopped[p] \/ ~pubsub_pair(m.local, m.remote) \/ (~IsPub(m) /\ ~Shm(p, m))

ignore_match(p, m) ==
  /\ Reports(p, m)
  /\ Ignored(p, m)
  /\ UNCHANGED <<creating, tableVars, readers, stopped, busVars, delivered, segVars>>

\* connection_for hands out the participant's connection or starts a new one.
tcp_pub_match(p, m) ==
  LET q == m.remote_participant_id
      i == CHOOSE x \in FreeSinks : TRUE
      c == IF q \in DOMAIN connections[p] THEN connections[p][q]
           ELSE CHOOSE x \in FreeConns : TRUE
      n == IF q \in DOMAIN refcount[p] THEN refcount[p][q] ELSE 0
  IN /\ Reports(p, m) /\ ~Ignored(p, m) /\ IsPub(m) /\ ~Shm(p, m)
     /\ Key(m) \notin DOMAIN sinks[p]
     /\ FreeSinks # {}
     /\ q \in DOMAIN connections[p] \/ FreeConns # {}
     /\ AddSink(i, [via |-> "tcp", owner |-> p, topic |-> m.local.topic, at |-> c])
     /\ connections' = [connections EXCEPT ![p] = Put(@, q, c)]
     /\ sinks' = [sinks EXCEPT ![p] = Put(@, Key(m), i)]
     /\ refcount' = [refcount EXCEPT ![p] = Put(@, q, n + 1)]
     /\ UNCHANGED <<creating, shm_pub, shm_sub_ref, readers, stopped, delivered, segVars>>

\* Mutant of shm_pub_match: the second subscriber is not counted.
shm_pub_matchUncounted(p, m) ==
  /\ Reports(p, m) /\ ~Ignored(p, m) /\ IsPub(m) /\ Shm(p, m)
  /\ m.local.topic \in DOMAIN shm_pub[p]
  /\ UNCHANGED <<creating, tableVars, readers, stopped, busVars, delivered, segVars>>

\* The topic has its segment already: one more subscriber shares it.
shm_pub_match(p, m) ==
  LET t == m.local.topic
  IN /\ Reports(p, m) /\ ~Ignored(p, m) /\ IsPub(m) /\ Shm(p, m)
     /\ t \in DOMAIN shm_pub[p]
     /\ shm_pub' = [shm_pub EXCEPT ![p][t].ref = @ + 1]
     /\ UNCHANGED <<creating, sinks, connections, refcount, shm_sub_ref, readers, stopped,
                    busVars, delivered, segVars>>

\* It has not: ShmSegment::create begins, mtx_ is held until it is done.
BeginCreate(p, m) ==
  LET t == m.local.topic
      name == seg_name(p, t)
  IN /\ Reports(p, m) /\ ~Ignored(p, m) /\ IsPub(m) /\ Shm(p, m)
     /\ t \notin DOMAIN shm_pub[p]
     /\ FreeSinks # {}
     /\ name \in DOMAIN names \/ FreeSegs # {}
     /\ MapNew(name, IF name \in DOMAIN names THEN names[name]
                     ELSE CHOOSE x \in FreeSegs : TRUE)
     /\ creating' = [creating EXCEPT ![p] = {[topic |-> t, seg |-> names'[name]]}]
     /\ UNCHANGED <<tableVars, readers, stopped, busVars, delivered>>

\* The ring is initialised, the sink registered and the topic entered.
EndCreate(p, c) ==
  LET i == CHOOSE x \in FreeSinks : TRUE
  IN /\ c \in creating[p]
     /\ FreeSinks # {}
     /\ InitRing(c.seg)
     /\ AddSink(i, [via |-> "shm", owner |-> p, topic |-> c.topic, at |-> c.seg,
                    name |-> seg_name(p, c.topic)])
     /\ shm_pub' = [shm_pub EXCEPT ![p] = Put(@, c.topic, [sink |-> i, ref |-> 1])]
     /\ creating' = [creating EXCEPT ![p] = {}]
     /\ UNCHANGED <<matched, sinks, connections, refcount, shm_sub_ref, readers, stopped,
                    delivered>>

\* create returns null: nothing is entered, and there is no fallback.
CreateFails(p, m) ==
  LET t == m.local.topic
  IN /\ MayFail
     /\ Reports(p, m) /\ ~Ignored(p, m) /\ IsPub(m) /\ Shm(p, m)
     /\ t \notin DOMAIN shm_pub[p]
     /\ FailToCreate(seg_name(p, t))
     /\ UNCHANGED <<creating, tableVars, readers, stopped, busVars, delivered>>

\* A segment name gets a reader with its first match.
shm_sub_match(p, m) ==
  LET name == seg_name(m.remote_participant_id, m.local.topic)
      known == name \in DOMAIN shm_sub_ref[p]
  IN /\ Reports(p, m) /\ ~Ignored(p, m) /\ ~IsPub(m)
     /\ shm_sub_ref' = [shm_sub_ref EXCEPT ![p] =
          Put(@, name, IF known THEN @[name] + 1 ELSE 1)]
     /\ readers' = [readers EXCEPT ![p] =
          IF known THEN @ ELSE Put(@, name, [topic |-> m.local.topic, seg |-> NoSeg, next |-> 0])]
     /\ UNCHANGED <<creating, sinks, connections, refcount, shm_pub, stopped, busVars,
                    delivered, segVars>>

-----------------------------------------------------------------------------
(***************************************************************************)
(* handle_unmatch                                                          *)
(***************************************************************************)

Withdraws(p, m) ==
  /\ m \in matched[p]
  /\ creating[p] = {}
  /\ matched' = [matched EXCEPT ![p] = @ \ {m}]

ignore_unmatch(p, m) ==
  /\ Withdraws(p, m)
  /\ Ignored(p, m) \/ (IsPub(m) /\ Shm(p, m) /\ m.local.topic \notin DOMAIN shm_pub[p])
  /\ UNCHANGED <<creating, tableVars, readers, stopped, busVars, delivered, segVars>>

\* Mutant of LastOf: every unmatch is taken for the last.
LastOfAlways(refs, x) == TRUE

\* The reference count of x drops to zero.
LastOf(refs, x) == refs[x] = 1

\* Under mtx_ the count of x goes down by one, or away.
Unref(refs, x) == IF LastOf(refs, x) THEN Without(refs, {x}) ELSE Put(refs, x, refs[x] - 1)

\* The last match of a participant closes its connection.
tcp_pub_unmatch(p, m) ==
  LET q == m.remote_participant_id
  IN /\ Withdraws(p, m) /\ ~Ignored(p, m) /\ IsPub(m) /\ ~Shm(p, m)
     /\ Key(m) \in DOMAIN sinks[p]
     /\ RemoveSinks(p, {sinks[p][Key(m)]})
     /\ sinks' = [sinks EXCEPT ![p] = Without(@, {Key(m)})]
     /\ refcount' = [refcount EXCEPT ![p] = Unref(@, q)]
     /\ connections' = [connections EXCEPT ![p] =
          IF LastOf(refcount[p], q) THEN Without(@, {q}) ELSE @]
     /\ UNCHANGED <<creating, shm_pub, shm_sub_ref, readers, stopped, delivered>>

\* The last match of a topic takes the sink out of the bus and gives it up.
shm_pub_unmatch(p, m) ==
  LET t == m.local.topic
      e == shm_pub[p][t]
  IN /\ Withdraws(p, m) /\ ~Ignored(p, m) /\ IsPub(m) /\ Shm(p, m)
     /\ t \in DOMAIN shm_pub[p]
     /\ \/ /\ e.ref > 1
           /\ shm_pub' = [shm_pub EXCEPT ![p][t].ref = @ - 1]
           /\ UNCHANGED <<busVars, segVars>>
        \/ /\ e.ref = 1
           /\ shm_pub' = [shm_pub EXCEPT ![p] = Without(@, {t})]
           /\ RemoveSinks(p, {e.sink})
     /\ UNCHANGED <<creating, sinks, connections, refcount, shm_sub_ref, readers, stopped,
                    delivered>>

\* The reader goes with the last match of its segment name.
shm_sub_unmatch(p, m) ==
  LET name == seg_name(m.remote_participant_id, m.local.topic)
  IN /\ Withdraws(p, m) /\ ~Ignored(p, m) /\ ~IsPub(m)
     /\ name \in DOMAIN shm_sub_ref[p]
     /\ shm_sub_ref' = [shm_sub_ref EXCEPT ![p] = Unref(@, name)]
     /\ readers' = [readers EXCEPT ![p] =
          IF LastOf(shm_sub_ref[p], name) THEN Without(@, {name}) ELSE @]
     /\ UNCHANGED <<creating, sinks, connections, refcount, shm_pub, stopped, busVars,
                    delivered, segVars>>

\* stop, under mtx_: every table is emptied, nothing is taken out of the bus.
stop(p) ==
  /\ ~stopped[p]
  /\ creating[p] = {}
  /\ stopped' = [stopped EXCEPT ![p] = TRUE]
  /\ Drop(Owned(p), targets[p])
  /\ remote_sinks' = remote_sinks \ (Owned(p) \ targets[p])
  /\ sinks' = [sinks EXCEPT ![p] = Empty]
  /\ connections' = [connections EXCEPT ![p] = Empty]
  /\ refcount' = [refcount EXCEPT ![p] = Empty]
  /\ shm_pub' = [shm_pub EXCEPT ![p] = Empty]
  /\ shm_sub_ref' = [shm_sub_ref EXCEPT ![p] = Empty]
  /\ UNCHANGED <<matched, creating, readers, targets, todo, delivered>>

\* stop, outside mtx_: the poller is joined and the readers go.
StopReaders(p) ==
  /\ stopped[p]
  /\ readers[p] # Empty
  /\ readers' = [readers EXCEPT ![p] = Empty]
  /\ UNCHANGED <<matched, creating, tableVars, stopped, busVars, delivered, segVars>>

-----------------------------------------------------------------------------
(***************************************************************************)
(* poll_once, for one reader                                               *)
(***************************************************************************)

\* Mutant of PollOpen: a segment that is not there is not tried again.
PollOpenOnce(p, n) ==
  /\ readers[p][n].seg = NoSeg
  /\ readers' = [readers EXCEPT ![p] =
       IF CanOpen(n)
       THEN Put(@, n, [@[n] EXCEPT !.seg = names[n], !.next = Len(segs[names[n]].log)])
       ELSE Without(@, {n})]
  /\ UNCHANGED <<matched, creating, tableVars, stopped, busVars, delivered, segVars>>

\* A reader without a segment opens it; its cursor starts at the end.
PollOpen(p, n) ==
  /\ readers[p][n].seg = NoSeg
  /\ CanOpen(n)
  /\ readers' = [readers EXCEPT ![p][n] =
       [@ EXCEPT !.seg = names[n], !.next = Len(segs[names[n]].log)]]
  /\ UNCHANGED <<matched, creating, tableVars, stopped, busVars, delivered, segVars>>

\* The next message is read and delivered under the reader's topic.
PollRead(p, n) ==
  LET e == readers[p][n]
  IN /\ e.seg # NoSeg
     /\ e.next < Len(segs[e.seg].log)
     /\ readers' = [readers EXCEPT ![p][n].next = @ + 1]
     /\ delivered' = delivered \cup {<<e.topic, segs[e.seg].log[e.next + 1]>>}
     /\ UNCHANGED <<matched, creating, tableVars, stopped, busVars, segVars>>

Poll(p) == \E n \in DOMAIN readers[p] : PollOpen(p, n) \/ PollRead(p, n)

Match(p, m) ==
  \/ ignore_match(p, m) \/ tcp_pub_match(p, m) \/ shm_pub_match(p, m)
  \/ BeginCreate(p, m) \/ CreateFails(p, m) \/ shm_sub_match(p, m)

Unmatch(p, m) ==
  \/ ignore_unmatch(p, m) \/ tcp_pub_unmatch(p, m)
  \/ shm_pub_unmatch(p, m) \/ shm_sub_unmatch(p, m)

Topics(p) == {m.local.topic : m \in Possible[p]}

Publish(p) ==
  \/ \E t \in Topics(p) : Collect(p, t)
  \/ \E i \in todo[p] : Enqueue(p, i)
  \/ Release(p)

Next ==
  \E p \in Processes :
    \/ \E m \in Possible[p] : Match(p, m) \/ Unmatch(p, m)
    \/ \E c \in creating[p] : EndCreate(p, c)
    \/ Publish(p) \/ Poll(p) \/ stop(p) \/ StopReaders(p)

Spec == Init /\ [][Next]_vars

\* The poller keeps polling every reader; a create or a publish that began
\* ends.
Fairness ==
  \A p \in Processes :
    /\ WF_vars(\E n \in DOMAIN readers[p] : PollOpen(p, n))
    /\ WF_vars(\E n \in DOMAIN readers[p] : PollRead(p, n))
    /\ WF_vars(\E c \in creating[p] : EndCreate(p, c))
    /\ WF_vars((\E i \in todo[p] : Enqueue(p, i)) \/ Release(p))

FairSpec == Spec /\ Fairness

-----------------------------------------------------------------------------
(***************************************************************************)
(* Properties                                                              *)
(***************************************************************************)

TcpPubs(p) == {m \in matched[p] : pubsub_pair(m.local, m.remote) /\ IsPub(m) /\ ~Shm(p, m)}
ShmPubs(p) == {m \in matched[p] : pubsub_pair(m.local, m.remote) /\ IsPub(m) /\ Shm(p, m)}
ShmSubs(p) == {m \in matched[p] : pubsub_pair(m.local, m.remote) /\ ~IsPub(m) /\ Shm(p, m)}
Remote(m) == m.remote_participant_id
ReadName(m) == seg_name(m.remote_participant_id, m.local.topic)
Registered(p, via) == {i \in remote_sinks : sink[i].owner = p /\ sink[i].via = via}

\* TCP channels and matches correspond: every match a publisher is served over
\* TCP for has its sink on the one connection of its participant, and the bus
\* has these sinks and no other; the reference count is the number of those
\* matches, so that a connection is closed with the last of them and not
\* earlier.
TcpChannels ==
  \A p \in Processes : ~stopped[p] =>
    /\ DOMAIN sinks[p] = {Key(m) : m \in TcpPubs(p)}
    /\ DOMAIN connections[p] = {Remote(m) : m \in TcpPubs(p)}
    /\ DOMAIN refcount[p] = DOMAIN connections[p]
    /\ \A q \in DOMAIN refcount[p] :
         refcount[p][q] = Cardinality({m \in TcpPubs(p) : Remote(m) = q})
    /\ Registered(p, "tcp") = Range(sinks[p])
    /\ \A m \in TcpPubs(p) : sink[sinks[p][Key(m)]].at = connections[p][Remote(m)]

\* SHM channels and matches correspond: a topic has one sink as long as some
\* same-host match needs it, counted exactly, and the bus has these sinks and
\* no other, so that a publish that begins after the last unmatch finds none.
ShmChannels ==
  \A p \in Processes : ~stopped[p] /\ creating[p] = {} =>
    /\ DOMAIN shm_pub[p] = {m.local.topic : m \in ShmPubs(p)}
    /\ \A t \in DOMAIN shm_pub[p] :
         /\ shm_pub[p][t].ref = Cardinality({m \in ShmPubs(p) : m.local.topic = t})
         /\ sink[shm_pub[p][t].sink].topic = t
    /\ Registered(p, "shm") = {shm_pub[p][t].sink : t \in DOMAIN shm_pub[p]}

\* The subscriber's side: one reader per segment name, as long as some match
\* needs it.
ShmReaders ==
  \A p \in Processes : ~stopped[p] =>
    /\ DOMAIN readers[p] = {ReadName(m) : m \in ShmSubs(p)}
    /\ DOMAIN shm_sub_ref[p] = DOMAIN readers[p]
    /\ \A n \in DOMAIN readers[p] :
         shm_sub_ref[p][n] = Cardinality({m \in ShmSubs(p) : ReadName(m) = n})

\* No segment is left behind in /dev/shm: a name that exists belongs to a sink
\* that is alive or about to be made, after stop and after a publish that
\* outlived its channel too; and no sink goes early: every one that a table, the
\* bus or the publishing thread has is alive.
NoLeak ==
  /\ \A n \in DOMAIN names :
       \/ \E i \in DOMAIN sink : sink[i].via = "shm" /\ sink[i].name = n
       \/ \E p \in Processes : \E c \in creating[p] : n = seg_name(p, c.topic)
  /\ remote_sinks \cup UNION {Owned(p) \cup targets[p] : p \in Processes} \subseteq DOMAIN sink

\* Subscribers of a topic get the messages published on that topic.
TopicsKept == \A d \in delivered : d[1] = d[2]

\* The other end's view of the match m of p.
Mirror(p, m) ==
  [local |-> m.remote, remote_participant_id |-> p, remote |-> m.local]

\* Both ends have reported the match m of publisher p and nothing was stopped.
BothMatched(p, m) ==
  LET q == Remote(m)
  IN /\ m \in ShmPubs(p) /\ ~stopped[p]
     /\ Mirror(p, m) \in matched[q] /\ ~stopped[q]

\* The subscriber's reader is on the segment the publisher writes to.
Joined(p, m) ==
  LET t == m.local.topic
      n == seg_name(p, t)
      q == Remote(m)
  IN /\ t \in DOMAIN shm_pub[p] /\ n \in DOMAIN readers[q]
     /\ readers[q][n].seg = sink[shm_pub[p][t].sink].at

\* The name leads to the segment the publisher writes to or is creating, no
\* publish under way outlived its channel, and the reader has opened nothing.
Fresh(p, m) ==
  LET t == m.local.topic
      n == seg_name(p, t)
      q == Remote(m)
  IN /\ targets[p] \subseteq Owned(p)
     /\ n \in DOMAIN names
     /\ t \in DOMAIN shm_pub[p] => names[n] = sink[shm_pub[p][t].sink].at
     /\ n \in DOMAIN readers[q] /\ readers[q][n].seg = NoSeg

PubMatches == {pm \in UNION {{<<p, m>> : m \in Possible[p]} : p \in Processes} :
                 IsPub(pm[2]) /\ Remote(pm[2]) \in Processes}

\* A new reader finds the publisher's segment: whichever end hears of the
\* match first, and however create and open overlap, it ends up on the segment
\* the publisher writes to unless an end withdraws the match first.
ReaderJoins ==
  \A pm \in PubMatches :
    BothMatched(pm[1], pm[2]) /\ Fresh(pm[1], pm[2]) ~>
      Joined(pm[1], pm[2]) \/ ~BothMatched(pm[1], pm[2])

\* The comment on seg_name: both ends compute the same name, no handshake is
\* needed.  So two ends that stay matched are joined in the end.
NoHandshakeNeeded ==
  \A pm \in PubMatches :
    BothMatched(pm[1], pm[2]) ~> Joined(pm[1], pm[2]) \/ ~BothMatched(pm[1], pm[2])

\* The comment on ShmPub: the segment is unlinked when ref drops to zero.  As
\* long as it has not, the name leads to the segment the sink writes to.
NamedWhileReferenced ==
  \A p \in Processes : \A t \in DOMAIN shm_pub[p] :
    LET n == seg_name(p, t)
    IN n \in DOMAIN names /\ names[n] = sink[shm_pub[p][t].sink].at

\* The comment in shm_pub_unmatch: the sink stays while another same-host
\* subscriber uses it.
SharedWhileUsed ==
  [][\A p \in Processes : \A t \in DOMAIN shm_pub[p] :
       t \in DOMAIN shm_pub'[p] \/ stopped'[p]
         \/ \A m \in matched'[p] : ~(IsPub(m) /\ Shm(p, m) /\ m.local.topic = t)]_vars

\* On one host both ends act: a publisher that writes a match to SHM has a
\* reader at the other end once that end has reported the match.
BothEndsAct ==
  \A pm \in PubMatches :
    LET p == pm[1]
        m == pm[2]
    IN m \in ShmPubs(p) /\ Mirror(p, m) \in matched[Remote(m)] /\ ~stopped[Remote(m)] =>
         seg_name(p, m.local.topic) \in DOMAIN readers[Remote(m)]
=============================================================================
