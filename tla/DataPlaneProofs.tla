-------------------------- MODULE DataPlaneProofs ---------------------------
(***************************************************************************)
(* The data plane, for every group of processes, all the matches that      *)
(* discovery may report to them and every number of sinks, connections and *)
(* segments: no segment and no sink is left behind or goes early.          *)
(***************************************************************************)
EXTENDS DataPlane, FiniteSetTheorems, TLAPS

\* A leaf that names no prover goes to these two, in this order.
USE SMTT(30), ZenonT(30)

-----------------------------------------------------------------------------
(***************************************************************************)
(* The inductive invariant                                                 *)
(***************************************************************************)

\* A table with an entry for every process.
PerProcess(f) == DOMAIN f = Processes

TypeOK ==
  /\ PerProcess(matched) /\ PerProcess(creating) /\ PerProcess(stopped)
  /\ PerProcess(sinks) /\ PerProcess(connections) /\ PerProcess(refcount)
  /\ PerProcess(shm_pub) /\ PerProcess(shm_sub_ref) /\ PerProcess(readers)
  /\ PerProcess(targets) /\ PerProcess(todo)
  /\ \A p \in Processes :
       /\ matched[p] \subseteq Possible[p]
       /\ stopped[p] \in BOOLEAN
       /\ \A t \in DOMAIN shm_pub[p] : shm_pub[p][t] \in [sink : SinkIds, ref : Nat]

\* A create under way is the only one, its topic has no entry yet, and stop
\* waits for it.
OneCreate ==
  \A p \in Processes :
    /\ \A c, d \in creating[p] : c = d
    /\ \A c \in creating[p] : c.topic \notin DOMAIN shm_pub[p]
    /\ stopped[p] => creating[p] = {}

\* The sinks of the TCP channels are alive and of their process, and no two
\* entries share one.
TcpSinks(p) ==
  /\ \A k \in DOMAIN sinks[p] :
       /\ sinks[p][k] \in DOMAIN sink
       /\ sink[sinks[p][k]].owner = p /\ sink[sinks[p][k]].via = "tcp"
  /\ \A k, l \in DOMAIN sinks[p] : sinks[p][k] = sinks[p][l] => k = l

\* So are those of the SHM channels, each of its topic,
ShmSinks(p) ==
  \A t \in DOMAIN shm_pub[p] :
    /\ shm_pub[p][t].sink \in DOMAIN sink
    /\ sink[shm_pub[p][t].sink].owner = p /\ sink[shm_pub[p][t].sink].via = "shm"
    /\ sink[shm_pub[p][t].sink].topic = t

\* and those of a publish under way.
Targeted(p) == \A i \in targets[p] : i \in DOMAIN sink /\ sink[i].owner = p

\* The bus has the sinks of the tables, which stop empties.
OnBus(p) ==
  IF stopped[p] THEN DOMAIN sinks[p] = {} /\ DOMAIN shm_pub[p] = {}
  ELSE \A i : i \in Owned(p) <=> i \in remote_sinks /\ sink[i].owner = p

SinksOf(p) == TcpSinks(p) /\ ShmSinks(p) /\ Targeted(p) /\ OnBus(p)

SinksAlive ==
  /\ remote_sinks \subseteq DOMAIN sink
  /\ \A p \in Processes : SinksOf(p)

\* A name in /dev/shm has its sink, or will have.
NamesOwned ==
  \A n \in DOMAIN names :
    \/ \E i \in DOMAIN sink : sink[i].via = "shm" /\ sink[i].name = n
    \/ \E p \in Processes : \E c \in creating[p] : n = seg_name(p, c.topic)

-----------------------------------------------------------------------------
(***************************************************************************)
(* Steps                                                                   *)
(***************************************************************************)

\* A step of p.
Acts(p) ==
  \/ \E m \in Possible[p] :
       \/ ignore_match(p, m) \/ tcp_pub_match(p, m) \/ shm_pub_match(p, m)
       \/ BeginCreate(p, m) \/ CreateFails(p, m) \/ shm_sub_match(p, m)
       \/ ignore_unmatch(p, m) \/ tcp_pub_unmatch(p, m)
       \/ shm_pub_unmatch(p, m) \/ shm_sub_unmatch(p, m)
  \/ \E c \in creating[p] : EndCreate(p, c)
  \/ \E t \in Topics(p) : Collect(p, t)
  \/ \E i \in todo[p] : Enqueue(p, i)
  \/ Release(p)
  \/ \E n \in DOMAIN readers[p] : PollOpen(p, n) \/ PollRead(p, n)
  \/ stop(p) \/ StopReaders(p)

\* Every step is of some process.
LEMMA Steps ==
  ASSUME Next
  PROVE  \E p \in Processes : Acts(p)
BY DEF Next, Match, Unmatch, Publish, Poll, Acts

\* EndCreate registers a sink that was not there.
LEMMA EndCreateAdds ==
  ASSUME NEW p \in Processes, NEW c \in creating[p], EndCreate(p, c)
  PROVE  \E i \in SinkIds \ DOMAIN sink :
           /\ AddSink(i, [via |-> "shm", owner |-> p, topic |-> c.topic, at |-> c.seg,
                          name |-> seg_name(p, c.topic)])
           /\ shm_pub' = [shm_pub EXCEPT ![p] = Put(shm_pub[p], c.topic, [sink |-> i, ref |-> 1])]
<1> DEFINE i == CHOOSE x \in FreeSinks : TRUE
<1>1. i \in FreeSinks
  BY DEF EndCreate
<1> HIDE DEF i
<1>2. i \in SinkIds \ DOMAIN sink
  BY <1>1 DEF FreeSinks
<1> QED BY <1>2, Zenon DEF EndCreate, i

\* A match over TCP registers a sink that was not there.
LEMMA TcpMatchAdds ==
  ASSUME NEW p \in Processes, NEW m \in Possible[p], tcp_pub_match(p, m)
  PROVE  \E i \in SinkIds \ DOMAIN sink : \E c :
           /\ Remote(m) \in DOMAIN connections[p] => c = connections[p][Remote(m)]
           /\ AddSink(i, [via |-> "tcp", owner |-> p, topic |-> m.local.topic, at |-> c])
           /\ connections' = [connections EXCEPT ![p] = Put(connections[p], Remote(m), c)]
           /\ sinks' = [sinks EXCEPT ![p] = Put(sinks[p], Key(m), i)]
<1> DEFINE i == CHOOSE x \in FreeSinks : TRUE
           c == IF Remote(m) \in DOMAIN connections[p] THEN connections[p][Remote(m)]
                ELSE CHOOSE x \in FreeConns : TRUE
<1>1. i \in FreeSinks
  BY DEF tcp_pub_match
<1>2. /\ AddSink(i, [via |-> "tcp", owner |-> p, topic |-> m.local.topic, at |-> c])
      /\ connections' = [connections EXCEPT ![p] = Put(connections[p], Remote(m), c)]
      /\ sinks' = [sinks EXCEPT ![p] = Put(sinks[p], Key(m), i)]
  BY DEF tcp_pub_match, Remote
<1> HIDE DEF i
<1>3. i \in SinkIds \ DOMAIN sink
  BY <1>1 DEF FreeSinks
<1>4. Remote(m) \in DOMAIN connections[p] => c = connections[p][Remote(m)]
  OBVIOUS
<1> HIDE DEF c
<1> QED BY <1>2, <1>3, <1>4, Zenon

\* The reference count of a topic changes and nothing else of the table.
LEMMA OnlyRef ==
  ASSUME TypeOK, NEW p \in Processes, NEW t \in DOMAIN shm_pub[p], NEW r \in Nat,
         shm_pub' = [shm_pub EXCEPT ![p][t].ref = r]
  PROVE  /\ PerProcess(shm_pub')
         /\ \A q \in Processes : q # p => shm_pub'[q] = shm_pub[q]
         /\ DOMAIN shm_pub'[p] = DOMAIN shm_pub[p] /\ shm_pub'[p][t].ref = r
         /\ \A u \in DOMAIN shm_pub[p] :
              /\ shm_pub'[p][u].sink = shm_pub[p][u].sink
              /\ u # t => shm_pub'[p][u] = shm_pub[p][u]
              /\ shm_pub'[p][u] \in [sink : SinkIds, ref : Nat]
<1> DEFINE e == [shm_pub[p][t] EXCEPT !.ref = r]
           v == [shm_pub[p] EXCEPT ![t] = e]
<1>1. shm_pub[p][t] \in [sink : SinkIds, ref : Nat]
  BY DEF TypeOK
<1>2. e \in [sink : SinkIds, ref : Nat] /\ e.sink = shm_pub[p][t].sink /\ e.ref = r
  BY <1>1
<1>3. shm_pub' = [shm_pub EXCEPT ![p] = v]
  OBVIOUS
<1> HIDE DEF e
<1>4. /\ DOMAIN v = DOMAIN shm_pub[p] /\ v[t] = e
      /\ \A u \in DOMAIN shm_pub[p] : u # t => v[u] = shm_pub[p][u]
  OBVIOUS
<1> HIDE DEF v
<1>5. PerProcess(shm_pub') /\ shm_pub'[p] = v /\ \A q \in Processes : q # p => shm_pub'[q] = shm_pub[q]
  <2>1. PerProcess(shm_pub)
    BY DEF TypeOK
  <2> QED BY <1>3, <2>1 DEF PerProcess
<1>6. \A u \in DOMAIN shm_pub[p] : shm_pub[p][u] \in [sink : SinkIds, ref : Nat]
  BY DEF TypeOK
<1> QED BY <1>2, <1>4, <1>5, <1>6

\* Every step keeps the types.
LEMMA TypeStep ==
  ASSUME TypeOK, [Next]_vars
  PROVE  TypeOK'
<1> USE DEF tableVars, busVars, segVars
<1>1. ASSUME NEW p \in Processes, NEW m \in Possible[p], ignore_match(p, m) PROVE TypeOK'
  BY <1>1 DEF ignore_match, Reports, TypeOK, PerProcess
<1>2. ASSUME NEW p \in Processes, NEW m \in Possible[p], tcp_pub_match(p, m) PROVE TypeOK'
  BY <1>2 DEF tcp_pub_match, Reports, AddSink, TypeOK, PerProcess
<1>3. ASSUME NEW p \in Processes, NEW m \in Possible[p], shm_pub_match(p, m) PROVE TypeOK'
  <2> DEFINE t == m.local.topic
  <2>1. t \in DOMAIN shm_pub[p] /\ shm_pub' = [shm_pub EXCEPT ![p][t].ref = shm_pub[p][t].ref + 1]
    BY <1>3 DEF shm_pub_match
  <2>2. shm_pub[p][t].ref + 1 \in Nat
    BY <2>1 DEF TypeOK
  <2> HIDE DEF t
  <2>3. PerProcess(shm_pub') /\ \A q \in Processes : \A u \in DOMAIN shm_pub'[q] :
          shm_pub'[q][u] \in [sink : SinkIds, ref : Nat]
    <3>1. /\ PerProcess(shm_pub')
          /\ \A q \in Processes : q # p => shm_pub'[q] = shm_pub[q]
          /\ \A u \in DOMAIN shm_pub'[p] : shm_pub'[p][u] \in [sink : SinkIds, ref : Nat]
      BY <2>1, <2>2, OnlyRef, Zenon
    <3> QED BY <3>1 DEF TypeOK
  <2> QED BY <1>3, <2>3 DEF shm_pub_match, Reports, TypeOK, PerProcess
<1>4. ASSUME NEW p \in Processes, NEW m \in Possible[p], BeginCreate(p, m) PROVE TypeOK'
  BY <1>4 DEF BeginCreate, Reports, TypeOK, PerProcess
<1>5. ASSUME NEW p \in Processes, NEW m \in Possible[p], CreateFails(p, m) PROVE TypeOK'
  BY <1>5 DEF CreateFails, Reports, TypeOK, PerProcess
<1>6. ASSUME NEW p \in Processes, NEW m \in Possible[p], shm_sub_match(p, m) PROVE TypeOK'
  BY <1>6 DEF shm_sub_match, Reports, TypeOK, PerProcess
<1>7. ASSUME NEW p \in Processes, NEW m \in Possible[p], ignore_unmatch(p, m) PROVE TypeOK'
  BY <1>7 DEF ignore_unmatch, Withdraws, TypeOK, PerProcess
<1>8. ASSUME NEW p \in Processes, NEW m \in Possible[p], tcp_pub_unmatch(p, m) PROVE TypeOK'
  BY <1>8 DEF tcp_pub_unmatch, Withdraws, RemoveSinks, TypeOK, PerProcess
<1>9. ASSUME NEW p \in Processes, NEW m \in Possible[p], shm_pub_unmatch(p, m) PROVE TypeOK'
  <2> DEFINE t == m.local.topic
             r == shm_pub[p][t].ref
  <2>1. t \in DOMAIN shm_pub[p] /\ r \in Nat
    BY <1>9 DEF shm_pub_unmatch, TypeOK
  <2>2. PerProcess(shm_pub') /\ \A q \in Processes : \A u \in DOMAIN shm_pub'[q] :
          shm_pub'[q][u] \in [sink : SinkIds, ref : Nat]
    <3>1. CASE r > 1 /\ shm_pub' = [shm_pub EXCEPT ![p][t].ref = r - 1]
      <4>1. r - 1 \in Nat
        BY <2>1, <3>1
      <4> HIDE DEF t, r
      <4>2. /\ PerProcess(shm_pub')
            /\ \A q \in Processes : q # p => shm_pub'[q] = shm_pub[q]
            /\ \A u \in DOMAIN shm_pub'[p] : shm_pub'[p][u] \in [sink : SinkIds, ref : Nat]
        BY <2>1, <3>1, <4>1, OnlyRef, Zenon
      <4> QED BY <4>2 DEF TypeOK
    <3>2. CASE shm_pub' = [shm_pub EXCEPT ![p] = Without(shm_pub[p], {t})]
      <4> DEFINE v == Without(shm_pub[p], {t})
      <4>1. \A u \in DOMAIN v : v[u] \in [sink : SinkIds, ref : Nat]
        BY DEF TypeOK, Without, Restrict
      <4>2. shm_pub' = [shm_pub EXCEPT ![p] = v] /\ PerProcess(shm_pub)
        BY <3>2 DEF TypeOK
      <4> HIDE DEF v
      <4>3. PerProcess(shm_pub') /\ shm_pub'[p] = v /\ \A q \in Processes : q # p => shm_pub'[q] = shm_pub[q]
        BY <4>2 DEF PerProcess
      <4> QED BY <4>1, <4>3 DEF TypeOK
    <3> QED BY <1>9, <3>1, <3>2 DEF shm_pub_unmatch
  <2>3. targets' = targets /\ todo' = todo
    BY <1>9 DEF shm_pub_unmatch, RemoveSinks
  <2> HIDE DEF t, r
  <2> QED BY <1>9, <2>2, <2>3 DEF shm_pub_unmatch, Withdraws, TypeOK, PerProcess
<1>10. ASSUME NEW p \in Processes, NEW m \in Possible[p], shm_sub_unmatch(p, m) PROVE TypeOK'
  BY <1>10 DEF shm_sub_unmatch, Withdraws, TypeOK, PerProcess
<1>11. ASSUME NEW p \in Processes, NEW c \in creating[p], EndCreate(p, c) PROVE TypeOK'
  <2>1. PICK i \in SinkIds :
          shm_pub' = [shm_pub EXCEPT ![p] = Put(shm_pub[p], c.topic, [sink |-> i, ref |-> 1])]
    BY <1>11, EndCreateAdds, Zenon
  <2>2. [sink |-> i, ref |-> 1] \in [sink : SinkIds, ref : Nat]
    OBVIOUS
  <2>3. PerProcess(shm_pub') /\ \A q \in Processes : \A u \in DOMAIN shm_pub'[q] :
          shm_pub'[q][u] \in [sink : SinkIds, ref : Nat]
    <3> DEFINE v == Put(shm_pub[p], c.topic, [sink |-> i, ref |-> 1])
    <3>1. \A u \in DOMAIN v : v[u] \in [sink : SinkIds, ref : Nat]
      BY <2>2 DEF TypeOK, Put
    <3>2. shm_pub' = [shm_pub EXCEPT ![p] = v] /\ PerProcess(shm_pub)
      BY <2>1 DEF TypeOK
    <3> HIDE DEF v
    <3>3. PerProcess(shm_pub') /\ shm_pub'[p] = v /\ \A q \in Processes : q # p => shm_pub'[q] = shm_pub[q]
      BY <3>2 DEF PerProcess
    <3> QED BY <3>1, <3>3 DEF TypeOK
  <2> QED BY <1>11, <2>3 DEF EndCreate, AddSink, TypeOK, PerProcess
<1>12. ASSUME NEW p \in Processes, NEW t \in Topics(p), Collect(p, t) PROVE TypeOK'
  BY <1>12 DEF Collect, TypeOK, PerProcess
<1>13. ASSUME NEW p \in Processes, NEW i \in todo[p], Enqueue(p, i) PROVE TypeOK'
  BY <1>13 DEF Enqueue, TypeOK, PerProcess
<1>14. ASSUME NEW p \in Processes, Release(p) PROVE TypeOK'
  BY <1>14 DEF Release, TypeOK, PerProcess
<1>15. ASSUME NEW p \in Processes, NEW n \in DOMAIN readers[p], PollOpen(p, n) \/ PollRead(p, n) PROVE TypeOK'
  BY Zenon, <1>15 DEF PollOpen, PollRead, TypeOK, PerProcess
<1>16. ASSUME NEW p \in Processes, stop(p) PROVE TypeOK'
  <2>1. PerProcess(sinks') /\ PerProcess(connections') /\ PerProcess(refcount') /\ PerProcess(shm_sub_ref')
    BY <1>16 DEF stop, TypeOK, PerProcess
  <2>2. PerProcess(stopped') /\ \A q \in Processes : stopped'[q] \in BOOLEAN
    <3>1. stopped' = [stopped EXCEPT ![p] = TRUE]
      BY <1>16 DEF stop
    <3>2. DOMAIN stopped = Processes /\ \A q \in Processes : stopped[q] \in BOOLEAN
      BY DEF TypeOK, PerProcess
    <3> QED BY <3>1, <3>2, Zenon DEF PerProcess
  <2>3. shm_pub' = [shm_pub EXCEPT ![p] = Empty] /\ UNCHANGED <<matched, creating, readers, targets, todo>>
    BY <1>16 DEF stop
  <2>4. PerProcess(shm_pub') /\ \A q \in Processes : shm_pub'[q] = shm_pub[q] \/ DOMAIN shm_pub'[q] = {}
    BY <2>3 DEF TypeOK, PerProcess, Empty
  <2> QED BY <2>1, <2>2, <2>3, <2>4 DEF TypeOK
<1>17. ASSUME NEW p \in Processes, StopReaders(p) PROVE TypeOK'
  BY <1>17 DEF StopReaders, TypeOK, PerProcess
<1>18. ASSUME UNCHANGED vars PROVE TypeOK'
  BY <1>18 DEF vars, TypeOK, PerProcess
<1> QED
  BY <1>1, <1>2, <1>3, <1>4, <1>5, <1>6, <1>7, <1>8, <1>9, <1>10, <1>11, <1>12, <1>13, <1>14,
     <1>15, <1>16, <1>17, <1>18, Steps DEF Acts

\* The tables of q stay as they are.
TablesKept(q) ==
  /\ matched'[q] = matched[q] /\ creating'[q] = creating[q] /\ stopped'[q] = stopped[q]
  /\ sinks'[q] = sinks[q] /\ connections'[q] = connections[q] /\ refcount'[q] = refcount[q]
  /\ shm_pub'[q] = shm_pub[q] /\ shm_sub_ref'[q] = shm_sub_ref[q] /\ readers'[q] = readers[q]
  /\ targets'[q] = targets[q]

\* A step of p is of no other process.
LEMMA OthersKeep ==
  ASSUME TypeOK, NEW p \in Processes, Acts(p), NEW q \in Processes, q # p
  PROVE  TablesKept(q)
<1> USE DEF tableVars, busVars
<1>a. /\ q \in DOMAIN matched /\ q \in DOMAIN creating /\ q \in DOMAIN stopped
      /\ q \in DOMAIN sinks /\ q \in DOMAIN connections /\ q \in DOMAIN refcount
      /\ q \in DOMAIN shm_pub /\ q \in DOMAIN shm_sub_ref /\ q \in DOMAIN readers
      /\ q \in DOMAIN targets
  BY DEF TypeOK, PerProcess
<1>1. ASSUME NEW m \in Possible[p], ignore_match(p, m) PROVE TablesKept(q)
  BY <1>a, <1>1 DEF ignore_match, Reports, TablesKept
<1>2. ASSUME NEW m \in Possible[p], tcp_pub_match(p, m) PROVE TablesKept(q)
  <2>1. matched'[q] = matched[q]
    BY <1>a, <1>2 DEF tcp_pub_match, Reports
  <2>2. sinks'[q] = sinks[q]
    BY <1>a, <1>2 DEF tcp_pub_match
  <2>3. connections'[q] = connections[q]
    BY <1>a, <1>2 DEF tcp_pub_match
  <2>4. refcount'[q] = refcount[q]
    BY <1>a, <1>2 DEF tcp_pub_match
  <2> QED BY <1>2, <2>1, <2>2, <2>3, <2>4 DEF tcp_pub_match, AddSink, TablesKept
<1>3. ASSUME NEW m \in Possible[p], shm_pub_match(p, m) PROVE TablesKept(q)
  BY <1>a, <1>3 DEF shm_pub_match, Reports, TablesKept
<1>4. ASSUME NEW m \in Possible[p], BeginCreate(p, m) PROVE TablesKept(q)
  <2>1. matched'[q] = matched[q]
    BY <1>a, <1>4 DEF BeginCreate, Reports
  <2>2. creating'[q] = creating[q]
    BY <1>a, <1>4 DEF BeginCreate
  <2> QED BY <1>4, <2>1, <2>2 DEF BeginCreate, TablesKept
<1>5. ASSUME NEW m \in Possible[p], CreateFails(p, m) PROVE TablesKept(q)
  BY <1>a, <1>5 DEF CreateFails, Reports, TablesKept
<1>6. ASSUME NEW m \in Possible[p], shm_sub_match(p, m) PROVE TablesKept(q)
  <2>1. matched'[q] = matched[q]
    BY <1>a, <1>6 DEF shm_sub_match, Reports
  <2>2. shm_sub_ref'[q] = shm_sub_ref[q]
    BY <1>a, <1>6 DEF shm_sub_match
  <2>3. readers'[q] = readers[q]
    BY <1>a, <1>6 DEF shm_sub_match
  <2> QED BY <1>6, <2>1, <2>2, <2>3 DEF shm_sub_match, TablesKept
<1>7. ASSUME NEW m \in Possible[p], ignore_unmatch(p, m) PROVE TablesKept(q)
  BY <1>a, <1>7 DEF ignore_unmatch, Withdraws, TablesKept
<1>8. ASSUME NEW m \in Possible[p], tcp_pub_unmatch(p, m) PROVE TablesKept(q)
  <2>1. matched'[q] = matched[q]
    BY <1>a, <1>8 DEF tcp_pub_unmatch, Withdraws
  <2>2. sinks'[q] = sinks[q]
    BY <1>a, <1>8 DEF tcp_pub_unmatch
  <2>3. connections'[q] = connections[q]
    BY <1>a, <1>8 DEF tcp_pub_unmatch
  <2>4. refcount'[q] = refcount[q]
    BY <1>a, <1>8 DEF tcp_pub_unmatch
  <2> QED BY <1>8, <2>1, <2>2, <2>3, <2>4 DEF tcp_pub_unmatch, RemoveSinks, TablesKept
<1>9. ASSUME NEW m \in Possible[p], shm_pub_unmatch(p, m) PROVE TablesKept(q)
  <2>1. shm_pub'[q] = shm_pub[q] /\ targets' = targets
    BY <1>a, <1>9 DEF shm_pub_unmatch, RemoveSinks, TablesKept
  <2> QED BY <1>a, <1>9, <2>1 DEF shm_pub_unmatch, Withdraws, TablesKept
<1>10. ASSUME NEW m \in Possible[p], shm_sub_unmatch(p, m) PROVE TablesKept(q)
  <2>1. matched'[q] = matched[q]
    BY <1>a, <1>10 DEF shm_sub_unmatch, Withdraws
  <2>2. shm_sub_ref'[q] = shm_sub_ref[q]
    BY <1>a, <1>10 DEF shm_sub_unmatch
  <2>3. readers'[q] = readers[q]
    BY <1>a, <1>10 DEF shm_sub_unmatch
  <2> QED BY <1>10, <2>1, <2>2, <2>3 DEF shm_sub_unmatch, TablesKept
<1>11. ASSUME NEW c \in creating[p], EndCreate(p, c) PROVE TablesKept(q)
  BY <1>a, <1>11 DEF EndCreate, AddSink, TablesKept
<1>12. ASSUME NEW t \in Topics(p), Collect(p, t) PROVE TablesKept(q)
  BY <1>a, <1>12 DEF Collect, TablesKept
<1>13. ASSUME NEW i \in todo[p], Enqueue(p, i) PROVE TablesKept(q)
  BY <1>a, <1>13 DEF Enqueue, TablesKept
<1>14. ASSUME Release(p) PROVE TablesKept(q)
  BY <1>a, <1>14 DEF Release, TablesKept
<1>15. ASSUME NEW n \in DOMAIN readers[p], PollOpen(p, n) \/ PollRead(p, n) PROVE TablesKept(q)
  <2>1. ASSUME PollOpen(p, n) PROVE TablesKept(q)
    <3>1. readers'[q] = readers[q]
      BY <1>a, <2>1 DEF PollOpen
    <3> QED BY <2>1, <3>1 DEF PollOpen, TablesKept
  <2>2. ASSUME PollRead(p, n) PROVE TablesKept(q)
    <3>1. readers'[q] = readers[q]
      BY Zenon, <1>a, <2>2 DEF PollRead
    <3> QED BY Zenon, <2>2, <3>1 DEF PollRead, TablesKept
  <2> QED BY <1>15, <2>1, <2>2
<1>16. ASSUME stop(p) PROVE TablesKept(q)
  <2>1. stopped'[q] = stopped[q]
    BY <1>a, <1>16 DEF stop
  <2>2. sinks'[q] = sinks[q]
    BY <1>a, <1>16 DEF stop
  <2>3. connections'[q] = connections[q]
    BY <1>a, <1>16 DEF stop
  <2>4. refcount'[q] = refcount[q]
    BY <1>a, <1>16 DEF stop
  <2>5. shm_pub'[q] = shm_pub[q]
    BY <1>a, <1>16 DEF stop
  <2>6. shm_sub_ref'[q] = shm_sub_ref[q]
    BY <1>a, <1>16 DEF stop
  <2> QED BY <1>16, <2>1, <2>2, <2>3, <2>4, <2>5, <2>6 DEF stop, TablesKept
<1>17. ASSUME StopReaders(p) PROVE TablesKept(q)
  BY <1>a, <1>17 DEF StopReaders, TablesKept
<1> QED
  BY Zenon, <1>1, <1>2, <1>3, <1>4, <1>5, <1>6, <1>7, <1>8, <1>9, <1>10, <1>11, <1>12, <1>13, <1>14,
     <1>15, <1>16, <1>17 DEF Acts

-----------------------------------------------------------------------------
(***************************************************************************)
(* Creates and sinks                                                       *)
(***************************************************************************)

\* Creates and stops are these steps.
LEMMA CreatingSteps ==
  ASSUME NEW p \in Processes, Acts(p)
  PROVE  \/ UNCHANGED <<creating, stopped>>
         \/ \E m \in Possible[p] : BeginCreate(p, m)
         \/ \E c \in creating[p] : EndCreate(p, c)
         \/ stop(p)
<1> DEFINE Same == UNCHANGED <<creating, stopped>>
<1>1. ASSUME NEW m \in Possible[p],
             \/ ignore_match(p, m) \/ tcp_pub_match(p, m) \/ shm_pub_match(p, m)
             \/ CreateFails(p, m) \/ shm_sub_match(p, m)
      PROVE  Same
  BY <1>1 DEF ignore_match, tcp_pub_match, shm_pub_match, CreateFails, shm_sub_match
<1>2. ASSUME NEW m \in Possible[p],
             \/ ignore_unmatch(p, m) \/ tcp_pub_unmatch(p, m)
             \/ shm_pub_unmatch(p, m) \/ shm_sub_unmatch(p, m)
      PROVE  Same
  BY <1>2 DEF ignore_unmatch, tcp_pub_unmatch, shm_pub_unmatch, shm_sub_unmatch
<1>3. ASSUME NEW t \in Topics(p), Collect(p, t) PROVE Same
  BY <1>3 DEF Collect
<1>4. ASSUME NEW i \in todo[p], Enqueue(p, i) PROVE Same
  BY <1>4 DEF Enqueue
<1>5. ASSUME NEW n \in DOMAIN readers[p], PollOpen(p, n) \/ PollRead(p, n) PROVE Same
  BY <1>5, Zenon DEF PollOpen, PollRead
<1>6. ASSUME Release(p) \/ StopReaders(p) PROVE Same
  BY <1>6 DEF Release, StopReaders
<1> HIDE DEF Same
<1>7. \/ Same
      \/ \E m \in Possible[p] : BeginCreate(p, m)
      \/ \E c \in creating[p] : EndCreate(p, c)
      \/ stop(p)
  BY Zenon, <1>1, <1>2, <1>3, <1>4, <1>5, <1>6 DEF Acts
<1> QED BY <1>7 DEF Same

\* No sink changes while it is alive, and only those of p come, go or leave the
\* bus.
BusStep(p) ==
  /\ \A i \in DOMAIN sink : i \in DOMAIN sink' => sink'[i] = sink[i]
  /\ \A i \in DOMAIN sink : sink[i].owner # p =>
       i \in DOMAIN sink' /\ (i \in remote_sinks' <=> i \in remote_sinks)
  /\ remote_sinks' \subseteq DOMAIN sink'
  /\ \A i \in DOMAIN sink' : i \notin DOMAIN sink => sink'[i].owner = p

\* The sinks of p and their places in the tables stay.
SinksKept(p) ==
  /\ UNCHANGED <<sink, remote_sinks>>
  /\ sinks'[p] = sinks[p] /\ stopped'[p] = stopped[p]
  /\ DOMAIN shm_pub'[p] = DOMAIN shm_pub[p]
  /\ \A t \in DOMAIN shm_pub[p] : shm_pub'[p][t].sink = shm_pub[p][t].sink

\* The steps that touch the sinks.
LEMMA SinkSteps ==
  ASSUME TypeOK, NEW p \in Processes, Acts(p)
  PROVE  \/ SinksKept(p) /\ targets'[p] = targets[p]
         \/ \E t \in Topics(p) : Collect(p, t)
         \/ \E m \in Possible[p] : tcp_pub_match(p, m) \/ tcp_pub_unmatch(p, m)
         \/ \E m \in Possible[p] : shm_pub_unmatch(p, m) /\ shm_pub[p][m.local.topic].ref = 1
         \/ \E c \in creating[p] : EndCreate(p, c)
         \/ Release(p) \/ stop(p)
<1> USE DEF tableVars, busVars
<1> DEFINE Same == SinksKept(p) /\ targets'[p] = targets[p]
<1>1. ASSUME UNCHANGED <<sink, remote_sinks, targets, sinks, stopped, shm_pub>> PROVE Same
  BY <1>1 DEF SinksKept
<1>2. ASSUME NEW m \in Possible[p], ignore_match(p, m) \/ ignore_unmatch(p, m) PROVE Same
  <2>1. UNCHANGED <<sink, remote_sinks, targets, sinks, stopped, shm_pub>>
    BY <1>2 DEF ignore_match, ignore_unmatch
  <2> QED BY <1>1, <2>1
<1>3. ASSUME NEW m \in Possible[p], BeginCreate(p, m) \/ CreateFails(p, m) PROVE Same
  <2>1. UNCHANGED <<sink, remote_sinks, targets, sinks, stopped, shm_pub>>
    BY <1>3 DEF BeginCreate, CreateFails
  <2> QED BY <1>1, <2>1
<1>4. ASSUME NEW m \in Possible[p], shm_sub_match(p, m) \/ shm_sub_unmatch(p, m) PROVE Same
  <2>1. UNCHANGED <<sink, remote_sinks, targets, sinks, stopped, shm_pub>>
    BY <1>4 DEF shm_sub_match, shm_sub_unmatch
  <2> QED BY <1>1, <2>1
<1>5. ASSUME NEW m \in Possible[p], shm_pub_match(p, m) PROVE Same
  <2> DEFINE t == m.local.topic
             n == shm_pub[p][t].ref + 1
  <2>1. /\ t \in DOMAIN shm_pub[p] /\ shm_pub' = [shm_pub EXCEPT ![p][t].ref = n]
        /\ UNCHANGED <<sink, remote_sinks, targets, sinks, stopped>>
    BY <1>5 DEF shm_pub_match
  <2>2. n \in Nat
    BY <2>1 DEF TypeOK
  <2> HIDE DEF t, n
  <2>3. /\ DOMAIN shm_pub'[p] = DOMAIN shm_pub[p]
        /\ \A u \in DOMAIN shm_pub[p] : shm_pub'[p][u].sink = shm_pub[p][u].sink
    BY <2>1, <2>2, OnlyRef
  <2> QED BY <2>1, <2>3 DEF SinksKept
<1>6. ASSUME NEW m \in Possible[p], shm_pub_unmatch(p, m) PROVE Same \/ shm_pub[p][m.local.topic].ref = 1
  <2> DEFINE t == m.local.topic
             n == shm_pub[p][t].ref - 1
  <2>1. SUFFICES ASSUME shm_pub[p][t].ref # 1 PROVE Same
    OBVIOUS
  <2>2. /\ t \in DOMAIN shm_pub[p] /\ shm_pub' = [shm_pub EXCEPT ![p][t].ref = n] /\ shm_pub[p][t].ref > 1
        /\ UNCHANGED <<sink, remote_sinks, targets, sinks, stopped>>
    BY <1>6, <2>1 DEF shm_pub_unmatch
  <2>3. n \in Nat
    BY <2>2 DEF TypeOK
  <2> HIDE DEF t, n
  <2>4. /\ DOMAIN shm_pub'[p] = DOMAIN shm_pub[p]
        /\ \A u \in DOMAIN shm_pub[p] : shm_pub'[p][u].sink = shm_pub[p][u].sink
    BY <2>2, <2>3, OnlyRef
  <2> QED BY <2>2, <2>4 DEF SinksKept
<1>7. ASSUME NEW i \in todo[p], Enqueue(p, i) PROVE Same
  <2>1. UNCHANGED <<sink, remote_sinks, targets, sinks, stopped, shm_pub>>
    BY <1>7 DEF Enqueue
  <2> QED BY <1>1, <2>1
<1>8. ASSUME NEW n \in DOMAIN readers[p], PollOpen(p, n) \/ PollRead(p, n) PROVE Same
  <2>1. UNCHANGED <<sink, remote_sinks, targets, sinks, stopped, shm_pub>>
    BY <1>8, Zenon DEF PollOpen, PollRead
  <2> QED BY <1>1, <2>1
<1>9. ASSUME StopReaders(p) PROVE Same
  <2>1. UNCHANGED <<sink, remote_sinks, targets, sinks, stopped, shm_pub>>
    BY <1>9 DEF StopReaders
  <2> QED BY <1>1, <2>1
<1> HIDE DEF Same
<1>10. \/ Same
       \/ \E t \in Topics(p) : Collect(p, t)
       \/ \E m \in Possible[p] : tcp_pub_match(p, m) \/ tcp_pub_unmatch(p, m)
       \/ \E m \in Possible[p] : shm_pub_unmatch(p, m) /\ shm_pub[p][m.local.topic].ref = 1
       \/ \E c \in creating[p] : EndCreate(p, c)
       \/ Release(p) \/ stop(p)
  BY ZenonT(30), <1>2, <1>3, <1>4, <1>5, <1>6, <1>7, <1>8, <1>9 DEF Acts
<1> QED BY <1>10 DEF Same

\* A topic gets its entry at the end of the create.
LEMMA TopicSteps ==
  ASSUME TypeOK, NEW p \in Processes, Acts(p)
  PROVE  \/ DOMAIN shm_pub'[p] \subseteq DOMAIN shm_pub[p]
         \/ \E c \in creating[p] : EndCreate(p, c)
<1>1. ASSUME SinksKept(p) PROVE DOMAIN shm_pub'[p] \subseteq DOMAIN shm_pub[p]
  BY <1>1 DEF SinksKept
<1>2. ASSUME NEW t \in Topics(p), Collect(p, t) PROVE shm_pub' = shm_pub
  BY <1>2 DEF Collect, tableVars
<1>3. ASSUME NEW m \in Possible[p], tcp_pub_match(p, m) \/ tcp_pub_unmatch(p, m) PROVE shm_pub' = shm_pub
  BY Zenon, <1>3 DEF tcp_pub_match, tcp_pub_unmatch
<1>4. ASSUME NEW m \in Possible[p], shm_pub_unmatch(p, m), shm_pub[p][m.local.topic].ref = 1
      PROVE  DOMAIN shm_pub'[p] \subseteq DOMAIN shm_pub[p]
  <2>1. shm_pub' = [shm_pub EXCEPT ![p] = Without(shm_pub[p], {m.local.topic})]
    BY <1>4 DEF shm_pub_unmatch
  <2>2. shm_pub'[p] = Without(shm_pub[p], {m.local.topic})
    BY <2>1 DEF TypeOK, PerProcess
  <2> QED BY <2>2 DEF Without, Restrict
<1>5. ASSUME Release(p) PROVE shm_pub' = shm_pub
  BY <1>5 DEF Release, tableVars
<1>6. ASSUME stop(p) PROVE shm_pub'[p] = Empty
  BY <1>6 DEF stop, TypeOK, PerProcess
<1>7. DOMAIN Empty = {}
  BY DEF Empty
<1> QED BY <1>1, <1>2, <1>3, <1>4, <1>5, <1>6, <1>7, SinkSteps

\* Every step keeps one create at a time.
LEMMA OneCreateStep ==
  ASSUME TypeOK, OneCreate, [Next]_vars
  PROVE  OneCreate'
<1>1. CASE UNCHANGED vars
  BY <1>1 DEF vars, tableVars, OneCreate
<1>2. ASSUME NEW p \in Processes, Acts(p) PROVE OneCreate'
  <2>1. \A q \in Processes : q # p =>
          creating'[q] = creating[q] /\ stopped'[q] = stopped[q] /\ shm_pub'[q] = shm_pub[q]
    BY <1>2, OthersKeep DEF TablesKept
  <2>2. ASSUME NEW m \in Possible[p], BeginCreate(p, m) PROVE OneCreate'
    <3>1. PICK g : creating' = [creating EXCEPT ![p] = {[topic |-> m.local.topic, seg |-> g]}]
      BY <2>2, Zenon DEF BeginCreate
    <3>2. creating'[p] = {[topic |-> m.local.topic, seg |-> g]}
      BY <3>1 DEF TypeOK, PerProcess
    <3>3. ~stopped[p] /\ stopped' = stopped /\ shm_pub' = shm_pub /\ m.local.topic \notin DOMAIN shm_pub[p]
      BY <2>2 DEF BeginCreate, Ignored, tableVars
    <3> QED BY <2>1, <3>2, <3>3 DEF OneCreate
  <2>3. ASSUME NEW c \in creating[p], EndCreate(p, c) PROVE OneCreate'
    <3>1. creating'[p] = {}
      BY <2>3 DEF EndCreate, TypeOK, PerProcess
    <3> QED BY <2>1, <3>1 DEF OneCreate
  <2>4. CASE stop(p)
    <3>1. creating' = creating /\ creating[p] = {}
      BY <2>4 DEF stop
    <3> QED BY <2>1, <3>1 DEF OneCreate
  <2>5. CASE UNCHANGED <<creating, stopped>>
    <3>1. CASE DOMAIN shm_pub'[p] \subseteq DOMAIN shm_pub[p]
      BY <2>1, <2>5, <3>1 DEF OneCreate
    <3> QED BY <1>2, <2>3, <3>1, TopicSteps
  <2> QED BY <1>2, <2>2, <2>3, <2>4, <2>5, CreatingSteps
<1> QED BY <1>1, <1>2, Steps

\* A new sink of p is registered.
LEMMA AddBus ==
  ASSUME SinksAlive, NEW p \in Processes, NEW i, NEW s, i \notin DOMAIN sink, s.owner = p, AddSink(i, s)
  PROVE  BusStep(p) /\ sink'[i] = s /\ DOMAIN sink' = DOMAIN sink \cup {i}
BY DEF SinksAlive, AddSink, Put, BusStep

\* Sinks of p leave the bus and some of them are destroyed.
LEMMA DropBus ==
  ASSUME SinksAlive, NEW p \in Processes, NEW D, NEW R, sink' = Without(sink, D),
         remote_sinks' = remote_sinks \ R, D \subseteq R,
         \A i \in R : i \in DOMAIN sink => sink[i].owner = p
  PROVE  BusStep(p) /\ DOMAIN sink' = DOMAIN sink \ D
<1>1. DOMAIN sink' = DOMAIN sink \ D /\ \A i \in DOMAIN sink \ D : sink'[i] = sink[i]
  BY DEF Without, Restrict
<1> QED BY <1>1 DEF SinksAlive, BusStep

\* The sinks of the SHM channels, when none of them changes.
LEMMA ShmSinksKept ==
  ASSUME NEW p \in Processes, ShmSinks(p),
         \A t \in DOMAIN shm_pub'[p] : t \in DOMAIN shm_pub[p] /\ shm_pub'[p][t] = shm_pub[p][t],
         \A t \in DOMAIN shm_pub'[p] :
           /\ shm_pub[p][t].sink \in DOMAIN sink'
           /\ sink'[shm_pub[p][t].sink] = sink[shm_pub[p][t].sink]
  PROVE  ShmSinks(p)'
<1> SUFFICES ASSUME NEW t \in DOMAIN shm_pub'[p]
             PROVE  /\ shm_pub'[p][t].sink \in DOMAIN sink'
                    /\ sink'[shm_pub'[p][t].sink].owner = p /\ sink'[shm_pub'[p][t].sink].via = "shm"
                    /\ sink'[shm_pub'[p][t].sink].topic = t
  BY Zenon DEF ShmSinks
<1> DEFINE i == shm_pub[p][t].sink
<1>1. shm_pub'[p][t].sink = i /\ i \in DOMAIN sink' /\ sink'[i] = sink[i]
  OBVIOUS
<1>2. sink[i].owner = p /\ sink[i].via = "shm" /\ sink[i].topic = t
  BY DEF ShmSinks
<1> HIDE DEF i
<1> QED BY <1>1, <1>2

\* The sinks of the other processes are not touched.
LEMMA OtherSinks ==
  ASSUME SinksAlive, NEW p \in Processes, NEW q \in Processes, q # p, BusStep(p), TablesKept(q)
  PROVE  SinksOf(q)'
<1>1. SinksOf(q)
  BY DEF SinksAlive
<1>2. Owned(q)' = Owned(q)
  BY DEF TablesKept, Owned
<1>3. \A i \in DOMAIN sink : sink[i].owner = q => i \in DOMAIN sink' /\ sink'[i] = sink[i]
  BY DEF BusStep
<1>4. \A i : i \in remote_sinks' /\ sink'[i].owner = q <=> i \in remote_sinks /\ sink[i].owner = q
  <2> TAKE i
  <2>1. ASSUME i \in remote_sinks, sink[i].owner = q PROVE i \in remote_sinks' /\ sink'[i].owner = q
    BY <1>3, <2>1 DEF BusStep, SinksAlive
  <2>2. ASSUME i \in remote_sinks', sink'[i].owner = q PROVE i \in remote_sinks /\ sink[i].owner = q
    BY <2>2 DEF BusStep
  <2> QED BY <2>1, <2>2
<1>5. TcpSinks(q)'
  BY <1>1, <1>3 DEF SinksOf, TcpSinks, TablesKept
<1>6. ShmSinks(q)'
  <2>1. ShmSinks(q) /\ shm_pub'[q] = shm_pub[q]
    BY <1>1 DEF SinksOf, TablesKept
  <2>2. \A t \in DOMAIN shm_pub[q] :
          /\ shm_pub[q][t].sink \in DOMAIN sink'
          /\ sink'[shm_pub[q][t].sink] = sink[shm_pub[q][t].sink]
    BY <1>3, <2>1 DEF ShmSinks
  <2> QED BY <2>1, <2>2, ShmSinksKept
<1>7. Targeted(q)'
  BY <1>1, <1>3 DEF SinksOf, Targeted, TablesKept
<1>8. OnBus(q)'
  BY Zenon, <1>1, <1>2, <1>4 DEF SinksOf, OnBus, TablesKept
<1> QED BY <1>5, <1>6, <1>7, <1>8 DEF SinksOf

\* What the tables of a process refer to, after a step that leaves its sinks.
LEMMA SameSinks ==
  ASSUME SinksAlive, NEW p \in Processes, SinksKept(p),
         \A i \in targets'[p] : i \in DOMAIN sink /\ sink[i].owner = p
  PROVE  BusStep(p) /\ SinksOf(p)'
<1>1. SinksOf(p)
  BY DEF SinksAlive
<1>2. Owned(p)' = Owned(p)
  BY DEF SinksKept, Owned
<1>3. BusStep(p)
  BY DEF SinksKept, BusStep, SinksAlive
<1>4. TcpSinks(p)'
  BY Zenon, <1>1 DEF SinksOf, TcpSinks, SinksKept
<1>5. ShmSinks(p)'
  BY Zenon, <1>1 DEF SinksOf, ShmSinks, SinksKept
<1>6. Targeted(p)'
  BY Zenon DEF SinksKept, Targeted
<1>7. OnBus(p)'
  BY <1>1, <1>2 DEF SinksOf, OnBus, SinksKept
<1> QED BY <1>3, <1>4, <1>5, <1>6, <1>7 DEF SinksOf

\* A match over TCP adds its sink.
LEMMA TcpMatchSinks ==
  ASSUME TypeOK, SinksAlive, NEW p \in Processes, NEW m \in Possible[p], tcp_pub_match(p, m)
  PROVE  BusStep(p) /\ SinksOf(p)'
<1>1. PICK i \in SinkIds \ DOMAIN sink : \E c :
        /\ AddSink(i, [via |-> "tcp", owner |-> p, topic |-> m.local.topic, at |-> c])
        /\ sinks' = [sinks EXCEPT ![p] = Put(sinks[p], Key(m), i)]
  BY TcpMatchAdds, Zenon
<1>2. PICK c : AddSink(i, [via |-> "tcp", owner |-> p, topic |-> m.local.topic, at |-> c])
  BY <1>1, Zenon
<1> DEFINE s == [via |-> "tcp", owner |-> p, topic |-> m.local.topic, at |-> c]
<1>3. s.owner = p /\ s.via = "tcp"
  OBVIOUS
<1> HIDE DEF s
<1>4. BusStep(p) /\ sink'[i] = s /\ DOMAIN sink' = DOMAIN sink \cup {i}
  BY ZenonT(30), <1>1, <1>2, <1>3, AddBus DEF s
<1>5. remote_sinks' = remote_sinks \cup {i} /\ targets' = targets
  BY <1>2 DEF AddSink
<1>6. stopped' = stopped /\ shm_pub' = shm_pub /\ ~stopped[p] /\ Key(m) \notin DOMAIN sinks[p]
  BY Zenon DEF tcp_pub_match, Ignored
<1>7. sinks'[p] = Put(sinks[p], Key(m), i)
  BY <1>1 DEF TypeOK, PerProcess
<1>8. /\ DOMAIN sinks'[p] = DOMAIN sinks[p] \cup {Key(m)} /\ sinks'[p][Key(m)] = i
      /\ \A k \in DOMAIN sinks[p] : sinks'[p][k] = sinks[p][k]
  BY <1>6, <1>7 DEF Put
<1>9. SinksOf(p) /\ i \notin DOMAIN sink /\ remote_sinks \subseteq DOMAIN sink
  BY Zenon, <1>1 DEF SinksAlive
<1>10. \A x \in DOMAIN sink : x \in DOMAIN sink' /\ sink'[x] = sink[x]
  BY <1>4 DEF BusStep
<1>11. \A x : x \in Owned(p)' <=> x \in Owned(p) \/ x = i
  BY <1>6, <1>8 DEF Owned, Range
<1>12. TcpSinks(p)'
  BY <1>3, <1>4, <1>8, <1>9, <1>10 DEF SinksOf, TcpSinks
<1>13. ShmSinks(p)'
  <2>1. ShmSinks(p) /\ shm_pub'[p] = shm_pub[p]
    BY <1>6, <1>9 DEF SinksOf
  <2>2. \A t \in DOMAIN shm_pub[p] :
          /\ shm_pub[p][t].sink \in DOMAIN sink'
          /\ sink'[shm_pub[p][t].sink] = sink[shm_pub[p][t].sink]
    BY <1>10, <2>1 DEF ShmSinks
  <2> QED BY <2>1, <2>2, ShmSinksKept
<1>14. Targeted(p)'
  BY <1>5, <1>9, <1>10 DEF SinksOf, Targeted
<1>15. \A x : x \in Owned(p)' <=> x \in remote_sinks' /\ sink'[x].owner = p
  <2>1. \A x : x \in Owned(p) <=> x \in remote_sinks /\ sink[x].owner = p
    BY <1>6, <1>9 DEF SinksOf, OnBus
  <2> QED BY <1>3, <1>4, <1>5, <1>9, <1>10, <1>11, <2>1
<1> QED BY Zenon, <1>4, <1>6, <1>12, <1>13, <1>14, <1>15 DEF SinksOf, OnBus

\* The end of a create adds its sink.
LEMMA EndCreateSinks ==
  ASSUME TypeOK, OneCreate, SinksAlive, NEW p \in Processes, NEW c \in creating[p], EndCreate(p, c)
  PROVE  BusStep(p) /\ SinksOf(p)'
<1> DEFINE s == [via |-> "shm", owner |-> p, topic |-> c.topic, at |-> c.seg,
                 name |-> seg_name(p, c.topic)]
<1>1. PICK i \in SinkIds \ DOMAIN sink :
        /\ AddSink(i, s)
        /\ shm_pub' = [shm_pub EXCEPT ![p] = Put(shm_pub[p], c.topic, [sink |-> i, ref |-> 1])]
  BY EndCreateAdds
<1>3. s.owner = p /\ s.via = "shm" /\ s.topic = c.topic
  OBVIOUS
<1> HIDE DEF s
<1>4. BusStep(p) /\ sink'[i] = s /\ DOMAIN sink' = DOMAIN sink \cup {i}
  <2>1. i \notin DOMAIN sink /\ AddSink(i, s)
    BY Zenon, <1>1
  <2> QED BY <1>3, <2>1, AddBus, Zenon
<1>5. remote_sinks' = remote_sinks \cup {i} /\ targets' = targets
  BY <1>1 DEF AddSink
<1>6. stopped' = stopped /\ sinks' = sinks /\ ~stopped[p] /\ c.topic \notin DOMAIN shm_pub[p]
  BY DEF EndCreate, OneCreate
<1>7. shm_pub'[p] = Put(shm_pub[p], c.topic, [sink |-> i, ref |-> 1])
  BY <1>1 DEF TypeOK, PerProcess
<1>8. /\ DOMAIN shm_pub'[p] = DOMAIN shm_pub[p] \cup {c.topic} /\ shm_pub'[p][c.topic].sink = i
      /\ \A t \in DOMAIN shm_pub[p] : shm_pub'[p][t] = shm_pub[p][t]
  BY <1>6, <1>7 DEF Put
<1>9. SinksOf(p) /\ i \notin DOMAIN sink /\ remote_sinks \subseteq DOMAIN sink
  BY <1>1 DEF SinksAlive
<1>10. \A x \in DOMAIN sink : x \in DOMAIN sink' /\ sink'[x] = sink[x]
  BY <1>4 DEF BusStep
<1>11. \A x : x \in Owned(p)' <=> x \in Owned(p) \/ x = i
  BY <1>6, <1>8 DEF Owned
<1>12. TcpSinks(p)'
  BY <1>6, <1>9, <1>10 DEF SinksOf, TcpSinks
<1>13. ShmSinks(p)'
  <2>1. SUFFICES ASSUME NEW t \in DOMAIN shm_pub'[p]
                 PROVE  LET x == shm_pub'[p][t].sink
                        IN x \in DOMAIN sink' /\ sink'[x].owner = p /\ sink'[x].via = "shm" /\ sink'[x].topic = t
    BY Zenon DEF ShmSinks
  <2>2. CASE t = c.topic
    BY Zenon, <1>3, <1>4, <1>8, <2>2
  <2>3. CASE t \in DOMAIN shm_pub[p]
    <3> DEFINE x == shm_pub[p][t].sink
    <3>1. x \in DOMAIN sink /\ sink[x].owner = p /\ sink[x].via = "shm" /\ sink[x].topic = t
      BY Zenon, <1>9, <2>3 DEF SinksOf, ShmSinks
    <3>2. shm_pub'[p][t].sink = x
      BY <1>8, <2>3
    <3> HIDE DEF x
    <3> QED BY <1>10, <3>1, <3>2
  <2> QED BY Zenon, <1>8, <2>2, <2>3
<1>14. Targeted(p)'
  BY <1>5, <1>9, <1>10 DEF SinksOf, Targeted
<1>15. \A x : x \in Owned(p)' <=> x \in remote_sinks' /\ sink'[x].owner = p
  <2>1. \A x : x \in Owned(p) <=> x \in remote_sinks /\ sink[x].owner = p
    BY <1>6, <1>9 DEF SinksOf, OnBus
  <2> QED BY <1>3, <1>4, <1>5, <1>9, <1>10, <1>11, <2>1
<1> QED BY <1>4, <1>6, <1>12, <1>13, <1>14, <1>15 DEF SinksOf, OnBus

\* A sink that leaves its table goes, unless a publish holds it.
LEMMA RemoveOne ==
  ASSUME SinksAlive, NEW p \in Processes, NEW i \in Owned(p), ~stopped[p],
         RemoveSinks(p, {i}), stopped' = stopped,
         \A x : x \in Owned(p)' <=> x \in Owned(p) /\ x # i,
         \A k \in DOMAIN sinks'[p] : k \in DOMAIN sinks[p] /\ sinks'[p][k] = sinks[p][k],
         \A t \in DOMAIN shm_pub'[p] : t \in DOMAIN shm_pub[p] /\ shm_pub'[p][t] = shm_pub[p][t]
  PROVE  BusStep(p) /\ SinksOf(p)'
<1> DEFINE D == {i} \ targets[p]
<1>1. /\ sink' = Without(sink, D) /\ remote_sinks' = remote_sinks \ {i}
      /\ targets' = targets /\ D \subseteq {i}
  BY DEF RemoveSinks, Drop
<1>2. SinksOf(p)
  BY DEF SinksAlive
<1>3. \A x : x \in Owned(p) <=> x \in remote_sinks /\ sink[x].owner = p
  BY <1>2 DEF SinksOf, OnBus
<1>4. BusStep(p) /\ DOMAIN sink' = DOMAIN sink \ D
  <2>1. \A x \in {i} : x \in DOMAIN sink => sink[x].owner = p
    BY <1>3
  <2> HIDE DEF D
  <2> QED BY <1>1, <2>1, DropBus, Zenon
<1>5. \A x \in DOMAIN sink : x # i \/ x \in targets[p] => x \in DOMAIN sink' /\ sink'[x] = sink[x]
  BY <1>4 DEF BusStep
<1>6. /\ \A k \in DOMAIN sinks'[p] : sinks'[p][k] \in Owned(p)'
      /\ \A t \in DOMAIN shm_pub'[p] : shm_pub'[p][t].sink \in Owned(p)'
  BY Zenon DEF Owned, Range
<1>7. TcpSinks(p)'
  <2>1. ASSUME NEW k \in DOMAIN sinks'[p]
        PROVE  /\ sinks'[p][k] \in DOMAIN sink'
               /\ sink'[sinks'[p][k]].owner = p /\ sink'[sinks'[p][k]].via = "tcp"
    <3>1. sinks'[p][k] # i /\ k \in DOMAIN sinks[p] /\ sinks'[p][k] = sinks[p][k]
      BY <1>6
    <3>2. /\ sinks[p][k] \in DOMAIN sink
          /\ sink[sinks[p][k]].owner = p /\ sink[sinks[p][k]].via = "tcp"
      BY Zenon, <1>2, <3>1 DEF SinksOf, TcpSinks
    <3> QED BY Zenon, <1>5, <3>1, <3>2
  <2>2. \A k, l \in DOMAIN sinks'[p] : sinks'[p][k] = sinks'[p][l] => k = l
    BY Zenon, <1>2 DEF SinksOf, TcpSinks
  <2> QED BY <2>1, <2>2 DEF TcpSinks
<1>8. ShmSinks(p)'
  <2>1. ShmSinks(p)
    BY Zenon, <1>2 DEF SinksOf
  <2>2. \A t \in DOMAIN shm_pub'[p] : shm_pub[p][t].sink # i /\ shm_pub[p][t].sink \in DOMAIN sink
    BY ZenonT(30), <1>6, <2>1 DEF ShmSinks
  <2>3. \A t \in DOMAIN shm_pub'[p] :
          /\ shm_pub[p][t].sink \in DOMAIN sink'
          /\ sink'[shm_pub[p][t].sink] = sink[shm_pub[p][t].sink]
    BY <1>5, <2>2
  <2> QED BY Zenon, <2>1, <2>3, ShmSinksKept
<1>9. Targeted(p)'
  <2>1. \A x \in targets[p] : x \in DOMAIN sink /\ sink[x].owner = p
    BY Zenon, <1>2 DEF SinksOf, Targeted
  <2>2. targets'[p] = targets[p]
    BY ZenonT(30), <1>1
  <2> QED BY ZenonT(30), <1>5, <2>1, <2>2 DEF Targeted
<1>10. \A x : x \in Owned(p)' <=> x \in remote_sinks' /\ sink'[x].owner = p
  <2>1. remote_sinks \subseteq DOMAIN sink
    BY DEF SinksAlive
  <2> QED BY <1>1, <1>3, <1>5, <2>1
<1> QED BY Zenon, <1>4, <1>7, <1>8, <1>9, <1>10 DEF SinksOf, OnBus

\* So does the sink of a match over TCP,
LEMMA TcpUnmatchSinks ==
  ASSUME TypeOK, SinksAlive, NEW p \in Processes, NEW m \in Possible[p], tcp_pub_unmatch(p, m)
  PROVE  BusStep(p) /\ SinksOf(p)'
<1> DEFINE i == sinks[p][Key(m)]
<1>1. /\ Key(m) \in DOMAIN sinks[p] /\ ~stopped[p] /\ stopped' = stopped
      /\ RemoveSinks(p, {i}) /\ shm_pub' = shm_pub
      /\ sinks' = [sinks EXCEPT ![p] = Without(sinks[p], {Key(m)})]
  BY Zenon DEF tcp_pub_unmatch, Ignored
<1>2. sinks'[p] = Without(sinks[p], {Key(m)})
  BY <1>1 DEF TypeOK, PerProcess
<1>3. /\ DOMAIN sinks'[p] = DOMAIN sinks[p] \ {Key(m)}
      /\ \A k \in DOMAIN sinks'[p] : k \in DOMAIN sinks[p] /\ sinks'[p][k] = sinks[p][k]
  BY <1>2 DEF Without, Restrict
<1>4. i \in Owned(p)
  BY <1>1 DEF Owned, Range
<1>5. SinksOf(p)
  BY DEF SinksAlive
<1>6. \A t \in DOMAIN shm_pub[p] : shm_pub[p][t].sink # i
  BY Zenon, <1>1, <1>5 DEF SinksOf, TcpSinks, ShmSinks
<1>7. \A k \in DOMAIN sinks[p] : sinks[p][k] = i => k = Key(m)
  BY Zenon, <1>1, <1>5 DEF SinksOf, TcpSinks
<1> HIDE DEF i
<1>8. \A x : x \in Owned(p)' <=> x \in Owned(p) /\ x # i
  <2> TAKE x
  <2>1. x \in Range(sinks'[p]) <=> x \in Range(sinks[p]) /\ x # i
    <3>1. ASSUME x \in Range(sinks'[p]) PROVE x \in Range(sinks[p]) /\ x # i
      BY <1>3, <1>7, <3>1 DEF Range
    <3>2. ASSUME x \in Range(sinks[p]), x # i PROVE x \in Range(sinks'[p])
      BY <1>3, <3>2 DEF Range, i
    <3> QED BY <3>1, <3>2
  <2> QED BY Zenon, <1>1, <1>6, <2>1 DEF Owned
<1> QED BY Zenon, <1>1, <1>3, <1>4, <1>8, RemoveOne

\* and, with the last match of its topic, that of an SHM channel.
LEMMA ShmUnmatchSinks ==
  ASSUME TypeOK, SinksAlive, NEW p \in Processes, NEW m \in Possible[p], shm_pub_unmatch(p, m),
         shm_pub[p][m.local.topic].ref = 1
  PROVE  BusStep(p) /\ SinksOf(p)'
<1> DEFINE t == m.local.topic
           i == shm_pub[p][t].sink
<1>1. /\ t \in DOMAIN shm_pub[p] /\ ~stopped[p] /\ stopped' = stopped
      /\ RemoveSinks(p, {i}) /\ sinks' = sinks
      /\ shm_pub' = [shm_pub EXCEPT ![p] = Without(shm_pub[p], {t})]
  BY DEF shm_pub_unmatch, Ignored
<1> HIDE DEF t
<1>2. shm_pub'[p] = Without(shm_pub[p], {t})
  BY <1>1 DEF TypeOK, PerProcess
<1>3. /\ DOMAIN shm_pub'[p] = DOMAIN shm_pub[p] \ {t}
      /\ \A u \in DOMAIN shm_pub'[p] : u \in DOMAIN shm_pub[p] /\ shm_pub'[p][u] = shm_pub[p][u]
  BY <1>2 DEF Without, Restrict
<1>4. i \in Owned(p)
  BY <1>1 DEF Owned
<1>5. SinksOf(p)
  BY DEF SinksAlive
<1>6. \A k \in DOMAIN sinks[p] : sinks[p][k] # i
  BY Zenon, <1>1, <1>5 DEF SinksOf, TcpSinks, ShmSinks
<1>7. \A u \in DOMAIN shm_pub[p] : shm_pub[p][u].sink = i => u = t
  BY Zenon, <1>1, <1>5 DEF SinksOf, ShmSinks
<1>8. \A x : x \in Owned(p)' <=> x \in Owned(p) /\ x # i
  <2> TAKE x
  <2>1. x \in Range(sinks[p]) => x # i
    BY <1>6 DEF Range
  <2>2. (\E u \in DOMAIN shm_pub'[p] : x = shm_pub'[p][u].sink)
          <=> (\E u \in DOMAIN shm_pub[p] : x = shm_pub[p][u].sink) /\ x # i
    BY <1>3, <1>7
  <2>3. x \in Owned(p) <=> x \in Range(sinks[p]) \/ \E u \in DOMAIN shm_pub[p] : x = shm_pub[p][u].sink
    BY DEF Owned
  <2>4. x \in Owned(p)' <=> x \in Range(sinks[p]) \/ \E u \in DOMAIN shm_pub'[p] : x = shm_pub'[p][u].sink
    BY Zenon, <1>1 DEF Owned
  <2> QED BY <2>1, <2>2, <2>3, <2>4
<1> HIDE DEF i
<1>9. /\ RemoveSinks(p, {i}) /\ ~stopped[p] /\ stopped' = stopped
      /\ \A k \in DOMAIN sinks'[p] : k \in DOMAIN sinks[p] /\ sinks'[p][k] = sinks[p][k]
  BY <1>1
<1> QED BY <1>3, <1>4, <1>8, <1>9, RemoveOne, Zenon

\* publish gives up what it holds: what the tables have stays.
LEMMA ReleaseSinks ==
  ASSUME TypeOK, SinksAlive, NEW p \in Processes, Release(p)
  PROVE  BusStep(p) /\ SinksOf(p)'
<1> DEFINE D == targets[p] \ Owned(p)
<1>1. /\ sink' = Without(sink, D) /\ remote_sinks' = remote_sinks \ D
      /\ targets' = [targets EXCEPT ![p] = {}]
      /\ UNCHANGED <<sinks, shm_pub, stopped>>
  BY Zenon DEF Release, Drop, tableVars
<1>2. SinksOf(p)
  BY DEF SinksAlive
<1>3. \A x \in D : x \in DOMAIN sink /\ sink[x].owner = p /\ x \notin Owned(p)
  BY <1>2 DEF SinksOf, Targeted
<1> HIDE DEF D
<1>4. BusStep(p) /\ DOMAIN sink' = DOMAIN sink \ D
  <2>1. \A x \in D : x \in DOMAIN sink => sink[x].owner = p
    BY <1>3
  <2>2. D \subseteq D /\ sink' = Without(sink, D) /\ remote_sinks' = remote_sinks \ D
    BY <1>1
  <2> QED BY <2>1, <2>2, DropBus, Zenon
<1>5. \A x \in DOMAIN sink : x \notin D => x \in DOMAIN sink' /\ sink'[x] = sink[x]
  BY <1>4 DEF BusStep
<1>6. /\ \A k \in DOMAIN sinks[p] : sinks[p][k] \in Owned(p)
      /\ \A t \in DOMAIN shm_pub[p] : shm_pub[p][t].sink \in Owned(p)
  BY DEF Owned, Range
<1>7. TcpSinks(p)'
  BY Zenon, <1>1, <1>2, <1>3, <1>5, <1>6 DEF SinksOf, TcpSinks
<1>8. ShmSinks(p)'
  BY ZenonT(30), <1>1, <1>2, <1>3, <1>5, <1>6 DEF SinksOf, ShmSinks
<1>9. targets'[p] = {}
  BY <1>1 DEF TypeOK, PerProcess
<1>10. ~stopped[p] => \A x : x \in Owned(p)' <=> x \in remote_sinks' /\ sink'[x].owner = p
  <2>1. remote_sinks \subseteq DOMAIN sink
    BY DEF SinksAlive
  <2>2. ~stopped[p] => \A x : x \in Owned(p) <=> x \in remote_sinks /\ sink[x].owner = p
    BY ZenonT(30), <1>2 DEF SinksOf, OnBus
  <2>3. Owned(p)' = Owned(p)
    BY <1>1 DEF Owned
  <2> QED BY <1>1, <1>3, <1>5, <2>1, <2>2, <2>3
<1>11. stopped[p] => DOMAIN sinks'[p] = {} /\ DOMAIN shm_pub'[p] = {}
  BY Zenon, <1>1, <1>2 DEF SinksOf, OnBus
<1> QED BY Zenon, <1>1, <1>4, <1>7, <1>8, <1>9, <1>10, <1>11 DEF SinksOf, Targeted, OnBus

\* stop empties the tables: what a publish holds stays.
LEMMA StopSinks ==
  ASSUME TypeOK, SinksAlive, NEW p \in Processes, stop(p)
  PROVE  BusStep(p) /\ SinksOf(p)'
<1> DEFINE D == Owned(p) \ targets[p]
<1>1. /\ sink' = Without(sink, D) /\ remote_sinks' = remote_sinks \ D /\ targets' = targets
      /\ sinks' = [sinks EXCEPT ![p] = Empty] /\ shm_pub' = [shm_pub EXCEPT ![p] = Empty]
      /\ stopped' = [stopped EXCEPT ![p] = TRUE] /\ ~stopped[p]
  BY DEF stop, Drop
<1>2. SinksOf(p)
  BY DEF SinksAlive
<1>3. \A x \in D : sink[x].owner = p /\ x \notin targets[p]
  BY <1>1, <1>2 DEF SinksOf, OnBus
<1> HIDE DEF D
<1>4. BusStep(p) /\ DOMAIN sink' = DOMAIN sink \ D
  <2>1. \A x \in D : x \in DOMAIN sink => sink[x].owner = p
    BY <1>3
  <2>2. D \subseteq D /\ sink' = Without(sink, D) /\ remote_sinks' = remote_sinks \ D
    BY <1>1
  <2> QED BY <2>1, <2>2, DropBus, ZenonT(30)
<1>5. sinks'[p] = Empty /\ shm_pub'[p] = Empty /\ stopped'[p]
  BY <1>1 DEF TypeOK, PerProcess
<1>6. DOMAIN sinks'[p] = {} /\ DOMAIN shm_pub'[p] = {}
  BY <1>5 DEF Empty
<1>7. \A x \in targets[p] : x \in DOMAIN sink /\ sink[x].owner = p
  BY <1>2 DEF SinksOf, Targeted
<1>8. Targeted(p)'
  BY Zenon, <1>1, <1>3, <1>4, <1>7 DEF BusStep, Targeted
<1> QED BY ZenonT(30), <1>4, <1>5, <1>6, <1>8 DEF SinksOf, TcpSinks, ShmSinks, OnBus

\* Every step of a process keeps the sinks alive and touches its own only.
LEMMA SinksStep ==
  ASSUME TypeOK, OneCreate, SinksAlive, NEW p \in Processes, Acts(p)
  PROVE  BusStep(p) /\ SinksAlive'
<1>1. SinksOf(p) /\ remote_sinks \subseteq DOMAIN sink
  BY DEF SinksAlive
<1>2. ASSUME SinksKept(p), targets'[p] = targets[p] PROVE BusStep(p) /\ SinksOf(p)'
  <2>1. \A i \in targets'[p] : i \in DOMAIN sink /\ sink[i].owner = p
    BY <1>1, <1>2 DEF SinksOf, Targeted
  <2> QED BY <1>2, <2>1, SameSinks
<1>3. ASSUME NEW t \in Topics(p), Collect(p, t) PROVE BusStep(p) /\ SinksOf(p)'
  <2> DEFINE found == {i \in remote_sinks : sink[i].owner = p /\ sink[i].topic = t}
  <2>1. targets' = [targets EXCEPT ![p] = found]
        /\ UNCHANGED <<sink, remote_sinks, sinks, stopped, shm_pub>>
    BY <1>3 DEF Collect, tableVars
  <2>2. \A i \in found : i \in DOMAIN sink /\ sink[i].owner = p
    BY <1>1
  <2> HIDE DEF found
  <2>3. targets'[p] = found
    BY Zenon, <2>1 DEF TypeOK, PerProcess
  <2>4. SinksKept(p)
    BY Zenon, <2>1 DEF SinksKept
  <2> QED BY <2>2, <2>3, <2>4, SameSinks
<1>4. BusStep(p) /\ SinksOf(p)'
  BY Zenon, <1>2, <1>3, SinkSteps, TcpMatchSinks, TcpUnmatchSinks, ShmUnmatchSinks, EndCreateSinks,
     ReleaseSinks, StopSinks
<1>5. \A q \in Processes : q # p => SinksOf(q)'
  BY <1>4, OthersKeep, OtherSinks
<1>6. remote_sinks' \subseteq DOMAIN sink'
  BY <1>4 DEF BusStep
<1> QED BY <1>4, <1>5, <1>6 DEF SinksAlive

-----------------------------------------------------------------------------
(***************************************************************************)
(* Names in /dev/shm                                                       *)
(***************************************************************************)

\* A name keeps its owner: it gets none without a create, its sink takes it
\* along, and the create leaves it to a sink.
LEMMA NamesKept ==
  ASSUME NamesOwned, NEW p \in Processes, BusStep(p),
         \A n \in DOMAIN names' :
           n \in DOMAIN names \/ \E c \in creating'[p] : n = seg_name(p, c.topic),
         \A i \in DOMAIN sink :
           sink[i].via = "shm" => i \in DOMAIN sink' \/ sink[i].name \notin DOMAIN names',
         \A q \in Processes : q # p => creating'[q] = creating[q],
         \A c \in creating[p] :
           \/ c \in creating'[p]
           \/ \E i \in DOMAIN sink' : sink'[i].via = "shm" /\ sink'[i].name = seg_name(p, c.topic)
  PROVE  NamesOwned'
<1> SUFFICES ASSUME NEW n \in DOMAIN names'
             PROVE  \/ \E i \in DOMAIN sink' : sink'[i].via = "shm" /\ sink'[i].name = n
                    \/ \E q \in Processes : \E c \in creating'[q] : n = seg_name(q, c.topic)
  BY Zenon DEF NamesOwned
<1>1. CASE n \notin DOMAIN names
  BY Zenon, <1>1
<1>2. ASSUME NEW i \in DOMAIN sink, sink[i].via = "shm", sink[i].name = n
      PROVE  \E j \in DOMAIN sink' : sink'[j].via = "shm" /\ sink'[j].name = n
  <2>1. i \in DOMAIN sink'
    BY <1>2
  <2>2. sink'[i] = sink[i]
    BY <2>1 DEF BusStep
  <2> QED BY <1>2, <2>1, <2>2
<1>3. ASSUME NEW q \in Processes, NEW c \in creating[q], n = seg_name(q, c.topic), q # p
      PROVE  \E d \in creating'[q] : n = seg_name(q, d.topic)
  BY Zenon, <1>3
<1>4. ASSUME NEW c \in creating[p], n = seg_name(p, c.topic)
      PROVE  \/ \E i \in DOMAIN sink' : sink'[i].via = "shm" /\ sink'[i].name = n
             \/ \E d \in creating'[p] : n = seg_name(p, d.topic)
  BY <1>4
<1> QED BY Zenon, <1>1, <1>2, <1>3, <1>4 DEF NamesOwned

\* The steps that touch names, sinks or creates.
LEMMA NameSteps ==
  ASSUME NEW p \in Processes, Acts(p)
  PROVE  \/ UNCHANGED <<names, sink, creating>>
         \/ \E m \in Possible[p] : tcp_pub_match(p, m) \/ BeginCreate(p, m) \/ CreateFails(p, m)
         \/ \E c \in creating[p] : EndCreate(p, c)
         \/ (\E I, J : Drop(I, J)) /\ creating' = creating
<1> USE DEF busVars, segVars
<1> DEFINE Same == UNCHANGED <<names, sink, creating>>
           Dropped == (\E I, J : Drop(I, J)) /\ creating' = creating
<1>1. ASSUME NEW m \in Possible[p],
             \/ ignore_match(p, m) \/ shm_pub_match(p, m) \/ shm_sub_match(p, m)
             \/ ignore_unmatch(p, m) \/ shm_sub_unmatch(p, m)
      PROVE  Same
  BY <1>1 DEF ignore_match, shm_pub_match, shm_sub_match, ignore_unmatch, shm_sub_unmatch
<1>2. ASSUME NEW m \in Possible[p], tcp_pub_unmatch(p, m) PROVE Dropped
  BY <1>2, Zenon DEF tcp_pub_unmatch, RemoveSinks
<1>3. ASSUME NEW m \in Possible[p], shm_pub_unmatch(p, m) PROVE Same \/ Dropped
  <2>1. UNCHANGED <<busVars, segVars>> \/ RemoveSinks(p, {shm_pub[p][m.local.topic].sink})
    BY <1>3 DEF shm_pub_unmatch
  <2>2. creating' = creating
    BY <1>3 DEF shm_pub_unmatch
  <2>3. UNCHANGED <<busVars, segVars>> => UNCHANGED <<names, sink>>
    OBVIOUS
  <2> QED BY <2>1, <2>2, <2>3, ZenonT(30) DEF RemoveSinks
<1>4. ASSUME Release(p) PROVE Dropped
  BY <1>4, Zenon DEF Release
<1>5. ASSUME stop(p) PROVE Dropped
  BY <1>5, Zenon DEF stop
<1>6. ASSUME NEW t \in Topics(p), Collect(p, t) PROVE Same
  BY <1>6 DEF Collect
<1>7. ASSUME NEW i \in todo[p], Enqueue(p, i) PROVE Same
  BY <1>7 DEF Enqueue, Write
<1>8. ASSUME NEW n \in DOMAIN readers[p], PollOpen(p, n) PROVE Same
  BY <1>8 DEF PollOpen
<1>9. ASSUME NEW n \in DOMAIN readers[p], PollRead(p, n) PROVE Same
  BY Zenon, <1>9 DEF PollRead
<1>10. ASSUME StopReaders(p) PROVE Same
  BY <1>10 DEF StopReaders
<1> HIDE DEF Same, Dropped
<1>11. \/ Same
       \/ \E m \in Possible[p] : tcp_pub_match(p, m) \/ BeginCreate(p, m) \/ CreateFails(p, m)
       \/ \E c \in creating[p] : EndCreate(p, c)
       \/ Dropped
  BY ZenonT(30), <1>1, <1>2, <1>3, <1>4, <1>5, <1>6, <1>7, <1>8, <1>9, <1>10 DEF Acts
<1> QED BY <1>11 DEF Same, Dropped

\* Every step keeps the names owned.
LEMMA NamesStep ==
  ASSUME TypeOK, OneCreate, SinksAlive, NamesOwned, NEW p \in Processes, Acts(p)
  PROVE  NamesOwned'
<1>1. BusStep(p)
  BY SinksStep
<1>2. \A q \in Processes : q # p => creating'[q] = creating[q]
  BY OthersKeep DEF TablesKept
<1>3. ASSUME UNCHANGED <<sink, creating>>, DOMAIN names' \subseteq DOMAIN names PROVE NamesOwned'
  BY ZenonT(30), <1>3 DEF NamesOwned
<1>4. ASSUME NEW m \in Possible[p], tcp_pub_match(p, m) PROVE NamesOwned'
  <2>1. UNCHANGED <<creating, names>>
    BY Zenon, <1>4 DEF tcp_pub_match, segVars
  <2>2. PICK i \in SinkIds \ DOMAIN sink : \E s : AddSink(i, s)
    BY <1>4, TcpMatchAdds, Zenon
  <2>3. DOMAIN sink \subseteq DOMAIN sink'
    BY <2>2 DEF AddSink, Put
  <2> QED BY Zenon, <1>1, <1>2, <2>1, <2>3, NamesKept
<1>5. ASSUME NEW m \in Possible[p], BeginCreate(p, m) PROVE NamesOwned'
  <2> DEFINE name == seg_name(p, m.local.topic)
  <2>1. PICK g : creating' = [creating EXCEPT ![p] = {[topic |-> m.local.topic, seg |-> g]}]
    BY <1>5, Zenon DEF BeginCreate
  <2>2. creating'[p] = {[topic |-> m.local.topic, seg |-> g]}
    BY ZenonT(30), <2>1 DEF TypeOK, PerProcess
  <2>3. \E c \in creating'[p] : name = seg_name(p, c.topic)
    BY <2>2
  <2>4. sink' = sink /\ creating[p] = {}
    BY Zenon, <1>5 DEF BeginCreate, Reports, busVars
  <2>5. \E s : names' = Put(names, name, s)
    BY <1>5, Zenon DEF BeginCreate, MapNew
  <2> HIDE DEF name
  <2>6. DOMAIN names' = DOMAIN names \cup {name}
    BY <2>5 DEF Put
  <2>7. \A n \in DOMAIN names' : n \in DOMAIN names \/ \E c \in creating'[p] : n = seg_name(p, c.topic)
    BY <2>3, <2>6
  <2> QED BY Zenon, <1>1, <1>2, <2>4, <2>7, NamesKept
<1>6. ASSUME NEW m \in Possible[p], CreateFails(p, m) PROVE NamesOwned'
  <2>1. UNCHANGED <<sink, creating>>
    BY Zenon, <1>6 DEF CreateFails, busVars
  <2>2. DOMAIN names' \subseteq DOMAIN names
    BY <1>6 DEF CreateFails, FailToCreate, Without, Restrict
  <2> QED BY <1>3, <2>1, <2>2
<1>7. ASSUME NEW c \in creating[p], EndCreate(p, c) PROVE NamesOwned'
  <2> DEFINE s == [via |-> "shm", owner |-> p, topic |-> c.topic, at |-> c.seg,
                   name |-> seg_name(p, c.topic)]
  <2>1. PICK i \in SinkIds \ DOMAIN sink : AddSink(i, s)
    BY <1>7, EndCreateAdds, Zenon
  <2>2. s.via = "shm" /\ s.name = seg_name(p, c.topic)
    BY Zenon
  <2> HIDE DEF s
  <2>3. DOMAIN sink' = DOMAIN sink \cup {i} /\ sink'[i] = s
    BY <2>1 DEF AddSink, Put
  <2>4. \A d \in creating[p] : d = c
    BY DEF OneCreate
  <2>5. names' = names
    BY ZenonT(30), <1>7 DEF EndCreate, InitRing
  <2>6. \A d \in creating[p] :
          \E j \in DOMAIN sink' : sink'[j].via = "shm" /\ sink'[j].name = seg_name(p, d.topic)
    BY <2>2, <2>3, <2>4
  <2> QED BY Zenon, <1>1, <1>2, <2>3, <2>5, <2>6, NamesKept
<1>8. ASSUME NEW I, NEW J, Drop(I, J), creating' = creating PROVE NamesOwned'
  <2> DEFINE D == I \ J
             N == {sink[i].name : i \in {j \in D : sink[j].via = "shm"}}
  <2>1. sink' = Without(sink, D) /\ names' = Without(names, N)
    BY <1>8 DEF Drop, Unlink
  <2>2. \A i \in D : sink[i].via = "shm" => sink[i].name \in N
    OBVIOUS
  <2> HIDE DEF D, N
  <2>3. DOMAIN sink' = DOMAIN sink \ D /\ DOMAIN names' = DOMAIN names \ N
    BY <2>1 DEF Without, Restrict
  <2>4. \A i \in DOMAIN sink : sink[i].via = "shm" => i \in DOMAIN sink' \/ sink[i].name \notin DOMAIN names'
    BY <2>2, <2>3
  <2> QED BY ZenonT(30), <1>1, <1>2, <1>8, <2>3, <2>4, NamesKept
<1> QED BY <1>3, <1>4, <1>5, <1>6, <1>7, <1>8, NameSteps

-----------------------------------------------------------------------------
(***************************************************************************)
(* No segment and no sink is left behind                                   *)
(***************************************************************************)

\* What the sinks and the names rest on.
LeakInv == TypeOK /\ OneCreate /\ SinksAlive /\ NamesOwned

\* Nothing is there at the start,
LEMMA LeakInit ==
  ASSUME Init
  PROVE  LeakInv
<1>1. TypeOK
  BY Zenon DEF Init, TypeOK, PerProcess, Empty
<1>2. OneCreate
  BY Zenon DEF Init, OneCreate
<1>3. SinksAlive
  <2>1. remote_sinks = {}
    BY DEF Init
  <2>2. ASSUME NEW p \in Processes PROVE SinksOf(p)
    <3>1. DOMAIN sinks[p] = {} /\ DOMAIN shm_pub[p] = {} /\ targets[p] = {}
      BY DEF Init, Empty
    <3>2. Owned(p) = {}
      BY Zenon, <3>1 DEF Owned, Range
    <3> QED BY Zenon, <2>1, <3>1, <3>2 DEF SinksOf, TcpSinks, ShmSinks, Targeted, OnBus
  <2> QED BY <2>1, <2>2 DEF SinksAlive
<1>4. NamesOwned
  BY DEF Init, NamesOwned, Empty
<1> QED BY <1>1, <1>2, <1>3, <1>4 DEF LeakInv

\* every step keeps sinks and names as they have to be,
LEMMA LeakStep ==
  ASSUME LeakInv, [Next]_vars
  PROVE  LeakInv'
<1>1. TypeOK' /\ OneCreate'
  BY TypeStep, OneCreateStep DEF LeakInv
<1>2. ASSUME NEW p \in Processes, Acts(p) PROVE SinksAlive' /\ NamesOwned'
  BY <1>2, SinksStep, NamesStep DEF LeakInv
<1>3. ASSUME UNCHANGED vars PROVE SinksAlive' /\ NamesOwned'
  <2>1. UNCHANGED <<sink, remote_sinks, sinks, shm_pub, targets, stopped, names, creating>>
    BY <1>3 DEF vars, tableVars, busVars, segVars
  <2>2. NamesOwned'
    BY <2>1 DEF LeakInv, NamesOwned
  <2>3. ASSUME NEW p \in Processes PROVE SinksOf(p)'
    <3>1. SinksOf(p) /\ Owned(p)' = Owned(p)
      BY ZenonT(30), <2>1 DEF LeakInv, SinksAlive, Owned
    <3>2. TcpSinks(p)'
      BY <2>1, <3>1 DEF SinksOf, TcpSinks
    <3>3. ShmSinks(p)' /\ Targeted(p)'
      BY ZenonT(30), <2>1, <3>1 DEF SinksOf, ShmSinks, Targeted
    <3>4. OnBus(p)'
      BY Zenon, <2>1, <3>1 DEF SinksOf, OnBus
    <3> QED BY Zenon, <3>2, <3>3, <3>4 DEF SinksOf
  <2> QED BY <2>1, <2>2, <2>3 DEF LeakInv, SinksAlive
<1> QED BY <1>1, <1>2, <1>3, Steps DEF LeakInv

\* so they always are.
LEMMA LeakInvHolds == Spec => []LeakInv
BY LeakInit, LeakStep, PTL DEF Spec

\* No segment is left behind in /dev/shm, after stop and after a publish that
\* outlived its channel too, and no sink goes early: of any number of
\* processes, over any matches, with creates that fail or not.
THEOREM NoLeakHolds == Spec => []NoLeak
<1>1. ASSUME LeakInv PROVE NoLeak
  <2>1. remote_sinks \subseteq DOMAIN sink
    BY <1>1 DEF LeakInv, SinksAlive
  <2>2. ASSUME NEW p \in Processes PROVE Owned(p) \cup targets[p] \subseteq DOMAIN sink
    <3>1. TcpSinks(p) /\ ShmSinks(p) /\ Targeted(p)
      BY <1>1 DEF LeakInv, SinksAlive, SinksOf
    <3>2. ASSUME NEW i \in Owned(p) PROVE i \in DOMAIN sink
      <4>1. (\E k \in DOMAIN sinks[p] : i = sinks[p][k]) \/ \E t \in DOMAIN shm_pub[p] : i = shm_pub[p][t].sink
        BY DEF Owned, Range
      <4> QED BY ZenonT(30), <3>1, <4>1 DEF TcpSinks, ShmSinks
    <3> QED BY <3>1, <3>2 DEF Targeted
  <2>3. UNION {Owned(p) \cup targets[p] : p \in Processes} \subseteq DOMAIN sink
    BY <2>2
  <2> QED BY Zenon, <1>1, <2>1, <2>3 DEF LeakInv, NamesOwned, NoLeak
<1> QED BY <1>1, LeakInvHolds, PTL


-----------------------------------------------------------------------------
(***************************************************************************)
(* The inductive invariant                                                 *)
(***************************************************************************)

\* Discovery reports one match per key.
OnePerKey == \A p \in Processes : \A x, y \in matched[p] : Key(x) = Key(y) => x = y

\* The table f counts the matches of M by what k says of them, and has no
\* entry that counts none.
Counts(f, M, k) ==
  /\ DOMAIN f = {k[m] : m \in M}
  /\ \A x \in DOMAIN f : f[x] = Cardinality({m \in M : k[m] = x})

RemoteOf(p) == [m \in Possible[p] |-> Remote(m)]
TopicOf(p) == [m \in Possible[p] |-> m.local.topic]
NameOf(p) == [m \in Possible[p] |-> ReadName(m)]
Refs(p) == [t \in DOMAIN shm_pub[p] |-> shm_pub[p][t].ref]

\* The tables of the TCP channels.
TcpTables(p) ==
  /\ DOMAIN sinks[p] = {Key(m) : m \in TcpPubs(p)}
  /\ DOMAIN connections[p] = DOMAIN refcount[p]
  /\ Counts(refcount[p], TcpPubs(p), RemoteOf(p))
  /\ \A m \in TcpPubs(p) : sink[sinks[p][Key(m)]].at = connections[p][Remote(m)]

\* The table of the SHM channels; the match whose segment is being created is
\* not in it yet.
ShmTable(p) ==
  /\ creating[p] = {} => Counts(Refs(p), ShmPubs(p), TopicOf(p))
  /\ \A c \in creating[p] : \E m \in ShmPubs(p) :
       /\ m.local.topic = c.topic /\ c.topic \notin DOMAIN shm_pub[p]
       /\ Counts(Refs(p), ShmPubs(p) \ {m}, TopicOf(p))

\* The tables of the readers.
ReadTables(p) ==
  /\ DOMAIN readers[p] = DOMAIN shm_sub_ref[p]
  /\ Counts(shm_sub_ref[p], ShmSubs(p), NameOf(p))

-----------------------------------------------------------------------------
(***************************************************************************)
(* Reference counts                                                        *)
(***************************************************************************)

\* The size of a finite set, when an element comes or goes.
LEMMA OneMore ==
  ASSUME NEW S, IsFiniteSet(S), NEW m
  PROVE  /\ Cardinality(S) \in Nat
         /\ m \notin S => Cardinality(S \cup {m}) = Cardinality(S) + 1
         /\ m \in S => Cardinality(S \ {m}) = Cardinality(S) - 1 /\ Cardinality(S) >= 1
         /\ m \in S /\ Cardinality(S) = 1 => S = {m}
         /\ m \in S /\ Cardinality(S) # 1 => S # {m}
<1>1. Cardinality(S) \in Nat
  BY FS_CardinalityType
<1>2. m \notin S => Cardinality(S \cup {m}) = Cardinality(S) + 1
  BY FS_AddElement
<1>3. m \in S => Cardinality(S \ {m}) = Cardinality(S) - 1
  BY FS_RemoveElement
<1>4. Cardinality(S) = 0 <=> S = {}
  BY FS_EmptySet
<1>5. Cardinality({m}) = 1
  BY FS_Singleton, Zenon
<1>6. m \in S /\ Cardinality(S) = 1 => S = {m}
  <2> SUFFICES ASSUME m \in S, Cardinality(S) = 1 PROVE S = {m}
    OBVIOUS
  <2>1. IsFiniteSet(S \ {m}) /\ Cardinality(S \ {m}) = 0
    BY <1>3, FS_RemoveElement
  <2>2. S \ {m} = {}
    BY <2>1, FS_EmptySet
  <2> QED BY <2>2
<1> QED BY <1>1, <1>2, <1>3, <1>4, <1>5, <1>6

\* One match more is counted.
LEMMA CountIn ==
  ASSUME NEW f, NEW M, NEW k, NEW m, IsFiniteSet(M), Counts(f, M, k), m \notin M
  PROVE  Counts(Put(f, k[m], (IF k[m] \in DOMAIN f THEN f[k[m]] ELSE 0) + 1), M \cup {m}, k)
<1> DEFINE r == (IF k[m] \in DOMAIN f THEN f[k[m]] ELSE 0) + 1
           g == Put(f, k[m], r)
           Of(x) == {y \in M : k[y] = x}
<1>1. DOMAIN g = DOMAIN f \cup {k[m]} /\ g[k[m]] = r /\ \A x \in DOMAIN f : x # k[m] => g[x] = f[x]
  BY Zenon DEF Put
<1>2. DOMAIN f = {k[y] : y \in M} /\ \A x \in DOMAIN f : f[x] = Cardinality(Of(x))
  BY DEF Counts
<1>3. IsFiniteSet(Of(k[m])) /\ m \notin Of(k[m])
  <2>1. Of(k[m]) \subseteq M
    OBVIOUS
  <2> QED BY <2>1, FS_Subset
<1>4. Cardinality(Of(k[m]) \cup {m}) = r
  <2>1. Cardinality(Of(k[m]) \cup {m}) = Cardinality(Of(k[m])) + 1
    BY <1>3, OneMore
  <2>2. CASE k[m] \in DOMAIN f
    BY <1>2, <2>1, <2>2
  <2>3. CASE k[m] \notin DOMAIN f
    <3>1. Of(k[m]) = {}
      BY <1>2, <2>3
    <3>2. Cardinality(Of(k[m])) = 0
      BY <3>1, FS_EmptySet
    <3> QED BY <2>1, <2>3, <3>2
  <2> QED BY <2>2, <2>3
<1>5. {y \in M \cup {m} : k[y] = k[m]} = Of(k[m]) \cup {m}
  OBVIOUS
<1>6. \A x : x # k[m] => {y \in M \cup {m} : k[y] = x} = Of(x)
  OBVIOUS
<1>7. DOMAIN g = {k[y] : y \in M \cup {m}}
  BY Zenon, <1>1, <1>2
<1> HIDE DEF r, g
<1>8. ASSUME NEW x \in DOMAIN g PROVE g[x] = Cardinality({y \in M \cup {m} : k[y] = x})
  <2>1. CASE x = k[m]
    BY Zenon, <1>1, <1>4, <1>5, <2>1
  <2>2. CASE x # k[m]
    <3>1. x \in DOMAIN f /\ g[x] = f[x] /\ f[x] = Cardinality(Of(x))
      BY <1>1, <1>2, <2>2
    <3>2. {y \in M \cup {m} : k[y] = x} = Of(x)
      BY <1>6, <2>2
    <3> HIDE DEF Of
    <3> QED BY <3>1, <3>2
  <2> QED BY Zenon, <2>1, <2>2
<1> QED BY Zenon, <1>7, <1>8 DEF Counts, g, r

\* One match less is counted, and the entry goes with the last one.
CountedOut(f, M, k, m) ==
  /\ k[m] \in DOMAIN f /\ f[k[m]] \in Nat /\ f[k[m]] >= 1
  /\ Counts(Unref(f, k[m]), M \ {m}, k)
  /\ DOMAIN Unref(f, k[m]) = IF f[k[m]] = 1 THEN DOMAIN f \ {k[m]} ELSE DOMAIN f

\* What Unref makes of a count when its match goes.
LEMMA CountOut ==
  ASSUME NEW f, NEW M, NEW k, NEW m, IsFiniteSet(M), Counts(f, M, k), m \in M
  PROVE  CountedOut(f, M, k, m)
<1> DEFINE a == k[m]
           g == Unref(f, a)
           Of(x) == {y \in M : k[y] = x}
<1>1. a \in DOMAIN f /\ DOMAIN f = {k[y] : y \in M} /\ \A x \in DOMAIN f : f[x] = Cardinality(Of(x))
  BY DEF Counts
<1>2. IsFiniteSet(Of(a)) /\ m \in Of(a)
  <2>1. Of(a) \subseteq M
    OBVIOUS
  <2> QED BY <2>1, FS_Subset
<1>3. /\ Cardinality(Of(a)) \in Nat /\ Cardinality(Of(a)) >= 1
      /\ Cardinality(Of(a) \ {m}) = Cardinality(Of(a)) - 1
      /\ Cardinality(Of(a)) = 1 => Of(a) = {m}
      /\ Cardinality(Of(a)) # 1 => Of(a) # {m}
  <2> DEFINE S == Of(a)
  <2>1. IsFiniteSet(S) /\ m \in S
    BY <1>2
  <2> HIDE DEF S
  <2>2. /\ Cardinality(S) \in Nat /\ Cardinality(S) >= 1
        /\ Cardinality(S \ {m}) = Cardinality(S) - 1
        /\ Cardinality(S) = 1 => S = {m}
        /\ Cardinality(S) # 1 => S # {m}
    BY <2>1, OneMore, Zenon
  <2> QED BY <2>2 DEF S
<1>4. f[a] = Cardinality(Of(a))
  BY <1>1
<1>5. {y \in M \ {m} : k[y] = a} = Of(a) \ {m}
  OBVIOUS
<1>6. \A x : x # a => {y \in M \ {m} : k[y] = x} = Of(x)
  OBVIOUS
<1>7. CASE f[a] = 1
  <2>1. g = Without(f, {a})
    BY Zenon, <1>7 DEF Unref, LastOf
  <2>2. DOMAIN g = DOMAIN f \ {a} /\ \A x \in DOMAIN g : g[x] = f[x]
    BY Zenon, <2>1 DEF Without, Restrict
  <2>3. Of(a) = {m}
    BY Zenon, <1>3, <1>4, <1>7
  <2>4. DOMAIN g = {k[y] : y \in M \ {m}}
    BY Zenon, <1>1, <2>2, <2>3
  <2> HIDE DEF g
  <2>5. ASSUME NEW x \in DOMAIN g PROVE g[x] = Cardinality({y \in M \ {m} : k[y] = x})
    <3>1. x \in DOMAIN f /\ x # a /\ g[x] = f[x] /\ f[x] = Cardinality(Of(x))
      BY <1>1, <2>2
    <3>2. {y \in M \ {m} : k[y] = x} = Of(x)
      BY <1>6, <3>1
    <3> HIDE DEF Of
    <3> QED BY <3>1, <3>2
  <2> QED BY Zenon, <1>1, <1>3, <1>4, <1>7, <2>2, <2>4, <2>5 DEF Counts, CountedOut, g
<1>8. CASE f[a] # 1
  <2>1. g = Put(f, a, f[a] - 1)
    BY <1>8 DEF Unref, LastOf
  <2>2. DOMAIN g = DOMAIN f /\ g[a] = f[a] - 1 /\ \A x \in DOMAIN g : x # a => g[x] = f[x]
    BY Zenon, <1>1, <2>1 DEF Put
  <2>3. PICK z \in M : z # m /\ k[z] = a
    BY Zenon, <1>2, <1>3, <1>4, <1>8
  <2>4. DOMAIN g = {k[y] : y \in M \ {m}}
    BY ZenonT(30), <1>1, <2>2, <2>3
  <2> HIDE DEF g
  <2>5. ASSUME NEW x \in DOMAIN g PROVE g[x] = Cardinality({y \in M \ {m} : k[y] = x})
    <3>1. CASE x = a
      BY ZenonT(30), <1>3, <1>4, <1>5, <2>2, <3>1
    <3>2. CASE x # a
      <4>1. x \in DOMAIN f /\ g[x] = f[x] /\ f[x] = Cardinality(Of(x))
        BY <1>1, <2>2, <3>2
      <4>2. {y \in M \ {m} : k[y] = x} = Of(x)
        BY <1>6, <3>2
      <4> HIDE DEF Of
      <4> QED BY <4>1, <4>2
    <3> QED BY <3>1, <3>2
  <2> QED BY ZenonT(30), <1>1, <1>3, <1>4, <1>8, <2>2, <2>4, <2>5 DEF Counts, CountedOut, g
<1> QED BY <1>7, <1>8

-----------------------------------------------------------------------------
(***************************************************************************)
(* What a step leaves alone                                                *)
(***************************************************************************)

\* So do the tables of the TCP channels, of the SHM channels and of the readers,
\* and the matches they are about.
TcpKept(p) ==
  /\ sinks'[p] = sinks[p] /\ connections'[p] = connections[p] /\ refcount'[p] = refcount[p]
  /\ TcpPubs(p)' = TcpPubs(p)

ShmKept(p) ==
  /\ shm_pub'[p] = shm_pub[p] /\ creating'[p] = creating[p]
  /\ ShmPubs(p)' = ShmPubs(p)

ReadKept(p) ==
  /\ DOMAIN readers'[p] = DOMAIN readers[p] /\ shm_sub_ref'[p] = shm_sub_ref[p]
  /\ ShmSubs(p)' = ShmSubs(p)

\* A report adds one match, to at most one of the three.
LEMMA ReportsAdds ==
  ASSUME TypeOK, NEW p \in Processes, NEW m \in Possible[p], Reports(p, m)
  PROVE  /\ matched'[p] = matched[p] \cup {m} /\ m \notin matched[p] /\ creating[p] = {}
         /\ TcpPubs(p)' = IF pubsub_pair(m.local, m.remote) /\ IsPub(m) /\ ~Shm(p, m)
                          THEN TcpPubs(p) \cup {m} ELSE TcpPubs(p)
         /\ ShmPubs(p)' = IF pubsub_pair(m.local, m.remote) /\ IsPub(m) /\ Shm(p, m)
                          THEN ShmPubs(p) \cup {m} ELSE ShmPubs(p)
         /\ ShmSubs(p)' = IF pubsub_pair(m.local, m.remote) /\ ~IsPub(m) /\ Shm(p, m)
                          THEN ShmSubs(p) \cup {m} ELSE ShmSubs(p)
<1>1. matched'[p] = matched[p] \cup {m} /\ m \notin matched[p] /\ creating[p] = {}
  BY Zenon DEF Reports, TypeOK, PerProcess
<1> QED BY ZenonT(30), <1>1 DEF TcpPubs, ShmPubs, ShmSubs

\* A withdrawal takes one, from at most one of the three.
LEMMA WithdrawsTakes ==
  ASSUME TypeOK, NEW p \in Processes, NEW m \in Possible[p], Withdraws(p, m)
  PROVE  /\ matched'[p] = matched[p] \ {m} /\ m \in matched[p] /\ creating[p] = {}
         /\ TcpPubs(p)' = TcpPubs(p) \ {m}
         /\ ShmPubs(p)' = ShmPubs(p) \ {m}
         /\ ShmSubs(p)' = ShmSubs(p) \ {m}
         /\ m \notin TcpPubs(p) => TcpPubs(p)' = TcpPubs(p)
         /\ m \notin ShmPubs(p) => ShmPubs(p)' = ShmPubs(p)
         /\ m \notin ShmSubs(p) => ShmSubs(p)' = ShmSubs(p)
         /\ m \in TcpPubs(p) <=> pubsub_pair(m.local, m.remote) /\ IsPub(m) /\ ~Shm(p, m)
         /\ m \in ShmPubs(p) <=> pubsub_pair(m.local, m.remote) /\ IsPub(m) /\ Shm(p, m)
         /\ m \in ShmSubs(p) <=> pubsub_pair(m.local, m.remote) /\ ~IsPub(m) /\ Shm(p, m)
<1>1. matched'[p] = matched[p] \ {m} /\ m \in matched[p] /\ creating[p] = {}
  BY Zenon DEF Withdraws, TypeOK, PerProcess
<1>2. TcpPubs(p)' = TcpPubs(p) \ {m} /\ ShmPubs(p)' = ShmPubs(p) \ {m} /\ ShmSubs(p)' = ShmSubs(p) \ {m}
  BY Zenon, <1>1 DEF TcpPubs, ShmPubs, ShmSubs
<1>3. /\ m \notin TcpPubs(p) => TcpPubs(p)' = TcpPubs(p)
      /\ m \notin ShmPubs(p) => ShmPubs(p)' = ShmPubs(p)
      /\ m \notin ShmSubs(p) => ShmSubs(p)' = ShmSubs(p)
  BY <1>2
<1>4. /\ m \in TcpPubs(p) <=> pubsub_pair(m.local, m.remote) /\ IsPub(m) /\ ~Shm(p, m)
      /\ m \in ShmPubs(p) <=> pubsub_pair(m.local, m.remote) /\ IsPub(m) /\ Shm(p, m)
      /\ m \in ShmSubs(p) <=> pubsub_pair(m.local, m.remote) /\ ~IsPub(m) /\ Shm(p, m)
  BY Zenon, <1>1 DEF TcpPubs, ShmPubs, ShmSubs
<1> QED BY Zenon, <1>1, <1>2, <1>3, <1>4

\* The steps that touch a channel, a reader or the matches they are about.
LEMMA WhoTouches ==
  ASSUME TypeOK, NEW p \in Processes, Acts(p), ~stopped'[p]
  PROVE  /\ \/ TcpKept(p)
            \/ \E m \in Possible[p] : tcp_pub_match(p, m) \/ tcp_pub_unmatch(p, m)
         /\ \/ ShmKept(p)
            \/ \E m \in Possible[p] :
                 \/ shm_pub_match(p, m) \/ BeginCreate(p, m) \/ CreateFails(p, m)
                 \/ shm_pub_unmatch(p, m)
                 \/ ignore_unmatch(p, m) /\ m \in ShmPubs(p) /\ m.local.topic \notin DOMAIN shm_pub[p]
            \/ \E c \in creating[p] : EndCreate(p, c)
         /\ \/ ReadKept(p)
            \/ \E m \in Possible[p] : shm_sub_match(p, m) \/ shm_sub_unmatch(p, m)
<1> USE DEF tableVars, busVars
<1> DEFINE Tcp == TcpKept(p) \/ \E m \in Possible[p] : tcp_pub_match(p, m) \/ tcp_pub_unmatch(p, m)
           Shm0 == \/ ShmKept(p)
                   \/ \E m \in Possible[p] :
                        \/ shm_pub_match(p, m) \/ BeginCreate(p, m) \/ CreateFails(p, m)
                        \/ shm_pub_unmatch(p, m)
                        \/ ignore_unmatch(p, m) /\ m \in ShmPubs(p) /\ m.local.topic \notin DOMAIN shm_pub[p]
                   \/ \E c \in creating[p] : EndCreate(p, c)
           Read == ReadKept(p) \/ \E m \in Possible[p] : shm_sub_match(p, m) \/ shm_sub_unmatch(p, m)
           Same == matched'[p] = matched[p] =>
             TcpPubs(p)' = TcpPubs(p) /\ ShmPubs(p)' = ShmPubs(p) /\ ShmSubs(p)' = ShmSubs(p)
<1>a. Same
  BY Zenon DEF TcpPubs, ShmPubs, ShmSubs
<1> HIDE DEF Same
<1>1. ASSUME NEW m \in Possible[p], ignore_match(p, m) PROVE Tcp /\ Shm0 /\ Read
  <2>1. UNCHANGED <<creating, tableVars, readers, stopped>> /\ Reports(p, m) /\ Ignored(p, m)
    BY Zenon, <1>1 DEF ignore_match
  <2>2. ~stopped[p]
    BY <2>1
  <2>3. TcpPubs(p)' = TcpPubs(p) /\ ShmPubs(p)' = ShmPubs(p) /\ ShmSubs(p)' = ShmSubs(p)
    BY Zenon, <2>1, <2>2, ReportsAdds DEF Ignored
  <2> QED BY ZenonT(30), <2>1, <2>3 DEF TcpKept, ShmKept, ReadKept
<1>2. ASSUME NEW m \in Possible[p], tcp_pub_match(p, m) PROVE Tcp /\ Shm0 /\ Read
  <2>1. UNCHANGED <<creating, shm_pub, shm_sub_ref, readers>> /\ Reports(p, m) /\ IsPub(m) /\ ~Shm(p, m)
    BY Zenon, <1>2 DEF tcp_pub_match
  <2>2. ShmPubs(p)' = ShmPubs(p) /\ ShmSubs(p)' = ShmSubs(p)
    BY Zenon, <2>1, ReportsAdds
  <2> QED BY Zenon, <1>2, <2>1, <2>2 DEF ShmKept, ReadKept
<1>3. ASSUME NEW m \in Possible[p], shm_pub_match(p, m) \/ BeginCreate(p, m) \/ CreateFails(p, m)
      PROVE  Tcp /\ Shm0 /\ Read
  <2>1. UNCHANGED <<sinks, connections, refcount, shm_sub_ref, readers>> /\ Reports(p, m)
        /\ IsPub(m) /\ Shm(p, m)
    BY <1>3 DEF shm_pub_match, BeginCreate, CreateFails
  <2>2. TcpPubs(p)' = TcpPubs(p) /\ ShmSubs(p)' = ShmSubs(p)
    BY Zenon, <2>1, ReportsAdds
  <2> QED BY Zenon, <1>3, <2>1, <2>2 DEF TcpKept, ReadKept
<1>4. ASSUME NEW m \in Possible[p], shm_sub_match(p, m) PROVE Tcp /\ Shm0 /\ Read
  <2>1. UNCHANGED <<creating, sinks, connections, refcount, shm_pub>> /\ Reports(p, m) /\ ~IsPub(m)
    BY <1>4 DEF shm_sub_match
  <2>2. TcpPubs(p)' = TcpPubs(p) /\ ShmPubs(p)' = ShmPubs(p)
    BY Zenon, <2>1, ReportsAdds
  <2> QED BY ZenonT(30), <1>4, <2>1, <2>2 DEF TcpKept, ShmKept
<1>5. ASSUME NEW m \in Possible[p], ignore_unmatch(p, m) PROVE Tcp /\ Shm0 /\ Read
  <2>1. UNCHANGED <<creating, tableVars, readers, stopped>> /\ Withdraws(p, m)
        /\ (Ignored(p, m) \/ (IsPub(m) /\ Shm(p, m) /\ m.local.topic \notin DOMAIN shm_pub[p]))
    BY Zenon, <1>5 DEF ignore_unmatch
  <2>2. ~stopped[p]
    BY <2>1
  <2>3. m \notin TcpPubs(p) /\ m \notin ShmSubs(p)
        /\ (m \in ShmPubs(p) => m.local.topic \notin DOMAIN shm_pub[p])
    BY Zenon, <2>1, <2>2, WithdrawsTakes DEF Ignored
  <2>4. TcpPubs(p)' = TcpPubs(p) /\ ShmSubs(p)' = ShmSubs(p) /\ (m \notin ShmPubs(p) => ShmPubs(p)' = ShmPubs(p))
    BY Zenon, <2>1, <2>3, WithdrawsTakes
  <2> QED BY Zenon, <1>5, <2>1, <2>3, <2>4 DEF TcpKept, ShmKept, ReadKept
<1>6. ASSUME NEW m \in Possible[p], tcp_pub_unmatch(p, m) PROVE Tcp /\ Shm0 /\ Read
  <2>1. UNCHANGED <<creating, shm_pub, shm_sub_ref, readers>> /\ Withdraws(p, m) /\ IsPub(m) /\ ~Shm(p, m)
    BY Zenon, <1>6 DEF tcp_pub_unmatch
  <2>2. ShmPubs(p)' = ShmPubs(p) /\ ShmSubs(p)' = ShmSubs(p)
    BY Zenon, <2>1, WithdrawsTakes
  <2> QED BY Zenon, <1>6, <2>1, <2>2 DEF ShmKept, ReadKept
<1>7. ASSUME NEW m \in Possible[p], shm_pub_unmatch(p, m) PROVE Tcp /\ Shm0 /\ Read
  <2>1. UNCHANGED <<sinks, connections, refcount, shm_sub_ref, readers>> /\ Withdraws(p, m)
        /\ IsPub(m) /\ Shm(p, m)
    BY <1>7 DEF shm_pub_unmatch
  <2>2. TcpPubs(p)' = TcpPubs(p) /\ ShmSubs(p)' = ShmSubs(p)
    BY Zenon, <2>1, WithdrawsTakes
  <2> QED BY Zenon, <1>7, <2>1, <2>2 DEF TcpKept, ReadKept
<1>8. ASSUME NEW m \in Possible[p], shm_sub_unmatch(p, m) PROVE Tcp /\ Shm0 /\ Read
  <2>1. UNCHANGED <<creating, sinks, connections, refcount, shm_pub>> /\ Withdraws(p, m) /\ ~IsPub(m)
    BY Zenon, <1>8 DEF shm_sub_unmatch
  <2>2. TcpPubs(p)' = TcpPubs(p) /\ ShmPubs(p)' = ShmPubs(p)
    BY Zenon, <2>1, WithdrawsTakes
  <2> QED BY Zenon, <1>8, <2>1, <2>2 DEF TcpKept, ShmKept
<1>9. ASSUME NEW c \in creating[p], EndCreate(p, c) PROVE Tcp /\ Shm0 /\ Read
  <2>1. UNCHANGED <<matched, sinks, connections, refcount, shm_sub_ref, readers>>
    BY Zenon, <1>9 DEF EndCreate
  <2> QED BY Zenon, <1>9, <1>a, <2>1 DEF TcpKept, ReadKept, Same
<1>10. ASSUME UNCHANGED <<matched, creating, tableVars>>, DOMAIN readers'[p] = DOMAIN readers[p]
       PROVE  Tcp /\ Shm0 /\ Read
  BY Zenon, <1>a, <1>10 DEF TcpKept, ShmKept, ReadKept, Same
<1>11. ASSUME NEW t \in Topics(p), Collect(p, t) PROVE Tcp /\ Shm0 /\ Read
  <2>1. UNCHANGED <<matched, creating, tableVars, readers>>
    BY Zenon, <1>11 DEF Collect
  <2> QED BY Zenon, <1>10, <2>1
<1>12. ASSUME NEW i \in todo[p], Enqueue(p, i) PROVE Tcp /\ Shm0 /\ Read
  <2>1. UNCHANGED <<matched, creating, tableVars, readers>>
    BY Zenon, <1>12 DEF Enqueue
  <2> QED BY Zenon, <1>10, <2>1
<1>13. ASSUME Release(p) PROVE Tcp /\ Shm0 /\ Read
  <2>1. UNCHANGED <<matched, creating, tableVars, readers>>
    BY Zenon, <1>13 DEF Release
  <2> QED BY Zenon, <1>10, <2>1
<1>14. ASSUME NEW n \in DOMAIN readers[p], PollOpen(p, n) PROVE Tcp /\ Shm0 /\ Read
  <2>1. UNCHANGED <<matched, creating, tableVars>>
    BY <1>14 DEF PollOpen
  <2>2. DOMAIN readers'[p] = DOMAIN readers[p]
    BY <1>14 DEF PollOpen, TypeOK, PerProcess
  <2> QED BY Zenon, <1>10, <2>1, <2>2
<1>15. ASSUME NEW n \in DOMAIN readers[p], PollRead(p, n) PROVE Tcp /\ Shm0 /\ Read
  <2>1. UNCHANGED <<matched, creating, tableVars>>
    BY <1>15 DEF PollRead
  <2>2. DOMAIN readers'[p] = DOMAIN readers[p]
    BY <1>15 DEF PollRead, TypeOK, PerProcess
  <2> QED BY ZenonT(30), <1>10, <2>1, <2>2
<1>16. ~stop(p) /\ ~StopReaders(p)
  <2>1. ASSUME stop(p) PROVE FALSE
    <3>1. stopped' = [stopped EXCEPT ![p] = TRUE]
      BY Zenon, <2>1 DEF stop
    <3> QED BY <3>1 DEF TypeOK, PerProcess
  <2>2. ASSUME StopReaders(p) PROVE FALSE
    <3>1. stopped[p] /\ UNCHANGED stopped
      BY Zenon, <2>2 DEF StopReaders
    <3> QED BY Zenon, <3>1
  <2> QED BY Zenon, <2>1, <2>2
<1> HIDE DEF Tcp, Shm0, Read
<1>17. Tcp /\ Shm0 /\ Read
  BY Zenon, <1>1, <1>2, <1>3, <1>4, <1>5, <1>6, <1>7, <1>8, <1>9, <1>11, <1>12, <1>13, <1>14, <1>15,
     <1>16 DEF Acts
<1> QED BY Zenon, <1>17 DEF Tcp, Shm0, Read

\* Discovery is the only one that changes the matches.
LEMMA MatchedSteps ==
  ASSUME NEW p \in Processes, Acts(p)
  PROVE  matched' = matched \/ \E m \in Possible[p] : Reports(p, m) \/ Withdraws(p, m)
<1>1. ASSUME NEW m \in Possible[p],
             \/ ignore_match(p, m) \/ tcp_pub_match(p, m) \/ shm_pub_match(p, m)
             \/ BeginCreate(p, m) \/ CreateFails(p, m) \/ shm_sub_match(p, m)
      PROVE  Reports(p, m)
  BY <1>1 DEF ignore_match, tcp_pub_match, shm_pub_match, BeginCreate, CreateFails, shm_sub_match
<1>2. ASSUME NEW m \in Possible[p],
             \/ ignore_unmatch(p, m) \/ tcp_pub_unmatch(p, m)
             \/ shm_pub_unmatch(p, m) \/ shm_sub_unmatch(p, m)
      PROVE  Withdraws(p, m)
  BY <1>2 DEF ignore_unmatch, tcp_pub_unmatch, shm_pub_unmatch, shm_sub_unmatch
<1>3. ASSUME NEW c \in creating[p], EndCreate(p, c) PROVE matched' = matched
  BY <1>3 DEF EndCreate
<1>4. ASSUME NEW t \in Topics(p), Collect(p, t) PROVE matched' = matched
  BY <1>4 DEF Collect
<1>5. ASSUME NEW i \in todo[p], Enqueue(p, i) PROVE matched' = matched
  BY <1>5 DEF Enqueue
<1>6. ASSUME NEW n \in DOMAIN readers[p], PollOpen(p, n) \/ PollRead(p, n) PROVE matched' = matched
  BY <1>6, Zenon DEF PollOpen, PollRead
<1>7. ASSUME Release(p) \/ stop(p) \/ StopReaders(p) PROVE matched' = matched
  BY Zenon, <1>7 DEF Release, stop, StopReaders
<1> QED BY Zenon, <1>1, <1>2, <1>3, <1>4, <1>5, <1>6, <1>7 DEF Acts

\* Every step keeps one match per key.
LEMMA OnePerKeyStep ==
  ASSUME TypeOK, OnePerKey, [Next]_vars
  PROVE  OnePerKey'
<1>1. CASE UNCHANGED vars
  BY <1>1 DEF vars, OnePerKey
<1>2. ASSUME NEW p \in Processes, Acts(p) PROVE OnePerKey'
  <2>1. \A q \in Processes : q # p => matched'[q] = matched[q]
    BY <1>2, OthersKeep DEF TablesKept
  <2>2. CASE matched' = matched
    BY <2>2 DEF OnePerKey
  <2>3. ASSUME NEW m \in Possible[p], Reports(p, m) PROVE OnePerKey'
    <3>1. matched'[p] = matched[p] \cup {m} /\ \A x \in matched[p] : Key(x) # Key(m)
      <4>1. \A x \in matched[p] : Key(x) # Key(m)
        BY <2>3 DEF Reports
      <4> QED BY ZenonT(30), <2>3, <4>1, ReportsAdds
    <3> QED BY <2>1, <3>1 DEF OnePerKey
  <2>4. ASSUME NEW m \in Possible[p], Withdraws(p, m) PROVE OnePerKey'
    <3>1. matched'[p] = matched[p] \ {m}
      BY Zenon, <2>4, WithdrawsTakes
    <3> QED BY <2>1, <3>1 DEF OnePerKey
  <2> QED BY <1>2, <2>2, <2>3, <2>4, MatchedSteps
<1> QED BY <1>1, <1>2, Steps

-----------------------------------------------------------------------------
(***************************************************************************)
(* The tables                                                              *)
(***************************************************************************)

\* The matches that are counted are finitely many.
LEMMA FiniteMatches ==
  ASSUME TypeOK, NEW p \in Processes
  PROVE  /\ IsFiniteSet(TcpPubs(p)) /\ IsFiniteSet(ShmPubs(p)) /\ IsFiniteSet(ShmSubs(p))
         /\ TcpPubs(p) \subseteq Possible[p] /\ ShmPubs(p) \subseteq Possible[p]
         /\ ShmSubs(p) \subseteq Possible[p]
<1>1. IsFiniteSet(Possible[p])
  BY PossibleAssumption
<1>2. /\ TcpPubs(p) \subseteq Possible[p] /\ ShmPubs(p) \subseteq Possible[p]
      /\ ShmSubs(p) \subseteq Possible[p]
  BY Zenon DEF TypeOK, TcpPubs, ShmPubs, ShmSubs
<1> QED BY Zenon, <1>1, <1>2, FS_Subset

\* A match over TCP is entered and counted.
LEMMA TcpMatchTables ==
  ASSUME TypeOK, SinksAlive, NEW p \in Processes, TcpTables(p), NEW m \in Possible[p],
         tcp_pub_match(p, m)
  PROVE  TcpTables(p)'
<1> DEFINE q == Remote(m)
           k == RemoteOf(p)
           n == IF q \in DOMAIN refcount[p] THEN refcount[p][q] ELSE 0
<1>1. /\ Reports(p, m) /\ pubsub_pair(m.local, m.remote) /\ IsPub(m) /\ ~Shm(p, m)
      /\ Key(m) \notin DOMAIN sinks[p]
  BY Zenon DEF tcp_pub_match, Ignored
<1>2. refcount' = [refcount EXCEPT ![p] = Put(refcount[p], q, n + 1)]
  BY Zenon DEF tcp_pub_match, Remote
<1>3. PICK i \in SinkIds \ DOMAIN sink : \E c :
        /\ q \in DOMAIN connections[p] => c = connections[p][q]
        /\ AddSink(i, [via |-> "tcp", owner |-> p, topic |-> m.local.topic, at |-> c])
        /\ connections' = [connections EXCEPT ![p] = Put(connections[p], q, c)]
        /\ sinks' = [sinks EXCEPT ![p] = Put(sinks[p], Key(m), i)]
  BY TcpMatchAdds, Zenon
<1>4. PICK c :
        /\ q \in DOMAIN connections[p] => c = connections[p][q]
        /\ AddSink(i, [via |-> "tcp", owner |-> p, topic |-> m.local.topic, at |-> c])
        /\ connections' = [connections EXCEPT ![p] = Put(connections[p], q, c)]
  BY <1>3, Zenon
<1>5. TcpPubs(p)' = TcpPubs(p) \cup {m} /\ m \notin TcpPubs(p)
  <2>1. m \notin matched[p]
    BY Zenon, <1>1, ReportsAdds
  <2> QED BY Zenon, <1>1, <2>1, ReportsAdds DEF TcpPubs
<1>6. k[m] = q /\ \A x \in TcpPubs(p) : k[x] = Remote(x)
  BY Zenon, FiniteMatches DEF RemoteOf
<1> HIDE DEF q, k
<1>7. Counts(refcount'[p], TcpPubs(p) \cup {m}, k)
  <2>1. refcount'[p] = Put(refcount[p], q, n + 1)
    BY Zenon, <1>2 DEF TypeOK, PerProcess
  <2>2. Counts(refcount[p], TcpPubs(p), k) /\ IsFiniteSet(TcpPubs(p))
    BY Zenon, FiniteMatches DEF TcpTables, k
  <2>3. Counts(Put(refcount[p], k[m], (IF k[m] \in DOMAIN refcount[p] THEN refcount[p][k[m]] ELSE 0) + 1),
               TcpPubs(p) \cup {m}, k)
    BY <1>5, <2>2, CountIn, Zenon
  <2> QED BY Zenon, <1>6, <2>1, <2>3
<1>8. /\ sinks'[p] = Put(sinks[p], Key(m), i) /\ connections'[p] = Put(connections[p], q, c)
      /\ refcount'[p] = Put(refcount[p], q, n + 1)
  <2>1. p \in DOMAIN sinks /\ p \in DOMAIN connections /\ p \in DOMAIN refcount
    BY DEF TypeOK, PerProcess
  <2> QED BY ZenonT(30), <1>2, <1>3, <1>4, <2>1
<1> HIDE DEF n
<1>9. /\ DOMAIN sinks'[p] = DOMAIN sinks[p] \cup {Key(m)} /\ sinks'[p][Key(m)] = i
      /\ \A x \in DOMAIN sinks[p] : sinks'[p][x] = sinks[p][x]
  BY ZenonT(30), <1>1, <1>8 DEF Put
<1>10. /\ DOMAIN connections'[p] = DOMAIN connections[p] \cup {q} /\ connections'[p][q] = c
       /\ DOMAIN refcount'[p] = DOMAIN refcount[p] \cup {q}
       /\ \A x \in DOMAIN connections[p] : connections'[p][x] = connections[p][x]
  BY <1>4, <1>8 DEF Put
<1>11. DOMAIN sink' = DOMAIN sink \cup {i} /\ sink'[i].at = c /\ \A x \in DOMAIN sink : sink'[x] = sink[x]
  BY Zenon, <1>3, <1>4 DEF AddSink, Put
<1>12. ASSUME NEW x \in TcpPubs(p)
       PROVE  sink'[sinks'[p][Key(x)]].at = connections'[p][Remote(x)]
  <2>1. Key(x) \in DOMAIN sinks[p] /\ Remote(x) \in DOMAIN connections[p]
        /\ sink[sinks[p][Key(x)]].at = connections[p][Remote(x)]
    <3>1. Remote(x) \in DOMAIN refcount[p]
      BY Zenon, <1>6 DEF TcpTables, Counts, k
    <3> QED BY Zenon, <3>1 DEF TcpTables
  <2>2. sinks[p][Key(x)] \in DOMAIN sink
    BY Zenon, <2>1 DEF SinksAlive, SinksOf, TcpSinks
  <2> QED BY Zenon, <1>9, <1>10, <1>11, <2>1, <2>2
<1>13. sink'[sinks'[p][Key(m)]].at = connections'[p][Remote(m)]
  BY Zenon, <1>9, <1>10, <1>11 DEF q
<1>14. DOMAIN sinks'[p] = {Key(x) : x \in TcpPubs(p) \cup {m}}
  BY Zenon, <1>9 DEF TcpTables
<1>15. DOMAIN connections'[p] = DOMAIN refcount'[p]
  BY Zenon, <1>10 DEF TcpTables
<1> QED BY Zenon, <1>5, <1>7, <1>12, <1>13, <1>14, <1>15 DEF TcpTables, k

\* A match over TCP is taken out; its connection goes with the last of them.
LEMMA TcpUnmatchTables ==
  ASSUME TypeOK, OnePerKey, SinksAlive, NEW p \in Processes, TcpTables(p), NEW m \in Possible[p],
         tcp_pub_unmatch(p, m), BusStep(p), SinksOf(p)'
  PROVE  TcpTables(p)'
<1> DEFINE q == Remote(m)
           k == RemoteOf(p)
<1>1. Withdraws(p, m) /\ pubsub_pair(m.local, m.remote) /\ IsPub(m) /\ ~Shm(p, m)
  BY Zenon DEF tcp_pub_unmatch, Ignored
<1>2. /\ sinks'[p] = Without(sinks[p], {Key(m)})
      /\ refcount'[p] = Unref(refcount[p], q)
      /\ connections'[p] = IF LastOf(refcount[p], q) THEN Without(connections[p], {q}) ELSE connections[p]
  <2>1. p \in DOMAIN sinks /\ p \in DOMAIN connections /\ p \in DOMAIN refcount
    BY Zenon DEF TypeOK, PerProcess
  <2>2. sinks'[p] = Without(sinks[p], {Key(m)})
    BY <2>1 DEF tcp_pub_unmatch
  <2>3. refcount'[p] = Unref(refcount[p], q)
    BY <2>1 DEF tcp_pub_unmatch, Remote
  <2>4. connections'[p] = IF LastOf(refcount[p], q) THEN Without(connections[p], {q}) ELSE connections[p]
    BY <2>1 DEF tcp_pub_unmatch, Remote
  <2> QED BY Zenon, <2>2, <2>3, <2>4
<1>3. TcpPubs(p)' = TcpPubs(p) \ {m} /\ m \in TcpPubs(p)
  BY Zenon, <1>1, WithdrawsTakes
<1>4. k[m] = q /\ \A x \in TcpPubs(p) : k[x] = Remote(x)
  BY Zenon, FiniteMatches DEF RemoteOf
<1> HIDE DEF q, k
<1>5. Counts(refcount[p], TcpPubs(p), k) /\ IsFiniteSet(TcpPubs(p))
  BY Zenon, FiniteMatches DEF TcpTables, k
<1>6. /\ k[m] \in DOMAIN refcount[p]
      /\ Counts(Unref(refcount[p], k[m]), TcpPubs(p) \ {m}, k)
      /\ DOMAIN Unref(refcount[p], k[m]) =
           IF refcount[p][k[m]] = 1 THEN DOMAIN refcount[p] \ {k[m]} ELSE DOMAIN refcount[p]
  <2>1. CountedOut(refcount[p], TcpPubs(p), k, m)
    BY <1>3, <1>5, CountOut, Zenon
  <2> QED BY Zenon, <2>1 DEF CountedOut
<1>7. Counts(refcount'[p], TcpPubs(p) \ {m}, k)
  BY Zenon, <1>2, <1>4, <1>6
<1>8. DOMAIN refcount[p] = DOMAIN connections[p]
  BY Zenon DEF TcpTables
<1>9. DOMAIN connections'[p] = DOMAIN refcount'[p]
  BY Zenon, <1>2, <1>4, <1>6, <1>8 DEF LastOf, Without, Restrict
<1>10. \A x \in DOMAIN connections'[p] : connections'[p][x] = connections[p][x]
  BY Zenon, <1>2 DEF Without, Restrict
<1>11. /\ DOMAIN sinks'[p] = DOMAIN sinks[p] \ {Key(m)}
       /\ \A x \in DOMAIN sinks'[p] : sinks'[p][x] = sinks[p][x]
  BY Zenon, <1>2 DEF Without, Restrict
<1>12. \A x \in TcpPubs(p) : x # m => Key(x) # Key(m)
  BY Zenon, <1>3 DEF OnePerKey, TcpPubs
<1>13. DOMAIN sinks'[p] = {Key(x) : x \in TcpPubs(p) \ {m}}
  BY Zenon, <1>11, <1>12 DEF TcpTables
<1>14. ASSUME NEW x \in TcpPubs(p) \ {m}
       PROVE  sink'[sinks'[p][Key(x)]].at = connections'[p][Remote(x)]
  <2>1. Key(x) \in DOMAIN sinks'[p] /\ sinks'[p][Key(x)] = sinks[p][Key(x)]
    BY Zenon, <1>11, <1>13
  <2>2. sinks'[p][Key(x)] \in DOMAIN sink'
    BY Zenon, <2>1 DEF SinksOf, TcpSinks
  <2>3. sinks[p][Key(x)] \in DOMAIN sink
    BY Zenon, <1>11, <2>1 DEF SinksAlive, SinksOf, TcpSinks
  <2>4. sink'[sinks[p][Key(x)]] = sink[sinks[p][Key(x)]]
    BY Zenon, <2>1, <2>2, <2>3 DEF BusStep
  <2>5. Remote(x) \in DOMAIN connections'[p]
    BY Zenon, <1>4, <1>7, <1>9 DEF Counts
  <2> QED BY Zenon, <1>10, <2>1, <2>4, <2>5 DEF TcpTables
<1> QED BY Zenon, <1>3, <1>7, <1>9, <1>13, <1>14 DEF TcpTables, k

\* What is left alone still corresponds.
LEMMA TcpKeptTables ==
  ASSUME SinksAlive, NEW p \in Processes, TcpTables(p), NEW q \in Processes, TcpKept(p),
         BusStep(q), SinksOf(p)'
  PROVE  TcpTables(p)'
<1>1. \A x \in DOMAIN sinks[p] : sink'[sinks[p][x]] = sink[sinks[p][x]]
  BY Zenon DEF SinksAlive, SinksOf, TcpSinks, BusStep, TcpKept
<1>2. \A m \in TcpPubs(p) : Key(m) \in DOMAIN sinks[p]
  BY Zenon DEF TcpTables
<1>3. \A m \in TcpPubs(p) : sink'[sinks[p][Key(m)]].at = connections[p][Remote(m)]
  BY Zenon, <1>1, <1>2 DEF TcpTables
<1> QED BY Zenon, <1>3 DEF TcpKept, TcpTables

\* A match that needs a reader is counted; the first has a reader made.
LEMMA SubMatchTables ==
  ASSUME TypeOK, NEW p \in Processes, ReadTables(p), NEW m \in Possible[p], shm_sub_match(p, m)
  PROVE  ReadTables(p)'
<1> DEFINE a == ReadName(m)
           k == NameOf(p)
           n == IF a \in DOMAIN shm_sub_ref[p] THEN shm_sub_ref[p][a] ELSE 0
<1>1. Reports(p, m) /\ pubsub_pair(m.local, m.remote) /\ ~IsPub(m) /\ Shm(p, m)
  BY DEF shm_sub_match, Ignored
<1>2. shm_sub_ref' = [shm_sub_ref EXCEPT ![p] =
        Put(shm_sub_ref[p], a, IF a \in DOMAIN shm_sub_ref[p] THEN shm_sub_ref[p][a] + 1 ELSE 1)]
  BY Zenon DEF shm_sub_match, ReadName
<1>3. \E e : readers' = [readers EXCEPT ![p] =
        IF a \in DOMAIN shm_sub_ref[p] THEN readers[p] ELSE Put(readers[p], a, e)]
  BY Zenon DEF shm_sub_match, ReadName
<1>4. ShmSubs(p)' = ShmSubs(p) \cup {m} /\ m \notin ShmSubs(p)
  <2>1. m \notin matched[p]
    BY Zenon, <1>1, ReportsAdds
  <2> QED BY Zenon, <1>1, <2>1, ReportsAdds DEF ShmSubs
<1>5. k[m] = a
  BY DEF NameOf
<1> HIDE DEF a, k
<1>6. Counts(shm_sub_ref[p], ShmSubs(p), k) /\ IsFiniteSet(ShmSubs(p))
  BY Zenon, FiniteMatches DEF ReadTables, k
<1>7. shm_sub_ref'[p] = Put(shm_sub_ref[p], a, n + 1)
  <2>1. p \in DOMAIN shm_sub_ref
    BY DEF TypeOK, PerProcess
  <2>2. (IF a \in DOMAIN shm_sub_ref[p] THEN shm_sub_ref[p][a] + 1 ELSE 1) = n + 1
    OBVIOUS
  <2> QED BY <1>2, <2>1, <2>2
<1>8. Counts(shm_sub_ref'[p], ShmSubs(p) \cup {m}, k)
  <2>1. Counts(Put(shm_sub_ref[p], k[m],
                   (IF k[m] \in DOMAIN shm_sub_ref[p] THEN shm_sub_ref[p][k[m]] ELSE 0) + 1),
               ShmSubs(p) \cup {m}, k)
    BY <1>4, <1>6, CountIn, Zenon
  <2> QED BY Zenon, <1>5, <1>7, <2>1
<1> HIDE DEF n
<1>9. DOMAIN shm_sub_ref'[p] = DOMAIN shm_sub_ref[p] \cup {a}
  BY Zenon, <1>7 DEF Put
<1>10. PICK e : readers'[p] = IF a \in DOMAIN shm_sub_ref[p] THEN readers[p] ELSE Put(readers[p], a, e)
  <2>1. p \in DOMAIN readers
    BY Zenon DEF TypeOK, PerProcess
  <2> QED BY <1>3, <2>1
<1>11. DOMAIN readers'[p] = DOMAIN readers[p] \cup {a}
  BY Zenon, <1>10 DEF Put, ReadTables
<1> QED BY ZenonT(30), <1>4, <1>8, <1>9, <1>11 DEF ReadTables, k

\* The reader goes with the last of them.
LEMMA SubUnmatchTables ==
  ASSUME TypeOK, NEW p \in Processes, ReadTables(p), NEW m \in Possible[p], shm_sub_unmatch(p, m)
  PROVE  ReadTables(p)'
<1> DEFINE a == ReadName(m)
           k == NameOf(p)
<1>1. Withdraws(p, m) /\ pubsub_pair(m.local, m.remote) /\ ~IsPub(m) /\ Shm(p, m)
  BY Zenon DEF shm_sub_unmatch, Ignored
<1>2. /\ shm_sub_ref'[p] = Unref(shm_sub_ref[p], a)
      /\ readers'[p] = IF LastOf(shm_sub_ref[p], a) THEN Without(readers[p], {a}) ELSE readers[p]
  <2>1. p \in DOMAIN shm_sub_ref /\ p \in DOMAIN readers
    BY Zenon DEF TypeOK, PerProcess
  <2>2. shm_sub_ref'[p] = Unref(shm_sub_ref[p], a)
    BY <2>1 DEF shm_sub_unmatch, ReadName
  <2>3. readers'[p] = IF LastOf(shm_sub_ref[p], a) THEN Without(readers[p], {a}) ELSE readers[p]
    BY <2>1 DEF shm_sub_unmatch, ReadName
  <2> QED BY Zenon, <2>2, <2>3
<1>3. ShmSubs(p)' = ShmSubs(p) \ {m} /\ m \in ShmSubs(p)
  BY Zenon, <1>1, WithdrawsTakes
<1>4. k[m] = a
  BY DEF NameOf
<1> HIDE DEF a, k
<1>5. Counts(shm_sub_ref[p], ShmSubs(p), k) /\ IsFiniteSet(ShmSubs(p))
  BY ZenonT(30), FiniteMatches DEF ReadTables, k
<1>6. CountedOut(shm_sub_ref[p], ShmSubs(p), k, m)
  BY <1>3, <1>5, CountOut, Zenon
<1>7. Counts(shm_sub_ref'[p], ShmSubs(p) \ {m}, k)
  BY Zenon, <1>2, <1>4, <1>6 DEF CountedOut
<1>8. DOMAIN readers'[p] = DOMAIN shm_sub_ref'[p]
  <2>1. DOMAIN readers[p] = DOMAIN shm_sub_ref[p]
    BY Zenon DEF ReadTables
  <2>2. DOMAIN Unref(shm_sub_ref[p], a) =
          IF shm_sub_ref[p][a] = 1 THEN DOMAIN shm_sub_ref[p] \ {a} ELSE DOMAIN shm_sub_ref[p]
    BY Zenon, <1>4, <1>6 DEF CountedOut
  <2> QED BY Zenon, <1>2, <2>1, <2>2 DEF LastOf, Without, Restrict
<1> QED BY Zenon, <1>3, <1>7, <1>8 DEF ReadTables, k

\* The counts of the segments, after one of them changes.
LEMMA RefChanges ==
  ASSUME TypeOK, NEW p \in Processes, NEW t \in DOMAIN shm_pub[p], NEW r \in Nat,
         shm_pub' = [shm_pub EXCEPT ![p][t].ref = r]
  PROVE  Refs(p)' = Put(Refs(p), t, r)
<1> DEFINE e == [shm_pub[p][t] EXCEPT !.ref = r]
           v == [shm_pub[p] EXCEPT ![t] = e]
<1>1. shm_pub[p][t] \in [sink : SinkIds, ref : Nat] /\ p \in DOMAIN shm_pub
  BY DEF TypeOK, PerProcess
<1>2. e.ref = r
  BY <1>1
<1>3. shm_pub' = [shm_pub EXCEPT ![p] = v]
  OBVIOUS
<1> HIDE DEF e
<1>4. DOMAIN v = DOMAIN shm_pub[p] /\ \A u \in DOMAIN shm_pub[p] : v[u] = IF u = t THEN e ELSE shm_pub[p][u]
  OBVIOUS
<1> HIDE DEF v
<1>5. shm_pub'[p] = v
  BY <1>1, <1>3
<1> QED BY <1>2, <1>4, <1>5 DEF Refs, Put

\* A topic that has its segment counts one match more.
LEMMA PubMatchTable ==
  ASSUME TypeOK, NEW p \in Processes, ShmTable(p), NEW m \in Possible[p], shm_pub_match(p, m)
  PROVE  ShmTable(p)'
<1> DEFINE t == m.local.topic
           k == TopicOf(p)
           n == shm_pub[p][t].ref + 1
<1>1. /\ Reports(p, m) /\ pubsub_pair(m.local, m.remote) /\ IsPub(m) /\ Shm(p, m)
      /\ t \in DOMAIN shm_pub[p] /\ shm_pub' = [shm_pub EXCEPT ![p][t].ref = n]
      /\ creating' = creating
  BY DEF shm_pub_match, Ignored
<1>2. ShmPubs(p)' = ShmPubs(p) \cup {m} /\ m \notin ShmPubs(p) /\ creating[p] = {}
  <2>1. m \notin matched[p]
    BY <1>1, ReportsAdds
  <2> QED BY <1>1, <2>1, ReportsAdds DEF ShmPubs
<1>3. k[m] = t
  BY DEF TopicOf
<1>4. n \in Nat
  BY <1>1 DEF TypeOK
<1> HIDE DEF t, k
<1>5. Counts(Refs(p), ShmPubs(p), k) /\ IsFiniteSet(ShmPubs(p))
  BY Zenon, <1>2, FiniteMatches DEF ShmTable, k
<1>6. Refs(p)' = Put(Refs(p), t, n)
  <2> HIDE DEF n
  <2>1. t \in DOMAIN shm_pub[p] /\ shm_pub' = [shm_pub EXCEPT ![p][t].ref = n]
    BY <1>1
  <2> QED BY <1>4, <2>1, RefChanges, Zenon
<1>7. Refs(p)' = Put(Refs(p), t, Refs(p)[t] + 1) /\ t \in DOMAIN Refs(p)
  BY <1>1, <1>6 DEF Refs
<1>8. Counts(Refs(p)', ShmPubs(p) \cup {m}, k)
  <2>1. Counts(Put(Refs(p), k[m], (IF k[m] \in DOMAIN Refs(p) THEN Refs(p)[k[m]] ELSE 0) + 1),
               ShmPubs(p) \cup {m}, k)
    BY <1>2, <1>5, CountIn, Zenon
  <2> QED BY Zenon, <1>3, <1>7, <2>1
<1> QED BY <1>1, <1>2, <1>8 DEF ShmTable, k

\* One that has none is entered when its segment is there.
LEMMA BeginTable ==
  ASSUME TypeOK, NEW p \in Processes, ShmTable(p), NEW m \in Possible[p], BeginCreate(p, m)
  PROVE  ShmTable(p)'
<1> DEFINE t == m.local.topic
           k == TopicOf(p)
<1>1. /\ Reports(p, m) /\ pubsub_pair(m.local, m.remote) /\ IsPub(m) /\ Shm(p, m)
      /\ t \notin DOMAIN shm_pub[p] /\ shm_pub' = shm_pub
  BY Zenon DEF BeginCreate, Ignored, tableVars
<1>2. ShmPubs(p)' = ShmPubs(p) \cup {m} /\ m \notin ShmPubs(p) /\ creating[p] = {}
  <2>1. m \notin matched[p]
    BY Zenon, <1>1, ReportsAdds
  <2> QED BY Zenon, <1>1, <2>1, ReportsAdds DEF ShmPubs
<1>3. PICK g : creating' = [creating EXCEPT ![p] = {[topic |-> t, seg |-> g]}]
  BY Zenon DEF BeginCreate
<1>4. creating'[p] = {[topic |-> t, seg |-> g]}
  BY Zenon, <1>3 DEF TypeOK, PerProcess
<1>5. Counts(Refs(p), ShmPubs(p), k)
  BY Zenon, <1>2 DEF ShmTable
<1>6. Refs(p)' = Refs(p)
  BY Zenon, <1>1 DEF Refs
<1>7. ShmPubs(p)' \ {m} = ShmPubs(p)
  BY <1>2
<1>8. ASSUME NEW c \in creating'[p]
      PROVE  \E x \in ShmPubs(p)' :
               /\ x.local.topic = c.topic /\ c.topic \notin DOMAIN shm_pub'[p]
               /\ Counts(Refs(p)', ShmPubs(p)' \ {x}, k)
  <2>1. m.local.topic = c.topic
    BY <1>4
  <2>2. m \in ShmPubs(p)'
    BY <1>2
  <2>3. c.topic \notin DOMAIN shm_pub'[p]
    BY Zenon, <1>1, <2>1
  <2>4. Counts(Refs(p)', ShmPubs(p)' \ {m}, k)
    BY Zenon, <1>5, <1>6, <1>7
  <2> QED BY <2>1, <2>2, <2>3, <2>4, ZenonT(30)
<1>9. creating'[p] # {}
  BY <1>4, Zenon
<1> QED BY <1>8, <1>9, Zenon DEF ShmTable

\* The end of a create counts the match it was for.
LEMMA EndTable ==
  ASSUME TypeOK, NEW p \in Processes, ShmTable(p), NEW c \in creating[p], EndCreate(p, c)
  PROVE  ShmTable(p)'
<1> DEFINE k == TopicOf(p)
<1>1. PICK m \in ShmPubs(p) :
        /\ m.local.topic = c.topic /\ c.topic \notin DOMAIN shm_pub[p]
        /\ Counts(Refs(p), ShmPubs(p) \ {m}, k)
  BY Zenon DEF ShmTable
<1>2. k[m] = c.topic
  BY Zenon, <1>1, FiniteMatches DEF TopicOf
<1> HIDE DEF k
<1>3. ShmPubs(p)' = ShmPubs(p) /\ creating'[p] = {}
  <2>1. matched' = matched /\ creating' = [creating EXCEPT ![p] = {}]
    BY Zenon DEF EndCreate
  <2> QED BY Zenon, <2>1 DEF ShmPubs, TypeOK, PerProcess
<1>4. PICK i : shm_pub' = [shm_pub EXCEPT ![p] = Put(shm_pub[p], c.topic, [sink |-> i, ref |-> 1])]
  BY EndCreateAdds, Zenon
<1>5. shm_pub'[p] = Put(shm_pub[p], c.topic, [sink |-> i, ref |-> 1])
  BY Zenon, <1>4 DEF TypeOK, PerProcess
<1>6. Refs(p)' = Put(Refs(p), c.topic, 1) /\ c.topic \notin DOMAIN Refs(p)
  <2>1. /\ DOMAIN shm_pub'[p] = DOMAIN shm_pub[p] \cup {c.topic} /\ shm_pub'[p][c.topic].ref = 1
        /\ \A u \in DOMAIN shm_pub[p] : shm_pub'[p][u] = shm_pub[p][u]
    <3> DEFINE x == [sink |-> i, ref |-> 1]
    <3>1. x.ref = 1
      BY Zenon
    <3> HIDE DEF x
    <3>2. shm_pub'[p] = Put(shm_pub[p], c.topic, x)
      BY Zenon, <1>5 DEF x
    <3> QED BY Zenon, <1>1, <3>1, <3>2 DEF Put
  <2> QED BY Zenon, <1>1, <2>1 DEF Refs, Put
<1>7. Counts(Refs(p)', ShmPubs(p), k)
  <2> DEFINE M == ShmPubs(p) \ {m}
  <2>1. IsFiniteSet(M) /\ m \notin M /\ M \cup {m} = ShmPubs(p)
    BY Zenon, FiniteMatches, FS_Subset
  <2>2. Counts(Refs(p), M, k)
    BY Zenon, <1>1
  <2> HIDE DEF M
  <2>3. Counts(Put(Refs(p), k[m], (IF k[m] \in DOMAIN Refs(p) THEN Refs(p)[k[m]] ELSE 0) + 1),
               M \cup {m}, k)
    BY <2>1, <2>2, CountIn, ZenonT(30)
  <2>4. (IF k[m] \in DOMAIN Refs(p) THEN Refs(p)[k[m]] ELSE 0) + 1 = 1
    BY <1>2, <1>6
  <2> QED BY Zenon, <1>2, <1>6, <2>1, <2>3, <2>4
<1> QED BY Zenon, <1>3, <1>7 DEF ShmTable, k

\* The entry goes with the last match of its topic.
LEMMA PubUnmatchTable ==
  ASSUME TypeOK, NEW p \in Processes, ShmTable(p), NEW m \in Possible[p], shm_pub_unmatch(p, m)
  PROVE  ShmTable(p)'
<1> DEFINE t == m.local.topic
           k == TopicOf(p)
           n == shm_pub[p][t].ref
<1>1. /\ Withdraws(p, m) /\ pubsub_pair(m.local, m.remote) /\ IsPub(m) /\ Shm(p, m)
      /\ t \in DOMAIN shm_pub[p] /\ creating' = creating
      /\ \/ n > 1 /\ shm_pub' = [shm_pub EXCEPT ![p][t].ref = n - 1]
         \/ n = 1 /\ shm_pub' = [shm_pub EXCEPT ![p] = Without(shm_pub[p], {t})]
  BY DEF shm_pub_unmatch, Ignored
<1>2. ShmPubs(p)' = ShmPubs(p) \ {m} /\ m \in ShmPubs(p) /\ creating[p] = {}
  BY <1>1, WithdrawsTakes
<1>3. k[m] = t
  BY DEF TopicOf
<1>4. n \in Nat
  BY <1>1 DEF TypeOK
<1> HIDE DEF t, k
<1>5. Counts(Refs(p), ShmPubs(p), k) /\ IsFiniteSet(ShmPubs(p))
  BY Zenon, <1>2, FiniteMatches DEF ShmTable, k
<1>6. CountedOut(Refs(p), ShmPubs(p), k, m)
  BY <1>2, <1>5, CountOut, Zenon
<1>7. Refs(p)[t] = n
  BY <1>1 DEF Refs
<1>8. Refs(p)' = Unref(Refs(p), t)
  <2>1. CASE n > 1 /\ shm_pub' = [shm_pub EXCEPT ![p][t].ref = n - 1]
    <3>1. n - 1 \in Nat
      BY <1>4, <2>1
    <3>2. Refs(p)' = Put(Refs(p), t, n - 1)
      <4> DEFINE r == n - 1
      <4> HIDE DEF r
      <4>1. t \in DOMAIN shm_pub[p] /\ shm_pub' = [shm_pub EXCEPT ![p][t].ref = r] /\ r \in Nat
        BY <1>1, <2>1, <3>1 DEF r
      <4>2. Refs(p)' = Put(Refs(p), t, r)
        BY <4>1, RefChanges, Zenon
      <4> QED BY Zenon, <4>2 DEF r
    <3>3. Unref(Refs(p), t) = Put(Refs(p), t, n - 1)
      BY <1>4, <1>7, <2>1 DEF Unref, LastOf
    <3> QED BY Zenon, <3>2, <3>3
  <2>2. CASE n = 1 /\ shm_pub' = [shm_pub EXCEPT ![p] = Without(shm_pub[p], {t})]
    <3>1. shm_pub'[p] = Without(shm_pub[p], {t})
      BY Zenon, <2>2 DEF TypeOK, PerProcess
    <3>2. Unref(Refs(p), t) = Without(Refs(p), {t})
      BY Zenon, <1>7, <2>2 DEF Unref, LastOf
    <3>3. /\ DOMAIN shm_pub'[p] = DOMAIN shm_pub[p] \ {t}
          /\ \A u \in DOMAIN shm_pub[p] \ {t} : shm_pub'[p][u] = shm_pub[p][u]
      BY Zenon, <3>1 DEF Without, Restrict
    <3>4. Refs(p)' = [u \in DOMAIN shm_pub[p] \ {t} |-> shm_pub[p][u].ref]
      BY <3>3 DEF Refs
    <3>5. Without(Refs(p), {t}) = [u \in DOMAIN shm_pub[p] \ {t} |-> shm_pub[p][u].ref]
      BY DEF Refs, Without, Restrict
    <3> QED BY Zenon, <3>2, <3>4, <3>5
  <2> QED BY <1>1, <2>1, <2>2
<1>9. Counts(Refs(p)', ShmPubs(p) \ {m}, k)
  BY Zenon, <1>3, <1>6, <1>8 DEF CountedOut
<1> QED BY <1>1, <1>2, <1>9 DEF ShmTable, k

\* Only stop sets stopped, and nothing resets it.
LEMMA StopSteps ==
  ASSUME TypeOK, NEW p \in Processes, Acts(p), ~stopped'[p]
  PROVE  ~stopped[p]
<1>1. ASSUME NEW m \in Possible[p],
             \/ ignore_match(p, m) \/ tcp_pub_match(p, m) \/ shm_pub_match(p, m)
             \/ BeginCreate(p, m) \/ CreateFails(p, m) \/ shm_sub_match(p, m)
      PROVE  stopped' = stopped
  BY ZenonT(30), <1>1 DEF ignore_match, tcp_pub_match, shm_pub_match, BeginCreate, CreateFails, shm_sub_match
<1>2. ASSUME NEW m \in Possible[p],
             \/ ignore_unmatch(p, m) \/ tcp_pub_unmatch(p, m)
             \/ shm_pub_unmatch(p, m) \/ shm_sub_unmatch(p, m)
      PROVE  stopped' = stopped
  BY <1>2 DEF ignore_unmatch, tcp_pub_unmatch, shm_pub_unmatch, shm_sub_unmatch
<1>3. ASSUME NEW c \in creating[p], EndCreate(p, c) PROVE stopped' = stopped
  BY Zenon, <1>3 DEF EndCreate
<1>4. ASSUME NEW t \in Topics(p), Collect(p, t) PROVE stopped' = stopped
  BY Zenon, <1>4 DEF Collect
<1>5. ASSUME NEW i \in todo[p], Enqueue(p, i) PROVE stopped' = stopped
  BY <1>5 DEF Enqueue
<1>6. ASSUME Release(p) PROVE stopped' = stopped
  BY <1>6 DEF Release
<1>7. ASSUME NEW n \in DOMAIN readers[p], PollOpen(p, n) PROVE stopped' = stopped
  BY <1>7 DEF PollOpen
<1>8. ASSUME NEW n \in DOMAIN readers[p], PollRead(p, n) PROVE stopped' = stopped
  BY Zenon, <1>8 DEF PollRead
<1>9. ASSUME stop(p) PROVE FALSE
  <2>1. stopped' = [stopped EXCEPT ![p] = TRUE] /\ p \in DOMAIN stopped
    BY Zenon, <1>9 DEF stop, TypeOK, PerProcess
  <2> QED BY <2>1
<1>10. ASSUME StopReaders(p) PROVE stopped' = stopped
  BY <1>10 DEF StopReaders
<1>11. stopped' = stopped
  BY Zenon, <1>1, <1>2, <1>3, <1>4, <1>5, <1>6, <1>7, <1>8, <1>9, <1>10 DEF Acts
<1> QED BY <1>11

\* The tables of the process that acts.
LEMMA ActingTables ==
  ASSUME TypeOK, OnePerKey, SinksAlive, NEW p \in Processes, Acts(p), ~stopped'[p],
         TcpTables(p), ReadTables(p), BusStep(p), SinksOf(p)'
  PROVE  TcpTables(p)' /\ ReadTables(p)'
<1>1. TcpTables(p)'
  <2>1. \/ TcpKept(p)
        \/ \E m \in Possible[p] : tcp_pub_match(p, m) \/ tcp_pub_unmatch(p, m)
    BY WhoTouches, Zenon
  <2> QED BY Zenon, <2>1, TcpKeptTables, TcpMatchTables, TcpUnmatchTables
<1>2. ReadTables(p)'
  <2>1. \/ ReadKept(p)
        \/ \E m \in Possible[p] : shm_sub_match(p, m) \/ shm_sub_unmatch(p, m)
    BY WhoTouches, Zenon
  <2>2. ASSUME ReadKept(p) PROVE ReadTables(p)'
    BY Zenon, <2>2 DEF ReadKept, ReadTables
  <2> QED BY Zenon, <2>1, <2>2, SubMatchTables, SubUnmatchTables
<1> QED BY <1>1, <1>2

\* So the table of its SHM channels, when no create fails.
LEMMA ActingShmTable ==
  ASSUME TypeOK, ~MayFail, NEW p \in Processes, Acts(p), ~stopped'[p], ShmTable(p)
  PROVE  ShmTable(p)'
<1>1. \/ ShmKept(p)
      \/ \E m \in Possible[p] :
           \/ shm_pub_match(p, m) \/ BeginCreate(p, m) \/ CreateFails(p, m)
           \/ shm_pub_unmatch(p, m)
           \/ ignore_unmatch(p, m) /\ m \in ShmPubs(p) /\ m.local.topic \notin DOMAIN shm_pub[p]
      \/ \E c \in creating[p] : EndCreate(p, c)
  BY WhoTouches, Zenon
<1>2. ASSUME ShmKept(p) PROVE ShmTable(p)'
  <2>1. Refs(p)' = Refs(p)
    BY <1>2 DEF ShmKept, Refs
  <2> QED BY <1>2, <2>1, ZenonT(30) DEF ShmKept, ShmTable
<1>3. ASSUME NEW m \in Possible[p], CreateFails(p, m) PROVE FALSE
  BY Zenon, <1>3 DEF CreateFails
<1>4. ASSUME NEW m \in Possible[p], ignore_unmatch(p, m), m \in ShmPubs(p),
             m.local.topic \notin DOMAIN shm_pub[p]
      PROVE  FALSE
  <2>1. creating[p] = {}
    BY Zenon, <1>4, WithdrawsTakes DEF ignore_unmatch
  <2>2. DOMAIN Refs(p) = {TopicOf(p)[x] : x \in ShmPubs(p)}
    BY Zenon, <2>1 DEF ShmTable, Counts
  <2>3. TopicOf(p)[m] \in DOMAIN Refs(p)
    BY <1>4, <2>2
  <2>4. TopicOf(p)[m] = m.local.topic /\ DOMAIN Refs(p) = DOMAIN shm_pub[p]
    BY DEF TopicOf, Refs
  <2> QED BY Zenon, <1>4, <2>3, <2>4
<1> QED BY Zenon, <1>1, <1>2, <1>3, <1>4, PubMatchTable, BeginTable, PubUnmatchTable, EndTable

\* The channels and the readers of a process that runs.
TablesMatch ==
  \A p \in Processes : ~stopped[p] =>
    TcpTables(p) /\ ReadTables(p) /\ (~MayFail => ShmTable(p))

\* With what the sinks rest on, all that a step has to keep.
Inv == LeakInv /\ OnePerKey /\ TablesMatch

\* Every step keeps them: those of the process that acts, and of the others.
LEMMA TablesStep ==
  ASSUME TypeOK, OnePerKey, OneCreate, SinksAlive, TablesMatch, NEW p \in Processes, Acts(p)
  PROVE  TablesMatch'
<1>1. BusStep(p) /\ SinksAlive'
  BY SinksStep
<1>2. SUFFICES ASSUME NEW q \in Processes, ~stopped'[q]
               PROVE  TcpTables(q)' /\ ReadTables(q)' /\ (~MayFail => ShmTable(q)')
  BY DEF TablesMatch
<1>3. SinksOf(q)'
  BY <1>1 DEF SinksAlive
<1>4. CASE q = p
  <2>1. ~stopped[p]
    BY <1>2, <1>4, StopSteps
  <2>2. TcpTables(p) /\ ReadTables(p) /\ (~MayFail => ShmTable(p))
    BY <2>1 DEF TablesMatch
  <2>3. TcpTables(p)' /\ ReadTables(p)'
    BY <1>1, <1>2, <1>3, <1>4, <2>2, ActingTables
  <2>4. ~MayFail => ShmTable(p)'
    BY <1>2, <1>4, <2>2, ActingShmTable
  <2> QED BY <1>4, <2>3, <2>4
<1>5. CASE q # p
  <2>1. TablesKept(q)
    BY <1>5, OthersKeep
  <2>2. TcpTables(q) /\ ReadTables(q) /\ (~MayFail => ShmTable(q))
    BY <1>2, <2>1 DEF TablesMatch, TablesKept
  <2>3. TcpPubs(q)' = TcpPubs(q) /\ ShmPubs(q)' = ShmPubs(q) /\ ShmSubs(q)' = ShmSubs(q)
    BY Zenon, <2>1 DEF TablesKept, TcpPubs, ShmPubs, ShmSubs
  <2>4. TcpKept(q) /\ ShmKept(q) /\ ReadKept(q)
    BY Zenon, <2>1, <2>3 DEF TablesKept, TcpKept, ShmKept, ReadKept
  <2>5. TcpTables(q)'
    BY <1>1, <1>3, <2>2, <2>4, TcpKeptTables
  <2>6. ReadTables(q)'
    BY Zenon, <2>2, <2>4 DEF ReadKept, ReadTables
  <2>7. ~MayFail => ShmTable(q)'
    <3>1. Refs(q)' = Refs(q)
      BY Zenon, <2>4 DEF ShmKept, Refs
    <3> QED BY <2>2, <2>4, <3>1, ZenonT(30) DEF ShmKept, ShmTable
  <2> QED BY <2>5, <2>6, <2>7
<1> QED BY <1>4, <1>5

\* The tables are empty at the start, like the matches,
LEMMA InvInit ==
  ASSUME Init
  PROVE  Inv
<1>1. OnePerKey
  BY DEF Init, OnePerKey
<1>2. ASSUME NEW p \in Processes
      PROVE  TcpTables(p) /\ ReadTables(p) /\ ShmTable(p)
  <2>1. /\ matched[p] = {} /\ creating[p] = {} /\ DOMAIN sinks[p] = {} /\ DOMAIN connections[p] = {}
        /\ DOMAIN refcount[p] = {} /\ DOMAIN shm_pub[p] = {} /\ DOMAIN shm_sub_ref[p] = {}
        /\ DOMAIN readers[p] = {}
    BY DEF Init, Empty
  <2>2. TcpPubs(p) = {} /\ ShmPubs(p) = {} /\ ShmSubs(p) = {}
    BY Zenon, <2>1 DEF TcpPubs, ShmPubs, ShmSubs
  <2>3. DOMAIN Refs(p) = {}
    BY <2>1 DEF Refs
  <2>4. /\ Counts(refcount[p], {}, RemoteOf(p)) /\ Counts(shm_sub_ref[p], {}, NameOf(p))
        /\ Counts(Refs(p), {}, TopicOf(p))
    BY Zenon, <2>1, <2>3 DEF Counts
  <2>5. TcpTables(p)
    <3>1. DOMAIN sinks[p] = {Key(m) : m \in TcpPubs(p)} /\ DOMAIN connections[p] = DOMAIN refcount[p]
      BY Zenon, <2>1, <2>2
    <3>2. Counts(refcount[p], TcpPubs(p), RemoteOf(p))
      BY ZenonT(30), <2>2, <2>4
    <3> QED BY Zenon, <2>2, <3>1, <3>2 DEF TcpTables
  <2>6. ReadTables(p)
    <3>1. Counts(shm_sub_ref[p], ShmSubs(p), NameOf(p))
      BY Zenon, <2>2, <2>4
    <3> QED BY <2>1, <3>1 DEF ReadTables
  <2>7. ShmTable(p)
    <3>1. Counts(Refs(p), ShmPubs(p), TopicOf(p))
      BY Zenon, <2>2, <2>4
    <3> QED BY Zenon, <2>1, <3>1 DEF ShmTable
  <2> QED BY <2>5, <2>6, <2>7
<1> QED BY <1>1, <1>2, LeakInit DEF Inv, TablesMatch

\* every step keeps both in agreement,
LEMMA InvStep ==
  ASSUME Inv, [Next]_vars
  PROVE  Inv'
<1>1. LeakInv'
  BY LeakStep DEF Inv
<1>2. OnePerKey'
  BY OnePerKeyStep DEF Inv, LeakInv
<1>3. ASSUME NEW p \in Processes, Acts(p) PROVE TablesMatch'
  BY <1>3, TablesStep DEF Inv, LeakInv
<1>4. ASSUME UNCHANGED vars PROVE TablesMatch'
  <2>1. UNCHANGED <<matched, creating, sinks, connections, refcount, shm_pub, shm_sub_ref,
                    readers, stopped, sink>>
    BY <1>4 DEF vars, tableVars, busVars
  <2>2. ASSUME NEW p \in Processes, ~stopped'[p]
        PROVE  TcpTables(p)' /\ ReadTables(p)' /\ (~MayFail => ShmTable(p)')
    <3>1. /\ TcpPubs(p)' = TcpPubs(p) /\ ShmPubs(p)' = ShmPubs(p) /\ ShmSubs(p)' = ShmSubs(p)
          /\ Refs(p)' = Refs(p)
      BY Zenon, <2>1 DEF TcpPubs, ShmPubs, ShmSubs, Refs
    <3>2. TcpTables(p) /\ ReadTables(p) /\ (~MayFail => ShmTable(p))
      BY <2>1, <2>2 DEF Inv, TablesMatch
    <3>3. TcpTables(p)'
      BY Zenon, <2>1, <3>1, <3>2 DEF TcpTables
    <3>4. ReadTables(p)'
      BY Zenon, <2>1, <3>1, <3>2 DEF ReadTables
    <3>5. ~MayFail => ShmTable(p)'
      <4>1. creating'[p] = creating[p] /\ shm_pub'[p] = shm_pub[p] /\ TopicOf(p)' = TopicOf(p)
        BY Zenon, <2>1 DEF TopicOf
      <4>2. ShmTable(p) => ShmTable(p)'
        BY Zenon, <3>1, <4>1 DEF ShmTable
      <4> QED BY <3>2, <4>2
    <3> QED BY <3>3, <3>4, <3>5
  <2> QED BY <2>2 DEF TablesMatch
<1>5. TablesMatch'
  BY <1>3, <1>4, Steps
<1> QED BY <1>1, <1>2, <1>5 DEF Inv

\* so they always agree.
LEMMA InvHolds == Spec => []Inv
BY InvInit, InvStep, PTL DEF Spec

-----------------------------------------------------------------------------
(***************************************************************************)
(* Channels and matches correspond                                         *)
(***************************************************************************)

\* The bus has the sinks of the tables and no other.
LEMMA TheRegistered ==
  ASSUME SinksAlive, NEW p \in Processes, ~stopped[p]
  PROVE  /\ Registered(p, "tcp") = Range(sinks[p])
         /\ Registered(p, "shm") = {shm_pub[p][t].sink : t \in DOMAIN shm_pub[p]}
<1> DEFINE T == Range(sinks[p])
           S == {shm_pub[p][t].sink : t \in DOMAIN shm_pub[p]}
<1>1. TcpSinks(p) /\ ShmSinks(p) /\ OnBus(p)
  BY DEF SinksAlive, SinksOf
<1>2. \A i : i \in remote_sinks /\ sink[i].owner = p <=> i \in T \/ i \in S
  BY Zenon, <1>1 DEF OnBus, Owned
<1>3. \A i \in T : sink[i].via = "tcp"
  BY Zenon, <1>1 DEF TcpSinks, Range
<1>4. \A i \in S : sink[i].via = "shm"
  <2> TAKE i \in S
  <2>1. PICK t \in DOMAIN shm_pub[p] : i = shm_pub[p][t].sink
    BY Zenon
  <2> QED BY Zenon, <1>1, <2>1 DEF ShmSinks
<1> HIDE DEF T, S
<1>5. Registered(p, "tcp") = T /\ Registered(p, "shm") = S
  BY <1>2, <1>3, <1>4 DEF Registered
<1> QED BY <1>5 DEF T, S

\* TCP channels and matches correspond, for any processes and any matches:
\* every match served over TCP has its sink on the one connection of its
\* participant, the bus has these sinks and no other, and the reference count
\* is the number of the matches.
THEOREM TcpChannelsHolds == Spec => []TcpChannels
<1>1. ASSUME Inv PROVE TcpChannels
  <2>1. SUFFICES ASSUME NEW p \in Processes, ~stopped[p]
                 PROVE  /\ DOMAIN sinks[p] = {Key(m) : m \in TcpPubs(p)}
                        /\ DOMAIN connections[p] = {Remote(m) : m \in TcpPubs(p)}
                        /\ DOMAIN refcount[p] = DOMAIN connections[p]
                        /\ \A q \in DOMAIN refcount[p] :
                             refcount[p][q] = Cardinality({m \in TcpPubs(p) : Remote(m) = q})
                        /\ Registered(p, "tcp") = Range(sinks[p])
                        /\ \A m \in TcpPubs(p) : sink[sinks[p][Key(m)]].at = connections[p][Remote(m)]
    BY Zenon DEF TcpChannels
  <2>2. TcpTables(p)
    BY <1>1, <2>1 DEF Inv, TablesMatch
  <2>3. Registered(p, "tcp") = Range(sinks[p])
    BY <1>1, <2>1, TheRegistered DEF Inv, LeakInv
  <2>4. \A m \in TcpPubs(p) : RemoteOf(p)[m] = Remote(m)
    BY <1>1, FiniteMatches DEF Inv, LeakInv, RemoteOf
  <2>5. {RemoteOf(p)[m] : m \in TcpPubs(p)} = {Remote(m) : m \in TcpPubs(p)}
    BY <2>4
  <2>6. \A q : {m \in TcpPubs(p) : RemoteOf(p)[m] = q} = {m \in TcpPubs(p) : Remote(m) = q}
    BY <2>4
  <2>7. Counts(refcount[p], TcpPubs(p), RemoteOf(p)) /\ DOMAIN connections[p] = DOMAIN refcount[p]
    BY Zenon, <2>2 DEF TcpTables
  <2>8. DOMAIN connections[p] = {Remote(m) : m \in TcpPubs(p)} /\ DOMAIN refcount[p] = DOMAIN connections[p]
    BY Zenon, <2>5, <2>7 DEF Counts
  <2>9. ASSUME NEW q \in DOMAIN refcount[p]
        PROVE  refcount[p][q] = Cardinality({m \in TcpPubs(p) : Remote(m) = q})
    <3>1. refcount[p][q] = Cardinality({m \in TcpPubs(p) : RemoteOf(p)[m] = q})
      BY <2>7, Zenon DEF Counts
    <3> QED BY <2>6, <3>1, Zenon
  <2>10. /\ DOMAIN sinks[p] = {Key(m) : m \in TcpPubs(p)}
         /\ \A m \in TcpPubs(p) : sink[sinks[p][Key(m)]].at = connections[p][Remote(m)]
    BY <2>2, Zenon DEF TcpTables
  <2> QED BY <2>3, <2>8, <2>9, <2>10, Zenon
<1> QED BY <1>1, InvHolds, PTL

\* The subscriber's side: a segment name has its reader as long as some match
\* needs it, counted exactly.
THEOREM ShmReadersHolds == Spec => []ShmReaders
<1>1. ASSUME Inv PROVE ShmReaders
  <2>1. SUFFICES ASSUME NEW p \in Processes, ~stopped[p]
                 PROVE  /\ DOMAIN readers[p] = {ReadName(m) : m \in ShmSubs(p)}
                        /\ DOMAIN shm_sub_ref[p] = DOMAIN readers[p]
                        /\ \A n \in DOMAIN readers[p] :
                             shm_sub_ref[p][n] = Cardinality({m \in ShmSubs(p) : ReadName(m) = n})
    BY DEF ShmReaders
  <2>2. ReadTables(p)
    BY <1>1, <2>1 DEF Inv, TablesMatch
  <2>3. \A m \in ShmSubs(p) : NameOf(p)[m] = ReadName(m)
    BY <1>1, FiniteMatches DEF Inv, LeakInv, NameOf
  <2>4. {NameOf(p)[m] : m \in ShmSubs(p)} = {ReadName(m) : m \in ShmSubs(p)}
    BY <2>3
  <2>5. \A n : {m \in ShmSubs(p) : NameOf(p)[m] = n} = {m \in ShmSubs(p) : ReadName(m) = n}
    BY <2>3
  <2>6. Counts(shm_sub_ref[p], ShmSubs(p), NameOf(p)) /\ DOMAIN shm_sub_ref[p] = DOMAIN readers[p]
    BY <2>2 DEF ReadTables
  <2>7. DOMAIN readers[p] = {ReadName(m) : m \in ShmSubs(p)}
    BY Zenon, <2>4, <2>6 DEF Counts
  <2>8. ASSUME NEW n \in DOMAIN shm_sub_ref[p]
        PROVE  shm_sub_ref[p][n] = Cardinality({m \in ShmSubs(p) : ReadName(m) = n})
    <3>1. shm_sub_ref[p][n] = Cardinality({m \in ShmSubs(p) : NameOf(p)[m] = n})
      BY <2>6, Zenon DEF Counts
    <3> QED BY <2>5, <3>1, ZenonT(30)
  <2> QED BY <2>6, <2>7, <2>8, ZenonT(30)
<1> QED BY <1>1, InvHolds, PTL

\* SHM channels and matches correspond, as long as no create fails: a topic
\* has one sink while some same-host match needs it, counted exactly, and the
\* bus has these sinks and no other.
THEOREM ShmChannelsHolds ==
  ASSUME ~MayFail
  PROVE  Spec => []ShmChannels
<1>1. ASSUME Inv PROVE ShmChannels
  <2>1. SUFFICES ASSUME NEW p \in Processes, ~stopped[p], creating[p] = {}
                 PROVE  /\ DOMAIN shm_pub[p] = {m.local.topic : m \in ShmPubs(p)}
                        /\ \A t \in DOMAIN shm_pub[p] :
                             /\ shm_pub[p][t].ref = Cardinality({m \in ShmPubs(p) : m.local.topic = t})
                             /\ sink[shm_pub[p][t].sink].topic = t
                        /\ Registered(p, "shm") = {shm_pub[p][t].sink : t \in DOMAIN shm_pub[p]}
    BY Zenon DEF ShmChannels
  <2>2. Counts(Refs(p), ShmPubs(p), TopicOf(p))
    BY Zenon, <1>1, <2>1 DEF Inv, TablesMatch, ShmTable
  <2>3. Registered(p, "shm") = {shm_pub[p][t].sink : t \in DOMAIN shm_pub[p]}
    BY Zenon, <1>1, <2>1, TheRegistered DEF Inv, LeakInv
  <2>4. ShmSinks(p)
    BY <1>1 DEF Inv, LeakInv, SinksAlive, SinksOf
  <2>5. \A m \in ShmPubs(p) : TopicOf(p)[m] = m.local.topic
    BY Zenon, <1>1, FiniteMatches DEF Inv, LeakInv, TopicOf
  <2>6. {TopicOf(p)[m] : m \in ShmPubs(p)} = {m.local.topic : m \in ShmPubs(p)}
    BY <2>5
  <2>7. \A t : {m \in ShmPubs(p) : TopicOf(p)[m] = t} = {m \in ShmPubs(p) : m.local.topic = t}
    BY <2>5
  <2>8. DOMAIN Refs(p) = DOMAIN shm_pub[p] /\ \A t \in DOMAIN shm_pub[p] : Refs(p)[t] = shm_pub[p][t].ref
    BY DEF Refs
  <2>9. DOMAIN shm_pub[p] = {m.local.topic : m \in ShmPubs(p)}
    BY Zenon, <2>2, <2>6, <2>8 DEF Counts
  <2>10. ASSUME NEW t \in DOMAIN shm_pub[p]
         PROVE  shm_pub[p][t].ref = Cardinality({m \in ShmPubs(p) : m.local.topic = t})
    <3>1. Refs(p)[t] = Cardinality({m \in ShmPubs(p) : TopicOf(p)[m] = t})
      BY <2>2, <2>8, Zenon DEF Counts
    <3>2. Refs(p)[t] = shm_pub[p][t].ref
      BY <2>8
    <3> QED BY <2>7, <3>1, <3>2, Zenon
  <2>11. \A t \in DOMAIN shm_pub[p] : sink[shm_pub[p][t].sink].topic = t
    BY Zenon, <2>4 DEF ShmSinks
  <2> QED BY <2>3, <2>9, <2>10, <2>11, Zenon
<1> QED BY <1>1, InvHolds, PTL
=============================================================================
