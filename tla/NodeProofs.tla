----------------------------- MODULE NodeProofs -----------------------------
(***************************************************************************)
(* Proofs about Node: what the order of construction and destruction       *)
(* guarantees, for every program and every peer.                           *)
(***************************************************************************)
EXTENDS Node, TLAPS

\* A leaf that names no prover goes to these two, in this order.
USE SMTT(30), ZenonT(30)

\* The phases of main: before discovery has a thread, while it may have one, and
\* after that was joined.
Starting == {"plane", "agent", "identity", "start"}
Running == {"up", "entities", "join", "join_agent"}
Stopping == {"stop_poll", "stop_loop", "gone"}

Delivering == {"holding", "release", "join"}

\* The data plane in each phase: it has its readers and its identity before the
\* discovery thread starts and as long as that runs, and when it goes both of
\* the threads that deliver have ended.
PlaneInv ==
  /\ pc \in Starting \cup Running \cup Stopping
  /\ inbound \in [Inbound -> Delivering \cup {"none", "idle", "exited"}]
  /\ pc = "plane" => \A t \in Inbound : inbound[t] = "none"
  /\ pc \in Starting => disc = "none"
  /\ pc \in Stopping => disc \in {"none", "exited"}
  /\ pc \in (Starting \ {"plane"}) \cup Running =>
       plane = "made" /\ (readers \/ inbound["poll"] = "none")
  /\ pc \in {"start"} \cup Running => identity
  /\ plane = "gone" => pc = "gone"
  /\ pc \in {"stop_loop", "gone"} => inbound["poll"] \in {"none", "exited"}
  /\ pc = "gone" => inbound["loop"] \in {"none", "exited"}

\* The types of what follows.
RefsType ==
  /\ entities \in Seq(Entities)
  /\ holding \in [Inbound -> Entities \cup {NoEntity}]
  /\ refs \in [Entities -> SUBSET ({"owner"} \cup Inbound)]
  /\ worker \in [Entities -> {"none", "idle", "busy", "exited"}]

\* The owner of a subscriber refers to it as long as it is in entities_ or kept;
\* the one being joined has lost its owner.
OwnerInv ==
  /\ pc = "join" => entities # <<>> /\ "owner" \notin refs[Head(entities)]
  /\ pc \in {"join_agent"} \cup Stopping => entities = <<>>
  /\ \A e \in Entities : ~HasSub(e) => refs[e] = {}
  /\ \A e \in Entities :
       "owner" \in refs[e] => e \in Kept \/ \E i \in 1..Len(entities) : entities[i] = e

\* A thread that delivers refers to the subscriber it holds, and to no other.
HolderInv ==
  /\ \A t \in Inbound : inbound[t] \in Delivering => holding[t] \in Entities
  /\ \A e \in Entities, t \in Inbound :
       t \in refs[e] => inbound[t] \in {"holding", "release"} /\ holding[t] = e

\* A worker runs on as long as someone refers to its subscriber, or joins it: main
\* or the thread that gave up the last reference.
WorkerInv ==
  \A e \in Entities : worker[e] \in {"idle", "busy"} =>
    \/ refs[e] # {}
    \/ pc = "join" /\ Head(entities) = e
    \/ \E t \in Inbound : inbound[t] = "join" /\ holding[t] = e

RefsInv == RefsType /\ OwnerInv /\ HolderInv /\ WorkerInv

NodeInv == PlaneInv /\ RefsInv

-----------------------------------------------------------------------------

\* Before the constructor begins there is nothing.
LEMMA InitNode == Init => NodeInv
<1> SUFFICES ASSUME Init PROVE NodeInv
  OBVIOUS
<1>1. PlaneInv
  BY DEF Init, PlaneInv, Starting, Running, Stopping, Delivering, Inbound
<1>2. RefsInv
  BY DEF Init, RefsInv, RefsType, OwnerInv, HolderInv, WorkerInv, Stopping, Delivering, Inbound
<1> QED
  BY <1>1, <1>2 DEF NodeInv

\* The program is the same all the time.
LEMMA SameProgram ==
  ASSUME app' = app
  PROVE  Entities' = Entities /\ Kept' = Kept
BY DEF Entities, Kept

\* A step of the discovery thread: it is between its start and its join.
LEMMA DiscStep ==
  ASSUME NodeInv, Disc \/ (DiscKeeps /\ (handle_announcement \/ reap_dead))
  PROVE  NodeInv'
<1>1. DiscKeeps /\ disc \in {"idle", "rematch", "plane", "reader"}
  BY DEF Disc, TakeDirty, rematch_all, Handled, DiscExits, Report, Withdraw,
         handle_announcement,
         reap_dead, DiscIdle
<1>2. PlaneInv'
  BY <1>1 DEF DiscKeeps, NodeInv, PlaneInv, mainVars, planeVars, inboundVars, Starting, Running,
              Stopping
<1>3. Entities' = Entities /\ Kept' = Kept
  BY <1>1, SameProgram DEF DiscKeeps, mainVars
<1>4. RefsInv'
  BY <1>1, <1>3 DEF DiscKeeps, NodeInv, RefsInv, RefsType, OwnerInv, HolderInv, WorkerInv,
                    mainVars, inboundVars, subVars
<1> QED
  BY <1>2, <1>4 DEF NodeInv

\* A step of a worker: one that has ended does not come back.
LEMMA WorkerStep ==
  ASSUME NodeInv, NEW e \in Entities, Work(e)
  PROVE  NodeInv'
<1>1. PlaneInv'
  BY DEF Work, WorkerKeeps, NodeInv, PlaneInv, mainVars, planeVars, agentVars, inboundVars
<1>2. Entities' = Entities /\ Kept' = Kept
  BY SameProgram DEF Work, WorkerKeeps, mainVars
<1>3. /\ worker[e] \in {"idle", "busy"}
      /\ \E w \in {"idle", "busy", "exited"} : worker' = [worker EXCEPT ![e] = w]
  BY Zenon DEF Work, Take, CallbackReturns, Reply, WorkerExits
<1>4. RefsInv'
  BY <1>2, <1>3 DEF Work, WorkerKeeps, NodeInv, RefsInv, RefsType, OwnerInv, HolderInv,
                    WorkerInv, mainVars, inboundVars
<1> QED
  BY <1>1, <1>4 DEF NodeInv

\* A step of the server's loop or of the poller.  They are alike: a reference
\* is there from Collect to Release, and its last holder joins.
LEMMA InboundStep ==
  ASSUME NodeInv, NEW t \in Inbound,
         Deliver(t) \/ (InboundKeeps /\ \E e \in Entities : Collect(t, e))
  PROVE  NodeInv'
<1>1. InboundKeeps /\ Entities' = Entities /\ Kept' = Kept
  BY SameProgram DEF Deliver, InboundKeeps, mainVars
<1> USE DEF Delivering
<1>2. /\ inbound[t] \notin {"none", "exited"}
      /\ \E s \in {"idle", "holding", "release", "join", "exited"} :
           inbound' = [inbound EXCEPT ![t] = s]
  BY DEF Deliver, Collect, Enqueue, Release, Joined, InboundExits, NodeInv, PlaneInv
<1>3. PlaneInv'
  BY <1>1, <1>2 DEF InboundKeeps, NodeInv, PlaneInv, mainVars, planeVars, agentVars
<1>4. RefsInv'
  <2>1. /\ entities' = entities /\ pc' = pc /\ worker' = worker
        /\ inbound \in [Inbound -> Delivering \cup {"none", "idle", "exited"}]
    BY <1>1 DEF InboundKeeps, mainVars, NodeInv, PlaneInv
  <2>2. ASSUME NEW e \in Entities, Collect(t, e) PROVE RefsInv'
    <3>1. RefsType'
      BY <1>1, <2>1, <2>2 DEF Collect, NodeInv, RefsInv, RefsType
    <3>2. OwnerInv'
      <4>1. /\ refs[e] # {} /\ refs' = [refs EXCEPT ![e] = @ \cup {t}] /\ t # "owner"
        BY <2>2 DEF Collect, Inbound
      <4>2. \A f \in Entities : "owner" \in refs'[f] <=> "owner" \in refs[f]
        BY <4>1 DEF NodeInv, RefsInv, RefsType
      <4>3. \A f \in Entities : refs[f] = {} => refs'[f] = {}
        BY <4>1 DEF NodeInv, RefsInv, RefsType
      <4>4. pc = "join" => Head(entities) \in Entities
        BY DEF NodeInv, RefsInv, RefsType, OwnerInv
      <4> QED
        BY <1>1, <2>1, <4>2, <4>3, <4>4 DEF NodeInv, RefsInv, OwnerInv
    <3>3. HolderInv'
      BY <1>1, <2>1, <2>2 DEF Collect, NodeInv, RefsInv, RefsType, HolderInv
    <3>4. WorkerInv'
      BY <1>1, <2>1, <2>2 DEF Collect, NodeInv, RefsInv, RefsType, WorkerInv
    <3> QED
      BY <3>1, <3>2, <3>3, <3>4 DEF RefsInv
  <2>3. CASE Enqueue(t)
    <3>1. RefsType'
      BY <1>1, <2>1, <2>3 DEF Enqueue, NodeInv, RefsInv, RefsType
    <3>2. OwnerInv'
      BY <1>1, <2>1, <2>3 DEF Enqueue, NodeInv, RefsInv, RefsType, OwnerInv
    <3>3. HolderInv'
      BY <1>1, <2>1, <2>3 DEF Enqueue, NodeInv, RefsInv, RefsType, HolderInv
    <3>4. WorkerInv'
      BY <1>1, <2>1, <2>3 DEF Enqueue, NodeInv, RefsInv, RefsType, WorkerInv
    <3> QED
      BY <3>1, <3>2, <3>3, <3>4 DEF RefsInv
  <2>4. CASE Release(t)
    <3>1. holding[t] \in Entities /\ inbound[t] = "release"
      BY <2>4 DEF Release, NodeInv, RefsInv, RefsType, OwnerInv, HolderInv, WorkerInv
    <3>2. refs' = [refs EXCEPT ![holding[t]] = @ \ {t}]
      BY <2>4 DEF Release, Drop
    <3>3. CASE refs'[holding[t]] = {}
      BY <1>1, <2>1, <2>4, <3>1, <3>2, <3>3 DEF Release, NodeInv, RefsInv, RefsType, OwnerInv,
                                                HolderInv, WorkerInv
    <3>4. CASE refs'[holding[t]] # {}
      BY <1>1, <2>1, <2>4, <3>1, <3>2, <3>4 DEF Release, NodeInv, RefsInv, RefsType, OwnerInv,
                                                HolderInv, WorkerInv
    <3> QED
      BY <3>3, <3>4
  <2>5. CASE Joined(t)
    <3>1. RefsType'
      BY <1>1, <2>1, <2>5 DEF Joined, NodeInv, RefsInv, RefsType
    <3>2. OwnerInv'
      BY <1>1, <2>1, <2>5 DEF Joined, NodeInv, RefsInv, RefsType, OwnerInv
    <3>3. HolderInv'
      BY <1>1, <2>1, <2>5 DEF Joined, NodeInv, RefsInv, RefsType, HolderInv
    <3>4. WorkerInv'
      BY <1>1, <2>1, <2>5 DEF Joined, NodeInv, RefsInv, RefsType, WorkerInv
    <3> QED
      BY <3>1, <3>2, <3>3, <3>4 DEF RefsInv
  <2>6. CASE InboundExits(t)
    <3>1. RefsType'
      BY <1>1, <2>1, <2>6 DEF InboundExits, NodeInv, RefsInv, RefsType
    <3>2. OwnerInv'
      BY <1>1, <2>1, <2>6 DEF InboundExits, NodeInv, RefsInv, RefsType, OwnerInv
    <3>3. HolderInv'
      BY <1>1, <2>1, <2>6 DEF InboundExits, NodeInv, RefsInv, RefsType, HolderInv
    <3>4. WorkerInv'
      BY <1>1, <2>1, <2>6 DEF InboundExits, NodeInv, RefsInv, RefsType, WorkerInv
    <3> QED
      BY <3>1, <3>2, <3>3, <3>4 DEF RefsInv
  <2> QED
    BY <2>2, <2>3, <2>4, <2>5, <2>6 DEF Deliver
<1> QED
  BY <1>3, <1>4 DEF NodeInv

\* The references stay right when nobody takes or gives one up and no thread
\* begins or ends a delivery.
LEMMA RefsStay ==
  ASSUME RefsInv, UNCHANGED <<entities, holding, refs, worker>>,
         Entities' = Entities, Kept' = Kept,
         pc' = "join" <=> pc = "join",
         pc' \in {"join_agent"} \cup Stopping => entities = <<>>,
         \A t \in Inbound : inbound'[t] # inbound[t] => {inbound[t], inbound'[t]} \cap Delivering = {}
  PROVE  RefsInv'
<1>1. RefsType' /\ OwnerInv'
  BY DEF RefsInv, RefsType, OwnerInv
<1>2. \A t \in Inbound : inbound[t] \in Delivering \/ inbound'[t] \in Delivering =>
        inbound'[t] = inbound[t]
  OBVIOUS
<1>3. HolderInv'
  BY <1>2 DEF RefsInv, HolderInv, Delivering
<1>4. WorkerInv'
  BY <1>2 DEF RefsInv, WorkerInv, Delivering
<1> QED
  BY <1>1, <1>3, <1>4 DEF RefsInv

\* A step of main.
LEMMA MainStep ==
  ASSUME NodeInv, Main \/ (MainKeeps /\ (DestroyBegins \/ \E e \in Entities : Create(e)))
  PROVE  NodeInv'
<1>1. MainKeeps /\ Entities' = Entities /\ Kept' = Kept
  BY SameProgram DEF Main, MainKeeps
<1>2. holding' = holding
  BY <1>1 DEF MainKeeps
<1> USE DEF Starting, Running, Stopping
<1>3. CASE StartPlane
  <2>1. PlaneInv'
    BY <1>3 DEF StartPlane, NodeInv, PlaneInv, Inbound, Delivering
  <2>2. RefsInv'
    <3>1. /\ pc = "plane" /\ pc' = "agent" /\ UNCHANGED <<entities, refs, worker>>
          /\ \A t \in Inbound : inbound[t] = "none" /\ inbound'[t] \in {"none", "idle"}
      BY <1>3 DEF StartPlane, NodeInv, PlaneInv, ownVars
    <3> QED
      BY <1>1, <1>2, <3>1, RefsStay DEF NodeInv, Delivering
  <2> QED
    BY <2>1, <2>2 DEF NodeInv
<1>4. CASE MakeAgent
  BY <1>1, <1>2, <1>4 DEF MakeAgent, NodeInv, PlaneInv, RefsInv, RefsType, OwnerInv, HolderInv,
                          WorkerInv, planeVars, ownVars
<1>5. CASE SetIdentity
  BY <1>1, <1>2, <1>5 DEF SetIdentity, NodeInv, PlaneInv, RefsInv, RefsType, OwnerInv,
                          HolderInv, WorkerInv, threadVars, ownVars
<1>6. CASE StartAgent
  BY <1>1, <1>2, <1>6 DEF StartAgent, NodeInv, PlaneInv, RefsInv, RefsType, OwnerInv,
                          HolderInv, WorkerInv, planeVars, ownVars
<1>7. CASE Add
  BY <1>1, <1>2, <1>7 DEF Add, NodeInv, PlaneInv, RefsInv, RefsType, OwnerInv, HolderInv,
                          WorkerInv, planeVars, ownVars
<1>8. CASE DestroyBegins
  BY <1>1, <1>2, <1>8 DEF DestroyBegins, NodeInv, PlaneInv, RefsInv, RefsType, OwnerInv,
                          HolderInv, WorkerInv, planeVars, threadVars, ownVars
<1>9. CASE StopAgent
  BY <1>1, <1>2, <1>9 DEF StopAgent, NodeInv, PlaneInv, RefsInv, RefsType, OwnerInv, HolderInv,
                          WorkerInv, planeVars, ownVars
<1>10. CASE JoinAgent
  BY <1>1, <1>2, <1>10 DEF JoinAgent, NodeInv, PlaneInv, RefsInv, RefsType, OwnerInv,
                           HolderInv, WorkerInv, ownVars
<1>11. CASE StopServer
  BY <1>1, <1>2, <1>11 DEF StopServer, NodeInv, PlaneInv, RefsInv, RefsType, OwnerInv,
                           HolderInv, WorkerInv, planeVars, ownVars
<1>12. CASE DestroyEnds
  BY <1>1, <1>2, <1>12 DEF DestroyEnds, NodeInv, PlaneInv, RefsInv, RefsType, OwnerInv,
                           HolderInv, WorkerInv, threadVars, ownVars
<1>13. ASSUME NEW e \in Entities, Create(e) PROVE NodeInv'
  <2>1. PlaneInv'
    BY <1>13 DEF Create, NodeInv, PlaneInv, planeVars, threadVars
  <2>2. RefsInv'
    <3>0. /\ pc = "up" /\ pc' = pc /\ inbound' = inbound
          /\ \/ /\ refs' = [refs EXCEPT ![e] = {"owner"}]
                /\ worker' = [worker EXCEPT ![e] = "idle"]
             \/ refs' = refs /\ worker' = worker
      BY <1>13 DEF Create, threadVars
    <3>1. RefsType'
      <4>1. entities' \in Seq(Entities)
        BY <1>13 DEF Create, NodeInv, RefsInv, RefsType
      <4> QED
        BY <1>1, <1>2, <3>0, <4>1 DEF NodeInv, RefsInv, RefsType
    <3>2. OwnerInv'
      <4>1. /\ entities' = Append(entities, e) /\ entities \in Seq(Entities)
            /\ ~HasSub(e) => refs' = refs
        BY <1>13 DEF Create, NodeInv, RefsInv, RefsType
      <4>2. /\ entities'[Len(entities')] = e /\ Len(entities') \in 1..Len(entities')
            /\ \A i \in 1..Len(entities) : i \in 1..Len(entities') /\ entities'[i] = entities[i]
        BY <4>1
      <4>3. \A f \in Entities \ {e} : refs'[f] = refs[f]
        BY <3>0 DEF NodeInv, RefsInv, RefsType
      <4>4. \A f \in Entities : ~HasSub(f) => refs'[f] = {}
        BY <4>1, <4>3 DEF NodeInv, RefsInv, OwnerInv
      <4>5. \A f \in Entities :
              "owner" \in refs'[f] => f \in Kept \/ \E i \in 1..Len(entities') : entities'[i] = f
        BY <4>2, <4>3 DEF NodeInv, RefsInv, OwnerInv
      <4> QED
        BY <1>1, <3>0, <4>4, <4>5 DEF OwnerInv
    <3>3. HolderInv'
      BY <1>1, <1>2, <1>13, <3>0 DEF NodeInv, RefsInv, RefsType, HolderInv, Inbound
    <3>4. WorkerInv'
      <4>1. CASE refs' = refs /\ worker' = worker
        BY <1>1, <1>2, <3>0, <4>1 DEF NodeInv, RefsInv, WorkerInv
      <4>2. CASE /\ refs' = [refs EXCEPT ![e] = {"owner"}]
                 /\ worker' = [worker EXCEPT ![e] = "idle"]
        <5>1. /\ refs'[e] # {}
              /\ \A f \in Entities \ {e} : refs'[f] = refs[f] /\ worker'[f] = worker[f]
          BY <4>2 DEF NodeInv, RefsInv, RefsType
        <5> QED
          BY <1>1, <1>2, <3>0, <5>1 DEF NodeInv, RefsInv, WorkerInv
      <4> QED
        BY <3>0, <4>1, <4>2
    <3> QED
      BY <3>1, <3>2, <3>3, <3>4 DEF RefsInv
  <2> QED
    BY <2>1, <2>2 DEF NodeInv
<1> DEFINE first == Head(entities)
<1>0. ASSUME entities # <<>>
      PROVE  /\ first \in Entities /\ Tail(entities) \in Seq(Entities)
             /\ \A i \in 1..Len(entities) :
                  \/ entities[i] = first
                  \/ i - 1 \in 1..Len(Tail(entities)) /\ Tail(entities)[i - 1] = entities[i]
  BY <1>0 DEF NodeInv, RefsInv, RefsType
<1>14. CASE DropEntity
  <2>1. PlaneInv'
    BY <1>14 DEF DropEntity, NodeInv, PlaneInv, planeVars, threadVars
  <2>2. RefsInv'
    <3>0. /\ pc = "entities" /\ entities # <<>> /\ first \in Entities
          /\ worker' = worker /\ inbound' = inbound
          /\ refs' = refs \/ refs' = [refs EXCEPT ![first] = @ \ {"owner"}]
          /\ entities' = entities \/ entities' = Tail(entities)
      BY <1>0, <1>14 DEF DropEntity, Drop, threadVars
    <3>1. RefsType'
      BY <1>0, <1>1, <1>2, <3>0 DEF NodeInv, RefsInv, RefsType
    <3>2. OwnerInv'
      <4>1. \A e \in Entities : refs'[e] \subseteq refs[e]
        BY <3>0 DEF NodeInv, RefsInv, RefsType
      <4>2. pc' = "join" => entities' # <<>> /\ "owner" \notin refs'[Head(entities')]
        BY <1>14, <3>0 DEF DropEntity
      <4>3. pc' \in {"entities", "join"}
        BY <1>14, <3>0 DEF DropEntity
      <4>4. ASSUME NEW e \in Entities, "owner" \in refs'[e]
            PROVE  e \in Kept \/ \E i \in 1..Len(entities') : entities'[i] = e
        <5>1. e \in Kept \/ \E i \in 1..Len(entities) : entities[i] = e
          BY <4>1, <4>4 DEF NodeInv, RefsInv, OwnerInv
        <5>2. e = first => e \in Kept
          BY <1>14, <3>0, <4>1, <4>4 DEF DropEntity, Drop, NodeInv, RefsInv, RefsType, OwnerInv
        <5> QED
          BY Zenon, <1>0, <3>0, <5>1, <5>2
      <4>5. \A e \in Entities : ~HasSub(e) => refs'[e] = {}
        BY <4>1 DEF NodeInv, RefsInv, OwnerInv
      <4> QED
        BY <1>1, <4>2, <4>3, <4>4, <4>5 DEF OwnerInv
    <3>3. HolderInv'
      BY <1>1, <1>2, <1>14 DEF DropEntity, Drop, threadVars, NodeInv, RefsInv, RefsType,
                               HolderInv
    <3>4. WorkerInv'
      BY <1>1, <1>2, <1>14 DEF DropEntity, Drop, threadVars, NodeInv, RefsInv, RefsType,
                               WorkerInv
    <3> QED
      BY <3>1, <3>2, <3>3, <3>4 DEF RefsInv
  <2> QED
    BY <2>1, <2>2 DEF NodeInv
<1>15. CASE JoinWorker
  <2>1. PlaneInv'
    BY <1>15 DEF JoinWorker, NodeInv, PlaneInv, planeVars, threadVars
  <2>2. RefsInv'
    <3>1. RefsType'
      BY <1>0, <1>1, <1>2, <1>15 DEF JoinWorker, threadVars, NodeInv, RefsInv, RefsType,
                                     OwnerInv
    <3>2. OwnerInv'
      <4>1. /\ pc' = "entities" /\ entities' = Tail(entities) /\ refs' = refs
            /\ entities # <<>> /\ "owner" \notin refs[first]
        BY <1>15 DEF JoinWorker, NodeInv, RefsInv, OwnerInv
      <4>2. ASSUME NEW e \in Entities, "owner" \in refs[e], e \notin Kept
            PROVE  \E i \in 1..Len(Tail(entities)) : Tail(entities)[i] = e
        BY <1>0, <4>1, <4>2 DEF NodeInv, RefsInv, OwnerInv
      <4> QED
        BY <1>1, <4>1, <4>2 DEF NodeInv, RefsInv, OwnerInv
    <3>3. HolderInv'
      BY <1>1, <1>2, <1>15 DEF JoinWorker, threadVars, NodeInv, RefsInv, RefsType, HolderInv
    <3>4. WorkerInv'
      BY <1>1, <1>2, <1>15 DEF JoinWorker, threadVars, NodeInv, RefsInv, RefsType, WorkerInv
    <3> QED
      BY <3>1, <3>2, <3>3, <3>4 DEF RefsInv
  <2> QED
    BY <2>1, <2>2 DEF NodeInv
<1> QED
  BY <1>3, <1>4, <1>5, <1>6, <1>7, <1>8, <1>9, <1>10, <1>11, <1>12, <1>13, <1>14, <1>15 DEF Main

\* A step of any thread.
LEMMA NodeStep == NodeInv /\ [Next]_vars => NodeInv'
<1> SUFFICES ASSUME NodeInv, [Next]_vars PROVE NodeInv'
  OBVIOUS
<1>1. CASE Main \/ (MainKeeps /\ (DestroyBegins \/ \E e \in Entities : Create(e)))
  BY <1>1, MainStep
<1>2. CASE Disc \/ (DiscKeeps /\ (handle_announcement \/ reap_dead))
  BY <1>2, DiscStep
<1>3. ASSUME NEW t \in Inbound,
             Deliver(t) \/ (InboundKeeps /\ \E e \in Entities : Collect(t, e))
      PROVE  NodeInv'
  BY <1>3, InboundStep
<1>4. ASSUME NEW e \in Entities, Work(e) PROVE NodeInv'
  BY <1>4, WorkerStep
<1>5. CASE UNCHANGED vars
  <2>1. /\ UNCHANGED <<pc, entities, plane, identity, readers, disc, inbound, holding, refs,
                        worker>>
        /\ Entities' = Entities /\ Kept' = Kept
    BY <1>5, SameProgram DEF vars, mainVars, planeVars, agentVars, inboundVars, subVars
  <2>2. PlaneInv'
    BY <2>1 DEF NodeInv, PlaneInv
  <2>3. RefsInv'
    BY <2>1 DEF NodeInv, RefsInv, RefsType, OwnerInv, HolderInv, WorkerInv
  <2> QED
    BY <2>2, <2>3 DEF NodeInv
<1> QED
  BY <1>1, <1>2, <1>3, <1>4, <1>5 DEF Next, Environment

-----------------------------------------------------------------------------

\* For every program, a callback of discovery finds the data plane with its
\* identity and its readers, and a delivery of the server's loop finds it alive:
\* the constructor starts discovery last, the destructor joins it first.
THEOREM PlaneReadyHolds == Spec => []PlaneReady
<1>1. NodeInv => PlaneReady
  BY DEF NodeInv, PlaneInv, PlaneReady, Starting, Running, Stopping
<1> QED
  BY <1>1, InitNode, NodeStep, PTL DEF Spec

\* For every program, after the destructor of the Node no callback runs of a
\* subscriber that the application has not kept: whoever gave up the last
\* reference has joined the worker.
THEOREM NoStrayCallbackHolds == Spec => []NoStrayCallback
<1>1. NodeInv => NoStrayCallback
  <2> SUFFICES ASSUME NodeInv, pc = "gone", NEW e \in Entities \ Kept
               PROVE  worker[e] \in {"none", "exited"}
    BY DEF NoStrayCallback
  <2>1. \A t \in Inbound : inbound[t] \in {"none", "exited"}
    BY DEF NodeInv, PlaneInv, Inbound
  <2>2. refs[e] = {}
    BY <2>1 DEF NodeInv, RefsInv, RefsType, OwnerInv, HolderInv, Stopping
  <2> QED
    BY <2>1, <2>2 DEF NodeInv, RefsInv, RefsType, WorkerInv
<1> QED
  BY <1>1, InitNode, NodeStep, PTL DEF Spec
=============================================================================
