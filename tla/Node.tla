-------------------------------- MODULE Node --------------------------------
(***************************************************************************)
(* A Node (core/include/core/node.h, core/src/node.cpp) from its           *)
(* constructor to the end of its destructor, with every thread it owns:    *)
(* main, the discovery thread, the loop of the TCP server, the SHM poller, *)
(* and the worker of each subscriber.                                      *)
(*                                                                         *)
(* What the parts do is in their own modules; here they are objects that   *)
(* are made and destroyed, and threads that are inside of them.  Pointers  *)
(* are of two kinds: shared ones, which keep a subscriber alive (refs),    *)
(* and raw ones, from discovery to the data plane, from the server to the  *)
(* data plane, from a Service's worker to the Service and to the Node.     *)
(* The peer is one other Node, of which discovery knows the endpoints.     *)
(***************************************************************************)
EXTENDS Matching, FiniteSetsExt, Functions

CONSTANTS
  Programs,     \* what the application does: the entities it creates, in order
                \* and with kind, name and reliability; those whose shared_ptr it
                \* keeps when the Node goes; and the endpoints of the peer
  Node_name,    \* the Node's name, a sequence of characters
  Depth         \* KEEP_LAST depth of the queues

VARIABLES
  app,             \* the program
  pc,              \* where main stands, in the constructor or destructor
  entities,        \* entities_, in the order of their creation
  adding,          \* endpoints the current create_... has yet to add
  plane,           \* life of the DataPlane
  identity,        \* set_local_identity was called
  readers,         \* shm_readers_ is not null
  agent,           \* life of the DiscoveryAgent
  local_endpoints, \* the endpoints it announces
  endpoints_dirty,
  heard,           \* the peer is known
  active_matches,  \* keys of the matches reported
  todo,            \* matches the discovery thread has still to report
  disc,            \* the discovery thread
  inbound,         \* the server's loop and the poller
  running,         \* their running_
  holding,         \* the subscriber each holds while it delivers
  refs,            \* who holds a reference to the subscriber of an entity
  object,          \* life of a Service or Client: "dying" while its worker is joined
  response_pubs,   \* reply topics for which a Service has a publisher
  queue,           \* messages waiting in the subscriber's queue
  closed,          \* close was called on the queue
  worker,          \* the subscriber's worker
  dangling,        \* a thread has used an object that was destroyed
  crashed          \* the process has died of that, or of a null pointer

mainVars == <<app, pc, entities, adding>>
planeVars == <<plane, identity, readers>>
agentVars == <<agent, heard, active_matches, todo, disc>>
endpointVars == <<local_endpoints, endpoints_dirty>>
inboundVars == <<inbound, running, holding>>
subVars == <<refs, object, response_pubs, queue, closed, worker>>
faultVars == <<dangling, crashed>>
threadVars == <<agent, disc, running, inbound>>
ownVars == <<refs, object, closed, worker>>
vars == <<mainVars, planeVars, agentVars, endpointVars, inboundVars, subVars, faultVars>>

Inbound == {"loop", "poll"}
NoEntity == [kind |-> "none"]
Entities == Range(app.creates)
Kept == app.keeps
Peer == app.peer
HasSub(e) == e.kind # "publisher"

-----------------------------------------------------------------------------
(***************************************************************************)
(* rpc_topics.h, over sequences of characters                              *)
(***************************************************************************)

Other == {"/", "_", "-", ".", " "}

\* What is not alphanumeric becomes an underscore, those at the ends go, and
\* nothing becomes "default".
rpc_sanitize_segment(value) ==
  LET kept == {i \in DOMAIN value : value[i] \notin Other}
  IN IF kept = {} THEN <<"default">>
     ELSE [i \in 1..(Max(kept) - Min(kept) + 1) |->
             LET c == value[Min(kept) + i - 1] IN IF c \in Other THEN "_" ELSE c]

rpc_request_topic(service_name) == <<"request", rpc_sanitize_segment(service_name)>>

rpc_reply_topic(service_name, client_id) ==
  <<"reply", rpc_sanitize_segment(service_name), rpc_sanitize_segment(client_id)>>

\* The id create_client makes of the Node's name, its participant and the number
\* of its entities.
client_id(name, participant, n) == name \o <<"-", participant, "-", n>>

-----------------------------------------------------------------------------
(***************************************************************************)
(* The endpoints of an entity, in the order in which they are added        *)
(***************************************************************************)

EndpointInfo(kind, topic, type, response, reliability) ==
  [kind |-> kind, topic |-> topic, type_name |-> type, response_type_name |-> response,
   reliability |-> reliability]

EndpointsOf(e, id) ==
  CASE e.kind = "publisher" ->
         <<EndpointInfo("PUBLISHER", e.name, "T", "", e.reliability)>>
    [] e.kind = "subscriber" ->
         <<EndpointInfo("SUBSCRIBER", e.name, "T", "", e.reliability)>>
    [] e.kind = "service" ->
         <<EndpointInfo("SUBSCRIBER", rpc_request_topic(e.name), "RpcRequest", "", e.reliability),
           EndpointInfo("SERVICE", e.name, "Req", "Resp", e.reliability)>>
    [] e.kind = "client" ->
         <<EndpointInfo("PUBLISHER", rpc_request_topic(e.name), "RpcRequest", "", e.reliability),
           EndpointInfo("SUBSCRIBER", rpc_reply_topic(e.name, id), "RpcReply", "", e.reliability),
           EndpointInfo("CLIENT", e.name, "Req", "Resp", e.reliability)>>

\* Those of the n-th entity of this Node, and the topics an entity subscribes to.
Endpoints(n) ==
  EndpointsOf(app.creates[n], client_id(Node_name, "p", <<"0", "1", "2", "3">>[n]))

Subscribes(e) ==
  {x.topic : x \in {y \in UNION {Range(Endpoints(n)) : n \in {m \in DOMAIN app.creates :
                                                              app.creates[m] = e}} :
                   y.kind = "SUBSCRIBER"}}

\* The reply topics of the peer's clients of a Service.
ReplyTopics(e) ==
  {Peer[i].topic : i \in {j \in DOMAIN Peer :
     Peer[j].kind = "SUBSCRIBER" /\ Peer[j].topic[1] = "reply"
       /\ Peer[j].topic[2] = rpc_sanitize_segment(e.name)}}

-----------------------------------------------------------------------------
(***************************************************************************)
(* The constructor, and create_...                                         *)
(***************************************************************************)

Init ==
  /\ app \in Programs
  /\ pc = "plane" /\ entities = <<>> /\ adding = <<>>
  /\ plane = "none" /\ identity = FALSE /\ readers = FALSE
  /\ agent = "none" /\ local_endpoints = <<>> /\ endpoints_dirty = FALSE
  /\ heard = FALSE /\ active_matches = {} /\ todo = {} /\ disc = "none"
  /\ inbound = [t \in Inbound |-> "none"] /\ running = [t \in Inbound |-> FALSE]
  /\ holding = [t \in Inbound |-> NoEntity]
  /\ refs = [e \in Entities |-> {}] /\ object = [e \in Entities |-> "none"]
  /\ queue = [e \in Entities |-> 0] /\ closed = [e \in Entities |-> FALSE]
  /\ worker = [e \in Entities |-> "none"] /\ response_pubs = [e \in Entities |-> {}]
  /\ dangling = FALSE /\ crashed = FALSE

\* DataPlane::start: the server, then the readers with their poller; without a
\* server neither is there, and the constructor goes on.
StartPlane ==
  /\ pc = "plane"
  /\ pc' = "agent" /\ plane' = "made"
  /\ \/ /\ inbound' = [t \in Inbound |-> "idle"] /\ running' = [t \in Inbound |-> TRUE]
        /\ readers' = TRUE
     \/ UNCHANGED <<inbound, running, readers>>
  /\ UNCHANGED <<entities, adding, identity, agent, disc, endpointVars, ownVars>>

\* The agent is constructed with the locator.
MakeAgent ==
  /\ pc = "agent"
  /\ pc' = "identity" /\ agent' = "made"
  /\ UNCHANGED <<entities, adding, planeVars, disc, endpointVars, running, inbound, ownVars>>

\* set_local_identity, then the callbacks, with a raw pointer to the data plane.
SetIdentity ==
  /\ pc = "identity"
  /\ pc' = "start" /\ identity' = TRUE
  /\ UNCHANGED <<entities, adding, plane, readers, threadVars, endpointVars, ownVars>>

\* Discovery starts its thread, or fails to, and the Node is in-process only.
StartAgent ==
  /\ pc = "start"
  /\ pc' = "up"
  /\ \/ agent' = "running" /\ disc' = "idle"
     \/ UNCHANGED <<agent, disc>>
  /\ UNCHANGED <<entities, adding, planeVars, endpointVars, running, inbound, ownVars>>

\* create_...: the entity is made, its subscriber has a worker and is on the
\* bus, and entities_ holds it.
Create(e) ==
  /\ pc = "up" /\ adding = <<>>
  /\ Len(entities) < Len(app.creates) /\ e = app.creates[Len(entities) + 1]
  /\ entities' = Append(entities, e)
  /\ adding' = Endpoints(Len(entities) + 1)
  /\ object' = [object EXCEPT ![e] = "alive"]
  /\ IF HasSub(e)
     THEN refs' = [refs EXCEPT ![e] = {"owner"}] /\ worker' = [worker EXCEPT ![e] = "idle"]
     ELSE UNCHANGED <<refs, worker>>
  /\ UNCHANGED <<pc, planeVars, threadVars, endpointVars, closed>>

\* Mutant of add_endpoint: discovery is not told to match again.
add_endpointQuiet(x) == local_endpoints' = Append(local_endpoints, x) /\ UNCHANGED endpoints_dirty

\* DiscoveryAgent::add_endpoint, also from the registrar of a Service.
add_endpoint(x) == local_endpoints' = Append(local_endpoints, x) /\ endpoints_dirty' = TRUE

\* create_... adds its endpoints one after the other.
Add ==
  /\ adding # <<>>
  /\ add_endpoint(Head(adding))
  /\ adding' = Tail(adding)
  /\ UNCHANGED <<pc, entities, planeVars, agent, disc, running, inbound, ownVars>>

-----------------------------------------------------------------------------
(***************************************************************************)
(* The discovery thread                                                    *)
(***************************************************************************)

KeyOf(ij) == match_key(local_endpoints[ij[1]], "peer", Peer[ij[2]])
Discovered == {ij \in MatchedPairs(local_endpoints, Peer) : KeyOf(ij) \notin active_matches}

\* Between two callbacks, with nothing left to report or to withdraw.
DiscIdle == disc = "idle" /\ todo = {} /\ (heard \/ active_matches = {})

\* An announcement of the peer comes in: try_match.  One that comes in while
\* main joins the thread is as good as one before.
handle_announcement ==
  /\ DiscIdle /\ agent = "running"
  /\ heard' = TRUE /\ todo' = Discovered
  /\ UNCHANGED <<active_matches, disc, endpoints_dirty, crashed>>

\* There are new endpoints: the flag is cleared before they are copied.
TakeDirty ==
  /\ DiscIdle /\ endpoints_dirty
  /\ endpoints_dirty' = FALSE /\ disc' = "rematch"
  /\ UNCHANGED <<heard, active_matches, todo, crashed>>

rematch_all ==
  /\ disc = "rematch"
  /\ disc' = "idle" /\ todo' = IF heard THEN Discovered ELSE {}
  /\ UNCHANGED <<heard, active_matches, endpoints_dirty, crashed>>

\* A callback into the data plane; a subscriber that asked for BEST_EFFORT is
\* served over SHM, by the reader manager.
Call(l) ==
  disc' = IF l.kind = "SUBSCRIBER" /\ l.reliability = BEST_EFFORT THEN "reader" ELSE "plane"

\* The next match is remembered and reported: handle_match is entered.
Report(ij) ==
  /\ disc = "idle" /\ ij \in todo
  /\ active_matches' = active_matches \cup {KeyOf(ij)}
  /\ todo' = {kl \in todo : KeyOf(kl) # KeyOf(ij)}
  /\ Call(local_endpoints[ij[1]])
  /\ UNCHANGED <<heard, endpoints_dirty, crashed>>

\* The peer was not heard of for too long; its matches are withdrawn one by one.
reap_dead ==
  /\ DiscIdle /\ heard
  /\ heard' = FALSE
  /\ UNCHANGED <<active_matches, todo, disc, endpoints_dirty, crashed>>

Withdraw(key) ==
  /\ disc = "idle" /\ ~heard /\ key \in active_matches
  /\ active_matches' = active_matches \ {key}
  /\ \E i \in DOMAIN local_endpoints :
       /\ local_endpoints[i].kind = key[1] /\ local_endpoints[i].topic = key[2]
       /\ Call(local_endpoints[i])
  /\ UNCHANGED <<heard, todo, endpoints_dirty, crashed>>

\* handle_match or handle_unmatch returns.  The reader manager is a null pointer
\* if the data plane has failed to start; its lock is the poller's while that
\* delivers.
Handled ==
  /\ disc \in {"plane", "reader"}
  /\ disc = "reader" => inbound["poll"] \in {"none", "idle", "exited"}
  /\ disc' = "idle"
  /\ crashed' = (disc = "reader" /\ inbound["poll"] = "none")
  /\ UNCHANGED <<heard, active_matches, todo, endpoints_dirty>>

DiscExits ==
  /\ DiscIdle /\ agent = "stopping"
  /\ disc' = "exited"
  /\ UNCHANGED <<heard, active_matches, todo, endpoints_dirty, crashed>>

-----------------------------------------------------------------------------
(***************************************************************************)
(* The server's loop and the poller, in deliver_inbound                    *)
(***************************************************************************)

\* Who serves the subscriber of an entity: a reader of the poller, or the loop,
\* because the peer sends to a RELIABLE subscriber over TCP.
Serves(t, e) ==
  IF t = "loop" THEN e.reliability = RELIABLE
  ELSE /\ e.reliability = BEST_EFFORT /\ disc # "reader"
       /\ \E key \in active_matches : key[1] = "SUBSCRIBER" /\ key[2] \in Subscribes(e)

\* The subscriber is found on the bus, and held.
Collect(t, e) ==
  /\ inbound[t] = "idle" /\ running[t]
  /\ refs[e] # {}
  /\ Serves(t, e)
  /\ inbound' = [inbound EXCEPT ![t] = "holding"]
  /\ holding' = [holding EXCEPT ![t] = e]
  /\ refs' = [refs EXCEPT ![e] = @ \cup {t}]
  /\ UNCHANGED <<queue, closed>>

\* enqueue, which drops the oldest message of a full queue.
Enqueue(t) ==
  LET e == holding[t]
  IN /\ inbound[t] = "holding"
     /\ queue' = [queue EXCEPT ![e] = IF @ = Depth THEN Depth ELSE @ + 1]
     /\ inbound' = [inbound EXCEPT ![t] = "release"]
     /\ UNCHANGED <<holding, refs, closed>>

\* The last reference to a subscriber goes: its destructor closes the queue.
Drop(e, who) ==
  /\ refs' = [refs EXCEPT ![e] = @ \ {who}]
  /\ closed' = [closed EXCEPT ![e] = refs'[e] = {}]

\* The reference is given up; whoever gives up the last one joins the worker.
Release(t) ==
  LET e == holding[t]
  IN /\ inbound[t] = "release"
     /\ Drop(e, t)
     /\ inbound' = [inbound EXCEPT ![t] = IF refs'[e] = {} THEN "join" ELSE "idle"]
     /\ holding' = [holding EXCEPT ![t] = IF refs'[e] = {} THEN e ELSE NoEntity]
     /\ UNCHANGED queue

Joined(t) ==
  LET e == holding[t]
  IN /\ inbound[t] = "join" /\ worker[e] = "exited"
     /\ inbound' = [inbound EXCEPT ![t] = "idle"]
     /\ holding' = [holding EXCEPT ![t] = NoEntity]
     /\ UNCHANGED <<refs, queue, closed>>

InboundExits(t) ==
  /\ inbound[t] = "idle" /\ ~running[t]
  /\ inbound' = [inbound EXCEPT ![t] = "exited"]
  /\ UNCHANGED <<holding, refs, queue, closed>>

-----------------------------------------------------------------------------
(***************************************************************************)
(* The worker of a subscriber                                              *)
(***************************************************************************)

\* A member of an object that is not there any more: the process may die of it.
Dangling(used) ==
  /\ dangling' = (dangling \/ used)
  /\ crashed' \in {FALSE, used}

\* A message is taken and the callback entered: that of a Service or a Client is
\* a member of it.
Take(e) ==
  /\ worker[e] = "idle" /\ queue[e] > 0
  /\ queue' = [queue EXCEPT ![e] = @ - 1]
  /\ worker' = [worker EXCEPT ![e] = "busy"]
  /\ Dangling(e.kind # "subscriber" /\ object[e] = "gone")
  /\ UNCHANGED <<endpointVars, response_pubs>>

\* The callback of a subscriber, or of a Client, returns.
CallbackReturns(e) ==
  /\ worker[e] = "busy" /\ e.kind # "service"
  /\ worker' = [worker EXCEPT ![e] = "idle"]
  /\ Dangling(e.kind = "client" /\ object[e] # "alive")
  /\ UNCHANGED <<endpointVars, response_pubs, queue>>

\* handle_request has called the handler and publishes the reply: publisher_for
\* registers a reply topic that is new with the Node's discovery.
Reply(e, topic) ==
  /\ worker[e] = "busy" /\ e.kind = "service"
  /\ worker' = [worker EXCEPT ![e] = "idle"]
  /\ response_pubs' = [response_pubs EXCEPT ![e] = @ \cup {topic}]
  /\ IF topic \in response_pubs[e] THEN UNCHANGED endpointVars
     ELSE add_endpoint(EndpointInfo("PUBLISHER", topic, "RpcReply", "", e.reliability))
  /\ Dangling(object[e] # "alive" \/ (topic \notin response_pubs[e] /\ agent = "gone"))
  /\ UNCHANGED queue

WorkerExits(e) ==
  /\ worker[e] = "idle" /\ closed[e] /\ queue[e] = 0
  /\ worker' = [worker EXCEPT ![e] = "exited"]
  /\ UNCHANGED <<endpointVars, response_pubs, queue, faultVars>>

-----------------------------------------------------------------------------
(***************************************************************************)
(* The destructor: entities_, discovery_, data_plane_                      *)
(***************************************************************************)

\* Mutant of DestroyBegins: the members are declared in another order, and the
\* data plane is destroyed before discovery.
DestroyBeginsSwapped ==
  /\ pc = "up" /\ adding = <<>>
  /\ pc' = "stop_poll" /\ readers' = FALSE /\ plane' = "stopping"
  /\ running' = [running EXCEPT !["poll"] = FALSE]
  /\ UNCHANGED <<entities, adding, identity, agent, disc, endpointVars, inbound, ownVars>>

DestroyBegins ==
  /\ pc = "up" /\ adding = <<>>
  /\ pc' = "entities"
  /\ UNCHANGED <<entities, adding, planeVars, threadVars, endpointVars, ownVars>>

\* The next entity, unless the application keeps it: a Service or a Client gives
\* up its subscriber; if that was the last reference, its worker is joined,
\* otherwise the Service or Client goes without.
DropEntity ==
  LET e == Head(entities)
  IN /\ pc = "entities" /\ entities # <<>>
     /\ IF e \in Kept \/ ~HasSub(e)
        THEN /\ entities' = Tail(entities)
             /\ UNCHANGED <<pc, refs, closed, object>>
        ELSE /\ Drop(e, "owner")
             /\ IF refs'[e] = {}
                THEN /\ pc' = "join" /\ object' = [object EXCEPT ![e] = "dying"]
                     /\ UNCHANGED entities
                ELSE /\ entities' = Tail(entities) /\ object' = [object EXCEPT ![e] = "gone"]
                     /\ UNCHANGED pc
     /\ UNCHANGED <<adding, planeVars, threadVars, endpointVars, worker>>

JoinWorker ==
  LET e == Head(entities)
  IN /\ pc = "join" /\ worker[e] = "exited"
     /\ pc' = "entities" /\ entities' = Tail(entities)
     /\ object' = [object EXCEPT ![e] = "gone"]
     /\ UNCHANGED <<adding, planeVars, threadVars, endpointVars, refs, closed, worker>>

\* Mutant of StopAgent: running_ is not cleared.
StopAgentDeaf ==
  /\ pc = "entities" /\ entities = <<>>
  /\ pc' = "join_agent"
  /\ UNCHANGED <<entities, adding, planeVars, threadVars, endpointVars, ownVars>>

\* DiscoveryAgent::stop.
StopAgent ==
  /\ pc = "entities" /\ entities = <<>>
  /\ pc' = "join_agent"
  /\ agent' = IF agent = "running" THEN "stopping" ELSE agent
  /\ UNCHANGED <<entities, adding, planeVars, disc, endpointVars, running, inbound, ownVars>>

\* Its thread was joined; DataPlane::stop takes the readers away under its lock.
JoinAgent ==
  /\ pc = "join_agent" /\ disc \in {"none", "exited"}
  /\ agent' = "gone"
  /\ pc' = "stop_poll" /\ plane' = "stopping" /\ readers' = FALSE
  /\ running' = [running EXCEPT !["poll"] = FALSE]
  /\ UNCHANGED <<entities, adding, identity, disc, endpointVars, inbound, ownVars>>

\* Then the poller is joined and the server stopped.
StopServer ==
  /\ pc = "stop_poll" /\ inbound["poll"] \in {"none", "exited"}
  /\ pc' = "stop_loop"
  /\ running' = [running EXCEPT !["loop"] = FALSE]
  /\ UNCHANGED <<entities, adding, planeVars, agent, disc, endpointVars, inbound, ownVars>>

\* Mutant of DestroyEnds: the loop of the server is not joined.
DestroyEndsUnjoined ==
  /\ pc = "stop_loop"
  /\ pc' = "gone" /\ plane' = "gone"
  /\ UNCHANGED <<entities, adding, identity, readers, threadVars, endpointVars, ownVars>>

DestroyEnds ==
  /\ pc = "stop_loop" /\ inbound["loop"] \in {"none", "exited"}
  /\ pc' = "gone" /\ plane' = "gone"
  /\ UNCHANGED <<entities, adding, identity, readers, threadVars, endpointVars, ownVars>>

-----------------------------------------------------------------------------
(***************************************************************************)
(* The threads, and what each of them leaves alone                         *)
(***************************************************************************)

MainKeeps ==
  UNCHANGED <<app, heard, active_matches, todo, holding, response_pubs, queue, faultVars>>
DiscKeeps ==
  UNCHANGED <<mainVars, planeVars, agent, local_endpoints, inboundVars, subVars, dangling>>
InboundKeeps ==
  UNCHANGED <<mainVars, planeVars, agentVars, endpointVars, running, object, response_pubs, worker,
              faultVars>>
WorkerKeeps ==
  UNCHANGED <<mainVars, planeVars, agentVars, inboundVars, refs, object, closed>>

Main ==
  /\ MainKeeps
  /\ \/ StartPlane \/ MakeAgent \/ SetIdentity \/ StartAgent \/ Add
     \/ DropEntity \/ JoinWorker \/ StopAgent \/ JoinAgent \/ StopServer \/ DestroyEnds
Disc ==
  /\ DiscKeeps
  /\ \/ TakeDirty \/ rematch_all \/ Handled \/ DiscExits
     \/ (\E ij \in todo : Report(ij)) \/ (\E key \in active_matches : Withdraw(key))
Deliver(t) == InboundKeeps /\ (Enqueue(t) \/ Release(t) \/ Joined(t) \/ InboundExits(t))
Work(e) ==
  /\ WorkerKeeps
  /\ \/ Take(e) \/ CallbackReturns(e) \/ WorkerExits(e)
     \/ \E topic \in ReplyTopics(e) : Reply(e, topic)

\* What nobody is bound to do: create, destroy, announce, time out, send.
Environment ==
  \/ MainKeeps /\ (DestroyBegins \/ \E e \in Entities : Create(e))
  \/ DiscKeeps /\ (handle_announcement \/ reap_dead)
  \/ InboundKeeps /\ \E e \in Entities, t \in Inbound : Collect(t, e)

Next ==
  /\ ~crashed
  /\ \/ Main \/ Disc \/ Environment
     \/ (\E e \in Entities : Work(e)) \/ (\E t \in Inbound : Deliver(t))

Spec == Init /\ [][Next]_vars

MaxEntities == Max({Len(a.creates) : a \in Programs})

\* Threads that have something to do go on, and callbacks return.
Fairness ==
  /\ WF_vars(~crashed /\ Main) /\ WF_vars(~crashed /\ Disc)
  /\ \A n \in 1..MaxEntities : WF_vars(n \in DOMAIN app.creates /\ ~crashed /\ Work(app.creates[n]))
  /\ \A t \in Inbound : WF_vars(~crashed /\ Deliver(t))

FairSpec == Spec /\ Fairness

-----------------------------------------------------------------------------
(***************************************************************************)
(* Properties                                                              *)
(***************************************************************************)

\* The comments in the constructor and on the members: a callback of discovery
\* finds the data plane complete and alive, with its identity and, if start
\* succeeded, its readers; so does a message the server's loop brings in.
PlaneReady ==
  /\ disc \in {"plane", "reader"} =>
       identity /\ plane = "made" /\ (readers \/ inbound["poll"] = "none")
  /\ inbound["loop"] \notin {"none", "idle", "exited"} => plane # "gone"

\* When the destructor has returned, no callback of a subscriber runs any more
\* that the application has not kept, although the last reference may be given
\* up by a thread that is in the middle of a delivery.
NoStrayCallback ==
  pc = "gone" => \A e \in Entities \ Kept : worker[e] \in {"none", "exited"}

\* The destructor returns, whoever has to join whom.
DestructorReturns == pc = "entities" ~> pc = "gone" \/ crashed

\* A reply topic that a Service's worker has registered while discovery ran is
\* matched with the client that asked, as long as the peer is heard of and both
\* ends have the same reliability: its reply has a way to the client.
RepliesRouted ==
  \A topic \in {x.topic : x \in UNION {Range(a.peer) : a \in Programs}} :
    /\ heard /\ \E e \in Entities : topic \in response_pubs[e]
    ~> \/ \E key \in active_matches : key[1] = "PUBLISHER" /\ key[2] = topic
       \/ ~heard \/ pc # "up" \/ crashed

\* README: the lifecycle order prevents callbacks into destroyed state.
NoDangling == ~dangling

\* A data plane that failed to start is warned of, and the Node goes on.
NoNullReaders == ~crashed

\* "Match RPC endpoints by service name": a request channel to the peer is one
\* between a Service and a Client of the same name that discovery has matched.
ServedByName ==
  \A e \in Entities :
    /\ e.kind = "service" /\ DiscIdle /\ heard /\ ~endpoints_dirty /\ adding = <<>>
    /\ \E k \in active_matches : k[1] = "SUBSCRIBER" /\ k[2] = rpc_request_topic(e.name)
    => \E k \in active_matches : k[1] = "SERVICE" /\ k[2] = e.name

\* A Client that discovery has matched with a Service can send it requests.
MatchedCanCall ==
  \A e \in Entities :
    /\ e.kind = "service" /\ DiscIdle /\ heard /\ ~endpoints_dirty /\ adding = <<>>
    /\ \E k \in active_matches : k[1] = "SERVICE" /\ k[2] = e.name
    => \E k \in active_matches : k[1] = "SUBSCRIBER" /\ k[2] = rpc_request_topic(e.name)
=============================================================================
