-------------------------------- MODULE Rpc ---------------------------------
(***************************************************************************)
(* Calls over Pub/Sub: a Client (core/include/core/client.h) with several  *)
(* threads in call, and the Services of its name                           *)
(* (core/include/core/service.h), in its own Node or in other ones.        *)
(*                                                                         *)
(* Topics carry requests and replies as LocalBus and the data plane do:    *)
(* each subscriber has a queue and a worker; a publish to another Node is  *)
(* lost as long as discovery has not matched the endpoints, and may be     *)
(* lost later.  The time a call waits is left to chance.                   *)
(***************************************************************************)
EXTENDS Naturals, SequencesExt

CONSTANTS
  Callers,    \* threads that use the Client
  Services,   \* Services with its service name
  Remote,     \* those of other Nodes
  MaxCalls,   \* bound: calls
  Lasting,    \* those that outlive the Client
  Lossy,      \* those whose messages may be lost between the Nodes
  Patient     \* callers whose timeout is longer than any answer takes

ASSUME RpcAssumption == MaxCalls \in Nat

VARIABLES
  next_request_id,
  call,         \* where each caller stands, and with which request
  pending,      \* keys of pending_
  slot,         \* the Pending of each request: done and response
  result,       \* history: what the call with each id returned
  replies,      \* queue of reply_sub_
  reader,       \* its worker: idle, or with the Pending it has found
  client,       \* life of the Client: "alive", "destroying", "joining", "gone"
  requests,     \* queue of each Service's request_sub_
  worker,       \* its worker: idle, or with the reply it is about to publish
  route,        \* its publisher of replies: "none", "advertised" or "matched"
  service,      \* life of each Service
  dangling      \* a worker has used members that were already destroyed

callVars == <<next_request_id, call, pending, result>>
clientVars == <<replies, reader, client>>
serviceVars == <<requests, worker, route, service>>
vars == <<callVars, slot, clientVars, serviceVars, dangling>>

Ids == 1..MaxCalls
NoId == 0
Nothing == <<>>                       \* the empty optional
Reply(id, response) == [id |-> id, response |-> response]
NoReply == Reply(NoId, Nothing)
Empty == [done |-> FALSE, response |-> Nothing]

Init ==
  /\ next_request_id = 1
  /\ call = [c \in Callers |-> [pc |-> "idle", id |-> NoId]]
  /\ pending = {}
  /\ slot = [id \in Ids |-> Empty]
  /\ result = [id \in Ids |-> {}]
  /\ replies = <<>> /\ reader = NoReply /\ client = "alive"
  /\ requests = [s \in Services |-> <<>>]
  /\ worker = [s \in Services |-> NoReply]
  /\ route = [s \in Services |-> "none"]
  /\ service = [s \in Services |-> "alive"]
  /\ dangling = FALSE

-----------------------------------------------------------------------------
(***************************************************************************)
(* Client::call                                                            *)
(***************************************************************************)

\* A new id, and its entry in pending_.
Register(c) ==
  /\ call[c].pc = "idle" /\ client = "alive"
  /\ next_request_id <= MaxCalls
  /\ call' = [call EXCEPT ![c] = [pc |-> "publish", id |-> next_request_id]]
  /\ pending' = pending \cup {next_request_id}
  /\ next_request_id' = next_request_id + 1
  /\ UNCHANGED <<result, slot, clientVars, serviceVars, dangling>>

\* Services a message between Nodes gets through to.
Reached == {R \in SUBSET Remote : Remote \ Lossy \subseteq R}

\* The request is published to the Services that there are.
PublishRequest(c) ==
  /\ call[c].pc = "publish"
  /\ call' = [call EXCEPT ![c].pc = "wait"]
  /\ \E R \in Reached :
       requests' = [s \in Services |->
                      IF service[s] \in {"alive", "destroying"} /\ (s \in Remote => s \in R)
                      THEN Append(requests[s], call[c].id) ELSE requests[s]]
  /\ UNCHANGED <<next_request_id, pending, result, slot, clientVars, worker, route, service,
                 dangling>>

\* Mutant of erase_pending: the entry of a call that timed out stays.
erase_pendingLate(id) == pending' = IF slot[id].done THEN pending \ {id} ELSE pending

erase_pending(id) == pending' = pending \ {id}

\* The request cannot be serialized.
PublishFails(c) ==
  /\ call[c].pc = "publish"
  /\ erase_pending(call[c].id)
  /\ result' = [result EXCEPT ![call[c].id] = {Nothing}]
  /\ call' = [call EXCEPT ![c] = [pc |-> "idle", id |-> NoId]]
  /\ UNCHANGED <<next_request_id, slot, clientVars, serviceVars, dangling>>

\* The wait ends, by a reply or the timeout; the entry is erased, and the
\* response returned, all with the Pending's mutex held.
Wake(c) ==
  LET id == call[c].id
  IN /\ call[c].pc = "wait"
     /\ slot[id].done \/ c \notin Patient
     /\ erase_pending(id)
     /\ result' = [result EXCEPT ![id] = {slot[id].response}]
     /\ call' = [call EXCEPT ![c] = [pc |-> "idle", id |-> NoId]]
     /\ UNCHANGED <<next_request_id, slot, clientVars, serviceVars, dangling>>

-----------------------------------------------------------------------------
(***************************************************************************)
(* Client::handle_reply, on the worker of reply_sub_                       *)
(***************************************************************************)

\* Mutant of Found: the oldest entry is taken for the one that is meant.
FoundOldest(reply) ==
  IF pending = {} THEN NoReply
  ELSE [reply EXCEPT !.id = CHOOSE id \in pending : \A x \in pending : id <= x]

\* The entry a reply belongs to; without one it is late, and ignored.
Found(reply) == IF reply.id \in pending THEN reply ELSE NoReply

\* The lookup uses pending_ and its mutex.
FindPending ==
  /\ reader = NoReply /\ replies # <<>> /\ client # "gone"
  /\ replies' = Tail(replies)
  /\ reader' = Found(Head(replies))
  /\ dangling' = (client # "alive")
  /\ UNCHANGED <<callVars, slot, client, serviceVars>>

\* The response is stored, and the caller notified.
Complete ==
  /\ reader # NoReply
  /\ slot' = [slot EXCEPT ![reader.id] = [done |-> TRUE, response |-> reader.response]]
  /\ reader' = NoReply
  /\ UNCHANGED <<callVars, replies, client, serviceVars, dangling>>

-----------------------------------------------------------------------------
(***************************************************************************)
(* Service::handle_request, on the worker of request_sub_                  *)
(***************************************************************************)

\* publisher_for: the publisher of a reply topic is created with the first
\* request from it; a local one finds the Client's subscriber on the bus.
publisher_for(s) ==
  route' = [route EXCEPT ![s] = IF @ # "none" THEN @
                                ELSE IF s \in Remote THEN "advertised" ELSE "matched"]

\* Mutant of Answers: an exception of the handler is not answered.
AnswersThrown(s, id) == {Reply(id, <<s, id>>), NoReply}

\* The handler answers, or it throws, or something cannot be parsed or
\* serialized, and the reply is an error, an empty response to the caller.
Answers(s, id) == {Reply(id, <<s, id>>), Reply(id, Nothing)}

handle_request(s) ==
  /\ worker[s] = NoReply /\ requests[s] # <<>> /\ service[s] # "gone"
  /\ requests' = [requests EXCEPT ![s] = Tail(@)]
  /\ \E reply \in Answers(s, Head(requests[s])) : worker' = [worker EXCEPT ![s] = reply]
  /\ publisher_for(s)
  /\ dangling' = (service[s] # "alive")
  /\ UNCHANGED <<callVars, slot, clientVars, service>>

\* The reply is published: a remote Client gets it once its subscriber is
\* matched.
PublishReply(s) ==
  /\ worker[s] # NoReply
  /\ worker' = [worker EXCEPT ![s] = NoReply]
  /\ \E R \in Reached :
       replies' = IF /\ route[s] = "matched" /\ client \in {"alive", "destroying"}
                     /\ s \in Remote => s \in R
                  THEN Append(replies, worker[s]) ELSE replies
  /\ UNCHANGED <<callVars, slot, reader, client, requests, route, service, dangling>>

\* Discovery matches the publisher of replies with the Client's subscriber.
Match(s) ==
  /\ route[s] = "advertised"
  /\ route' = [route EXCEPT ![s] = "matched"]
  /\ UNCHANGED <<callVars, slot, clientVars, requests, worker, service, dangling>>

-----------------------------------------------------------------------------
(***************************************************************************)
(* Destructors.  Members go in the reverse order of their declaration:     *)
(* pending_ and its mutex, or response_pubs_ and mtx_, before the          *)
(* subscriber, whose destructor closes its queue and joins its worker,     *)
(* which still drains the queue.                                           *)
(***************************************************************************)

DestroyClient ==
  /\ \A c \in Callers : call[c].pc = "idle"
  /\ \/ client = "alive" /\ client' = "destroying"
     \/ client = "destroying" /\ client' = "joining"
     \/ client = "joining" /\ replies = <<>> /\ reader = NoReply /\ client' = "gone"
  /\ UNCHANGED <<callVars, slot, replies, reader, serviceVars, dangling>>

DestroyService(s) ==
  /\ s \notin Lasting
  /\ \/ service[s] = "alive" /\ service' = [service EXCEPT ![s] = "destroying"]
     \/ service[s] = "destroying" /\ service' = [service EXCEPT ![s] = "joining"]
     \/ /\ service[s] = "joining" /\ requests[s] = <<>> /\ worker[s] = NoReply
        /\ service' = [service EXCEPT ![s] = "gone"]
  /\ UNCHANGED <<callVars, slot, clientVars, requests, worker, route, dangling>>

-----------------------------------------------------------------------------
Next ==
  /\ ~dangling
  /\ \/ \E c \in Callers : Register(c) \/ PublishRequest(c) \/ PublishFails(c) \/ Wake(c)
     \/ FindPending \/ Complete \/ DestroyClient
     \/ \E s \in Services :
          handle_request(s) \/ PublishReply(s) \/ Match(s) \/ DestroyService(s)

Spec == Init /\ [][Next]_vars

\* Workers and callers go on, handlers return, waits end, and discovery matches
\* what is advertised.
Fairness ==
  /\ WF_vars(~dangling /\ (FindPending \/ Complete))
  /\ \A c \in Callers : WF_vars(~dangling /\ (PublishRequest(c) \/ Wake(c)))
  /\ \A s \in Services :
       /\ WF_vars(~dangling /\ (handle_request(s) \/ PublishReply(s)))
       /\ WF_vars(~dangling /\ Match(s))

FairSpec == Spec /\ Fairness

-----------------------------------------------------------------------------
(***************************************************************************)
(* Properties                                                              *)
(***************************************************************************)

\* A response is returned to the call whose request it answers, however many
\* calls and Services there are and however late the replies come.
OwnReply ==
  \A id \in Ids : \A r \in result[id] : r # Nothing => r[2] = id

\* pending_ has an entry for every call that is under way and for no other: a
\* timeout leaves nothing behind, and no call loses its entry to another one.
PendingExact ==
  pending = {call[c].id : c \in {x \in Callers : call[x].pc # "idle"}}

\* A call that is made when the replies of a Service have a way back, and that
\* waits long enough, is completed, be it by an error, unless the request could
\* not be serialized or the Service is destroyed.
Answered ==
  \A s \in Services \ Lossy : \A id \in Ids :
    (route[s] = "matched" /\ \E c \in Patient : call[c] = [pc |-> "publish", id |-> id])
      ~> slot[id].done \/ result[id] # {} \/ service[s] # "alive" \/ dangling

\* README: the lifecycle order prevents callbacks into destroyed state.
NoCallbackIntoDestroyed == ~dangling
=============================================================================
