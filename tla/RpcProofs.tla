----------------------------- MODULE RpcProofs ------------------------------
(***************************************************************************)
(* Proofs about calls: responses reach the call they belong to, and        *)
(* pending_ has exactly the calls that are under way, for any callers,     *)
(* Services and number of calls.                                           *)
(***************************************************************************)
EXTENDS Rpc, TLAPS

\* A leaf that names no prover goes to these two, in this order.
USE SMTT(30), ZenonT(30)

Responses == {Nothing} \cup (Services \X Ids)

Belongs(response, id) == response # Nothing => response[2] = id

\* Replies that carry the response to their own request.
OwnReplies == {r \in [id : Ids, response : Responses] : Belongs(r.response, r.id)}

Busy(c) == call[c].pc # "idle"

\* Calls under way have ids that were given out, each its own.
CallsInv ==
  /\ next_request_id \in 1..(MaxCalls + 1)
  /\ call \in [Callers -> [pc : {"idle", "publish", "wait"}, id : Ids \cup {NoId}]]
  /\ \A c \in Callers : Busy(c) => call[c].id \in Ids /\ call[c].id < next_request_id
  /\ \A c, d \in Callers : Busy(c) /\ Busy(d) /\ call[c].id = call[d].id => c = d
  /\ PendingExact

\* A response is with its own id wherever it is: in the Service's worker, in the
\* queue of replies, in the Client's worker, in the Pending, and returned.
RepliesInv ==
  /\ requests \in [Services -> Seq(Ids)]
  /\ worker \in [Services -> OwnReplies \cup {NoReply}]
  /\ replies \in Seq(OwnReplies)
  /\ reader \in OwnReplies \cup {NoReply}
  /\ slot \in [Ids -> [done : BOOLEAN, response : Responses]]
  /\ \A id \in Ids : Belongs(slot[id].response, id)
  /\ result \in [Ids -> SUBSET Responses]
  /\ OwnReply

RpcInv == CallsInv /\ RepliesInv

-----------------------------------------------------------------------------

\* At first there are no calls.
LEMMA InitRpc == Init => RpcInv
<1> SUFFICES ASSUME Init PROVE RpcInv
  OBVIOUS
<1>1. CallsInv
  BY RpcAssumption DEF Init, CallsInv, Busy, PendingExact, Ids, NoId
<1>2. RepliesInv
  BY DEF Init, RepliesInv, Responses, Belongs, Empty, OwnReply
<1> QED
  BY <1>1, <1>2 DEF RpcInv

\* A new call gets an id that no other has.
LEMMA RegisterKeeps ==
  ASSUME CallsInv, NEW c \in Callers, Register(c)
  PROVE  CallsInv'
<1> DEFINE id == next_request_id
<1>1. id \in Ids /\ id' = id + 1 /\ id + 1 \in 1..(MaxCalls + 1) /\ id \in Nat
  BY RpcAssumption DEF Register, CallsInv, Ids
<1>2. call' = [call EXCEPT ![c] = [pc |-> "publish", id |-> id]] /\ ~Busy(c)
  BY DEF Register, Busy
<1>3. call' \in [Callers -> [pc : {"idle", "publish", "wait"}, id : Ids \cup {NoId}]]
  BY <1>1, <1>2 DEF CallsInv
<1>4. \A d \in Callers : IF d = c THEN call'[d].pc = "publish" /\ call'[d].id = id
                        ELSE call'[d] = call[d]
  BY <1>2 DEF CallsInv
<1>5. \A d \in Callers : Busy(d)' => call'[d].id \in Ids /\ call'[d].id < id + 1
  BY <1>1, <1>4, RpcAssumption DEF CallsInv, Busy, Ids
<1>6. \A d, e \in Callers : Busy(d)' /\ Busy(e)' /\ call'[d].id = call'[e].id => d = e
  BY <1>1, <1>4, RpcAssumption DEF CallsInv, Busy, Ids
<1>7. {call'[d].id : d \in {x \in Callers : call'[x].pc # "idle"}}
        = {call[d].id : d \in {x \in Callers : call[x].pc # "idle"}} \cup {id}
  BY <1>2, <1>4 DEF Busy
<1>8. PendingExact'
  BY <1>7 DEF PendingExact, CallsInv, Register
<1> QED
  BY <1>1, <1>3, <1>5, <1>6, <1>8 DEF CallsInv

\* A call that ends takes its own entry with it and no other.
LEMMA ReturnKeeps ==
  ASSUME CallsInv, NEW c \in Callers, Busy(c),
         pending' = pending \ {call[c].id},
         call' = [call EXCEPT ![c] = [pc |-> "idle", id |-> NoId]],
         next_request_id' = next_request_id
  PROVE  CallsInv'
<1>1. call' \in [Callers -> [pc : {"idle", "publish", "wait"}, id : Ids \cup {NoId}]]
  BY DEF CallsInv
<1>2. \A d \in Callers : IF d = c THEN call'[d].pc = "idle" ELSE call'[d] = call[d]
  BY DEF CallsInv
<1>3. \A d \in Callers : Busy(d)' <=> Busy(d) /\ d # c
  BY <1>2 DEF Busy
<1>4. {call'[d].id : d \in {x \in Callers : call'[x].pc # "idle"}}
        = {call[d].id : d \in {x \in Callers : call[x].pc # "idle"}} \ {call[c].id}
  BY <1>2 DEF CallsInv, Busy
<1>5. PendingExact'
  BY Zenon, <1>4 DEF PendingExact, CallsInv
<1> QED
  BY <1>1, <1>2, <1>3, <1>5 DEF CallsInv

\* Publishing the request changes no id.
LEMMA PublishKeepsCalls ==
  ASSUME CallsInv, NEW c \in Callers, PublishRequest(c)
  PROVE  CallsInv'
<1>1. call' = [call EXCEPT ![c].pc = "wait"] /\ call[c].pc = "publish"
        /\ pending' = pending /\ next_request_id' = next_request_id
  BY DEF PublishRequest
<1>2. call' \in [Callers -> [pc : {"idle", "publish", "wait"}, id : Ids \cup {NoId}]]
  BY <1>1 DEF CallsInv
<1>3. \A d \in Callers : call'[d].id = call[d].id /\ (Busy(d)' <=> Busy(d))
  BY <1>1 DEF CallsInv, Busy
<1>4. {call'[d].id : d \in {x \in Callers : call'[x].pc # "idle"}}
        = {call[d].id : d \in {x \in Callers : call[x].pc # "idle"}}
  BY <1>3 DEF Busy
<1>5. PendingExact'
  BY <1>1, <1>4 DEF PendingExact, CallsInv
<1> QED
  BY <1>1, <1>2, <1>3, <1>5 DEF CallsInv

\* The other steps leave the calls alone.
LEMMA CallsKeep ==
  ASSUME CallsInv, UNCHANGED <<next_request_id, call, pending>>
  PROVE  CallsInv'
BY DEF CallsInv, Busy, PendingExact

-----------------------------------------------------------------------------

\* The request goes to the Services' queues.
LEMMA PublishKeepsReplies ==
  ASSUME RpcInv, NEW c \in Callers, PublishRequest(c)
  PROVE  RepliesInv'
<1>1. call[c].id \in Ids
  BY DEF RpcInv, CallsInv, Busy, PublishRequest
<1>2. requests' \in [Services -> Seq(Ids)]
  <2>1. PICK R \in Reached :
          requests' = [s \in Services |->
                        IF service[s] \in {"alive", "destroying"} /\ (s \in Remote => s \in R)
                        THEN Append(requests[s], call[c].id) ELSE requests[s]]
    BY DEF PublishRequest
  <2>2. \A s \in Services : requests[s] \in Seq(Ids)
    BY DEF RpcInv, RepliesInv
  <2>3. \A s \in Services : Append(requests[s], call[c].id) \in Seq(Ids)
    BY <1>1, <2>2
  <2> QED
    BY <2>1, <2>2, <2>3
<1>3. UNCHANGED <<worker, replies, reader, slot, result>>
  BY DEF PublishRequest, clientVars
<1> QED
  BY <1>2, <1>3 DEF RpcInv, RepliesInv, OwnReply

\* A call returns nothing, or what its own Pending has.
LEMMA ReturnKeepsReplies ==
  ASSUME RepliesInv, NEW id \in Ids, NEW response \in Responses, Belongs(response, id),
         result' = [result EXCEPT ![id] = {response}],
         UNCHANGED <<requests, worker, replies, reader, slot>>
  PROVE  RepliesInv'
<1>1. result' \in [Ids -> SUBSET Responses]
  BY DEF RepliesInv
<1>2. \A x \in Ids : result'[x] = IF x = id THEN {response} ELSE result[x]
  BY DEF RepliesInv
<1>3. OwnReply'
  BY <1>2 DEF OwnReply, RepliesInv, Belongs
<1> QED
  BY <1>1, <1>3 DEF RepliesInv

\* The Client's worker keeps a reply together.
LEMMA FindKeepsReplies ==
  ASSUME RepliesInv, FindPending
  PROVE  RepliesInv'
<1>1. replies \in Seq(OwnReplies) /\ replies # <<>>
  BY DEF RepliesInv, FindPending
<1>2. Head(replies) \in OwnReplies /\ Tail(replies) \in Seq(OwnReplies)
  BY <1>1
<1>3. reader' \in OwnReplies \cup {NoReply} /\ replies' \in Seq(OwnReplies)
  BY <1>2 DEF FindPending, Found
<1>4. UNCHANGED <<requests, worker, slot, result>>
  BY DEF FindPending, callVars, serviceVars
<1> QED
  BY <1>3, <1>4 DEF RepliesInv, OwnReply

\* The response is stored in the Pending of its own id.
LEMMA CompleteKeepsReplies ==
  ASSUME RepliesInv, Complete
  PROVE  RepliesInv'
<1>1. reader \in OwnReplies
  BY DEF RepliesInv, Complete
<1>2. reader.id \in Ids /\ reader.response \in Responses /\ Belongs(reader.response, reader.id)
  BY <1>1 DEF OwnReplies
<1>3. slot' \in [Ids -> [done : BOOLEAN, response : Responses]]
  BY <1>2 DEF RepliesInv, Complete
<1>4. \A id \in Ids : slot'[id] = IF id = reader.id
                                  THEN [done |-> TRUE, response |-> reader.response]
                                  ELSE slot[id]
  BY DEF RepliesInv, Complete
<1>5. \A id \in Ids : Belongs(slot'[id].response, id)
  BY <1>2, <1>4 DEF RepliesInv
<1>6. UNCHANGED <<requests, worker, replies, result>> /\ reader' = NoReply
  BY DEF Complete, callVars, serviceVars
<1> QED
  BY <1>3, <1>5, <1>6 DEF RepliesInv, OwnReply

\* A Service answers with the id of the request.
LEMMA HandleKeepsReplies ==
  ASSUME RepliesInv, NEW s \in Services, handle_request(s)
  PROVE  RepliesInv'
<1>1. requests[s] \in Seq(Ids) /\ requests[s] # <<>>
  BY DEF RepliesInv, handle_request
<1>2. Head(requests[s]) \in Ids /\ Tail(requests[s]) \in Seq(Ids)
  BY <1>1
<1>3. Answers(s, Head(requests[s])) \subseteq OwnReplies
  BY <1>2 DEF Answers, OwnReplies, Reply, Responses, Belongs
<1>4. requests' \in [Services -> Seq(Ids)]
  BY <1>2 DEF RepliesInv, handle_request
<1>5. worker' \in [Services -> OwnReplies \cup {NoReply}]
  BY <1>3 DEF RepliesInv, handle_request
<1>6. UNCHANGED <<replies, reader, slot, result>>
  BY DEF handle_request, callVars, clientVars
<1> QED
  BY <1>4, <1>5, <1>6 DEF RepliesInv, OwnReply

\* A reply is published as it is.
LEMMA ReplyKeepsReplies ==
  ASSUME RepliesInv, NEW s \in Services, PublishReply(s)
  PROVE  RepliesInv'
<1>1. worker[s] \in OwnReplies
  BY DEF RepliesInv, PublishReply
<1>2. Append(replies, worker[s]) \in Seq(OwnReplies)
  BY <1>1 DEF RepliesInv
<1>3. replies' \in Seq(OwnReplies)
  BY <1>2 DEF RepliesInv, PublishReply
<1>4. worker' \in [Services -> OwnReplies \cup {NoReply}]
  BY DEF RepliesInv, PublishReply
<1>5. UNCHANGED <<requests, reader, slot, result>>
  BY DEF PublishReply, callVars
<1> QED
  BY <1>3, <1>4, <1>5 DEF RepliesInv, OwnReply

\* The other steps leave requests and replies alone.
LEMMA RepliesKeep ==
  ASSUME RepliesInv, UNCHANGED <<requests, worker, replies, reader, slot, result>>
  PROVE  RepliesInv'
BY DEF RepliesInv, OwnReply

-----------------------------------------------------------------------------

\* Every step keeps the invariant.
LEMMA NextRpc ==
  ASSUME RpcInv, [Next]_vars
  PROVE  RpcInv'
<1> USE DEF RpcInv
<1>1. ASSUME NEW c \in Callers, Register(c) PROVE RpcInv'
  BY Zenon, <1>1, RegisterKeeps, RepliesKeep DEF Register, clientVars, serviceVars
<1>2. ASSUME NEW c \in Callers, PublishRequest(c) PROVE RpcInv'
  BY <1>2, PublishKeepsCalls, PublishKeepsReplies
<1>3. ASSUME NEW c \in Callers, PublishFails(c) PROVE RpcInv'
  <2>1. Busy(c) /\ call[c].id \in Ids
    BY <1>3 DEF PublishFails, Busy, CallsInv
  <2>2. CallsInv'
    BY Zenon, <1>3, <2>1, ReturnKeeps DEF PublishFails, erase_pending
  <2>3. Nothing \in Responses /\ Belongs(Nothing, call[c].id)
    BY DEF Responses, Belongs
  <2>4. RepliesInv'
    BY Zenon, <1>3, <2>1, <2>3, ReturnKeepsReplies DEF PublishFails, clientVars, serviceVars
  <2> QED
    BY <2>2, <2>4
<1>4. ASSUME NEW c \in Callers, Wake(c) PROVE RpcInv'
  <2>1. Busy(c) /\ call[c].id \in Ids
    BY <1>4 DEF Wake, Busy, CallsInv
  <2>2. CallsInv'
    BY Zenon, <1>4, <2>1, ReturnKeeps DEF Wake, erase_pending
  <2>3. slot[call[c].id].response \in Responses /\ Belongs(slot[call[c].id].response, call[c].id)
    BY <2>1 DEF RepliesInv
  <2>4. RepliesInv'
    BY ZenonT(30), <1>4, <2>1, <2>3, ReturnKeepsReplies DEF Wake, clientVars, serviceVars
  <2> QED
    BY <2>2, <2>4
<1>5. CASE FindPending
  BY <1>5, FindKeepsReplies, CallsKeep DEF FindPending, callVars
<1>6. CASE Complete
  BY <1>6, CompleteKeepsReplies, CallsKeep DEF Complete, callVars
<1>7. CASE DestroyClient
  BY <1>7, RepliesKeep, CallsKeep DEF DestroyClient, callVars, serviceVars
<1>8. ASSUME NEW s \in Services, handle_request(s) PROVE RpcInv'
  BY Zenon, <1>8, HandleKeepsReplies, CallsKeep DEF handle_request, callVars
<1>9. ASSUME NEW s \in Services, PublishReply(s) PROVE RpcInv'
  BY ZenonT(30), <1>9, ReplyKeepsReplies, CallsKeep DEF PublishReply, callVars
<1>10. ASSUME NEW s \in Services, Match(s) \/ DestroyService(s) PROVE RpcInv'
  BY <1>10, RepliesKeep, CallsKeep DEF Match, DestroyService, callVars, clientVars
<1>11. CASE UNCHANGED vars
  BY <1>11, RepliesKeep, CallsKeep DEF vars, callVars, clientVars, serviceVars
<1> QED
  BY <1>1, <1>2, <1>3, <1>4, <1>5, <1>6, <1>7, <1>8, <1>9, <1>10, <1>11 DEF Next

\* Whatever the callers, the Services and the order and loss of messages, call
\* returns only the response to its own request: handle_reply stores it in the
\* Pending of the id that it carries, and ids are never given out twice.
THEOREM OwnReplyHolds == Spec => []OwnReply
<1>1. RpcInv => OwnReply
  BY DEF RpcInv, RepliesInv
<1> QED
  BY <1>1, InitRpc, NextRpc, PTL DEF Spec

\* pending_ always has the entries of the calls under way and no other, so that
\* timeouts and late replies never leave or take an entry.
THEOREM PendingExactHolds == Spec => []PendingExact
<1>1. RpcInv => PendingExact
  BY DEF RpcInv, CallsInv
<1> QED
  BY <1>1, InitRpc, NextRpc, PTL DEF Spec
=============================================================================
