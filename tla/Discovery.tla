----------------------------- MODULE Discovery ------------------------------
(***************************************************************************)
(* The discovery agents (discovery/src/discovery_agent.cpp) of a group of  *)
(* participants that announce themselves by UDP multicast.  Application    *)
(* threads register endpoints; the background thread of each agent         *)
(* receives at most one datagram, rematches when endpoints were added,     *)
(* announces, reaps the participants it has not heard of, and starts over. *)
(*                                                                         *)
(* A datagram may be lost at any receiver, be delayed, and overtake or     *)
(* arrive behind another.  Time is abstracted: a remote's last_seen may    *)
(* grow older than the liveliness timeout at any moment (stale).           *)
(*                                                                         *)
(* remotes_ is written by the background thread only and active_matches_   *)
(* is its own, so what other threads can observe or disturb is each access *)
(* to local_endpoints_ and endpoints_dirty_: each is a step of its own.    *)
(***************************************************************************)
EXTENDS Matching, FiniteSets, Functions

CONSTANTS
  Participants,   \* the agents, named by their random participant_id
  Endpoints,      \* Endpoints[p]: those the application of p may register
  MaxEndpoints,   \* bound: endpoints registered per participant
  MaxInbox        \* datagrams a receive buffer holds

ASSUME DiscoveryAssumption ==
  /\ MaxEndpoints \in Nat
  /\ MaxInbox \in Nat

VARIABLES
  local_endpoints,   \* the endpoints each agent announces, in order
  endpoints_dirty,   \* set by add_endpoint, consumed by the loop
  remotes,           \* participants heard of: endpoints and staleness
  active_matches,    \* matches reported and not withdrawn, by key
  pc,                \* where each background thread stands
  todo,              \* remotes it has still to match in this iteration
  inbox              \* datagrams in each receive buffer

vars == <<local_endpoints, endpoints_dirty, remotes, active_matches, pc, todo, inbox>>

Empty == [x \in {} |-> x]
Alive(p) == pc[p] \notin {"off", "dead"}

Init ==
  /\ local_endpoints = [p \in Participants |-> <<>>]
  /\ endpoints_dirty = [p \in Participants |-> FALSE]
  /\ remotes = [p \in Participants |-> Empty]
  /\ active_matches = [p \in Participants |-> Empty]
  /\ pc = [p \in Participants |-> "off"]
  /\ todo = [p \in Participants |-> {}]
  /\ inbox = [p \in Participants |-> {}]

-----------------------------------------------------------------------------
\* Mutant of MarkDirty: the background thread is not told.
MarkNothing(p) == UNCHANGED endpoints_dirty

MarkDirty(p) == endpoints_dirty' = [endpoints_dirty EXCEPT ![p] = TRUE]

\* Any thread, before or after start: push_back and set the flag, under mtx_.
add_endpoint(p, e) ==
  /\ pc[p] # "dead"
  /\ Len(local_endpoints[p]) < MaxEndpoints
  /\ local_endpoints' = [local_endpoints EXCEPT ![p] = Append(@, e)]
  /\ MarkDirty(p)
  /\ UNCHANGED <<remotes, active_matches, pc, todo, inbox>>

\* Mutant of Send: nothing is sent.
SendNothing(p, R) == UNCHANGED inbox

\* The datagram reaches the receive buffers of R, the sender's own included;
\* a full buffer drops it.
Send(p, R) ==
  LET ann == [participant_id |-> p, endpoints |-> local_endpoints[p]]
  IN inbox' = [q \in Participants |->
       IF q \in R /\ Alive(q) /\ Cardinality(inbox[q]) < MaxInbox
       THEN inbox[q] \cup {ann} ELSE inbox[q]]

\* start: the thread announces once before it enters its loop.
start(p, R) ==
  /\ pc[p] = "off"
  /\ Send(p, R)
  /\ pc' = [pc EXCEPT ![p] = "recv"]
  /\ UNCHANGED <<local_endpoints, endpoints_dirty, remotes, active_matches, todo>>

\* Mutant of Reported: the matches are computed afresh.
ReportedAfresh(p, q, rs) ==
  [k \in MatchedKeys(local_endpoints[p], q, rs) |-> FirstMatch(local_endpoints[p], q, rs, k)]

\* The matches try_match adds to am for remote q with endpoints rs: those whose
\* key is new, each with its callback on_match.
Reported(p, q, rs) ==
  LET ls == local_endpoints[p]
      am == active_matches[p]
  IN [k \in DOMAIN am \cup MatchedKeys(ls, q, rs) |->
        IF k \in DOMAIN am THEN am[k] ELSE FirstMatch(ls, q, rs, k)]

\* recv yields a datagram.  The agent's own is ignored; any other replaces what
\* was known of its sender, and try_match runs for the sender.
handle_announcement(p, ann) ==
  LET q == ann.participant_id
  IN /\ pc[p] = "recv"
     /\ inbox' = [inbox EXCEPT ![p] = @ \ {ann}]
     /\ pc' = [pc EXCEPT ![p] = "dirty"]
     /\ IF q = p
        THEN UNCHANGED <<remotes, active_matches>>
        ELSE /\ remotes' = [remotes EXCEPT ![p] =
                  [r \in DOMAIN @ \cup {q} |->
                     IF r = q THEN [endpoints |-> ann.endpoints, stale |-> FALSE] ELSE @[r]]]
             /\ active_matches' = [active_matches EXCEPT ![p] = Reported(p, q, ann.endpoints)]
     /\ UNCHANGED <<local_endpoints, endpoints_dirty, todo>>

\* recv times out.
RecvTimeout(p) ==
  /\ pc[p] = "recv"
  /\ inbox[p] = {}
  /\ pc' = [pc EXCEPT ![p] = "dirty"]
  /\ UNCHANGED <<local_endpoints, endpoints_dirty, remotes, active_matches, todo, inbox>>

\* endpoints_dirty_.exchange(false); when it was set rematch_all will go
\* through the known remotes.
ConsumeDirty(p) ==
  /\ pc[p] = "dirty"
  /\ endpoints_dirty' = [endpoints_dirty EXCEPT ![p] = FALSE]
  /\ todo' = [todo EXCEPT ![p] = IF endpoints_dirty[p] THEN DOMAIN remotes[p] ELSE {}]
  /\ pc' = [pc EXCEPT ![p] = "rematch"]
  /\ UNCHANGED <<local_endpoints, remotes, active_matches, inbox>>

\* One round of rematch_all: try_match for one of the remotes.
rematch_all(p, q) ==
  /\ pc[p] = "rematch"
  /\ q \in todo[p]
  /\ active_matches' = [active_matches EXCEPT ![p] = Reported(p, q, remotes[p][q].endpoints)]
  /\ todo' = [todo EXCEPT ![p] = @ \ {q}]
  /\ UNCHANGED <<local_endpoints, endpoints_dirty, remotes, pc, inbox>>

\* The announce interval has elapsed.
announce(p, R) ==
  /\ pc[p] = "rematch"
  /\ todo[p] = {}
  /\ Send(p, R)
  /\ pc' = [pc EXCEPT ![p] = "reap"]
  /\ UNCHANGED <<local_endpoints, endpoints_dirty, remotes, active_matches, todo>>

\* Mutant of Kept: the matches of a dead participant are not withdrawn.
KeptAll(p, dead) == DOMAIN active_matches[p]

\* The matches that are not with a dead participant.
Kept(p, dead) ==
  {k \in DOMAIN active_matches[p] : active_matches[p][k].remote_participant_id \notin dead}

\* Remotes past the liveliness timeout are forgotten and every match with them
\* is withdrawn, each with its callback on_unmatch.  When the announce
\* interval has not elapsed the loop comes here directly.
reap_dead(p) ==
  LET dead == {q \in DOMAIN remotes[p] : remotes[p][q].stale}
  IN /\ pc[p] \in {"rematch", "reap"}
     /\ todo[p] = {}
     /\ remotes' = [remotes EXCEPT ![p] = Restrict(@, DOMAIN @ \ dead)]
     /\ active_matches' = [active_matches EXCEPT ![p] = Restrict(@, Kept(p, dead))]
     /\ pc' = [pc EXCEPT ![p] = "recv"]
     /\ UNCHANGED <<local_endpoints, endpoints_dirty, todo, inbox>>

-----------------------------------------------------------------------------
\* The last announcement received from q is older than the liveliness timeout.
Expire(p, q) ==
  /\ Alive(p)
  /\ q \in DOMAIN remotes[p]
  /\ ~remotes[p][q].stale
  /\ remotes' = [remotes EXCEPT ![p][q] = [endpoints |-> @.endpoints, stale |-> TRUE]]
  /\ UNCHANGED <<local_endpoints, endpoints_dirty, active_matches, pc, todo, inbox>>

\* The process stops or crashes; there is no farewell message.
Halt(p) ==
  /\ Alive(p)
  /\ pc' = [pc EXCEPT ![p] = "dead"]
  /\ UNCHANGED <<local_endpoints, endpoints_dirty, remotes, active_matches, todo, inbox>>

Loop(p) ==
  \/ \E ann \in inbox[p] : handle_announcement(p, ann)
  \/ RecvTimeout(p) \/ ConsumeDirty(p) \/ reap_dead(p)
  \/ \E q \in todo[p] : rematch_all(p, q)
  \/ \E R \in SUBSET Participants : announce(p, R)

Next ==
  \E p \in Participants :
    \/ \E e \in Endpoints[p] : add_endpoint(p, e)
    \/ \E R \in SUBSET Participants : start(p, R)
    \/ Loop(p) \/ Halt(p)
    \/ \E q \in Participants : Expire(p, q)

Spec == Init /\ [][Next]_vars

\* The step announces p and its datagram finds room in the buffer of q.
Reaches(p, q) ==
  /\ Cardinality(inbox[q]) < MaxInbox
  /\ \E R \in SUBSET Participants : q \in R /\ announce(p, R)

\* The thread keeps running and its announce interval elapses again and again;
\* the network is lossy but fair: of the datagrams p keeps sending some reach
\* q, and the buffer is served; a participant that has halted is heard of for
\* the last time, so its last_seen grows old.
Fairness ==
  \A p \in Participants :
    /\ WF_vars(Loop(p))
    /\ SF_vars(\E R \in SUBSET Participants : announce(p, R))
    /\ \A q \in Participants \ {p} :
         /\ []<><<\E R \in SUBSET Participants : announce(p, R)>>_vars
              => []<><<Alive(q) => Reaches(p, q)>>_vars
         /\ SF_vars(\E ann \in inbox[p] : ann.participant_id = q /\ handle_announcement(p, ann))
         /\ WF_vars(pc[q] = "dead" /\ Expire(p, q))

FairSpec == Spec /\ Fairness

-----------------------------------------------------------------------------
(***************************************************************************)
(* Properties                                                              *)
(***************************************************************************)

AllEndpoints == UNION {Endpoints[p] : p \in Participants}

Match ==
  [local : AllEndpoints, remote_participant_id : Participants, remote : AllEndpoints]

Announcement ==
  [participant_id : Participants, endpoints : Seq(AllEndpoints)]

AgentTypeOK(p) ==
  /\ local_endpoints[p] \in Seq(AllEndpoints)
  /\ endpoints_dirty[p] \in BOOLEAN
  /\ DOMAIN remotes[p] \subseteq Participants \ {p}
  /\ \A q \in DOMAIN remotes[p] :
       remotes[p][q].endpoints \in Seq(AllEndpoints) /\ remotes[p][q].stale \in BOOLEAN
  /\ \A k \in DOMAIN active_matches[p] : active_matches[p][k] \in Match
  /\ pc[p] \in {"off", "recv", "dirty", "rematch", "reap", "dead"}

Domains ==
  /\ DOMAIN local_endpoints = Participants /\ DOMAIN endpoints_dirty = Participants
  /\ DOMAIN remotes = Participants /\ DOMAIN active_matches = Participants
  /\ DOMAIN pc = Participants /\ DOMAIN todo = Participants /\ DOMAIN inbox = Participants

\* Every variable keeps its shape; in particular an agent never knows itself
\* as a remote, although it receives its own datagrams.
TypeOK ==
  /\ Domains
  /\ \A p \in Participants : AgentTypeOK(p)
  /\ \A p \in Participants : \A ann \in inbox[p] : ann \in Announcement

\* The match key of every compatible pair p knows of with remote q has a match.
Covered(p, q) ==
  MatchedKeys(local_endpoints[p], q, remotes[p][q].endpoints) \subseteq DOMAIN active_matches[p]

\* No match is missed: when the loop is back at recv and no endpoint was added
\* since endpoints_dirty_ was consumed, the match key of every compatible pair of
\* local and known remote endpoints has been reported, however add_endpoint
\* interleaved with the loop.  Pairs that share a key share the match.
NoMissedMatch ==
  \A p \in Participants : pc[p] = "recv" /\ ~endpoints_dirty[p] =>
    \A q \in DOMAIN remotes[p] : Covered(p, q)

DirtyOK(p) ==
  /\ todo[p] \subseteq DOMAIN remotes[p]
  /\ pc[p] \notin {"rematch", "dead"} => todo[p] = {}
  /\ ~endpoints_dirty[p] => \A q \in DOMAIN remotes[p] \ todo[p] : Covered(p, q)

\* The protocol of the dirty flag: the key of a compatible pair not reported yet
\* is explained by the flag being set or by a remote the running rematch_all
\* has still to visit.
DirtyInv == \A p \in Participants : DirtyOK(p)

\* Endpoint e is among those q has registered.
Registered(e, q) == \E j \in DOMAIN local_endpoints[q] : e = local_endpoints[q][j]

SoundMatch(p, k) ==
  LET m == active_matches[p][k]
      q == m.remote_participant_id
  IN /\ k = match_key(m.local, q, m.remote)
     /\ q \in DOMAIN remotes[p]
     /\ Registered(m.local, p) /\ Registered(m.remote, q)
     /\ Matches(m.local, m.remote)

\* Every reported match is real: it pairs an endpoint registered here with one
\* the remote participant did register, the two match under the topic, type
\* and QoS rules, and the participant is one the agent still knows, whatever
\* datagrams were lost, delayed or reordered.
MatchesSound ==
  \A p \in Participants : \A k \in DOMAIN active_matches[p] : SoundMatch(p, k)

\* The class comment of DiscoveryAgent: matches are told apart by local
\* endpoint, remote id and remote endpoint, so that each pair is reported.
EveryPairReported ==
  \A p \in Participants : pc[p] = "recv" /\ ~endpoints_dirty[p] =>
    \A q \in DOMAIN remotes[p] :
      \A ij \in MatchedPairs(local_endpoints[p], remotes[p][q].endpoints) :
        \E k \in DOMAIN active_matches[p] : active_matches[p][k] =
          [local |-> local_endpoints[p][ij[1]], remote_participant_id |-> q,
           remote |-> remotes[p][q].endpoints[ij[2]]]

\* The QoS design on transports: a RELIABLE pair of publisher and subscriber is
\* carried over TCP, on one host too.  The match that stands for the pair must
\* not be one that the data plane would serve through shared memory.
ReliableOverTcp ==
  \A p \in Participants : pc[p] = "recv" /\ ~endpoints_dirty[p] =>
    \A q \in DOMAIN remotes[p] :
      \A ij \in MatchedPairs(local_endpoints[p], remotes[p][q].endpoints) :
        LET le == local_endpoints[p][ij[1]]
            re == remotes[p][q].endpoints[ij[2]]
        IN pubsub_pair(le, re) /\ Reader(le, re).reliability = RELIABLE =>
             ~use_shm(active_matches[p][match_key(le, q, re)], TRUE)

\* p has matched everything q has to offer.
UpToDate(p, q) ==
  /\ pc[p] = "recv" /\ ~endpoints_dirty[p]
  /\ q \in DOMAIN remotes[p] /\ remotes[p][q].endpoints = local_endpoints[q]

\* The class comment of DataPlane: on one host both ends act.  When two
\* participants are up to date with each other, the end that publishes and the
\* end that subscribes choose the same transport for a match.
RoutesAgree ==
  \A p, q \in Participants : p # q /\ UpToDate(p, q) /\ UpToDate(q, p) =>
    \A k \in DOMAIN active_matches[p] :
      LET m == active_matches[p][k]
          l == match_key(m.remote, p, m.local)
      IN m.remote_participant_id = q /\ l \in DOMAIN active_matches[q] =>
           use_shm(m, TRUE) = use_shm(active_matches[q][l], TRUE)

\* A match, once reported, stays as it is until it is withdrawn, and it is
\* withdrawn only together with every other match of its participant, which
\* the agent then no longer knows.
MatchesStick ==
  [][\A p \in Participants : \A k \in DOMAIN active_matches[p] :
       \/ k \in DOMAIN active_matches'[p] /\ active_matches'[p][k] = active_matches[p][k]
       \/ LET q == active_matches[p][k].remote_participant_id
          IN /\ q \notin DOMAIN remotes'[p]
             /\ \A l \in DOMAIN active_matches'[p] :
                  active_matches'[p][l].remote_participant_id # q]_vars

\* Two agents that stay up keep finding each other: every pair of compatible
\* endpoints they registered is reported again and again, or for good.
Discovered ==
  \A p, q \in Participants : p # q =>
    (<>[](Alive(p) /\ Alive(q)) =>
       []<>(MatchedKeys(local_endpoints[p], q, local_endpoints[q])
              \subseteq DOMAIN active_matches[p]))

\* A participant that halts without a word is eventually unmatched by every
\* agent that stays up.
HaltDetected ==
  \A p, q \in Participants :
    pc[q] = "dead" ~>
      \/ ~Alive(p)
      \/ \A k \in DOMAIN active_matches[p] : active_matches[p][k].remote_participant_id # q
=============================================================================
