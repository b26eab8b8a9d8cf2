------------------------------ MODULE Matching ------------------------------
(***************************************************************************)
(* The pure rules on which discovery and the data plane agree: which       *)
(* endpoints match (discovery/src/endpoint_matcher.cpp, common/qos.h),     *)
(* under which key a match is remembered, and which transport serves it    *)
(* (core/src/data_plane.cpp).                                              *)
(*                                                                         *)
(* An endpoint is a record of the fields of EndpointInfo.  A match is a    *)
(* record of the fields of MatchInfo that the rules look at.               *)
(***************************************************************************)
EXTENDS Naturals, Sequences

\* Qos::Reliability
BEST_EFFORT == 0
RELIABLE == 1

\* Requested <= Offered
compatible(offered_writer, requested_reader) == offered_writer >= requested_reader

pubsub_pair(le, re) ==
  <<le.kind, re.kind>> \in {<<"PUBLISHER", "SUBSCRIBER">>, <<"SUBSCRIBER", "PUBLISHER">>}

rpc_pair(le, re) ==
  <<le.kind, re.kind>> \in {<<"SERVICE", "CLIENT">>, <<"CLIENT", "SERVICE">>}

\* The publisher or service of a pair offers, the other end requests.
Writer(le, re) == IF le.kind \in {"PUBLISHER", "SERVICE"} THEN le ELSE re
Reader(le, re) == IF le.kind \in {"SUBSCRIBER", "CLIENT"} THEN le ELSE re

\* The conditions under which match_endpoints puts out a pair.
Matches(le, re) ==
  /\ pubsub_pair(le, re) \/ rpc_pair(le, re)
  /\ le.topic = re.topic /\ le.type_name = re.type_name
  /\ rpc_pair(le, re) => le.response_type_name = re.response_type_name
  /\ compatible(Writer(le, re).reliability, Reader(le, re).reliability)

\* kind, topic and participant; neither the type nor the reliability.
match_key(le, id, re) == <<le.kind, le.topic, id, re.kind, re.topic>>

\* The index pairs match_endpoints puts out, for local endpoints ls and remote
\* endpoints rs.
MatchedPairs(ls, rs) ==
  {ij \in (DOMAIN ls) \X (DOMAIN rs) : Matches(ls[ij[1]], rs[ij[2]])}

\* The keys of those matches.
MatchedKeys(ls, id, rs) ==
  {match_key(ls[ij[1]], id, rs[ij[2]]) : ij \in MatchedPairs(ls, rs)}

\* The nested loops put out the pairs in this order, and the first match of a
\* key is the one that is kept.
Before(ij, kl) == ij[1] < kl[1] \/ (ij[1] = kl[1] /\ ij[2] <= kl[2])

FirstMatch(ls, id, rs, key) ==
  LET same == {ij \in MatchedPairs(ls, rs) : match_key(ls[ij[1]], id, rs[ij[2]]) = key}
      ij == CHOOSE p \in same : \A q \in same : Before(p, q)
  IN [local |-> ls[ij[1]], remote_participant_id |-> id, remote |-> rs[ij[2]]]

\* SHM only for a subscriber on the same host that asked for BEST_EFFORT.
use_shm(m, same_host) ==
  same_host /\ Reader(m.local, m.remote).reliability = BEST_EFFORT
=============================================================================
