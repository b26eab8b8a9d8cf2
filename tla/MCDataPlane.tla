---------------------------- MODULE MCDataPlane -----------------------------
(***************************************************************************)
(* Small instances of DataPlane for TLC.                                   *)
(***************************************************************************)
EXTENDS DataPlane, TLC

CONSTANTS p1, p2, p3

Ep(k, t, rel) ==
  [kind |-> k, topic |-> t, type_name |-> "T", response_type_name |-> "", reliability |-> rel]

Pub(t) == Ep("PUBLISHER", t, RELIABLE)
Sub(t, rel) == Ep("SUBSCRIBER", t, rel)
M(le, id, re) == [local |-> le, remote_participant_id |-> id, remote |-> re]

A == <<"a">>
B == <<"b">>
ADotB == <<"a", ".", "b">>
ALowB == <<"a", "_", "b">>

\* One process whose publishers are matched over SHM and over TCP, by two
\* remote participants.
Tables == [x \in {p1} |->
  {M(Pub(A), p2, Sub(A, BEST_EFFORT)), M(Pub(A), p3, Sub(A, BEST_EFFORT)),
   M(Pub(A), p3, Sub(A, RELIABLE)),
   M(Pub(B), p3, Sub(B, RELIABLE))}]

\* p1 publishes and p2 subscribes on the topics of T, over SHM.
PubSub(T) == [x \in {p1, p2} |->
  IF x = p1 THEN {M(Pub(t), p2, Sub(t, BEST_EFFORT)) : t \in T}
  ELSE {M(Sub(t, BEST_EFFORT), p1, Pub(t)) : t \in T}]

\* The two ends of one match; p2 also subscribes to a topic of p1 with the same
\* segment name.
TwoEnds == [x \in {p1, p2} |->
  PubSub({ADotB})[x] \cup
  IF x = p1 THEN {}
  ELSE {M(Sub(ALowB, BEST_EFFORT), p1, Pub(ALowB))}]

OneTopic == PubSub({A})
Lookalikes == PubSub({ADotB, ALowB})

\* p1 publishes for p2 and p3.
TwoRemotes == [x \in {p1} |->
  {M(Pub(A), p2, Sub(A, BEST_EFFORT)), M(Pub(A), p3, Sub(A, BEST_EFFORT))}]

OneHost == {p1, p2, p3} \X {p1, p2, p3}
\* p2 runs with enable_shm = false.
ShmOffAtP2 == {p1, p3} \X {p1, p2, p3}
=============================================================================
