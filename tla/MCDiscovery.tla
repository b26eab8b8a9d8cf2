---------------------------- MODULE MCDiscovery -----------------------------
(***************************************************************************)
(* Small instances of Discovery for TLC.                                   *)
(***************************************************************************)
EXTENDS Discovery, TLC

CONSTANTS p1, p2

Ep(k, rel) ==
  [kind |-> k, topic |-> "t", type_name |-> "T", response_type_name |-> "", reliability |-> rel]

Pub == Ep("PUBLISHER", RELIABLE)
Sub == Ep("SUBSCRIBER", BEST_EFFORT)
ReliableSub == Ep("SUBSCRIBER", RELIABLE)

\* p1 publishes, p2 subscribes.
OneTopic == [p \in Participants |-> IF p = p1 THEN {Pub} ELSE {Sub}]

\* p2 subscribes with both reliabilities.
MixedReliability == [p \in Participants |-> IF p = p1 THEN {Pub} ELSE {Sub, ReliableSub}]

\* Both sides offer both reliabilities.
BothReliabilities ==
  [p \in Participants |->
     IF p = p1 THEN {Pub, Ep("PUBLISHER", BEST_EFFORT)} ELSE {Sub, ReliableSub}]
=============================================================================
