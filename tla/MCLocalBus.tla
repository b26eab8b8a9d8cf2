----------------------------- MODULE MCLocalBus -----------------------------
(***************************************************************************)
(* Subscribers and publishers of LocalBus for TLC.                         *)
(***************************************************************************)
EXTENDS LocalBus, TLC

CONSTANTS s1, s2, t1, t2, n1

\* Two Subscribers of one type: one that keeps the last message, one that
\* keeps all.
OneType == (s1 :> "A") @@ (s2 :> "A")
LastAndAll == (s1 :> "KEEP_LAST") @@ (s2 :> "KEEP_ALL")
LastOne == (s1 :> 1) @@ (s2 :> 16)
PublishA == (t1 :> "A") @@ (t2 :> "A")

\* A depth of zero.
LastZero == (s1 :> 0) @@ (s2 :> 0)

\* Subscribers and publishers that disagree about the type of the topic.
TwoTypes == (s1 :> "A") @@ (s2 :> "B")
PublishAB == (t1 :> "A") @@ (t2 :> "B")
=============================================================================
