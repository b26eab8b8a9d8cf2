-------------------------- MODULE DiscoveryProofs ---------------------------
(***************************************************************************)
(* Discovery, for every set of participants, of endpoints and every bound: *)
(* the protocol of the dirty flag misses no match, and every match that is *)
(* reported is real.                                                       *)
(***************************************************************************)
EXTENDS Discovery, WellFoundedInduction, TLAPS

\* A leaf that names no prover goes to these two, in this order.
USE SMTT(30), ZenonT(30)

\* A non-empty set of naturals has a least element.
LEMMA LeastNat ==
  ASSUME NEW T, T \subseteq Nat, T # {}
  PROVE  \E x \in T : \A y \in T : x <= y
<1> DEFINE LT == {ss \in Nat \X Nat : ss[1] < ss[2]}
<1>1. LT = OpToRel(<, Nat)
  BY Zenon DEF OpToRel
<1>2. IsWellFoundedOn(LT, Nat)
  BY Zenon, <1>1, NatLessThanWellFounded
<1>3. PICK x \in T : \A y \in T : ~(<<y, x>> \in LT)
  <2> HIDE DEF LT
  <2> QED BY <1>2, WFMin, Zenon
<1>4. \A y \in T : y < x => <<y, x>> \in LT
  OBVIOUS
<1>5. \A y \in T : ~(y < x)
  <2> HIDE DEF LT
  <2> QED BY Zenon, <1>3, <1>4
<1>6. \A y \in T : x \in Nat /\ y \in Nat
  OBVIOUS
<1>7. \A y \in T : x <= y
  BY <1>5, <1>6
<1> QED
  BY Zenon, <1>7

\* The nested loops of match_endpoints have a first pair.
LEMMA FirstPair ==
  ASSUME NEW S, S \subseteq Nat \X Nat, S # {}
  PROVE  \E ij \in S : \A kl \in S : Before(ij, kl)
<1> DEFINE I == {ij[1] : ij \in S}
<1>1. PICK i \in I : \A k \in I : i <= k
  <2>1. I \subseteq Nat /\ I # {}
    OBVIOUS
  <2> HIDE DEF I
  <2> QED BY Zenon, <2>1, LeastNat
<1> DEFINE J == {ij[2] : ij \in {kl \in S : kl[1] = i}}
<1>2. PICK j \in J : \A l \in J : j <= l
  <2>1. J \subseteq Nat /\ J # {}
    OBVIOUS
  <2> HIDE DEF J
  <2> QED BY Zenon, <2>1, LeastNat
<1>3. PICK ij \in S : ij[1] = i /\ ij[2] = j
  OBVIOUS
<1>4. ASSUME NEW kl \in S PROVE Before(ij, kl)
  <2>1. kl[1] \in I /\ kl[1] \in Nat /\ kl[2] \in Nat /\ ij[1] \in Nat /\ ij[2] \in Nat
    OBVIOUS
  <2>2. kl[1] = i => kl[2] \in J
    OBVIOUS
  <2> HIDE DEF I, J
  <2> QED BY <1>1, <1>2, <1>3, <2>1, <2>2 DEF Before
<1> QED BY <1>4

\* m is one of the matches put out by match_endpoints under this key.
PutOut(m, ls, id, rs, key) ==
  \E i \in DOMAIN ls, j \in DOMAIN rs :
    /\ Matches(ls[i], rs[j])
    /\ key = match_key(ls[i], id, rs[j])
    /\ m = [local |-> ls[i], remote_participant_id |-> id, remote |-> rs[j]]

\* The match kept for a key is one of those put out under it.
LEMMA FirstMatchIsMatch ==
  ASSUME NEW X, NEW ls \in Seq(X), NEW rs \in Seq(X), NEW id,
         NEW key \in MatchedKeys(ls, id, rs)
  PROVE  PutOut(FirstMatch(ls, id, rs, key), ls, id, rs, key)
<1> DEFINE same == {ij \in MatchedPairs(ls, rs) : match_key(ls[ij[1]], id, rs[ij[2]]) = key}
           ij == CHOOSE p \in same : \A q \in same : Before(p, q)
<1>1. same # {}
  BY DEF MatchedKeys
<1>2. same \subseteq Nat \X Nat
  BY DEF MatchedPairs
<1>3. ij \in same
  <2> HIDE DEF same
  <2> QED BY <1>1, <1>2, FirstPair, Zenon
<1>4. FirstMatch(ls, id, rs, key) =
        [local |-> ls[ij[1]], remote_participant_id |-> id, remote |-> rs[ij[2]]]
  BY DEF FirstMatch
<1>5. /\ ij[1] \in DOMAIN ls /\ ij[2] \in DOMAIN rs
      /\ Matches(ls[ij[1]], rs[ij[2]])
      /\ key = match_key(ls[ij[1]], id, rs[ij[2]])
  <2> HIDE DEF ij
  <2> QED BY <1>3 DEF MatchedPairs
<1> HIDE DEF ij
<1> QED BY <1>4, <1>5 DEF PutOut

-----------------------------------------------------------------------------
\* What is in a datagram, or remembered of a remote, was registered by the
\* participant it came from.
Provenance ==
  /\ \A p \in Participants : \A ann \in inbox[p] : \A i \in DOMAIN ann.endpoints :
       Registered(ann.endpoints[i], ann.participant_id)
  /\ \A p \in Participants : \A q \in DOMAIN remotes[p] :
       \A i \in DOMAIN remotes[p][q].endpoints : Registered(remotes[p][q].endpoints[i], q)

\* The inductive invariant.
Inv == TypeOK /\ DirtyInv /\ MatchesSound /\ Provenance

\* m is a match p may remember under key k, with a participant of Q.
Real(m, k, p, Q) ==
  /\ m \in Match
  /\ k = match_key(m.local, m.remote_participant_id, m.remote)
  /\ m.remote_participant_id \in Q
  /\ Registered(m.local, p) /\ Registered(m.remote, m.remote_participant_id)
  /\ Matches(m.local, m.remote)

\* try_match adds real matches only and keeps those there are.
LEMMA ReportedIsSound ==
  ASSUME Inv, NEW p \in Participants, NEW q \in Participants,
         NEW rs \in Seq(AllEndpoints),
         \A i \in DOMAIN rs : Registered(rs[i], q),
         NEW k \in DOMAIN Reported(p, q, rs)
  PROVE  Real(Reported(p, q, rs)[k], k, p, DOMAIN remotes[p] \cup {q})
<1>1. CASE k \in DOMAIN active_matches[p]
  <2>1. Reported(p, q, rs)[k] = active_matches[p][k]
    BY <1>1 DEF Reported
  <2>2. SoundMatch(p, k) /\ active_matches[p][k] \in Match
    BY <1>1 DEF Inv, TypeOK, AgentTypeOK, MatchesSound
  <2> QED
    BY <2>1, <2>2 DEF SoundMatch, Real
<1>2. CASE k \notin DOMAIN active_matches[p]
  <2>1. /\ k \in MatchedKeys(local_endpoints[p], q, rs)
        /\ Reported(p, q, rs)[k] = FirstMatch(local_endpoints[p], q, rs, k)
    BY <1>2 DEF Reported
  <2>2. local_endpoints[p] \in Seq(AllEndpoints)
    BY DEF Inv, TypeOK, AgentTypeOK
  <2> DEFINE ls == local_endpoints[p]
  <2>3. PICK i \in DOMAIN ls, j \in DOMAIN rs :
          /\ Matches(ls[i], rs[j])
          /\ k = match_key(ls[i], q, rs[j])
          /\ Reported(p, q, rs)[k] =
               [local |-> ls[i], remote_participant_id |-> q, remote |-> rs[j]]
    <3> HIDE DEF ls
    <3>1. ls \in Seq(AllEndpoints) /\ k \in MatchedKeys(ls, q, rs)
      BY Zenon, <2>1, <2>2 DEF ls
    <3>2. PutOut(FirstMatch(ls, q, rs, k), ls, q, rs, k)
      BY Zenon, <3>1, FirstMatchIsMatch
    <3>3. Reported(p, q, rs)[k] = FirstMatch(ls, q, rs, k)
      BY Zenon, <2>1 DEF ls
    <3> QED BY <3>2, <3>3 DEF PutOut
  <2>4. local_endpoints[p][i] \in AllEndpoints /\ rs[j] \in AllEndpoints
    BY <2>2
  <2>5. Registered(local_endpoints[p][i], p) /\ Registered(rs[j], q)
    BY DEF Registered
  <2> DEFINE m == Reported(p, q, rs)[k]
  <2>6. m.local = local_endpoints[p][i] /\ m.remote_participant_id = q /\ m.remote = rs[j]
    BY <2>3
  <2>7. m \in Match
    BY <2>3, <2>4 DEF Match
  <2> HIDE DEF m
  <2>8. /\ k = match_key(m.local, m.remote_participant_id, m.remote)
        /\ Registered(m.local, p) /\ Registered(m.remote, m.remote_participant_id)
        /\ Matches(m.local, m.remote)
    BY Zenon, <2>3, <2>5, <2>6
  <2>9. Real(m, k, p, DOMAIN remotes[p] \cup {q})
    BY <2>6, <2>7, <2>8 DEF Real
  <2> QED
    BY Zenon, <2>9 DEF m
<1> QED BY <1>1, <1>2

\* What is registered stays registered.
LEMMA RegisteredStays ==
  ASSUME Inv, [Next]_vars, NEW e, NEW q \in Participants, Registered(e, q)
  PROVE  Registered(e, q)'
<1>1. CASE local_endpoints' = local_endpoints
  BY <1>1 DEF Registered
<1>2. ASSUME NEW p \in Participants, NEW f \in Endpoints[p], add_endpoint(p, f)
      PROVE  Registered(e, q)'
  <2>1. local_endpoints[q] \in Seq(AllEndpoints) /\ f \in AllEndpoints
    BY DEF Inv, TypeOK, AgentTypeOK, AllEndpoints
  <2>2. PICK j \in DOMAIN local_endpoints[q] : e = local_endpoints[q][j]
    BY DEF Registered
  <2>3. CASE q # p
    <3>1. local_endpoints'[q] = local_endpoints[q]
      BY <1>2, <2>3 DEF add_endpoint, MarkDirty
    <3> QED BY <2>2, <3>1 DEF Registered
  <2>4. CASE q = p
    <3>1. local_endpoints'[q] = Append(local_endpoints[q], f)
      BY <1>2, <2>4 DEF add_endpoint, MarkDirty, Inv, TypeOK, Domains
    <3>2. j \in DOMAIN Append(local_endpoints[q], f) /\ Append(local_endpoints[q], f)[j] = local_endpoints[q][j]
      BY <2>1, <2>2
    <3> QED BY <2>2, <3>1, <3>2 DEF Registered
  <2> QED BY <2>3, <2>4
<1> QED
  BY Zenon, <1>1, <1>2 DEF Next, Loop, vars, start, handle_announcement, RecvTimeout,
     ConsumeDirty, rematch_all, announce, reap_dead, Kept, Expire, Halt

-----------------------------------------------------------------------------
\* The part of the invariant that concerns the agent x, and the part that
\* concerns its receive buffer.
AgentInv(x) ==
  /\ AgentTypeOK(x)
  /\ DirtyOK(x)
  /\ \A k \in DOMAIN active_matches[x] : SoundMatch(x, k)
  /\ \A q \in DOMAIN remotes[x] :
       \A i \in DOMAIN remotes[x][q].endpoints : Registered(remotes[x][q].endpoints[i], q)

InboxInv(x) ==
  \A ann \in inbox[x] :
    /\ ann \in Announcement
    /\ \A i \in DOMAIN ann.endpoints : Registered(ann.endpoints[i], ann.participant_id)

\* The invariant is one about each agent of discovery_agent.cpp and its socket.
LEMMA InvByAgent ==
  Inv <=> Domains /\ \A x \in Participants : AgentInv(x) /\ InboxInv(x)
BY Zenon DEF Inv, TypeOK, DirtyInv, MatchesSound, Provenance, AgentInv, InboxInv

\* Step by step, the agents that do not act keep their state.
Idle(x) ==
  /\ local_endpoints'[x] = local_endpoints[x] /\ endpoints_dirty'[x] = endpoints_dirty[x]
  /\ remotes'[x] = remotes[x] /\ active_matches'[x] = active_matches[x]
  /\ pc'[x] = pc[x] /\ todo'[x] = todo[x]

\* An agent that does not act keeps its part of the invariant: what others
\* registered stays registered.
LEMMA IdleKeepsInv ==
  ASSUME Inv, [Next]_vars, NEW x \in Participants, Idle(x)
  PROVE  AgentInv(x)'
<1>0. AgentInv(x)
  BY Zenon, InvByAgent
<1>1. AgentTypeOK(x)'
  BY Zenon, <1>0 DEF AgentInv, AgentTypeOK, Idle
<1>2. DirtyOK(x)'
  BY Zenon, <1>0 DEF AgentInv, DirtyOK, Covered, Idle
<1>3. \A q \in DOMAIN remotes[x] : q \in Participants
  BY <1>0 DEF AgentInv, AgentTypeOK
<1>4. ASSUME NEW k \in DOMAIN active_matches'[x] PROVE SoundMatch(x, k)'
  <2> PICK m : m = active_matches[x][k]
    OBVIOUS
  <2>1. /\ SoundMatch(x, k) /\ k \in DOMAIN active_matches[x]
        /\ m = active_matches'[x][k] /\ remotes'[x] = remotes[x]
    BY Zenon, <1>0 DEF AgentInv, Idle
  <2>2. m.remote_participant_id \in Participants
    BY Zenon, <1>3, <2>1 DEF SoundMatch
  <2>3. Registered(m.local, x) /\ Registered(m.remote, m.remote_participant_id)
    BY Zenon, <2>1 DEF SoundMatch
  <2>4. Registered(m.local, x)' /\ Registered(m.remote, m.remote_participant_id)'
    BY Zenon, <2>2, <2>3, RegisteredStays
  <2> QED
    BY Zenon, <2>1, <2>4 DEF SoundMatch
<1>5. ASSUME NEW q \in DOMAIN remotes'[x], NEW i \in DOMAIN remotes'[x][q].endpoints
      PROVE  Registered(remotes[x][q].endpoints[i], q)'
  <2>1. q \in Participants /\ Registered(remotes[x][q].endpoints[i], q)
    BY Zenon, <1>0, <1>3 DEF AgentInv, Idle
  <2> QED BY Zenon, <2>1, RegisteredStays DEF Registered, Idle
<1> QED
  BY Zenon, <1>1, <1>2, <1>4, <1>5 DEF AgentInv

\* The variables stay functions on the participants.
LEMMA DomainsKept ==
  ASSUME Domains, [Next]_vars
  PROVE  Domains'
<1>1. CASE UNCHANGED vars
  BY Zenon, <1>1 DEF Domains, vars
<1>2. ASSUME NEW p \in Participants, NEW R, Send(p, R) PROVE DOMAIN inbox' = Participants
  BY <1>2 DEF Send
<1>3. ASSUME NEW p \in Participants, NEW q \in Participants, Expire(p, q) PROVE Domains'
  BY <1>3 DEF Domains, Expire
<1>4. ASSUME NEW p \in Participants, NEW ann, handle_announcement(p, ann) PROVE Domains'
  BY <1>4 DEF Domains, handle_announcement
<1>5. ASSUME NEW p \in Participants, NEW R, announce(p, R) \/ start(p, R) PROVE Domains'
  BY <1>2, <1>5 DEF Domains, announce, start
<1>6. ASSUME NEW p \in Participants, RecvTimeout(p) \/ Halt(p) PROVE Domains'
  BY <1>6 DEF Domains, RecvTimeout, Halt
<1>7. ASSUME NEW p \in Participants, ConsumeDirty(p) \/ reap_dead(p) PROVE Domains'
  BY <1>7 DEF Domains, ConsumeDirty, reap_dead, Kept
<1>8. ASSUME NEW p \in Participants, NEW q, rematch_all(p, q) PROVE Domains'
  BY <1>8 DEF Domains, rematch_all
<1>9. ASSUME NEW p \in Participants, NEW e, add_endpoint(p, e) PROVE Domains'
  BY <1>9 DEF Domains, add_endpoint, MarkDirty
<1> QED
  BY Zenon, <1>1, <1>3, <1>4, <1>5, <1>6, <1>7, <1>8, <1>9 DEF Next, Loop

\* What is sent is the sender's own list, what is received was sent.
LEMMA InboxKept ==
  ASSUME Inv, [Next]_vars, NEW x \in Participants
  PROVE  InboxInv(x)'
<1>0. InboxInv(x) /\ Domains
  BY Zenon, InvByAgent
<1>1. ASSUME NEW ann \in inbox[x]
      PROVE  /\ ann \in Announcement
             /\ \A i \in DOMAIN ann.endpoints : Registered(ann.endpoints[i], ann.participant_id)'
  <2>1. ann \in Announcement /\ ann.participant_id \in Participants
    BY <1>0 DEF InboxInv, Announcement
  <2> QED BY Zenon, <1>0, <2>1, RegisteredStays DEF InboxInv
<1>2. CASE inbox'[x] \subseteq inbox[x]
  BY <1>1, <1>2 DEF InboxInv
<1>3. ASSUME NEW p \in Participants, NEW R, Send(p, R), UNCHANGED local_endpoints
      PROVE  InboxInv(x)'
  <2> PICK ann : ann = [participant_id |-> p, endpoints |-> local_endpoints[p]]
    BY Zenon
  <2>1. inbox'[x] \subseteq inbox[x] \cup {ann}
    BY <1>3 DEF Send
  <2>2. ann \in Announcement /\ ann.participant_id = p /\ ann.endpoints = local_endpoints'[p]
    BY <1>3 DEF Announcement, Inv, TypeOK, AgentTypeOK
  <2>3. \A i \in DOMAIN ann.endpoints : Registered(ann.endpoints[i], ann.participant_id)'
    BY Zenon, <2>2 DEF Registered
  <2> QED BY <1>1, <2>1, <2>2, <2>3 DEF InboxInv
<1>4. CASE \E p \in Participants : \E R : announce(p, R) \/ start(p, R)
  BY Zenon, <1>3, <1>4 DEF announce, start
<1>5. CASE \E p \in Participants : \E ann \in inbox[p] : handle_announcement(p, ann)
  <2>1. inbox'[x] \subseteq inbox[x]
    BY <1>0, <1>5 DEF handle_announcement, Domains
  <2> QED BY <1>2, <2>1
<1>6. CASE inbox' = inbox
  BY Zenon, <1>2, <1>6
<1> QED
  BY Zenon, <1>4, <1>5, <1>6 DEF Next, Loop, vars, add_endpoint, MarkDirty, RecvTimeout, ConsumeDirty,
     rematch_all, reap_dead, Kept, Expire, Halt

\* A match of p that stays, with a remote that stays, stays sound; so does what
\* is remembered of a remote.
LEMMA SoundStays ==
  ASSUME Inv, [Next]_vars, NEW p \in Participants
  PROVE  /\ \A k \in DOMAIN active_matches[p] :
              /\ k \in DOMAIN active_matches'[p] /\ active_matches'[p][k] = active_matches[p][k]
              /\ active_matches[p][k].remote_participant_id \in DOMAIN remotes'[p]
              => SoundMatch(p, k)'
         /\ \A q \in DOMAIN remotes[p] :
              \A i \in DOMAIN remotes[p][q].endpoints :
                Registered(remotes[p][q].endpoints[i], q) /\ q \in Participants
<1>0. AgentInv(p)
  BY Zenon, InvByAgent
<1>1. ASSUME NEW k \in DOMAIN active_matches[p],
             k \in DOMAIN active_matches'[p], active_matches'[p][k] = active_matches[p][k],
             active_matches[p][k].remote_participant_id \in DOMAIN remotes'[p]
      PROVE  SoundMatch(p, k)'
  <2> PICK m : m = active_matches[p][k]
    BY Zenon
  <2>1. SoundMatch(p, k) /\ m \in Match
    BY Zenon, <1>0 DEF AgentInv, AgentTypeOK
  <2>2. m.remote_participant_id \in Participants
    BY <2>1 DEF Match
  <2>3. Registered(m.local, p) /\ Registered(m.remote, m.remote_participant_id)
    BY Zenon, <2>1 DEF SoundMatch
  <2>4. Registered(m.local, p)' /\ Registered(m.remote, m.remote_participant_id)'
    BY Zenon, <2>2, <2>3, RegisteredStays
  <2> QED
    BY Zenon, <1>1, <2>1, <2>4 DEF SoundMatch
<1>2. \A q \in DOMAIN remotes[p] : q \in Participants
  BY <1>0 DEF AgentInv, AgentTypeOK
<1> QED
  BY Zenon, <1>0, <1>1, <1>2 DEF AgentInv

\* Steps that leave what p knows and has reported alone.
LEMMA QuietKeepsInv ==
  ASSUME Inv, Next, NEW p \in Participants,
         remotes'[p] = remotes[p], active_matches'[p] = active_matches[p],
         AgentTypeOK(p)', DirtyOK(p)'
  PROVE  AgentInv(p)'
<1>0. AgentInv(p)
  BY Zenon, InvByAgent
<1>1. ASSUME NEW k \in DOMAIN active_matches'[p] PROVE SoundMatch(p, k)'
  <2>1. active_matches[p][k].remote_participant_id \in DOMAIN remotes'[p]
    BY Zenon, <1>0 DEF AgentInv, SoundMatch
  <2> QED BY Zenon, <2>1, SoundStays
<1>2. ASSUME NEW q \in DOMAIN remotes'[p], NEW i \in DOMAIN remotes'[p][q].endpoints
      PROVE  Registered(remotes[p][q].endpoints[i], q)'
  <2> PICK e : e = remotes[p][q].endpoints[i]
    BY Zenon
  <2>1. Registered(e, q) /\ q \in Participants
    BY Zenon, SoundStays
  <2>2. Registered(e, q)'
    BY Zenon, <2>1, RegisteredStays
  <2> QED BY Zenon, <2>2
<1> QED
  BY Zenon, <1>1, <1>2 DEF AgentInv

\* Registering, starting, timing out, announcing and halting.
LEMMA QuietSteps ==
  ASSUME Inv, Next, NEW p \in Participants
  PROVE  /\ \A e \in Endpoints[p] : add_endpoint(p, e) => AgentInv(p)'
         /\ \A R : start(p, R) \/ announce(p, R) => AgentInv(p)'
         /\ RecvTimeout(p) \/ Halt(p) \/ ConsumeDirty(p) => AgentInv(p)'
<1>0. AgentInv(p) /\ Domains
  BY Zenon, InvByAgent
<1>1. ASSUME NEW e \in Endpoints[p], add_endpoint(p, e) PROVE AgentInv(p)'
  <2>1. /\ local_endpoints'[p] = Append(local_endpoints[p], e) /\ endpoints_dirty'[p] = TRUE
        /\ remotes' = remotes /\ active_matches' = active_matches /\ pc' = pc /\ todo' = todo
    BY <1>0, <1>1 DEF add_endpoint, MarkDirty, Domains
  <2>2. local_endpoints'[p] \in Seq(AllEndpoints)
    BY <1>0, <2>1 DEF AllEndpoints, AgentInv, AgentTypeOK
  <2>3. AgentTypeOK(p)'
    BY Zenon, <1>0, <2>1, <2>2 DEF AgentInv, AgentTypeOK
  <2>4. DirtyOK(p)'
    BY Zenon, <1>0, <2>1 DEF AgentInv, DirtyOK
  <2> QED BY Zenon, <2>1, <2>3, <2>4, QuietKeepsInv
<1>2. ASSUME local_endpoints' = local_endpoints, endpoints_dirty' = endpoints_dirty,
             remotes' = remotes, active_matches' = active_matches, todo' = todo,
             pc'[p] \in {"recv", "dirty", "reap", "dead"},
             todo[p] = {} \/ pc'[p] = "dead"
      PROVE  AgentInv(p)'
  <2>1. AgentTypeOK(p)'
    BY <1>0, <1>2 DEF AgentInv, AgentTypeOK
  <2>2. DirtyOK(p)'
    BY <1>0, <1>2 DEF AgentInv, DirtyOK, Covered
  <2> QED BY Zenon, <1>2, <2>1, <2>2, QuietKeepsInv
<1>3. ASSUME NEW R, start(p, R) \/ announce(p, R) PROVE AgentInv(p)'
  <2>1. todo[p] = {}
    BY <1>0, <1>3 DEF start, announce, AgentInv, DirtyOK
  <2> QED BY <1>0, <1>2, <1>3, <2>1 DEF start, announce, Domains
<1>4. CASE RecvTimeout(p)
  <2>1. todo[p] = {}
    BY <1>0, <1>4 DEF RecvTimeout, AgentInv, DirtyOK
  <2> QED BY <1>0, <1>2, <1>4, <2>1 DEF RecvTimeout, Domains
<1>5. CASE Halt(p)
  BY <1>0, <1>2, <1>5 DEF Halt, Domains
<1>6. CASE ConsumeDirty(p)
  <2>1. /\ endpoints_dirty'[p] = FALSE /\ pc'[p] = "rematch"
        /\ todo'[p] = IF endpoints_dirty[p] THEN DOMAIN remotes[p] ELSE {}
        /\ local_endpoints' = local_endpoints
        /\ remotes' = remotes /\ active_matches' = active_matches
    BY <1>0, <1>6 DEF ConsumeDirty, Domains
  <2>2. todo[p] = {}
    BY <1>0, <1>6 DEF ConsumeDirty, AgentInv, DirtyOK
  <2>3. AgentTypeOK(p)'
    BY Zenon, <1>0, <2>1 DEF AgentInv, AgentTypeOK
  <2>4. DirtyOK(p)'
    BY <1>0, <2>1, <2>2 DEF AgentInv, DirtyOK, Covered
  <2> QED BY Zenon, <2>1, <2>3, <2>4, QuietKeepsInv
<1> QED BY Zenon, <1>1, <1>3, <1>4, <1>5, <1>6

\* What try_match does to p: matches of q are added, q itself may be new.
LEMMA MatchingKeepsInv ==
  ASSUME Inv, Next, NEW p \in Participants, NEW q \in Participants \ {p},
         NEW rs \in Seq(AllEndpoints), \A i \in DOMAIN rs : Registered(rs[i], q),
         active_matches'[p] = Reported(p, q, rs),
         local_endpoints' = local_endpoints, endpoints_dirty' = endpoints_dirty,
         DOMAIN remotes'[p] = DOMAIN remotes[p] \cup {q},
         remotes'[p][q].endpoints = rs, remotes'[p][q].stale \in BOOLEAN,
         \A r \in DOMAIN remotes[p] \ {q} : remotes'[p][r] = remotes[p][r],
         todo'[p] = todo[p] \ {q},
         pc'[p] \in {"dirty", "rematch"}, pc'[p] # "rematch" => todo[p] = {}
  PROVE  AgentInv(p)'
<1>0. AgentInv(p)
  BY Zenon, InvByAgent
<1>a. DOMAIN active_matches'[p] = DOMAIN active_matches[p] \cup MatchedKeys(local_endpoints[p], q, rs)
  BY DEF Reported
<1>b. \A k \in DOMAIN active_matches'[p] : Real(active_matches'[p][k], k, p, DOMAIN remotes'[p])
  <2> SUFFICES ASSUME NEW k \in DOMAIN active_matches'[p]
               PROVE  Real(active_matches'[p][k], k, p, DOMAIN remotes'[p])
    BY Zenon
  <2>1. q \in Participants /\ k \in DOMAIN Reported(p, q, rs)
    OBVIOUS
  <2>2. Real(Reported(p, q, rs)[k], k, p, DOMAIN remotes[p] \cup {q})
    BY <2>1, ReportedIsSound
  <2> QED BY <2>2
<1>1. AgentTypeOK(p)'
  <2>1. \A k \in DOMAIN active_matches'[p] : active_matches'[p][k] \in Match
    BY Zenon, <1>b DEF Real
  <2>2. \A r \in DOMAIN remotes'[p] :
          remotes'[p][r].endpoints \in Seq(AllEndpoints) /\ remotes'[p][r].stale \in BOOLEAN
    BY <1>0 DEF AgentInv, AgentTypeOK
  <2> QED
    BY <1>0, <2>1, <2>2 DEF AgentInv, AgentTypeOK
<1>2. DirtyOK(p)'
  <2>1. ASSUME ~endpoints_dirty[p], NEW r \in DOMAIN remotes'[p] \ todo'[p]
        PROVE  Covered(p, r)'
    <3>1. CASE r = q
      BY Zenon, <1>a, <3>1 DEF Covered
    <3>2. CASE r # q
      <4>1. Covered(p, r) /\ remotes'[p][r] = remotes[p][r]
        BY <1>0, <2>1, <3>2 DEF AgentInv, DirtyOK
      <4> QED BY <1>a, <4>1 DEF Covered
    <3> QED BY <3>1, <3>2
  <2>2. /\ todo'[p] \subseteq DOMAIN remotes'[p]
        /\ pc'[p] \notin {"rematch", "dead"} => todo'[p] = {}
    BY <1>0 DEF AgentInv, DirtyOK
  <2> QED BY Zenon, <2>1, <2>2 DEF DirtyOK
<1>3. ASSUME NEW k \in DOMAIN active_matches'[p] PROVE SoundMatch(p, k)'
  <2> PICK m : m = active_matches'[p][k]
    BY Zenon
  <2>1. m \in Match
    BY Zenon, <1>b DEF Real
  <2>2. m.remote_participant_id \in Participants
    BY <2>1 DEF Match
  <2>3. Registered(m.local, p) /\ Registered(m.remote, m.remote_participant_id)
    BY Zenon, <1>b DEF Real
  <2>4. Registered(m.local, p)' /\ Registered(m.remote, m.remote_participant_id)'
    BY Zenon, <2>2, <2>3, RegisteredStays
  <2> QED BY Zenon, <1>b, <2>4 DEF Real, SoundMatch
<1>4. ASSUME NEW r \in DOMAIN remotes'[p], NEW i \in DOMAIN remotes'[p][r].endpoints
      PROVE  Registered(remotes[p][r].endpoints[i], r)'
  <2> PICK e : e = remotes'[p][r].endpoints[i]
    BY Zenon
  <2>1. Registered(e, r) /\ r \in Participants
    <3>1. CASE r = q
      BY Zenon, <3>1
    <3>2. CASE r # q
      <4>1. r \in DOMAIN remotes[p] /\ remotes'[p][r] = remotes[p][r]
        BY <3>2
      <4> QED BY Zenon, <4>1, SoundStays
    <3> QED BY <3>1, <3>2
  <2>2. Registered(e, r)'
    BY Zenon, <2>1, RegisteredStays
  <2> QED BY Zenon, <2>2
<1> QED BY Zenon, <1>1, <1>2, <1>3, <1>4 DEF AgentInv

\* A datagram is received.
LEMMA ReceiveKeepsInv ==
  ASSUME Inv, Next, NEW p \in Participants, NEW ann \in inbox[p], handle_announcement(p, ann)
  PROVE  AgentInv(p)'
<1>0. AgentInv(p) /\ InboxInv(p) /\ Domains
  BY Zenon, InvByAgent
<1> DEFINE q == ann.participant_id
<1>1. /\ q \in Participants /\ ann.endpoints \in Seq(AllEndpoints)
      /\ \A i \in DOMAIN ann.endpoints : Registered(ann.endpoints[i], q)
  BY <1>0 DEF InboxInv, Announcement
<1>2. /\ pc'[p] = "dirty" /\ todo' = todo /\ todo[p] = {}
      /\ local_endpoints' = local_endpoints /\ endpoints_dirty' = endpoints_dirty
  BY <1>0 DEF handle_announcement, Domains, AgentInv, DirtyOK
<1>3. CASE q = p
  <2>1. remotes' = remotes /\ active_matches' = active_matches
    BY Zenon, <1>3 DEF handle_announcement
  <2>2. AgentTypeOK(p)'
    BY <1>0, <1>2, <2>1 DEF AgentInv, AgentTypeOK
  <2>3. DirtyOK(p)'
    BY <1>0, <1>2, <2>1 DEF AgentInv, DirtyOK, Covered
  <2> QED BY Zenon, <2>1, <2>2, <2>3, QuietKeepsInv
<1>4. CASE q # p
  <2> DEFINE known == [r \in DOMAIN remotes[p] \cup {q} |->
               IF r = q THEN [endpoints |-> ann.endpoints, stale |-> FALSE] ELSE remotes[p][r]]
  <2>1. remotes'[p] = known /\ active_matches'[p] = Reported(p, q, ann.endpoints)
    <3>1. /\ remotes' = [remotes EXCEPT ![p] = known]
          /\ active_matches' = [active_matches EXCEPT ![p] = Reported(p, q, ann.endpoints)]
      BY Zenon, <1>4 DEF handle_announcement
    <3> HIDE DEF known, q
    <3> QED BY <1>0, <3>1 DEF Domains
  <2> HIDE DEF q
  <2>2. /\ DOMAIN remotes'[p] = DOMAIN remotes[p] \cup {q}
        /\ remotes'[p][q].endpoints = ann.endpoints /\ remotes'[p][q].stale \in BOOLEAN
        /\ \A r \in DOMAIN remotes[p] \ {q} : remotes'[p][r] = remotes[p][r]
    <3>1. /\ DOMAIN known = DOMAIN remotes[p] \cup {q}
          /\ known[q] = [endpoints |-> ann.endpoints, stale |-> FALSE]
          /\ \A r \in DOMAIN remotes[p] \ {q} : known[r] = remotes[p][r]
      BY Zenon
    <3> HIDE DEF known
    <3>2. known[q].endpoints = ann.endpoints /\ known[q].stale = FALSE
      BY <3>1
    <3> QED BY Zenon, <2>1, <3>1, <3>2
  <2>3. /\ q \in Participants \ {p} /\ todo'[p] = todo[p] \ {q}
        /\ pc'[p] \in {"dirty", "rematch"} /\ (pc'[p] # "rematch" => todo[p] = {})
    BY <1>1, <1>2, <1>4
  <2> QED BY Zenon, <1>1, <1>2, <2>1, <2>2, <2>3, MatchingKeepsInv
<1> QED BY <1>3, <1>4

\* rematch_all visits a remote.
LEMMA RematchKeepsInv ==
  ASSUME Inv, Next, NEW p \in Participants, NEW q \in todo[p], rematch_all(p, q)
  PROVE  AgentInv(p)'
<1>0. AgentInv(p) /\ Domains
  BY Zenon, InvByAgent
<1> DEFINE rs == remotes[p][q].endpoints
<1>1. /\ q \in DOMAIN remotes[p] /\ q \in Participants \ {p}
      /\ rs \in Seq(AllEndpoints) /\ remotes[p][q].stale \in BOOLEAN
      /\ \A i \in DOMAIN rs : Registered(rs[i], q)
  BY <1>0 DEF AgentInv, AgentTypeOK, DirtyOK
<1>2. /\ local_endpoints' = local_endpoints /\ endpoints_dirty' = endpoints_dirty
      /\ remotes' = remotes /\ active_matches'[p] = Reported(p, q, rs)
      /\ todo'[p] = todo[p] \ {q} /\ pc'[p] = "rematch"
  BY <1>0 DEF rematch_all, Domains
<1>3. /\ DOMAIN remotes'[p] = DOMAIN remotes[p] \cup {q}
      /\ remotes'[p][q].endpoints = rs /\ remotes'[p][q].stale \in BOOLEAN
      /\ \A r \in DOMAIN remotes[p] \ {q} : remotes'[p][r] = remotes[p][r]
      /\ pc'[p] \in {"dirty", "rematch"} /\ (pc'[p] # "rematch" => todo[p] = {})
  BY <1>1, <1>2
<1> HIDE DEF rs
<1> QED BY Zenon, <1>1, <1>2, <1>3, MatchingKeepsInv

\* The matches with a remote go exactly when the remote goes.
LEMMA ReapKeepsInv ==
  ASSUME Inv, Next, NEW p \in Participants, reap_dead(p)
  PROVE  AgentInv(p)'
<1>0. AgentInv(p) /\ Domains
  BY Zenon, InvByAgent
<1> DEFINE dead == {q \in DOMAIN remotes[p] : remotes[p][q].stale}
           kept == {k \in DOMAIN active_matches[p] :
                      active_matches[p][k].remote_participant_id \notin dead}
<1>1. /\ local_endpoints' = local_endpoints /\ endpoints_dirty' = endpoints_dirty
      /\ todo' = todo /\ todo[p] = {} /\ pc'[p] = "recv"
      /\ remotes'[p] = [q \in DOMAIN remotes[p] \ dead |-> remotes[p][q]]
      /\ active_matches'[p] = [k \in kept |-> active_matches[p][k]]
  BY <1>0 DEF reap_dead, Kept, Restrict, Domains
<1>2. /\ DOMAIN remotes'[p] = DOMAIN remotes[p] \ dead
      /\ \A q \in DOMAIN remotes'[p] : remotes'[p][q] = remotes[p][q]
      /\ DOMAIN active_matches'[p] = kept
      /\ \A k \in kept : active_matches'[p][k] = active_matches[p][k]
  <2> HIDE DEF dead, kept
  <2> QED BY Zenon, <1>1
<1>a. /\ kept \subseteq DOMAIN active_matches[p]
      /\ \A k \in DOMAIN active_matches[p] :
           k \in kept <=> active_matches[p][k].remote_participant_id \notin dead
  BY Zenon
<1> HIDE DEF dead, kept
<1>3. AgentTypeOK(p)'
  <2>1. \A k \in DOMAIN active_matches'[p] : active_matches'[p][k] \in Match
    BY Zenon, <1>0, <1>2, <1>a DEF AgentInv, AgentTypeOK
  <2>2. DOMAIN remotes'[p] \subseteq DOMAIN remotes[p]
    BY Zenon, <1>2
  <2>3. /\ DOMAIN remotes'[p] \subseteq Participants \ {p}
        /\ \A q \in DOMAIN remotes'[p] :
             remotes'[p][q].endpoints \in Seq(AllEndpoints) /\ remotes'[p][q].stale \in BOOLEAN
    BY Zenon, <1>0, <1>2, <2>2 DEF AgentInv, AgentTypeOK
  <2> QED
    BY <1>0, <1>1, <2>1, <2>3 DEF AgentInv, AgentTypeOK
<1>4. DirtyOK(p)'
  <2>1. ASSUME ~endpoints_dirty[p], NEW q \in DOMAIN remotes'[p]
        PROVE  Covered(p, q)'
    <3>1. Covered(p, q) /\ q \notin dead
      BY <1>0, <1>1, <1>2, <2>1 DEF AgentInv, DirtyOK
    <3>2. ASSUME NEW k \in MatchedKeys(local_endpoints[p], q, remotes[p][q].endpoints)
          PROVE  k \in kept
      <4>1. k \in DOMAIN active_matches[p] /\ SoundMatch(p, k)
        BY <1>0, <3>1 DEF AgentInv, Covered
      <4>2. k[3] = q
        BY DEF MatchedKeys, match_key
      <4>3. k[3] = active_matches[p][k].remote_participant_id
        BY <4>1 DEF SoundMatch, match_key
      <4> QED BY Zenon, <1>a, <3>1, <4>1, <4>2, <4>3
    <3> QED BY Zenon, <1>1, <1>2, <3>2 DEF Covered
  <2> QED BY <1>1, <2>1 DEF DirtyOK
<1>5. ASSUME NEW k \in DOMAIN active_matches'[p] PROVE SoundMatch(p, k)'
  <2>1. k \in kept /\ SoundMatch(p, k) /\ k \in DOMAIN active_matches[p]
    BY Zenon, <1>0, <1>2, <1>a DEF AgentInv
  <2>2. active_matches[p][k].remote_participant_id \in DOMAIN remotes'[p]
    BY Zenon, <1>2, <1>a, <2>1 DEF SoundMatch
  <2> QED BY Zenon, <1>2, <2>1, <2>2, SoundStays
<1>6. ASSUME NEW q \in DOMAIN remotes'[p], NEW i \in DOMAIN remotes'[p][q].endpoints
      PROVE  Registered(remotes[p][q].endpoints[i], q)'
  <2> PICK e : e = remotes'[p][q].endpoints[i]
    BY Zenon
  <2>1. q \in DOMAIN remotes[p] /\ e = remotes[p][q].endpoints[i] /\ i \in DOMAIN remotes[p][q].endpoints
    BY <1>2
  <2>2. Registered(e, q) /\ q \in Participants
    BY Zenon, <2>1, SoundStays
  <2>3. Registered(e, q)'
    BY Zenon, <2>2, RegisteredStays
  <2> QED BY Zenon, <2>3
<1> QED BY Zenon, <1>3, <1>4, <1>5, <1>6 DEF AgentInv

\* A timeout changes nothing but the age of a remote.
LEMMA ExpireKeepsInv ==
  ASSUME Inv, Next, NEW p \in Participants, NEW q \in Participants, Expire(p, q)
  PROVE  AgentInv(p)'
<1>0. AgentInv(p) /\ Domains
  BY Zenon, InvByAgent
<1>1. /\ local_endpoints' = local_endpoints /\ endpoints_dirty' = endpoints_dirty
      /\ active_matches' = active_matches /\ pc' = pc /\ todo' = todo
      /\ q \in DOMAIN remotes[p]
  BY DEF Expire
<1>2. /\ DOMAIN remotes'[p] = DOMAIN remotes[p]
      /\ \A r \in DOMAIN remotes[p] : /\ remotes'[p][r].endpoints = remotes[p][r].endpoints
                                      /\ remotes'[p][r].stale \in BOOLEAN
  <2> PICK v : v = [endpoints |-> remotes[p][q].endpoints, stale |-> TRUE]
    BY Zenon
  <2>1. remotes' = [remotes EXCEPT ![p] = [remotes[p] EXCEPT ![q] = v]]
    BY Zenon DEF Expire
  <2>2. v.endpoints = remotes[p][q].endpoints /\ v.stale = TRUE
    OBVIOUS
  <2>3. /\ DOMAIN remotes'[p] = DOMAIN remotes[p] /\ remotes'[p][q] = v
        /\ \A r \in DOMAIN remotes[p] \ {q} : remotes'[p][r] = remotes[p][r]
    BY <1>0, <1>1, <2>1 DEF Domains
  <2> QED BY Zenon, <1>0, <2>2, <2>3 DEF AgentInv, AgentTypeOK
<1>3. AgentTypeOK(p)'
  BY <1>0, <1>1, <1>2 DEF AgentInv, AgentTypeOK
<1>4. DirtyOK(p)'
  BY Zenon, <1>0, <1>1, <1>2 DEF AgentInv, DirtyOK, Covered
<1>5. ASSUME NEW k \in DOMAIN active_matches'[p] PROVE SoundMatch(p, k)'
  <2>1. active_matches[p][k].remote_participant_id \in DOMAIN remotes'[p]
    BY Zenon, <1>0, <1>1, <1>2 DEF AgentInv, SoundMatch
  <2> QED BY Zenon, <1>1, <2>1, SoundStays
<1>6. ASSUME NEW r \in DOMAIN remotes'[p], NEW i \in DOMAIN remotes'[p][r].endpoints
      PROVE  Registered(remotes[p][r].endpoints[i], r)'
  <2> PICK e : e = remotes'[p][r].endpoints[i]
    BY Zenon
  <2>1. Registered(e, r) /\ r \in Participants
    BY Zenon, <1>2, SoundStays
  <2>2. Registered(e, r)'
    BY Zenon, <2>1, RegisteredStays
  <2> QED BY Zenon, <2>2
<1> QED BY Zenon, <1>3, <1>4, <1>5, <1>6 DEF AgentInv

\* Every step keeps the invariant: one agent acts, the others are idle.
LEMMA NextKeepsInv ==
  ASSUME Inv, Next
  PROVE  Inv'
<1>0. Domains
  BY Zenon, InvByAgent
<1>1. PICK p \in Participants :
        \/ \E e \in Endpoints[p] : add_endpoint(p, e)
        \/ \E R \in SUBSET Participants : start(p, R)
        \/ Loop(p) \/ Halt(p)
        \/ \E q \in Participants : Expire(p, q)
  BY Zenon DEF Next
<1>2. AgentInv(p)'
  BY Zenon, <1>1, QuietSteps, ReceiveKeepsInv, RematchKeepsInv, ReapKeepsInv, ExpireKeepsInv
     DEF Loop
<1>3. ASSUME NEW x \in Participants \ {p} PROVE Idle(x)
  <2>a. ASSUME NEW f, NEW g, DOMAIN f = Participants, g = f \/ \E v : g = [f EXCEPT ![p] = v]
        PROVE  g[x] = f[x]
    BY <2>a
  <2>1. CASE \E e \in Endpoints[p] : add_endpoint(p, e)
    <3>1. /\ pc' = pc /\ remotes' = remotes /\ active_matches' = active_matches /\ todo' = todo
          /\ \E v : local_endpoints' = [local_endpoints EXCEPT ![p] = v]
          /\ \E v : endpoints_dirty' = [endpoints_dirty EXCEPT ![p] = v]
      BY Zenon, <2>1 DEF add_endpoint, MarkDirty
    <3> QED BY Zenon, <1>0, <2>a, <3>1 DEF Idle, Domains
  <2>2. CASE (\E R : start(p, R) \/ announce(p, R)) \/ RecvTimeout(p) \/ Halt(p)
    <3>1. /\ local_endpoints' = local_endpoints /\ endpoints_dirty' = endpoints_dirty /\ todo' = todo
          /\ remotes' = remotes /\ active_matches' = active_matches
          /\ \E v : pc' = [pc EXCEPT ![p] = v]
      BY Zenon, <2>2 DEF start, announce, RecvTimeout, Halt
    <3> QED BY Zenon, <1>0, <2>a, <3>1 DEF Idle, Domains
  <2>3. CASE ConsumeDirty(p)
    <3>1. /\ local_endpoints' = local_endpoints
          /\ remotes' = remotes /\ active_matches' = active_matches
          /\ \E v : pc' = [pc EXCEPT ![p] = v]
          /\ \E v : endpoints_dirty' = [endpoints_dirty EXCEPT ![p] = v]
          /\ \E v : todo' = [todo EXCEPT ![p] = v]
      BY Zenon, <2>3 DEF ConsumeDirty
    <3> QED BY Zenon, <1>0, <2>a, <3>1 DEF Idle, Domains
  <2>4. CASE \E ann \in inbox[p] : handle_announcement(p, ann)
    <3>1. /\ local_endpoints' = local_endpoints /\ endpoints_dirty' = endpoints_dirty /\ todo' = todo
          /\ \E v : pc' = [pc EXCEPT ![p] = v]
          /\ remotes' = remotes \/ \E v : remotes' = [remotes EXCEPT ![p] = v]
          /\ active_matches' = active_matches \/ \E v : active_matches' = [active_matches EXCEPT ![p] = v]
      BY Zenon, <2>4 DEF handle_announcement
    <3> QED BY Zenon, <1>0, <2>a, <3>1 DEF Idle, Domains
  <2>5. CASE \E q \in todo[p] : rematch_all(p, q)
    <3>1. /\ local_endpoints' = local_endpoints /\ endpoints_dirty' = endpoints_dirty
          /\ pc' = pc /\ remotes' = remotes /\ \E v : todo' = [todo EXCEPT ![p] = v]
          /\ \E v : active_matches' = [active_matches EXCEPT ![p] = v]
      BY Zenon, <2>5 DEF rematch_all
    <3> QED BY Zenon, <1>0, <2>a, <3>1 DEF Idle, Domains
  <2>6. CASE reap_dead(p)
    <3>1. /\ local_endpoints' = local_endpoints /\ endpoints_dirty' = endpoints_dirty /\ todo' = todo
          /\ \E v : pc' = [pc EXCEPT ![p] = v]
          /\ \E v : remotes' = [remotes EXCEPT ![p] = v]
          /\ \E v : active_matches' = [active_matches EXCEPT ![p] = v]
      BY Zenon, <2>6 DEF reap_dead, Kept
    <3> QED BY Zenon, <1>0, <2>a, <3>1 DEF Idle, Domains
  <2>7. CASE \E q \in Participants : Expire(p, q)
    BY <2>7 DEF Expire, Idle
  <2> QED BY Zenon, <1>1, <2>1, <2>2, <2>3, <2>4, <2>5, <2>6, <2>7 DEF Loop
<1>4. \A x \in Participants : AgentInv(x)'
  <2>1. ASSUME NEW x \in Participants PROVE AgentInv(x)'
    <3>1. CASE x = p
      BY Zenon, <1>2, <3>1
    <3>2. CASE x # p
      <4>1. Idle(x)
        BY Zenon, <1>3, <3>2
      <4> QED BY Zenon, <4>1, IdleKeepsInv
    <3> QED BY Zenon, <3>1, <3>2
  <2> QED BY Zenon, <2>1
<1>5. \A x \in Participants : InboxInv(x)'
  BY Zenon, InboxKept
<1>6. Domains'
  BY Zenon, <1>0, DomainsKept
<1> QED
  BY Zenon, <1>4, <1>5, <1>6 DEF Inv, TypeOK, DirtyInv, MatchesSound, Provenance, AgentInv, InboxInv

\* Inv is an invariant of the agents.
LEMMA InvHolds ==
  Spec => []Inv
<1>1. Init => Inv
  <2> SUFFICES ASSUME Init PROVE Inv
    OBVIOUS
  <2>1. Domains
    BY DEF Init, Domains
  <2>2. ASSUME NEW x \in Participants PROVE AgentInv(x)
    <3>1. /\ local_endpoints[x] = <<>> /\ endpoints_dirty[x] = FALSE /\ pc[x] = "off"
          /\ todo[x] = {} /\ DOMAIN remotes[x] = {} /\ DOMAIN active_matches[x] = {}
      BY DEF Init, Empty
    <3>2. AgentTypeOK(x)
      <4>1. <<>> \in Seq(AllEndpoints)
        OBVIOUS
      <4>2. endpoints_dirty[x] \in BOOLEAN /\ pc[x] \in {"off", "recv", "dirty", "rematch", "reap", "dead"}
        BY Zenon, <3>1
      <4> QED BY Zenon, <3>1, <4>1, <4>2 DEF AgentTypeOK
    <3>3. DirtyOK(x)
      BY <3>1 DEF DirtyOK
    <3> QED BY Zenon, <3>1, <3>2, <3>3 DEF AgentInv
  <2>3. ASSUME NEW x \in Participants PROVE InboxInv(x)
    BY DEF Init, InboxInv
  <2> QED BY Zenon, <2>1, <2>2, <2>3, InvByAgent
<1>2. Inv /\ UNCHANGED vars => Inv'
  <2> SUFFICES ASSUME Inv, UNCHANGED vars PROVE Inv'
    OBVIOUS
  <2>1. \A x \in Participants : Idle(x)
    BY Zenon DEF Idle, vars
  <2>2. \A x \in Participants : AgentInv(x)' /\ InboxInv(x)'
    BY Zenon, <2>1, IdleKeepsInv, InboxKept
  <2>3. Domains'
    BY Zenon, DomainsKept, InvByAgent
  <2> QED
    BY Zenon, <2>2, <2>3 DEF Inv, TypeOK, DirtyInv, MatchesSound, Provenance, AgentInv, InboxInv
<1>3. Inv /\ [Next]_vars => Inv'
  BY Zenon, <1>2, NextKeepsInv
<1> QED
  BY <1>1, <1>3, PTL DEF Spec

\* No match is missed: at the head of its loop, with endpoints_dirty_ clear, an
\* agent has reported the match key of every compatible pair it knows of,
\* whatever the interleaving of add_endpoint with the loop.
THEOREM NoMissedMatchHolds ==
  Spec => []NoMissedMatch
<1>1. Inv => NoMissedMatch
  BY DEF Inv, DirtyInv, DirtyOK, NoMissedMatch
<1> QED
  BY <1>1, InvHolds, PTL

\* Every reported match is real, for any number of participants and any loss,
\* delay or reordering of announcements.
THEOREM MatchesSoundHolds ==
  Spec => []MatchesSound
<1>1. Inv => MatchesSound
  BY Zenon DEF Inv
<1> QED
  BY <1>1, InvHolds, PTL

\* A step of the agents on one match: it stays as it is, or its participant goes
\* with every match.
Sticks(p, k) ==
  \/ k \in DOMAIN active_matches'[p] /\ active_matches'[p][k] = active_matches[p][k]
  \/ LET q == active_matches[p][k].remote_participant_id
     IN /\ q \notin DOMAIN remotes'[p]
        /\ \A l \in DOMAIN active_matches'[p] :
             active_matches'[p][l].remote_participant_id # q

\* try_match keeps the matches there are.
LEMMA ReportedSticks ==
  ASSUME Inv, NEW p \in Participants, NEW q, NEW rs,
         active_matches' = [active_matches EXCEPT ![p] = Reported(p, q, rs)],
         NEW x \in Participants, NEW k \in DOMAIN active_matches[x]
  PROVE  Sticks(x, k)
<1>1. DOMAIN active_matches = Participants
  BY DEF Inv, TypeOK, Domains
<1>2. CASE x # p
  BY <1>1, <1>2 DEF Sticks
<1>3. CASE x = p
  <2>1. active_matches'[p] = Reported(p, q, rs)
    BY <1>1
  <2>2. k \in DOMAIN Reported(p, q, rs) /\ Reported(p, q, rs)[k] = active_matches[p][k]
    BY Zenon, <1>3 DEF Reported
  <2> QED
    BY <1>3, <2>1, <2>2 DEF Sticks
<1> QED
  BY <1>2, <1>3

\* reap_dead takes all matches of the remotes it takes, and no others.
LEMMA ReapSticks ==
  ASSUME Inv, NEW p \in Participants, reap_dead(p),
         NEW x \in Participants, NEW k \in DOMAIN active_matches[x]
  PROVE  Sticks(x, k)
<1> DEFINE dead == {q \in DOMAIN remotes[p] : remotes[p][q].stale}
<1>1. DOMAIN active_matches = Participants /\ DOMAIN remotes = Participants
  BY DEF Inv, TypeOK, Domains
<1>2. CASE x # p
  BY <1>1, <1>2 DEF reap_dead, Sticks
<1>3. CASE x = p
  <2>1. /\ remotes'[p] = [q \in DOMAIN remotes[p] \ dead |-> remotes[p][q]]
        /\ active_matches'[p] = [l \in Kept(p, dead) |-> active_matches[p][l]]
    BY <1>1 DEF reap_dead, Restrict
  <2> HIDE DEF dead
  <2>2. /\ DOMAIN remotes'[p] = DOMAIN remotes[p] \ dead
        /\ DOMAIN active_matches'[p] = Kept(p, dead)
        /\ \A l \in Kept(p, dead) : active_matches'[p][l] = active_matches[p][l]
    BY Zenon, <2>1
  <2>3. CASE k \in Kept(p, dead)
    BY Zenon, <1>3, <2>2, <2>3 DEF Sticks
  <2>4. CASE k \notin Kept(p, dead)
    <3>1. active_matches[p][k].remote_participant_id \in dead
      BY Zenon, <1>3, <2>4 DEF Kept
    <3>2. \A l \in Kept(p, dead) : active_matches[p][l].remote_participant_id \notin dead
      BY Zenon DEF Kept
    <3> QED
      BY Zenon, <1>3, <2>2, <3>1, <3>2 DEF Sticks
  <2> QED
    BY <2>3, <2>4
<1> QED
  BY <1>2, <1>3

\* A match is reported once and stays as it is until its participant is reaped
\* with all its matches, for any participants and any announcements: the data
\* plane is never told twice, nor of the end of one match only.
THEOREM MatchesStickHolds ==
  Spec => MatchesStick
<1>1. ASSUME Inv, [Next]_vars, NEW x \in Participants, NEW k \in DOMAIN active_matches[x]
      PROVE  Sticks(x, k)
  <2>1. CASE active_matches' = active_matches
    BY Zenon, <2>1 DEF Sticks
  <2>2. ASSUME NEW p \in Participants, NEW ann \in inbox[p], handle_announcement(p, ann)
        PROVE  Sticks(x, k)
    <3>1. \/ active_matches' = active_matches
          \/ active_matches' = [active_matches EXCEPT
                                  ![p] = Reported(p, ann.participant_id, ann.endpoints)]
      BY Zenon, <2>2 DEF handle_announcement
    <3> QED
      BY Zenon, <1>1, <2>1, <3>1, ReportedSticks
  <2>3. ASSUME NEW p \in Participants, NEW q \in todo[p], rematch_all(p, q)
        PROVE  Sticks(x, k)
    BY Zenon, <1>1, <2>3, ReportedSticks DEF rematch_all
  <2>4. ASSUME NEW p \in Participants, reap_dead(p)
        PROVE  Sticks(x, k)
    BY Zenon, <1>1, <2>4, ReapSticks
  <2> QED
    BY Zenon, <1>1, <2>1, <2>2, <2>3, <2>4 DEF Next, Loop, vars, add_endpoint, start,
       RecvTimeout, ConsumeDirty, announce, Expire, Halt
<1>2. Inv /\ [Next]_vars =>
        [\A p \in Participants : \A k \in DOMAIN active_matches[p] : Sticks(p, k)]_vars
  BY Zenon, <1>1
<1> QED
  BY <1>2, InvHolds, PTL DEF Spec, MatchesStick, Sticks
=============================================================================
