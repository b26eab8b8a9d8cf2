--------------------------- MODULE LocalBusProofs ---------------------------
(***************************************************************************)
(* Delivery within a process, for every set of Subscribers, of publishing  *)
(* and network threads, every Qos and every number of messages: the queue  *)
(* keeps what its Qos promises, the order of a publisher reaches every     *)
(* callback, and no Subscriber is used once it is destroyed.               *)
(***************************************************************************)
EXTENDS LocalBus, WellFoundedInduction, TLAPS

\* A leaf that names no prover goes to these two, in this order.
USE SMTT(30), ZenonT(30)

-----------------------------------------------------------------------------
(***************************************************************************)
(* Sequences                                                               *)
(***************************************************************************)

\* A non-empty set of naturals has a least element.
LEMMA LeastNat ==
  ASSUME NEW T, T \subseteq Nat, T # {}
  PROVE  \E x \in T : \A y \in T : x <= y
<1> DEFINE LT == {ss \in Nat \X Nat : ss[1] < ss[2]}
<1>1. LT = OpToRel(<, Nat)
  BY Zenon DEF OpToRel
<1>2. IsWellFoundedOn(LT, Nat)
  BY Zenon, <1>1, NatLessThanWellFounded
<1>3. PICK x \in T : \A y \in T : ~(<<y, x>> \in LT)
  <2> HIDE DEF LT
  <2> QED BY <1>2, WFMin, Zenon
<1>4. \A y \in T : y < x => <<y, x>> \in LT
  OBVIOUS
<1>5. \A y \in T : ~(y < x)
  <2> HIDE DEF LT
  <2> QED BY Zenon, <1>3, <1>4
<1>6. \A y \in T : x \in Nat /\ y \in Nat
  OBVIOUS
<1>7. \A y \in T : x <= y
  BY <1>5, <1>6
<1> QED
  BY Zenon, <1>7

\* Induction up to N, on the set of the numbers for which a formula holds.
LEMMA UpTo ==
  ASSUME NEW N \in Nat, NEW T, 0 \in T, \A n \in 1..N : n - 1 \in T => n \in T
  PROVE  0..N \subseteq T
<1> DEFINE Bad == (0..N) \ T
<1>1. SUFFICES ASSUME Bad # {} PROVE FALSE
  OBVIOUS
<1>2. PICK m \in Bad : \A k \in Bad : m <= k
  <2>1. Bad \subseteq Nat
    OBVIOUS
  <2> HIDE DEF Bad
  <2> QED BY Zenon, <1>1, <2>1, LeastNat
<1>3. m \in 1..N /\ m - 1 \in 0..N /\ ~(m <= m - 1)
  BY <1>2
<1> QED BY Zenon, <1>2, <1>3

\* f is defined by recursion up to N: it begins with v and goes on by step.
Recursive(f, N, v, step) ==
  \A i \in 0..N : f[i] = IF i = 0 THEN v ELSE step[i][f[i - 1]]

\* Such a function exists.
LEMMA Recursion ==
  ASSUME NEW N \in Nat, NEW V, NEW v \in V, NEW step \in [1..N -> [V -> V]]
  PROVE  \E f \in [0..N -> V] : Recursive(f, N, v, step)
<1> DEFINE Has(m) == \E f \in [0..m -> V] : Recursive(f, m, v, step)
           T == {m \in 0..N : Has(m)}
<1>1. 0 \in T
  <2> DEFINE f == [i \in 0..0 |-> v]
  <2>1. f \in [0..0 -> V] /\ Recursive(f, 0, v, step)
    BY DEF Recursive
  <2>2. Has(0)
    <3> HIDE DEF f
    <3> QED BY Zenon, <2>1
  <2> HIDE DEF Has
  <2> QED BY <2>2
<1>2. ASSUME NEW n \in 1..N, n - 1 \in T PROVE n \in T
  <2>1. PICK g \in [0..(n - 1) -> V] : Recursive(g, n - 1, v, step)
    BY <1>2
  <2> HIDE DEF T, Has
  <2> DEFINE w == step[n][g[n - 1]]
             f == [i \in 0..n |-> IF i = n THEN w ELSE g[i]]
  <2>2. w \in V
    <3>1. g[n - 1] \in V
      OBVIOUS
    <3> QED BY <3>1
  <2> HIDE DEF w
  <2>3. f \in [0..n -> V]
    BY <2>2
  <2>4. Recursive(f, n, v, step)
    <3>1. \A i \in 0..(n - 1) : f[i] = g[i]
      OBVIOUS
    <3>2. f[n] = w
      OBVIOUS
    <3> HIDE DEF f
    <3> SUFFICES ASSUME NEW i \in 0..n
                 PROVE  f[i] = IF i = 0 THEN v ELSE step[i][f[i - 1]]
      BY Zenon DEF Recursive
    <3>3. CASE i = n
      <4>1. i # 0 /\ n - 1 \in 0..(n - 1)
        BY <3>3
      <4> QED BY <4>1, <3>1, <3>2, <3>3 DEF w
    <3>4. CASE i # n
      <4>1. i \in 0..(n - 1) /\ (i # 0 => i - 1 \in 0..(n - 1))
        BY <3>4
      <4>2. g[i] = IF i = 0 THEN v ELSE step[i][g[i - 1]]
        BY Zenon, <2>1, <4>1 DEF Recursive
      <4> QED BY Zenon, <4>1, <4>2, <3>1
    <3> QED BY <3>3, <3>4
  <2> HIDE DEF f
  <2>5. Has(n)
    BY Zenon, <2>3, <2>4 DEF Has
  <2> QED BY <2>5 DEF T
<1>3. N \in T
  <2>1. 0..N \subseteq T
    <3> HIDE DEF T
    <3> QED BY Zenon, <1>1, <1>2, UpTo
  <2> HIDE DEF T
  <2> QED BY <2>1
<1> QED BY <1>3

\* The first element is taken away.
LEMMA FirstRemoved ==
  ASSUME NEW S, NEW s \in Seq(S), s # <<>>
  PROVE  Without(s, 1) = Tail(s)
<1>1. SubSeq(s, 2, Len(s)) = Tail(s)
  OBVIOUS
<1> QED BY <1>1 DEF Without

-----------------------------------------------------------------------------
(***************************************************************************)
(* The inductive invariant                                                 *)
(***************************************************************************)

\* The types that messages can have, and the messages.
Types == {TypeOf[s] : s \in Subs} \cup {PubType[t] : t \in Threads}
Msg == Callers \X Nat \X Types

\* The state of a thread's publish.
Outs == [msg : Msg \cup {<<>>}, todo : Seq(Subs), held : Seq(Subs)]

TypeOK ==
  /\ sinks \in Seq(Subs)
  /\ life \in [Subs -> {"unborn", "alive", "closing", "gone"}]
  /\ queue \in [Subs -> Seq(Msg)] /\ pushed \in [Subs -> Seq(Msg)]
  /\ got \in [Subs -> Seq(Msg)]
  /\ dropped \in [Subs -> Nat]
  /\ worker \in [Subs -> {"pop", "callback", "exited"}]
  /\ out \in [Callers -> Outs]
  /\ \A t \in Callers : out[t].todo # <<>> => out[t].msg \in Msg
  /\ sent \in Nat

\* No element twice.
Distinct(seq) == \A i, j \in DOMAIN seq : i # j => seq[i] # seq[j]

\* The bus and every publish have a Subscriber once, and one the bus has was
\* made.
OnceEach ==
  /\ Distinct(sinks)
  /\ \A i \in DOMAIN sinks : life[sinks[i]] # "unborn"
  /\ \A t \in Callers : Distinct(out[t].todo)

\* Of two messages of one thread, x was published before y.
Earlier(x, y) == x[1] = y[1] => x[2] < y[2]

\* The message of a publish under way is of its thread and has been counted.
OutMsg ==
  \A t \in Callers : out[t].todo # <<>> => out[t].msg[1] = t /\ out[t].msg[2] <= sent

\* What a worker took, what waits for it and what a publish still brings are in
\* the order of the publishers.
Ordered(s) ==
  /\ \A i, j \in DOMAIN got[s] : i < j => Earlier(got[s][i], got[s][j])
  /\ \A i, j \in DOMAIN queue[s] : i < j => Earlier(queue[s][i], queue[s][j])
  /\ \A i \in DOMAIN got[s], j \in DOMAIN queue[s] : Earlier(got[s][i], queue[s][j])
  /\ \A i \in DOMAIN got[s] : got[s][i][2] <= sent
  /\ \A i \in DOMAIN queue[s] : queue[s][i][2] <= sent
  /\ \A t \in Callers : s \in Range(out[t].todo) =>
       /\ \A i \in DOMAIN got[s] : Earlier(got[s][i], out[t].msg)
       /\ \A i \in DOMAIN queue[s] : Earlier(queue[s][i], out[t].msg)

-----------------------------------------------------------------------------
(***************************************************************************)
(* The steps                                                               *)
(***************************************************************************)

\* collect goes over the Subscribers once and keeps those that are alive.
LEMMA AliveSteps ==
  ASSUME sinks \in Seq(Subs)
  PROVE  \E f \in [0..Len(sinks) -> Seq(Subs)] :
           /\ f[0] = <<>>
           /\ \A i \in 1..Len(sinks) :
                f[i] = IF Locked(sinks[i]) THEN Append(f[i - 1], sinks[i]) ELSE f[i - 1]
           /\ Alive = f[Len(sinks)]
<1> DEFINE N == Len(sinks)
           Keep(i, v) == IF Locked(sinks[i]) THEN Append(v, sinks[i]) ELSE v
           Is(f) == f = [i \in 0..N |-> IF i = 0 THEN <<>> ELSE Keep(i, f[i - 1])]
           alive == CHOOSE f : Is(f)
           step == [i \in 1..N |-> [v \in Seq(Subs) |-> Keep(i, v)]]
<1>1. N \in Nat /\ <<>> \in Seq(Subs) /\ \A i \in 1..N : sinks[i] \in Subs
  OBVIOUS
<1>2. \A i \in 1..N, v \in Seq(Subs) : Keep(i, v) \in Seq(Subs)
  BY <1>1
<1> HIDE DEF Keep, N
<1>3. /\ step \in [1..N -> [Seq(Subs) -> Seq(Subs)]]
      /\ \A i \in 1..N, v \in Seq(Subs) : step[i][v] = Keep(i, v)
  BY Zenon, <1>2
<1> HIDE DEF step
<1>4. PICK g \in [0..N -> Seq(Subs)] : Recursive(g, N, <<>>, step)
  BY Zenon, <1>1, <1>3, Recursion
<1>5. \A i \in 0..N : i # 0 => i \in 1..N /\ i - 1 \in 0..N
  BY <1>1
<1>6. \A i \in 0..N : g[i] = IF i = 0 THEN <<>> ELSE Keep(i, g[i - 1])
  <2> SUFFICES ASSUME NEW i \in 0..N PROVE g[i] = IF i = 0 THEN <<>> ELSE Keep(i, g[i - 1])
    BY Zenon
  <2>1. i # 0 => g[i - 1] \in Seq(Subs)
    BY Zenon, <1>5
  <2> QED BY Zenon, <1>3, <1>4, <1>5, <2>1 DEF Recursive
<1>7. Is(g)
  BY Zenon, <1>6
<1>8. Is(alive)
  <2> HIDE DEF Is
  <2> QED BY Zenon, <1>7
<1>9. Alive = alive[N]
  BY DEF Alive, Keep, N
<1> HIDE DEF alive
<1>10. /\ alive = [i \in 0..N |-> alive[i]]
       /\ \A i \in 0..N : alive[i] = IF i = 0 THEN <<>> ELSE Keep(i, alive[i - 1])
  BY Zenon, <1>8
<1>11. 0 \in 0..N /\ alive[0] = <<>>
  <2>1. 0 \in 0..N
    BY <1>1
  <2> QED BY Zenon, <1>10, <2>1
<1>12. \A i \in 0..N : alive[i] \in Seq(Subs)
  <2> DEFINE T == {i \in 0..N : alive[i] \in Seq(Subs)}
  <2>1. 0 \in T
    BY Zenon, <1>1, <1>11
  <2>2. ASSUME NEW n \in 1..N, n - 1 \in T PROVE n \in T
    <3>1. n \in 0..N /\ n # 0
      BY <1>1
    <3>2. alive[n] = Keep(n, alive[n - 1])
      BY Zenon, <1>10, <3>1
    <3> QED BY Zenon, <1>2, <2>2, <3>1, <3>2
  <2>3. 0..N \subseteq T
    <3> HIDE DEF T
    <3> QED BY Zenon, <1>1, <2>1, <2>2, UpTo
  <2> QED BY Zenon, <2>3
<1>13. alive \in [0..N -> Seq(Subs)]
  BY Zenon, <1>10, <1>12
<1>14. \A i \in 1..N : alive[i] = Keep(i, alive[i - 1])
  <2>1. \A i \in 1..N : i \in 0..N /\ i # 0
    BY <1>1
  <2> QED BY Zenon, <1>10, <2>1
<1> QED BY Zenon, <1>9, <1>11, <1>13, <1>14 DEF N, Keep

\* It keeps each of them once.
LEMMA AliveFacts ==
  ASSUME sinks \in Seq(Subs)
  PROVE  /\ Alive \in Seq(Subs)
         /\ \A i \in DOMAIN Alive :
              Locked(Alive[i]) /\ \E j \in DOMAIN sinks : Alive[i] = sinks[j]
         /\ Distinct(sinks) => Distinct(Alive)
<1> DEFINE N == Len(sinks)
<1>1. N \in Nat /\ DOMAIN sinks = 1..N /\ \A i \in 1..N : sinks[i] \in Subs
  OBVIOUS
<1> HIDE DEF N
<1>2. PICK f \in [0..N -> Seq(Subs)] :
        /\ f[0] = <<>>
        /\ \A i \in 1..N : f[i] = IF Locked(sinks[i]) THEN Append(f[i - 1], sinks[i]) ELSE f[i - 1]
        /\ Alive = f[N]
  BY Zenon, AliveSteps DEF N
<1> DEFINE From(i) == \A a \in DOMAIN f[i] :
                        Locked(f[i][a]) /\ \E j \in 1..i : f[i][a] = sinks[j]
           Once(i) == Distinct(sinks) => Distinct(f[i])
           T == {i \in 0..N : From(i) /\ Once(i)}
<1>3. 0 \in T
  <2>1. 0 \in 0..N /\ DOMAIN f[0] = {}
    BY <1>1, <1>2
  <2> QED BY Zenon, <2>1 DEF Distinct
<1>4. ASSUME NEW m \in 1..N, m - 1 \in T PROVE m \in T
  <2> DEFINE n == m - 1
  <2>1. n \in 0..N /\ m \in 0..N /\ m \in Nat /\ n \in Nat /\ n < m /\ m = n + 1
    BY <1>1
  <2>2. f[m] = IF Locked(sinks[m]) THEN Append(f[n], sinks[m]) ELSE f[n]
    BY Zenon, <1>2
  <2>3. From(n) /\ Once(n)
    BY Zenon, <1>4
  <2> HIDE DEF n
  <2>4. f[n] \in Seq(Subs) /\ sinks[m] \in Subs
    BY <1>1, <2>1
  <2>5. CASE ~Locked(sinks[m])
    <3>1. f[m] = f[n]
      BY Zenon, <2>2, <2>5
    <3>2. From(m)
      BY <3>1, <2>1, <2>3
    <3>3. Once(m)
      BY Zenon, <3>1, <2>3
    <3> QED BY Zenon, <2>1, <3>2, <3>3
  <2>6. CASE Locked(sinks[m])
    <3>1. f[m] = Append(f[n], sinks[m])
      BY Zenon, <2>2, <2>6
    <3>2. /\ DOMAIN f[m] = 1..Len(f[n]) + 1 /\ DOMAIN f[n] = 1..Len(f[n])
          /\ Len(f[n]) \in Nat
          /\ \A a \in 1..Len(f[n]) : f[m][a] = f[n][a]
          /\ f[m][Len(f[n]) + 1] = sinks[m]
      BY <3>1, <2>4
    <3>3. From(m)
      BY <3>2, <2>1, <2>3, <2>6
    <3>4. ASSUME Distinct(sinks), NEW a \in DOMAIN f[m], NEW b \in DOMAIN f[m], a # b
          PROVE  f[m][a] # f[m][b]
      <4>1. \A c \in DOMAIN f[n] : f[n][c] # sinks[m]
        <5> SUFFICES ASSUME NEW c \in DOMAIN f[n] PROVE f[n][c] # sinks[m]
          BY Zenon
        <5>1. PICK j \in 1..n : f[n][c] = sinks[j]
          BY Zenon, <2>3
        <5>2. j # m /\ j \in DOMAIN sinks /\ m \in DOMAIN sinks
          BY <2>1, <1>1
        <5> QED BY Zenon, <5>1, <5>2, <3>4 DEF Distinct
      <4>2. Distinct(f[n])
        BY Zenon, <2>3, <3>4
      <4> QED BY <4>1, <4>2, <3>2, <3>4 DEF Distinct
    <3>5. Once(m)
      BY Zenon, <3>4 DEF Distinct
    <3> QED BY Zenon, <2>1, <3>3, <3>5
  <2> QED BY Zenon, <2>5, <2>6
<1>5. N \in T
  <2>1. 0..N \subseteq T
    <3> HIDE DEF T
    <3> QED BY Zenon, <1>1, <1>3, <1>4, UpTo
  <2> HIDE DEF T
  <2> QED BY <1>1, <2>1
<1>6. From(N) /\ Once(N) /\ f[N] \in Seq(Subs)
  BY Zenon, <1>5
<1> QED BY Zenon, <1>1, <1>2, <1>6

\* A publish or an inbound message collects the targets of one message, of a type
\* that a publisher or a Subscriber has.
LEMMA CollectType ==
  ASSUME NEW t \in Callers, Collect(t)
  PROVE  \E type \in Types : collect(t, type)
BY BusAssumption DEF Collect, Types

\* What collect leaves for the thread.
LEMMA CollectOut ==
  ASSUME TypeOK, NEW t \in Callers, Collect(t)
  PROVE  /\ out'[t] \in Outs /\ (out'[t].todo # <<>> => out'[t].msg \in Msg)
         /\ out' = [out EXCEPT ![t] = out'[t]]
         /\ out'[t].todo \in {<<>>, Alive} /\ out'[t].held \in {<<>>, Alive}
         /\ out'[t].todo # <<>> => out'[t].msg[1] = t /\ out'[t].msg[2] = sent + 1
         /\ sinks' = Alive
<1>1. PICK type \in Types : collect(t, type)
  BY CollectType
<1> DEFINE o == IF Alive = <<>> THEN Idle
                ELSE [msg |-> <<t, sent + 1, type>>, todo |-> Alive, held |-> Alive]
<1>2. out' = [out EXCEPT ![t] = o] /\ sinks' = Alive
  BY <1>1 DEF collect
<1>3. Alive \in Seq(Subs)
  BY AliveFacts DEF TypeOK
<1>4. <<t, sent + 1, type>> \in Msg
  BY DEF TypeOK, Msg
<1>5. o \in Outs /\ (o.todo # <<>> => o.msg = <<t, sent + 1, type>>)
  BY <1>3, <1>4 DEF Outs, Idle
<1>6. o.todo # <<>> => o.msg \in Msg /\ o.msg[1] = t /\ o.msg[2] = sent + 1
  <2> HIDE DEF o
  <2> QED BY <1>4, <1>5
<1>7. o.todo \in {<<>>, Alive} /\ o.held \in {<<>>, Alive}
  BY DEF Idle
<1>8. out'[t] = o
  <2> HIDE DEF o
  <2> QED BY <1>2 DEF TypeOK
<1> HIDE DEF o
<1> QED BY Zenon, <1>2, <1>5, <1>7, <1>8, <1>6

\* A worker that finds its queue not empty takes the oldest item.
LEMMA PopTakes ==
  ASSUME TypeOK, NEW s \in Subs, pop(s), queue[s] # <<>>
  PROVE  /\ queue[s] \in Seq(Msg)
         /\ queue' = [queue EXCEPT ![s] = Tail(queue[s])]
         /\ got' = [got EXCEPT ![s] = Append(got[s], queue[s][1])]
<1>1. queue[s] \in Seq(Msg) /\ Without(queue[s], 1) = Tail(queue[s])
  BY FirstRemoved DEF TypeOK
<1> QED BY <1>1 DEF pop, Popped, TypeOK

\* What an enqueue does: nothing on a closed queue; otherwise the item enters, at
\* the price of the oldest one when the queue is full.
LEMMA EnqueuePushes ==
  ASSUME TypeOK, NEW t \in Callers, Enqueue(t)
  PROVE  \E h \in Subs, item \in Msg :
           /\ h = Head(out[t].todo) /\ item = out[t].msg
           /\ \/ UNCHANGED queueVars
              \/ /\ Full(h) /\ queue[h] # <<>>
                 /\ queue' = [queue EXCEPT ![h] = Append(Tail(queue[h]), item)]
                 /\ dropped' = [dropped EXCEPT ![h] = dropped[h] + 1]
                 /\ pushed' = [pushed EXCEPT ![h] = Append(pushed[h], item)]
              \/ /\ ~Full(h)
                 /\ queue' = [queue EXCEPT ![h] = Append(queue[h], item)]
                 /\ dropped' = dropped
                 /\ pushed' = [pushed EXCEPT ![h] = Append(pushed[h], item)]
<1> DEFINE h == Head(out[t].todo)
           item == out[t].msg
<1>1. h \in Subs /\ item \in Msg
  BY DEF Enqueue, TypeOK, Outs
<1>2. push(h, item)
  BY DEF Enqueue
<1> HIDE DEF h, item
<1>3. Full(h) => queue[h] # <<>>
  BY <1>1, BusAssumption DEF Full, capacity, TypeOK
<1>4. \/ UNCHANGED queueVars
      \/ /\ Full(h) /\ queue[h] # <<>>
         /\ queue' = [queue EXCEPT ![h] = Append(Tail(queue[h]), item)]
         /\ dropped' = [dropped EXCEPT ![h] = dropped[h] + 1]
         /\ pushed' = [pushed EXCEPT ![h] = Append(pushed[h], item)]
      \/ /\ ~Full(h)
         /\ queue' = [queue EXCEPT ![h] = Append(queue[h], item)]
         /\ dropped' = dropped
         /\ pushed' = [pushed EXCEPT ![h] = Append(pushed[h], item)]
  <2>1. [dropped EXCEPT ![h] = dropped[h]] = dropped
    BY <1>1 DEF TypeOK
  <2> QED BY <1>2, <1>3, <2>1 DEF push
<1> QED BY Zenon, <1>1, <1>4 DEF h, item

\* Every step keeps the types.
LEMMA TypeStep ==
  ASSUME TypeOK, [Next]_vars
  PROVE  TypeOK'
<1> USE DEF busVars, subVars, queueVars
<1>1. ASSUME NEW s \in Subs, subscribe(s) PROVE TypeOK'
  BY <1>1 DEF subscribe, TypeOK
<1>2. ASSUME NEW s \in Subs, pop(s) PROVE TypeOK'
  <2>1. CASE queue[s] = <<>>
    BY Zenon, <1>2, <2>1 DEF pop, TypeOK
  <2>2. CASE queue[s] # <<>>
    <3>1. /\ queue[s] \in Seq(Msg)
          /\ queue' = [queue EXCEPT ![s] = Tail(queue[s])]
          /\ got' = [got EXCEPT ![s] = Append(got[s], queue[s][1])]
      BY <1>2, <2>2, PopTakes
    <3>2. Tail(queue[s]) \in Seq(Msg) /\ queue[s][1] \in Msg
      BY <2>2, <3>1
    <3>3. queue' \in [Subs -> Seq(Msg)]
      BY <3>1, <3>2 DEF TypeOK
    <3>4. got' \in [Subs -> Seq(Msg)]
      <4>1. Append(got[s], queue[s][1]) \in Seq(Msg)
        BY <3>2 DEF TypeOK
      <4> QED BY <3>1, <4>1 DEF TypeOK
    <3> QED BY Zenon, <1>2, <2>2, <3>3, <3>4 DEF pop, TypeOK
  <2> QED BY <2>1, <2>2
<1>3. ASSUME NEW s \in Subs, Return(s) PROVE TypeOK'
  BY <1>3 DEF Return, TypeOK
<1>4. ASSUME NEW s \in Subs, Disown(s) PROVE TypeOK'
  BY <1>4 DEF Disown, LetGo, TypeOK
<1>5. ASSUME NEW s \in Subs, Join(s) PROVE TypeOK'
  BY <1>5 DEF Join, TypeOK
<1>6. ASSUME NEW t \in Threads, register_publisher(t) PROVE TypeOK'
  BY <1>6 DEF register_publisher, TypeOK
<1>7. ASSUME NEW t \in Callers, Collect(t) PROVE TypeOK'
  <2>1. Alive \in Seq(Subs)
    BY AliveFacts DEF TypeOK
  <2> DEFINE o == out'[t]
  <2>2. /\ o \in Outs /\ (o.todo # <<>> => o.msg \in Msg)
        /\ out' = [out EXCEPT ![t] = o] /\ sinks' = Alive
    BY <1>7, CollectOut
  <2>3. UNCHANGED <<life, queueVars, worker, got>> /\ sent' = sent + 1
    BY <1>7 DEF Collect
  <2> HIDE DEF o
  <2> QED BY <2>1, <2>2, <2>3 DEF TypeOK
<1>8. ASSUME NEW t \in Callers, Enqueue(t) PROVE TypeOK'
  <2>1. Head(out[t].todo) \in Subs /\ Tail(out[t].todo) \in Seq(Subs) /\ out[t].msg \in Msg
    BY <1>8 DEF Enqueue, TypeOK, Outs
  <2>2. out' \in [Callers -> Outs] /\ \A u \in Callers : out'[u].msg = out[u].msg
    BY Zenon, <1>8, <2>1 DEF Enqueue, TypeOK, Outs
  <2>3. \A u \in Callers : out'[u].todo # <<>> => out'[u].msg \in Msg
    BY <1>8, <2>1, <2>2 DEF Enqueue, TypeOK, Outs
  <2>4. queue' \in [Subs -> Seq(Msg)] /\ pushed' \in [Subs -> Seq(Msg)] /\ dropped' \in [Subs -> Nat]
    <3>1. PICK h \in Subs, item \in Msg :
              \/ UNCHANGED queueVars
              \/ /\ queue[h] # <<>>
                 /\ queue' = [queue EXCEPT ![h] = Append(Tail(queue[h]), item)]
                 /\ dropped' = [dropped EXCEPT ![h] = dropped[h] + 1]
                 /\ pushed' = [pushed EXCEPT ![h] = Append(pushed[h], item)]
              \/ /\ queue' = [queue EXCEPT ![h] = Append(queue[h], item)]
                 /\ dropped' = dropped
                 /\ pushed' = [pushed EXCEPT ![h] = Append(pushed[h], item)]
      BY <1>8, EnqueuePushes
    <3>2. queue[h] \in Seq(Msg) /\ (queue[h] # <<>> => Tail(queue[h]) \in Seq(Msg))
      BY DEF TypeOK
    <3>3. /\ queue[h] # <<>> => Append(Tail(queue[h]), item) \in Seq(Msg)
          /\ Append(queue[h], item) \in Seq(Msg)
          /\ Append(pushed[h], item) \in Seq(Msg)
      BY <3>2 DEF TypeOK
    <3>4. CASE UNCHANGED queueVars
      BY <3>4 DEF TypeOK
    <3>5. CASE UNCHANGED dropped /\ queue' = [queue EXCEPT ![h] = Append(queue[h], item)]
               /\ pushed' = [pushed EXCEPT ![h] = Append(pushed[h], item)]
      BY <3>3, <3>5 DEF TypeOK
    <3>6. CASE /\ queue[h] # <<>>
               /\ queue' = [queue EXCEPT ![h] = Append(Tail(queue[h]), item)]
               /\ dropped' = [dropped EXCEPT ![h] = dropped[h] + 1]
               /\ pushed' = [pushed EXCEPT ![h] = Append(pushed[h], item)]
      BY <3>3, <3>6 DEF TypeOK
    <3> QED BY <3>1, <3>4, <3>5, <3>6
  <2> QED BY Zenon, <1>8, <2>2, <2>3, <2>4 DEF Enqueue, TypeOK
<1>9. ASSUME NEW t \in Callers, Release(t) PROVE TypeOK'
  <2> DEFINE rest == Tail(out[t].held)
             o == IF rest = <<>> THEN Idle ELSE [out[t] EXCEPT !.held = rest]
  <2>1. out[t] \in Outs /\ out[t].todo = <<>> /\ out[t].held # <<>>
    BY <1>9 DEF Release, TypeOK
  <2>2. rest \in Seq(Subs)
    BY <2>1 DEF Outs
  <2>3. out' = [out EXCEPT ![t] = o]
    BY <1>9 DEF Release
  <2>4. o \in Outs /\ o.todo = <<>>
    <3> HIDE DEF rest
    <3> QED BY <2>1, <2>2 DEF Outs, Idle
  <2>5. out' \in [Callers -> Outs] /\ \A u \in Callers : out'[u].todo # <<>> => out'[u].msg \in Msg
    <3> HIDE DEF o, rest
    <3> QED BY <2>3, <2>4 DEF TypeOK
  <2>6. Head(out[t].held) \in Subs
    BY <2>1 DEF Outs
  <2>7. life' \in [Subs -> {"unborn", "alive", "closing", "gone"}]
    BY Zenon, <1>9, <2>6 DEF Release, LetGo, TypeOK
  <2>8. UNCHANGED <<sinks, queueVars, worker, sent, got>>
    BY <1>9 DEF Release
  <2> HIDE DEF o, rest
  <2> QED BY <2>5, <2>7, <2>8 DEF TypeOK
<1>10. ASSUME UNCHANGED vars PROVE TypeOK'
  BY <1>10 DEF vars, TypeOK
<1> QED BY <1>1, <1>2, <1>3, <1>4, <1>5, <1>6, <1>7, <1>8, <1>9, <1>10 DEF Next

-----------------------------------------------------------------------------
(***************************************************************************)
(* Lifetimes                                                               *)
(***************************************************************************)

\* No step destroys a Subscriber that is in use.
LEMMA LifetimeStep ==
  ASSUME TypeOK, NoUseAfterDestroy, [Next]_vars
  PROVE  NoUseAfterDestroy'
<1> USE DEF busVars, subVars, queueVars
<1>1. ASSUME NEW s \in Subs, subscribe(s) PROVE NoUseAfterDestroy'
  BY <1>1 DEF subscribe, TypeOK, NoUseAfterDestroy
<1>2. ASSUME NEW s \in Subs, pop(s) PROVE NoUseAfterDestroy'
  BY <1>2 DEF pop, TypeOK, NoUseAfterDestroy
<1>3. ASSUME NEW s \in Subs, Return(s) PROVE NoUseAfterDestroy'
  BY Zenon, <1>3 DEF Return, TypeOK, NoUseAfterDestroy
<1>4. ASSUME NEW s \in Subs, Disown(s) PROVE NoUseAfterDestroy'
  <2>1. HeldByOthers(Main) = UNION {Range(out[u].held) : u \in Callers}
    BY BusAssumption DEF HeldByOthers
  <2> QED BY <1>4, <2>1 DEF Disown, LetGo, TypeOK, NoUseAfterDestroy
<1>5. ASSUME NEW s \in Subs, Join(s) PROVE NoUseAfterDestroy'
  BY <1>5 DEF Join, Joined, TypeOK, NoUseAfterDestroy
<1>6. ASSUME NEW t \in Threads, register_publisher(t) PROVE NoUseAfterDestroy'
  BY <1>6 DEF register_publisher, TypeOK, NoUseAfterDestroy
<1>7. ASSUME NEW t \in Callers, Collect(t) PROVE NoUseAfterDestroy'
  <2>1. \A i \in DOMAIN Alive : life[Alive[i]] = "alive"
    BY AliveFacts DEF TypeOK, Locked
  <2> DEFINE o == out'[t]
  <2>2. out' = [out EXCEPT ![t] = o] /\ o.held \in {<<>>, Alive}
    BY <1>7, CollectOut
  <2>3. UNCHANGED <<life, worker>>
    BY <1>7 DEF Collect
  <2> HIDE DEF o
  <2>4. \A s \in Subs : s \in Range(o.held) => life[s] = "alive"
    BY <2>1, <2>2 DEF Range
  <2> QED BY <2>2, <2>3, <2>4 DEF TypeOK, NoUseAfterDestroy
<1>8. ASSUME NEW t \in Callers, Enqueue(t) PROVE NoUseAfterDestroy'
  <2>1. \A u \in Callers : out'[u].held = out[u].held
    BY <1>8 DEF Enqueue, TypeOK, Outs
  <2>2. UNCHANGED <<life, worker>>
    BY <1>8 DEF Enqueue
  <2> QED BY <2>1, <2>2 DEF NoUseAfterDestroy
<1>9. ASSUME NEW t \in Callers, Release(t) PROVE NoUseAfterDestroy'
  <2> DEFINE h == Head(out[t].held)
             rest == Tail(out[t].held)
  <2>1. out[t] \in Outs /\ out[t].held # <<>> /\ out[t].held \in Seq(Subs)
    BY <1>9 DEF Release, TypeOK, Outs
  <2>2. h \in Subs /\ Range(rest) \subseteq Range(out[t].held)
    BY <2>1 DEF Range
  <2>3. LetGo(t, h, owned \cup HeldByOthers(t) \cup Range(rest)) /\ worker' = worker
    BY <1>9 DEF Release
  <2>4. out'[t].held = rest /\ \A u \in Callers : u # t => out'[u] = out[u]
    BY Zenon, <1>9, <2>1 DEF Release, TypeOK, Outs, Idle
  <2> HIDE DEF h, rest
  <2>5. \A s \in Subs : \A u \in Callers : s \in Range(out'[u].held) =>
          s \in Range(out[u].held) /\ (u # t => s \in HeldByOthers(t)) /\ (u = t => s \in Range(rest))
    BY <2>2, <2>4 DEF HeldByOthers
  <2>6. /\ \A s \in Subs : life'[s] # life[s] =>
             s = h /\ life'[s] = "closing" /\ s \notin HeldByOthers(t) /\ s \notin Range(rest)
        /\ \A s \in Subs : life'[s] = "gone" => life[s] = "gone"
    BY <2>2, <2>3 DEF LetGo, TypeOK
  <2> QED BY <2>3, <2>5, <2>6 DEF NoUseAfterDestroy
<1>10. ASSUME UNCHANGED vars PROVE NoUseAfterDestroy'
  BY <1>10 DEF vars, NoUseAfterDestroy
<1> QED BY <1>1, <1>2, <1>3, <1>4, <1>5, <1>6, <1>7, <1>8, <1>9, <1>10 DEF Next

\* The state of a bus without Subscribers has its types.
LEMMA TypeInit ==
  ASSUME Init
  PROVE  TypeOK
BY DEF Init, TypeOK, Outs, Idle

\* The types are an invariant.
LEMMA TypeInvariant == Spec => []TypeOK
<1>1. Init => TypeOK
  BY TypeInit
<1>2. TypeOK /\ [Next]_vars => TypeOK'
  BY TypeStep
<1> QED BY <1>1, <1>2, PTL DEF Spec

\* LocalBus::publish and ~Subscriber: a Subscriber that a publish holds, or whose
\* worker is not through, is not destroyed, whichever thread lets go of it last.
THEOREM NoUseAfterDestroyHolds == Spec => []NoUseAfterDestroy
<1>1. Init => NoUseAfterDestroy
  BY DEF Init, NoUseAfterDestroy, Idle, Range
<1>2. TypeOK /\ NoUseAfterDestroy /\ [Next]_vars => NoUseAfterDestroy'
  BY LifetimeStep
<1> QED BY <1>1, <1>2, TypeInvariant, PTL DEF Spec

-----------------------------------------------------------------------------
(***************************************************************************)
(* The queues                                                              *)
(***************************************************************************)

\* What waits in the queue of s are the last of what was pushed, position by
\* position.
Keeps(s) ==
  /\ capacity(s) > 0 => Len(queue[s]) <= capacity(s)
  /\ Len(pushed[s]) = Len(got[s]) + Len(queue[s]) + dropped[s]
  /\ \A i \in 1..Len(queue[s]) :
       queue[s][i] = pushed[s][Len(pushed[s]) - Len(queue[s]) + i]
  /\ capacity(s) = 0 => dropped[s] = 0

\* Every step keeps the last messages in the queues.
LEMMA KeepStep ==
  ASSUME TypeOK, TypeOK', \A s \in Subs : Keeps(s), [Next]_vars
  PROVE  \A s \in Subs : Keeps(s)'
<1> USE DEF busVars, subVars, queueVars
<1>1. SUFFICES ASSUME NEW s \in Subs PROVE Keeps(s)'
  OBVIOUS
<1>2. /\ queue[s] \in Seq(Msg) /\ pushed[s] \in Seq(Msg) /\ got[s] \in Seq(Msg)
      /\ dropped[s] \in Nat /\ capacity(s) \in Nat
  BY BusAssumption DEF TypeOK, capacity
<1>3. PICK Q \in Nat, P \in Nat, G \in Nat, D \in Nat, C \in Nat :
      /\ Q = Len(queue[s]) /\ P = Len(pushed[s]) /\ G = Len(got[s])
      /\ D = dropped[s] /\ C = capacity(s)
  BY <1>2
<1>4. Keeps(s)
  OBVIOUS
<1>5. /\ C > 0 => Q <= C
      /\ P = G + Q + D
      /\ \A i \in 1..Q : queue[s][i] = pushed[s][P - Q + i]
      /\ C = 0 => D = 0
  BY Zenon, <1>3, <1>4 DEF Keeps
<1>6. ASSUME queue'[s] = queue[s], pushed'[s] = pushed[s], got'[s] = got[s], dropped'[s] = dropped[s]
      PROVE  Keeps(s)'
  BY Zenon, <1>4, <1>6 DEF Keeps, capacity
<1>7. ASSUME UNCHANGED <<queue, pushed, got, dropped>> PROVE Keeps(s)'
  BY <1>6, <1>7
<1>8. ASSUME NEW x \in Subs, pop(x) PROVE Keeps(s)'
  <2>1. CASE queue[x] = <<>>
    BY <1>7, <1>8, <2>1 DEF pop
  <2>2. CASE queue[x] # <<>>
    <3>1. /\ queue' = [queue EXCEPT ![x] = Tail(queue[x])]
          /\ got' = [got EXCEPT ![x] = Append(got[x], queue[x][1])]
      BY <1>8, <2>2, PopTakes
    <3>2. pushed' = pushed /\ dropped' = dropped
      BY <1>8 DEF pop
    <3>3. CASE x # s
      BY <1>6, <3>1, <3>2, <3>3 DEF TypeOK
    <3>4. CASE x = s
      <4>1. queue'[s] = Tail(queue[s]) /\ got'[s] = Append(got[s], queue[s][1])
        BY ZenonT(30), <3>1, <3>4 DEF TypeOK
      <4>2. Len(got'[s]) = G + 1
        BY <4>1, <1>2, <1>3
      <4>3. Q >= 1 /\ Len(queue'[s]) = Q - 1 /\ \A i \in 1..Q - 1 : queue'[s][i] = queue[s][i + 1]
        BY <4>1, <1>2, <1>3, <2>2, <3>4
      <4>4. \A i \in 1..Q - 1 : queue'[s][i] = pushed[s][P - (Q - 1) + i]
        <5> TAKE i \in 1..Q - 1
        <5>1. i + 1 \in 1..Q /\ P - Q + (i + 1) = P - (Q - 1) + i
          BY <4>3
        <5>2. queue[s][i + 1] = pushed[s][P - Q + (i + 1)]
          BY <5>1, <1>5
        <5> QED BY <5>1, <5>2, <4>3
      <4>5. P = (G + 1) + (Q - 1) + D /\ (C > 0 => Q - 1 <= C)
        BY <1>5, <4>3
      <4> QED BY Zenon, <1>3, <1>5, <3>2, <4>2, <4>3, <4>4, <4>5 DEF Keeps, capacity
    <3> QED BY <3>3, <3>4
  <2> QED BY <2>1, <2>2
<1>9. ASSUME NEW t \in Callers, Enqueue(t) PROVE Keeps(s)'
  <2>1. PICK h \in Subs, item \in Msg :
              \/ UNCHANGED queueVars
              \/ /\ Full(h) /\ queue[h] # <<>>
                 /\ queue' = [queue EXCEPT ![h] = Append(Tail(queue[h]), item)]
                 /\ dropped' = [dropped EXCEPT ![h] = dropped[h] + 1]
                 /\ pushed' = [pushed EXCEPT ![h] = Append(pushed[h], item)]
              \/ /\ ~Full(h)
                 /\ queue' = [queue EXCEPT ![h] = Append(queue[h], item)]
                 /\ dropped' = dropped
                 /\ pushed' = [pushed EXCEPT ![h] = Append(pushed[h], item)]
    BY <1>9, EnqueuePushes
  <2>2. got' = got
    BY <1>9 DEF Enqueue
  <2>3. CASE UNCHANGED queueVars
    BY <1>7, <2>2, <2>3
  <2>4. CASE h # s
    <3>1. queue'[s] = queue[s] /\ pushed'[s] = pushed[s] /\ dropped'[s] = dropped[s]
      BY ZenonT(30), <2>1, <2>4 DEF TypeOK
    <3> QED BY <1>6, <2>2, <3>1
  <2>5. CASE h = s /\ Full(h) /\ ~UNCHANGED queueVars
    <3>1. /\ queue[s] # <<>> /\ queue'[s] = Append(Tail(queue[s]), item)
          /\ dropped'[s] = dropped[s] + 1 /\ pushed'[s] = Append(pushed[s], item)
      BY Zenon, <2>1, <2>5 DEF TypeOK
    <3>2. C > 0 /\ Q >= C
      BY <1>3, <2>5 DEF Full
    <3>3. Q = C
      BY <3>2, <1>5
    <3>4. Tail(queue[s]) \in Seq(Msg) /\ Len(Tail(queue[s])) = Q - 1
          /\ \A i \in 1..Q - 1 : Tail(queue[s])[i] = queue[s][i + 1]
      BY <3>1, <1>2, <1>3
    <3>5. /\ Len(queue'[s]) = Q /\ queue'[s][Q] = item
          /\ \A i \in 1..Q - 1 : queue'[s][i] = queue[s][i + 1]
      <4> DEFINE tail == Tail(queue[s])
      <4>1. queue'[s] = Append(tail, item) /\ tail \in Seq(Msg) /\ Len(tail) = Q - 1
        BY <3>1, <3>4
      <4> HIDE DEF tail
      <4>2. /\ Len(queue'[s]) = Q /\ queue'[s][Q] = item
            /\ \A i \in 1..Q - 1 : queue'[s][i] = tail[i]
        BY <4>1, <1>2
      <4> QED BY <4>2, <3>4 DEF tail
    <3>6. /\ Len(pushed'[s]) = P + 1 /\ pushed'[s][P + 1] = item
          /\ \A i \in 1..P : pushed'[s][i] = pushed[s][i]
      BY <3>1, <1>2, <1>3
    <3>8. \A i \in 1..Q : queue'[s][i] = pushed'[s][(P + 1) - Q + i]
      <4> TAKE i \in 1..Q
      <4>1. CASE i = Q
        BY <4>1, <3>5, <3>6
      <4>2. CASE i # Q
        <5>1. /\ i \in 1..Q - 1 /\ i + 1 \in 1..Q
              /\ P - Q + (i + 1) = (P + 1) - Q + i /\ P - Q + (i + 1) \in 1..P
          BY <4>2, <1>5
        <5>2. queue[s][i + 1] = pushed[s][P - Q + (i + 1)]
          BY <5>1, <1>5
        <5> QED BY Zenon, <5>1, <5>2, <3>5, <3>6
      <4> QED BY <4>1, <4>2
    <3>9. P + 1 = G + Q + (D + 1)
      BY <1>5
    <3>10. C = capacity(s) /\ C > 0 /\ Q <= C
      BY <1>3, <3>2, <3>3
    <3>11. Len(got'[s]) = G /\ dropped'[s] = D + 1
      BY <1>3, <2>2, <3>1
    <3> QED BY <3>5, <3>6, <3>8, <3>9, <3>10, <3>11 DEF Keeps, capacity
  <2>6. CASE h = s /\ ~Full(h) /\ ~UNCHANGED queueVars
    <3>1. /\ queue'[s] = Append(queue[s], item)
          /\ dropped'[s] = dropped[s] /\ pushed'[s] = Append(pushed[s], item)
      BY Zenon, <2>1, <2>6 DEF TypeOK
    <3>2. C > 0 => Q + 1 <= C
      BY <1>3, <2>6 DEF Full
    <3>3. /\ Len(queue'[s]) = Q + 1 /\ queue'[s][Q + 1] = item
          /\ \A i \in 1..Q : queue'[s][i] = queue[s][i]
      BY <3>1, <1>2, <1>3
    <3>4. /\ Len(pushed'[s]) = P + 1 /\ pushed'[s][P + 1] = item
          /\ \A i \in 1..P : pushed'[s][i] = pushed[s][i]
      BY <3>1, <1>2, <1>3
    <3>6. \A i \in 1..Q + 1 : queue'[s][i] = pushed'[s][(P + 1) - (Q + 1) + i]
      <4> TAKE i \in 1..Q + 1
      <4>1. CASE i = Q + 1
        <5>1. (P + 1) - (Q + 1) + i = P + 1
          BY <4>1
        <5> QED BY <5>1, <4>1, <3>3, <3>4
      <4>2. CASE i # Q + 1
        <5>1. i \in 1..Q /\ P - Q + i = (P + 1) - (Q + 1) + i /\ P - Q + i \in 1..P
          BY <4>2, <1>5
        <5>2. queue[s][i] = pushed[s][P - Q + i]
          BY <5>1, <1>5
        <5> QED BY <5>1, <5>2, <3>3, <3>4
      <4> QED BY <4>1, <4>2
    <3>7. P + 1 = G + (Q + 1) + D
      BY <1>5
    <3> QED BY Zenon, <1>3, <1>5, <2>2, <3>1, <3>2, <3>3, <3>4, <3>6, <3>7 DEF Keeps, capacity
  <2> QED BY <2>3, <2>4, <2>5, <2>6
<1>10. ASSUME NEW x \in Subs, subscribe(x) \/ Return(x) \/ Disown(x) \/ Join(x) PROVE Keeps(s)'
  BY Zenon, <1>7, <1>10 DEF subscribe, Return, Disown, Join
<1>11. ASSUME NEW t \in Threads, register_publisher(t) PROVE Keeps(s)'
  BY <1>7, <1>11 DEF register_publisher
<1>12. ASSUME NEW t \in Callers, Collect(t) \/ Release(t) PROVE Keeps(s)'
  BY <1>7, <1>12 DEF Collect, Release
<1>13. ASSUME UNCHANGED vars PROVE Keeps(s)'
  BY <1>7, <1>13 DEF vars
<1> QED BY <1>8, <1>9, <1>10, <1>11, <1>12, <1>13 DEF Next

\* What waits are the last messages pushed.
LEMMA KeepsSuffix ==
  ASSUME NEW q \in Seq(Msg), NEW p \in Seq(Msg), Len(q) <= Len(p),
         \A i \in 1..Len(q) : q[i] = p[Len(p) - Len(q) + i]
  PROVE  \E n \in 0..Len(p) : q = SubSeq(p, n + 1, Len(p))
<1> DEFINE n == Len(p) - Len(q)
           r == SubSeq(p, n + 1, Len(p))
<1>1. n \in 0..Len(p) /\ n + 1 \in 1..(Len(p) + 1)
  OBVIOUS
<1>2. r \in Seq(Msg) /\ Len(r) = Len(q) /\ \A i \in 1..Len(q) : r[i] = p[n + i]
  BY <1>1
<1> HIDE DEF r, n
<1>3. q = r
  BY <1>2 DEF n
<1> QED BY Zenon, <1>1, <1>3 DEF r

\* BlockingQueue: with KEEP_LAST what waits are the last messages pushed, at most
\* depth of them, every message is handled, waits or is counted as dropped, and
\* with KEEP_ALL none is dropped, whatever the depth and however the publishers
\* and the worker interleave.
THEOREM KeepLastHolds == Spec => []KeepLast
<1> DEFINE Inv == \A s \in Subs : Keeps(s)
<1>1. Init => Inv
  <2> SUFFICES ASSUME Init, NEW s \in Subs PROVE Keeps(s)
    OBVIOUS
  <2>1. queue[s] = <<>> /\ pushed[s] = <<>> /\ got[s] = <<>> /\ dropped[s] = 0
    BY DEF Init
  <2> QED BY <2>1, BusAssumption DEF Keeps, capacity
<1>2. TypeOK /\ TypeOK' /\ Inv /\ [Next]_vars => Inv'
  BY KeepStep
<1>3. TypeOK /\ Inv => KeepLast
  <2> SUFFICES ASSUME TypeOK, Inv, NEW s \in Subs
               PROVE  \E n \in 0..Len(pushed[s]) : queue[s] = SubSeq(pushed[s], n + 1, Len(pushed[s]))
    BY Zenon DEF Keeps, KeepLast
  <2>1. /\ queue[s] \in Seq(Msg) /\ pushed[s] \in Seq(Msg) /\ got[s] \in Seq(Msg)
        /\ dropped[s] \in Nat
    BY DEF TypeOK
  <2>2. Len(queue[s]) <= Len(pushed[s])
    <3>1. PICK Q \in Nat, P \in Nat, G \in Nat, D \in Nat :
            Q = Len(queue[s]) /\ P = Len(pushed[s]) /\ G = Len(got[s]) /\ D = dropped[s]
      BY <2>1
    <3>2. P = G + Q + D
      BY Zenon, <3>1 DEF Keeps
    <3>3. Q <= P
      BY <3>2
    <3> QED BY <3>1, <3>3
  <2>3. \A i \in 1..Len(queue[s]) : queue[s][i] = pushed[s][Len(pushed[s]) - Len(queue[s]) + i]
    BY Zenon DEF Keeps
  <2> QED BY Zenon, <2>1, <2>2, <2>3, KeepsSuffix
<1> QED BY <1>1, <1>2, <1>3, TypeInvariant, PTL DEF Spec

-----------------------------------------------------------------------------
(***************************************************************************)
(* The order of the publishers                                             *)
(***************************************************************************)

\* What is left of a sequence without duplicates has none.
LEMMA DistinctTail ==
  ASSUME NEW seq \in Seq(Subs), seq # <<>>, Distinct(seq)
  PROVE  Distinct(Tail(seq)) /\ Head(seq) \notin Range(Tail(seq)) /\ Head(seq) \in Range(seq)
         /\ Range(Tail(seq)) \subseteq Range(seq)
<1> DEFINE tail == Tail(seq)
<1>1. PICK n \in Nat : n = Len(seq)
  OBVIOUS
<1>2. /\ n >= 1 /\ DOMAIN seq = 1..n /\ DOMAIN tail = 1..n - 1
      /\ \A i \in 1..n - 1 : tail[i] = seq[i + 1]
  BY <1>1
<1>3. Head(seq) = seq[1]
  OBVIOUS
<1> HIDE DEF tail
<1>4. \A i \in 1..n - 1 : i + 1 \in 1..n /\ i + 1 # 1
  BY <1>2
<1>5. Distinct(tail)
  <2> SUFFICES ASSUME NEW i \in 1..n - 1, NEW j \in 1..n - 1, i # j PROVE seq[i + 1] # seq[j + 1]
    BY Zenon, <1>2 DEF Distinct
  <2>1. i + 1 \in DOMAIN seq /\ j + 1 \in DOMAIN seq /\ i + 1 # j + 1
    BY <1>2, <1>4
  <2> QED BY <2>1 DEF Distinct
<1>6. Head(seq) \notin Range(tail) /\ Head(seq) \in Range(seq)
  BY <1>2, <1>3, <1>4 DEF Distinct, Range
<1>7. Range(tail) \subseteq Range(seq)
  BY <1>2, <1>4 DEF Range
<1> QED BY <1>5, <1>6, <1>7 DEF tail

\* What an enqueue leaves of the targets.
LEMMA EnqueueTodo ==
  ASSUME TypeOK, NEW t \in Callers, Enqueue(t)
  PROVE  /\ out[t].todo \in Seq(Subs) /\ out[t].todo # <<>>
         /\ out'[t].todo = Tail(out[t].todo) /\ out'[t].msg = out[t].msg
         /\ \A u \in Callers : u # t => out'[u] = out[u]
BY DEF Enqueue, TypeOK, Outs

\* A release is of a publish that has no target left.
LEMMA ReleaseTodo ==
  ASSUME TypeOK, NEW t \in Callers, Release(t)
  PROVE  out'[t].todo = <<>> /\ \A u \in Callers : u # t => out'[u] = out[u]
BY DEF Release, TypeOK, Outs, Idle

\* Every step keeps each Subscriber once in the lists.
LEMMA OnceStep ==
  ASSUME TypeOK, TypeOK', OnceEach, [Next]_vars
  PROVE  OnceEach'
<1> USE DEF busVars, subVars, queueVars
<1>a. sinks \in Seq(Subs) /\ life = [s \in Subs |-> life[s]]
  BY Zenon DEF TypeOK
<1>b. \A i \in DOMAIN sinks : sinks[i] \in Subs
  BY <1>a
<1>1. ASSUME NEW s \in Subs, subscribe(s) PROVE OnceEach'
  <2>1. life[s] = "unborn" /\ out' = out /\ life' = [life EXCEPT ![s] = "alive"]
        /\ sinks' \in {sinks, Append(sinks, s)}
    BY <1>1 DEF subscribe
  <2>2. \A t \in Callers : Distinct(out'[t].todo)
    BY <2>1 DEF OnceEach
  <2>3. \A i \in DOMAIN sinks : sinks[i] \in Subs /\ sinks[i] # s /\ life'[sinks[i]] # "unborn"
    BY ZenonT(30), <1>a, <1>b, <2>1 DEF OnceEach
  <2>4. CASE sinks' = sinks
    BY <2>2, <2>3, <2>4 DEF OnceEach
  <2>5. CASE sinks' = Append(sinks, s)
    <3>1. PICK n \in Nat : n = Len(sinks)
      BY DEF TypeOK
    <3>2. /\ DOMAIN sinks = 1..n /\ DOMAIN sinks' = 1..n + 1
          /\ \A i \in 1..n : sinks'[i] = sinks[i]
          /\ sinks'[n + 1] = s
      BY <2>5, <3>1 DEF TypeOK
    <3>3. Distinct(sinks')
      BY <2>3, <3>2 DEF OnceEach, Distinct
    <3>4. life'[s] # "unborn"
      BY <2>1 DEF TypeOK
    <3>5. \A i \in 1..n + 1 : i = n + 1 \/ i \in 1..n
      OBVIOUS
    <3>6. \A i \in DOMAIN sinks' : life'[sinks'[i]] # "unborn"
      BY <2>3, <3>2, <3>4, <3>5
    <3> QED BY <2>2, <3>3, <3>6 DEF OnceEach
  <2> QED BY <2>1, <2>4, <2>5
<1>2. ASSUME UNCHANGED <<sinks, out>>, \A s \in Subs : life[s] # "unborn" => life'[s] # "unborn"
      PROVE  OnceEach'
  BY <1>2, <1>b DEF OnceEach
<1>3. ASSUME NEW s \in Subs, pop(s) \/ Return(s) \/ Disown(s) \/ Join(s) PROVE OnceEach'
  BY Zenon, <1>2, <1>3 DEF pop, Return, Disown, LetGo, Join, TypeOK
<1>4. ASSUME NEW t \in Threads, register_publisher(t) PROVE OnceEach'
  BY <1>2, <1>4 DEF register_publisher
<1>5. ASSUME NEW t \in Callers, Collect(t) PROVE OnceEach'
  <2>1. sinks' = Alive /\ out' = [out EXCEPT ![t] = out'[t]] /\ out'[t].todo \in {<<>>, Alive}
    BY <1>5, CollectOut
  <2>2. life' = life
    BY <1>5 DEF Collect
  <2>3. Distinct(Alive) /\ Distinct(<<>>)
    <3>1. Distinct(sinks)
      BY DEF OnceEach
    <3>2. Distinct(Alive)
      BY <1>a, <3>1, AliveFacts
    <3> QED BY <3>2 DEF Distinct
  <2>4. \A i \in DOMAIN Alive : life[Alive[i]] # "unborn"
    BY Zenon, <1>a, AliveFacts DEF OnceEach
  <2>5. \A u \in Callers : Distinct(out'[u].todo)
    <3> TAKE u \in Callers
    <3>1. CASE u = t
      BY <3>1, <2>1, <2>3
    <3>2. CASE u # t
      <4>1. out'[u] = out[u]
        BY Zenon, <2>1, <3>2 DEF TypeOK
      <4> QED BY <4>1 DEF OnceEach
    <3> QED BY <3>1, <3>2
  <2> QED BY Zenon, <2>1, <2>2, <2>3, <2>4, <2>5 DEF OnceEach
<1>6. ASSUME NEW t \in Callers, Enqueue(t) PROVE OnceEach'
  <2>1. /\ out[t].todo \in Seq(Subs) /\ out[t].todo # <<>>
        /\ out'[t].todo = Tail(out[t].todo)
        /\ \A u \in Callers : u # t => out'[u] = out[u]
    BY <1>6, EnqueueTodo
  <2>2. Distinct(Tail(out[t].todo))
    BY <2>1, DistinctTail DEF OnceEach
  <2>3. UNCHANGED <<life, sinks>>
    BY <1>6 DEF Enqueue
  <2>4. \A u \in Callers : Distinct(out'[u].todo)
    BY <2>1, <2>2 DEF OnceEach
  <2> QED BY <2>3, <2>4 DEF OnceEach
<1>7. ASSUME NEW t \in Callers, Release(t) PROVE OnceEach'
  <2>1. out'[t].todo = <<>> /\ \A u \in Callers : u # t => out'[u] = out[u]
    BY <1>7, ReleaseTodo
  <2>2. \A s \in Subs : life[s] # "unborn" => life'[s] # "unborn"
    BY Zenon, <1>7 DEF Release, LetGo, TypeOK
  <2>3. sinks' = sinks
    BY <1>7 DEF Release
  <2>4. \A u \in Callers : Distinct(out'[u].todo)
    BY <2>1 DEF OnceEach, Distinct
  <2> QED BY <1>b, <2>2, <2>3, <2>4 DEF OnceEach
<1>8. ASSUME UNCHANGED vars PROVE OnceEach'
  BY <1>2, <1>8 DEF vars
<1> QED BY <1>1, <1>3, <1>4, <1>5, <1>6, <1>7, <1>8 DEF Next

\* Every step keeps the messages under way.
LEMMA OutMsgStep ==
  ASSUME TypeOK, TypeOK', OutMsg, [Next]_vars
  PROVE  OutMsg'
<1> USE DEF busVars, subVars, queueVars
<1>1. ASSUME NEW t \in Callers, Collect(t) PROVE OutMsg'
  <2>1. /\ out' = [out EXCEPT ![t] = out'[t]]
        /\ out'[t].todo # <<>> => out'[t].msg[1] = t /\ out'[t].msg[2] = sent + 1
    BY <1>1, CollectOut
  <2>2. sent' = sent + 1 /\ sent \in Nat
    BY Zenon, <1>1 DEF Collect, TypeOK
  <2> SUFFICES ASSUME NEW u \in Callers, out'[u].todo # <<>>
               PROVE  out'[u].msg[1] = u /\ out'[u].msg[2] <= sent'
    BY DEF OutMsg
  <2>3. CASE u = t
    BY <2>1, <2>2, <2>3
  <2>4. CASE u # t
    <3>1. out'[u] = out[u]
      BY <2>1, <2>4 DEF TypeOK
    <3>2. out[u].msg[1] = u /\ out[u].msg[2] <= sent /\ out[u].msg[2] \in Nat
      BY ZenonT(30), <3>1 DEF OutMsg, TypeOK, Msg
    <3> QED BY <2>2, <3>1, <3>2
  <2> QED BY <2>3, <2>4
<1>2. ASSUME NEW t \in Callers, Enqueue(t) PROVE OutMsg'
  <2>1. /\ out[t].todo # <<>> /\ out'[t].msg = out[t].msg
        /\ \A u \in Callers : u # t => out'[u] = out[u]
    BY <1>2, EnqueueTodo
  <2>2. sent' = sent
    BY <1>2 DEF Enqueue
  <2> QED BY <2>1, <2>2 DEF OutMsg
<1>3. ASSUME NEW t \in Callers, Release(t) PROVE OutMsg'
  <2>1. out'[t].todo = <<>> /\ \A u \in Callers : u # t => out'[u] = out[u]
    BY <1>3, ReleaseTodo
  <2>2. sent' = sent
    BY <1>3 DEF Release
  <2> QED BY <2>1, <2>2 DEF OutMsg
<1>4. ASSUME UNCHANGED <<out, sent>> PROVE OutMsg'
  BY <1>4 DEF OutMsg
<1>5. ASSUME NEW s \in Subs, subscribe(s) \/ pop(s) \/ Return(s) \/ Disown(s) \/ Join(s) PROVE OutMsg'
  BY Zenon, <1>4, <1>5 DEF subscribe, pop, Return, Disown, Join
<1>6. ASSUME NEW t \in Threads, register_publisher(t) PROVE OutMsg'
  BY <1>4, <1>6 DEF register_publisher
<1>7. ASSUME UNCHANGED vars PROVE OutMsg'
  BY <1>4, <1>7 DEF vars
<1> QED BY <1>1, <1>2, <1>3, <1>5, <1>6, <1>7 DEF Next

\* Every step keeps the order.
LEMMA OrderStep ==
  ASSUME TypeOK, TypeOK', OnceEach, OutMsg, \A s \in Subs : Ordered(s), [Next]_vars
  PROVE  \A s \in Subs : Ordered(s)'
<1> USE DEF busVars, subVars, queueVars
<1>1. SUFFICES ASSUME NEW s \in Subs PROVE Ordered(s)'
  OBVIOUS
<1>2. Ordered(s)
  OBVIOUS
<1>3. /\ got[s] \in Seq(Msg) /\ queue[s] \in Seq(Msg) /\ sent \in Nat
      /\ \A i \in DOMAIN got[s] : got[s][i] \in Msg
      /\ \A i \in DOMAIN queue[s] : queue[s][i] \in Msg
  <2>1. got[s] \in Seq(Msg) /\ queue[s] \in Seq(Msg) /\ sent \in Nat
    BY Zenon DEF TypeOK
  <2> QED BY <2>1
<1>4. \A m \in Msg : m[1] \in Callers /\ m[2] \in Nat
  BY DEF Msg
<1>5. ASSUME got'[s] = got[s], queue'[s] = queue[s], sent' = sent,
             \A t \in Callers : s \in Range(out'[t].todo) =>
               s \in Range(out[t].todo) /\ out'[t].msg = out[t].msg
      PROVE  Ordered(s)'
  BY ZenonT(30), <1>2, <1>5 DEF Ordered
<1>6. ASSUME UNCHANGED <<got, queue, sent, out>> PROVE Ordered(s)'
  BY <1>5, <1>6
<1>7. ASSUME NEW x \in Subs, subscribe(x) \/ Return(x) \/ Disown(x) \/ Join(x) PROVE Ordered(s)'
  BY ZenonT(30), <1>6, <1>7 DEF subscribe, Return, Disown, Join
<1>8. ASSUME NEW t \in Threads, register_publisher(t) PROVE Ordered(s)'
  BY <1>6, <1>8 DEF register_publisher
<1>9. ASSUME UNCHANGED vars PROVE Ordered(s)'
  BY <1>6, <1>9 DEF vars
<1>10. ASSUME NEW x \in Subs, pop(x) PROVE Ordered(s)'
  <2>1. out' = out /\ sent' = sent
    BY <1>10 DEF pop
  <2>2. CASE queue[x] = <<>>
    BY <1>6, <1>10, <2>1, <2>2 DEF pop
  <2>3. CASE queue[x] # <<>>
    <3>1. /\ queue' = [queue EXCEPT ![x] = Tail(queue[x])]
          /\ got' = [got EXCEPT ![x] = Append(got[x], queue[x][1])]
      BY <1>10, <2>3, PopTakes
    <3>2. CASE x # s
      BY Zenon, <1>5, <2>1, <3>1, <3>2 DEF TypeOK
    <3>3. CASE x = s
      <4>1. queue'[s] = Tail(queue[s]) /\ got'[s] = Append(got[s], queue[s][1])
        BY ZenonT(30), <3>1, <3>3 DEF TypeOK
      <4>2. PICK Q \in Nat, G \in Nat : Q = Len(queue[s]) /\ G = Len(got[s])
        BY <1>3
      <4>3. /\ Q >= 1 /\ DOMAIN queue[s] = 1..Q /\ DOMAIN queue'[s] = 1..Q - 1
            /\ \A i \in 1..Q - 1 : queue'[s][i] = queue[s][i + 1]
        <5>1. queue[s] \in Seq(Msg) /\ queue[s] # <<>>
          BY <1>3, <2>3, <3>3
        <5> QED BY <4>1, <4>2, <5>1
      <4>4. /\ DOMAIN got[s] = 1..G /\ DOMAIN got'[s] = 1..G + 1
            /\ \A i \in 1..G : got'[s][i] = got[s][i]
            /\ got'[s][G + 1] = queue[s][1]
        BY <4>1, <4>2, <1>3
      <4>5. /\ \A i \in 1..Q - 1 : i + 1 \in 1..Q /\ 1 < i + 1
            /\ \A i, j \in 1..Q - 1 : i < j => i + 1 < j + 1
            /\ \A i \in 1..G + 1 : i = G + 1 \/ i \in 1..G
            /\ \A i, j \in 1..G + 1 : i < j => i \in 1..G
            /\ 1 \in 1..Q
        BY <4>3
      <4>6. \A i, j \in DOMAIN got'[s] : i < j => Earlier(got'[s][i], got'[s][j])
        <5> SUFFICES ASSUME NEW i \in 1..G + 1, NEW j \in 1..G + 1, i < j
                     PROVE  Earlier(got'[s][i], got'[s][j])
          BY <4>4
        <5>1. i \in 1..G /\ (j = G + 1 \/ j \in 1..G)
          BY <4>5
        <5>2. CASE j \in 1..G
          BY Zenon, <1>2, <4>4, <5>1, <5>2 DEF Ordered
        <5>3. CASE j = G + 1
          BY Zenon, <1>2, <4>3, <4>4, <4>5, <5>1, <5>3 DEF Ordered
        <5> QED BY <5>1, <5>2, <5>3
      <4>7. \A i, j \in DOMAIN queue'[s] : i < j => Earlier(queue'[s][i], queue'[s][j])
        <5> SUFFICES ASSUME NEW i \in 1..Q - 1, NEW j \in 1..Q - 1, i < j
                     PROVE  Earlier(queue[s][i + 1], queue[s][j + 1])
          BY Zenon, <4>3
        <5>1. i + 1 \in 1..Q /\ j + 1 \in 1..Q /\ i + 1 < j + 1
          BY <4>5
        <5> QED BY ZenonT(30), <1>2, <4>3, <5>1 DEF Ordered
      <4>8. \A i \in DOMAIN got'[s], j \in DOMAIN queue'[s] : Earlier(got'[s][i], queue'[s][j])
        <5> SUFFICES ASSUME NEW i \in 1..G + 1, NEW j \in 1..Q - 1
                     PROVE  Earlier(got'[s][i], queue[s][j + 1])
          BY <4>3, <4>4
        <5>1. CASE i = G + 1
          BY Zenon, <1>2, <4>3, <4>4, <4>5, <5>1 DEF Ordered
        <5>2. CASE i \in 1..G
          BY Zenon, <1>2, <4>3, <4>4, <4>5, <5>2 DEF Ordered
        <5> QED BY <5>1, <5>2, <4>5
      <4>9. \A i \in DOMAIN got'[s] : got'[s][i][2] <= sent
        BY Zenon, <1>2, <4>3, <4>4, <4>5 DEF Ordered
      <4>10. \A i \in DOMAIN queue'[s] : queue'[s][i][2] <= sent
        BY Zenon, <1>2, <4>3, <4>5 DEF Ordered
      <4>11. ASSUME NEW t \in Callers, s \in Range(out[t].todo)
             PROVE  /\ \A i \in DOMAIN got'[s] : Earlier(got'[s][i], out[t].msg)
                    /\ \A i \in DOMAIN queue'[s] : Earlier(queue'[s][i], out[t].msg)
        <5>1. /\ \A i \in 1..G : Earlier(got[s][i], out[t].msg)
              /\ \A i \in 1..Q : Earlier(queue[s][i], out[t].msg)
          BY Zenon, <1>2, <4>3, <4>4, <4>11 DEF Ordered
        <5> QED BY Zenon, <4>3, <4>4, <4>5, <5>1
      <4> QED BY Zenon, <2>1, <4>6, <4>7, <4>8, <4>9, <4>10, <4>11 DEF Ordered
    <3> QED BY <3>2, <3>3
  <2> QED BY ZenonT(30), <2>2, <2>3
<1>11. ASSUME NEW t \in Callers, Collect(t) PROVE Ordered(s)'
  <2>1. /\ out' = [out EXCEPT ![t] = out'[t]]
        /\ out'[t].todo # <<>> => out'[t].msg[2] = sent + 1
    BY <1>11, CollectOut
  <2>2. sent' = sent + 1 /\ got' = got /\ queue' = queue
    BY Zenon, <1>11 DEF Collect
  <2>3. \A i \in DOMAIN got[s] : got[s][i][2] \in Nat /\ got[s][i][2] <= sent
    BY Zenon, <1>2, <1>3, <1>4 DEF Ordered
  <2>4. \A i \in DOMAIN queue[s] : queue[s][i][2] \in Nat /\ queue[s][i][2] <= sent
    BY Zenon, <1>2, <1>3, <1>4 DEF Ordered
  <2>5. \A n \in Nat : n <= sent => n <= sent + 1 /\ n < sent + 1
    BY <1>3
  <2>6. ASSUME NEW u \in Callers, s \in Range(out'[u].todo)
        PROVE  /\ \A i \in DOMAIN got[s] : Earlier(got[s][i], out'[u].msg)
               /\ \A i \in DOMAIN queue[s] : Earlier(queue[s][i], out'[u].msg)
    <3>1. CASE u = t
      <4>1. out'[t].todo # <<>>
        BY <2>6, <3>1 DEF Range
      <4> QED BY <2>1, <2>3, <2>4, <2>5, <3>1, <4>1 DEF Earlier
    <3>2. CASE u # t
      <4>1. out'[u] = out[u]
        BY ZenonT(30), <2>1, <3>2 DEF TypeOK
      <4> QED BY Zenon, <1>2, <2>6, <4>1 DEF Ordered
    <3> QED BY ZenonT(30), <3>1, <3>2
  <2>7. /\ \A i \in DOMAIN got[s] : got[s][i][2] <= sent'
        /\ \A i \in DOMAIN queue[s] : queue[s][i][2] <= sent'
    BY <2>2, <2>3, <2>4, <2>5
  <2> QED BY Zenon, <1>2, <2>2, <2>6, <2>7 DEF Ordered
<1>12. ASSUME NEW t \in Callers, Enqueue(t) PROVE Ordered(s)'
  <2>1. PICK h \in Subs, item \in Msg :
           /\ h = Head(out[t].todo) /\ item = out[t].msg
           /\ \/ UNCHANGED queueVars
              \/ /\ queue[h] # <<>>
                 /\ queue' = [queue EXCEPT ![h] = Append(Tail(queue[h]), item)]
              \/ /\ queue' = [queue EXCEPT ![h] = Append(queue[h], item)]
    BY <1>12, EnqueuePushes
  <2>2. /\ out[t].todo \in Seq(Subs) /\ out[t].todo # <<>>
        /\ out'[t].todo = Tail(out[t].todo) /\ out'[t].msg = out[t].msg
        /\ \A u \in Callers : u # t => out'[u] = out[u]
    BY <1>12, EnqueueTodo
  <2>3. sent' = sent /\ got' = got
    BY <1>12 DEF Enqueue
  <2>4. /\ h \notin Range(out'[t].todo) /\ h \in Range(out[t].todo)
        /\ Range(out'[t].todo) \subseteq Range(out[t].todo)
    BY ZenonT(30), <2>1, <2>2, DistinctTail DEF OnceEach
  <2>5. \A u \in Callers : Range(out'[u].todo) \subseteq Range(out[u].todo) /\ out'[u].msg = out[u].msg
    BY <2>2, <2>4
  <2>6. CASE queue'[s] = queue[s]
    BY Zenon, <1>5, <2>3, <2>5, <2>6
  <2>7. CASE queue'[s] # queue[s]
    <3>1. h = s
      BY Zenon, <2>1, <2>7 DEF TypeOK
    <3>2. \/ queue[s] # <<>> /\ queue'[s] = Append(Tail(queue[s]), item)
          \/ queue'[s] = Append(queue[s], item)
      <4>1. UNCHANGED queueVars => queue'[s] = queue[s]
        OBVIOUS
      <4>2. \A q : queue' = [queue EXCEPT ![s] = q] => queue'[s] = q
        BY DEF TypeOK
      <4> QED BY Zenon, <2>1, <2>7, <3>1, <4>1, <4>2
    <3>3. PICK Q \in Nat : Q = Len(queue[s])
      BY <1>3
    <3>4. \E k \in {0, 1} :
            /\ k <= Q /\ DOMAIN queue[s] = 1..Q /\ DOMAIN queue'[s] = 1..Q - k + 1
            /\ \A i \in 1..Q - k : queue'[s][i] = queue[s][i + k]
            /\ queue'[s][Q - k + 1] = item
      <4>1. CASE queue'[s] = Append(queue[s], item)
        <5>1. /\ 0 <= Q /\ DOMAIN queue[s] = 1..Q /\ DOMAIN queue'[s] = 1..Q - 0 + 1
              /\ \A i \in 1..Q - 0 : queue'[s][i] = queue[s][i + 0]
              /\ queue'[s][Q - 0 + 1] = item
          BY <1>3, <3>3, <4>1
        <5> QED BY <5>1
      <4>2. CASE queue[s] # <<>> /\ queue'[s] = Append(Tail(queue[s]), item)
        <5> DEFINE tail == Tail(queue[s])
        <5>1. /\ tail \in Seq(Msg) /\ Len(tail) = Q - 1 /\ 1 <= Q /\ DOMAIN queue[s] = 1..Q
              /\ \A i \in 1..Q - 1 : tail[i] = queue[s][i + 1]
          BY <1>3, <3>3, <4>2
        <5>2. queue'[s] = Append(tail, item)
          BY <4>2
        <5> HIDE DEF tail
        <5>3. /\ DOMAIN queue'[s] = 1..Q - 1 + 1
              /\ \A i \in 1..Q - 1 : queue'[s][i] = tail[i]
              /\ queue'[s][Q - 1 + 1] = item
          BY <5>1, <5>2
        <5>4. \A i \in 1..Q - 1 : queue'[s][i] = queue[s][i + 1]
          BY <5>1, <5>3
        <5> QED BY <5>1, <5>3, <5>4
      <4> QED BY ZenonT(30), <3>2, <4>1, <4>2
    <3>5. PICK k \in {0, 1} :
            /\ k <= Q /\ DOMAIN queue[s] = 1..Q /\ DOMAIN queue'[s] = 1..Q - k + 1
            /\ \A i \in 1..Q - k : queue'[s][i] = queue[s][i + k]
            /\ queue'[s][Q - k + 1] = item
      BY ZenonT(30), <3>4
    <3>6. PICK N \in Nat : N = Q - k
      BY <3>5
    <3>7. /\ \A i \in 1..N : i + k \in DOMAIN queue[s] /\ queue'[s][i] = queue[s][i + k]
          /\ \A i, j \in 1..N : i < j => i + k < j + k
          /\ DOMAIN queue'[s] = 1..N + 1 /\ queue'[s][N + 1] = item
          /\ \A i \in 1..N + 1 : i = N + 1 \/ i \in 1..N
          /\ \A i, j \in 1..N + 1 : i < j => i \in 1..N
      BY <3>5, <3>6
    <3>8. /\ \A i \in DOMAIN got[s] : Earlier(got[s][i], item)
          /\ \A i \in DOMAIN queue[s] : Earlier(queue[s][i], item)
      BY Zenon, <1>2, <2>1, <2>4, <3>1 DEF Ordered
    <3>9. \A i, j \in DOMAIN queue'[s] : i < j => Earlier(queue'[s][i], queue'[s][j])
      <4> SUFFICES ASSUME NEW i \in 1..N + 1, NEW j \in 1..N + 1, i < j
                   PROVE  Earlier(queue'[s][i], queue'[s][j])
        BY ZenonT(30), <3>7
      <4>1. i \in 1..N /\ (j = N + 1 \/ j \in 1..N)
        BY <3>7
      <4>2. CASE j = N + 1
        BY <3>7, <3>8, <4>1, <4>2
      <4>3. CASE j \in 1..N
        BY Zenon, <1>2, <3>7, <4>1, <4>3 DEF Ordered
      <4> QED BY Zenon, <4>1, <4>2, <4>3
    <3>10. \A i \in DOMAIN got[s], j \in DOMAIN queue'[s] : Earlier(got[s][i], queue'[s][j])
      BY Zenon, <1>2, <3>7, <3>8 DEF Ordered
    <3>11. item[1] = t /\ item[2] <= sent
      BY Zenon, <2>1, <2>2 DEF OutMsg
    <3>12. \A i \in DOMAIN queue'[s] : queue'[s][i][2] <= sent
      BY Zenon, <1>2, <3>7, <3>11 DEF Ordered
    <3>13. ASSUME NEW u \in Callers, s \in Range(out'[u].todo)
           PROVE  /\ \A i \in DOMAIN got[s] : Earlier(got[s][i], out'[u].msg)
                  /\ \A i \in DOMAIN queue'[s] : Earlier(queue'[s][i], out'[u].msg)
      <4>1. u # t /\ out'[u] = out[u] /\ s \in Range(out[u].todo)
        BY Zenon, <2>2, <2>4, <3>1, <3>13
      <4>2. out[u].todo # <<>>
        BY <4>1 DEF Range
      <4>3. out[u].msg[1] = u
        BY <4>2 DEF OutMsg
      <4>4. Earlier(item, out[u].msg)
        BY <3>11, <4>1, <4>3 DEF Earlier
      <4>5. /\ \A i \in DOMAIN got[s] : Earlier(got[s][i], out[u].msg)
            /\ \A i \in DOMAIN queue[s] : Earlier(queue[s][i], out[u].msg)
        BY Zenon, <1>2, <4>1 DEF Ordered
      <4> QED BY Zenon, <3>7, <4>1, <4>4, <4>5
    <3> QED BY Zenon, <1>2, <2>3, <3>9, <3>10, <3>12, <3>13 DEF Ordered
  <2> QED BY <2>6, <2>7
<1>13. ASSUME NEW t \in Callers, Release(t) PROVE Ordered(s)'
  <2>1. out'[t].todo = <<>> /\ \A u \in Callers : u # t => out'[u] = out[u]
    BY <1>13, ReleaseTodo
  <2>2. UNCHANGED <<got, queue, sent>>
    BY <1>13 DEF Release
  <2>3. s \notin Range(out'[t].todo)
    BY <2>1 DEF Range
  <2> QED BY Zenon, <1>5, <2>1, <2>2, <2>3
<1> QED BY <1>7, <1>8, <1>9, <1>10, <1>11, <1>12, <1>13 DEF Next

\* LocalBus::publish: the messages of one publishing thread reach every callback
\* in the order in which they were published, and none twice, although they are
\* enqueued outside the lock of the bus.
THEOREM PublisherOrderHolds == Spec => []PublisherOrder
<1> DEFINE Inv == OnceEach /\ OutMsg /\ \A s \in Subs : Ordered(s)
<1>1. Init => Inv
  <2> SUFFICES ASSUME Init PROVE Inv
    OBVIOUS
  <2>1. OnceEach /\ OutMsg
    BY DEF Init, OnceEach, OutMsg, Distinct, Idle
  <2>2. ASSUME NEW s \in Subs PROVE Ordered(s)
    <3>1. DOMAIN got[s] = {} /\ DOMAIN queue[s] = {}
      BY DEF Init
    <3> QED BY Zenon, <3>1 DEF Ordered
  <2> QED BY <2>1, <2>2
<1>2. TypeOK /\ TypeOK' /\ Inv /\ [Next]_vars => Inv'
  BY OnceStep, OutMsgStep, OrderStep
<1>3. TypeOK /\ Inv => PublisherOrder
  <2> SUFFICES ASSUME TypeOK, Inv, NEW s \in Subs PROVE
        \A i, j \in 1..Len(got[s]) :
          i < j /\ got[s][i][1] = got[s][j][1] => got[s][i][2] < got[s][j][2]
    BY Zenon DEF PublisherOrder
  <2>1. DOMAIN got[s] = 1..Len(got[s])
    BY DEF TypeOK
  <2> QED BY Zenon, <2>1 DEF Ordered, Earlier
<1> QED BY <1>1, <1>2, <1>3, TypeInvariant, PTL DEF Spec
=============================================================================
