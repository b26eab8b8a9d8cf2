------------------------ MODULE TcpTransportProofs ------------------------
(***************************************************************************)
(* The stream of TcpTransport is conserved, and both ends are quiet once   *)
(* they have stopped, for every set of senders and payloads, every size of *)
(* the pipe and every format of the header.                                *)
(***************************************************************************)
EXTENDS TcpTransport, SequenceTheorems, WellFoundedInduction, TLAPS

\* A leaf that names no prover goes to these two, in this order.
USE SMTT(30), ZenonT(30)

-----------------------------------------------------------------------------
(***************************************************************************)
(* Quiet after stop                                                        *)
(***************************************************************************)

\* What the two stop calls rely on.  Of the client: stopped_ is set first, the
\* loop is joined before the descriptors are closed.  Of the server: running_ is
\* cleared first; the loop has events at hand only while it handles them, an
\* event of a connection only while that is open, one of the listening socket,
\* as long as that is not closed, only before there is a connection; nothing
\* breaks the link but the server's close.
ControlInv ==
  /\ stopper # "none" => stopped
  /\ stopper = "done" => loop \in {"none", "exited"}
  /\ fd = "closed" => stopper = "done"
  /\ srv_loop = "none" => srv_stopper = "none"
  /\ srv_running => srv_stopper = "none" /\ srv_loop # "none"
  /\ srv_loop # "handle" => srv_events = {}
  /\ "read" \in srv_events => srv_conn = "open"
  /\ "accept" \in srv_events /\ srv_stopper \in {"none", "listen"} => srv_conn = "none"
  /\ srv_stopper = "done" => srv_loop = "exited" /\ srv_conn = "closed"
  /\ link \in {"fin", "reset", "broken"} => srv_conn = "closed"

\* Every step of the client's threads keeps it,
LEMMA ClientControl ==
  ASSUME ControlInv,
         \/ Wait \/ handle_connect_complete \/ handle_read \/ handle_write \/ WriteBroken
         \/ Handled \/ LoopExit \/ start \/ start_fails \/ StopBegin \/ StopEnd
         \/ \E t \in Senders : send(t) \/ \E payload \in Payloads : SendCheck(t, payload)
  PROVE  ControlInv'
<1> USE DEF ControlInv, clientVars, serverVars, srvLoopVars
<1>1. CASE Wait
  BY <1>1 DEF Wait
<1>2. CASE handle_connect_complete \/ handle_read \/ Handled \/ LoopExit
  BY <1>2 DEF handle_connect_complete, handle_read, Handled, LoopExit
<1>3. CASE handle_write
  BY <1>3 DEF handle_write
<1>4. CASE WriteBroken
  BY Zenon, <1>4 DEF WriteBroken
<1>5. CASE start \/ start_fails
  BY <1>5 DEF start, start_fails
<1>6. CASE StopBegin
  BY <1>6 DEF StopBegin, Shutdown
<1>7. CASE StopEnd
  BY <1>7 DEF StopEnd
<1>8. ASSUME NEW t \in Senders, send(t) PROVE ControlInv'
  BY <1>8 DEF send
<1>9. ASSUME NEW t \in Senders, NEW payload \in Payloads, SendCheck(t, payload) PROVE ControlInv'
  BY <1>9 DEF SendCheck
<1> QED BY <1>1, <1>2, <1>3, <1>4, <1>5, <1>6, <1>7, <1>8, <1>9

\* and every step of the kernel and of the server.
LEMMA ServerControl ==
  ASSUME ControlInv,
         \/ srv_start \/ Handshake \/ SrvWait \/ handle_accept \/ srv_handle_read
         \/ SrvCheck \/ SrvStopBegin \/ SrvStopListen \/ SrvStopEnd
  PROVE  ControlInv'
<1> USE DEF ControlInv, clientVars, serverVars, srvLoopVars
<1>1. CASE srv_start \/ SrvCheck \/ SrvStopBegin
  BY <1>1 DEF srv_start, SrvCheck, SrvStopBegin
<1>2. CASE Handshake
  BY <1>2 DEF Handshake
<1>3. CASE SrvWait
  BY <1>3 DEF SrvWait, SrvReady, Listening
<1>4. CASE handle_accept
  BY <1>4 DEF handle_accept, Listening
<1>5. CASE srv_handle_read
  BY <1>5 DEF srv_handle_read
<1>6. CASE SrvStopListen
  BY <1>6 DEF SrvStopListen
<1>7. CASE SrvStopEnd
  BY <1>7 DEF SrvStopEnd, SrvJoined
<1> QED BY <1>1, <1>2, <1>3, <1>4, <1>5, <1>6, <1>7

\* The steps of the connection, one by one.
LEMMA Steps ==
  ASSUME Next
  PROVE  \/ Wait \/ handle_connect_complete \/ handle_read \/ handle_write \/ WriteBroken
         \/ Handled \/ LoopExit \/ start \/ start_fails \/ StopBegin \/ StopEnd
         \/ \E t \in Senders : send(t) \/ \E payload \in Payloads : SendCheck(t, payload)
         \/ srv_start \/ Handshake \/ SrvWait \/ handle_accept \/ srv_handle_read
         \/ SrvCheck \/ SrvStopBegin \/ SrvStopListen \/ SrvStopEnd
BY DEF Next, Loop, Stop, SrvLoop, SrvStop, Send

\* It holds from the beginning on.
LEMMA ControlInvariant == Spec => []ControlInv
<1>1. Init => ControlInv
  BY DEF Init, ControlInv
<1>2. ControlInv /\ [Next]_vars => ControlInv'
  <2>1. ASSUME ControlInv, Next PROVE ControlInv'
    BY Zenon, <2>1, Steps, ClientControl, ServerControl
  <2>2. ASSUME ControlInv, UNCHANGED vars PROVE ControlInv'
    BY <2>2 DEF ControlInv, vars, clientVars, serverVars, srvLoopVars
  <2> QED BY <2>1, <2>2
<1> QED BY <1>1, <1>2, PTL DEF Spec

\* A client that has closed its descriptors touches them no more, and a server
\* that has stopped calls no callback and has no connection, whatever events and
\* sends were under way (the comments in both stop() and in send()).
THEOREM QuietAfterStopHolds == Spec => QuietAfterStop
<1> DEFINE Quiet ==
      /\ fd = "closed" => /\ loop \in {"none", "exited"}
                          /\ UNCHANGED <<loop, interest, write_buffer>>
      /\ srv_stopper = "done" => /\ srv_conn = "closed"
                                 /\ UNCHANGED <<delivered, srv_conn, srv_events>>
<1>1. ASSUME ControlInv, Next PROVE Quiet
  <2> USE DEF ControlInv, clientVars, serverVars, srvLoopVars
  <2>1. CASE Wait \/ handle_connect_complete \/ handle_read \/ Handled \/ LoopExit
    BY <1>1, <2>1 DEF Wait, handle_connect_complete, handle_read, Handled, LoopExit
  <2>2. CASE handle_write \/ WriteBroken
    BY Zenon, <1>1, <2>2 DEF handle_write, WriteBroken
  <2>3. CASE start \/ start_fails \/ StopBegin \/ StopEnd
    BY <1>1, <2>3 DEF start, start_fails, StopBegin, StopEnd
  <2>4. ASSUME NEW t \in Senders, send(t) PROVE Quiet
    BY <1>1, <2>4 DEF send, Refuses
  <2>5. ASSUME NEW t \in Senders, NEW payload \in Payloads, SendCheck(t, payload) PROVE Quiet
    BY <1>1, <2>5 DEF SendCheck
  <2>6. CASE srv_start \/ Handshake \/ SrvWait \/ handle_accept \/ SrvCheck \/ SrvStopBegin
    BY <1>1, <2>6 DEF srv_start, Handshake, SrvWait, handle_accept, SrvCheck, SrvStopBegin
  <2>7. CASE srv_handle_read
    BY <1>1, <2>7 DEF srv_handle_read
  <2>8. CASE SrvStopListen \/ SrvStopEnd
    BY <1>1, <2>8 DEF SrvStopListen, SrvStopEnd
  <2> HIDE DEF Quiet
  <2> QED BY Zenon, <1>1, <2>1, <2>2, <2>3, <2>4, <2>5, <2>6, <2>7, <2>8, Steps
<1>2. ControlInv /\ [Next]_vars => [Quiet]_vars
  <2> HIDE DEF Quiet
  <2> QED BY <1>1
<1> QED BY <1>2, ControlInvariant, PTL DEF Spec, QuietAfterStop

-----------------------------------------------------------------------------
(***************************************************************************)
(* Induction over numbers, and recursion                                   *)
(***************************************************************************)

\* A non-empty set of naturals has a least element.
LEMMA LeastNat ==
  ASSUME NEW T, T \subseteq Nat, T # {}
  PROVE  \E x \in T : \A y \in T : x <= y
<1> DEFINE LT == {ss \in Nat \X Nat : ss[1] < ss[2]}
<1>1. LT = OpToRel(<, Nat)
  BY Zenon DEF OpToRel
<1>2. IsWellFoundedOn(LT, Nat)
  BY Zenon, <1>1, NatLessThanWellFounded
<1>3. PICK x \in T : \A y \in T : ~(<<y, x>> \in LT)
  <2> HIDE DEF LT
  <2> QED BY <1>2, WFMin, Zenon
<1>4. \A y \in T : y < x => <<y, x>> \in LT
  OBVIOUS
<1>5. \A y \in T : ~(y < x)
  <2> HIDE DEF LT
  <2> QED BY Zenon, <1>3, <1>4
<1>6. \A y \in T : x \in Nat /\ y \in Nat
  OBVIOUS
<1>7. \A y \in T : x <= y
  BY <1>5, <1>6
<1> QED
  BY Zenon, <1>7

\* Induction up to N, on the set of the numbers for which a formula holds.
LEMMA UpTo ==
  ASSUME NEW N \in Nat, NEW T, 0 \in T,
         \A n \in 1..N : n - 1 \in T => n \in T
  PROVE  0..N \subseteq T
<1> DEFINE Bad == (0..N) \ T
<1>1. SUFFICES ASSUME Bad # {} PROVE FALSE
  OBVIOUS
<1>2. PICK m \in Bad : \A k \in Bad : m <= k
  <2>1. Bad \subseteq Nat
    OBVIOUS
  <2> HIDE DEF Bad
  <2> QED BY Zenon, <1>1, <2>1, LeastNat
<1>3. m \in 1..N
  BY <1>2
<1>4. m - 1 \notin Bad /\ m - 1 \in 0..N
  BY <1>2, <1>3
<1> QED BY <1>2, <1>3, <1>4

\* f is defined by recursion up to N: it begins with v and goes on by step.
Recursive(f, N, v, step) ==
  f[0] = v /\ \A i \in 1..N : f[i] = step[i][f[i - 1]]

\* Such a function exists.
LEMMA Recursion ==
  ASSUME NEW N \in Nat, NEW V, NEW v \in V, NEW step \in [1..N -> [V -> V]]
  PROVE  \E f \in [0..N -> V] : Recursive(f, N, v, step)
<1> USE DEF Recursive
<1> DEFINE Has(m) == \E f \in [0..m -> V] :
                       f[0] = v /\ \A i \in 1..m : f[i] = step[i][f[i - 1]]
           T == {m \in 0..N : Has(m)}
<1>1. 0 \in T
  <2> DEFINE f == [i \in 0..0 |-> v]
  <2>1. f \in [0..0 -> V] /\ f[0] = v /\ \A i \in 1..0 : f[i] = step[i][f[i - 1]]
    OBVIOUS
  <2>2. Has(0)
    <3> HIDE DEF f
    <3> QED BY <2>1
  <2> HIDE DEF Has
  <2> QED BY <2>2
<1>2. ASSUME NEW n \in 1..N, n - 1 \in T PROVE n \in T
  <2>1. PICK g \in [0..(n - 1) -> V] :
          g[0] = v /\ \A i \in 1..(n - 1) : g[i] = step[i][g[i - 1]]
    BY <1>2
  <2> DEFINE w == step[n][g[n - 1]]
             f == [i \in 0..n |-> IF i = n THEN w ELSE g[i]]
  <2>2. g[n - 1] \in V /\ step[n] \in [V -> V]
    BY <2>1
  <2>3. w \in V
    BY <2>2
  <2> HIDE DEF w, T, Has
  <2>4. f \in [0..n -> V] /\ f[0] = v /\ f[n] = w /\ \A i \in 0..(n - 1) : f[i] = g[i]
    BY <2>1, <2>3
  <2> HIDE DEF f
  <2>5. \A i \in 1..n : f[i] = step[i][f[i - 1]]
    <3> TAKE i \in 1..n
    <3>1. CASE i = n
      BY <2>4, <3>1 DEF w
    <3>2. CASE i # n
      BY <2>1, <2>4, <3>2
    <3> QED BY <3>1, <3>2
  <2>6. Has(n)
    BY <2>4, <2>5 DEF Has
  <2> QED BY <2>6 DEF T
<1>3. N \in T
  <2> HIDE DEF T
  <2>1. 0..N \subseteq T
    BY Zenon, <1>1, <1>2, UpTo
  <2> QED BY <2>1
<1> QED BY <1>3

-----------------------------------------------------------------------------
(***************************************************************************)
(* The header                                                              *)
(***************************************************************************)

\* Division by D has one result.
LEMMA DivUnique ==
  ASSUME NEW D \in Nat \ {0}, NEW x \in Nat, NEW y \in 0..(D - 1)
  PROVE  (D * x + y) \div D = x
<1> DEFINE v == D * x + y
           q == v \div D
           r == v % D
<1>1. v \in Nat
  OBVIOUS
<1>2. q \in Nat /\ r \in 0..(D - 1) /\ v = D * q + r
  BY <1>1
<1> HIDE DEF q, r
<1>3. D * x + y = D * q + r
  BY <1>2 DEF v
<1> HIDE DEF v
<1>4. ASSUME q > x PROVE FALSE
  <2>1. PICK k \in Nat : q = x + 1 + k
    <3>1. q - x - 1 \in Nat /\ q = x + 1 + (q - x - 1)
      BY <1>2, <1>4
    <3> QED BY <3>1
  <2>2. D * q = D * x + D + D * k
    BY <2>1
  <2>3. D * k >= 0 /\ D * k \in Nat /\ D * x \in Nat
    OBVIOUS
  <2> QED BY <1>2, <1>3, <2>2, <2>3
<1>5. ASSUME q < x PROVE FALSE
  <2>1. PICK k \in Nat : x = q + 1 + k
    <3>1. x - q - 1 \in Nat /\ x = q + 1 + (x - q - 1)
      BY <1>2, <1>5
    <3> QED BY <3>1
  <2>2. D * x = D * q + D + D * k
    BY <1>2, <2>1
  <2>3. D * k >= 0 /\ D * k \in Nat /\ D * q \in Nat
    BY <1>2
  <2> QED BY <1>2, <1>3, <2>2, <2>3
<1>6. q = x
  BY <1>2, <1>4, <1>5
<1> QED BY <1>6 DEF q, v

\* Dividing twice is dividing by the product.
LEMMA DivTwice ==
  ASSUME NEW v \in Nat, NEW w \in Nat \ {0}, NEW b \in Nat \ {0}
  PROVE  /\ v \div (b * w) = (v \div w) \div b
         /\ (v \div (b * w)) * b + ((v \div w) % b) = v \div w
<1> DEFINE q == v \div w
           r == v % w
           p == q \div b
           s == q % b
<1>1. q \in Nat /\ r \in 0..(w - 1) /\ v = w * q + r
  OBVIOUS
<1> HIDE DEF q, r
<1>2. p \in Nat /\ s \in 0..(b - 1) /\ q = b * p + s
  BY <1>1
<1> HIDE DEF p, s
<1>3. w * q = (b * w) * p + w * s
  <2>1. w * q = w * (b * p) + w * s
    BY <1>2
  <2>2. w * (b * p) = (b * w) * p
    BY <1>2
  <2> QED BY <2>1, <2>2
<1>4. b * w \in Nat \ {0}
  OBVIOUS
<1>5. w * s + r \in 0..(b * w - 1)
  <2>1. PICK k \in Nat : b = s + 1 + k
    <3>1. b - s - 1 \in Nat /\ b = s + 1 + (b - s - 1)
      BY <1>2
    <3> QED BY <3>1
  <2>2. b * w = w * s + w + w * k
    BY <1>2, <2>1
  <2>3. w * k \in Nat /\ w * s \in Nat
    BY <1>2
  <2> QED BY <1>1, <2>2, <2>3
<1>6. v = (b * w) * p + (w * s + r)
  <2>1. (b * w) * p \in Nat /\ w * s \in Nat
    BY <1>2
  <2> QED BY <1>1, <1>3, <2>1
<1>7. v \div (b * w) = p
  <2> DEFINE D == b * w
             y == w * s + r
  <2>1. D \in Nat \ {0} /\ y \in 0..(D - 1) /\ v = D * p + y
    BY <1>4, <1>5, <1>6
  <2> HIDE DEF D, y
  <2>2. (D * p + y) \div D = p
    BY <1>2, <2>1, DivUnique
  <2>3. v \div D = p
    BY <2>1, <2>2
  <2> QED BY <2>3 DEF D
<1>8. p * b + s = q
  BY <1>1, <1>2
<1> QED BY Zenon, <1>7, <1>8 DEF p, q, s
\* The weights of the digits.
LEMMA Weights ==
  /\ Weight[0] = 1
  /\ \A n \in 1..HEADER_SIZE : Weight[n] = Base * Weight[n - 1]
  /\ \A n \in 0..HEADER_SIZE : Weight[n] \in Nat \ {0}
<1> DEFINE N == HEADER_SIZE
           Is(f) == f = [n \in 0..N |-> IF n = 0 THEN 1 ELSE Base * f[n - 1]]
           step == [i \in 1..N |-> [x \in Nat |-> Base * x]]
<1>0. N \in Nat /\ Base \in Nat \ {0}
  BY CodecAssumption
<1>1. PICK g \in [0..N -> Nat] : Recursive(g, N, 1, step)
  <2>1. step \in [1..N -> [Nat -> Nat]]
    BY <1>0
  <2>2. 1 \in Nat
    OBVIOUS
  <2> HIDE DEF step, N
  <2> QED BY Zenon, <1>0, <2>1, <2>2, Recursion
<1>2. Is(g)
  <2>1. \A i \in 1..N : g[i] = Base * g[i - 1]
    <3>1. \A i \in 1..N, x \in Nat : step[i][x] = Base * x
      OBVIOUS
    <3> HIDE DEF step, N
    <3> TAKE i \in 1..N
    <3>2. g[i - 1] \in Nat
      BY <1>0, <1>1
    <3> QED BY <1>1, <3>1, <3>2 DEF Recursive
  <2> HIDE DEF step, N
  <2> QED BY <1>1, <2>1 DEF Recursive
<1>3. Is(Weight)
  <2>1. Weight = CHOOSE f : Is(f)
    BY DEF Weight
  <2> HIDE DEF Is
  <2> QED BY <1>2, <2>1
<1>4. Weight[0] = 1 /\ \A n \in 1..N : Weight[n] = Base * Weight[n - 1]
  <2> HIDE DEF N
  <2>1. 0 \in 0..N /\ \A n \in 1..N : n \in 0..N /\ n # 0
    BY <1>0
  <2>2. \A n \in 0..N : Weight[n] = IF n = 0 THEN 1 ELSE Base * Weight[n - 1]
    BY Zenon, <1>3
  <2> QED BY Zenon, <2>1, <2>2
<1>5. \A n \in 0..N : Weight[n] \in Nat \ {0}
  <2> DEFINE T == {n \in 0..N : Weight[n] \in Nat \ {0}}
  <2>1. 0 \in T
    BY <1>0, <1>4
  <2>2. ASSUME NEW n \in 1..N, n - 1 \in T PROVE n \in T
    BY <1>0, <1>4, <2>2
  <2> HIDE DEF T, N
  <2>3. 0..N \subseteq T
    BY Zenon, <1>0, <2>1, <2>2, UpTo
  <2> QED BY <2>3 DEF T
<1> QED BY <1>4, <1>5

\* A byte, and the strings of them.
Byte == 0..(Base - 1)
Bytes == Seq(Byte)

\* Strings can be concatenated,
LEMMA Concat ==
  ASSUME NEW s \in Bytes, NEW t \in Bytes
  PROVE  s \o t \in Bytes /\ (s \o t = s => t = <<>>)
BY ConcatSimplifications DEF Bytes

\* the result holds the one and then the other,
LEMMA ConcatAt ==
  ASSUME NEW s \in Bytes, NEW t \in Bytes
  PROVE  /\ Len(s) \in Nat /\ Len(t) \in Nat /\ Len(s \o t) = Len(s) + Len(t)
         /\ \A i \in 1..Len(s) : (s \o t)[i] = s[i]
         /\ \A i \in 1..Len(t) : (s \o t)[Len(s) + i] = t[i]
BY DEF Bytes

\* brackets do not matter,
Assoc(s, t, u) == (s \o t) \o u = s \o (t \o u)

\* whichever strings these are,
LEMMA Associative ==
  ASSUME NEW s \in Bytes, NEW t \in Bytes, NEW u \in Bytes
  PROVE  Assoc(s, t, u)
BY ConcatAssociative DEF Bytes, Assoc

\* and what comes first can be cancelled.
LEMMA Cancel ==
  ASSUME NEW s \in Bytes, NEW t \in Bytes, NEW u \in Bytes, s \o t = s \o u
  PROVE  t = u
BY Zenon, ConcatSimplifications DEF Bytes

\* read_uint32_be gives back what write_uint32_be wrote, whatever follows it.
THEOREM ReadBack ==
  ASSUME NEW src \in Bytes, Len(src) >= HEADER_SIZE, NEW v \in 0..MAX_PAYLOAD_SIZE,
         \A i \in 1..HEADER_SIZE : src[i] = write_uint32_be(v)[i]
  PROVE  read_uint32_be(src) = v
<1> DEFINE N == HEADER_SIZE
           Is(f) == f = [k \in 0..N |-> IF k = 0 THEN 0 ELSE f[k - 1] * Base + src[k]]
           value == CHOOSE f : Is(f)
           step == [i \in 1..N |-> [x \in Nat |-> x * Base + src[i]]]
<1>0. /\ N \in Nat /\ Base \in Nat \ {0} /\ v \in Nat /\ v < Weight[N]
      /\ \A i \in 1..N : src[i] \in Nat
  <2>1. N \in Nat /\ Base \in Nat \ {0} /\ Weight[N] \in Nat
    BY CodecAssumption, Weights
  <2>2. v \in Nat /\ v < Weight[N]
    BY CodecAssumption, <2>1
  <2>3. \A i \in 1..N : src[i] \in Nat
    BY <2>1 DEF Bytes, Byte
  <2> QED BY <2>1, <2>2, <2>3
<1>1. PICK g \in [0..N -> Nat] : Recursive(g, N, 0, step)
  <2>1. step \in [1..N -> [Nat -> Nat]]
    BY <1>0
  <2>2. 0 \in Nat
    OBVIOUS
  <2> HIDE DEF step, N
  <2> QED BY Zenon, <1>0, <2>1, <2>2, Recursion
<1>2. Is(g)
  <2>1. \A i \in 1..N : g[i] = g[i - 1] * Base + src[i]
    <3>1. \A i \in 1..N, x \in Nat : step[i][x] = x * Base + src[i]
      OBVIOUS
    <3> HIDE DEF step, N
    <3> TAKE i \in 1..N
    <3>2. g[i - 1] \in Nat
      BY <1>0, <1>1
    <3> QED BY <1>1, <3>1, <3>2 DEF Recursive
  <2> HIDE DEF step, N
  <2> QED BY <1>1, <2>1 DEF Recursive
<1>3. Is(value)
  <2> HIDE DEF Is
  <2> QED BY <1>2
<1>4. read_uint32_be(src) = value[N]
  BY DEF read_uint32_be
<1> HIDE DEF value, step
<1>5. value[0] = 0 /\ \A k \in 1..N : value[k] = value[k - 1] * Base + src[k]
  <2> HIDE DEF N
  <2>1. 0 \in 0..N /\ \A k \in 1..N : k \in 0..N /\ k # 0
    BY <1>0
  <2>2. \A k \in 0..N : value[k] = IF k = 0 THEN 0 ELSE value[k - 1] * Base + src[k]
    BY Zenon, <1>3
  <2> QED BY Zenon, <2>1, <2>2
<1>6. \A k \in 0..N : value[k] = v \div Weight[N - k]
  <2> DEFINE T == {k \in 0..N : value[k] = v \div Weight[N - k]}
  <2>1. 0 \in T
    <3>1. Weight[N] \in Nat \ {0}
      BY <1>0, Weights
    <3>2. v \div Weight[N] = 0
      <4> DEFINE w == Weight[N]
      <4>1. w \in Nat \ {0} /\ v \in Nat /\ v < w
        BY <1>0, <3>1
      <4> HIDE DEF w
      <4>2. v \div w = 0
        BY <4>1
      <4> QED BY <4>2 DEF w
    <3> QED BY <1>0, <1>5, <3>2
  <2>2. ASSUME NEW k \in 1..N, k - 1 \in T PROVE k \in T
    <3> DEFINE w == Weight[N - k]
    <3>1. w \in Nat \ {0} /\ Weight[N - (k - 1)] = Base * w
      BY <1>0, Weights
    <3>2. value[k - 1] = v \div (Base * w)
      BY <2>2, <3>1
    <3>3. src[k] = (v \div w) % Base
      BY DEF write_uint32_be
    <3> HIDE DEF w
    <3>4. (v \div (Base * w)) * Base + ((v \div w) % Base) = v \div w
      BY Zenon, <1>0, <3>1, DivTwice
    <3>5. value[k] = v \div w
      BY <1>5, <3>2, <3>3, <3>4
    <3> QED BY <3>5 DEF w
  <2> HIDE DEF T, N
  <2>3. 0..N \subseteq T
    BY Zenon, <1>0, <2>1, <2>2, UpTo
  <2> QED BY <2>3 DEF T
<1>7. value[N] = v \div Weight[0]
  BY <1>0, <1>6
<1> QED BY <1>0, <1>4, <1>7, Weights

-----------------------------------------------------------------------------
(***************************************************************************)
(* Concatenation                                                           *)
(***************************************************************************)

\* Joined concatenates one sequence after the other.
LEMMA JoinedSteps ==
  ASSUME NEW S, NEW seqs \in Seq(Seq(S))
  PROVE  \E f \in [0..Len(seqs) -> Seq(S)] :
           /\ f[0] = <<>> /\ \A i \in 1..Len(seqs) : f[i] = f[i - 1] \o seqs[i]
           /\ Joined(seqs) = f[Len(seqs)]
<1> DEFINE N == Len(seqs)
           Is(f) == f = [n \in 0..N |-> IF n = 0 THEN <<>> ELSE f[n - 1] \o seqs[n]]
           joined == CHOOSE f : Is(f)
           step == [i \in 1..N |-> [x \in Seq(S) |-> x \o seqs[i]]]
<1>0. N \in Nat /\ \A i \in 1..N : seqs[i] \in Seq(S)
  OBVIOUS
<1>1. PICK g \in [0..N -> Seq(S)] : Recursive(g, N, <<>>, step)
  <2>1. step \in [1..N -> [Seq(S) -> Seq(S)]]
    BY <1>0
  <2>2. <<>> \in Seq(S)
    OBVIOUS
  <2> HIDE DEF step, N
  <2> QED BY Zenon, <1>0, <2>1, <2>2, Recursion
<1>2. g[0] = <<>> /\ \A i \in 1..N : g[i] = g[i - 1] \o seqs[i]
  <2>1. \A i \in 1..N, x \in Seq(S) : step[i][x] = x \o seqs[i]
    BY <1>0
  <2> HIDE DEF step, N
  <2>2. ASSUME NEW i \in 1..N PROVE g[i] = g[i - 1] \o seqs[i]
    <3>1. g[i - 1] \in Seq(S)
      BY <1>0, <1>1
    <3> QED BY Zenon, <1>1, <2>1, <3>1 DEF Recursive
  <2> QED BY Zenon, <1>1, <2>2 DEF Recursive
<1> HIDE DEF step
<1>3. Is(joined)
  <2>1. Is(g)
    <3> HIDE DEF N
    <3>1. \A n \in 0..N : n = 0 \/ n \in 1..N
      BY <1>0
    <3>2. \A n \in 0..N : g[n] = IF n = 0 THEN <<>> ELSE g[n - 1] \o seqs[n]
      BY Zenon, <1>2, <3>1
    <3>3. g = [n \in 0..N |-> g[n]]
      BY <1>1
    <3> QED BY Zenon, <3>2, <3>3
  <2> HIDE DEF Is
  <2> QED BY <2>1
<1>4. Joined(seqs) = joined[N]
  BY DEF Joined
<1>5. joined[0] = <<>> /\ \A i \in 1..N : joined[i] = joined[i - 1] \o seqs[i]
  <2> HIDE DEF joined, N
  <2>1. 0 \in 0..N /\ \A i \in 1..N : i \in 0..N /\ i # 0
    BY <1>0
  <2>2. \A i \in 0..N : joined[i] = IF i = 0 THEN <<>> ELSE joined[i - 1] \o seqs[i]
    BY Zenon, <1>3
  <2> QED BY Zenon, <2>1, <2>2
<1> HIDE DEF joined, N
<1>6. \A i \in 0..N : joined[i] = g[i]
  <2> DEFINE T == {i \in 0..N : joined[i] = g[i]}
  <2>1. 0 \in T
    BY <1>0, <1>2, <1>5
  <2>2. ASSUME NEW i \in 1..N, i - 1 \in T PROVE i \in T
    <3>1. joined[i - 1] = g[i - 1]
      BY <2>2
    <3>2. joined[i] = g[i]
      BY Zenon, <1>2, <1>5, <3>1
    <3> QED BY <3>2
  <2> HIDE DEF T
  <2>3. 0..N \subseteq T
    BY Zenon, <1>0, <2>1, <2>2, UpTo
  <2> QED BY <2>3 DEF T
<1>7. Joined(seqs) = g[N]
  BY <1>0, <1>4, <1>6
<1> QED BY Zenon, <1>1, <1>2, <1>7 DEF N

\* What it gives for no sequence,
LEMMA JoinedEmpty == Joined(<<>>) = <<>>
<1>1. <<>> \in Seq(Seq({})) /\ Len(<<>>) = 0
  OBVIOUS
<1>2. \E f \in [0..Len(<<>>) -> Seq({})] :
        /\ f[0] = <<>> /\ \A i \in 1..Len(<<>>) : f[i] = f[i - 1] \o <<>>[i]
        /\ Joined(<<>>) = f[Len(<<>>)]
  BY Zenon, <1>1, JoinedSteps
<1> QED BY Zenon, <1>1, <1>2

\* and for one sequence more.
LEMMA JoinedAppend ==
  ASSUME NEW S, NEW seqs \in Seq(Seq(S)), NEW s \in Seq(S)
  PROVE  /\ Joined(seqs) \in Seq(S)
         /\ Joined(Append(seqs, s)) = Joined(seqs) \o s
<1> DEFINE N == Len(seqs)
           more == Append(seqs, s)
<1>0. /\ N \in Nat /\ more \in Seq(Seq(S)) /\ Len(more) = N + 1
      /\ more[N + 1] = s /\ \A i \in 1..N : more[i] = seqs[i]
  OBVIOUS
<1>1. PICK f \in [0..N -> Seq(S)] :
        /\ f[0] = <<>> /\ \A i \in 1..N : f[i] = f[i - 1] \o seqs[i]
        /\ Joined(seqs) = f[N]
  BY Zenon, JoinedSteps
<1> HIDE DEF more
<1>2. PICK h \in [0..Len(more) -> Seq(S)] :
        /\ h[0] = <<>> /\ \A i \in 1..Len(more) : h[i] = h[i - 1] \o more[i]
        /\ Joined(more) = h[Len(more)]
  BY Zenon, <1>0, JoinedSteps
<1> HIDE DEF N
<1>3. \A i \in 0..N : f[i] = h[i]
  <2> DEFINE T == {i \in 0..N : f[i] = h[i]}
  <2>1. 0 \in T
    BY <1>0, <1>1, <1>2
  <2>2. ASSUME NEW i \in 1..N, i - 1 \in T PROVE i \in T
    <3>a. i \in 1..Len(more)
      BY <1>0
    <3>b. f[i - 1] = h[i - 1]
      BY Zenon, <2>2
    <3>1. i \in 1..Len(more) /\ more[i] = seqs[i] /\ f[i - 1] = h[i - 1]
      BY Zenon, <1>0, <3>a, <3>b
    <3>2. f[i] = h[i]
      BY Zenon, <1>1, <1>2, <3>1
    <3> QED BY <3>2
  <2> HIDE DEF T
  <2>3. 0..N \subseteq T
    BY Zenon, <1>0, <2>1, <2>2, UpTo
  <2> QED BY Zenon, <2>3 DEF T
<1>4. Joined(more) = h[N] \o s
  <2>1. N + 1 \in 1..Len(more) /\ (N + 1) - 1 = N
    BY <1>0
  <2> QED BY Zenon, <1>0, <1>2, <2>1
<1>5. N \in 0..N
  BY <1>0
<1> QED BY Zenon, <1>1, <1>3, <1>4, <1>5 DEF more

SeqValued(F, V, S) == F \in [V -> Seq(S)]
Each(F, q) == [i \in DOMAIN q |-> F[q[i]]]
Grows(F, q, x, S) ==
  /\ Joined(Each(F, q)) \in Seq(S)
  /\ Joined(Each(F, Append(q, x))) = Joined(Each(F, q)) \o F[x]

\* What is concatenated element by element grows at its end.
LEMMA EachAppend ==
  ASSUME NEW S, NEW V, NEW F, SeqValued(F, V, S), NEW q \in Seq(V), NEW x \in V
  PROVE  Grows(F, q, x, S)
<1>0. F \in [V -> Seq(S)]
  BY DEF SeqValued
<1>1. Each(F, q) \in Seq(Seq(S)) /\ F[x] \in Seq(S)
  BY <1>0 DEF Each
<1>2. Each(F, Append(q, x)) = Append(Each(F, q), F[x])
  <2>1. Each(F, Append(q, x)) \in Seq(Seq(S)) /\ Len(Each(F, Append(q, x))) = Len(q) + 1
    BY <1>0 DEF Each
  <2>2. Append(Each(F, q), F[x]) \in Seq(Seq(S)) /\ Len(Append(Each(F, q), F[x])) = Len(q) + 1
    BY <1>1 DEF Each
  <2>3. ASSUME NEW i \in 1..(Len(q) + 1)
        PROVE  Each(F, Append(q, x))[i] = Append(Each(F, q), F[x])[i]
    <3>1. CASE i = Len(q) + 1
      BY <1>1, <3>1 DEF Each
    <3>2. CASE i # Len(q) + 1
      BY <1>1, <3>2 DEF Each
    <3> QED BY Zenon, <3>1, <3>2
  <2> QED BY <2>1, <2>2, <2>3, SeqEqual
<1> QED BY Zenon, <1>1, <1>2, JoinedAppend DEF Grows

-----------------------------------------------------------------------------
(***************************************************************************)
(* The stream of frames                                                    *)
(***************************************************************************)

\* The header and the frame of a payload.
LEMMA Frame ==
  ASSUME NEW x \in Bytes
  PROVE  /\ write_uint32_be(Len(x)) \in Bytes
         /\ Len(write_uint32_be(Len(x))) = HEADER_SIZE
         /\ encode(x) \in Bytes
         /\ Len(x) <= MAX_PAYLOAD_SIZE => /\ encode(x) = write_uint32_be(Len(x)) \o x
                                          /\ Len(encode(x)) = HEADER_SIZE + Len(x)
<1> DEFINE h == write_uint32_be(Len(x))
<1>0. HEADER_SIZE \in Nat /\ Base \in Nat \ {0} /\ Len(x) \in Nat /\ MAX_PAYLOAD_SIZE \in Nat
  BY CodecAssumption, Weights DEF Bytes
<1>1. \A i \in 1..HEADER_SIZE : (Len(x) \div Weight[HEADER_SIZE - i]) % Base \in Byte
  <2> TAKE i \in 1..HEADER_SIZE
  <2>1. Weight[HEADER_SIZE - i] \in Nat \ {0}
    BY <1>0, Weights
  <2>2. Len(x) \div Weight[HEADER_SIZE - i] \in Nat
    BY <1>0, <2>1
  <2> QED BY <1>0, <2>2 DEF Byte
<1>2. h \in Bytes /\ Len(h) = HEADER_SIZE
  BY <1>0, <1>1 DEF write_uint32_be, Bytes
<1> HIDE DEF h
<1>3. h \o x \in Bytes /\ Len(h \o x) = HEADER_SIZE + Len(x)
  BY <1>0, <1>2 DEF Bytes
<1>4. encode(x) = IF Len(x) > MAX_PAYLOAD_SIZE THEN <<>> ELSE h \o x
  BY Zenon DEF encode, h
<1>5. encode(x) \in Bytes
  BY <1>3, <1>4 DEF Bytes
<1>6. ASSUME Len(x) <= MAX_PAYLOAD_SIZE PROVE encode(x) = h \o x
  BY <1>0, <1>4, <1>6
<1> QED BY <1>2, <1>3, <1>5, <1>6 DEF h

\* A payload more makes the stream longer by its frame.
LEMMA StreamAppend ==
  ASSUME NEW q \in Seq(Bytes), NEW x \in Bytes
  PROVE  /\ Stream(q) \in Bytes
         /\ Stream(Append(q, x)) = Stream(q) \o encode(x)
<1> DEFINE F == [p \in Bytes |-> encode(p)]
<1>1. F \in [Bytes -> Seq(Byte)] /\ F[x] = encode(x)
  BY Frame DEF Bytes
<1>2. \A r \in Seq(Bytes) : Stream(r) = Joined(Each(F, r))
  <2> TAKE r \in Seq(Bytes)
  <2>1. [i \in DOMAIN r |-> encode(r[i])] = Each(F, r)
    BY DEF Each
  <2> QED BY Zenon, <2>1 DEF Stream
<1>3. Append(q, x) \in Seq(Bytes)
  OBVIOUS
<1> HIDE DEF F
<1>4. /\ Joined(Each(F, q)) \in Seq(Byte)
      /\ Joined(Each(F, Append(q, x))) = Joined(Each(F, q)) \o F[x]
  <2>1. SeqValued(F, Bytes, Byte)
    BY <1>1 DEF SeqValued
  <2>2. Grows(F, q, x, Byte)
    BY Zenon, <2>1, EachAppend
  <2> QED BY Zenon, <2>2 DEF Grows
<1> QED BY Zenon, <1>1, <1>2, <1>3, <1>4 DEF Bytes

\* The stream of no payload is empty.
LEMMA StreamEmpty == Stream(<<>>) = <<>>
<1>1. [i \in DOMAIN <<>> |-> encode(<<>>[i])] = <<>>
  OBVIOUS
<1> QED BY Zenon, <1>1, JoinedEmpty DEF Stream

\* The stream of the first n payloads of q.
Begin(q, n) == Stream(SubSeq(q, 1, n))

\* It grows frame by frame.
LEMMA BeginStep ==
  ASSUME NEW q \in Seq(Bytes)
  PROVE  /\ Begin(q, 0) = <<>> /\ Begin(q, Len(q)) = Stream(q)
         /\ \A n \in 0..Len(q) : Begin(q, n) \in Bytes
         /\ \A n \in 1..Len(q) : Begin(q, n) = Begin(q, n - 1) \o encode(q[n])
<1>1. SubSeq(q, 1, 0) = <<>> /\ SubSeq(q, 1, Len(q)) = q
  OBVIOUS
<1>2. ASSUME NEW n \in 0..Len(q) PROVE Begin(q, n) \in Bytes
  <2>1. SubSeq(q, 1, n) \in Seq(Bytes) /\ <<>> \in Bytes
    BY DEF Bytes
  <2> QED BY Zenon, <2>1, StreamAppend DEF Begin
<1>3. ASSUME NEW n \in 1..Len(q) PROVE Begin(q, n) = Begin(q, n - 1) \o encode(q[n])
  <2> DEFINE r == SubSeq(q, 1, n - 1)
  <2>1. r \in Seq(Bytes) /\ q[n] \in Bytes
    OBVIOUS
  <2>2. SubSeq(q, 1, n) = Append(r, q[n])
    <3>1. /\ SubSeq(q, 1, n) \in Seq(Bytes) /\ Append(r, q[n]) \in Seq(Bytes)
          /\ Len(SubSeq(q, 1, n)) = n /\ Len(Append(r, q[n])) = n /\ Len(r) = n - 1
      OBVIOUS
    <3>2. \A i \in 1..n : SubSeq(q, 1, n)[i] = Append(r, q[n])[i]
      OBVIOUS
    <3> HIDE DEF r
    <3> QED BY <3>1, <3>2, SeqEqual
  <2> HIDE DEF r
  <2>3. Stream(Append(r, q[n])) = Stream(r) \o encode(q[n])
    BY Zenon, <2>1, StreamAppend
  <2> QED BY Zenon, <2>2, <2>3 DEF Begin, r
<1> QED BY Zenon, <1>1, <1>2, <1>3, StreamEmpty DEF Begin

\* It is the beginning of the whole.
LEMMA BeginPrefix ==
  ASSUME NEW q \in Seq(Bytes), NEW n \in 0..Len(q)
  PROVE  \E u \in Bytes : Stream(q) = Begin(q, n) \o u
<1> DEFINE Long(m) == \E u \in Bytes : Begin(q, m) = Begin(q, n) \o u
           T == {m \in 0..Len(q) : m >= n => Long(m)}
<1>0. Len(q) \in Nat /\ n \in Nat /\ \A m \in 0..Len(q) : Begin(q, m) \in Bytes
  BY BeginStep
<1>1. Long(n)
  <2>1. <<>> \in Bytes /\ Begin(q, n) = Begin(q, n) \o <<>>
    BY <1>0 DEF Bytes
  <2> QED BY Zenon, <2>1
<1>2. 0 \in T
  <2>1. 0 \in 0..Len(q) /\ (0 >= n => n = 0)
    BY <1>0
  <2> HIDE DEF Long
  <2> QED BY Zenon, <1>1, <2>1
<1>3. ASSUME NEW m \in 1..Len(q), m - 1 \in T PROVE m \in T
  <2>1. ASSUME m > n PROVE Long(m)
    <3>1. m - 1 >= n /\ q[m] \in Bytes /\ m - 1 \in 0..Len(q)
      BY <1>0, <2>1
    <3>2. PICK u \in Bytes : Begin(q, m - 1) = Begin(q, n) \o u
      BY <1>3, <3>1
    <3>3. encode(q[m]) \in Bytes /\ Begin(q, n) \in Bytes
      BY <1>0, <3>1, Frame
    <3>4. Begin(q, m) = (Begin(q, n) \o u) \o encode(q[m])
      BY Zenon, <3>2, BeginStep
    <3>5. Assoc(Begin(q, n), u, encode(q[m]))
      BY Zenon, <3>3, Associative
    <3>6. u \o encode(q[m]) \in Bytes
      BY <3>3 DEF Bytes
    <3> QED BY Zenon, <3>4, <3>5, <3>6 DEF Assoc
  <2> HIDE DEF Long
  <2>2. m >= n => m > n \/ m = n
    BY <1>0
  <2> QED BY <1>1, <2>1, <2>2
<1> HIDE DEF Long
<1>4. Len(q) \in T
  <2> HIDE DEF T
  <2>1. 0..Len(q) \subseteq T
    BY Zenon, <1>0, <1>2, <1>3, UpTo
  <2> QED BY <1>0, <2>1
<1>5. Long(Len(q))
  BY <1>0, <1>4
<1> QED BY Zenon, <1>5, BeginStep DEF Long

Short == {x \in Bytes : Len(x) <= MAX_PAYLOAD_SIZE}

\* b and w are what is left of the stream of q after its first n payloads.
Left(q, n, b, w) == Begin(q, n) \o (b \o w) = Stream(q)

\* What is left begins with the next frame.
LEMMA NextFrame ==
  ASSUME NEW q \in Seq(Bytes), NEW n \in 0..Len(q), NEW b \in Bytes, NEW w \in Bytes,
         Left(q, n, b, w), b # <<>>
  PROVE  /\ n < Len(q) /\ q[n + 1] \in Bytes
         /\ \E u \in Bytes : b \o w = encode(q[n + 1]) \o u
<1>0. Begin(q, n) \in Bytes /\ Len(q) \in Nat /\ b \o w \in Bytes /\ b \o w # <<>>
  BY BeginStep DEF Bytes
<1>1. n < Len(q)
  <2>1. SUFFICES ASSUME n = Len(q) PROVE FALSE
    BY <1>0
  <2>2. Begin(q, n) \o (b \o w) = Begin(q, n)
    BY Zenon, <2>1, BeginStep DEF Left
  <2> QED BY Zenon, <1>0, <2>2, Concat
<1> DEFINE e == encode(q[n + 1])
<1>2. q[n + 1] \in Bytes /\ e \in Bytes /\ n + 1 \in 1..Len(q) /\ n + 1 \in 0..Len(q)
  BY <1>0, <1>1, Frame
<1>3. PICK u \in Bytes : Stream(q) = Begin(q, n + 1) \o u
  BY Zenon, <1>2, BeginPrefix
<1>4. Begin(q, n + 1) = Begin(q, n) \o e
  <2>1. (n + 1) - 1 = n
    OBVIOUS
  <2> QED BY <1>2, <2>1, BeginStep
<1> HIDE DEF e
<1>5. (Begin(q, n) \o e) \o u = Begin(q, n) \o (e \o u) /\ e \o u \in Bytes
  <2>1. e \o u \in Bytes
    BY <1>2, Concat
  <2>2. (Begin(q, n) \o e) \o u = Begin(q, n) \o (e \o u)
    <3> DEFINE p == Begin(q, n)
    <3>1. p \in Bytes
      BY <1>0
    <3> HIDE DEF p
    <3>2. Assoc(p, e, u)
      BY Zenon, <1>2, <3>1, Associative
    <3> QED BY Zenon, <3>2 DEF p, Assoc
  <2> QED BY <2>1, <2>2
<1>6. Begin(q, n) \o (b \o w) = Begin(q, n) \o (e \o u)
  BY Zenon, <1>3, <1>4, <1>5 DEF Left
<1>7. b \o w = e \o u
  BY Zenon, <1>0, <1>5, <1>6, Cancel
<1> QED BY Zenon, <1>1, <1>2, <1>7 DEF e

\* The state st of decode is M and b.
Parts(st, M, b) == st = [messages |-> M, buffer |-> b]

\* A round of decode changes nothing, or takes the payload after the n-th.
Takes(q, n, w, M, st) ==
  \/ Take(st) = st
  \/ n < Len(q) /\ \E c \in Bytes : /\ Parts(Take(st), Append(M, q[n + 1]), c)
                                    /\ Left(q, n + 1, c, w)

\* That is what a round does when it begins with what is left.
LEMMA TakeFrame ==
  ASSUME NEW q \in Seq(Short), NEW n \in 0..Len(q), NEW b \in Bytes, NEW w \in Bytes,
         NEW M, NEW st, Parts(st, M, b), Left(q, n, b, w)
  PROVE  Takes(q, n, w, M, st)
<1> USE DEF Parts, Takes
<1>0. /\ HEADER_SIZE \in Nat \ {0} /\ MAX_PAYLOAD_SIZE \in Nat /\ q \in Seq(Bytes)
      /\ Len(b) \in Nat /\ st.buffer = b /\ st.messages = M
  BY CodecAssumption, Weights DEF Short, Bytes
<1> DEFINE length == read_uint32_be(b)
           frame == HEADER_SIZE + length
<1>1. Take(st) = IF Len(b) < HEADER_SIZE THEN st
                 ELSE IF length > MAX_PAYLOAD_SIZE THEN [st EXCEPT !.buffer = <<>>]
                 ELSE IF Len(b) < frame THEN st
                 ELSE [messages |-> Append(M, SubSeq(b, HEADER_SIZE + 1, frame)),
                       buffer |-> SubSeq(b, frame + 1, Len(b))]
  BY <1>0, Zenon DEF Take
<1> HIDE DEF length, frame
<1>2. CASE Len(b) < HEADER_SIZE
  BY <1>1, <1>2, Zenon
<1>3. CASE Len(b) >= HEADER_SIZE
  <2> DEFINE x == q[n + 1]
             h == write_uint32_be(Len(x))
  <2>1. b # <<>>
    BY <1>0, <1>3
  <2>2. n < Len(q) /\ x \in Bytes /\ \E u \in Bytes : b \o w = encode(x) \o u
    BY ZenonT(30), <1>0, <2>1, NextFrame
  <2>3. PICK u \in Bytes : b \o w = encode(x) \o u
    BY Zenon, <2>2
  <2>4. x \in Short /\ Len(x) \in 0..MAX_PAYLOAD_SIZE /\ Len(x) <= MAX_PAYLOAD_SIZE
    BY <1>0, <2>2 DEF Short, Bytes
  <2> HIDE DEF x
  <2>5. /\ h \in Bytes /\ Len(h) = HEADER_SIZE /\ encode(x) \in Bytes
        /\ encode(x) = h \o x /\ Len(encode(x)) = HEADER_SIZE + Len(x)
    BY Zenon, <2>2, <2>4, Frame
  <2> HIDE DEF h
  <2>6. \A i \in 1..Len(b) : (b \o w)[i] = b[i]
    BY DEF Bytes
  <2>7. \A i \in 1..(HEADER_SIZE + Len(x)) : (encode(x) \o u)[i] = encode(x)[i]
    BY <2>5 DEF Bytes
  <2>8. /\ \A i \in 1..HEADER_SIZE : (h \o x)[i] = h[i]
        /\ \A i \in 1..Len(x) : (h \o x)[HEADER_SIZE + i] = x[i]
    <3>1. /\ \A i \in 1..Len(h) : (h \o x)[i] = h[i]
          /\ \A i \in 1..Len(x) : (h \o x)[Len(h) + i] = x[i]
      BY ZenonT(30), <2>2, <2>5, ConcatAt
    <3> QED BY ZenonT(30), <2>5, <3>1
  <2>9. length = Len(x)
    <3>1. \A i \in 1..HEADER_SIZE : b[i] = h[i]
      <4> TAKE i \in 1..HEADER_SIZE
      <4>1. i \in 1..Len(b) /\ i \in 1..(HEADER_SIZE + Len(x))
        BY <1>0, <1>3, <2>4
      <4> QED BY ZenonT(30), <2>3, <2>5, <2>6, <2>7, <2>8, <4>1
    <3>2. read_uint32_be(b) = Len(x)
      BY <1>3, <2>4, <3>1, ReadBack DEF h
    <3> QED BY <3>2 DEF length
  <2>10. CASE Len(b) < frame
    <3>1. ~(Len(b) < HEADER_SIZE) /\ ~(length > MAX_PAYLOAD_SIZE)
      BY <1>0, <1>3, <2>4, <2>9
    <3> QED BY Zenon, <1>1, <2>10, <3>1
  <2>11. CASE Len(b) >= frame
    <3> DEFINE c == SubSeq(b, frame + 1, Len(b))
    <3>1. ~(Len(b) < HEADER_SIZE) /\ ~(length > MAX_PAYLOAD_SIZE) /\ ~(Len(b) < frame)
      BY <1>0, <1>3, <2>4, <2>9, <2>11 DEF frame
    <3>2. frame = HEADER_SIZE + Len(x) /\ frame \in Nat /\ frame <= Len(b)
      BY <1>0, <2>4, <2>9, <2>11 DEF frame
    <3>3. \A i \in 1..frame : b[i] = encode(x)[i]
      <4> TAKE i \in 1..frame
      <4>1. i \in 1..Len(b) /\ i \in 1..(HEADER_SIZE + Len(x))
        BY <1>0, <3>2
      <4> QED BY Zenon, <2>3, <2>6, <2>7, <4>1
    <3>4. SubSeq(b, HEADER_SIZE + 1, frame) = x
      <4> DEFINE y == SubSeq(b, HEADER_SIZE + 1, frame)
      <4>1. /\ y \in Seq(Byte) /\ Len(y) = Len(x)
            /\ \A i \in 1..Len(x) : y[i] = b[HEADER_SIZE + i]
        BY <1>0, <2>4, <3>2 DEF Bytes
      <4>2. \A i \in 1..Len(x) : b[HEADER_SIZE + i] = x[i]
        <5> TAKE i \in 1..Len(x)
        <5>1. HEADER_SIZE + i \in 1..frame
          BY <1>0, <2>4, <3>2
        <5> QED BY Zenon, <2>5, <2>8, <3>3, <5>1
      <4> HIDE DEF y
      <4>3. y = x
        BY <2>2, <4>1, <4>2, SeqEqual DEF Bytes
      <4> QED BY <4>3 DEF y
    <3>5. c \in Bytes /\ Len(c) = Len(b) - frame /\ \A i \in 1..Len(c) : c[i] = b[frame + i]
      BY <1>0, <3>2 DEF Bytes
    <3>6. Take(st) = [messages |-> Append(M, x), buffer |-> c]
      BY Zenon, <1>1, <3>1, <3>4
    <3> HIDE DEF c
    <3>7. b = encode(x) \o c
      <4> DEFINE e == encode(x)
      <4>1. e \in Bytes /\ Len(e) = frame
        BY <2>5, <3>2
      <4> HIDE DEF e
      <4>2. e \o c \in Seq(Byte) /\ Len(e \o c) = Len(b)
        <5>1. e \o c \in Bytes /\ Len(e \o c) = Len(e) + Len(c)
          BY Zenon, <3>5, <4>1, Concat, ConcatAt
        <5> QED BY <1>0, <3>2, <3>5, <4>1, <5>1 DEF Bytes
      <4>3. ASSUME NEW i \in 1..Len(b) PROVE b[i] = (e \o c)[i]
        <5>1. CASE i <= frame
          <6>1. i \in 1..frame
            BY <1>0, <3>2, <5>1
          <6>2. (e \o c)[i] = e[i]
            BY Zenon, <3>5, <4>1, <6>1, ConcatAt
          <6> QED BY ZenonT(30), <3>3, <6>1, <6>2 DEF e
        <5>2. CASE i > frame
          <6>1. i - frame \in 1..Len(c) /\ frame + (i - frame) = i
            BY <1>0, <3>2, <3>5, <5>2
          <6>2. (e \o c)[frame + (i - frame)] = c[i - frame]
            BY ZenonT(30), <3>5, <4>1, <6>1, ConcatAt
          <6>3. c[i - frame] = b[frame + (i - frame)]
            BY <3>5, <6>1
          <6> QED BY Zenon, <6>1, <6>2, <6>3
        <5>3. i <= frame \/ i > frame
          BY <1>0, <3>2
        <5> QED BY Zenon, <5>1, <5>2, <5>3
      <4>4. b = e \o c
        BY Zenon, <4>2, <4>3, SeqEqual DEF Bytes
      <4> QED BY <4>4 DEF e
    <3>8. Left(q, n + 1, c, w)
      <4> DEFINE p == Begin(q, n)
                 e == encode(x)
      <4>1. Begin(q, n + 1) = p \o e
        <5>1. n + 1 \in 1..Len(q) /\ (n + 1) - 1 = n
          BY <2>2
        <5>2. Begin(q, n + 1) = Begin(q, (n + 1) - 1) \o encode(q[n + 1])
          BY ZenonT(30), <1>0, <5>1, BeginStep
        <5> QED BY <5>1, <5>2 DEF x
      <4>2. p \in Bytes /\ e \in Bytes
        BY <1>0, <2>5, BeginStep
      <4>3. p \o (b \o w) = Stream(q) /\ b = e \o c
        BY Zenon, <3>7 DEF Left
      <4> HIDE DEF p, e
      <4>4. c \in Bytes
        BY <3>5
      <4>5. c \o w \in Bytes
        BY Zenon, <4>4, Concat
      <4>6. Assoc(e, c, w)
        BY Zenon, <4>2, <4>4, Associative
      <4>7. Assoc(p, e, c \o w)
        BY Zenon, <4>2, <4>5, Associative
      <4> QED BY Zenon, <4>1, <4>3, <4>6, <4>7 DEF Left, Assoc
    <3> QED BY Zenon, <2>2, <3>5, <3>6, <3>8 DEF x
  <2>12. Len(b) < frame \/ Len(b) >= frame
    BY <1>0, <2>4, <2>9 DEF frame
  <2> QED BY Zenon, <2>10, <2>11, <2>12
<1>4. Len(b) < HEADER_SIZE \/ Len(b) >= HEADER_SIZE
  BY <1>0
<1> QED BY Zenon, <1>2, <1>3, <1>4

\* decode has come to the state st, m payloads of q, of which n were taken before.
Good(q, n, w, st) ==
  \E m \in n..Len(q), c \in Bytes : Parts(st, SubSeq(q, n + 1, m), c) /\ Left(q, m, c, w)

\* A round of decode preserves that.
LEMMA TakeGood ==
  ASSUME NEW q \in Seq(Short), NEW n \in 0..Len(q), NEW w \in Bytes, NEW st, Good(q, n, w, st)
  PROVE  Good(q, n, w, Take(st))
<1>0. n \in Nat /\ Len(q) \in Nat /\ n <= Len(q)
  OBVIOUS
<1>1. PICK m \in n..Len(q), c \in Bytes : Parts(st, SubSeq(q, n + 1, m), c) /\ Left(q, m, c, w)
  BY Zenon DEF Good
<1>2. m \in 0..Len(q)
  BY <1>0
<1> DEFINE M == SubSeq(q, n + 1, m)
<1>3. Parts(st, M, c) /\ Left(q, m, c, w)
  BY Zenon, <1>1
<1>4. m < Len(q) => Append(M, q[m + 1]) = SubSeq(q, n + 1, m + 1) /\ m + 1 \in n..Len(q)
  <2> SUFFICES ASSUME m < Len(q)
               PROVE  Append(M, q[m + 1]) = SubSeq(q, n + 1, m + 1) /\ m + 1 \in n..Len(q)
    OBVIOUS
  <2>1. /\ Append(M, q[m + 1]) \in Seq(Short) /\ SubSeq(q, n + 1, m + 1) \in Seq(Short)
        /\ Len(M) = m - n /\ Len(Append(M, q[m + 1])) = m + 1 - n
        /\ Len(SubSeq(q, n + 1, m + 1)) = m + 1 - n
    BY <1>0, <1>2
  <2>2. \A i \in 1..(m + 1 - n) : Append(M, q[m + 1])[i] = SubSeq(q, n + 1, m + 1)[i]
    BY <1>0, <1>2
  <2> HIDE DEF M
  <2>3. Append(M, q[m + 1]) = SubSeq(q, n + 1, m + 1)
    BY Zenon, <2>1, <2>2, SeqEqual
  <2> QED BY <1>0, <1>2, <2>3
<1> HIDE DEF M
<1>5. Takes(q, m, w, M, st)
  BY Zenon, <1>2, <1>3, TakeFrame
<1> QED BY Zenon, <1>4, <1>5 DEF Takes, Good

\* decode takes whole payloads off what is left, the next ones in their order, and
\* keeps the rest.
THEOREM DecodeTakes ==
  ASSUME NEW q \in Seq(Short), NEW n \in 0..Len(q), NEW b \in Bytes, NEW w \in Bytes,
         Left(q, n, b, w)
  PROVE  Good(q, n, w, decode(b))
<1> DEFINE N == Len(b)
           G == {st \in [messages : Seq(Short), buffer : Bytes] : Good(q, n, w, st)}
           first == [messages |-> <<>>, buffer |-> b]
           Is(f) == f = [k \in 0..N |-> IF k = 0 THEN {first} ELSE {Take(st) : st \in f[k - 1]}]
           round == CHOOSE f : Is(f)
           step == [k \in 1..N |-> [S \in SUBSET G |-> {Take(st) : st \in S}]]
<1>0. N \in Nat
  BY DEF Bytes
<1>1. \A st : Good(q, n, w, st) => st \in G
  <2> TAKE st
  <2> SUFFICES ASSUME Good(q, n, w, st) PROVE st \in [messages : Seq(Short), buffer : Bytes]
    BY Zenon
  <2>1. PICK m \in n..Len(q), c \in Bytes : Parts(st, SubSeq(q, n + 1, m), c)
    BY Zenon DEF Good
  <2>2. SubSeq(q, n + 1, m) \in Seq(Short)
    OBVIOUS
  <2> QED BY <2>1, <2>2 DEF Parts
<1>2. \A st \in G : Take(st) \in G
  BY Zenon, <1>1, TakeGood
<1>3. first \in G
  <2>1. SubSeq(q, n + 1, n) = <<>> /\ n \in n..Len(q)
    OBVIOUS
  <2>2. Good(q, n, w, first)
    BY Zenon, <2>1 DEF Good, Parts
  <2> QED BY Zenon, <1>1, <2>2
<1> HIDE DEF G, first
<1>4. PICK g \in [0..N -> SUBSET G] : Recursive(g, N, {first}, step)
  <2>1. step \in [1..N -> [SUBSET G -> SUBSET G]]
    BY <1>2
  <2>2. {first} \in SUBSET G
    BY <1>3
  <2> HIDE DEF step, N
  <2> QED BY Zenon, <1>0, <2>1, <2>2, Recursion
<1>5. Is(g)
  <2>1. \A i \in 1..N : g[i] = {Take(st) : st \in g[i - 1]}
    <3>1. \A i \in 1..N, S \in SUBSET G : step[i][S] = {Take(st) : st \in S}
      OBVIOUS
    <3> HIDE DEF step, N
    <3> TAKE i \in 1..N
    <3>2. g[i - 1] \in SUBSET G
      BY <1>0, <1>4
    <3> QED BY Zenon, <1>4, <3>1, <3>2 DEF Recursive
  <2> HIDE DEF step, N
  <2> QED BY <1>4, <2>1 DEF Recursive
<1>6. Is(round)
  <2> HIDE DEF Is
  <2> QED BY <1>5
<1>7. decode(b) = CHOOSE st \in round[N] : TRUE
  BY Zenon DEF decode, first
<1> HIDE DEF round, step, N
<1>8. /\ round[0] = {first}
      /\ \A k \in 1..N : round[k] = {Take(st) : st \in round[k - 1]}
  <2>1. \A k \in 0..N : round[k] = IF k = 0 THEN {first} ELSE {Take(st) : st \in round[k - 1]}
    BY Zenon, <1>6
  <2>2. 0 \in 0..N /\ \A k \in 1..N : k \in 0..N /\ k # 0
    BY <1>0
  <2> QED BY Zenon, <2>1, <2>2
<1>9. round[N] \subseteq G /\ round[N] # {}
  <2> DEFINE T == {k \in 0..N : round[k] \subseteq G /\ round[k] # {}}
  <2>1. 0 \in T
    BY <1>0, <1>3, <1>8
  <2>2. ASSUME NEW k \in 1..N, k - 1 \in T PROVE k \in T
    <3>1. round[k - 1] \subseteq G /\ round[k - 1] # {} /\ k \in 0..N
      BY <2>2
    <3>2. round[k] = {Take(st) : st \in round[k - 1]}
      BY <1>8
    <3>3. round[k] \subseteq G
      BY <1>2, <3>1, <3>2
    <3>4. round[k] # {}
      <4>1. PICK st : st \in round[k - 1]
        BY <3>1
      <4>2. Take(st) \in round[k]
        BY Zenon, <3>2, <4>1
      <4> QED BY Zenon, <4>2
    <3> QED BY Zenon, <3>1, <3>3, <3>4
  <2> HIDE DEF T
  <2>3. 0..N \subseteq T
    BY Zenon, <1>0, <2>1, <2>2, UpTo
  <2> QED BY <1>0, <2>3 DEF T
<1>10. decode(b) \in G
  BY Zenon, <1>7, <1>9
<1> QED BY Zenon, <1>10 DEF G

\* A payload more that is accepted is one more to be delivered, unless it is too long.
LEMMA EncodableAppend ==
  ASSUME NEW q \in Seq(Bytes), NEW x \in Bytes
  PROVE  /\ Encodable(q) \in Seq(Short)
         /\ Encodable(Append(q, x)) = IF Len(x) <= MAX_PAYLOAD_SIZE THEN Append(Encodable(q), x)
                                      ELSE Encodable(q)
<1> DEFINE F == [p \in Bytes |-> IF Len(p) <= MAX_PAYLOAD_SIZE THEN <<p>> ELSE <<>>]
<1>1. SeqValued(F, Bytes, Short)
  <2>1. ASSUME NEW p \in Bytes
        PROVE  (IF Len(p) <= MAX_PAYLOAD_SIZE THEN <<p>> ELSE <<>>) \in Seq(Short)
    <3>1. CASE Len(p) <= MAX_PAYLOAD_SIZE
      <4>1. p \in Short
        BY <3>1 DEF Short
      <4> QED BY <3>1, <4>1
    <3>2. CASE ~(Len(p) <= MAX_PAYLOAD_SIZE)
      BY <3>2
    <3> QED BY <3>1, <3>2
  <2> QED BY <2>1 DEF SeqValued
<1>2. \A r \in Seq(Bytes) : Encodable(r) = Joined(Each(F, r))
  <2> TAKE r \in Seq(Bytes)
  <2>1. [i \in DOMAIN r |-> IF Len(r[i]) <= MAX_PAYLOAD_SIZE THEN <<r[i]>> ELSE <<>>] = Each(F, r)
    BY DEF Each
  <2> QED BY Zenon, <2>1 DEF Encodable
<1>3. Append(q, x) \in Seq(Bytes)
  OBVIOUS
<1>4. F[x] = IF Len(x) <= MAX_PAYLOAD_SIZE THEN <<x>> ELSE <<>>
  OBVIOUS
<1> HIDE DEF F
<1>5. Grows(F, q, x, Short)
  BY Zenon, <1>1, EachAppend
<1>6. Encodable(q) \in Seq(Short) /\ Encodable(Append(q, x)) = Encodable(q) \o F[x]
  BY Zenon, <1>2, <1>3, <1>5 DEF Grows
<1>7. CASE Len(x) <= MAX_PAYLOAD_SIZE
  <2>1. Encodable(q) \o <<x>> = Append(Encodable(q), x)
    BY <1>6
  <2> QED BY Zenon, <1>4, <1>6, <1>7, <2>1
<1>8. CASE ~(Len(x) <= MAX_PAYLOAD_SIZE)
  <2>1. Encodable(q) \o <<>> = Encodable(q)
    BY <1>6
  <2> QED BY Zenon, <1>4, <1>6, <1>8, <2>1
<1> QED BY Zenon, <1>7, <1>8

-----------------------------------------------------------------------------
(***************************************************************************)
(* The stream is conserved                                                 *)
(***************************************************************************)

\* What is in the buffers are bytes, and the pipe holds no more than it can.
BytesInv ==
  /\ write_buffer \in Bytes /\ pipe \in Bytes /\ srv_buffer \in Bytes
  /\ Len(pipe) <= PipeSize
  /\ accepted \in Seq(Bytes)
  /\ sender \in [Senders -> Payloads \cup {None}]

\* The first n payloads that were sent are delivered, and the rest is on its way.
OnItsWay(n) ==
  /\ delivered = SubSeq(Sent, 1, n)
  /\ srv_conn # "closed" => Left(Sent, n, srv_buffer \o pipe, write_buffer)

StreamInv ==
  /\ Stream(accepted) = Stream(Sent)
  /\ \E n \in 0..Len(Sent) : OnItsWay(n)

streamVars == <<write_buffer, pipe, srv_buffer, accepted, delivered, srv_conn>>

\* A step that touches none of the stream keeps the invariants.
LEMMA StreamSame ==
  ASSUME BytesInv, StreamInv, UNCHANGED <<streamVars, sender>>
  PROVE  BytesInv' /\ StreamInv'
BY DEF BytesInv, StreamInv, OnItsWay, Sent, streamVars

\* Neither does one after which the connection is closed at the server,
LEMMA StreamClosed ==
  ASSUME StreamInv, UNCHANGED <<accepted, delivered>>, srv_conn' = "closed"
  PROVE  StreamInv'
BY DEF StreamInv, OnItsWay, Sent

\* What was written leaves the buffer at the front.
LEMMA RoomTakes ==
  ASSUME BytesInv
  PROVE  /\ Room \in Nat /\ Room + Len(pipe) <= PipeSize
         /\ SubSeq(write_buffer, 1, Room) \in Bytes /\ Len(SubSeq(write_buffer, 1, Room)) = Room
         /\ SubSeq(write_buffer, Room + 1, Len(write_buffer)) \in Bytes
         /\ SubSeq(write_buffer, 1, Room) \o SubSeq(write_buffer, Room + 1, Len(write_buffer))
              = write_buffer
<1>0. /\ Len(write_buffer) \in Nat /\ Len(pipe) \in Nat /\ PipeSize \in Nat
      /\ Len(pipe) <= PipeSize /\ write_buffer \in Seq(Byte)
  BY TcpAssumption DEF BytesInv, Bytes
<1>1. Room \in 0..Len(write_buffer) /\ Room \in Nat /\ Room + Len(pipe) <= PipeSize
  BY <1>0 DEF Room
<1> DEFINE r == Room
<1> HIDE DEF r
<1>2. r \in 0..Len(write_buffer)
  BY <1>1 DEF r
<1>3. /\ SubSeq(write_buffer, 1, r) \in Seq(Byte) /\ Len(SubSeq(write_buffer, 1, r)) = r
      /\ SubSeq(write_buffer, r + 1, Len(write_buffer)) \in Seq(Byte)
  BY <1>0, <1>2
<1>4. SubSeq(write_buffer, 1, r) \o SubSeq(write_buffer, r + 1, Len(write_buffer))
        = SubSeq(write_buffer, 1, Len(write_buffer))
  <2>1. 1 \in 1..(Len(write_buffer) + 1) /\ r \in (1 - 1)..Len(write_buffer)
        /\ Len(write_buffer) \in r..Len(write_buffer)
    BY <1>0, <1>2
  <2> QED BY Zenon, <1>0, <2>1, ConcatAdjacentSubSeq
<1>5. SubSeq(write_buffer, 1, Len(write_buffer)) = write_buffer
  BY <1>0
<1> QED BY Zenon, <1>1, <1>3, <1>4, <1>5 DEF r, Bytes

\* write moves bytes from write_buffer_ to the pipe.
LEMMA WriteStream ==
  ASSUME BytesInv, StreamInv, handle_write
  PROVE  BytesInv' /\ StreamInv'
<1> DEFINE a == SubSeq(write_buffer, 1, Room)
           c == SubSeq(write_buffer, Room + 1, Len(write_buffer))
<1>1. /\ a \in Bytes /\ c \in Bytes /\ a \o c = write_buffer
      /\ Len(a) = Room /\ Room \in Nat /\ Room + Len(pipe) <= PipeSize
  BY Zenon, RoomTakes
<1>2. /\ pipe' = pipe \o a /\ write_buffer' = c
      /\ UNCHANGED <<srv_buffer, accepted, delivered, srv_conn, sender>>
  BY DEF handle_write, Written, serverVars
<1>3. pipe \in Bytes /\ srv_buffer \in Bytes
  BY DEF BytesInv
<1> HIDE DEF a, c
<1>4. /\ pipe' \in Bytes /\ Len(pipe') = Len(pipe) + Len(a) /\ Len(pipe) \in Nat
      /\ srv_buffer \o pipe \in Bytes
  BY Zenon, <1>1, <1>2, <1>3, Concat, ConcatAt
<1>5. BytesInv'
  BY <1>1, <1>2, <1>4 DEF BytesInv
<1>6. (srv_buffer' \o pipe') \o write_buffer' = (srv_buffer \o pipe) \o write_buffer
  <2>1. Assoc(srv_buffer, pipe, a)
    BY Zenon, <1>1, <1>3, Associative
  <2>2. Assoc(srv_buffer \o pipe, a, c)
    BY Zenon, <1>1, <1>4, Associative
  <2> QED BY Zenon, <1>1, <1>2, <2>1, <2>2 DEF Assoc
<1>7. StreamInv'
  BY Zenon, <1>2, <1>6 DEF StreamInv, OnItsWay, Left, Sent
<1> QED BY <1>5, <1>7

\* send appends a frame, or nothing when the payload is too long.
LEMMA SendStream ==
  ASSUME BytesInv, StreamInv, NEW t \in Senders, send(t)
  PROVE  BytesInv' /\ StreamInv'
<1> DEFINE x == sender[t]
           e == encode(x)
<1>1. CASE Refuses
  <2>1. UNCHANGED streamVars /\ sender' = [sender EXCEPT ![t] = None]
    BY <1>1 DEF send, streamVars, serverVars
  <2>2. BytesInv'
    BY <2>1 DEF BytesInv, streamVars
  <2>3. StreamInv'
    BY Zenon, <2>1 DEF StreamInv, OnItsWay, Sent, streamVars
  <2> QED BY <2>2, <2>3
<1>2. CASE ~Refuses
  <2>1. /\ x # None /\ sender' = [sender EXCEPT ![t] = None]
        /\ write_buffer' = write_buffer \o e /\ accepted' = Append(accepted, x)
        /\ UNCHANGED <<srv_buffer, pipe, delivered, srv_conn>>
    BY <1>2 DEF send, serverVars
  <2>2. x \in Bytes /\ e \in Bytes /\ write_buffer \in Bytes /\ accepted \in Seq(Bytes)
    <3>1. x \in Bytes
      BY <2>1, TcpAssumption DEF BytesInv, Bytes, Byte
    <3> QED BY <3>1, Frame DEF BytesInv
  <2> HIDE DEF x, e
  <2>3. write_buffer' \in Bytes /\ accepted' \in Seq(Bytes)
    <3>1. write_buffer \o e \in Bytes
      BY <2>2, Concat
    <3> QED BY <2>1, <2>2, <3>1
  <2>4. BytesInv'
    BY <2>1, <2>3 DEF BytesInv
  <2>5. Stream(accepted') = Stream(accepted) \o e /\ Stream(accepted) \in Bytes
    BY Zenon, <2>1, <2>2, StreamAppend DEF e
  <2>6. Sent \in Seq(Short) /\ Sent \in Seq(Bytes)
    <3>1. Sent \in Seq(Short)
      BY Zenon, <2>2, EncodableAppend DEF Sent
    <3> QED BY <3>1 DEF Short
  <2>7. CASE Len(x) <= MAX_PAYLOAD_SIZE
    <3>1. Sent' = Append(Sent, x)
      BY Zenon, <2>1, <2>2, <2>7, EncodableAppend DEF Sent
    <3>2. Stream(Sent') = Stream(Sent) \o e
      BY Zenon, <2>2, <2>6, <3>1, StreamAppend DEF e
    <3>3. ASSUME NEW n \in 0..Len(Sent), OnItsWay(n) PROVE n \in 0..Len(Sent') /\ OnItsWay(n)'
      <4>1. n \in 0..Len(Sent') /\ SubSeq(Sent', 1, n) = SubSeq(Sent, 1, n)
        <5> DEFINE q == Sent
        <5>1. q \in Seq(Bytes) /\ n \in 0..Len(q) /\ Sent' = Append(q, x)
          BY <2>6, <3>1
        <5> HIDE DEF q
        <5>2. n \in 0..Len(Append(q, x)) /\ SubSeq(Append(q, x), 1, n) = SubSeq(q, 1, n)
          BY <2>2, <5>1
        <5> QED BY <5>1, <5>2 DEF q
      <4>2. delivered' = SubSeq(Sent', 1, n)
        BY Zenon, <2>1, <3>3, <4>1 DEF OnItsWay
      <4>3. ASSUME srv_conn' # "closed"
            PROVE  Left(Sent', n, srv_buffer' \o pipe', write_buffer')
        <5> DEFINE p == Begin(Sent, n)
                   b == srv_buffer \o pipe
        <5>1. p \o (b \o write_buffer) = Stream(Sent)
          BY Zenon, <2>1, <3>3, <4>3 DEF OnItsWay, Left
        <5>2. p \in Bytes
          BY Zenon, <2>6, BeginStep
        <5>3. b \in Bytes
          BY Concat DEF BytesInv
        <5>4. Begin(Sent', n) = p
          BY Zenon, <4>1 DEF Begin
        <5> HIDE DEF p, b
        <5>5. b \o write_buffer \in Bytes
          BY <2>2, <5>3, Concat
        <5>6. Assoc(b, write_buffer, e)
          BY Zenon, <2>2, <5>3, Associative
        <5>7. Assoc(p, b \o write_buffer, e)
          BY Zenon, <2>2, <5>2, <5>5, Associative
        <5>8. p \o (b \o (write_buffer \o e)) = Stream(Sent')
          BY Zenon, <3>2, <5>1, <5>6, <5>7 DEF Assoc
        <5> QED BY Zenon, <2>1, <5>4, <5>8 DEF Left, b
      <4> QED BY Zenon, <4>1, <4>2, <4>3 DEF OnItsWay
    <3>4. Stream(accepted') = Stream(Sent')
      BY Zenon, <2>5, <3>2 DEF StreamInv
    <3> QED BY Zenon, <2>4, <3>3, <3>4 DEF StreamInv
  <2>8. CASE ~(Len(x) <= MAX_PAYLOAD_SIZE)
    <3>1. Sent' = Sent
      BY Zenon, <2>1, <2>2, <2>8, EncodableAppend DEF Sent
    <3>2. e = <<>>
      <4>1. Len(x) \in Nat /\ MAX_PAYLOAD_SIZE \in Nat
        BY <2>2, CodecAssumption, Weights DEF Bytes
      <4>2. Len(x) > MAX_PAYLOAD_SIZE
        BY <2>8, <4>1
      <4> QED BY Zenon, <4>2 DEF e, encode
    <3>3. write_buffer' = write_buffer
      BY <2>1, <2>2, <3>2 DEF Bytes
    <3>4. Stream(accepted') = Stream(accepted)
      BY <2>5, <3>2 DEF Bytes
    <3>5. StreamInv'
      BY Zenon, <2>1, <3>1, <3>3, <3>4 DEF StreamInv, OnItsWay
    <3> QED BY <2>4, <3>5
  <2> QED BY Zenon, <2>7, <2>8
<1> QED BY Zenon, <1>1, <1>2

\* The server takes what is in the pipe and hands the whole payloads on.
LEMMA ReadStream ==
  ASSUME ControlInv, BytesInv, StreamInv, srv_handle_read
  PROVE  BytesInv' /\ StreamInv'
<1> DEFINE b == srv_buffer \o pipe
           d == decode(b)
<1>1. /\ srv_conn = "open" /\ pipe' = <<>> /\ delivered' = delivered \o d.messages
      /\ srv_buffer' = IF ClientGone THEN <<>> ELSE d.buffer
      /\ srv_conn' = IF ClientGone THEN "closed" ELSE "open"
      /\ UNCHANGED <<write_buffer, accepted, sender>>
  BY DEF srv_handle_read, ControlInv, clientVars
<1>2. b \in Bytes /\ write_buffer \in Bytes /\ accepted \in Seq(Bytes)
  BY Concat DEF BytesInv
<1>3. Sent \in Seq(Short) /\ Sent' = Sent
  BY Zenon, <1>1, <1>2, EncodableAppend DEF Sent
<1>4. PICK n \in 0..Len(Sent) :
        delivered = SubSeq(Sent, 1, n) /\ Left(Sent, n, b, write_buffer)
  <2>1. srv_conn # "closed"
    BY <1>1
  <2> QED BY Zenon, <2>1 DEF StreamInv, OnItsWay
<1> HIDE DEF b, d
<1>5. Good(Sent, n, write_buffer, d)
  BY Zenon, <1>2, <1>3, <1>4, DecodeTakes DEF d
<1>6. PICK m \in n..Len(Sent), c \in Bytes :
        Parts(d, SubSeq(Sent, n + 1, m), c) /\ Left(Sent, m, c, write_buffer)
  BY Zenon, <1>5 DEF Good
<1>7. d.messages = SubSeq(Sent, n + 1, m) /\ d.buffer = c
  BY <1>6 DEF Parts
<1>8. m \in 0..Len(Sent) /\ delivered' = SubSeq(Sent, 1, m)
  <2> DEFINE q == Sent
  <2>1. q \in Seq(Short) /\ n \in 0..Len(q) /\ m \in n..Len(q)
    BY <1>3
  <2> HIDE DEF q
  <2>2. /\ 1 \in 1..(Len(q) + 1) /\ n \in (1 - 1)..Len(q) /\ m \in 0..Len(q)
    BY <2>1
  <2>3. SubSeq(q, 1, n) \o SubSeq(q, n + 1, m) = SubSeq(q, 1, m)
    BY Zenon, <2>1, <2>2, ConcatAdjacentSubSeq
  <2> QED BY Zenon, <1>1, <1>4, <1>7, <2>2, <2>3 DEF q
<1>9. srv_buffer' \in Bytes /\ pipe' \in Bytes /\ Len(pipe') <= PipeSize
  BY <1>1, <1>7, TcpAssumption DEF Bytes
<1>10. BytesInv'
  BY <1>1, <1>9 DEF BytesInv
<1>11. ASSUME srv_conn' # "closed"
       PROVE  Left(Sent', m, srv_buffer' \o pipe', write_buffer')
  <2>1. srv_buffer' = c
    BY Zenon, <1>1, <1>7, <1>11
  <2>2. c \o <<>> = c
    BY DEF Bytes
  <2> QED BY Zenon, <1>1, <1>3, <1>6, <2>1, <2>2
<1>12. OnItsWay(m)' /\ m \in 0..Len(Sent')
  BY Zenon, <1>3, <1>8, <1>11 DEF OnItsWay
<1>13. Stream(accepted') = Stream(Sent')
  BY Zenon, <1>1, <1>3 DEF StreamInv
<1> QED BY Zenon, <1>10, <1>12, <1>13 DEF StreamInv

\* The other steps.
LEMMA OtherStream ==
  ASSUME ControlInv, BytesInv, StreamInv,
         \/ Wait \/ handle_connect_complete \/ handle_read \/ WriteBroken \/ Handled \/ LoopExit
         \/ start \/ start_fails \/ StopBegin \/ StopEnd
         \/ \E t \in Senders, payload \in Payloads : SendCheck(t, payload)
         \/ srv_start \/ Handshake \/ SrvWait \/ handle_accept \/ SrvCheck
         \/ SrvStopBegin \/ SrvStopListen \/ SrvStopEnd
  PROVE  BytesInv' /\ StreamInv'
<1> USE DEF clientVars, serverVars, srvLoopVars
<1>1. CASE \/ Wait \/ handle_connect_complete \/ handle_read \/ Handled \/ LoopExit
           \/ start \/ start_fails \/ StopBegin \/ StopEnd
  <2>1. UNCHANGED <<streamVars, sender>>
    BY Zenon, <1>1 DEF Wait, handle_connect_complete, handle_read, Handled, LoopExit, start, start_fails,
                StopBegin, StopEnd, streamVars
  <2> QED BY Zenon, <2>1, StreamSame
<1>2. CASE srv_start \/ Handshake \/ SrvWait \/ SrvCheck \/ SrvStopBegin
  <2>1. UNCHANGED <<streamVars, sender>>
    BY Zenon, <1>2 DEF srv_start, Handshake, SrvWait, SrvCheck, SrvStopBegin, streamVars
  <2> QED BY ZenonT(30), <2>1, StreamSame
<1>3. CASE WriteBroken
  <2>1. /\ write_buffer' \in {write_buffer, SubSeq(write_buffer, Room + 1, Len(write_buffer))}
        /\ write_buffer' # write_buffer => srv_conn = "closed"
        /\ UNCHANGED <<pipe, srv_buffer, accepted, delivered, srv_conn, sender>>
    BY Zenon, <1>3 DEF WriteBroken, Written, ControlInv
  <2>2. BytesInv'
    BY Zenon, <2>1, RoomTakes DEF BytesInv
  <2>3. CASE write_buffer' = write_buffer
    <3>1. UNCHANGED <<streamVars, sender>>
      BY <2>1, <2>3 DEF streamVars
    <3> QED BY ZenonT(30), <3>1, StreamSame
  <2>4. CASE write_buffer' # write_buffer
    BY <2>1, <2>2, <2>4, StreamClosed
  <2> QED BY Zenon, <2>3, <2>4
<1>4. ASSUME NEW t \in Senders, NEW payload \in Payloads, SendCheck(t, payload)
      PROVE  BytesInv' /\ StreamInv'
  <2>1. UNCHANGED streamVars /\ sender' = [sender EXCEPT ![t] = payload]
    BY <1>4 DEF SendCheck, streamVars
  <2>2. BytesInv'
    BY <2>1 DEF BytesInv, streamVars
  <2>3. StreamInv'
    BY Zenon, <2>1 DEF StreamInv, OnItsWay, Sent, streamVars
  <2> QED BY <2>2, <2>3
<1>5. CASE handle_accept
  <2>1. /\ UNCHANGED <<write_buffer, pipe, srv_buffer, accepted, delivered, sender>>
        /\ srv_conn' # "closed" => srv_conn # "closed"
    BY <1>5 DEF handle_accept, ControlInv, Listening
  <2>2. BytesInv'
    BY <2>1 DEF BytesInv
  <2>3. StreamInv'
    BY Zenon, <2>1 DEF StreamInv, OnItsWay, Sent
  <2> QED BY <2>2, <2>3
<1>6. CASE SrvStopListen \/ SrvStopEnd
  <2>1. /\ UNCHANGED <<write_buffer, accepted, delivered, sender>>
        /\ pipe' \in {pipe, <<>>} /\ srv_buffer' \in {srv_buffer, <<>>}
        /\ \/ srv_conn' = "closed"
           \/ UNCHANGED <<streamVars, sender>>
    <3>1. CASE SrvStopListen
      <4>1. CASE link = "up" /\ srv_conn = "none"
        BY <3>1, <4>1 DEF SrvStopListen
      <4>2. CASE ~(link = "up" /\ srv_conn = "none")
        BY <3>1, <4>2 DEF SrvStopListen, streamVars
      <4> QED BY ZenonT(30), <4>1, <4>2
    <3>2. CASE SrvStopEnd
      BY <3>2 DEF SrvStopEnd
    <3> QED BY Zenon, <1>6, <3>1, <3>2
  <2>2. BytesInv'
    <3>1. <<>> \in Bytes /\ Len(<<>>) = 0 /\ PipeSize >= 0
      BY TcpAssumption DEF Bytes
    <3>2. pipe' \in Bytes /\ Len(pipe') <= PipeSize
      BY <2>1, <3>1 DEF BytesInv
    <3>3. srv_buffer' \in Bytes
      BY <2>1, <3>1 DEF BytesInv
    <3> QED BY Zenon, <2>1, <3>2, <3>3 DEF BytesInv
  <2>3. StreamInv'
    BY Zenon, <2>1, StreamClosed, StreamSame
  <2> QED BY <2>2, <2>3
<1> QED BY Zenon, <1>1, <1>2, <1>3, <1>4, <1>5, <1>6

\* At every point of every run the bytes delivered, buffered and in flight are the
\* frames of the accepted payloads, in order, and what the callback got are the
\* first of those payloads (send, handle_write and handle_read at the two ends,
\* encode and decode): for all payloads, sizes of the pipe and interleavings.
THEOREM ConservedHolds == Spec => []Conserved
<1>1. Init => BytesInv /\ StreamInv
  <2> SUFFICES ASSUME Init PROVE BytesInv /\ StreamInv
    OBVIOUS
  <2>1. BytesInv
    BY TcpAssumption DEF Init, BytesInv, Bytes
  <2>2. Sent = <<>> /\ accepted = <<>> /\ delivered = <<>> /\ srv_conn = "none"
    <3>1. [i \in DOMAIN <<>> |-> IF Len(<<>>[i]) <= MAX_PAYLOAD_SIZE THEN <<<<>>[i]>> ELSE <<>>] = <<>>
      OBVIOUS
    <3>2. Encodable(<<>>) = <<>>
      BY Zenon, <3>1, JoinedEmpty DEF Encodable
    <3> QED BY <3>2 DEF Init, Sent
  <2>3. StreamInv
    <3>1. 0 \in 0..Len(Sent) /\ SubSeq(Sent, 1, 0) = <<>>
      BY <2>2
    <3>2. <<>> \o ((<<>> \o <<>>) \o <<>>) = <<>>
      OBVIOUS
    <3>3. Begin(Sent, 0) = <<>>
      BY Zenon, <3>1, StreamEmpty DEF Begin
    <3>4. OnItsWay(0)
      BY Zenon, <2>2, <3>1, <3>2, <3>3, StreamEmpty DEF OnItsWay, Left, Init
    <3> QED BY Zenon, <2>2, <3>1, <3>4 DEF StreamInv
  <2> QED BY <2>1, <2>3
<1>2. ControlInv /\ BytesInv /\ StreamInv /\ [Next]_vars => (BytesInv /\ StreamInv)'
  <2>1. ASSUME ControlInv, BytesInv, StreamInv, Next PROVE BytesInv' /\ StreamInv'
    BY Zenon, <2>1, Steps, WriteStream, SendStream, ReadStream, OtherStream
  <2>2. ASSUME BytesInv, StreamInv, UNCHANGED vars PROVE BytesInv' /\ StreamInv'
    <3>1. UNCHANGED <<streamVars, sender>>
      BY <2>2 DEF vars, clientVars, serverVars, streamVars
    <3> QED BY Zenon, <2>2, <3>1, StreamSame
  <2> QED BY Zenon, <2>1, <2>2
<1>3. BytesInv /\ StreamInv => Conserved
  <2> SUFFICES ASSUME BytesInv, StreamInv PROVE Conserved
    OBVIOUS
  <2>1. Sent \in Seq(Short)
    BY Zenon, EncodableAppend DEF Sent, BytesInv
  <2>2. PICK n \in 0..Len(Sent) : OnItsWay(n)
    BY Zenon DEF StreamInv
  <2>3. delivered = SubSeq(Sent, 1, n)
    BY Zenon, <2>2 DEF OnItsWay
  <2>4. \E m \in 0..Len(Sent) : delivered = SubSeq(Sent, 1, m)
    BY Zenon, <2>3
  <2>5. ASSUME srv_conn # "closed"
        PROVE  Stream(delivered) \o srv_buffer \o pipe \o write_buffer = Stream(accepted)
    <3> DEFINE p == Begin(Sent, n)
    <3>1. p \o ((srv_buffer \o pipe) \o write_buffer) = Stream(accepted)
      BY Zenon, <2>2, <2>5 DEF OnItsWay, Left, StreamInv
    <3>2. p = Stream(delivered)
      BY Zenon, <2>3 DEF Begin
    <3>3. Sent \in Seq(Bytes)
      BY <2>1 DEF Short
    <3>4. p \in Bytes
      BY Zenon, <3>3, BeginStep
    <3> HIDE DEF p
    <3>5. srv_buffer \in Bytes /\ pipe \in Bytes /\ write_buffer \in Bytes
      BY DEF BytesInv
    <3>6. srv_buffer \o pipe \in Bytes
      BY Zenon, <3>5, Concat
    <3>7. Assoc(p, srv_buffer, pipe)
      BY Zenon, <3>4, <3>5, Associative
    <3>8. Assoc(p, srv_buffer \o pipe, write_buffer)
      BY Zenon, <3>4, <3>5, <3>6, Associative
    <3> QED BY Zenon, <3>1, <3>2, <3>7, <3>8 DEF Assoc
  <2> QED BY Zenon, <2>4, <2>5 DEF Conserved
<1> QED BY <1>1, <1>2, <1>3, ControlInvariant, PTL DEF Spec
=============================================================================
