--------------------------- MODULE ShmRingProofs ----------------------------
(***************************************************************************)
(* The shared-memory ring, for every number of readers, slots and words    *)
(* and every bound on the writes: type correctness and, for a ring with a  *)
(* single writer, the absence of torn reads, the reason of every drop and  *)
(* the refinement of the lossy broadcast log.                              *)
(***************************************************************************)
EXTENDS ShmRing, TLAPS

\* A leaf that names no prover goes to these two, in this order.
USE SMTT(30), ZenonT(30)

\* Every position has a slot (shm_ring.h computes it by masking).
LEMMA SlotInRange ==
  ASSUME NEW p \in Nat
  PROVE  SlotOf(p) \in Slots
BY RingAssumption DEF SlotOf, Slots

\* The parts of a sequence word,
LEMMA SeqWord ==
  ASSUME NEW x, NEW p, NEW w \in BOOLEAN, x = [pos |-> p, writing |-> w]
  PROVE  x.pos = p /\ x.writing = w
OBVIOUS

\* and of a message.
LEMMA MessageParts ==
  ASSUME NEW x, NEW p, NEW n, NEW w, x = [pos |-> p, len |-> n, words |-> w]
  PROVE  x.pos = p /\ x.len = n /\ x.words = w
OBVIOUS

\* A step that leaves the sequence words, or the messages handed out, alone
\* keeps their ranges.
LEMMA UnchangedRecords ==
  /\ SeqTypeOK /\ UNCHANGED seq => SeqTypeOK'
  /\ OutTypeOK /\ UNCHANGED out => OutTypeOK'
BY Zenon DEF SeqTypeOK, OutTypeOK

\* The same for every group of variables.
LEMMA UnchangedTypes ==
  /\ RingTypeOK /\ UNCHANGED ringVars => RingTypeOK'
  /\ WriterTypeOK /\ UNCHANGED writerVars => WriterTypeOK'
  /\ CursorTypeOK /\ UNCHANGED cursorVars => CursorTypeOK'
  /\ CopyTypeOK /\ UNCHANGED copyVars => CopyTypeOK'
<1>1. RingTypeOK /\ UNCHANGED ringVars => RingTypeOK'
  BY UnchangedRecords DEF RingTypeOK, ringVars
<1>2. WriterTypeOK /\ UNCHANGED writerVars => WriterTypeOK'
  BY DEF WriterTypeOK, writerVars
<1>3. CursorTypeOK /\ UNCHANGED cursorVars => CursorTypeOK'
  BY UnchangedRecords DEF CursorTypeOK, cursorVars
<1>4. CopyTypeOK /\ UNCHANGED copyVars => CopyTypeOK'
  BY DEF CopyTypeOK, copyVars
<1> QED
  BY <1>1, <1>2, <1>3, <1>4

\* The steps of ShmRing::write keep the types.
LEMMA WriterTypes ==
  ASSUME TypeOK, NEW t \in Writers,
         WriterStep(t) \/ \E n \in Lens : Claim(t, n)
  PROVE  TypeOK'
<1> USE RingAssumption
<1>a. wpos[t] \in Nat /\ SlotOf(wpos[t]) \in Slots
  BY SlotInRange DEF TypeOK, WriterTypeOK
<1>1. ASSUME NEW n \in Lens, Claim(t, n)
      PROVE  RingTypeOK' /\ WriterTypeOK'
  <2>1. RingTypeOK'
    BY <1>1, UnchangedRecords DEF TypeOK, RingTypeOK, Claim
  <2>2. WriterTypeOK'
    BY <1>1 DEF TypeOK, RingTypeOK, WriterTypeOK, Claim
  <2> QED BY <2>1, <2>2
<1>2. ASSUME Mark(t)
      PROVE  RingTypeOK' /\ WriterTypeOK'
  <2>1. [pos |-> wpos[t], writing |-> TRUE] \in [pos : Nat, writing : BOOLEAN]
    BY <1>a
  <2>2. RingTypeOK'
    BY <1>2, <1>a, <2>1 DEF TypeOK, RingTypeOK, SeqTypeOK, Mark
  <2>3. 0..sent[wpos[t]] \in SUBSET (0..slot_size)
    BY DEF TypeOK, RingTypeOK, WriterTypeOK
  <2>4. WriterTypeOK'
    BY <1>2, <2>3 DEF TypeOK, WriterTypeOK, Mark
  <2> QED BY <2>2, <2>4
<1>3. ASSUME StoreLen(t)
      PROVE  RingTypeOK' /\ WriterTypeOK'
  <2>1. RingTypeOK'
    BY <1>3, <1>a, UnchangedRecords DEF TypeOK, RingTypeOK, WriterTypeOK, StoreLen
  <2>2. WriterTypeOK'
    BY <1>3 DEF TypeOK, WriterTypeOK, StoreLen
  <2> QED BY <2>1, <2>2
<1>4. ASSUME NEW k \in Words, StoreWord(t, k)
      PROVE  RingTypeOK' /\ WriterTypeOK'
  <2>1. data' \in [Slots -> [Words -> Nat]]
    BY <1>4, <1>a DEF TypeOK, RingTypeOK, StoreWord
  <2>2. RingTypeOK'
    BY <1>4, <2>1, UnchangedRecords DEF TypeOK, RingTypeOK, StoreWord
  <2>3. WriterTypeOK'
    BY <1>4 DEF TypeOK, WriterTypeOK, StoreWord
  <2> QED BY <2>2, <2>3
<1>5. ASSUME Publish(t)
      PROVE  RingTypeOK' /\ WriterTypeOK'
  <2>1. [pos |-> wpos[t], writing |-> FALSE] \in [pos : Nat, writing : BOOLEAN]
    BY <1>a
  <2>2. RingTypeOK'
    BY <1>5, <1>a, <2>1 DEF TypeOK, RingTypeOK, SeqTypeOK, Publish
  <2>3. WriterTypeOK'
    BY <1>5 DEF TypeOK, WriterTypeOK, Publish
  <2> QED BY <2>2, <2>3
<1>6. UNCHANGED <<rpc, cursorVars, copyVars>>
  BY Zenon DEF WriterStep, Claim, Mark, StoreLen, StoreWord, Publish
<1> QED
  BY <1>1, <1>2, <1>3, <1>4, <1>5, <1>6, UnchangedTypes DEF TypeOK, WriterStep

\* The steps of a reader keep the types.
LEMMA ReaderTypes ==
  ASSUME TypeOK, NEW r \in Readers, Attach(r) \/ ReaderStep(r)
  PROVE  TypeOK'
<1> USE RingAssumption
<1> DEFINE RpcType == rpc \in [Readers -> {"detached", "poll", "first", "len", "copy"}]
<1>a. next[r] \in Nat /\ SlotOf(next[r]) \in Slots
  BY SlotInRange DEF TypeOK, CursorTypeOK
<1>1. ASSUME Attach(r)
      PROVE  RpcType' /\ CursorTypeOK' /\ CopyTypeOK'
  <2>1. CursorTypeOK'
    BY <1>1, UnchangedRecords DEF TypeOK, RingTypeOK, CursorTypeOK, Attach
  <2> QED
    BY <1>1, <2>1, UnchangedTypes DEF TypeOK, Attach
<1>2. ASSUME ReadHead(r)
      PROVE  RpcType' /\ CursorTypeOK' /\ CopyTypeOK'
  <2>1. /\ FastForward(next[r], write_seq) \in Nat
        /\ FastForward(next[r], write_seq) - next[r] \in Nat
    BY <1>2, <1>a DEF TypeOK, RingTypeOK, ReadHead, FastForward
  <2> HIDE DEF FastForward
  <2>2. CursorTypeOK'
    BY <1>2, <2>1, UnchangedRecords DEF TypeOK, CursorTypeOK, ReadHead
  <2> QED
    BY <1>2, <2>2, UnchangedTypes DEF TypeOK, ReadHead
<1>3. ASSUME Skip(r)
      PROVE  RpcType' /\ CursorTypeOK' /\ CopyTypeOK'
  BY <1>3, UnchangedTypes, UnchangedRecords DEF TypeOK, CursorTypeOK, Skip
<1>4. ASSUME FirstCheck(r)
      PROVE  RpcType' /\ CursorTypeOK' /\ CopyTypeOK'
  BY <1>3, <1>4, UnchangedTypes DEF TypeOK, FirstCheck
<1>5. ASSUME LoadLen(r)
      PROVE  RpcType' /\ CursorTypeOK' /\ CopyTypeOK'
  <2>1. CASE Skip(r)
    BY <1>3, <2>1
  <2>2. CASE ~Skip(r)
    <3> DEFINE n == len[SlotOf(next[r])]
    <3>1. /\ n \in 0..slot_size
          /\ 1..n \in SUBSET Words
      BY <1>a DEF TypeOK, RingTypeOK, Words
    <3>2. /\ rlen' = [rlen EXCEPT ![r] = n]
          /\ rtodo' = [rtodo EXCEPT ![r] = 1..n]
          /\ copied' = copied
      BY <1>5, <2>2 DEF LoadLen
    <3> HIDE DEF n
    <3>3. CopyTypeOK'
      BY <3>1, <3>2 DEF TypeOK, CopyTypeOK
    <3> QED
      BY <1>5, <2>2, <3>3, UnchangedTypes DEF TypeOK, LoadLen
  <2> QED BY <2>1, <2>2
<1>6. ASSUME NEW k \in Words, CopyWord(r, k)
      PROVE  RpcType' /\ CursorTypeOK' /\ CopyTypeOK'
  <2>1. data[SlotOf(next[r])][k] \in Nat
    BY <1>a DEF TypeOK, RingTypeOK
  <2>2. copied' \in [Readers -> [Words -> Nat]]
    BY <1>6, <2>1 DEF TypeOK, CopyTypeOK, CopyWord
  <2>3. CopyTypeOK'
    BY <1>6, <2>2 DEF TypeOK, CopyTypeOK, CopyWord
  <2> QED
    BY <1>6, <2>3, UnchangedTypes DEF TypeOK, CopyWord
<1>7. ASSUME SecondCheck(r)
      PROVE  RpcType' /\ CursorTypeOK' /\ CopyTypeOK'
  <2>1. CASE Skip(r)
    BY <1>3, <2>1
  <2>2. CASE ~Skip(r)
    <3> DEFINE m == [pos |-> next[r], len |-> rlen[r],
                     words |-> [k \in 1..rlen[r] |-> copied[r][k]]]
    <3>1. out' = [out EXCEPT ![r] = m]
      BY <1>7, <2>2 DEF SecondCheck
    <3>2. m.pos \in Nat /\ m.len \in 0..slot_size
      BY <1>a DEF TypeOK, CopyTypeOK
    <3> HIDE DEF m
    <3>3. /\ DOMAIN out' = Readers
          /\ \A q \in Readers : out'[q].pos \in Nat /\ out'[q].len \in 0..slot_size
      BY <3>1, <3>2 DEF TypeOK, CursorTypeOK, OutTypeOK
    <3>4. /\ next' = [next EXCEPT ![r] = @ + 1]
          /\ got' = [got EXCEPT ![r] = @ + 1]
          /\ UNCHANGED <<start, dropped>>
      BY <1>7, <2>2 DEF SecondCheck
    <3>5. CursorTypeOK'
      BY <3>3, <3>4 DEF TypeOK, CursorTypeOK, OutTypeOK
    <3> QED
      BY <1>7, <2>2, <3>5, UnchangedTypes DEF TypeOK, SecondCheck
  <2> QED BY <2>1, <2>2
<1>8. UNCHANGED <<ringVars, writerVars>>
  BY DEF ReaderStep, Attach, ReadHead, FirstCheck, LoadLen, CopyWord, SecondCheck, Skip
<1> QED
  BY <1>1, <1>2, <1>4, <1>5, <1>6, <1>7, <1>8, UnchangedTypes DEF TypeOK, ReaderStep

\* The variables of the ring keep their ranges, for any number of writers.
THEOREM TypeCorrect == Spec => []TypeOK
<1>1. Init => TypeOK
  BY RingAssumption DEF Init, TypeOK, RingTypeOK, SeqTypeOK, WriterTypeOK, CursorTypeOK, OutTypeOK,
     CopyTypeOK, Words, Slots, NoMessage
<1>2. TypeOK /\ [Next]_vars => TypeOK'
  <2> SUFFICES ASSUME TypeOK, [Next]_vars
               PROVE  TypeOK'
    OBVIOUS
  <2>1. CASE UNCHANGED vars
    BY <2>1, UnchangedTypes DEF TypeOK, vars
  <2>2. CASE Next
    BY <2>2, WriterTypes, ReaderTypes DEF Next
  <2> QED
    BY <2>1, <2>2
<1> QED
  BY <1>1, <1>2, PTL DEF Spec

-----------------------------------------------------------------------------
\* The inductive invariant of the single-writer ring.
Inv == TypeOK /\ RingInv /\ NoTornRead

\* Claiming a position disturbs nothing: it lies above every position the
\* slots and the readers know of.
LEMMA ClaimKeepsInv ==
  ASSUME SingleWriter, Inv, NEW t \in Writers, NEW n \in Lens, Claim(t, n)
  PROVE  RingInv' /\ NoTornRead'
<1> USE RingAssumption
<1>0. /\ write_seq \in 0..MaxWrites /\ write_seq' = write_seq + 1
      /\ \A s \in Writers : s = t
      /\ wpc[t] = "idle" /\ wpc'[t] = "claimed" /\ wpos'[t] = write_seq
  BY DEF Inv, TypeOK, RingTypeOK, WriterTypeOK, Claim, SingleWriter
<1>1. ASSUME NEW p \in Nat, p < write_seq
      PROVE  sent'[p] = sent[p]
  BY <1>0, <1>1 DEF Inv, TypeOK, RingTypeOK, Claim
<1>2. ASSUME NEW p \in Nat, Published(p)
      PROVE  Published(p)'
  BY <1>0, <1>2 DEF Published
<1>3. \A s \in Writers : wpc'[s] # "idle" => wpos'[s] < write_seq'
  BY <1>0
<1>4. \A s \in Writers : wpc'[s] = "fill" => FillOK(s)'
  BY <1>0
<1>5. \A i \in Slots : SlotOK(i)'
  <2> SUFFICES ASSUME NEW i \in Slots, ~seq[i].writing
               PROVE  SlotOK(i)'
    BY DEF Claim, SlotOK
  <2>1. seq[i].pos \in Nat /\ Published(seq[i].pos) /\ Holds(i, seq[i].pos)
    BY DEF Inv, RingInv, SlotOK, TypeOK, RingTypeOK, SeqTypeOK
  <2>2. UNCHANGED <<seq, len, data>>
    BY DEF Claim
  <2>3. seq[i].pos < write_seq
    BY <2>1 DEF Published
  <2>4. Published(seq[i].pos)'
    BY <1>0, <2>1, <2>2 DEF Published
  <2> QED
    BY <1>1, <2>1, <2>2, <2>3, <2>4 DEF SlotOK, Holds
<1>6. \A r \in Readers : ReaderOK(r)'
  <2> SUFFICES ASSUME NEW r \in Readers
               PROVE  ReaderOK(r)'
    OBVIOUS
  <2>1. /\ next[r] \in Nat /\ ReaderOK(r)
        /\ UNCHANGED <<seq, rpc, next, got, out, rlen, rtodo, copied>>
    BY DEF Inv, RingInv, TypeOK, CursorTypeOK, Claim, cursorVars, copyVars
  <2>2. rpc[r] \in {"len", "copy"} => next[r] < write_seq /\ sent'[next[r]] = sent[next[r]]
    BY <1>1, <2>1 DEF ReaderOK, Published
  <2>3. Accept(r)' = Accept(r)
    BY <2>1 DEF Accept
  <2>4. got[r] > 0 => out[r].pos < write_seq + 1
    <3>1. out[r].pos \in Nat
      BY DEF Inv, TypeOK, CursorTypeOK, OutTypeOK
    <3>2. got[r] > 0 => out[r].pos < write_seq
      BY <2>1 DEF ReaderOK
    <3> QED
      BY <1>0, <3>1, <3>2
  <2> QED
    BY <1>0, <1>2, <2>1, <2>2, <2>3, <2>4 DEF ReaderOK
<1>7. NoTornRead'
  <2> SUFFICES ASSUME NEW r \in Readers, got'[r] > 0
               PROVE  /\ out'[r].len = sent'[out'[r].pos]
                      /\ \A k \in 1..out'[r].len : out'[r].words[k] = out'[r].pos
    BY DEF NoTornRead
  <2>1. UNCHANGED <<got, out>>
    BY DEF Claim, cursorVars
  <2>2. out[r].pos \in Nat /\ out[r].pos < write_seq
    BY <2>1 DEF Inv, TypeOK, CursorTypeOK, OutTypeOK, RingInv, ReaderOK
  <2> QED
    BY <1>1, <2>1, <2>2 DEF Inv, NoTornRead
<1> QED
  BY <1>3, <1>4, <1>5, <1>6, <1>7 DEF RingInv

\* The steps that fill a claimed slot.  None of them moves write_seq or what a
\* reader holds, and none makes a published position match again.
LEMMA FillKeepsInv ==
  ASSUME SingleWriter, Inv, NEW t \in Writers, WriterStep(t)
  PROVE  RingInv' /\ NoTornRead'
<1> USE RingAssumption
<1> DEFINE i0 == SlotOf(wpos[t])
<1>a. /\ UNCHANGED <<write_seq, sent, wpos, rpc, next, got, out, rlen, rtodo, copied>>
      /\ wpc[t] # "idle"
      /\ \A s \in Writers : s = t
  BY Zenon DEF WriterStep, Mark, StoreLen, StoreWord, Publish, cursorVars, copyVars, SingleWriter
<1>h. \A s \in Writers : s = t
  BY <1>a
<1>b. /\ wpos[t] \in Nat /\ i0 \in Slots /\ wpos[t] < write_seq
      /\ wpos[t] \in 0..(MaxWrites - 1)
      /\ sent[wpos[t]] \in 0..slot_size
  BY <1>a, SlotInRange DEF Inv, TypeOK, RingTypeOK, WriterTypeOK, RingInv
<1>c. ASSUME NEW p, Published(p)
      PROVE  Published(p)'
  BY <1>a, <1>c DEF Published
<1>g. ASSUME NEW i \in Slots, seq'[i] = seq[i], len'[i] = len[i], data'[i] = data[i]
      PROVE  SlotOK(i)'
  <2>1. SlotOK(i)
    BY Zenon DEF Inv, RingInv
  <2>2. ASSUME NEW p, Holds(i, p) PROVE Holds(i, p)'
    BY Zenon, <1>a, <1>g, <2>2 DEF Holds
  <2> QED
    BY Zenon, <1>c, <1>g, <2>1, <2>2 DEF SlotOK
<1>d. NoTornRead'
  BY Zenon, <1>a DEF Inv, NoTornRead
<1>e. \A s \in Writers : wpc'[s] # "idle" => wpos'[s] < write_seq'
  BY <1>a, <1>b
<1>f. ASSUME \A r \in Readers : rpc[r] = "copy" /\ Accept(r)' => Accept(r)
      PROVE  \A r \in Readers : ReaderOK(r)'
  <2> SUFFICES ASSUME NEW r \in Readers
               PROVE  ReaderOK(r)'
    OBVIOUS
  <2>1. ReaderOK(r)
    BY DEF Inv, RingInv
  <2> QED
    BY <1>a, <1>c, <1>f, <2>1 DEF ReaderOK
<1>1. CASE Mark(t)
  <2>0. /\ seq' = [seq EXCEPT ![i0] = [pos |-> wpos[t], writing |-> TRUE]]
        /\ wtodo'[t] = 0..sent[wpos[t]]
        /\ UNCHANGED <<len, data>>
    BY <1>1 DEF Mark, Inv, TypeOK, WriterTypeOK
  <2>1. seq'[i0] = [pos |-> wpos[t], writing |-> TRUE]
    BY <2>0, <1>b DEF Inv, TypeOK, RingTypeOK, SeqTypeOK
  <2>2. \A i \in Slots \ {i0} : seq'[i] = seq[i]
    BY <2>0 DEF Inv, TypeOK, RingTypeOK
  <2>3. FillOK(t)'
    BY <1>a, <1>b, <2>0, <2>1 DEF FillOK
  <2>4. \A i \in Slots : SlotOK(i)'
    BY <1>g, <2>0, <2>1, <2>2 DEF SlotOK
  <2>5. \A r \in Readers : rpc[r] = "copy" /\ Accept(r)' => Accept(r)
    <3> SUFFICES ASSUME NEW r \in Readers, Accept(r)'
                 PROVE  Accept(r)
      OBVIOUS
    <3>1. next[r] \in Nat /\ SlotOf(next[r]) \in Slots /\ next' = next
      BY <1>a, SlotInRange DEF Inv, TypeOK, CursorTypeOK
    <3> QED
      BY <2>1, <2>2, <3>1 DEF Accept
  <2>6. \A r \in Readers : ReaderOK(r)'
    BY Zenon, <1>f, <2>5
  <2>7. \A s \in Writers : wpc'[s] = "fill" => FillOK(s)'
    BY <1>h, <2>3
  <2> QED
    BY Zenon, <1>d, <1>e, <2>4, <2>6, <2>7 DEF RingInv
<1>2. CASE StoreLen(t)
  <2>0. /\ len' = [len EXCEPT ![i0] = sent[wpos[t]]]
        /\ wtodo'[t] = wtodo[t] \ {0}
        /\ UNCHANGED <<seq, data, wpc>>
        /\ wpc[t] = "fill" /\ FillOK(t)
    BY <1>2 DEF StoreLen, Inv, RingInv, TypeOK, WriterTypeOK
  <2>1. /\ len'[i0] = sent[wpos[t]]
        /\ \A i \in Slots \ {i0} : len'[i] = len[i]
    BY <2>0, <1>b DEF Inv, TypeOK, RingTypeOK
  <2>2. seq[i0].writing
    BY <2>0 DEF FillOK
  <2>3. FillOK(t)'
    BY <1>a, <2>0, <2>1 DEF FillOK
  <2>4. \A i \in Slots : SlotOK(i)'
    BY <1>g, <2>0, <2>1, <2>2 DEF SlotOK
  <2>5. \A r \in Readers : rpc[r] = "copy" /\ Accept(r)' => Accept(r)
    BY <1>a, <2>0 DEF Accept
  <2>6. \A r \in Readers : ReaderOK(r)'
    BY ZenonT(30), <1>f, <2>5
  <2>7. \A s \in Writers : wpc'[s] = "fill" => FillOK(s)'
    BY <1>h, <2>3
  <2> QED
    BY ZenonT(30), <1>d, <1>e, <2>4, <2>6, <2>7 DEF RingInv
<1>3. CASE \E k \in Words : StoreWord(t, k)
  <2> PICK k \in Words : StoreWord(t, k)
    BY <1>3
  <2>0. /\ data' = [data EXCEPT ![i0][k] = wpos[t]]
        /\ wtodo'[t] = wtodo[t] \ {k}
        /\ 0 \notin wtodo[t]
        /\ UNCHANGED <<seq, len, wpc>>
        /\ wpc[t] = "fill" /\ FillOK(t)
    BY DEF StoreWord, Inv, RingInv, TypeOK, WriterTypeOK
  <2>1. /\ data'[i0][k] = wpos[t]
        /\ \A j \in Words \ {k} : data'[i0][j] = data[i0][j]
        /\ \A i \in Slots \ {i0} : data'[i] = data[i]
    BY <2>0, <1>b DEF Inv, TypeOK, RingTypeOK
  <2>2. seq[i0].writing
    BY <2>0 DEF FillOK
  <2>3. FillOK(t)'
    BY <1>a, <1>b, <2>0, <2>1 DEF FillOK, Words
  <2>4. \A i \in Slots : SlotOK(i)'
    BY <1>g, <2>0, <2>1, <2>2 DEF SlotOK
  <2>5. \A r \in Readers : rpc[r] = "copy" /\ Accept(r)' => Accept(r)
    BY <1>a, <2>0 DEF Accept
  <2>6. \A r \in Readers : ReaderOK(r)'
    BY Zenon, <1>f, <2>5
  <2>7. \A s \in Writers : wpc'[s] = "fill" => FillOK(s)'
    BY <1>h, <2>3
  <2> QED
    BY Zenon, <1>d, <1>e, <2>4, <2>6, <2>7 DEF RingInv
<1>4. CASE Publish(t)
  <2>0. /\ seq' = [seq EXCEPT ![i0] = [pos |-> wpos[t], writing |-> FALSE]]
        /\ wtodo[t] = {}
        /\ UNCHANGED <<len, data>>
        /\ wpc[t] = "fill" /\ FillOK(t)
        /\ wpc'[t] = "idle"
    BY <1>4 DEF Publish, Inv, RingInv, TypeOK, WriterTypeOK
  <2>1. seq'[i0] = [pos |-> wpos[t], writing |-> FALSE]
    BY <2>0, <1>b DEF Inv, TypeOK, RingTypeOK, SeqTypeOK
  <2>2. \A i \in Slots \ {i0} : seq'[i] = seq[i]
    BY <2>0 DEF Inv, TypeOK, RingTypeOK
  <2>4. \A i \in Slots : SlotOK(i)'
    <3> SUFFICES ASSUME NEW i \in Slots
                 PROVE  SlotOK(i)'
      OBVIOUS
    <3>1. CASE i = i0
      BY <1>a, <1>b, <2>0, <2>1, <3>1 DEF SlotOK, Published, Holds, FillOK
    <3>2. CASE i # i0
      <4>1. seq'[i] = seq[i] /\ len'[i] = len[i] /\ data'[i] = data[i]
        BY <2>0, <2>2, <3>2
      <4> QED
        BY Zenon, <1>g, <4>1
    <3> QED
      BY <3>1, <3>2
  <2>5. \A r \in Readers : rpc[r] = "copy" /\ Accept(r)' => Accept(r)
    <3> SUFFICES ASSUME NEW r \in Readers, rpc[r] = "copy", Accept(r)'
                 PROVE  Accept(r)
      OBVIOUS
    <3>1. /\ next[r] \in Nat /\ SlotOf(next[r]) \in Slots /\ next' = next
          /\ Published(next[r])
      BY <1>a, SlotInRange DEF Inv, TypeOK, CursorTypeOK, RingInv, ReaderOK
    <3>2. next[r] # wpos[t]
      BY <1>a, <3>1 DEF Published
    <3>3. SlotOf(next[r]) # i0
      BY <2>1, <3>1, <3>2 DEF Accept
    <3> QED
      BY <2>2, <3>1, <3>3 DEF Accept
  <2>6. \A r \in Readers : ReaderOK(r)'
    BY ZenonT(30), <1>f, <2>5
  <2>7. \A s \in Writers : wpc'[s] = "fill" => FillOK(s)'
    <3>1. wpc'[t] # "fill"
      BY <2>0
    <3> QED BY <1>h, <3>1
  <2> QED
    BY ZenonT(30), <1>d, <1>e, <2>4, <2>6, <2>7 DEF RingInv
<1> QED
  BY <1>1, <1>2, <1>3, <1>4 DEF WriterStep

-----------------------------------------------------------------------------
(***************************************************************************)
(* The readers' half of the inductive invariant, and what follows          *)
(***************************************************************************)

\* The steps of a reader: the two checks of the sequence word are what makes
\* the copy trustworthy.
LEMMA ReaderKeepsInv ==
  ASSUME Inv, NEW r \in Readers, Attach(r) \/ ReaderStep(r)
  PROVE  RingInv' /\ NoTornRead'
<1> USE RingAssumption
<1> DEFINE i == SlotOf(next[r])
           Whole(q) == got[q] > 0 =>
             /\ out[q].len = sent[out[q].pos]
             /\ \A k \in 1..out[q].len : out[q].words[k] = out[q].pos
<1>a. UNCHANGED <<write_seq, seq, len, data, sent, wpc, wpos, wtodo>>
  BY DEF ReaderStep, Attach, ReadHead, FirstCheck, LoadLen, CopyWord, SecondCheck, Skip,
     ringVars, writerVars
<1>b. next[r] \in Nat /\ i \in Slots /\ write_seq \in Nat /\ got[r] \in Nat
  BY SlotInRange DEF Inv, TypeOK, RingTypeOK, CursorTypeOK
<1>c. ReaderOK(r) /\ SlotOK(i) /\ Whole(r)
  BY Zenon, <1>b DEF Inv, RingInv, NoTornRead
<1> HIDE DEF Whole
<1>f. Accept(r) => Holds(i, next[r])
  <2>1. Accept(r) => ~seq[i].writing /\ seq[i].pos = next[r]
    <3>1. Accept(r) => seq[i] = [pos |-> next[r], writing |-> FALSE]
      BY Zenon DEF Accept
    <3> QED BY Zenon, <3>1, SeqWord
  <2> QED
    BY Zenon, <1>c, <2>1 DEF SlotOK
<1>d. \A p : Published(p)' = Published(p)
  BY <1>a DEF Published
<1>e. ASSUME ReaderOK(r)', Whole(r)'
      PROVE  RingInv' /\ NoTornRead'
  <2>1. ASSUME NEW q \in Readers, q # r
        PROVE  ReaderOK(q)' /\ Whole(q)'
    <3> DEFINE Only(f, g) == g = f \/ \E v : g = [f EXCEPT ![r] = v]
    <3>1. /\ Only(rpc, rpc') /\ Only(next, next') /\ Only(got, got') /\ Only(out, out')
          /\ Only(rlen, rlen') /\ Only(rtodo, rtodo') /\ Only(copied, copied')
      BY Zenon DEF ReaderStep, Attach, ReadHead, FirstCheck, LoadLen, CopyWord, SecondCheck,
         Skip, cursorVars, copyVars
    <3>2. \A f, g : DOMAIN f = Readers /\ Only(f, g) => g[q] = f[q]
      BY Zenon, <2>1
    <3>3. /\ DOMAIN rpc = Readers /\ DOMAIN next = Readers /\ DOMAIN got = Readers
          /\ DOMAIN rlen = Readers /\ DOMAIN rtodo = Readers /\ DOMAIN copied = Readers
      BY DEF Inv, TypeOK, CursorTypeOK, CopyTypeOK
    <3>4. DOMAIN out = Readers
      BY Zenon DEF Inv, TypeOK, CursorTypeOK, OutTypeOK
    <3> HIDE DEF Only
    <3>5. /\ rpc'[q] = rpc[q] /\ next'[q] = next[q] /\ got'[q] = got[q]
          /\ out'[q] = out[q] /\ rlen'[q] = rlen[q] /\ rtodo'[q] = rtodo[q]
          /\ copied'[q] = copied[q]
      BY Zenon, <3>1, <3>2, <3>3, <3>4
    <3>6. ReaderOK(q) /\ Whole(q)
      BY Zenon DEF Inv, RingInv, NoTornRead, Whole
    <3>7. Accept(q)' = Accept(q)
      BY Zenon, <1>a, <3>5 DEF Accept
    <3>8. Whole(q)'
      BY Zenon, <1>a, <3>5, <3>6 DEF Whole
    <3>9. ReaderOK(q)'
      BY Zenon, <1>a, <1>d, <3>5, <3>6, <3>7 DEF ReaderOK
    <3> QED BY <3>8, <3>9
  <2>2. \A q \in Readers : ReaderOK(q)' /\ Whole(q)'
    BY <1>e, <2>1
  <2>3. \A t \in Writers : FillOK(t)' = FillOK(t)
    BY Zenon, <1>a DEF FillOK
  <2>4. \A j \in Slots : SlotOK(j)' = SlotOK(j)
    BY Zenon, <1>a, <1>d DEF SlotOK, Holds
  <2>5. RingInv'
    BY Zenon, <1>a, <2>2, <2>3, <2>4 DEF Inv, RingInv
  <2>6. NoTornRead'
    BY Zenon, <2>2 DEF Whole, NoTornRead
  <2> QED BY <2>5, <2>6
<1> SUFFICES ReaderOK(r)' /\ Whole(r)'
  BY <1>e
<1>h. UNCHANGED <<got, out>> => Whole(r)'
  BY Zenon, <1>a, <1>c DEF Whole
<1>1. CASE Attach(r)
  <2>1. rpc'[r] = "poll" /\ next'[r] = write_seq /\ UNCHANGED <<got, out>>
    BY <1>1 DEF Attach, Inv, TypeOK, CursorTypeOK
  <2>2. ReaderOK(r)'
    <3>1. next'[r] <= write_seq
      BY <1>b, <2>1
    <3> QED
      BY <1>a, <1>c, <2>1, <3>1 DEF ReaderOK
  <2> QED
    BY <1>h, <2>1, <2>2
<1>2. CASE ReadHead(r)
  <2>1. FastForward(next[r], write_seq) < write_seq
    BY <1>2, <1>b DEF ReadHead, FastForward
  <2>2. /\ rpc'[r] = "first" /\ next'[r] = FastForward(next[r], write_seq)
        /\ UNCHANGED <<got, out>>
    BY <1>2 DEF ReadHead, Inv, TypeOK, CursorTypeOK
  <2>3. FastForward(next[r], write_seq) <= write_seq
    BY <1>2, <1>b DEF ReadHead, FastForward
  <2>4. ReaderOK(r)'
    BY Zenon, <1>a, <1>c, <2>1, <2>2, <2>3 DEF ReaderOK
  <2> QED
    BY Zenon, <1>h, <2>2, <2>4
<1>3. ASSUME Skip(r), next[r] < write_seq
      PROVE  ReaderOK(r)' /\ Whole(r)'
  <2>1. rpc'[r] = "poll" /\ next'[r] = next[r] + 1 /\ UNCHANGED <<got, out>>
    BY <1>3 DEF Skip, Inv, TypeOK, CursorTypeOK
  <2>2. next'[r] <= write_seq
    BY <1>3, <1>b, <2>1
  <2>3. ReaderOK(r)'
    BY Zenon, <1>a, <1>c, <2>1, <2>2 DEF ReaderOK
  <2> QED
    BY <1>h, <2>1, <2>3
<1>4. CASE FirstCheck(r)
  <2>1. next[r] < write_seq
    BY <1>4, <1>c DEF FirstCheck, ReaderOK
  <2>2. CASE ~Skip(r)
    <3>1. /\ seq[i].pos = next[r]
          /\ rpc'[r] = (IF seq[i].writing THEN "poll" ELSE "len")
          /\ UNCHANGED <<next, got, out>>
      BY <1>4, <2>2 DEF FirstCheck, cursorVars, Inv, TypeOK
    <3>2. ReaderOK(r)'
      BY <1>a, <1>c, <1>d, <2>1, <3>1 DEF ReaderOK, SlotOK
    <3> QED BY <1>h, <3>1, <3>2
  <2> QED BY <1>3, <2>1, <2>2
<1>5. CASE LoadLen(r)
  <2>1. next[r] < write_seq /\ Published(next[r])
    BY ZenonT(30), <1>5, <1>c DEF LoadLen, ReaderOK, Published
  <2>2. CASE ~Skip(r)
    <3>1. /\ rlen'[r] = len[i] /\ rtodo'[r] = 1..len[i] /\ rpc'[r] = "copy"
          /\ UNCHANGED <<next, got, out>>
      BY <1>5, <2>2 DEF LoadLen, cursorVars, Inv, TypeOK, CopyTypeOK
    <3>2. Accept(r)' = Accept(r)
      BY <1>a, <3>1 DEF Accept
    <3>3. Accept(r) => len[i] = sent[next[r]]
      BY ZenonT(30), <1>f DEF Holds
    <3>4. ReaderOK(r)'
      BY ZenonT(30), <1>a, <1>c, <1>d, <2>1, <3>1, <3>2, <3>3 DEF ReaderOK
    <3> QED BY Zenon, <1>h, <3>1, <3>4
  <2> QED BY <1>3, <2>1, <2>2
<1>6. CASE \E k \in Words : CopyWord(r, k)
  <2> PICK k \in Words : CopyWord(r, k)
    BY <1>6
  <2>1. /\ rpc[r] = "copy"
        /\ copied'[r][k] = data[i][k]
        /\ \A j \in Words \ {k} : copied'[r][j] = copied[r][j]
        /\ rtodo'[r] = rtodo[r] \ {k}
        /\ UNCHANGED <<rpc, next, got, out, rlen>>
    BY Zenon DEF CopyWord, cursorVars, Inv, TypeOK, CopyTypeOK
  <2>2. rlen[r] \in 0..slot_size
    BY DEF Inv, TypeOK, CopyTypeOK
  <2>3. Accept(r) => \A j \in 1..sent[next[r]] : data[i][j] = next[r]
    BY ZenonT(30), <1>f DEF Holds
  <2>4. Accept(r)' = Accept(r)
    BY Zenon, <1>a, <2>1 DEF Accept
  <2>5. ASSUME Accept(r), NEW j \in 1..rlen[r], j \notin rtodo'[r]
        PROVE  copied'[r][j] = next[r]
    <3>1. j \in Words
      BY <2>2 DEF Words
    <3>2. rlen[r] = sent[next[r]]
      BY ZenonT(30), <1>c, <2>1, <2>5 DEF ReaderOK
    <3>3. CASE j = k
      BY Zenon, <2>1, <2>3, <2>5, <3>2, <3>3
    <3>4. CASE j # k
      BY <1>c, <2>1, <2>5, <3>1, <3>4 DEF ReaderOK
    <3> QED BY <3>3, <3>4
  <2>6. ReaderOK(r)'
    BY ZenonT(30), <1>a, <1>c, <1>d, <2>1, <2>4, <2>5 DEF ReaderOK
  <2> QED BY Zenon, <1>h, <2>1, <2>6
<1>7. CASE SecondCheck(r)
  <2>1. next[r] < write_seq
    BY Zenon, <1>7, <1>c DEF SecondCheck, ReaderOK, Published
  <2>2. CASE ~Skip(r)
    <3> DEFINE m == [pos |-> next[r], len |-> rlen[r],
                     words |-> [k \in 1..rlen[r] |-> copied[r][k]]]
    <3>1. /\ Accept(r) /\ rpc[r] = "copy" /\ rtodo[r] = {}
          /\ next' = [next EXCEPT ![r] = next[r] + 1]
          /\ rpc' = [rpc EXCEPT ![r] = "poll"]
          /\ out' = [out EXCEPT ![r] = m]
      BY Zenon, <1>7, <2>2 DEF SecondCheck
    <3>2. m.pos = next[r] /\ m.len = rlen[r] /\ \A k \in 1..rlen[r] : m.words[k] = copied[r][k]
      <4>1. /\ m.pos = next[r] /\ m.len = rlen[r]
            /\ m.words = [k \in 1..rlen[r] |-> copied[r][k]]
        BY Zenon, MessageParts
      <4> HIDE DEF m
      <4> QED BY Zenon, <4>1
    <3> HIDE DEF m
    <3>3. next'[r] = next[r] + 1 /\ rpc'[r] = "poll"
      BY <3>1 DEF Inv, TypeOK, CursorTypeOK
    <3>4. out'[r] = m
      BY Zenon, <3>1 DEF Inv, TypeOK, CursorTypeOK, OutTypeOK
    <3>5. rlen[r] = sent[next[r]] /\ \A k \in 1..rlen[r] : copied[r][k] = next[r]
      BY Zenon, <1>c, <3>1 DEF ReaderOK
    <3>6. Whole(r)'
      BY Zenon, <1>a, <3>2, <3>4, <3>5 DEF Whole
    <3>7. ReaderOK(r)'
      <4>1. next'[r] <= write_seq
        BY <1>b, <2>1, <3>3
      <4>2. out'[r].pos < write_seq'
        BY Zenon, <1>a, <2>1, <3>2, <3>4
      <4> QED
        BY <1>a, <3>3, <4>1, <4>2 DEF ReaderOK
    <3> QED BY <3>6, <3>7
  <2> QED BY <1>3, <2>1, <2>2
<1> QED
  BY <1>1, <1>2, <1>4, <1>5, <1>6, <1>7 DEF ReaderStep

\* Inv holds in every reachable state of a ring with one writer.
LEMMA InvHolds ==
  ASSUME SingleWriter
  PROVE  Spec => []Inv
<1>1. Init => RingInv /\ NoTornRead
  <2> SUFFICES ASSUME Init PROVE RingInv /\ NoTornRead
    OBVIOUS
  <2>1. \A t \in Writers : wpc[t] = "idle"
    BY Zenon DEF Init
  <2>2. \A i \in Slots : SlotOK(i)
    BY DEF Init, SlotOK
  <2>3. \A r \in Readers : rpc[r] = "detached" /\ ~(got[r] > 0) /\ next[r] <= write_seq
    BY DEF Init
  <2>4. \A r \in Readers : ReaderOK(r)
    BY <2>3 DEF ReaderOK
  <2> QED
    BY Zenon, <2>1, <2>2, <2>3, <2>4 DEF RingInv, NoTornRead
<1>2. Inv /\ [Next]_vars => RingInv' /\ NoTornRead'
  <2> SUFFICES ASSUME Inv, [Next]_vars
               PROVE  RingInv' /\ NoTornRead'
    OBVIOUS
  <2>1. CASE UNCHANGED vars
    <3>1. UNCHANGED <<write_seq, seq, len, data, sent, wpc, wpos, wtodo, rpc, next, got, out,
                      rlen, rtodo, copied>>
      BY <2>1 DEF vars, ringVars, writerVars, cursorVars, copyVars
    <3>2. \A p : Published(p)' = Published(p)
      BY <3>1 DEF Published
    <3>3. \A i \in Slots : SlotOK(i)' = SlotOK(i)
      BY Zenon, <3>1, <3>2 DEF SlotOK, Holds
    <3>4. \A t \in Writers : FillOK(t)' = FillOK(t)
      BY Zenon, <3>1 DEF FillOK
    <3>5. \A r \in Readers : ReaderOK(r)' = ReaderOK(r)
      BY Zenon, <3>1, <3>2 DEF ReaderOK, Accept
    <3>6. RingInv'
      BY Zenon, <3>1, <3>3, <3>4, <3>5 DEF Inv, RingInv
    <3>7. NoTornRead'
      BY Zenon, <3>1 DEF Inv, NoTornRead
    <3> QED BY <3>6, <3>7
  <2>2. CASE Next
    BY <2>2, ClaimKeepsInv, FillKeepsInv, ReaderKeepsInv DEF Next
  <2> QED BY <2>1, <2>2
<1> QED
  BY <1>1, <1>2, TypeCorrect, PTL DEF Spec, Inv

\* With a single writer, whatever read() returns is one whole message: the
\* sequence checks around the copy detect every overlap with a later write.
THEOREM NoTornReadHolds ==
  ASSUME SingleWriter
  PROVE  Spec => []NoTornRead
BY InvHolds, PTL DEF Inv

\* The state of the seqlock behind it: in every reachable state unmarked slots
\* are whole, the writer owns the slot it fills, and what a reader has copied so
\* far belongs to the position that it will validate.
THEOREM RingInvHolds ==
  ASSUME SingleWriter
  PROVE  Spec => []RingInv
BY InvHolds, PTL DEF Inv

-----------------------------------------------------------------------------
\* A reader step seen from the lossy broadcast log: the cursor stays, loses
\* messages, or is handed the next whole message.
LEMMA ReaderRefines ==
  ASSUME Inv, NEW r \in Readers, Attach(r) \/ ReaderStep(r)
  PROVE  [Broadcast!Next]_(Broadcast!vars)
<1> USE RingAssumption
<1>a. /\ next[r] \in Nat /\ write_seq \in 0..MaxWrites
      /\ ReaderOK(r)
      /\ rpc \in [Readers -> {"detached", "poll", "first", "len", "copy"}]
  BY DEF Inv, TypeOK, RingTypeOK, CursorTypeOK, RingInv
<1> DEFINE att == [q \in Readers |-> rpc[q] # "detached"]
<1>1. CASE Attach(r)
  <2>1. att' = [att EXCEPT ![r] = TRUE]
    BY Zenon, <1>1, <1>a DEF Attach
  <2>2. Broadcast!Attach(r)
    BY Zenon, <1>1, <2>1 DEF Attach, Broadcast!Attach, ringVars
  <2> QED
    BY <2>2 DEF Broadcast!Next
<1>b. ASSUME rpc[r] # "detached", rpc'[r] # "detached", rpc' = [rpc EXCEPT ![r] = rpc'[r]]
      PROVE  att' = att /\ att[r]
  BY Zenon, <1>a, <1>b
<1>2. ASSUME Skip(r), rpc[r] # "detached", next[r] < write_seq
      PROVE  Broadcast!Next
  <2>1. att' = att /\ att[r]
    BY <1>2, <1>a, <1>b DEF Skip
  <2> DEFINE q == next[r] + 1
  <2>2. q - next[r] = 1 /\ next[r] < q /\ q <= write_seq /\ q \in 0..MaxWrites
    BY <1>2, <1>a
  <2>3. /\ dropped' = [dropped EXCEPT ![r] = @ + (q - next[r])]
        /\ next' = [next EXCEPT ![r] = q]
        /\ UNCHANGED <<write_seq, sent, start, got, out>>
    BY Zenon, <1>2, <2>2 DEF Skip, ringVars
  <2> HIDE DEF q
  <2>4. Broadcast!Lose(r, q)
    BY <2>1, <2>2, <2>3 DEF Broadcast!Lose
  <2> QED
    BY <2>2, <2>4 DEF Broadcast!Next
<1>3. CASE ReadHead(r)
  <2> DEFINE target == FastForward(next[r], write_seq)
  <2>1. att' = att /\ att[r]
    BY <1>3, <1>a, <1>b DEF ReadHead
  <2>2. target \in 0..MaxWrites /\ next[r] <= target /\ target <= write_seq
    <3>1. next[r] < write_seq
      BY <1>3 DEF ReadHead
    <3>2. CASE write_seq - next[r] > slot_count
      BY <1>a, <3>1, <3>2 DEF FastForward
    <3>3. CASE ~(write_seq - next[r] > slot_count)
      BY <1>a, <3>1, <3>3 DEF FastForward
    <3> QED BY <3>2, <3>3
  <2>3. /\ dropped' = [dropped EXCEPT ![r] = @ + (target - next[r])]
        /\ next' = [next EXCEPT ![r] = target]
        /\ UNCHANGED <<write_seq, sent, start, got, out>>
    BY <1>3 DEF ReadHead, ringVars
  <2> HIDE DEF target
  <2>4. CASE target = next[r]
    <3>1. UNCHANGED <<dropped, next>>
      BY <2>3, <2>4, <1>a DEF Inv, TypeOK, CursorTypeOK
    <3> QED
      BY <2>1, <2>3, <3>1 DEF Broadcast!vars
  <2>5. CASE target # next[r]
    <3>1. Broadcast!Lose(r, target)
      BY <1>a, <2>1, <2>2, <2>3, <2>5 DEF Broadcast!Lose
    <3> QED
      BY <2>2, <3>1 DEF Broadcast!Next
  <2> QED BY <2>4, <2>5
<1>4. CASE FirstCheck(r)
  <2>1. CASE Skip(r)
    BY ZenonT(30), <1>2, <1>4, <2>1, <1>a DEF FirstCheck, ReaderOK
  <2>2. CASE ~Skip(r)
    <3>1. att' = att
      BY ZenonT(30), <1>4, <2>2, <1>a, <1>b DEF FirstCheck
    <3> QED
      BY <1>4, <2>2, <3>1 DEF FirstCheck, Broadcast!vars, ringVars, cursorVars
  <2> QED BY <2>1, <2>2
<1>5. CASE LoadLen(r)
  <2>1. CASE Skip(r)
    BY Zenon, <1>2, <1>5, <2>1, <1>a DEF LoadLen, ReaderOK, Published
  <2>2. CASE ~Skip(r)
    <3>1. att' = att
      BY <1>5, <2>2, <1>a, <1>b DEF LoadLen
    <3> QED
      BY <1>5, <2>2, <3>1 DEF LoadLen, Broadcast!vars, ringVars, cursorVars
  <2> QED BY <2>1, <2>2
<1>6. CASE \E k \in Words : CopyWord(r, k)
  BY <1>6 DEF CopyWord, Broadcast!vars, ringVars, cursorVars
<1>7. CASE SecondCheck(r)
  <2>0. rpc[r] = "copy" /\ next[r] < write_seq
    BY <1>7, <1>a DEF SecondCheck, ReaderOK, Published
  <2>1. CASE Skip(r)
    BY <1>2, <2>0, <2>1
  <2>2. CASE ~Skip(r)
    <3>1. /\ Accept(r) /\ rtodo[r] = {}
          /\ out' = [out EXCEPT ![r] =
               [pos |-> next[r], len |-> rlen[r],
                words |-> [k \in 1..rlen[r] |-> copied[r][k]]]]
          /\ next' = [next EXCEPT ![r] = @ + 1]
          /\ got' = [got EXCEPT ![r] = @ + 1]
          /\ rpc' = [rpc EXCEPT ![r] = "poll"]
          /\ UNCHANGED <<write_seq, sent, start, dropped>>
      BY ZenonT(30), <1>7, <2>2 DEF SecondCheck, ringVars
    <3>2. att' = att /\ att[r]
      BY ZenonT(30), <3>1, <2>0, <1>a, <1>b
    <3>3. /\ rlen[r] = sent[next[r]]
          /\ \A k \in 1..rlen[r] : copied[r][k] = next[r]
      BY Zenon, <1>a, <2>0, <3>1 DEF ReaderOK
    <3>4. [pos |-> next[r], len |-> rlen[r], words |-> [k \in 1..rlen[r] |-> copied[r][k]]]
            = Broadcast!Message(next[r])
      BY Zenon, <3>3 DEF Broadcast!Message
    <3>5. Broadcast!Deliver(r)
      BY Zenon, <2>0, <3>1, <3>2, <3>4 DEF Broadcast!Deliver
    <3> QED
      BY <3>5 DEF Broadcast!Next
  <2> QED BY <2>1, <2>2
<1> QED
  BY <1>1, <1>3, <1>4, <1>5, <1>6, <1>7 DEF ReaderStep

\* The single-writer ring implements the lossy broadcast log: readers are
\* handed whole messages, in the order written, none of them twice, none from
\* before they attached, and every message passed over is counted in
\* dropped().
THEOREM RingImplementsBroadcast ==
  ASSUME SingleWriter
  PROVE  Spec => ImplementsBroadcast
<1>1. Init => Broadcast!Init
  <2> SUFFICES ASSUME Init PROVE Broadcast!Init
    OBVIOUS
  <2>1. \A r \in Readers : (rpc[r] # "detached") = FALSE
    BY DEF Init
  <2>2. [r \in Readers |-> rpc[r] # "detached"] = [r \in Readers |-> FALSE]
    BY Zenon, <2>1
  <2>3. NoMessage = Broadcast!NoMessage
    BY Zenon DEF NoMessage, Broadcast!NoMessage
  <2> QED
    BY Zenon, <2>2, <2>3 DEF Init, Broadcast!Init
<1>2. Inv /\ [Next]_vars => [Broadcast!Next]_(Broadcast!vars)
  <2> SUFFICES ASSUME Inv, [Next]_vars
               PROVE  [Broadcast!Next]_(Broadcast!vars)
    OBVIOUS
  <2>1. ASSUME NEW t \in Writers, NEW n \in Lens, Claim(t, n)
        PROVE  Broadcast!Next
    <3>1. Broadcast!Append(n)
      BY <2>1 DEF Claim, Broadcast!Append, cursorVars
    <3> QED
      BY <3>1 DEF Broadcast!Next
  <2>2. ASSUME NEW t \in Writers, WriterStep(t)
        PROVE  UNCHANGED Broadcast!vars
    BY Zenon, <2>2 DEF WriterStep, Mark, StoreLen, StoreWord, Publish, cursorVars, Broadcast!vars
  <2>3. CASE UNCHANGED vars
    BY <2>3 DEF vars, ringVars, cursorVars, Broadcast!vars
  <2> QED
    BY <2>1, <2>2, <2>3, ReaderRefines DEF Next
<1> QED
  BY <1>1, <1>2, InvHolds, PTL DEF Spec, ImplementsBroadcast, Broadcast!Spec

-----------------------------------------------------------------------------
\* The slots of the last positions: p is being claimed, or its slot carries it,
\* marked only as long as its writer fills it.
Carried(p) ==
  \/ \E t \in Writers : wpc[t] = "claimed" /\ wpos[t] = p
  \/ /\ seq[SlotOf(p)].pos = p
     /\ seq[SlotOf(p)].writing => \E t \in Writers : wpc[t] = "fill" /\ wpos[t] = p

\* A single writer works at the last position, and no position of the last ring
\* is overwritten.
RecentInv ==
  /\ \A t \in Writers : wpc[t] # "idle" => wpos[t] + 1 = write_seq
  /\ \A p \in 0..(write_seq - 1) : write_seq - p < slot_count => Carried(p)

\* Different positions of one ring have different slots.
LEMMA SlotsDiffer ==
  ASSUME NEW n \in Nat \ {0}, NEW p \in Nat, NEW q \in Nat, p < q, q - p < n
  PROVE  p % n # q % n
<1> SUFFICES ASSUME p % n = q % n PROVE FALSE
  OBVIOUS
<1>1. PICK a, b, c \in Nat : p = n * a + c /\ q = n * b + c
  <2>1. p = n * (p \div n) + (p % n) /\ q = n * (q \div n) + (q % n)
    OBVIOUS
  <2>2. p \div n \in Nat /\ q \div n \in Nat /\ p % n \in Nat
    OBVIOUS
  <2> QED
    BY Zenon, <2>1, <2>2
<1>2. CASE b <= a
  <2>1. n * b <= n * a
    BY <1>2
  <2> QED
    BY <1>1, <2>1
<1>3. CASE b >= a + 1
  <2>1. n * b >= n * (a + 1) /\ n * (a + 1) = n * a + n
    BY <1>3
  <2> QED
    BY <1>1, <2>1
<1> QED
  BY <1>2, <1>3

\* The invariant holds in a ring that was never written.
LEMMA InitRecent == Init => RecentInv
BY DEF Init, RecentInv

\* A writer claims the next position, or stores into the slot of its own.
LEMMA WriterRecent ==
  ASSUME SingleWriter, Inv, RecentInv, NEW t \in Writers,
         WriterStep(t) \/ \E n \in Lens : Claim(t, n)
  PROVE  RecentInv'
<1>0. /\ write_seq \in Nat /\ slot_count \in Nat \ {0} /\ \A x \in Writers : x = t
      /\ wpos[t] \in Nat /\ DOMAIN wpc = Writers /\ DOMAIN wpos = Writers
      /\ DOMAIN seq = Slots
  BY RingAssumption DEF Inv, TypeOK, RingTypeOK, SeqTypeOK, WriterTypeOK, SingleWriter
<1>1. ASSUME NEW n \in Lens, Claim(t, n) PROVE RecentInv'
  <2>1. /\ wpc[t] = "idle" /\ write_seq' = write_seq + 1 /\ seq' = seq
        /\ wpos'[t] = write_seq /\ wpc'[t] = "claimed"
    BY <1>0, <1>1 DEF Claim
  <2>2. ASSUME NEW p \in 0..(write_seq' - 1), write_seq' - p < slot_count PROVE Carried(p)'
    <3>1. CASE p = write_seq
      BY <2>1, <3>1 DEF Carried
    <3>2. CASE p # write_seq
      <4>1. p \in 0..(write_seq - 1) /\ write_seq - p < slot_count
        BY <1>0, <2>1, <2>2, <3>2
      <4>2. Carried(p)
        BY <4>1 DEF RecentInv
      <4>3. seq[SlotOf(p)].pos = p /\ ~seq[SlotOf(p)].writing
        BY <1>0, <2>1, <4>2 DEF Carried
      <4> QED
        BY <2>1, <4>3 DEF Carried
    <3> QED
      BY <3>1, <3>2
  <2>3. \A x \in Writers : wpc'[x] # "idle" => wpos'[x] + 1 = write_seq'
    BY <1>0, <2>1
  <2> QED
    BY <2>2, <2>3 DEF RecentInv
<1>2. CASE Mark(t) \/ Publish(t)
  <2> DEFINE q == wpos[t]
  <2>1. /\ wpc[t] # "idle" /\ write_seq' = write_seq /\ wpos' = wpos
        /\ \E w \in BOOLEAN : /\ seq' = [seq EXCEPT ![SlotOf(q)] = [pos |-> q, writing |-> w]]
                              /\ w => wpc'[t] = "fill"
    BY ZenonT(30), <1>0, <1>2 DEF Mark, Publish
  <2>2. q + 1 = write_seq
    BY <2>1 DEF RecentInv
  <2>a. q \in Nat /\ write_seq \in Nat /\ slot_count \in Nat
    BY <1>0
  <2>3. SlotOf(q) \in Slots
    BY Zenon, <1>0, SlotInRange
  <2>4. /\ seq'[SlotOf(q)].pos = q
        /\ seq'[SlotOf(q)].writing => wpc'[t] = "fill"
        /\ \A i \in Slots \ {SlotOf(q)} : seq'[i] = seq[i]
    <3> PICK w \in BOOLEAN : /\ seq' = [seq EXCEPT ![SlotOf(q)] = [pos |-> q, writing |-> w]]
                             /\ w => wpc'[t] = "fill"
      BY Zenon, <2>1
    <3>1. seq'[SlotOf(q)] = [pos |-> q, writing |-> w]
      BY <1>0, <2>3
    <3>2. \A i \in Slots \ {SlotOf(q)} : seq'[i] = seq[i]
      BY <1>0, <2>3
    <3>3. seq'[SlotOf(q)].pos = q /\ seq'[SlotOf(q)].writing = w
      BY <3>1
    <3>4. CASE w = TRUE
      BY Zenon, <3>2, <3>3, <3>4
    <3>5. CASE w = FALSE
      BY Zenon, <3>2, <3>3, <3>5
    <3> QED
      BY Zenon, <3>4, <3>5
  <2>5. ASSUME NEW p \in 0..(write_seq - 1), write_seq - p < slot_count PROVE Carried(p)'
    <3>1. CASE p = q
      BY ZenonT(30), <2>1, <2>4, <3>1 DEF Carried
    <3>2. CASE p # q
      <4>1. p \in Nat /\ p < q /\ q - p < slot_count
        BY <2>a, <2>2, <2>5, <3>2
      <4>2. SlotOf(p) # SlotOf(q) /\ SlotOf(p) \in Slots
        BY ZenonT(30), <1>0, <4>1, SlotsDiffer, SlotInRange DEF SlotOf
      <4>3. seq'[SlotOf(p)] = seq[SlotOf(p)]
        BY <2>4, <4>2
      <4>4. Carried(p)
        BY <2>5 DEF RecentInv
      <4>5. seq[SlotOf(p)].pos = p /\ ~seq[SlotOf(p)].writing
        BY <1>0, <3>2, <4>4 DEF Carried
      <4> QED
        BY Zenon, <4>3, <4>5 DEF Carried
    <3> QED
      BY <3>1, <3>2
  <2>6. \A x \in Writers : wpos'[x] + 1 = write_seq'
    BY <1>0, <2>1, <2>2
  <2> QED
    BY <2>1, <2>5, <2>6 DEF RecentInv
<1>3. CASE StoreLen(t) \/ \E k \in Words : StoreWord(t, k)
  <2>1. UNCHANGED <<write_seq, seq, wpc, wpos>>
    BY Zenon, <1>3 DEF StoreLen, StoreWord
  <2> QED
    BY <2>1 DEF RecentInv, Carried
<1> QED
  BY <1>1, <1>2, <1>3 DEF WriterStep

\* The reader leaves the ring alone.
LEMMA RecentKept ==
  ASSUME RecentInv, UNCHANGED <<write_seq, seq, wpc, wpos>>
  PROVE  RecentInv'
BY DEF RecentInv, Carried

\* RecentInv holds in every reachable state of a ring with one writer.
LEMMA RecentHolds ==
  ASSUME SingleWriter
  PROVE  Spec => []RecentInv
<1>1. Inv /\ RecentInv /\ [Next]_vars => RecentInv'
  <2> SUFFICES ASSUME Inv, RecentInv, [Next]_vars PROVE RecentInv'
    OBVIOUS
  <2>1. ASSUME NEW t \in Writers, WriterStep(t) \/ \E n \in Lens : Claim(t, n)
        PROVE  RecentInv'
    BY <2>1, WriterRecent
  <2>2. ASSUME NEW r \in Readers, Attach(r) \/ ReaderStep(r)
        PROVE  UNCHANGED <<write_seq, seq, wpc, wpos>>
    BY Zenon, <2>2 DEF Attach, ReaderStep, ReadHead, FirstCheck, LoadLen, SecondCheck, CopyWord,
       Skip, ringVars, writerVars
  <2>3. CASE UNCHANGED vars
    BY <2>3, RecentKept DEF vars, ringVars, writerVars
  <2> QED
    BY <2>1, <2>2, <2>3, RecentKept DEF Next
<1> QED
  BY <1>1, InitRecent, InvHolds, PTL DEF Spec

\* A reader that skips its position has lost it to a whole ring of writes, or its
\* writer has not marked the slot yet.
LEMMA SkipJustified ==
  ASSUME SingleWriter, Inv, RecentInv, NEW r \in Readers, next[r] < write_seq,
         \/ seq[SlotOf(next[r])].pos # next[r]
         \/ Published(next[r]) /\ ~Accept(r)
  PROVE  \/ write_seq - next[r] >= slot_count
         \/ \E t \in Writers : wpc[t] = "claimed" /\ wpos[t] = next[r]
<1> DEFINE p == next[r]
<1>1. p \in Nat /\ write_seq \in Nat /\ slot_count \in Nat
  BY RingAssumption DEF Inv, TypeOK, CursorTypeOK, RingTypeOK
<1>0. write_seq - p >= slot_count \/ write_seq - p < slot_count
  <2> HIDE DEF p
  <2> QED BY <1>1
<1> SUFFICES ASSUME write_seq - p < slot_count
             PROVE  \E t \in Writers : wpc[t] = "claimed" /\ wpos[t] = p
  BY Zenon, <1>0
<1>2. p \in 0..(write_seq - 1)
  BY <1>1
<1>3. Carried(p)
  BY <1>2 DEF RecentInv
<1>4. CASE seq[SlotOf(p)].pos # p
  BY <1>3, <1>4 DEF Carried
<1>5. CASE Published(p) /\ ~Accept(r) /\ seq[SlotOf(p)].pos = p
  <2>1. seq[SlotOf(p)] \in [pos : Nat, writing : BOOLEAN]
    BY Zenon, <1>1, SlotInRange DEF Inv, TypeOK, RingTypeOK, SeqTypeOK
  <2>2. seq[SlotOf(p)].writing
    BY Zenon, <1>5, <2>1 DEF Accept
  <2> QED
    BY <1>3, <1>5, <2>2 DEF Carried, Published
<1> QED
  BY <1>4, <1>5

\* With a single writer a reader gives a message up only when a whole ring was
\* written since, or while its writer stands between claiming the position and
\* marking the slot: the first check, the second check and the fast-forward lose
\* no message that the slot still carries.
THEOREM DropJustifiedHolds ==
  ASSUME SingleWriter
  PROVE  Spec => DropJustified
<1> DEFINE Justified(p) == \/ write_seq - p >= slot_count
                           \/ \E t \in Writers : wpc[t] = "claimed" /\ wpos[t] = p
<1>1. ASSUME Inv, Inv', RecentInv, [Next]_vars, NEW r \in Readers, NEW p \in 0..MaxWrites, Drops(r, p)
      PROVE  Justified(p)
  <2>1. /\ next \in [Readers -> Nat] /\ write_seq \in Nat /\ slot_count \in Nat
        /\ next'[r] \in Nat /\ got \in [Readers -> Nat]
    <3>1. TypeOK /\ CursorTypeOK'
      BY Zenon, <1>1 DEF Inv, TypeOK
    <3>2. next \in [Readers -> Nat] /\ next' \in [Readers -> Nat] /\ got \in [Readers -> Nat]
      BY Zenon, <3>1 DEF TypeOK, CursorTypeOK
    <3>3. write_seq \in 0..MaxWrites
      BY Zenon, <3>1 DEF TypeOK, RingTypeOK
    <3>4. write_seq \in Nat /\ slot_count \in Nat
      BY <3>3, RingAssumption
    <3> QED BY Zenon, <3>2, <3>4
  <2>2. next'[r] # next[r] /\ got'[r] = got[r] /\ rpc[r] # "detached" /\ p >= next[r] /\ p < next'[r]
    BY <1>1, <2>1 DEF Drops
  <2>3. CASE ReadHead(r)
    <3>1. next'[r] = FastForward(next[r], write_seq)
      BY <2>1, <2>3 DEF ReadHead
    <3> QED
      BY <2>1, <2>2, <3>1 DEF FastForward
  <2>4. CASE Skip(r) /\ Justified(next[r])
    <3>1. next'[r] = next[r] + 1
      BY <2>1, <2>4 DEF Skip
    <3>2. p = next[r]
      BY <2>1, <2>2, <3>1
    <3> QED
      BY <2>4, <3>2
  <2>5. CASE FirstCheck(r)
    <3>1. Skip(r) /\ seq[SlotOf(next[r])].pos # next[r] /\ rpc[r] = "first"
      BY ZenonT(30), <2>2, <2>5 DEF FirstCheck, cursorVars
    <3>2. next[r] < write_seq
      BY ZenonT(30), <1>1, <3>1 DEF Inv, RingInv, ReaderOK
    <3> QED
      BY ZenonT(30), <1>1, <2>4, <3>1, <3>2, SkipJustified
  <2>6. CASE LoadLen(r)
    <3>1. len[SlotOf(next[r])] \in 0..slot_size
      BY Zenon, <1>1, <2>1, SlotInRange DEF Inv, TypeOK, RingTypeOK
    <3>2. ~(len[SlotOf(next[r])] > slot_size)
      BY <3>1, RingAssumption
    <3> QED
      BY Zenon, <2>2, <2>6, <3>2 DEF LoadLen, cursorVars
  <2>7. CASE SecondCheck(r)
    <3>1. ~Accept(r) /\ Skip(r) /\ rpc[r] = "copy"
      <4>1. /\ rpc[r] = "copy"
            /\ \/ ~Accept(r) /\ Skip(r)
               \/ got' = [got EXCEPT ![r] = got[r] + 1]
        BY ZenonT(30), <2>7 DEF SecondCheck
      <4>2. got' # [got EXCEPT ![r] = got[r] + 1]
        BY <2>1, <2>2
      <4> QED
        BY Zenon, <4>1, <4>2
    <3>2. Published(next[r]) /\ next[r] < write_seq
      BY Zenon, <1>1, <3>1 DEF Inv, RingInv, ReaderOK, Published
    <3> QED
      BY Zenon, <1>1, <2>4, <3>1, <3>2, SkipJustified
  <2>8. CASE next' = next
    BY <2>2, <2>8
  <2>9. ASSUME NEW x \in Readers, x # r, Attach(x) \/ ReaderStep(x)
        PROVE  next'[r] = next[r]
    <3>1. next' = next \/ \E v : next' = [next EXCEPT ![x] = v]
      BY Zenon, <2>9 DEF Attach, ReaderStep, ReadHead, FirstCheck, LoadLen, SecondCheck, CopyWord,
         Skip, cursorVars
    <3> QED
      BY <2>1, <2>9, <3>1
  <2>10. CASE \E k \in Words : CopyWord(r, k)
    BY <2>8, <2>10 DEF CopyWord, cursorVars
  <2>11. ~Attach(r)
    BY <2>2 DEF Attach
  <2>12. ASSUME NEW t \in Writers, WriterStep(t) \/ \E n \in Lens : Claim(t, n)
         PROVE  next' = next
    BY Zenon, <2>12 DEF WriterStep, Claim, Mark, StoreLen, StoreWord, Publish, cursorVars
  <2>13. UNCHANGED vars => next' = next
    BY DEF vars, cursorVars
  <2> HIDE DEF Justified
  <2>14. CASE ReaderStep(r)
    BY <2>3, <2>5, <2>6, <2>7, <2>10, <2>14 DEF ReaderStep
  <2> QED
    BY ZenonT(30), <1>1, <2>2, <2>8, <2>9, <2>11, <2>12, <2>13, <2>14 DEF Next
<1>2. Inv /\ Inv' /\ RecentInv /\ [Next]_vars =>
        [\A r \in Readers, p \in 0..MaxWrites : Drops(r, p) => Justified(p)]_vars
  <2> HIDE DEF Justified
  <2> QED
    BY Zenon, <1>1
<1> QED
  BY <1>2, InvHolds, RecentHolds, PTL DEF Spec, DropJustified
=============================================================================
