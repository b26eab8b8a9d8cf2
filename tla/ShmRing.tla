------------------------------ MODULE ShmRing -------------------------------
(***************************************************************************)
(* The seqlock-style ring buffer of transport/shm_ring.h, placed in shared *)
(* memory: writers claim a position with fetch_add, mark the slot, store   *)
(* the length and the payload, then publish the position; each reader      *)
(* follows with a private cursor and validates the slot's sequence word    *)
(* before and after copying.                                               *)
(*                                                                         *)
(* Granularity: every atomic access, the plain store of len and the copy   *)
(* of each payload word is a step of its own.  memcpy may copy the words   *)
(* in any order.  On the x86-64 build stores become visible in program     *)
(* order and fetch_add drains the store buffer, so interleaving these      *)
(* steps is all another thread or process can observe.                     *)
(*                                                                         *)
(* A payload word is abstracted to the position of the message it belongs  *)
(* to; that is all a torn read can be told by.                             *)
(***************************************************************************)
EXTENDS Naturals

CONSTANTS
  Writers,      \* threads that call ShmRing::write on this ring
  Readers,      \* ShmRingReader cursors
  slot_count,   \* slots of the ring
  slot_size,    \* payload capacity of a slot, in words
  Lens,         \* payload lengths handed to write
  MaxWrites     \* bound: total number of claimed positions

\* A ring of a single slot is excluded: there the one-slot margin of the
\* fast-forward would take a reader past the newest message.
ASSUME RingAssumption ==
  /\ slot_count \in Nat \ {0, 1}
  /\ slot_size \in Nat
  /\ Lens \subseteq Nat
  /\ MaxWrites \in Nat \ {0}

VARIABLES
  write_seq,    \* Header::write_seq
  seq,          \* SlotHeader::seq of each slot, kWritingBit split off
  len,          \* SlotHeader::len of each slot
  data,         \* payload words of each slot
  sent,         \* history: length of the message written at each position
  wpc, wpos,    \* writer: control point, claimed position
  wtodo,        \* writer: cells still to store (0 is len, k the k-th word)
  rpc,          \* reader: control point
  start,        \* history: cursor value at construction
  next, dropped,\* reader: ShmRingReader::next_ and dropped_
  got,          \* history: number of reads that returned true
  rlen, rtodo,  \* reader: len it loaded, words it has still to copy
  copied,       \* reader: the words copied so far
  out           \* the last message a read returned

ringVars == <<write_seq, seq, len, data, sent>>
writerVars == <<wpc, wpos, wtodo>>
cursorVars == <<start, next, dropped, got, out>>
copyVars == <<rlen, rtodo, copied>>
vars == <<ringVars, writerVars, rpc, cursorVars, copyVars>>

Slots == 0..(slot_count - 1)
\* pos & (slot_count - 1), slot_count being a power of two
SlotOf(p) == p % slot_count
Words == 1..slot_size
NoMessage == [pos |-> 0, len |-> 0, words |-> [k \in 1..0 |-> 0]]

(***************************************************************************)
(* ShmRing::init.  Every slot gets the empty-slot sentinel, kWritingBit    *)
(* with position 0.                                                        *)
(***************************************************************************)
Init ==
  /\ write_seq = 0
  /\ seq = [i \in Slots |-> [pos |-> 0, writing |-> TRUE]]
  /\ len = [i \in Slots |-> 0]
  /\ data = [i \in Slots |-> [k \in Words |-> 0]]
  /\ sent = [p \in 0..(MaxWrites - 1) |-> 0]
  /\ wpc = [t \in Writers |-> "idle"]
  /\ wpos = [t \in Writers |-> 0]
  /\ wtodo = [t \in Writers |-> {}]
  /\ rpc = [r \in Readers |-> "detached"]
  /\ start = [r \in Readers |-> 0]
  /\ next = [r \in Readers |-> 0]
  /\ dropped = [r \in Readers |-> 0]
  /\ got = [r \in Readers |-> 0]
  /\ rlen = [r \in Readers |-> 0]
  /\ rtodo = [r \in Readers |-> {}]
  /\ copied = [r \in Readers |-> [k \in Words |-> 0]]
  /\ out = [r \in Readers |-> NoMessage]

-----------------------------------------------------------------------------
(***************************************************************************)
(* ShmRing::write                                                          *)
(***************************************************************************)

\* A message that does not fit is refused; otherwise fetch_add claims a
\* position.
Claim(t, n) ==
  /\ wpc[t] = "idle"
  /\ n <= slot_size
  /\ write_seq < MaxWrites
  /\ write_seq' = write_seq + 1
  /\ sent' = [sent EXCEPT ![write_seq] = n]
  /\ wpos' = [wpos EXCEPT ![t] = write_seq]
  /\ wpc' = [wpc EXCEPT ![t] = "claimed"]
  /\ UNCHANGED <<seq, len, data, wtodo, rpc, cursorVars, copyVars>>

\* Mutant of Mark: the slot is not marked before it is overwritten.
MarkNothing(t) ==
  /\ wpc[t] = "claimed"
  /\ wtodo' = [wtodo EXCEPT ![t] = 0..sent[wpos[t]]]
  /\ wpc' = [wpc EXCEPT ![t] = "fill"]
  /\ UNCHANGED <<write_seq, seq, len, data, sent, wpos, rpc, cursorVars, copyVars>>

\* seq.store(pos | kWritingBit)
Mark(t) ==
  /\ wpc[t] = "claimed"
  /\ seq' = [seq EXCEPT ![SlotOf(wpos[t])] = [pos |-> wpos[t], writing |-> TRUE]]
  /\ wtodo' = [wtodo EXCEPT ![t] = 0..sent[wpos[t]]]
  /\ wpc' = [wpc EXCEPT ![t] = "fill"]
  /\ UNCHANGED <<write_seq, len, data, sent, wpos, rpc, cursorVars, copyVars>>

\* s->len = len
StoreLen(t) ==
  /\ wpc[t] = "fill"
  /\ 0 \in wtodo[t]
  /\ len' = [len EXCEPT ![SlotOf(wpos[t])] = sent[wpos[t]]]
  /\ wtodo' = [wtodo EXCEPT ![t] = @ \ {0}]
  /\ UNCHANGED <<write_seq, seq, data, sent, wpc, wpos, rpc, cursorVars, copyVars>>

\* one word of the memcpy
StoreWord(t, k) ==
  /\ wpc[t] = "fill"
  /\ 0 \notin wtodo[t]
  /\ k \in wtodo[t]
  /\ data' = [data EXCEPT ![SlotOf(wpos[t])][k] = wpos[t]]
  /\ wtodo' = [wtodo EXCEPT ![t] = @ \ {k}]
  /\ UNCHANGED <<write_seq, seq, len, sent, wpc, wpos, rpc, cursorVars, copyVars>>

\* Mutant of Publish: the writing bit is left set.
PublishMarked(t) ==
  /\ wpc[t] = "fill"
  /\ wtodo[t] = {}
  /\ wpc' = [wpc EXCEPT ![t] = "idle"]
  /\ UNCHANGED <<ringVars, wpos, wtodo, rpc, cursorVars, copyVars>>

\* seq.store(pos)
Publish(t) ==
  /\ wpc[t] = "fill"
  /\ wtodo[t] = {}
  /\ seq' = [seq EXCEPT ![SlotOf(wpos[t])] = [pos |-> wpos[t], writing |-> FALSE]]
  /\ wpc' = [wpc EXCEPT ![t] = "idle"]
  /\ UNCHANGED <<write_seq, len, data, sent, wpos, wtodo, rpc, cursorVars, copyVars>>

-----------------------------------------------------------------------------
(***************************************************************************)
(* ShmRingReader                                                           *)
(***************************************************************************)

\* The cursor starts at the current write_seq: only the future is read.
Attach(r) ==
  /\ rpc[r] = "detached"
  /\ rpc' = [rpc EXCEPT ![r] = "poll"]
  /\ start' = [start EXCEPT ![r] = write_seq]
  /\ next' = [next EXCEPT ![r] = write_seq]
  /\ UNCHANGED <<ringVars, writerVars, dropped, got, out, copyVars>>

\* Mutant of FastForward: a margin of two slots.
FastForwardTooFar(p, w) == IF w - p > slot_count THEN w - slot_count + 2 ELSE p

\* Where the cursor goes when write_seq is w: a reader more than a ring
\* behind jumps to the oldest position but one that can still be intact.
FastForward(p, w) == IF w - p > slot_count THEN w - slot_count + 1 ELSE p

\* The loop head: load write_seq, return false when there is nothing new.
ReadHead(r) ==
  /\ rpc[r] = "poll"
  /\ next[r] < write_seq
  /\ LET target == FastForward(next[r], write_seq)
     IN /\ dropped' = [dropped EXCEPT ![r] = @ + (target - next[r])]
        /\ next' = [next EXCEPT ![r] = target]
  /\ rpc' = [rpc EXCEPT ![r] = "first"]
  /\ UNCHANGED <<ringVars, writerVars, start, got, out, copyVars>>

\* Mutant of Skip: the loss is not counted.
SkipUncounted(r) ==
  /\ next' = [next EXCEPT ![r] = @ + 1]
  /\ rpc' = [rpc EXCEPT ![r] = "poll"]
  /\ UNCHANGED <<ringVars, writerVars, start, dropped, got, out, copyVars>>

\* dropped_++; next_++; continue
Skip(r) ==
  /\ dropped' = [dropped EXCEPT ![r] = @ + 1]
  /\ next' = [next EXCEPT ![r] = @ + 1]
  /\ rpc' = [rpc EXCEPT ![r] = "poll"]
  /\ UNCHANGED <<ringVars, writerVars, start, got, out, copyVars>>

\* First load of the slot's sequence word: another position is skipped, a
\* slot being written ends the read with false.
FirstCheck(r) ==
  /\ rpc[r] = "first"
  /\ LET s1 == seq[SlotOf(next[r])]
     IN \/ s1.pos # next[r] /\ Skip(r)
        \/ /\ s1.pos = next[r]
           /\ rpc' = [rpc EXCEPT ![r] = IF s1.writing THEN "poll" ELSE "len"]
           /\ UNCHANGED <<ringVars, writerVars, cursorVars, copyVars>>

\* Load of len, with the defensive check of its value.
LoadLen(r) ==
  /\ rpc[r] = "len"
  /\ LET n == len[SlotOf(next[r])]
     IN \/ n > slot_size /\ Skip(r)
        \/ /\ n <= slot_size
           /\ rlen' = [rlen EXCEPT ![r] = n]
           /\ rtodo' = [rtodo EXCEPT ![r] = 1..n]
           /\ rpc' = [rpc EXCEPT ![r] = "copy"]
           /\ UNCHANGED <<ringVars, writerVars, cursorVars, copied>>

\* one word of out.assign
CopyWord(r, k) ==
  /\ rpc[r] = "copy"
  /\ k \in rtodo[r]
  /\ copied' = [copied EXCEPT ![r][k] = data[SlotOf(next[r])][k]]
  /\ rtodo' = [rtodo EXCEPT ![r] = @ \ {k}]
  /\ UNCHANGED <<ringVars, writerVars, rpc, cursorVars, rlen>>

\* Mutant of Accept: the second check looks at the writing bit only.
AcceptUnmarked(r) == ~seq[SlotOf(next[r])].writing

\* The second load of the sequence word accepts or discards the copy.
Accept(r) == seq[SlotOf(next[r])] = [pos |-> next[r], writing |-> FALSE]

SecondCheck(r) ==
  /\ rpc[r] = "copy"
  /\ rtodo[r] = {}
  /\ \/ ~Accept(r) /\ Skip(r)
     \/ /\ Accept(r)
        /\ out' = [out EXCEPT ![r] =
             [pos |-> next[r], len |-> rlen[r],
              words |-> [k \in 1..rlen[r] |-> copied[r][k]]]]
        /\ next' = [next EXCEPT ![r] = @ + 1]
        /\ got' = [got EXCEPT ![r] = @ + 1]
        /\ rpc' = [rpc EXCEPT ![r] = "poll"]
        /\ UNCHANGED <<ringVars, writerVars, start, dropped, copyVars>>

-----------------------------------------------------------------------------
WriterStep(t) ==
  \/ Mark(t) \/ StoreLen(t) \/ Publish(t)
  \/ \E k \in Words : StoreWord(t, k)

ReaderStep(r) ==
  \/ ReadHead(r) \/ FirstCheck(r) \/ LoadLen(r) \/ SecondCheck(r)
  \/ \E k \in Words : CopyWord(r, k)

Next ==
  \/ \E t \in Writers : WriterStep(t) \/ \E n \in Lens : Claim(t, n)
  \/ \E r \in Readers : Attach(r) \/ ReaderStep(r)

Spec == Init /\ [][Next]_vars

\* A write that was begun completes, and the poller thread keeps calling
\* read.  Nobody is obliged to write or to attach.
Fairness ==
  /\ \A t \in Writers : WF_vars(WriterStep(t))
  /\ \A r \in Readers : WF_vars(ReaderStep(r))

FairSpec == Spec /\ Fairness

-----------------------------------------------------------------------------
(***************************************************************************)
(* Properties                                                              *)
(***************************************************************************)

SeqTypeOK == seq \in [Slots -> [pos : Nat, writing : BOOLEAN]]

RingTypeOK ==
  /\ write_seq \in 0..MaxWrites
  /\ SeqTypeOK
  /\ len \in [Slots -> 0..slot_size]
  /\ data \in [Slots -> [Words -> Nat]]
  /\ sent \in [0..(MaxWrites - 1) -> 0..slot_size]

WriterTypeOK ==
  /\ wpc \in [Writers -> {"idle", "claimed", "fill"}]
  /\ wpos \in [Writers -> 0..(MaxWrites - 1)]
  /\ wtodo \in [Writers -> SUBSET (0..slot_size)]

OutTypeOK ==
  /\ DOMAIN out = Readers
  /\ \A r \in Readers : out[r].pos \in Nat /\ out[r].len \in 0..slot_size

CursorTypeOK ==
  /\ start \in [Readers -> Nat]
  /\ next \in [Readers -> Nat]
  /\ dropped \in [Readers -> Nat]
  /\ got \in [Readers -> Nat]
  /\ OutTypeOK

CopyTypeOK ==
  /\ rlen \in [Readers -> 0..slot_size]
  /\ rtodo \in [Readers -> SUBSET Words]
  /\ copied \in [Readers -> [Words -> Nat]]

\* Every variable keeps its range: stored lengths fit a slot, cells still to
\* be stored or copied lie inside it.
TypeOK ==
  /\ RingTypeOK
  /\ WriterTypeOK
  /\ rpc \in [Readers -> {"detached", "poll", "first", "len", "copy"}]
  /\ CursorTypeOK
  /\ CopyTypeOK

\* What read() hands out is one whole message: its length and every word of
\* it are those stored by the write that claimed that position, however the
\* copy overlapped later writes to the same slot.
NoTornRead ==
  \A r \in Readers : got[r] > 0 =>
    /\ out[r].len = sent[out[r].pos]
    /\ \A k \in 1..out[r].len : out[r].words[k] = out[r].pos

\* At most one thread writes to the ring.
SingleWriter == \A s, t \in Writers : s = t

\* Position p was claimed and its write is not in progress any more.
Published(p) ==
  p < write_seq /\ \A t \in Writers : wpc[t] # "idle" => wpos[t] # p

\* The first n words of slot i and its len are those of the message at p.
Holds(i, p) ==
  len[i] = sent[p] /\ \A k \in 1..sent[p] : data[i][k] = p

\* A slot not marked as being written holds the published message its
\* sequence word names.
SlotOK(i) ==
  ~seq[i].writing => Published(seq[i].pos) /\ Holds(i, seq[i].pos)

\* A filling writer owns its slot and has stored there what it no longer has
\* to store.
FillOK(t) ==
  LET i == SlotOf(wpos[t])
      p == wpos[t]
  IN /\ seq[i] = [pos |-> p, writing |-> TRUE]
     /\ 0 \notin wtodo[t] => len[i] = sent[p]
     /\ \A k \in 1..sent[p] : k \notin wtodo[t] => data[i][k] = p

\* A reader past the first check looks at a published position; as long as
\* the slot still carries it, everything copied so far belongs to it.
ReaderOK(r) ==
  /\ next[r] <= write_seq
  /\ rpc[r] = "first" => next[r] < write_seq
  /\ rpc[r] \in {"len", "copy"} => Published(next[r])
  /\ rpc[r] = "copy" /\ Accept(r) =>
       /\ rlen[r] = sent[next[r]]
       /\ \A k \in 1..rlen[r] : k \notin rtodo[r] => copied[r][k] = next[r]
  /\ got[r] > 0 => out[r].pos < write_seq

\* The strengthening that makes NoTornRead inductive when there is a single
\* writer: unmarked slots are whole, the filling writer owns its slot, and
\* what a reader copied belongs to the position it validated.
RingInv ==
  /\ \A t \in Writers : wpc[t] # "idle" => wpos[t] < write_seq
  /\ \A t \in Writers : wpc[t] = "fill" => FillOK(t)
  /\ \A i \in Slots : SlotOK(i)
  /\ \A r \in Readers : ReaderOK(r)

\* p is left behind by reader r in this step without having been delivered.
Drops(r, p) ==
  /\ rpc[r] # "detached"
  /\ p \in next[r]..(next'[r] - 1)
  /\ got'[r] = got[r]

\* A message is given up only when a whole ring of positions has been claimed
\* since, or while its own writer stands between claiming the position and
\* marking the slot.
DropJustified ==
  [][\A r \in Readers, p \in 0..MaxWrites : Drops(r, p) =>
       \/ write_seq - p >= slot_count
       \/ \E t \in Writers : wpc[t] = "claimed" /\ wpos[t] = p]_vars

\* The comment on the first check: a position that does not match means the
\* slot was overwritten by newer data.
DropOnlyOverwritten ==
  [][\A r \in Readers, p \in 0..MaxWrites :
       Drops(r, p) => write_seq - p >= slot_count]_vars

\* An attached reader that keeps polling catches up with the writers: neither
\* a slot being written nor a torn copy holds its cursor for ever.
CatchesUp ==
  \A r \in Readers : rpc[r] # "detached" ~> next[r] = write_seq

\* The ring implements the lossy broadcast log.
Broadcast == INSTANCE LossyBroadcast WITH
  written <- write_seq,
  msgs <- sent,
  attached <- [r \in Readers |-> rpc[r] # "detached"]

\* Seen through write_seq, the cursors and the messages handed out, every step
\* of writers and readers is a step of the lossy broadcast log.
ImplementsBroadcast == Broadcast!Spec
=============================================================================
