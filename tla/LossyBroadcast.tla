--------------------------- MODULE LossyBroadcast ---------------------------
(***************************************************************************)
(* What the shared-memory ring promises its users: a log to which writers  *)
(* append messages and which every reader follows with a cursor of its     *)
(* own.  A reader is handed whole messages, in log order, each at most     *)
(* once, starting with the first message appended after it attached; it    *)
(* may lose any of them, and then counts the loss.                         *)
(***************************************************************************)
EXTENDS Naturals

CONSTANTS
  Readers,    \* reader cursors (ShmRingReader objects)
  Lens,       \* message lengths, in words
  MaxWrites   \* bound on the number of messages appended

VARIABLES
  written,    \* how many messages were appended
  msgs,       \* msgs[p]: length of the message at position p
  attached,   \* attached[r]: the reader has taken its starting position
  start,      \* start[r]: that position
  next,       \* next[r]: the position the reader looks at next
  dropped,    \* dropped[r]: messages the reader counted as lost
  got,        \* got[r]: messages the reader was handed
  out         \* out[r]: the last message the reader was handed

vars == <<written, msgs, attached, start, next, dropped, got, out>>

\* The whole message at position p: every word of it belongs to p.
Message(p) == [pos |-> p, len |-> msgs[p], words |-> [k \in 1..msgs[p] |-> p]]
NoMessage == [pos |-> 0, len |-> 0, words |-> [k \in 1..0 |-> 0]]

Init ==
  /\ written = 0
  /\ msgs = [p \in 0..(MaxWrites - 1) |-> 0]
  /\ attached = [r \in Readers |-> FALSE]
  /\ start = [r \in Readers |-> 0]
  /\ next = [r \in Readers |-> 0]
  /\ dropped = [r \in Readers |-> 0]
  /\ got = [r \in Readers |-> 0]
  /\ out = [r \in Readers |-> NoMessage]

Append(n) ==
  /\ written < MaxWrites
  /\ written' = written + 1
  /\ msgs' = [msgs EXCEPT ![written] = n]
  /\ UNCHANGED <<attached, start, next, dropped, got, out>>

Attach(r) ==
  /\ ~attached[r]
  /\ attached' = [attached EXCEPT ![r] = TRUE]
  /\ start' = [start EXCEPT ![r] = written]
  /\ next' = [next EXCEPT ![r] = written]
  /\ UNCHANGED <<written, msgs, dropped, got, out>>

Deliver(r) ==
  /\ attached[r]
  /\ next[r] < written
  /\ out' = [out EXCEPT ![r] = Message(next[r])]
  /\ next' = [next EXCEPT ![r] = @ + 1]
  /\ got' = [got EXCEPT ![r] = @ + 1]
  /\ UNCHANGED <<written, msgs, attached, start, dropped>>

\* The reader gives up on the messages before position p.
Lose(r, p) ==
  /\ attached[r]
  /\ next[r] < p /\ p <= written
  /\ dropped' = [dropped EXCEPT ![r] = @ + (p - next[r])]
  /\ next' = [next EXCEPT ![r] = p]
  /\ UNCHANGED <<written, msgs, attached, start, got, out>>

Next ==
  \/ \E n \in Lens : Append(n)
  \/ \E r \in Readers : Attach(r) \/ Deliver(r)
  \/ \E r \in Readers, p \in 0..MaxWrites : Lose(r, p)

Spec == Init /\ [][Next]_vars
=============================================================================
