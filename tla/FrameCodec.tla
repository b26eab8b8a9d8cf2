----------------------------- MODULE FrameCodec -----------------------------
(***************************************************************************)
(* The framing of transport/src/frame_codec.cpp: a big-endian length       *)
(* followed by the payload.  Bytes are digits to the base Base, so that a  *)
(* model has few of them.                                                  *)
(***************************************************************************)
EXTENDS Naturals, Sequences

CONSTANTS
  Base,               \* values of a byte
  HEADER_SIZE,        \* bytes of the length
  MAX_PAYLOAD_SIZE    \* longest payload

\* What a digit is worth, by its place from the right.
Weight[n \in 0..HEADER_SIZE] == IF n = 0 THEN 1 ELSE Base * Weight[n - 1]

ASSUME CodecAssumption ==
  /\ Base \in Nat \ {0, 1}
  /\ HEADER_SIZE \in Nat \ {0}
  /\ MAX_PAYLOAD_SIZE \in 0..(Weight[HEADER_SIZE] - 1)

write_uint32_be(value) ==
  [i \in 1..HEADER_SIZE |-> (value \div Weight[HEADER_SIZE - i]) % Base]

read_uint32_be(src) ==
  LET value[k \in 0..HEADER_SIZE] == IF k = 0 THEN 0 ELSE value[k - 1] * Base + src[k]
  IN value[HEADER_SIZE]

\* A payload that is too long is encoded to nothing.
encode(payload) ==
  IF Len(payload) > MAX_PAYLOAD_SIZE THEN <<>>
  ELSE write_uint32_be(Len(payload)) \o payload

\* Mutant of Take: a frame is only complete when another byte follows it.
TakeLate(st) ==
  LET length == read_uint32_be(st.buffer)
      frame == HEADER_SIZE + length
  IN IF Len(st.buffer) < HEADER_SIZE THEN st
     ELSE IF length > MAX_PAYLOAD_SIZE THEN [st EXCEPT !.buffer = <<>>]
     ELSE IF Len(st.buffer) <= frame THEN st
     ELSE [messages |-> Append(st.messages, SubSeq(st.buffer, HEADER_SIZE + 1, frame)),
           buffer |-> SubSeq(st.buffer, frame + 1, Len(st.buffer))]

\* One round of the loop of decode: a complete frame moves from the buffer to
\* the messages; a length out of range empties the buffer.
Take(st) ==
  LET length == read_uint32_be(st.buffer)
      frame == HEADER_SIZE + length
  IN IF Len(st.buffer) < HEADER_SIZE THEN st
     ELSE IF length > MAX_PAYLOAD_SIZE THEN [st EXCEPT !.buffer = <<>>]
     ELSE IF Len(st.buffer) < frame THEN st
     ELSE [messages |-> Append(st.messages, SubSeq(st.buffer, HEADER_SIZE + 1, frame)),
           buffer |-> SubSeq(st.buffer, frame + 1, Len(st.buffer))]

\* Every frame has a byte at least, so as many rounds as bytes are enough.  (The
\* state goes round in a singleton, which makes TLC evaluate it once per round.)
decode(buffer) ==
  LET round[k \in 0..Len(buffer)] ==
        IF k = 0 THEN {[messages |-> <<>>, buffer |-> buffer]}
        ELSE {Take(st) : st \in round[k - 1]}
  IN CHOOSE st \in round[Len(buffer)] : TRUE

\* The sequences, one after the other.
Joined(seqs) ==
  LET joined[n \in 0..Len(seqs)] == IF n = 0 THEN <<>> ELSE joined[n - 1] \o seqs[n]
  IN joined[Len(seqs)]

\* The byte stream that carries the payloads.
Stream(payloads) == Joined([i \in DOMAIN payloads |-> encode(payloads[i])])
=============================================================================
