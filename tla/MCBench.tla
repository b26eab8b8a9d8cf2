------------------------------ MODULE MCBench -------------------------------
(***************************************************************************)
(* Arguments around every limit of mm_bench.                               *)
(***************************************************************************)
EXTENDS Bench

Mode(m) == <<Text("--mode"), Text(m)>>
Payload(t) == <<Text("--payload-bytes"), t>>
CountIs(t) == <<Text("--count"), t>>
Topic(n) == <<Text("--topic"), [Text("topic") EXCEPT !.digits = n]>>

\* Numbers with and without sign, zero, and around what fits.
Numbers ==
  {Digits(n) : n \in {0, 1, 104, ULongMax, ULongMax + 1}}
    \cup {Minus(1), BlankMinus(1), BlankMinus(ULongMax), [Digits(3) EXCEPT !.rest = TRUE]}

Around(limit) == {Digits(n) : n \in (limit - 6)..(limit + 1)}

SomeArgvs ==
  {<<>>, <<Text("--help")>>, <<Text("odd")>>, <<Text("--other")>>, <<Text("--mode")>>,
   Mode("odd"), Mode("--help"), Payload(Text("--mode")), Mode("tcp") \o <<Text("--help")>>}
    \cup {CountIs(t) : t \in Numbers \cup {Digits(MaxCount + 1)}}
    \cup {Payload(t) : t \in Numbers \cup Around(kShmSlotCapacity)}
    \cup {Mode("tcp") \o Payload(t) \o Topic(n) :
            t \in Around(MAX_PAYLOAD_SIZE - 8), n \in {0, 1}}
    \cup {Topic(MAX_PAYLOAD_SIZE) \o Mode("tcp")}
=============================================================================
