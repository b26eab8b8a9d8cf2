------------------------------ MODULE BenchArgs -----------------------------
(***************************************************************************)
(* The pure parts of mm_bench: its arguments (bench/src/bench_args.cpp),   *)
(* the sizes of its messages (bench/src/message_codec.cpp) and its         *)
(* percentiles (bench/src/stats.cpp).  Texts count by their lengths.       *)
(***************************************************************************)
EXTENDS Tokens, Sequences, FiniteSets

CONSTANTS
  DefaultCount,   \* default of --count
  MaxCount,       \* kMaxBenchmarkCount
  ULongMax        \* ULLONG_MAX

ASSUME ArgsAssumption ==
  DefaultCount \in Nat \ {0} /\ MaxCount \in Nat /\ ULongMax \in Nat

kShmSlotCapacity == 256 * 1024
MAX_PAYLOAD_SIZE == 16 * 1024 * 1024
MaxDigits == 20                           \* of an uint64_t
kMaxBenchmarkRunIdBytes == 3 * MaxDigits + 2

-----------------------------------------------------------------------------
(***************************************************************************)
(* Sizes                                                                   *)
(***************************************************************************)

\* Digits of a number below 10^10, and bytes of a varint below 2^28.
Tens(n) == {10 * n, 10 * 10 * n, 10 * 10 * 10 * n}
TensPowers == Tens(1) \cup Tens(1000) \cup Tens(1000 * 1000)
DigitCount(n) == 1 + Cardinality({p \in TensPowers : p <= n})
VarintLimits == {128, 128 * 128, 128 * 128 * 128}
Varint(n) == 1 + Cardinality({p \in VarintLimits : p <= n})

\* A field of a protobuf message, tag, length and bytes; an empty one is left out.
FieldSize(n) == IF n = 0 THEN 0 ELSE 1 + Varint(n) + n

\* The size of make_benchmark_payload: run id, sequence and time, each with a
\* separator, and padding up to payload_bytes.
payload_size(run_id, sequence, time_digits, payload_bytes) ==
  LET metadata == run_id + 1 + DigitCount(sequence) + 1 + time_digits + 1
  IN IF metadata < payload_bytes THEN payload_bytes ELSE metadata

minimum_benchmark_payload_bytes(run_id, count) ==
  payload_size(run_id, IF count = 0 THEN 0 ELSE count - 1, MaxDigits, 0)

effective_benchmark_payload_bytes(requested, count) ==
  LET metadata == minimum_benchmark_payload_bytes(kMaxBenchmarkRunIdBytes, count)
  IN IF requested < metadata THEN metadata ELSE requested

\* Mutant of serialized_string_message_size: only tag and bytes are counted.
serialized_string_message_sizeShort(payload_bytes) == 1 + payload_bytes

serialized_string_message_size(payload_bytes) == FieldSize(payload_bytes)

tcp_frame_payload_size(topic, payload_bytes) ==
  FieldSize(topic) + FieldSize(serialized_string_message_size(payload_bytes))

-----------------------------------------------------------------------------
(***************************************************************************)
(* parse_bench_args                                                        *)
(***************************************************************************)

BenchOptions ==
  [mode |-> "shm", count |-> DefaultCount, requested |-> 256, payload_bytes |-> 256, topic |-> 6]

Result(kind, exit_code) == [kind |-> kind, exit_code |-> exit_code, options |-> BenchOptions]
help_result == Result("help", 0)
error_result == Result("error", 2)

\* A minus sign is refused where it is the first character; strtoull takes the
\* magnitude that fits and gives a negative number modulo 2^64; zero is refused.
parse_positive_size(t) ==
  LET v == Signed(t) % (ULongMax + 1)
  IN IF t.rest \/ (t.minus /\ ~t.blank) \/ t.digits > ULongMax \/ v = 0 THEN {} ELSE {v}

\* The option an argument names, and the values its next argument can have.
OptionOf(name) ==
  CASE name = "--mode" -> "mode" [] name = "--count" -> "count"
    [] name = "--payload-bytes" -> "payload_bytes" [] name = "--topic" -> "topic"
    [] OTHER -> "none"

ValuesOf(option, t) ==
  CASE option = "mode" -> {t.word} \cap {"shm", "tcp"}
    [] option = "count" -> {v \in parse_positive_size(t) : v <= MaxCount}
    [] option = "payload_bytes" -> parse_positive_size(t)
    [] option = "topic" -> {t.digits}

\* A round of the loop over the arguments, at the i-th: the value of an option is
\* passed over in the next round; help and errors are final.
ParseOption(argv, acc, i) ==
  LET option == OptionOf(argv[i].word)
      values == ValuesOf(option, argv[i + 1])
  IN IF acc.result.kind # "run" THEN acc
     ELSE IF acc.value THEN [acc EXCEPT !.value = FALSE]
     ELSE IF argv[i].word = "--help" THEN [acc EXCEPT !.result = help_result]
     ELSE IF option = "none" \/ i = Len(argv) THEN [acc EXCEPT !.result = error_result]
     ELSE IF is_option_token(argv[i + 1]) \/ values = {}
          THEN [acc EXCEPT !.result = error_result]
     ELSE [acc EXCEPT !.value = TRUE,
                      !.result.options[option] = CHOOSE v \in values : TRUE]

parse_options(argv) ==
  LET acc[i \in 0..Len(argv)] ==
        IF i = 0 THEN [value |-> FALSE, result |-> Result("run", 0)]
        ELSE ParseOption(argv, acc[i - 1], i)
  IN acc[Len(argv)].result

\* Whether a message of so many bytes goes through the slot or the frame.
Fits(options) ==
  IF options.mode = "shm"
  THEN serialized_string_message_size(options.payload_bytes) <= kShmSlotCapacity
  ELSE tcp_frame_payload_size(options.topic, options.payload_bytes) <= MAX_PAYLOAD_SIZE

\* The payload is made large enough for the metadata and checked against the
\* limit of the route; that it alone is too large is found out first.
parse_bench_args(argv) ==
  LET parsed == parse_options(argv)
      requested == parsed.options.payload_bytes
      limit == IF parsed.options.mode = "shm" THEN kShmSlotCapacity ELSE MAX_PAYLOAD_SIZE
      payload == effective_benchmark_payload_bytes(requested, parsed.options.count)
      options == [parsed.options EXCEPT !.requested = requested, !.payload_bytes = payload]
  IN IF parsed.kind # "run" THEN parsed
     ELSE IF payload > limit THEN error_result
     ELSE IF ~Fits(options) THEN error_result
     ELSE [parsed EXCEPT !.options = options]

-----------------------------------------------------------------------------
(***************************************************************************)
(* compute_latency_stats                                                   *)
(***************************************************************************)

\* The position of a percentile among count sorted samples.
rank(count, percentile) == (count * percentile + 99) \div 100

\* std::sort: a sample has as many before it as are smaller, or equal and earlier.
place(samples, i) ==
  Cardinality({j \in DOMAIN samples :
                 samples[j] < samples[i] \/ (samples[j] = samples[i] /\ j <= i)})

sort(samples) ==
  [k \in DOMAIN samples |-> samples[CHOOSE i \in DOMAIN samples : place(samples, i) = k]]

compute_latency_stats(samples) ==
  LET sorted == sort(samples)
      nearest(p) == IF samples = <<>> THEN 0 ELSE sorted[rank(Len(samples), p)]
  IN [count |-> Len(samples), p50 |-> nearest(50), p95 |-> nearest(95), p99 |-> nearest(99)]
=============================================================================
