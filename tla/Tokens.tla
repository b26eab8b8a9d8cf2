------------------------------- MODULE Tokens -------------------------------
(***************************************************************************)
(* Arguments of the tools as their parsers see them (cli/src/args.cpp,     *)
(* bench/src/bench_args.cpp): a word, or the text of a number as strtol    *)
(* and strtoull read it, with blanks, a sign, digits and other characters. *)
(***************************************************************************)
EXTENDS Integers

\* An argument, whatever it is.
Token ==
  [word : STRING, blank : BOOLEAN, minus : BOOLEAN, digits : Nat, rest : BOOLEAN]

Text(w) == [word |-> w, blank |-> FALSE, minus |-> FALSE, digits |-> 0, rest |-> TRUE]
Digits(n) == [word |-> "number", blank |-> FALSE, minus |-> FALSE, digits |-> n, rest |-> FALSE]
Minus(n) == [Digits(n) EXCEPT !.minus = TRUE]
BlankMinus(n) == [Minus(n) EXCEPT !.blank = TRUE]

\* The text begins with "--".
is_option_token(t) ==
  t.word \in {"--help", "--config", "--type", "--wait-ms", "--count", "--window", "--mode",
             "--payload-bytes", "--topic", "--other"}

\* The value of the digits with their sign.
Signed(t) == IF t.minus THEN -t.digits ELSE t.digits
=============================================================================
