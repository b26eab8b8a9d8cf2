------------------------------- MODULE Config -------------------------------
(***************************************************************************)
(* The configuration file: load_config_file and parse_config_text, which   *)
(* read a text line by line and keep the section, the settings and the     *)
(* first error.  A line is what trim and strip_comment leave of it.  Cli   *)
(* takes these steps as part of its own.                                   *)
(***************************************************************************)
EXTENDS Integers, Sequences, SequencesExt, FiniteSetsExt

CONSTANTS
  Lines,        \* the lines a file may hold
  MaxLines,     \* bound on the lines of a file
  MaxU16,       \* numeric_limits<uint16_t>::max()
  MaxU32        \* numeric_limits<uint32_t>::max()

\* Both limits are at least a digit, so that max_value - digit is no underflow.
ASSUME Limits == MaxU16 \in Nat /\ MaxU16 >= 9 /\ MaxU32 \in Nat /\ MaxU32 >= 9

VARIABLES
  text,         \* the lines read so far
  section,      \* the section they leave the parser in
  cfg,          \* the settings they made
  status        \* "closed", "reading", "ok", "failed"

configVars == <<text, section, cfg, status>>

-----------------------------------------------------------------------------
\* A line is a head, a colon or not, and a value: a word, and its characters
\* where they matter, each a digit or Letter.
Letter == 10
None == [word |-> "", chars |-> <<>>]
Word(w) == [word |-> w, chars |-> <<Letter>>]
Number(cs) == [word |-> "number", chars |-> cs]

Pair(key, value) == [head |-> key, colon |-> TRUE, value |-> value]
Blank == [head |-> "", colon |-> FALSE, value |-> None]
NoColon(word) == [head |-> word, colon |-> FALSE, value |-> None]

\* line.back() == ':'
IsSection(l) == l.colon /\ l.value = None

-----------------------------------------------------------------------------
\* The value of a sequence of characters, or Malformed.
Malformed == -1

\* Mutant of parse_unsigned: the limit is compared before the digit is added.
parse_unsignedLate(chars, max) ==
  FoldLeft(LAMBDA parsed, c :
             IF parsed = Malformed \/ c = Letter \/ parsed > max \div 10
             THEN Malformed ELSE parsed * 10 + c,
           IF chars = <<>> THEN Malformed ELSE 0, chars)

parse_unsigned(chars, max) ==
  FoldLeft(LAMBDA parsed, c :
             IF parsed = Malformed \/ c = Letter \/ parsed > (max - c) \div 10
             THEN Malformed ELSE parsed * 10 + c,
           IF chars = <<>> THEN Malformed ELSE 0, chars)

\* The words a setting accepts; the others are numbers or any word.
Accepted ==
  [enable_shm |-> {"true", "false"}, reliability |-> {"best_effort", "reliable"},
   history |-> {"keep_last", "keep_all"}]

Limit == [port |-> MaxU16, depth |-> MaxU32]

\* The settings and the section each is read in.
SectionOf ==
  [name |-> "node", enable_shm |-> "transport", group |-> "discovery",
   port |-> "discovery", reliability |-> "qos", history |-> "qos",
   depth |-> "qos"]

Setting == DOMAIN SectionOf

default_config ==
  [name |-> "mm_cli", enable_shm |-> "true", group |-> "239.255.0.1",
   port |-> 7400, reliability |-> "best_effort", history |-> "keep_last",
   depth |-> 16]

\* What a value means to a setting, and whether it means anything.
Meaning(key, value) ==
  IF key \in DOMAIN Limit THEN parse_unsigned(value.chars, Limit[key])
  ELSE value.word

Valid(key, value) ==
  /\ key \in DOMAIN Limit => Meaning(key, value) # Malformed
  /\ key \in DOMAIN Accepted => value.word \in Accepted[key]

-----------------------------------------------------------------------------
ConfigInit ==
  /\ text = <<>> /\ section = "" /\ cfg = default_config
  /\ status = "closed"

Open ==
  /\ status = "closed"
  /\ status' = "reading"
  /\ UNCHANGED <<text, section, cfg>>

OpenFails ==
  /\ status = "closed"
  /\ status' = "failed"
  /\ UNCHANGED <<text, section, cfg>>

\* A key and a value: a setting of the section, an error, or ignored.
Apply(l) ==
  IF l.head \notin Setting \/ SectionOf[l.head] # section
  THEN UNCHANGED <<cfg, status>>
  ELSE IF Valid(l.head, l.value)
  THEN cfg' = [cfg EXCEPT ![l.head] = Meaning(l.head, l.value)]
       /\ UNCHANGED status
  ELSE status' = "failed" /\ UNCHANGED cfg

\* A turn of the loop: skipped, a section, an error, or a setting.
ReadLine(l) ==
  /\ status = "reading" /\ Len(text) < MaxLines
  /\ text' = Append(text, l)
  /\ \/ l = Blank /\ UNCHANGED <<section, cfg, status>>
     \/ IsSection(l) /\ section' = l.head /\ UNCHANGED <<cfg, status>>
     \/ /\ ~l.colon /\ l # Blank
        /\ status' = "failed" /\ UNCHANGED <<section, cfg>>
     \/ l.colon /\ l.value # None /\ Apply(l) /\ UNCHANGED section

EndOfText ==
  /\ status = "reading"
  /\ status' = "ok"
  /\ UNCHANGED <<text, section, cfg>>

\* One step of load_config_file.
Load == Open \/ OpenFails \/ EndOfText \/ \E l \in Lines : ReadLine(l)

-----------------------------------------------------------------------------
\* The reference reading of a text, all of it at once.

\* The section of line i: the last head before it that stands alone.
SectionAt(i) ==
  LET heads == {j \in 1..(i - 1) : IsSection(text[j])}
  IN IF heads = {} THEN "" ELSE text[Max(heads)].head

\* The number that digits write, in closed form.
Decimal(cs) ==
  MapThenSumSet(LAMBDA i : cs[i] * 10 ^ (Len(cs) - i), 1..Len(cs))

\* A number is digits only, at least one, that write no more than the limit.
IsNumber(cs, max) ==
  cs # <<>> /\ Letter \notin Range(cs) /\ Decimal(cs) <= max

\* Line i sets key; it does so correctly.
Sets(i, key) ==
  /\ text[i].colon /\ text[i].value # None
  /\ text[i].head = key /\ SectionAt(i) = SectionOf[key]

Correct(i) ==
  LET key == text[i].head  value == text[i].value
  IN /\ key \in DOMAIN Limit => IsNumber(value.chars, Limit[key])
     /\ key \in DOMAIN Accepted => value.word \in Accepted[key]

\* Each setting is what the last correct line of its section with its key
\* says, and its default without such a line.
LastLineWins ==
  \A key \in Setting :
    LET lines == {i \in DOMAIN text : Sets(i, key) /\ Correct(i)}
        value == text[Max(lines)].value
    IN cfg[key] = IF lines = {} THEN default_config[key]
                  ELSE IF key \in DOMAIN Limit THEN Decimal(value.chars)
                  ELSE value.word

\* Reading stops at the first line in error and at no other: one that is not of
\* the form "key: value", or sets a setting to what it does not accept.
StopsAtFirstError ==
  LET Wrong(i) == \/ text[i] # Blank /\ ~text[i].colon
                  \/ \E key \in Setting : Sets(i, key) /\ ~Correct(i)
      errors == {i \in DOMAIN text : Wrong(i)}
  IN /\ errors \subseteq {Len(text)}
     /\ text # <<>> => (errors # {} <=> status = "failed")

\* parse_config_text, which looks at a line once and keeps only the section,
\* agrees with the reference: the settings are those of the lines before the
\* first error, whatever the order of sections and lines, and numbers are read
\* up to the limit of their type and not beyond.
ReadsAsReference == status # "closed" => LastLineWins /\ StopsAtFirstError

\* "Invalid enum values or malformed integers return a parse error": no text
\* is accepted in which a setting, under the name of its section, has a value
\* that is not one of its own, the empty one included.
InvalidRejected ==
  \A i \in DOMAIN text :
    LET names == {j \in 1..(i - 1) : IsSection(text[j])
                                     /\ text[j].head \in Range(SectionOf)}
        key == text[i].head
    IN /\ status = "ok" /\ names # {} /\ key \in Setting
       /\ SectionOf[key] = text[Max(names)].head
       => Correct(i)
=============================================================================
