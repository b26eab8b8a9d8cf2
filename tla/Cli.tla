-------------------------------- MODULE Cli ---------------------------------
(***************************************************************************)
(* The mm tool (cli/src): main parses the arguments, checks the type, has  *)
(* the configuration file read (the steps of Config), constructs a Node    *)
(* and runs a topic command.  echo and hz share a state with the callback  *)
(* that the subscriber's worker runs; main waits on its condition variable *)
(* until the callback has counted enough messages.                         *)
(*                                                                         *)
(* argv begins after the program name.                                     *)
(***************************************************************************)
EXTENDS Config, Tokens

CONSTANTS
  Argvs,        \* the arguments the tool may be called with
  IntMax,       \* INT_MAX
  LongMax,      \* LONG_MAX
  MaxMessages   \* bound on the messages the worker takes

VARIABLES
  argv,         \* the arguments
  cmd,          \* what parse_cli_args made of them
  pc,           \* where main stands
  exit_code,    \* what main returned
  node,         \* the options the Node was constructed with, or none
  worker,       \* "idle", or "formatted": in the callback, not yet at the lock
  done,         \* done of EchoState and HzState
  notified,     \* the waiting main was notified
  samples,      \* timestamps of HzState
  received,     \* received of EchoState
  out,          \* what was written: numbers of messages, or the rate
  arrivals      \* history: when the callback had the lock, for each message

runVars == <<worker, done, notified, samples, received, out, arrivals>>
vars == <<argv, cmd, pc, exit_code, node, runVars, configVars>>

-----------------------------------------------------------------------------
(***************************************************************************)
(* parse_cli_args                                                          *)
(***************************************************************************)

\* What a long becomes as an int.
AsInt(v) == ((v + IntMax + 1) % (2 * IntMax + 2)) - IntMax - 1

\* A minus sign is refused where it is the first character; strtol takes what
\* fits a long; no more than INT_MAX is let through.
parse_non_negative_int(t) ==
  LET v == Signed(t)
  IN IF \/ t.rest \/ (t.minus /\ ~t.blank)
        \/ v > LongMax \/ v < -LongMax - 1 \/ v > IntMax
     THEN {} ELSE {AsInt(v)}

\* CliCommand and its defaults.
NewCommand ==
  [kind |-> "HELP", exit_code |-> 0, config_path |-> "", topic |-> "",
   type_name |-> "", wait_ms |-> 1500, count |-> 0, window |-> 10]

help_command == NewCommand
error_command == [NewCommand EXCEPT !.kind = "ERROR", !.exit_code = 2]

\* is_option_allowed, and the field an option is for.
Allowed ==
  [TOPIC_LIST |-> {"--config", "--wait-ms"},
   TOPIC_ECHO |-> {"--config", "--type", "--count"},
   TOPIC_HZ |-> {"--config", "--type", "--window", "--count"}]

Field(name) ==
  CASE name = "--config" -> "config_path" [] name = "--type" -> "type_name"
    [] name = "--wait-ms" -> "wait_ms" [] name = "--count" -> "count"
    [] name = "--window" -> "window"

\* An option, with its value, changes the command or replaces it by an error.
apply_option(c, name, t) ==
  LET values == IF name \in {"--config", "--type"}
                THEN IF is_option_token(t) THEN {} ELSE {t.word}
                ELSE {v \in parse_non_negative_int(t) : name = "--window" => v >= 2}
  IN IF name \notin Allowed[c.kind] \/ values = {} THEN error_command
     ELSE [c EXCEPT ![Field(name)] = CHOOSE v \in values : TRUE]

\* Mutant of parse_options: an option without a value is passed over.
parse_optionsLenient(args, start, c0) ==
  FoldLeft(LAMBDA c, i :
             IF c.kind = "ERROR" \/ i = Len(args) THEN c
             ELSE IF ~is_option_token(args[i]) THEN error_command
             ELSE apply_option(c, args[i].word, args[i + 1]),
           c0, [k \in 1..((Len(args) - start + 2) \div 2) |-> start + 2 * (k - 1)])

\* The loop over names and values; the first error ends it.
parse_options(args, start, c0) ==
  FoldLeft(LAMBDA c, i :
             IF c.kind = "ERROR" THEN c
             ELSE IF ~is_option_token(args[i]) \/ i = Len(args) THEN error_command
             ELSE apply_option(c, args[i].word, args[i + 1]),
           c0, [k \in 1..((Len(args) - start + 2) \div 2) |-> start + 2 * (k - 1)])

\* echo and hz take a topic first and insist on a type.
parse_topic_command(args, kind) ==
  LET c == parse_options(args, 4, [NewCommand EXCEPT !.kind = kind, !.topic = args[3].word])
  IN IF Len(args) < 3 \/ is_option_token(args[3]) THEN error_command
     ELSE IF c.type_name = "" THEN error_command ELSE c

parse_cli_args(args) ==
  IF args = <<>> \/ args[1].word = "--help" THEN help_command
  ELSE IF args[1].word # "topic" THEN error_command
  ELSE IF Len(args) = 2 /\ args[2].word = "--help" THEN help_command
  ELSE IF Len(args) < 2 THEN error_command
  ELSE CASE args[2].word = "list" ->
              parse_options(args, 3, [NewCommand EXCEPT !.kind = "TOPIC_LIST"])
         [] args[2].word = "echo" -> parse_topic_command(args, "TOPIC_ECHO")
         [] args[2].word = "hz" -> parse_topic_command(args, "TOPIC_HZ")
         [] OTHER -> error_command

-----------------------------------------------------------------------------
(***************************************************************************)
(* main, up to the command                                                 *)
(***************************************************************************)

supported_types == {"mm.StringMsg", "mm.Point3D", "mm.PointCloud"}

NoNode == [name |-> ""]

Init ==
  /\ argv \in Argvs
  /\ cmd = NewCommand /\ pc = "parse" /\ exit_code = -1 /\ node = NoNode
  /\ worker = "none" /\ done = FALSE /\ notified = FALSE
  /\ samples = <<>> /\ received = 0 /\ out = <<>> /\ arrivals = <<>>
  /\ ConfigInit

ParseArgs ==
  /\ pc = "parse"
  /\ cmd' = parse_cli_args(argv)
  /\ pc' = "parsed"
  /\ UNCHANGED <<argv, exit_code, node, runVars, configVars>>

\* main returns.
Exit(code) == pc' = "exited" /\ exit_code' = code

\* Help and errors end the program, as does a type that is not supported;
\* otherwise a configuration file is read if there is one.
CheckCommand ==
  /\ pc = "parsed"
  /\ argv' = <<>>
  /\ IF cmd.kind \in {"HELP", "ERROR"} THEN Exit(cmd.exit_code)
     ELSE IF cmd.kind # "TOPIC_LIST" /\ cmd.type_name \notin supported_types THEN Exit(2)
     ELSE /\ pc' = IF cmd.config_path = "" THEN "construct" ELSE "load"
          /\ UNCHANGED exit_code
  /\ UNCHANGED <<cmd, node, runVars, configVars>>

LoadFile ==
  /\ pc = "load"
  /\ Load
  /\ UNCHANGED <<argv, cmd, pc, exit_code, node, runVars>>

\* load_config_file returns, its text and its section go.
Loaded ==
  /\ pc = "load" /\ status \in {"ok", "failed"}
  /\ IF status = "failed" THEN Exit(2) /\ cfg' = default_config
     ELSE pc' = "construct" /\ UNCHANGED <<exit_code, cfg>>
  /\ text' = <<>> /\ section' = "" /\ status' = "closed"
  /\ UNCHANGED <<argv, cmd, node, runVars>>

\* The Node is constructed.  Of the configuration only its name, the SHM switch
\* and the discovery address are used.
Construct ==
  /\ pc = "construct"
  /\ node' = [name |-> cfg.name, enable_shm |-> cfg.enable_shm,
              discovery_group |-> cfg.group, discovery_port |-> cfg.port]
  /\ cfg' = default_config
  /\ pc' = IF cmd.kind = "TOPIC_LIST" THEN "sleep" ELSE "subscribe"
  /\ UNCHANGED <<argv, cmd, exit_code, runVars, text, section, status>>

-----------------------------------------------------------------------------
(***************************************************************************)
(* The topic commands                                                      *)
(***************************************************************************)

\* run_topic_list, after the pause: what discovery knows is printed.
run_topic_list ==
  /\ pc = "sleep"
  /\ out' = <<"endpoints">>
  /\ Exit(0)
  /\ UNCHANGED <<argv, cmd, node, worker, done, notified, samples, received, arrivals, configVars>>

\* create_subscriber; without a count main sleeps for ever.
Subscribe ==
  /\ pc = "subscribe"
  /\ worker' = "idle"
  /\ pc' = IF cmd.count <= 0 THEN "forever" ELSE "lock"
  /\ UNCHANGED <<argv, cmd, exit_code, node, done, notified, samples, received, out, arrivals,
                 configVars>>

\* The worker has a message and formats it.
Take ==
  /\ worker = "idle" /\ pc # "exited"
  /\ Len(arrivals) < MaxMessages
  /\ worker' = "formatted"
  /\ UNCHANGED <<argv, cmd, pc, exit_code, node, done, notified, samples, received, out, arrivals,
                 configVars>>

\* Mutant of Counted: an echo or a sample too many is waited for.
CountedLate(n) == cmd.count > 0 /\ n > cmd.count

\* The callback counts n messages: are they enough?
Counted(n) == cmd.count > 0 /\ n >= cmd.count

\* Mutant of notify_one: main is not notified.
notify_nobody == notified' = notified

\* A notification is lost on a main that does not sleep.
notify_one == notified' = (pc = "asleep")

\* The callback under the lock, at time now: echo writes the message, hz keeps
\* the time; both count, and wake main.
Callback(now) ==
  /\ worker = "formatted"
  /\ worker' = "idle"
  /\ arrivals' = Append(arrivals, now)
  /\ IF done THEN UNCHANGED <<done, notified, samples, received, out>>
     ELSE /\ IF cmd.kind = "TOPIC_ECHO"
             THEN /\ out' = Append(out, Len(arrivals')) /\ received' = received + 1
                  /\ UNCHANGED samples
             ELSE samples' = Append(samples, now) /\ UNCHANGED <<out, received>>
          /\ done' = Counted(received' + Len(samples'))
          /\ notify_one
  /\ UNCHANGED <<argv, cmd, pc, exit_code, node, configVars>>

\* cv.wait: main goes on when done is set, and sleeps otherwise.
Wait ==
  /\ pc = "lock"
  /\ pc' = IF ~done THEN "asleep" ELSE IF cmd.kind = "TOPIC_HZ" THEN "report" ELSE "return"
  /\ UNCHANGED <<argv, cmd, exit_code, node, runVars, configVars>>

\* Notified, main looks again.  It may wake for no reason, too.
Wake ==
  /\ pc = "asleep"
  /\ pc' = "lock" /\ notified' = FALSE
  /\ UNCHANGED <<argv, cmd, exit_code, node, worker, done, samples, received, out, arrivals,
                 configVars>>

\* Messages per time over the last window samples; 0 for fewer than two and for
\* no time.
Rate(times, window) ==
  LET n == IF window > 1 THEN window ELSE 2
      k == IF n < Len(times) THEN n ELSE Len(times)
      elapsed == times[Len(times)] - times[Len(times) - k + 1]
  IN IF k >= 2 /\ elapsed > 0 THEN <<k - 1, elapsed>> ELSE <<0, 1>>

\* run_hz_for locks again, and prints the rate.
Report ==
  /\ pc = "report"
  /\ done' = TRUE
  /\ out' = Rate(samples, cmd.window)
  /\ pc' = "return"
  /\ UNCHANGED <<argv, cmd, exit_code, node, worker, notified, samples, received, arrivals,
                 configVars>>

\* main returns, the Node goes, and with it the subscriber: its worker is joined
\* after the message it is at.
Return ==
  /\ pc = "return" /\ worker = "idle"
  /\ worker' = "none"
  /\ Exit(0)
  /\ UNCHANGED <<argv, cmd, node, done, notified, samples, received, out, arrivals, configVars>>

-----------------------------------------------------------------------------
\* The time of a message: that of the one before, or later.
Now == LET last == IF arrivals = <<>> THEN 0 ELSE arrivals[Len(arrivals)]
       IN last..(last + 1)

Worker == Take \/ \E now \in Now : Callback(now)

\* What main does by itself.
Main ==
  \/ ParseArgs \/ CheckCommand \/ LoadFile \/ Loaded \/ Construct
  \/ run_topic_list \/ Subscribe \/ Wait \/ Report \/ Return
  \/ notified /\ Wake

Next == Main \/ Worker \/ Wake

Spec == Init /\ [][Next]_vars

\* Both threads run, messages keep arriving up to the bound, and a file ends.
FairSpec == Spec /\ WF_vars(Main) /\ WF_vars(Worker)

-----------------------------------------------------------------------------
(***************************************************************************)
(* Properties                                                              *)
(***************************************************************************)

\* The positions of the options, and the last one with this name.
First == IF argv[2].word = "list" THEN 3 ELSE 4
Names == {i \in First..Len(argv) : (i - First) % 2 = 0}
Given(name) == {i \in Names : argv[i].word = name}

\* The values an option is for: a number is digits without a sign, blanks before
\* them or not, that an int can hold, and at least 2 for a window; a word is no
\* option.
Fits(name, t) ==
  IF name \in {"--config", "--type"} THEN ~is_option_token(t)
  ELSE ~t.rest /\ ~t.minus /\ t.digits <= IntMax /\ (name = "--window" => t.digits >= 2)

\* A minus sign behind blanks, which the check of the first character does not see.
HiddenSign == \E i \in DOMAIN argv : argv[i].blank /\ argv[i].minus

\* The arguments as cli_usage has them: a command, a topic where it needs one,
\* then options of this command, each followed by a value it accepts, and a type
\* that is not empty.
WellFormed ==
  /\ Len(argv) >= 2 /\ argv[1].word = "topic"
  /\ argv[2].word \in {"list", "echo", "hz"}
  /\ Len(argv) >= First - 1 /\ (Len(argv) - First) % 2 = 1
  /\ argv[2].word # "list" => /\ ~is_option_token(argv[3])
                              /\ Given("--type") # {}
                              /\ argv[Max(Given("--type")) + 1].word # ""
  /\ \A i \in Names :
       /\ argv[i].word \in
            {"--config"} \cup (IF argv[2].word = "list" THEN {"--wait-ms"} ELSE {"--type", "--count"})
                         \cup (IF argv[2].word = "hz" THEN {"--window"} ELSE {})
       /\ Fits(argv[i].word, argv[i + 1])

\* parse_cli_args agrees with the usage and the messages it prints: a command
\* results from well-formed arguments and from no others; every option has the
\* value that follows its last occurrence, or its default.  An error keeps nothing
\* of the options before it, although command and error are one object.  Numbers
\* with a hidden sign are left out of the first two parts: the code takes them,
\* against its own messages, which NonNegative shows.
ArgsAsUsage ==
  pc = "parsed" /\ cmd.kind # "HELP" =>
    /\ ~HiddenSign => (cmd.kind = "ERROR" <=> ~WellFormed)
    /\ ~HiddenSign /\ cmd.kind # "ERROR" => \A name \in Allowed[cmd.kind] :
         LET t == argv[Max(Given(name)) + 1]
         IN cmd[Field(name)] =
              IF Given(name) = {} THEN NewCommand[Field(name)]
              ELSE IF name \in {"--config", "--type"} THEN t.word ELSE t.digits
    /\ cmd.kind = "ERROR" => cmd = error_command

\* With a count N, echo writes the first N messages in the order in which they
\* came and nothing else, and hz reports the rate of the first N, whatever the
\* callback is given while main wakes up, reports and returns.
PrintsFirst ==
  pc = "exited" /\ cmd.kind \in {"TOPIC_ECHO", "TOPIC_HZ"} /\ exit_code = 0 =>
    /\ Len(arrivals) >= cmd.count
    /\ out = IF cmd.kind = "TOPIC_ECHO" THEN [i \in 1..cmd.count |-> i]
             ELSE Rate(SubSeq(arrivals, 1, cmd.count), cmd.window)

\* The commands that need no message, and those whose messages arrive, return:
\* no notification is lost between the callback and the wait of main.
Returns ==
  (pc = "parse" ~> pc \in {"exited", "forever", "lock"})
    /\ (pc = "lock" /\ cmd.count <= MaxMessages ~> pc = "exited")

\* "--wait-ms must be a non-negative integer", and so must --count.  Violated: a
\* blank before the minus sign passes the check.
NonNegative == cmd.wait_ms >= 0 /\ cmd.count >= 0

\* "prints frequency once at least two messages are available"
PrintsRate ==
  cmd.kind = "TOPIC_HZ" /\ Len(samples) >= 2 ~> out # <<>>

\* "--window controls the number of intervals used in the moving average"
WindowIntervals ==
  cmd.kind = "TOPIC_HZ" /\ out # <<>> /\ out # <<0, 1>> /\ Len(samples) > cmd.window =>
    out[1] = cmd.window
=============================================================================
