------------------------------- MODULE MCCli --------------------------------
(***************************************************************************)
(* The arguments and the configuration files for TLC.                      *)
(***************************************************************************)
EXTENDS Cli

SectionLine(w) == Pair(w, None)

\* Sections, every setting with values it accepts and values it does not, and
\* numbers around the limit 65535.
Numbers ==
  {Number(<<6, 5, 5, 3, 5>>), Number(<<6, 5, 5, 3, 6>>), Number(<<0, 6, 5, 5, 3, 5>>),
   Number(<<2, Letter>>)}

SomeLines ==
  {Blank, NoColon("qos"), Pair("name", Word("x")),
   Pair("group", Word("239.1.2.3"))}
  \cup {SectionLine(w) : w \in {"node", "transport", "discovery", "qos", "depth"}}
  \cup {Pair("enable_shm", Word(w)) : w \in {"false", "maybe"}}
  \cup {Pair("reliability", Word("reliable")), Pair("history", Word("ancient")),
        Pair("depth", Number(<<1, 2>>))}
  \cup {Pair("port", n) : n \in Numbers}

\* Numbers with a sign, with blanks before it, with more behind it, and around
\* the limits of int and long.
Values ==
  {Text("--type"), [Digits(3) EXCEPT !.blank = TRUE]} \cup {Digits(n) : n \in {1, 2, 127, 128}}
    \cup {Minus(1), BlankMinus(1), BlankMinus(254), BlankMinus(40000), [Digits(3) EXCEPT !.rest = TRUE]}
Options ==
  {<<Text(w), v>> : w \in {"--wait-ms", "--count", "--window"}, v \in Values}
    \cup {<<Text("--type"), Text(w)>> : w \in {"", "mm.Point3D", "odd", "--count"}}
    \cup {<<Text(w), Digits(1)>> : w \in {"--type", "--other", "odd"}}

Heads ==
  {<<Text("topic"), Text("list")>>, <<Text("topic"), Text("hz"), Text("/t")>>,
   <<Text("topic"), Text("echo"), Text("/t")>>}

OfType == <<Text("--type"), Text("mm.StringMsg")>>
File == <<Text("--config"), Text("f")>>

\* Every head with two options of any kind and a type before, after or not at
\* all, the last token there or not; and a call with a file.
SomeArgvs ==
  LET tails == {<<>>} \cup Options \cup {a \o b : a \in Options, b \in Options}
      whole == {h \o t : h \in Heads, t \in tails} \cup {h \o OfType \o t : h \in Heads, t \in tails}
                 \cup {h \o t \o OfType : h \in Heads, t \in Options}
      other == {<<>>, <<Text("--help")>>, <<Text("odd")>>, <<Text("topic")>>,
                <<Text("topic"), Text("--help")>>, <<Text("topic"), Text("--help"), Text("odd")>>,
                <<Text("topic"), Text("odd")>>, <<Text("topic"), Text("echo")>>,
                <<Text("topic"), Text("echo")>> \o OfType}
      file == <<Text("topic"), Text("hz"), Text("/t")>> \o OfType
                \o <<Text("--count"), Digits(2)>> \o File
  IN whole \cup {SubSeq(a, 1, Len(a) - 1) : a \in whole} \cup other \cup {file}
=============================================================================
