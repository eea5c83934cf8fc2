----------------------------- MODULE MCCommandLine -----------------------------
(***************************************************************************)
(* CommandLine for TLC.                                                    *)
(***************************************************************************)
EXTENDS CommandLine

Conn(listen, host, connect, flags) ==
  [fields |-> 4, listen |-> listen, host |-> host, connect |-> connect, flags |-> flags]

MCHigh == Conn(40000, <<98>>, 65535, {"a", "p"})
MCSocks == [Conn(22, <<>>, 0, {}) EXCEPT !.fields = 3]
MCWide == Conn(65558, <<>>, 65536, {"a"})
MCBad == Conn(22, <<98>>, -1, {})

Opt(letter) == [opt |-> letter, value |-> NoValue]
Valued(letter, v) == [opt |-> letter, value |-> v]

MCArgs ==
  {Opt(o) : o \in {"l", "r", "V", "s", "e", "-", "L", "R", "p", "word"}}
  \union {Valued("L", v) : v \in {MCHigh, MCSocks, MCWide}}
  \union {Valued("R", MCSocks), Valued("c", MCBad)}
  \union {Valued("word", v) : v \in {MCHigh, MCSocks, MCBad}}
===============================================================================
