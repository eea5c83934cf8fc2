--------------------------- MODULE CommandLineProofs ---------------------------
(***************************************************************************)
(* Proofs about the command line, for every set of arguments and command   *)
(* lines of every length: that the two scans of it agree, and that the     *)
(* connections it asks for are those that the remote process creates.      *)
(*                                                                         *)
(* The second scan starts when the first has forgotten which arguments it  *)
(* has looked at. The invariant ScanInv says that there is a set of        *)
(* positions that is closed under the steps of the first scan and on which *)
(* only one argument, the one at which it stopped, begins the command; the *)
(* second scan stays on it, up to the end of the command line.             *)
(*                                                                         *)
(* The entries of CMD_CREATE have no marks between them: the remote        *)
(* process finds the next one by reading this one. The invariant CreateInv *)
(* says that there are positions at which the packet falls into the        *)
(* entries of m_connection_map, and that the remote process is at one of   *)
(* them; what it reads there (Decode) is an entry, up to the next of these *)
(* positions.                                                              *)
(***************************************************************************)
EXTENDS CommandLine, SequenceTheorems, TLAPS

\* The options that are followed by a value.
Valued == {"L", "R", "p", "c"}

\* Where the first scan goes from argument x.
After(x) == IF argv[x].opt \in Valued /\ argv[x].value = NoValue THEN x + 2 ELSE x + 1

\* What begins the command.
Command == {"word", "-"}

\* Argument x, if the first scan looks at it: it is no command and the next one is in V,
\* or it is what the scan stops at.
Walked(V, x) ==
  /\ x > Len(argv) => stopped = 0
  /\ x <= Len(argv) => /\ argv[x].opt = "word" => stopped = x
                       /\ argv[x].opt = "-" => stopped = x + 1
                       /\ argv[x].opt \notin Command => After(x) \in V

\* V holds what the first scan has looked at.
Walk(V) == V \subseteq Nat /\ 1 \in V /\ \A x \in V : Walked(V, x)

\* The same while it goes on, with argument i before it.
Walking(V) ==
  /\ V \subseteq Nat /\ 1 \in V /\ i \in V
  /\ \A x \in V \ {i} : x <= Len(argv) /\ argv[x].opt \notin Command /\ After(x) \in V

ScanType ==
  /\ Len(argv) \in Nat /\ i \in Nat \ {0} /\ stopped \in Nat /\ m_command \in Nat

Scans ==
  /\ stage = "CreateTunnel" =>
       /\ m_command = 0
       /\ \E V : IF stopped = 0 THEN Walking(V) ELSE Walk(V)
  /\ stage = "configure" =>
       \E V : /\ Walk(V)
              /\ IF m_command = 0 THEN i \in V \/ (i > Len(argv) /\ stopped = 0)
                 ELSE m_command = stopped
  /\ ScansAgree

ScanInv == ScanType /\ Scans

-------------------------------------------------------------------------------
\* The arguments before the first scan.
LEMMA InitScans == Init => ScanInv
<1>. SUFFICES ASSUME Init  PROVE ScanInv
  OBVIOUS
<1>1. PICK n \in 0 .. MaxArgs : argv \in [1 .. n -> Args]
  BY DEF Init
<1>2. Len(argv) = n /\ n \in Nat
  <2>1. MaxArgs \in Nat
    BY BoundsAssumption
  <2>2. n \in Nat
    BY ONLY n \in 0 .. MaxArgs, <2>1
  <2>. QED  BY ONLY <1>1, <2>2, SMTT(30)
<1>3. i = 1 /\ stopped = 0 /\ m_command = 0 /\ stage = "CreateTunnel"
  BY DEF Init
<1>4. Walking({1})
  BY <1>3 DEF Walking
<1>. QED  BY <1>2, <1>3, <1>4 DEF ScanInv, ScanType, Scans, ScansAgree

\* The first scan looks at an argument.
LEMMA CreateTunnelScans ==
  ASSUME ScanInv, CreateTunnelArg
  PROVE  ScanInv'
<1>1. /\ stage = "CreateTunnel" /\ stopped = 0 /\ i <= Len(argv)
      /\ argv' = argv /\ m_command' = m_command /\ m_command = 0
      /\ \/ /\ stopped' = CASE Arg.opt = "word" -> i [] Arg.opt = "-" -> i + 1 [] OTHER -> 0
            /\ i' = IF Skipped THEN i + 2 ELSE i + 1
            /\ stage' = stage
         \/ stage' = "usage" /\ stopped' = stopped /\ i' = i
  BY DEF CreateTunnelArg, config, ScanInv, Scans
<1>2. Len(argv) \in Nat /\ i \in Nat \ {0} /\ stopped \in Nat /\ m_command \in Nat
  BY DEF ScanInv, ScanType
<1>3. PICK V : Walking(V)
  BY <1>1 DEF ScanInv, Scans
<1>4. CASE stage' = "usage" /\ stopped' = stopped /\ i' = i
  BY <1>1, <1>2, <1>4 DEF ScanInv, ScanType, Scans, ScansAgree
<1>5. CASE /\ stopped' = CASE Arg.opt = "word" -> i [] Arg.opt = "-" -> i + 1 [] OTHER -> 0
           /\ i' = IF Skipped THEN i + 2 ELSE i + 1
           /\ stage' = stage
  <2>1. i' \in Nat \ {0} /\ i' = After(i) /\ i' # i /\ stopped' \in Nat
    BY <1>2, <1>5 DEF After, Skipped, Arg, Valued
  <2>2. ScanType'
    BY <1>1, <1>2, <2>1 DEF ScanType
  <2>3. \A x : After(x)' = After(x)
    BY <1>1 DEF After
  <2>4. CASE Arg.opt \notin Command
    <3>1. stopped' = 0
      BY <1>5, <2>4 DEF Command
    <3>0. PICK W : W = V \cup {i'}
      OBVIOUS
    <3>2. W \subseteq Nat /\ 1 \in W /\ i' \in W
      BY <1>3, <2>1, <3>0 DEF Walking
    <3>3. ASSUME NEW x \in W \ {i'}
          PROVE  x <= Len(argv') /\ argv'[x].opt \notin Command /\ After(x)' \in W
      <4>1. CASE x = i
        BY <1>1, <2>1, <2>3, <2>4, <3>0, <4>1 DEF Arg
      <4>2. CASE x # i
        BY <1>1, <1>3, <2>3, <3>0, <3>3, <4>2 DEF Walking
      <4>. QED  BY <4>1, <4>2
    <3>4. Walking(W)'
      BY <3>2, <3>3 DEF Walking
    <3>. QED  BY <1>1, <1>5, <2>2, <3>1, <3>4 DEF ScanInv, Scans, ScansAgree
  <2>5. CASE Arg.opt \in Command
    <3>1. stopped' = (IF Arg.opt = "word" THEN i ELSE i + 1) /\ stopped' # 0
      BY <1>2, <1>5, <2>5 DEF Command
    <3>2. ASSUME NEW x \in V  PROVE Walked(V, x)'
      <4>1. CASE x = i
        BY <1>1, <1>2, <2>5, <3>1, <4>1 DEF Walked, Arg, Command
      <4>2. CASE x # i
        <5>1. x <= Len(argv) /\ argv[x].opt \notin Command /\ After(x) \in V /\ x \in Nat
          BY <1>3, <3>2, <4>2 DEF Walking
        <5>. QED  BY <1>1, <1>2, <2>3, <5>1 DEF Walked, Command
      <4>. QED  BY <4>1, <4>2
    <3>3. Walk(V)'
      BY <1>3, <3>2 DEF Walk, Walking
    <3>. QED  BY <1>1, <1>5, <2>2, <3>1, <3>3 DEF ScanInv, Scans, ScansAgree
  <2>. QED  BY <2>4, <2>5
<1>. QED  BY <1>1, <1>4, <1>5

\* The first scan ends, with the last argument or at the command.
LEMMA CreateTunnelEndScans ==
  ASSUME ScanInv, CreateTunnelEnds
  PROVE  ScanInv'
<1>1. /\ stage = "CreateTunnel" /\ (stopped # 0 \/ i > Len(argv))
      /\ stage' \in {"version", "configure", "remote"}
      /\ i' = 1 /\ argv' = argv /\ m_command' = m_command /\ stopped' = stopped /\ m_command = 0
  BY DEF CreateTunnelEnds, config, ScanInv, Scans
<1>2. Len(argv) \in Nat /\ i \in Nat \ {0} /\ stopped \in Nat /\ m_command \in Nat
  BY DEF ScanInv, ScanType
<1>3. PICK V : Walk(V)
  <2>1. PICK V : IF stopped = 0 THEN Walking(V) ELSE Walk(V)
    BY <1>1 DEF ScanInv, Scans
  <2>2. CASE stopped = 0
    <3>1. Walking(V) /\ i > Len(argv)
      BY <1>1, <2>1, <2>2
    <3>2. ASSUME NEW x \in V  PROVE Walked(V, x)
      <4>1. x \in Nat
        BY <3>1 DEF Walking
      <4>. QED  BY <1>2, <2>2, <3>1, <4>1 DEF Walking, Walked, Command
    <3>. QED  BY <3>1, <3>2 DEF Walk, Walking
  <2>. QED  BY <2>1, <2>2
<1>4. ScanType'
  BY <1>1, <1>2 DEF ScanType
<1>5. Walk(V)'
  BY <1>1, <1>3 DEF Walk, Walked, After
<1>. QED  BY <1>1, <1>3, <1>4, <1>5 DEF ScanInv, Scans, ScansAgree, Walk

\* The second scan goes on: it stays on V, or is behind the last argument.
LEMMA Onward ==
  ASSUME ScanType, NEW V, Walk(V), i \in V, i <= Len(argv), Arg.opt \notin Command,
         Scanned, argv' = argv
  PROVE  i' \in Nat \ {0} /\ (i' \in V \/ (i' > Len(argv) /\ stopped = 0))
<1>1. Len(argv) \in Nat /\ i \in Nat \ {0}
  BY DEF ScanType
<1>2. After(i) \in V
  BY DEF Walk, Walked, Arg
<1>3. i' = IF Arg.opt \in Valued /\ ~long_arg THEN i + 2 ELSE i + 1
  BY DEF Scanned, Valued
<1>4. CASE i' = After(i)
  BY <1>1, <1>2, <1>4 DEF After
<1>5. CASE i' # After(i)
  <2>1. i = Len(argv) /\ After(i) = i + 2 /\ i' = i + 1
    BY <1>1, <1>3, <1>5 DEF After, long_arg, Arg
  <2>2. Walked(V, After(i))
    BY <1>2 DEF Walk
  <2>3. stopped = 0
    BY <1>1, <2>1, <2>2 DEF Walked
  <2>. QED  BY <1>1, <2>1, <2>3
<1>. QED  BY <1>4, <1>5

\* The second scan looks at -L or -R.
LEMMA SpecScans ==
  ASSUME ScanInv, NEW trybind, ConfigureSpec(trybind)
  PROVE  ScanInv'
<1>1. /\ stage = "configure" /\ m_command = 0 /\ i <= Len(argv) /\ Arg.opt \in {"L", "R"}
      /\ Scanned /\ argv' = argv /\ stopped' = stopped /\ m_command' = m_command
      /\ stage' \in {"usage", "silent", stage}
  BY DEF ConfigureSpec, Configuring
<1>2. ScanType
  BY DEF ScanInv
<1>3. PICK V : Walk(V) /\ (i \in V \/ (i > Len(argv) /\ stopped = 0))
  BY <1>1 DEF ScanInv, Scans
<1>4. i \in V /\ Arg.opt \notin Command
  BY <1>1, <1>2, <1>3 DEF ScanType, Command
<1>5. i' \in Nat \ {0} /\ (i' \in V \/ (i' > Len(argv) /\ stopped = 0))
  BY <1>1, <1>2, <1>3, <1>4, Onward
<1>6. ScanType'
  BY <1>1, <1>2, <1>5 DEF ScanType
<1>7. Walk(V)'
  BY <1>1, <1>3 DEF Walk, Walked, After
<1>. QED  BY <1>1, <1>5, <1>6, <1>7 DEF ScanInv, Scans, ScansAgree

\* The second scan looks at another argument.
LEMMA ArgScans ==
  ASSUME ScanInv, ConfigureArg
  PROVE  ScanInv'
<1>1. /\ stage = "configure" /\ m_command = 0 /\ i <= Len(argv)
      /\ m_command' = CASE Arg.opt = "word" -> i [] Arg.opt = "-" -> i + 1 [] OTHER -> 0
      /\ Scanned /\ argv' = argv /\ stopped' = stopped /\ stage' = stage
  BY DEF ConfigureArg, Configuring
<1>2. ScanType /\ Len(argv) \in Nat /\ i \in Nat \ {0}
  BY DEF ScanInv, ScanType
<1>3. PICK V : Walk(V) /\ i \in V
  BY <1>1, <1>2 DEF ScanInv, Scans
<1>4. Walk(V)'
  BY <1>1, <1>3 DEF Walk, Walked, After
<1>5. CASE Arg.opt \notin Command
  <2>1. i' \in Nat \ {0} /\ (i' \in V \/ (i' > Len(argv) /\ stopped = 0))
    BY <1>1, <1>2, <1>3, <1>5, Onward
  <2>2. m_command' = 0
    BY <1>1, <1>5 DEF Command
  <2>3. ScanType'
    BY <1>1, <1>2, <2>1, <2>2 DEF ScanType
  <2>. QED  BY <1>1, <1>4, <2>1, <2>2, <2>3 DEF ScanInv, Scans, ScansAgree
<1>6. CASE Arg.opt \in Command
  <2>1. Walked(V, i)
    BY <1>3 DEF Walk
  <2>2. m_command' = stopped /\ m_command' \in Nat \ {0}
    BY <1>1, <1>2, <1>6, <2>1 DEF Walked, Arg, Command
  <2>3. i' \in Nat \ {0}
    BY <1>1, <1>2 DEF Scanned
  <2>4. ScanType'
    BY <1>1, <1>2, <2>2, <2>3 DEF ScanType
  <2>. QED  BY <1>1, <1>4, <2>2, <2>4 DEF ScanInv, Scans, ScansAgree
<1>. QED  BY <1>5, <1>6

\* The second scan ends.
LEMMA ConfigureEndScans ==
  ASSUME ScanInv, ConfigureEnds
  PROVE  ScanInv'
<1>1. /\ stage = "configure" /\ UNCHANGED <<argv, stopped, m_command>> /\ i' = 1
      /\ stage' = "usage" \/ (stage' = "start" /\ m_command \in 1 .. Len(argv))
  BY DEF ConfigureEnds, scan, config
<1>2. m_command # 0 => m_command = stopped
  BY <1>1 DEF ScanInv, Scans
<1>3. stage' = "start" => stopped' = m_command'
  BY <1>1, <1>2
<1>. QED  BY <1>1, <1>3 DEF ScanInv, ScanType, Scans, ScansAgree

\* The steps after the scans leave what they have found.
LEMMA LaterScans ==
  ASSUME ScanInv, UNCHANGED <<argv, stopped, m_command>>, i' \in {1, i, i + 1},
         stage' \notin {"CreateTunnel", "configure"}, stage' = "start" => stage = "start"
  PROVE  ScanInv'
BY DEF ScanInv, ScanType, Scans, ScansAgree

\* The invariant is inductive.
LEMMA NextScans ==
  ASSUME ScanInv, [Next]_vars
  PROVE  ScanInv'
<1>1. ASSUME NEW initialize, StartConnection(initialize)  PROVE ScanInv'
  BY <1>1, LaterScans DEF StartConnection, scan, config
<1>2. ASSUME StartThrows \/ StartEnds  PROVE ScanInv'
  BY <1>2, LaterScans DEF StartThrows, StartEnds, scan, config
<1>3. ASSUME StartHandshaking \/ WriteConnection  PROVE ScanInv'
  BY <1>3, LaterScans DEF StartHandshaking, WriteConnection, scan, config
<1>4. ASSUME RemoteReadsCount  PROVE ScanInv'
  BY <1>4, LaterScans DEF RemoteReadsCount, scan, config
<1>5. ASSUME NEW setup, RemoteReadsSpec(setup)  PROVE ScanInv'
  <2>1. stage' \in {stage, "second", "failed"} /\ stage = "reading" /\ UNCHANGED <<i, scan, config>>
    BY <1>5 DEF RemoteReadsSpec
  <2>. QED  BY <2>1, LaterScans DEF scan, config
<1>6. ASSUME RemoteConnected  PROVE ScanInv'
  BY <1>6, LaterScans DEF RemoteConnected, scan, config
<1>7. ASSUME UNCHANGED vars  PROVE ScanInv'
  <2>1. UNCHANGED <<stage, argv, i, stopped, m_command>>
    BY <1>7 DEF vars, scan, config
  <2>. QED  BY <2>1 DEF ScanInv, ScanType, Scans, ScansAgree, Walking, Walk, Walked, After
<1>. QED  BY <1>1, <1>2, <1>3, <1>4, <1>5, <1>6, <1>7, CreateTunnelScans, CreateTunnelEndScans,
             SpecScans, ArgScans, ConfigureEndScans DEF Next

\* CreateTunnel and StdioTunnelLocal::configure see the connection command at the same
\* argument, whatever the command line.
THEOREM ScansAgreeCorrect == Spec => []ScansAgree
<1>1. Init => ScanInv
  BY InitScans
<1>2. ScanInv /\ [Next]_vars => ScanInv'
  BY NextScans
<1>3. ScanInv => ScansAgree
  BY DEF ScanInv, Scans
<1>. QED  BY <1>1, <1>2, <1>3, PTL DEF Spec

-------------------------------------------------------------------------------
(***************************************************************************)
(* Shorts and longs as bytes.                                              *)
(***************************************************************************)
\* Division by the number of bytes and of shorts.
LEMMA Halves ==
  ASSUME NEW u \in Int, 0 <= u, u < 65536
  PROVE  /\ u \div 256 \in Int /\ 0 <= u \div 256 /\ u \div 256 < 256
         /\ u % 256 \in Int /\ 0 <= u % 256 /\ u % 256 < 256
         /\ (u \div 256) * 256 + (u % 256) = u /\ u % 65536 = u
BY SMT

LEMMA Short ==
  ASSUME NEW s \in Int
  PROVE  /\ s % 65536 \in Int /\ 0 <= s % 65536 /\ s % 65536 < 65536
         /\ s % 256 = (s % 65536) % 256
         /\ (s - 65536) % 65536 = s % 65536
BY SMT

LEMMA Long ==
  ASSUME NEW n \in Nat, n <= INT_MAX
  PROVE  /\ n \div 65536 \in Int /\ 0 <= n \div 65536 /\ n \div 65536 < 65536
         /\ (n \div 65536) * 65536 + (n % 65536) = n
BY SMT DEF INT_MAX

\* The bytes of a short.
LEMMA ShortType ==
  ASSUME NEW s \in Int
  PROVE  /\ writeShort(s) \in Seq(Byte) /\ Len(writeShort(s)) = 2
         /\ writeShort(s)[1] \in Byte /\ writeShort(s)[2] \in Byte
         /\ writeShort(s)[1] * 256 + writeShort(s)[2] = s % 65536
<1>. DEFINE u == s % 65536
            a == u \div 256
            b == s % 256
<1>1. u \in Int /\ 0 <= u /\ u < 65536 /\ b = u % 256
  BY Short
<1>. HIDE DEF u, b
<1>2. /\ a \in Int /\ 0 <= a /\ a < 256 /\ b \in Int /\ 0 <= b /\ b < 256
      /\ a * 256 + b = u
  BY <1>1, Halves
<1>. HIDE DEF a
<1>3. a \in Byte /\ b \in Byte
  BY <1>2 DEF Byte
<1>4. writeShort(s) = <<a, b>>
  BY DEF writeShort, a, b, u
<1>5. /\ <<a, b>> \in Seq(Byte) /\ Len(<<a, b>>) = 2 /\ <<a, b>>[1] = a /\ <<a, b>>[2] = b
  BY ONLY <1>3
<1>. QED  BY <1>2, <1>3, <1>4, <1>5 DEF u

LEMMA ShortLen ==
  ASSUME NEW s \in Int
  PROVE  writeShort(s) \in Seq(Byte) /\ Len(writeShort(s)) = 2
BY ShortType

\* readShort finds a number that makes the same port, and the number itself if it is a
\* short.
LEMMA ShortRead ==
  ASSUME NEW s \in Int, NEW q, q[1] = writeShort(s)[1], q[2] = writeShort(s)[2]
  PROVE  /\ readShort(q) \in Int /\ readShort(q) % 65536 = s % 65536
         /\ 0 <= s /\ s < 32768 => readShort(q) = s
         /\ readShort(q) = 0 <=> s % 65536 = 0
<1>. DEFINE u == s % 65536
<1>1. /\ u \in Int /\ 0 <= u /\ u < 65536 /\ u % 65536 = u /\ (u - 65536) % 65536 = u % 65536
      /\ 0 <= s /\ s < 32768 => s = u
  BY Short, Halves
<1>2. q[1] * 256 + q[2] = u
  BY ShortType
<1>. HIDE DEF u
<1>3. readShort(q) = IF u < 32768 THEN u ELSE u - 65536
  BY <1>2 DEF readShort
<1>4. readShort(q) % 65536 = u
  <2>1. CASE u < 32768
    BY <1>1, <1>3, <2>1
  <2>2. CASE ~(u < 32768)
    BY <1>1, <1>3, <2>2
  <2>. QED  BY <2>1, <2>2
<1>. QED  BY <1>1, <1>3, <1>4 DEF u

LEMMA FourBytes ==
  ASSUME NEW a \in Byte, NEW b \in Byte, NEW c \in Byte, NEW d \in Byte
  PROVE  ((a * 256 + b) * 256 + c) * 256 + d = (a * 256 + b) * 65536 + (c * 256 + d)
<1>1. a \in Int /\ b \in Int /\ c \in Int /\ d \in Int
  BY DEF Byte
<1>. QED  BY ONLY <1>1, SMT

\* readLong finds the length that writeLong has written.
LEMMA LongRead ==
  ASSUME NEW n \in Nat, n <= INT_MAX
  PROVE  /\ writeLong(n) \in Seq(Byte) /\ Len(writeLong(n)) = 4
         /\ \A q : (\A j \in 1 .. 4 : q[j] = writeLong(n)[j]) => readLong(q) = n
<1>. DEFINE h == n \div 65536
            u == n % 65536
            a == writeShort(h)
            b == writeShort(n)
<1>1. /\ h \in Int /\ 0 <= h /\ h < 65536 /\ h % 65536 = h
      /\ u \in Int /\ h * 65536 + u = n
  BY Long, Short, Halves
<1>2. writeLong(n) = a \o b
  BY DEF writeLong
<1>. HIDE DEF h
<1>3. /\ a \in Seq(Byte) /\ Len(a) = 2 /\ a[1] \in Byte /\ a[2] \in Byte
      /\ b \in Seq(Byte) /\ Len(b) = 2 /\ b[1] \in Byte /\ b[2] \in Byte
      /\ a[1] * 256 + a[2] = h /\ b[1] * 256 + b[2] = u
  BY <1>1, ShortType
<1>. HIDE DEF a, b, u
<1>4. /\ a \o b \in Seq(Byte) /\ Len(a \o b) = 4
      /\ (a \o b)[1] = a[1] /\ (a \o b)[2] = a[2] /\ (a \o b)[3] = b[1] /\ (a \o b)[4] = b[2]
  <2>. HIDE DEF Byte
  <2>1. /\ a \o b \in Seq(Byte) /\ Len(a \o b) = Len(a) + Len(b)
        /\ \A j \in 1 .. Len(a) + Len(b) :
             (a \o b)[j] = IF j <= Len(a) THEN a[j] ELSE b[j - Len(a)]
    BY ONLY <1>3, ConcatProperties
  <2>. QED  BY ONLY <1>3, <2>1
<1>5. ASSUME NEW q, \A j \in 1 .. 4 : q[j] = writeLong(n)[j]  PROVE readLong(q) = n
  <2>1. q[1] = a[1] /\ q[2] = a[2] /\ q[3] = b[1] /\ q[4] = b[2]
    BY <1>2, <1>4, <1>5
  <2>2. readLong(q) = ((a[1] * 256 + a[2]) * 256 + b[1]) * 256 + b[2]
    BY <2>1 DEF readLong
  <2>3. ((a[1] * 256 + a[2]) * 256 + b[1]) * 256 + b[2] = h * 65536 + u
    BY ONLY <1>3, FourBytes
  <2>. QED  BY ONLY <1>1, <2>2, <2>3
<1>. QED  BY <1>2, <1>4, <1>5

-------------------------------------------------------------------------------
(***************************************************************************)
(* A connection in CMD_CREATE.                                             *)
(***************************************************************************)
\* What parseConnection returns.
Good == {spec \in [type : {LISTEN, CONNECT}, host : Seq(Byte), connect : Nat, listen : Nat,
                   flags : 0 .. 3] :
           /\ Len(spec.host) <= INT_MAX
           /\ isSocks5(spec) => spec.type = CONNECT}

Entry == [id : Nat, spec : Good]

\* The bytes of an entry of m_connection_map.
Piece(e) == writeShort(e.id) \o serialize(e.spec)

\* Behind position x, q goes on with p.
At(q, x, p) == \A j \in 1 .. Len(p) : q[x + j] = p[j]

LEMMA Joined ==
  ASSUME NEW a \in Seq(Byte), NEW b \in Seq(Byte)
  PROVE  /\ a \o b \in Seq(Byte) /\ Len(a \o b) = Len(a) + Len(b)
         /\ Len(a) \in Nat /\ Len(b) \in Nat
         /\ \A j \in 1 .. Len(a) : (a \o b)[j] = a[j]
         /\ \A j \in 1 .. Len(b) : (a \o b)[Len(a) + j] = b[j]
<1>. HIDE DEF Byte
<1>1. /\ a \o b \in Seq(Byte) /\ Len(a \o b) = Len(a) + Len(b)
      /\ \A j \in 1 .. Len(a) + Len(b) :
           (a \o b)[j] = IF j <= Len(a) THEN a[j] ELSE b[j - Len(a)]
  BY ConcatProperties
<1>2. Len(a) \in Nat /\ Len(b) \in Nat
  BY LenProperties
<1>3. ASSUME NEW j \in 1 .. Len(a)  PROVE (a \o b)[j] = a[j]
  <2>1. j \in 1 .. Len(a) + Len(b) /\ j <= Len(a)
    BY ONLY <1>2, j \in 1 .. Len(a)
  <2>. QED  BY <1>1, <2>1
<1>4. ASSUME NEW j \in 1 .. Len(b)  PROVE (a \o b)[Len(a) + j] = b[j]
  <2>1. Len(a) + j \in 1 .. Len(a) + Len(b) /\ ~(Len(a) + j <= Len(a)) /\ (Len(a) + j) - Len(a) = j
    BY ONLY <1>2, j \in 1 .. Len(b)
  <2>. QED  BY <1>1, <2>1
<1>. QED  BY <1>1, <1>2, <1>3, <1>4

\* Two parts of p are found one behind the other.
LEMMA AtBoth ==
  ASSUME NEW q, NEW x \in Nat, NEW a \in Seq(Byte), NEW b \in Seq(Byte), At(q, x, a \o b)
  PROVE  At(q, x, a) /\ At(q, x + Len(a), b)
<1>. DEFINE p == a \o b
<1>1. /\ Len(p) = Len(a) + Len(b) /\ Len(a) \in Nat /\ Len(b) \in Nat
      /\ \A j \in 1 .. Len(a) : p[j] = a[j]
      /\ \A j \in 1 .. Len(b) : p[Len(a) + j] = b[j]
  BY Joined
<1>. HIDE DEF p
<1>2. \A j \in 1 .. Len(p) : q[x + j] = p[j]
  BY DEF At, p
<1>3. ASSUME NEW j \in 1 .. Len(a)  PROVE q[x + j] = a[j]
  <2>1. j \in 1 .. Len(p)
    BY ONLY <1>1, j \in 1 .. Len(a)
  <2>. QED  BY <1>1, <1>2, <2>1
<1>4. ASSUME NEW j \in 1 .. Len(b)  PROVE q[(x + Len(a)) + j] = b[j]
  <2>1. Len(a) + j \in 1 .. Len(p) /\ x + (Len(a) + j) = (x + Len(a)) + j
    BY ONLY x \in Nat, <1>1, j \in 1 .. Len(b)
  <2>. QED  BY <1>1, <1>2, <2>1
<1>. QED  BY <1>3, <1>4 DEF At

\* A part of a sequence, and what is behind its first k bytes.
LEMMA PartOf ==
  ASSUME NEW s \in Seq(Byte), NEW m \in Nat, NEW n \in Nat, m <= n, n <= Len(s)
  PROVE  /\ SubSeq(s, m + 1, n) \in Seq(Byte) /\ Len(SubSeq(s, m + 1, n)) = n - m
         /\ \A j \in 1 .. n - m : SubSeq(s, m + 1, n)[j] = s[m + j]
<1>. HIDE DEF Byte
<1>1. Len(s) \in Nat /\ \A j \in 1 .. Len(s) : s[j] \in Byte
  BY LenProperties, ElementOfSeq
<1>2. \A j \in m + 1 .. n : s[j] \in Byte
  BY <1>1
<1>. DEFINE t == SubSeq(s, m + 1, n)
<1>3. /\ t \in Seq(Byte) /\ Len(t) = IF m + 1 <= n THEN n - (m + 1) + 1 ELSE 0
      /\ \A j \in 1 .. n - (m + 1) + 1 : t[j] = s[(m + 1) + j - 1]
  BY <1>2, SubSeqProperties
<1>. HIDE DEF t
<1>4. Len(t) = n - m
  BY ONLY m \in Nat, n \in Nat, m <= n, <1>3
<1>5. ASSUME NEW j \in 1 .. n - m  PROVE t[j] = s[m + j]
  <2>1. j \in 1 .. n - (m + 1) + 1 /\ (m + 1) + j - 1 = m + j
    BY ONLY m \in Nat, n \in Nat, j \in 1 .. n - m
  <2>. QED  BY <1>3, <2>1
<1>. QED  BY <1>3, <1>4, <1>5 DEF t

LEMMA RestOf ==
  ASSUME NEW q \in Seq(Byte), NEW k \in Nat, k <= Len(q)
  PROVE  /\ Len(q) \in Nat /\ Rest(q, k) \in Seq(Byte) /\ Len(Rest(q, k)) = Len(q) - k
         /\ \A j \in 1 .. Len(q) - k : Rest(q, k)[j] = q[k + j]
<1>1. Len(q) \in Nat
  BY LenProperties
<1>. QED  BY <1>1, PartOf DEF Rest

\* The rest of the rest.
LEMMA RestRest ==
  ASSUME NEW q \in Seq(Byte), NEW k \in Nat, NEW l \in Nat, k + l <= Len(q)
  PROVE  Rest(Rest(q, k), l) = Rest(q, k + l)
<1>1. /\ Len(q) \in Nat /\ Rest(q, k) \in Seq(Byte) /\ Len(Rest(q, k)) = Len(q) - k
      /\ \A j \in 1 .. Len(q) - k : Rest(q, k)[j] = q[k + j]
  <2>1. Len(q) \in Nat
    BY LenProperties
  <2>2. k <= Len(q)
    BY ONLY <2>1, k \in Nat, l \in Nat, k + l <= Len(q)
  <2>. QED  BY <2>2, RestOf
<1>. DEFINE r == Rest(q, k)
            a == Rest(r, l)
            b == Rest(q, k + l)
<1>. HIDE DEF r
<1>2. /\ a \in Seq(Byte) /\ Len(a) = Len(r) - l
      /\ \A j \in 1 .. Len(r) - l : a[j] = r[l + j]
  <2>1. l <= Len(r) /\ r \in Seq(Byte)
    BY <1>1 DEF r
  <2>. QED  BY <2>1, RestOf
<1>3. /\ b \in Seq(Byte) /\ Len(b) = Len(q) - (k + l)
      /\ \A j \in 1 .. Len(q) - (k + l) : b[j] = q[(k + l) + j]
  BY RestOf
<1>. HIDE DEF a, b
<1>4. Len(a) = Len(b) /\ Len(a) \in Nat
  BY <1>1, <1>2, <1>3 DEF r
<1>5. ASSUME NEW j \in 1 .. Len(a)  PROVE a[j] = b[j]
  <2>0. Len(r) = Len(q) - k /\ Len(q) \in Nat /\ \A x \in 1 .. Len(q) - k : r[x] = q[k + x]
    BY <1>1 DEF r
  <2>1. /\ j \in 1 .. Len(r) - l /\ l + j \in 1 .. Len(q) - k /\ k + (l + j) = (k + l) + j
        /\ j \in 1 .. Len(q) - (k + l)
    BY ONLY <1>2, <2>0, k \in Nat, l \in Nat, j \in 1 .. Len(a)
  <2>. QED  BY ONLY <1>2, <1>3, <2>0, <2>1
<1>6. a = b
  BY ONLY <1>2, <1>3, <1>4, <1>5, SeqEqual
<1>. QED  BY <1>6 DEF a, b, r

\* Where the parts of an entry are.
LEMMA Layout ==
  ASSUME NEW e \in Entry
  PROVE  LET spec == e.spec
             l == Len(spec.host)
         IN  /\ e.id \in Int /\ spec.type \in Int /\ spec.connect \in Int /\ spec.listen \in Int
             /\ spec.flags \in Int /\ spec.host \in Seq(Byte) /\ l \in Nat /\ l <= INT_MAX
             /\ Piece(e) \in Seq(Byte) /\ Len(Piece(e)) = 14 + l
             /\ \A q : At(q, 0, Piece(e)) =>
                  /\ At(q, 0, writeShort(e.id)) /\ At(q, 2, writeShort(spec.type))
                  /\ At(q, 4, writeLong(l)) /\ At(q, 8, spec.host)
                  /\ At(q, 8 + l, writeShort(spec.connect))
                  /\ At(q, 10 + l, writeShort(spec.listen))
                  /\ At(q, 12 + l, writeShort(spec.flags))
<1>. DEFINE spec == e.spec
            h == spec.host
            l == Len(h)
            I == writeShort(e.id)
            T == writeShort(spec.type)
            W == writeLong(l)
            S == W \o h
            C == writeShort(spec.connect)
            P == writeShort(spec.listen)
            F == writeShort(spec.flags)
            x1 == T \o S
            x2 == x1 \o C
            x3 == x2 \o P
            x4 == x3 \o F
<1>1. /\ e.id \in Int /\ spec.type \in Int /\ spec.connect \in Int /\ spec.listen \in Int
      /\ spec.flags \in Int /\ h \in Seq(Byte) /\ l <= INT_MAX
  BY DEF Entry, Good, LISTEN, CONNECT
<1>2. l \in Nat
  BY <1>1, LenProperties
<1>3. Piece(e) = I \o x4
  BY DEF Piece, serialize, writeString
<1>4. /\ I \in Seq(Byte) /\ Len(I) = 2 /\ T \in Seq(Byte) /\ Len(T) = 2
      /\ C \in Seq(Byte) /\ Len(C) = 2 /\ P \in Seq(Byte) /\ Len(P) = 2
      /\ F \in Seq(Byte) /\ Len(F) = 2
  <2>. HIDE DEF spec
  <2>. QED  BY ONLY <1>1, ShortLen DEF I, T, C, P, F
<1>5. W \in Seq(Byte) /\ Len(W) = 4
  BY <1>1, <1>2, LongRead
<1>. HIDE DEF I, T, W, C, P, F, h, l
<1>6. S \in Seq(Byte) /\ Len(S) = 4 + l
  <2>1. S \in Seq(Byte) /\ Len(S) = Len(W) + Len(h)
    BY <1>1, <1>5, Joined
  <2>. QED  BY <1>5, <2>1 DEF l
<1>. HIDE DEF S
<1>7. x1 \in Seq(Byte) /\ Len(x1) = 6 + l
  <2>1. x1 \in Seq(Byte) /\ Len(x1) = Len(T) + Len(S)
    BY <1>4, <1>6, Joined
  <2>. QED  BY <1>2, <1>4, <1>6, <2>1
<1>. HIDE DEF x1
<1>8. x2 \in Seq(Byte) /\ Len(x2) = 8 + l
  <2>1. x2 \in Seq(Byte) /\ Len(x2) = Len(x1) + Len(C)
    BY <1>4, <1>7, Joined
  <2>. QED  BY <1>2, <1>4, <1>7, <2>1
<1>. HIDE DEF x2
<1>9. x3 \in Seq(Byte) /\ Len(x3) = 10 + l
  <2>1. x3 \in Seq(Byte) /\ Len(x3) = Len(x2) + Len(P)
    BY <1>4, <1>8, Joined
  <2>. QED  BY <1>2, <1>4, <1>8, <2>1
<1>. HIDE DEF x3
<1>10. x4 \in Seq(Byte) /\ Len(x4) = 12 + l
  <2>1. x4 \in Seq(Byte) /\ Len(x4) = Len(x3) + Len(F)
    BY <1>4, <1>9, Joined
  <2>. QED  BY <1>2, <1>4, <1>9, <2>1
<1>. HIDE DEF x4
<1>11. I \o x4 \in Seq(Byte) /\ Len(I \o x4) = 14 + l
  <2>1. I \o x4 \in Seq(Byte) /\ Len(I \o x4) = Len(I) + Len(x4)
    BY <1>4, <1>10, Joined
  <2>. QED  BY <1>2, <1>4, <1>10, <2>1
<1>12. ASSUME NEW q, At(q, 0, I \o x4)
       PROVE  /\ At(q, 0, I) /\ At(q, 2, T) /\ At(q, 4, W) /\ At(q, 8, h)
              /\ At(q, 8 + l, C) /\ At(q, 10 + l, P) /\ At(q, 12 + l, F)
  <2>1. At(q, 0, I) /\ At(q, 2, x4)
    <3>1. At(q, 0, I) /\ At(q, 0 + Len(I), x4)
      BY <1>4, <1>10, <1>12, AtBoth
    <3>. QED  BY <1>4, <3>1
  <2>2. At(q, 2, x3) /\ At(q, 12 + l, F)
    <3>1. At(q, 2, x3) /\ At(q, 2 + Len(x3), F)
      BY <1>4, <1>9, <2>1, AtBoth DEF x4
    <3>2. 2 + Len(x3) = 12 + l
      BY <1>2, <1>9
    <3>. QED  BY <3>1, <3>2
  <2>3. At(q, 2, x2) /\ At(q, 10 + l, P)
    <3>1. At(q, 2, x2) /\ At(q, 2 + Len(x2), P)
      BY <1>4, <1>8, <2>2, AtBoth DEF x3
    <3>2. 2 + Len(x2) = 10 + l
      BY <1>2, <1>8
    <3>. QED  BY <3>1, <3>2
  <2>4. At(q, 2, x1) /\ At(q, 8 + l, C)
    <3>1. At(q, 2, x1) /\ At(q, 2 + Len(x1), C)
      BY <1>4, <1>7, <2>3, AtBoth DEF x2
    <3>2. 2 + Len(x1) = 8 + l
      BY <1>2, <1>7
    <3>. QED  BY <3>1, <3>2
  <2>5. At(q, 2, T) /\ At(q, 4, S)
    <3>1. At(q, 2, T) /\ At(q, 2 + Len(T), S)
      BY <1>4, <1>6, <2>4, AtBoth DEF x1
    <3>. QED  BY <1>4, <3>1
  <2>6. At(q, 4, W) /\ At(q, 8, h)
    <3>1. At(q, 4, W) /\ At(q, 4 + Len(W), h)
      BY <1>1, <1>5, <2>5, AtBoth DEF S
    <3>. QED  BY <1>5, <3>1
  <2>. QED  BY <2>1, <2>2, <2>3, <2>4, <2>5, <2>6
<1>. QED  BY <1>1, <1>2, <1>3, <1>11, <1>12 DEF I, T, W, C, P, F, h, l

\* A short behind the first k bytes.
LEMMA ReadAt ==
  ASSUME NEW q \in Seq(Byte), NEW k \in Nat, NEW s \in Int, At(q, k, writeShort(s)),
         k + 2 <= Len(q)
  PROVE  /\ readShort(Rest(q, k)) \in Int /\ readShort(Rest(q, k)) % 65536 = s % 65536
         /\ 0 <= s /\ s < 32768 => readShort(Rest(q, k)) = s
         /\ readShort(Rest(q, k)) = 0 <=> s % 65536 = 0
<1>1. Len(q) \in Nat
  BY LenProperties
<1>2. k <= Len(q) /\ 1 \in 1 .. Len(q) - k /\ 2 \in 1 .. Len(q) - k
  BY ONLY <1>1, k \in Nat, k + 2 <= Len(q)
<1>3. Rest(q, k)[1] = q[k + 1] /\ Rest(q, k)[2] = q[k + 2]
  BY <1>2, RestOf
<1>4. Len(writeShort(s)) = 2
  BY ShortLen
<1>5. q[k + 1] = writeShort(s)[1] /\ q[k + 2] = writeShort(s)[2]
  BY <1>4 DEF At
<1>. QED  BY <1>3, <1>5, ShortRead

\* A spec as deserialize makes it.
Shorts == [type : Int, host : Seq(Byte), connect : Int, listen : Int, flags : Int]

\* The remote process finds an entry as it was written, the ports modulo 2^16.
LEMMA Decode ==
  ASSUME NEW q \in Seq(Byte), NEW e \in Entry, At(q, 0, Piece(e)), Len(Piece(e)) <= Len(q)
  PROVE  LET l == readLong(Rest(q, 4))
             spec == deserialize(Rest(q, 2), l)
         IN  /\ 14 + l = Len(Piece(e)) /\ spec \in Shorts
             /\ readShort(q) \in Int /\ (e.id < 32768 => readShort(q) = e.id)
             /\ spec.type = e.spec.type /\ spec.flags = e.spec.flags
             /\ spec.host = e.spec.host
             /\ spec.listen % 65536 = e.spec.listen % 65536
             /\ spec.connect % 65536 = e.spec.connect % 65536
             /\ spec.connect = 0 <=> e.spec.connect % 65536 = 0
<1>. DEFINE m == e.spec
            l == Len(m.host)
            r == Rest(q, 2)
<1>1. /\ e.id \in Int /\ m.type \in Int /\ m.connect \in Int /\ m.listen \in Int
      /\ m.flags \in Int /\ m.host \in Seq(Byte) /\ l \in Nat /\ l <= INT_MAX
      /\ Len(Piece(e)) = 14 + l
      /\ At(q, 0, writeShort(e.id)) /\ At(q, 2, writeShort(m.type))
      /\ At(q, 4, writeLong(l)) /\ At(q, 8, m.host)
      /\ At(q, 8 + l, writeShort(m.connect))
      /\ At(q, 10 + l, writeShort(m.listen))
      /\ At(q, 12 + l, writeShort(m.flags))
  BY Layout
<1>2. /\ m.type \in 0 .. 1 /\ m.flags \in 0 .. 3 /\ e.id \in Nat
  BY DEF Entry, Good, LISTEN, CONNECT
<1>. HIDE DEF m, l
<1>3. Len(q) \in Nat /\ 14 + l <= Len(q) /\ l \in Nat
  BY <1>1, LenProperties
<1>4. readLong(Rest(q, 4)) = l
  <2>1. 4 \in Nat /\ 4 <= Len(q) /\ \A j \in 1 .. 4 : j \in 1 .. Len(q) - 4
    BY ONLY <1>3
  <2>2. \A j \in 1 .. Len(q) - 4 : Rest(q, 4)[j] = q[4 + j]
    BY <2>1, RestOf
  <2>3. \A j \in 1 .. 4 : q[4 + j] = writeLong(l)[j]
    BY <1>1, LongRead DEF At
  <2>4. \A j \in 1 .. 4 : Rest(q, 4)[j] = writeLong(l)[j]
    BY ONLY <2>1, <2>2, <2>3
  <2>. QED  BY <1>1, <2>4, LongRead
<1>5. readShort(q) \in Int /\ (e.id < 32768 => readShort(q) = e.id)
  <2>1. Len(writeShort(e.id)) = 2
    BY ONLY <1>1, ShortLen
  <2>2. q[1] = writeShort(e.id)[1] /\ q[2] = writeShort(e.id)[2]
    <3>1. \A j \in 1 .. 2 : q[0 + j] = writeShort(e.id)[j]
      BY <1>1, <2>1 DEF At
    <3>. QED  BY ONLY <3>1
  <2>3. readShort(q) \in Int /\ (0 <= e.id /\ e.id < 32768 => readShort(q) = e.id)
    <3>. DEFINE s == e.id
    <3>1. s \in Int /\ q[1] = writeShort(s)[1] /\ q[2] = writeShort(s)[2]
      BY ONLY <1>1, <2>2
    <3>. HIDE DEF s
    <3>2. readShort(q) \in Int /\ (0 <= s /\ s < 32768 => readShort(q) = s)
      BY ONLY <3>1, ShortRead
    <3>. QED  BY ONLY <3>2 DEF s
  <2>. QED  BY ONLY <1>2, <2>3
<1>6. /\ Rest(r, 6 + l) = Rest(q, 8 + l) /\ Rest(r, 8 + l) = Rest(q, 10 + l)
      /\ Rest(r, 10 + l) = Rest(q, 12 + l)
  <2>1. /\ 6 + l \in Nat /\ 8 + l \in Nat /\ 10 + l \in Nat
        /\ 2 + (6 + l) = 8 + l /\ 2 + (8 + l) = 10 + l /\ 2 + (10 + l) = 12 + l
        /\ 8 + l <= Len(q) /\ 10 + l <= Len(q) /\ 12 + l <= Len(q)
    BY ONLY <1>3
  <2>2. \A k \in Nat : 2 + k <= Len(q) => Rest(r, k) = Rest(q, 2 + k)
    BY RestRest
  <2>. HIDE DEF r
  <2>. QED  BY ONLY <2>1, <2>2
<1>7. /\ readShort(r) \in Int /\ readShort(r) = m.type
  <2>1. 2 + 2 <= Len(q) /\ 0 <= m.type /\ m.type < 32768
    BY ONLY <1>2, <1>3
  <2>. DEFINE k == 2
              s == m.type
  <2>2. k \in Nat /\ k + 2 <= Len(q) /\ s \in Int /\ At(q, k, writeShort(s))
    BY ONLY <1>1, <2>1
  <2>. HIDE DEF k, s
  <2>3. /\ readShort(Rest(q, k)) \in Int
        /\ 0 <= s /\ s < 32768 => readShort(Rest(q, k)) = s
    BY ONLY q \in Seq(Byte), <2>2, ReadAt
  <2>. QED  BY ONLY <2>1, <2>3 DEF k, s, r
<1>8. /\ readShort(Rest(q, 8 + l)) \in Int
      /\ readShort(Rest(q, 8 + l)) % 65536 = m.connect % 65536
      /\ readShort(Rest(q, 8 + l)) = 0 <=> m.connect % 65536 = 0
  <2>. DEFINE k == 8 + l
              s == m.connect
  <2>1. k \in Nat /\ k + 2 <= Len(q)
    BY ONLY <1>3
  <2>2. s \in Int /\ At(q, k, writeShort(s))
    BY <1>1
  <2>. HIDE DEF k, s
  <2>3. /\ readShort(Rest(q, k)) \in Int
        /\ readShort(Rest(q, k)) % 65536 = s % 65536
        /\ readShort(Rest(q, k)) = 0 <=> s % 65536 = 0
    BY ONLY q \in Seq(Byte), <2>1, <2>2, ReadAt
  <2>. QED  BY ONLY <2>3 DEF k, s
<1>9. /\ readShort(Rest(q, 10 + l)) \in Int
      /\ readShort(Rest(q, 10 + l)) % 65536 = m.listen % 65536
  <2>1. 10 + l \in Nat /\ (10 + l) + 2 <= Len(q)
    BY ONLY <1>3
  <2>. DEFINE k == 10 + l
              s == m.listen
  <2>2. k \in Nat /\ k + 2 <= Len(q) /\ s \in Int /\ At(q, k, writeShort(s))
    BY ONLY <1>1, <2>1
  <2>. HIDE DEF k, s
  <2>3. readShort(Rest(q, k)) \in Int /\ readShort(Rest(q, k)) % 65536 = s % 65536
    BY ONLY q \in Seq(Byte), <2>2, ReadAt
  <2>. QED  BY ONLY <2>3 DEF k, s
<1>10. readShort(Rest(q, 12 + l)) \in Int /\ readShort(Rest(q, 12 + l)) = m.flags
  <2>1. 12 + l \in Nat /\ (12 + l) + 2 <= Len(q) /\ 0 <= m.flags /\ m.flags < 32768
    BY ONLY <1>2, <1>3
  <2>. DEFINE k == 12 + l
              s == m.flags
  <2>2. k \in Nat /\ k + 2 <= Len(q) /\ s \in Int /\ At(q, k, writeShort(s))
    BY ONLY <1>1, <2>1
  <2>. HIDE DEF k, s
  <2>3. /\ readShort(Rest(q, k)) \in Int
        /\ 0 <= s /\ s < 32768 => readShort(Rest(q, k)) = s
    BY ONLY q \in Seq(Byte), <2>2, ReadAt
  <2>. QED  BY ONLY <2>1, <2>3 DEF k, s
<1>11. SubSeq(r, 7, 6 + l) = m.host
  <2>1. /\ r \in Seq(Byte) /\ Len(r) = Len(q) - 2
        /\ \A j \in 1 .. Len(q) - 2 : r[j] = q[2 + j]
    <3>1. 2 \in Nat /\ 2 <= Len(q)
      BY <1>1, <1>3
    <3>. QED  BY <3>1, RestOf
  <2>. HIDE DEF r
  <2>. DEFINE t == SubSeq(r, 7, 6 + l)
  <2>2. t \in Seq(Byte) /\ Len(t) = l /\ \A j \in 1 .. l : t[j] = r[6 + j]
    <3>1. 6 \in Nat /\ 6 + l \in Nat /\ 6 <= 6 + l /\ 6 + l <= Len(r) /\ (6 + l) - 6 = l /\ 6 + 1 = 7
      BY ONLY <1>1, <1>3, <2>1
    <3>2. /\ SubSeq(r, 6 + 1, 6 + l) \in Seq(Byte) /\ Len(SubSeq(r, 6 + 1, 6 + l)) = (6 + l) - 6
          /\ \A j \in 1 .. (6 + l) - 6 : SubSeq(r, 6 + 1, 6 + l)[j] = r[6 + j]
      BY <2>1, <3>1, PartOf
    <3>. QED  BY ONLY <3>1, <3>2 DEF t
  <2>. HIDE DEF t
  <2>3. ASSUME NEW j \in 1 .. Len(t)  PROVE t[j] = m.host[j]
    <3>1. j \in 1 .. l /\ 6 + j \in 1 .. Len(q) - 2 /\ 2 + (6 + j) = 8 + j
      BY ONLY <1>1, <1>3, <2>2, j \in 1 .. Len(t)
    <3>2. q[8 + j] = m.host[j]
      BY <1>1, <3>1 DEF At, l
    <3>. QED  BY ONLY <2>1, <2>2, <3>1, <3>2
  <2>4. Len(t) = Len(m.host)
    BY <2>2 DEF l
  <2>5. t = m.host
    BY ONLY <1>1, <2>2, <2>3, <2>4, SeqEqual
  <2>. QED  BY <2>5 DEF t
<1>12. deserialize(r, l) = [type |-> m.type, host |-> m.host,
                            connect |-> readShort(Rest(q, 8 + l)),
                            listen |-> readShort(Rest(q, 10 + l)), flags |-> m.flags]
  <2>. HIDE DEF r
  <2>. QED  BY <1>6, <1>7, <1>10, <1>11 DEF deserialize
<1>. DEFINE c == readShort(Rest(q, 8 + l))
            p == readShort(Rest(q, 10 + l))
            d == deserialize(r, l)
<1>. HIDE DEF c, p, d, r
<1>13. d = [type |-> m.type, host |-> m.host, connect |-> c, listen |-> p, flags |-> m.flags]
  BY <1>12 DEF c, p, d
<1>14. /\ d.type = m.type /\ d.host = m.host /\ d.connect = c /\ d.listen = p /\ d.flags = m.flags
  BY ONLY <1>13
<1>15. c \in Int /\ p \in Int
  BY <1>8, <1>9 DEF c, p
<1>16. d \in Shorts
  BY ONLY <1>1, <1>13, <1>15 DEF Shorts
<1>17. /\ c % 65536 = m.connect % 65536 /\ (c = 0 <=> m.connect % 65536 = 0)
       /\ p % 65536 = m.listen % 65536
  BY <1>8, <1>9 DEF c, p
<1>18. 14 + l = Len(Piece(e))
  BY <1>1
<1>19. readLong(Rest(q, 4)) = l /\ deserialize(Rest(q, 2), l) = d
  BY <1>4 DEF d, r
<1>. QED  BY ONLY <1>5, <1>14, <1>16, <1>17, <1>18, <1>19 DEF m

-------------------------------------------------------------------------------
(***************************************************************************)
(* All connections in CMD_CREATE.                                          *)
(***************************************************************************)
\* q holds the command, the count and the first w entries of map, each of them between
\* cut[n - 1] and cut[n].
Framed(cut, q, map, w) ==
  /\ q \in Seq(Byte) /\ cut \in [Nat -> Nat]
  /\ cut[0] = 4 /\ cut[w] = Len(q)
  /\ At(q, 0, writeShort(CMD_CREATE)) /\ At(q, 2, writeShort(Len(map)))
  /\ \A n \in 0 .. w : cut[n] <= Len(q)
  /\ \A n \in 0 .. w - 1 : /\ cut[n + 1] = cut[n] + Len(Piece(map[n + 1]))
                            /\ At(q, cut[n], Piece(map[n + 1]))

\* The command and the count.
LEMMA FrameBegin ==
  ASSUME NEW map, Len(map) \in Nat
  PROVE  \E cut : Framed(cut, writeShort(CMD_CREATE) \o writeShort(Len(map)), map, 0)
<1>. DEFINE a == writeShort(CMD_CREATE)
            b == writeShort(Len(map))
            q == a \o b
<1>1. /\ a \in Seq(Byte) /\ Len(a) = 2 /\ b \in Seq(Byte) /\ Len(b) = 2
  <2>1. CMD_CREATE \in Int /\ Len(map) \in Int
    BY DEF CMD_CREATE
  <2>. QED  BY ONLY <2>1, ShortLen
<1>. HIDE DEF a, b
<1>2. /\ q \in Seq(Byte) /\ Len(q) = 2 + 2
      /\ \A j \in 1 .. 2 : q[j] = a[j]
      /\ \A j \in 1 .. 2 : q[2 + j] = b[j]
  <2>1. /\ q \in Seq(Byte) /\ Len(q) = Len(a) + Len(b)
        /\ \A j \in 1 .. Len(a) : q[j] = a[j]
        /\ \A j \in 1 .. Len(b) : q[Len(a) + j] = b[j]
    BY ONLY <1>1, Joined
  <2>. QED  BY ONLY <1>1, <2>1
<1>. HIDE DEF q
<1>3. At(q, 0, a) /\ At(q, 2, b)
  BY <1>1, <1>2 DEF At
<1>. DEFINE cut == [n \in Nat |-> 4]
<1>4. /\ cut \in [Nat -> Nat] /\ cut[0] = 4 /\ Len(q) = 4 /\ \A n \in 0 .. 0 : cut[n] <= Len(q)
  BY ONLY <1>2
<1>. HIDE DEF cut
<1>5. \A n \in 0 .. 0 - 1 : FALSE
  BY ONLY TRUE
<1>6. Framed(cut, q, map, 0)
  BY ONLY <1>2, <1>3, <1>4, <1>5 DEF Framed, a, b
<1>. QED  BY <1>6 DEF q, a, b

\* Another entry is written.
LEMMA FrameGrows ==
  ASSUME NEW map \in Seq(Entry), NEW w \in Nat, w + 1 <= Len(map), NEW cut, NEW q,
         Framed(cut, q, map, w)
  PROVE  \E new : Framed(new, q \o Piece(map[w + 1]), map, w + 1)
<1>. DEFINE p == Piece(map[w + 1])
            u == q \o p
<1>1. map[w + 1] \in Entry
  <2>1. Len(map) \in Nat
    BY LenProperties
  <2>2. w + 1 \in 1 .. Len(map)
    BY ONLY <2>1, w \in Nat, w + 1 <= Len(map)
  <2>. QED  BY <2>2, ElementOfSeq
<1>2. p \in Seq(Byte)
  BY <1>1, Layout
<1>3. q \in Seq(Byte) /\ cut \in [Nat -> Nat] /\ cut[0] = 4 /\ cut[w] = Len(q)
  BY DEF Framed
<1>. HIDE DEF p
<1>4. /\ u \in Seq(Byte) /\ Len(u) = Len(q) + Len(p) /\ Len(q) \in Nat /\ Len(p) \in Nat
      /\ \A j \in 1 .. Len(q) : u[j] = q[j]
      /\ \A j \in 1 .. Len(p) : u[Len(q) + j] = p[j]
  BY <1>2, <1>3, Joined
<1>. HIDE DEF u
<1>. DEFINE new == [cut EXCEPT ![w + 1] = Len(u)]
<1>5. /\ new \in [Nat -> Nat] /\ new[w + 1] = Len(u) /\ new[0] = 4
      /\ \A n \in 0 .. w : new[n] = cut[n]
  <2>1. w + 1 \in Nat /\ 0 \in Nat /\ w + 1 # 0 /\ \A n \in 0 .. w : n \in Nat /\ n # w + 1
    BY ONLY w \in Nat
  <2>2. Len(u) \in Nat
    BY ONLY <1>4
  <2>. QED  BY ONLY <1>3, <2>1, <2>2 DEF new
<1>. HIDE DEF new
<1>6. ASSUME NEW x \in Nat, NEW s \in Seq(Byte), At(q, x, s), x + Len(s) <= Len(q)
      PROVE  At(u, x, s)
  <2>1. ASSUME NEW j \in 1 .. Len(s)  PROVE u[x + j] = s[j]
    <3>1. Len(s) \in Nat
      BY LenProperties
    <3>2. x + j \in 1 .. Len(q)
      BY ONLY <1>4, <3>1, x \in Nat, j \in 1 .. Len(s), x + Len(s) <= Len(q)
    <3>3. u[x + j] = q[x + j]
      BY <1>4, <3>2
    <3>. QED  BY <1>6, <3>3 DEF At
  <2>. QED  BY <2>1 DEF At
<1>7. /\ At(u, 0, writeShort(CMD_CREATE)) /\ At(u, 2, writeShort(Len(map)))
  <2>1. CMD_CREATE \in Int /\ Len(map) \in Int
    BY LenProperties DEF CMD_CREATE
  <2>2. /\ writeShort(CMD_CREATE) \in Seq(Byte) /\ Len(writeShort(CMD_CREATE)) = 2
        /\ writeShort(Len(map)) \in Seq(Byte) /\ Len(writeShort(Len(map))) = 2
    BY ONLY <2>1, ShortLen
  <2>3. 4 <= Len(q)
    BY <1>3 DEF Framed
  <2>4. 0 + 2 <= Len(q) /\ 2 + 2 <= Len(q)
    BY ONLY <1>4, <2>3
  <2>5. At(q, 0, writeShort(CMD_CREATE)) /\ At(q, 2, writeShort(Len(map)))
    BY DEF Framed
  <2>. QED  BY <1>6, <2>2, <2>4, <2>5
<1>8. ASSUME NEW n \in 0 .. w + 1  PROVE new[n] <= Len(u)
  <2>1. CASE n = w + 1
    BY <1>4, <1>5, <2>1
  <2>2. CASE n # w + 1
    <3>1. n \in 0 .. w /\ n \in Nat
      BY ONLY w \in Nat, n \in 0 .. w + 1, <2>2
    <3>2. new[n] = cut[n] /\ cut[n] <= Len(q) /\ cut[n] \in Nat
      BY <1>3, <1>5, <3>1 DEF Framed
    <3>. QED  BY <1>4, <3>2
  <2>. QED  BY <2>1, <2>2
<1>9. ASSUME NEW n \in 0 .. (w + 1) - 1
      PROVE  /\ new[n + 1] = new[n] + Len(Piece(map[n + 1]))
             /\ At(u, new[n], Piece(map[n + 1]))
  <2>1. CASE n = w
    <3>1. /\ new[n + 1] = Len(u) /\ new[n] = Len(q) /\ Piece(map[n + 1]) = p
      BY <1>3, <1>5, <2>1 DEF p
    <3>2. At(u, Len(q), p)
      BY <1>4 DEF At
    <3>. QED  BY <1>4, <3>1, <3>2
  <2>2. CASE n # w
    <3>1. n \in 0 .. w - 1 /\ n \in 0 .. w /\ n + 1 \in 0 .. w /\ n + 1 \in 1 .. w /\ n \in Nat
      BY ONLY w \in Nat, n \in 0 .. (w + 1) - 1, <2>2
    <3>. DEFINE s == Piece(map[n + 1])
    <3>2. s \in Seq(Byte)
      <4>1. n + 1 \in 1 .. Len(map)
        <5>1. Len(map) \in Nat
          BY LenProperties
        <5>. QED  BY ONLY <3>1, <5>1, w \in Nat, w + 1 <= Len(map)
      <4>. QED  BY <4>1, ElementOfSeq, Layout
    <3>. HIDE DEF s
    <3>3. /\ cut[n + 1] = cut[n] + Len(s) /\ At(q, cut[n], s) /\ cut[n + 1] <= Len(q)
          /\ new[n] = cut[n] /\ new[n + 1] = cut[n + 1] /\ cut[n] \in Nat
      BY <1>3, <1>5, <3>1 DEF Framed, s
    <3>4. At(u, cut[n], s)
      BY <1>6, <3>2, <3>3
    <3>. QED  BY <3>3, <3>4 DEF s
  <2>. QED  BY <2>1, <2>2
<1>10. Framed(new, u, map, w + 1)
  BY <1>4, <1>5, <1>7, <1>8, <1>9 DEF Framed
<1>. QED  BY <1>10 DEF u, p

\* What the remote process has before it when it has read r entries.
LEMMA FrameFront ==
  ASSUME NEW map \in Seq(Entry), NEW cut, NEW W, Framed(cut, W, map, Len(map)),
         NEW r \in Nat, r + 1 <= Len(map)
  PROVE  LET q == Rest(W, cut[r])
             e == map[r + 1]
         IN  /\ e \in Entry /\ q \in Seq(Byte) /\ At(q, 0, Piece(e))
             /\ Len(Piece(e)) <= Len(q)
             /\ Rest(q, Len(Piece(e))) = Rest(W, cut[r + 1])
<1>. DEFINE e == map[r + 1]
            q == Rest(W, cut[r])
            p == Piece(e)
<1>1. Len(map) \in Nat
  BY LenProperties
<1>2. r + 1 \in 1 .. Len(map) /\ r \in 0 .. Len(map) - 1 /\ r + 1 \in 0 .. Len(map) /\ r + 1 \in Nat
  BY ONLY <1>1, r \in Nat, r + 1 <= Len(map)
<1>3. e \in Entry
  BY <1>2, ElementOfSeq
<1>4. p \in Seq(Byte) /\ Len(p) \in Nat
  BY <1>3, Layout, LenProperties
<1>. HIDE DEF p
<1>5. /\ W \in Seq(Byte) /\ cut[r] \in Nat /\ cut[r + 1] = cut[r] + Len(p) /\ cut[r + 1] <= Len(W)
      /\ At(W, cut[r], p)
  BY <1>2 DEF Framed, p
<1>6. Len(W) \in Nat /\ cut[r] <= Len(W) /\ cut[r] + Len(p) <= Len(W)
  BY <1>4, <1>5, LenProperties
<1>7. /\ q \in Seq(Byte) /\ Len(q) = Len(W) - cut[r]
      /\ \A j \in 1 .. Len(W) - cut[r] : q[j] = W[cut[r] + j]
  BY <1>5, <1>6, RestOf
<1>8. Rest(q, Len(p)) = Rest(W, cut[r + 1])
  BY <1>4, <1>5, <1>6, RestRest
<1>. HIDE DEF q
<1>9. ASSUME NEW j \in 1 .. Len(p)  PROVE q[0 + j] = p[j]
  <2>1. j \in 1 .. Len(W) - cut[r] /\ 0 + j = j
    BY ONLY <1>4, <1>5, <1>6, j \in 1 .. Len(p)
  <2>. QED  BY <1>5, <1>7, <2>1 DEF At
<1>10. Len(p) <= Len(q)
  BY ONLY <1>4, <1>5, <1>6, <1>7
<1>. QED  BY <1>3, <1>7, <1>8, <1>9, <1>10 DEF At, p, q

-------------------------------------------------------------------------------
(***************************************************************************)
(* The invariant: what configure has collected, which of it is in          *)
(* m_connection_map, what CMD_CREATE holds of that and what the remote     *)
(* process has made of it.                                                 *)
(***************************************************************************)
Sent == {"start", "HAND_SHAKE", "writing", "reading", "second", "CONNECTED"}

\* socks5_spec_count tells whether there is a socks spec, and whether there are two.
SpecsInv ==
  /\ \A x \in 1 .. Len(argv) : argv[x] \in Args
  /\ m_connection_specs \in Seq(Good) /\ socks5_spec_count \in Nat
  /\ socks5_spec_count = 0 =>
       \A k \in 1 .. Len(m_connection_specs) : ~isSocks5(m_connection_specs[k])
  /\ socks5_spec_count <= 1 =>
       \A j, k \in 1 .. Len(m_connection_specs) :
          isSocks5(m_connection_specs[j]) /\ isSocks5(m_connection_specs[k]) => j = k
  /\ stage \in Sent => socks5_spec_count <= 1

\* The map holds some of the specs, in their order, under their ids.
MapInv ==
  /\ m_connection_map \in Seq(Entry) /\ Len(m_connection_map) <= Len(m_connection_specs)
  /\ \A n \in 1 .. Len(m_connection_map) :
       /\ m_connection_map[n].id < Len(m_connection_specs)
       /\ m_connection_map[n].spec = m_connection_specs[m_connection_map[n].id + 1]
  /\ \A m, n \in 1 .. Len(m_connection_map) :
       m < n => m_connection_map[m].id < m_connection_map[n].id
  /\ stage \in {"CreateTunnel", "configure"} => m_connection_map = <<>>
  /\ stage = "start" =>
       /\ i <= Len(m_connection_specs) + 1 /\ Len(m_connection_map) <= i - 1
       /\ \A n \in 1 .. Len(m_connection_map) : m_connection_map[n].id < i - 1
  /\ stage = "HAND_SHAKE" => i = 1

\* The queue holds the entries that are written, later those that are not yet read.
WireInv ==
  /\ stage = "writing" =>
       i <= Len(m_connection_map) + 1 /\ \E cut : Framed(cut, m_queue, m_connection_map, i - 1)
  /\ stage \in {"reading", "CONNECTED"} /\ CountFits =>
       /\ todo = Len(m_connection_map) - Len(created)
       /\ \E cut, W : /\ Framed(cut, W, m_connection_map, Len(m_connection_map))
                      /\ m_queue = Rest(W, cut[Len(created)])
  /\ stage = "CONNECTED" => todo <= 0

\* The remote process takes the spec for that of a socks server.
RemoteSocks(spec) == isSocks5([spec EXCEPT !.connect = htons(@)])

Unread == {"CreateTunnel", "configure", "start", "HAND_SHAKE", "writing"}

Arrived ==
  /\ created \in Seq([id : Int, spec : Shorts]) /\ Len(created) <= Len(m_connection_map)
  /\ \A n \in 1 .. Len(created) :
       /\ created[n].id = m_connection_map[n].id
       /\ SameSpec(m_connection_map[n].spec, created[n].spec)
  /\ m_socks5_server <=> \E n \in 1 .. Len(created) : RemoteSocks(m_connection_map[n].spec)
  /\ stage = "second" =>
       \E m, n \in 1 .. Len(m_connection_map) :
          /\ m < n
          /\ RemoteSocks(m_connection_map[m].spec) /\ RemoteSocks(m_connection_map[n].spec)

\* What is created are the first entries of the map, and a socks server is one of them.
ArriveInv ==
  /\ m_socks5_server \in BOOLEAN
  /\ stage \in Unread => created = <<>> /\ m_socks5_server = FALSE
  /\ CountFits => Arrived

CreateInv == ScanInv /\ SpecsInv /\ MapInv /\ WireInv /\ ArriveInv

-------------------------------------------------------------------------------
\* Nothing is collected at first.
LEMMA InitCreate == Init => CreateInv
<1>. SUFFICES ASSUME Init  PROVE CreateInv
  OBVIOUS
<1>1. ScanInv
  BY InitScans
<1>2. /\ stage = "CreateTunnel" /\ m_connection_specs = <<>> /\ socks5_spec_count = 0
      /\ m_connection_map = <<>> /\ created = <<>> /\ m_socks5_server = FALSE
  BY DEF Init
<1>3. \A x \in 1 .. Len(argv) : argv[x] \in Args
  <2>1. PICK n \in 0 .. MaxArgs : argv \in [1 .. n -> Args]
    BY DEF Init
  <2>2. n \in Nat
    <3>1. MaxArgs \in Nat
      BY BoundsAssumption
    <3>. QED  BY ONLY <3>1, n \in 0 .. MaxArgs
  <2>3. Len(argv) = n
    BY ONLY <2>1, <2>2
  <2>. QED  BY ONLY <2>1, <2>3
<1>4. Len(<<>>) = 0 /\ \A x \in 1 .. 0 : FALSE
  OBVIOUS
<1>5. SpecsInv
  <2>1. <<>> \in Seq(Good)
    OBVIOUS
  <2>. QED  BY ONLY <1>2, <1>3, <1>4, <2>1 DEF SpecsInv, Sent
<1>6. MapInv
  <2>1. <<>> \in Seq(Entry)
    OBVIOUS
  <2>. QED  BY ONLY <1>2, <1>4, <2>1 DEF MapInv
<1>7. WireInv
  BY ONLY <1>2 DEF WireInv
<1>8. ArriveInv
  <2>1. <<>> \in Seq([id : Int, spec : Shorts])
    OBVIOUS
  <2>2. Len(created) <= Len(m_connection_map) /\ \A n \in 1 .. Len(created) : FALSE
    BY ONLY <1>2, <1>4
  <2>3. Arrived
    BY ONLY <1>2, <2>1, <2>2, Zenon DEF Arrived
  <2>. QED  BY ONLY <1>2, <2>3, Zenon DEF ArriveInv
<1>. QED  BY <1>1, <1>5, <1>6, <1>7, <1>8 DEF CreateInv

\* What parseConnection makes of the value of an option.
LEMMA ParsedGood ==
  ASSUME ScanType, SpecsInv, i <= Len(argv), NEW type \in {LISTEN, CONNECT}, Parses(type, Value)
  PROVE  /\ parseConnection(type, Value) \in Good
         /\ isSocks5(parseConnection(type, Value)) <=> isSocks5(Value)
<1>. DEFINE v == Value
            T == [fields : Nat, listen : Int, host : Seq(Byte), connect : Int,
                  flags : SUBSET {"a", "p"}]
<1>1. i \in 1 .. Len(argv) /\ (i # Len(argv) => i + 1 \in 1 .. Len(argv))
  BY DEF ScanType
<1>2. Arg \in Args /\ (~long_arg => argv[i + 1] \in Args)
  BY <1>1 DEF SpecsInv, Arg, long_arg
<1>3. v = NoValue \/ (\E a \in Args : v = a.value)
  BY <1>2 DEF Value
<1>4. v.fields \in {3, 4} /\ v.listen > 0 /\ v.connect >= 0 /\ (isSocks5(v) => type = CONNECT)
  BY DEF Parses
<1>5. v # NoValue
  <2>1. NoValue.fields \notin {3, 4}
    BY DEF NoValue
  <2>. QED  BY <1>4, <2>1
<1>6. v \in T /\ Len(v.host) <= INT_MAX
  <2>1. PICK a \in Args : v = a.value
    BY <1>3, <1>5
  <2>. HIDE DEF v
  <2>2. a.value = NoValue \/ (a.value \in T /\ Len(a.value.host) <= INT_MAX)
    BY ArgsAssumption
  <2>. QED  BY ONLY <1>5, <2>1, <2>2
<1>. HIDE DEF v
<1>7. v.host \in Seq(Byte) /\ v.connect \in Nat /\ v.listen \in Nat
  BY ONLY <1>4, <1>6
<1>8. Flags(v) \in 0 .. 3
  BY DEF Flags, ACK_PACKETS, PROMISCUOUS
<1>. DEFINE d == parseConnection(type, v)
<1>9. d = [type |-> type, host |-> v.host, connect |-> v.connect, listen |-> v.listen,
           flags |-> Flags(v)]
  BY DEF parseConnection
<1>. HIDE DEF d
<1>10. d \in [type : {LISTEN, CONNECT}, host : Seq(Byte), connect : Nat, listen : Nat, flags : 0 .. 3]
  BY ONLY type \in {LISTEN, CONNECT}, <1>7, <1>8, <1>9
<1>11. d.host = v.host /\ d.connect = v.connect /\ d.type = type
  BY ONLY <1>9
<1>12. isSocks5(d) <=> isSocks5(v)
  BY ONLY <1>11 DEF isSocks5
<1>13. d \in Good
  BY ONLY <1>4, <1>6, <1>10, <1>11, <1>12 DEF Good
<1>. QED  BY <1>12, <1>13 DEF d, v

\* Another spec is collected and counted.
LEMMA Counted ==
  ASSUME SpecsInv, NEW d \in Good, m_connection_specs' = Append(m_connection_specs, d),
         socks5_spec_count' = socks5_spec_count + (IF isSocks5(d) THEN 1 ELSE 0),
         argv' = argv, stage' \notin Sent
  PROVE  SpecsInv'
<1>. DEFINE s == m_connection_specs
            t == Append(s, d)
            c == socks5_spec_count
<1>1. /\ s \in Seq(Good) /\ c \in Nat
      /\ c = 0 => \A k \in 1 .. Len(s) : ~isSocks5(s[k])
      /\ c <= 1 => \A j, k \in 1 .. Len(s) : isSocks5(s[j]) /\ isSocks5(s[k]) => j = k
  BY DEF SpecsInv
<1>. HIDE DEF s
<1>2. /\ t \in Seq(Good) /\ Len(t) = Len(s) + 1 /\ Len(s) \in Nat /\ t[Len(s) + 1] = d
      /\ \A k \in 1 .. Len(s) : t[k] = s[k]
  <2>1. Len(s) \in Nat
    BY <1>1, LenProperties
  <2>. QED  BY ONLY <1>1, <2>1, d \in Good, AppendProperties
<1>. HIDE DEF t
<1>3. \A k \in 1 .. Len(t) : k \in 1 .. Len(s) \/ k = Len(s) + 1
  BY ONLY <1>2
<1>. DEFINE n == c + (IF isSocks5(d) THEN 1 ELSE 0)
<1>4. n \in Nat /\ (n <= 1 => c <= 1) /\ (n = 0 => c = 0 /\ ~isSocks5(d))
      /\ (n <= 1 /\ isSocks5(d) => c = 0)
  BY <1>1
<1>. HIDE DEF n, c
<1>5. n = 0 => \A k \in 1 .. Len(t) : ~isSocks5(t[k])
  BY ONLY <1>1, <1>2, <1>3, <1>4
<1>6. ASSUME n <= 1, NEW j \in 1 .. Len(t), NEW k \in 1 .. Len(t), isSocks5(t[j]), isSocks5(t[k])
      PROVE  j = k
  <2>1. CASE isSocks5(d)
    <3>1. \A x \in 1 .. Len(s) : ~isSocks5(t[x])
      BY ONLY <1>1, <1>2, <1>4, <1>6, <2>1
    <3>. QED  BY ONLY <1>3, <1>6, <3>1
  <2>2. CASE ~isSocks5(d)
    <3>1. j \in 1 .. Len(s) /\ k \in 1 .. Len(s)
      BY ONLY <1>2, <1>3, <1>6, <2>2
    <3>2. isSocks5(s[j]) /\ isSocks5(s[k])
      BY ONLY <1>2, <1>6, <3>1
    <3>. QED  BY ONLY <1>1, <1>4, <1>6, <3>1, <3>2
  <2>. QED  BY <2>1, <2>2
<1>7. m_connection_specs' = t /\ socks5_spec_count' = n
  BY DEF t, n, s, c
<1>8. \A x \in 1 .. Len(argv') : argv'[x] \in Args
  BY DEF SpecsInv
<1>. QED  BY ONLY stage' \notin Sent, <1>2, <1>4, <1>5, <1>6, <1>7, <1>8 DEF SpecsInv

\* The parts that a step leaves alone.
LEMMA SpecsKept ==
  ASSUME SpecsInv, UNCHANGED <<argv, m_connection_specs, socks5_spec_count>>,
         stage' \in Sent => stage \in Sent
  PROVE  SpecsInv'
BY DEF SpecsInv

LEMMA MapKept ==
  ASSUME MapInv, UNCHANGED <<m_connection_specs, m_connection_map>>,
         stage' \notin {"CreateTunnel", "configure", "start"}, stage' = "HAND_SHAKE" => i' = 1
  PROVE  MapInv'
BY DEF MapInv

LEMMA ArriveKept ==
  ASSUME ArriveInv, UNCHANGED <<m_connection_specs, m_connection_map, created, m_socks5_server>>,
         stage' \in Unread => stage \in Unread, stage' # "second"
  PROVE  ArriveInv'
BY SMTT(30) DEF ArriveInv, Arrived, CountFits, SameSpec, RemoteSocks

\* The scans come before all that.
LEMMA ScanStep ==
  ASSUME CreateInv, stage \in {"CreateTunnel", "configure"}, UNCHANGED wire, ScanInv', SpecsInv',
         stage' \in {"CreateTunnel", "configure", "usage", "version", "remote", "silent", "start"},
         stage' = "start" => i' = 1
  PROVE  CreateInv'
<1>1. /\ m_connection_map = <<>> /\ created = <<>> /\ m_socks5_server = FALSE
      /\ m_connection_map' = <<>> /\ created' = <<>> /\ m_socks5_server' = FALSE
  BY DEF CreateInv, MapInv, ArriveInv, Unread, wire
<1>2. Len(<<>>) = 0 /\ \A x \in 1 .. 0 : FALSE
  OBVIOUS
<1>3. Len(m_connection_specs') \in Nat
  BY LenProperties DEF SpecsInv
<1>4. MapInv'
  <2>1. <<>> \in Seq(Entry)
    OBVIOUS
  <2>2. 0 <= Len(m_connection_specs') /\ 1 <= Len(m_connection_specs') + 1 /\ 0 <= 1 - 1
    BY ONLY <1>3
  <2>3. stage' # "HAND_SHAKE"
    OBVIOUS
  <2>. QED  BY ONLY <1>1, <1>2, <2>1, <2>2, <2>3, stage' = "start" => i' = 1 DEF MapInv
<1>5. WireInv'
  BY DEF WireInv
<1>6. ArriveInv'
  <2>1. <<>> \in Seq([id : Int, spec : Shorts])
    OBVIOUS
  <2>2. Len(created') <= Len(m_connection_map') /\ \A n \in 1 .. Len(created') : FALSE
    BY ONLY <1>1, <1>2
  <2>3. stage' # "second"
    OBVIOUS
  <2>4. Arrived'
    BY ONLY <1>1, <2>1, <2>2, <2>3, Zenon DEF Arrived
  <2>. QED  BY ONLY <1>1, <2>4, Zenon DEF ArriveInv
<1>. QED  BY <1>4, <1>5, <1>6 DEF CreateInv

LEMMA CreateTunnelStep ==
  ASSUME CreateInv, ScanInv', CreateTunnelArg \/ CreateTunnelEnds \/ ConfigureArg
  PROVE  CreateInv'
<1>1. /\ stage \in {"CreateTunnel", "configure"} /\ UNCHANGED wire
      /\ stage' \in {"CreateTunnel", "configure", "usage", "version", "remote"}
      /\ UNCHANGED <<argv, m_connection_specs, socks5_spec_count>>
  BY DEF CreateTunnelArg, CreateTunnelEnds, ConfigureArg, Configuring, config
<1>2. SpecsInv'
  BY <1>1, SpecsKept DEF CreateInv, Sent
<1>. QED  BY <1>1, <1>2, ScanStep

LEMMA ConfigureSpecStep ==
  ASSUME CreateInv, ScanInv', NEW trybind, ConfigureSpec(trybind)
  PROVE  CreateInv'
<1>. DEFINE type == IF Arg.opt = "L" THEN CONNECT ELSE LISTEN
            d == parseConnection(type, Value)
<1>1. /\ stage = "configure" /\ i <= Len(argv) /\ UNCHANGED wire /\ argv' = argv
      /\ stage' \in {"usage", "silent", "configure"}
      /\ \/ /\ Parses(type, Value) /\ m_connection_specs' = Append(m_connection_specs, d)
            /\ socks5_spec_count' =
                 socks5_spec_count + (IF type = CONNECT /\ isSocks5(Value) THEN 1 ELSE 0)
         \/ UNCHANGED <<m_connection_specs, socks5_spec_count>>
  BY DEF ConfigureSpec, Configuring
<1>2. ScanType /\ SpecsInv
  BY DEF CreateInv, ScanInv
<1>3. type \in {LISTEN, CONNECT}
  OBVIOUS
<1>. HIDE DEF type
<1>4. SpecsInv'
  <2>1. CASE UNCHANGED <<m_connection_specs, socks5_spec_count>>
    BY <1>1, <1>2, <2>1, SpecsKept DEF Sent
  <2>2. CASE /\ Parses(type, Value) /\ m_connection_specs' = Append(m_connection_specs, d)
             /\ socks5_spec_count' =
                  socks5_spec_count + (IF type = CONNECT /\ isSocks5(Value) THEN 1 ELSE 0)
    <3>1. d \in Good /\ (isSocks5(d) <=> isSocks5(Value))
      BY <1>1, <1>2, <1>3, <2>2, ParsedGood
    <3>2. isSocks5(Value) => type = CONNECT
      BY <2>2 DEF Parses
    <3>3. socks5_spec_count' = socks5_spec_count + (IF isSocks5(d) THEN 1 ELSE 0)
      BY ONLY <2>2, <3>1, <3>2
    <3>4. stage' \notin Sent
      BY <1>1 DEF Sent
    <3>. HIDE DEF d
    <3>. QED  BY <1>1, <1>2, <2>2, <3>1, <3>3, <3>4, Counted
  <2>. QED  BY <1>1, <2>1, <2>2
<1>. QED  BY <1>1, <1>4, ScanStep

LEMMA ConfigureEndStep ==
  ASSUME CreateInv, ScanInv', ConfigureEnds
  PROVE  CreateInv'
<1>1. /\ stage = "configure" /\ UNCHANGED wire
      /\ UNCHANGED <<argv, m_connection_specs, socks5_spec_count>>
      /\ i' = 1 /\ (stage' = "usage" \/ (stage' = "start" /\ ~(socks5_spec_count > 1)))
  BY DEF ConfigureEnds, scan, config
<1>2. socks5_spec_count \in Nat
  BY DEF CreateInv, SpecsInv
<1>3. stage' \in Sent => socks5_spec_count' <= 1
  BY <1>1, <1>2 DEF Sent
<1>4. SpecsInv'
  BY <1>1, <1>3 DEF CreateInv, SpecsInv
<1>. QED  BY <1>1, <1>4, ScanStep

-------------------------------------------------------------------------------
\* The next spec gets the next id, and enters the map behind those before it.
LEMMA StartStep ==
  ASSUME CreateInv, ScanInv', NEW initialize, StartConnection(initialize)
  PROVE  CreateInv'
<1>. DEFINE s == m_connection_specs
            map == m_connection_map
            e == [id |-> i - 1, spec |-> s[i]]
<1>1. /\ stage = "start" /\ stage' = "start" /\ i <= Len(s) /\ i' = i + 1
      /\ m_connection_map' \in {map, Append(map, e)}
      /\ UNCHANGED <<argv, m_connection_specs, socks5_spec_count, created, m_socks5_server>>
  BY DEF StartConnection, scan, config
<1>2. SpecsInv'
  BY <1>1, SpecsKept DEF CreateInv
<1>3. /\ s \in Seq(Good) /\ map \in Seq(Entry) /\ i \in Nat \ {0} /\ Len(map) <= i - 1
      /\ \A n \in 1 .. Len(map) : map[n].id < i - 1
      /\ \A n \in 1 .. Len(map) : map[n].id < Len(s) /\ map[n].spec = s[map[n].id + 1]
      /\ \A m, n \in 1 .. Len(map) : m < n => map[m].id < map[n].id
  BY <1>1 DEF CreateInv, SpecsInv, MapInv, ScanInv, ScanType
<1>4. Len(s) \in Nat /\ Len(map) \in Nat
  BY <1>3, LenProperties
<1>5. e \in Entry /\ e.id = i - 1 /\ e.spec = s[i]
  <2>1. i \in 1 .. Len(s) /\ i - 1 \in Nat
    BY ONLY <1>1, <1>3, <1>4
  <2>2. s[i] \in Good
    BY <1>3, <2>1, ElementOfSeq
  <2>. QED  BY ONLY <2>1, <2>2 DEF e, Entry
<1>. HIDE DEF e, map, s
<1>6. \A n \in 1 .. Len(map) : map[n].id \in Nat
  <2>1. \A n \in 1 .. Len(map) : map[n] \in Entry
    BY ONLY <1>3, ElementOfSeq
  <2>. QED  BY ONLY <2>1 DEF Entry
<1>7. MapInv'
  <2>1. CASE m_connection_map' = map
    <3>1. /\ Len(map) <= Len(s) /\ i + 1 <= Len(s) + 1 /\ Len(map) <= (i + 1) - 1
          /\ \A n \in 1 .. Len(map) : map[n].id < (i + 1) - 1
      BY ONLY <1>1, <1>3, <1>4, <1>6
    <3>2. m_connection_specs' = s /\ i' = i + 1 /\ stage' = "start"
      BY <1>1 DEF s
    <3>. QED  BY ONLY <1>3, <2>1, <3>1, <3>2 DEF MapInv
  <2>2. CASE m_connection_map' = Append(map, e)
    <3>. DEFINE t == Append(map, e)
    <3>1. /\ t \in Seq(Entry) /\ Len(t) = Len(map) + 1 /\ t[Len(map) + 1] = e
          /\ \A n \in 1 .. Len(map) : t[n] = map[n]
      BY ONLY <1>3, <1>4, <1>5, AppendProperties
    <3>. HIDE DEF t
    <3>2. \A n \in 1 .. Len(t) : n \in 1 .. Len(map) \/ n = Len(map) + 1
      BY ONLY <1>4, <3>1
    <3>3. /\ Len(t) <= Len(s) /\ i + 1 <= Len(s) + 1 /\ Len(t) <= (i + 1) - 1
      BY ONLY <1>1, <1>3, <1>4, <3>1
    <3>4. ASSUME NEW n \in 1 .. Len(t)
          PROVE  t[n].id < (i + 1) - 1 /\ t[n].id < Len(s) /\ t[n].spec = s[t[n].id + 1]
      <4>1. CASE n \in 1 .. Len(map)
        <5>1. t[n] = map[n] /\ map[n].id \in Nat /\ map[n].id < i - 1
          BY ONLY <1>3, <1>6, <3>1, <4>1
        <5>2. map[n].id < Len(s) /\ map[n].spec = s[map[n].id + 1]
          BY ONLY <1>3, <4>1
        <5>3. map[n].id < (i + 1) - 1
          BY ONLY <1>3, <5>1
        <5>. QED  BY ONLY <5>1, <5>2, <5>3
      <4>2. CASE n = Len(map) + 1
        <5>1. t[n] = e
          BY ONLY <3>1, <4>2
        <5>2. i - 1 < (i + 1) - 1 /\ i - 1 < Len(s) /\ (i - 1) + 1 = i
          BY ONLY <1>1, <1>3, <1>4
        <5>. QED  BY ONLY <1>5, <5>1, <5>2
      <4>. QED  BY <3>2, <4>1, <4>2
    <3>5. ASSUME NEW m \in 1 .. Len(t), NEW n \in 1 .. Len(t), m < n
          PROVE  t[m].id < t[n].id
      <4>1. m \in 1 .. Len(map)
        BY ONLY <1>4, <3>1, <3>5
      <4>2. CASE n \in 1 .. Len(map)
        BY ONLY <1>3, <3>1, <3>5, <4>1, <4>2
      <4>3. CASE n = Len(map) + 1
        BY ONLY <1>3, <1>5, <3>1, <4>1, <4>3
      <4>. QED  BY <3>2, <4>2, <4>3
    <3>6. m_connection_specs' = s /\ i' = i + 1 /\ stage' = "start" /\ m_connection_map' = t
      BY <1>1, <2>2 DEF s, t
    <3>. QED  BY ONLY <3>1, <3>3, <3>4, <3>5, <3>6 DEF MapInv
  <2>. QED  BY <1>1, <2>1, <2>2
<1>8. WireInv'
  BY <1>1 DEF WireInv
<1>9. ArriveInv'
  <2>1. /\ created' = <<>> /\ m_socks5_server' = FALSE
    BY <1>1 DEF CreateInv, ArriveInv, Unread
  <2>2. Len(m_connection_map') \in Nat
    BY <1>7, LenProperties DEF MapInv
  <2>3. Len(created') <= Len(m_connection_map') /\ \A n \in 1 .. Len(created') : FALSE
    BY ONLY <2>1, <2>2
  <2>4. <<>> \in Seq([id : Int, spec : Shorts])
    OBVIOUS
  <2>5. Arrived'
    BY ONLY <1>1, <2>1, <2>3, <2>4, Zenon DEF Arrived
  <2>. QED  BY ONLY <2>1, <2>5, Zenon DEF ArriveInv
<1>. QED  BY <1>2, <1>7, <1>8, <1>9 DEF CreateInv

\* The loop ends, or is left by an exception.
LEMMA StartEndStep ==
  ASSUME CreateInv, ScanInv', StartThrows \/ StartEnds
  PROVE  CreateInv'
<1>1. /\ stage = "start" /\ (stage' = "failed" \/ (stage' = "HAND_SHAKE" /\ i' = 1))
      /\ UNCHANGED <<argv, m_connection_specs, socks5_spec_count, wire>>
  BY DEF StartThrows, StartEnds, scan, config
<1>2. SpecsInv'
  BY <1>1, SpecsKept DEF CreateInv, Sent
<1>3. MapInv'
  BY <1>1, MapKept DEF CreateInv, wire
<1>4. WireInv'
  BY <1>1 DEF WireInv
<1>5. ArriveInv'
  BY <1>1, ArriveKept DEF CreateInv, Unread, wire
<1>. QED  BY <1>2, <1>3, <1>4, <1>5 DEF CreateInv

\* The local process writes.
LEMMA HandshakeStep ==
  ASSUME CreateInv, ScanInv', StartHandshaking
  PROVE  CreateInv'
<1>1. /\ stage = "HAND_SHAKE" /\ stage' = "writing" /\ i' = i /\ i = 1
      /\ UNCHANGED <<argv, m_connection_specs, socks5_spec_count, m_connection_map, created,
                     m_socks5_server>>
      /\ m_queue' = writeShort(CMD_CREATE) \o writeShort(Len(m_connection_map))
  BY DEF StartHandshaking, scan, config, CreateInv, MapInv
<1>2. SpecsInv'
  BY <1>1, SpecsKept DEF CreateInv, Sent
<1>3. MapInv'
  BY <1>1, MapKept DEF CreateInv
<1>4. WireInv'
  <2>1. Len(m_connection_map) \in Nat
    BY LenProperties DEF CreateInv, MapInv
  <2>2. PICK cut : Framed(cut, m_queue', m_connection_map, 0)
    BY <1>1, <2>1, FrameBegin
  <2>3. i' <= Len(m_connection_map') + 1 /\ i' - 1 = 0
    BY ONLY <1>1, <2>1
  <2>. QED  BY ONLY <1>1, <2>2, <2>3 DEF WireInv
<1>5. ArriveInv'
  BY <1>1, ArriveKept DEF CreateInv, Unread
<1>. QED  BY <1>2, <1>3, <1>4, <1>5 DEF CreateInv

LEMMA WriteStep ==
  ASSUME CreateInv, ScanInv', WriteConnection
  PROVE  CreateInv'
<1>. DEFINE map == m_connection_map
<1>1. /\ stage = "writing" /\ stage' = "writing" /\ i <= Len(map) /\ i' = i + 1
      /\ UNCHANGED <<argv, m_connection_specs, socks5_spec_count, m_connection_map, created,
                     m_socks5_server>>
      /\ m_queue' = m_queue \o Piece(map[i])
  BY DEF WriteConnection, scan, config, Piece
<1>2. SpecsInv'
  BY <1>1, SpecsKept DEF CreateInv
<1>3. MapInv'
  BY <1>1, MapKept DEF CreateInv
<1>4. WireInv'
  <2>1. map \in Seq(Entry) /\ i \in Nat \ {0}
    BY DEF CreateInv, MapInv, ScanInv, ScanType
  <2>2. Len(map) \in Nat
    BY <2>1, LenProperties
  <2>3. PICK cut : Framed(cut, m_queue, map, i - 1)
    BY <1>1 DEF CreateInv, WireInv
  <2>4. i - 1 \in Nat /\ (i - 1) + 1 = i /\ i + 1 <= Len(map) + 1 /\ (i + 1) - 1 = i
    BY ONLY <1>1, <2>1, <2>2
  <2>. DEFINE w == i - 1
  <2>. HIDE DEF map, w
  <2>5. PICK new : Framed(new, m_queue \o Piece(map[w + 1]), map, w + 1)
    <3>1. w \in Nat /\ w + 1 <= Len(map) /\ Framed(cut, m_queue, map, w)
      BY <1>1, <2>3, <2>4 DEF w
    <3>. QED  BY ONLY <2>1, <3>1, FrameGrows
  <2>6. w + 1 = i
    BY <2>4 DEF w
  <2>7. Framed(new, m_queue', map, i' - 1)
    BY ONLY <1>1, <2>4, <2>5, <2>6
  <2>8. i' <= Len(map) + 1 /\ m_connection_map' = map
    BY ONLY <1>1, <2>4 DEF map
  <2>. QED  BY ONLY <1>1, <2>7, <2>8 DEF WireInv
<1>5. ArriveInv'
  BY <1>1, ArriveKept DEF CreateInv, Unread
<1>. QED  BY <1>2, <1>3, <1>4, <1>5 DEF CreateInv

-------------------------------------------------------------------------------
\* The remote process reads the command and the count.
LEMMA CountStep ==
  ASSUME CreateInv, ScanInv', RemoteReadsCount
  PROVE  CreateInv'
<1>. DEFINE map == m_connection_map
            q == m_queue
<1>1. /\ stage = "writing" /\ stage' = "reading" /\ i > Len(map)
      /\ UNCHANGED <<argv, m_connection_specs, socks5_spec_count, m_connection_map, created,
                     m_socks5_server>>
      /\ todo' = readShort(Rest(q, 2)) /\ q' = Rest(q, 4)
  BY DEF RemoteReadsCount, scan, config
<1>2. SpecsInv'
  BY <1>1, SpecsKept DEF CreateInv, Sent
<1>3. MapInv'
  BY <1>1, MapKept DEF CreateInv
<1>4. ArriveInv'
  BY <1>1, ArriveKept DEF CreateInv, Unread
<1>5. WireInv'
  <2>1. /\ map \in Seq(Entry) /\ i \in Nat \ {0} /\ m_connection_specs \in Seq(Good)
        /\ Len(map) <= Len(m_connection_specs) /\ i <= Len(map) + 1
    BY <1>1 DEF CreateInv, MapInv, SpecsInv, ScanInv, ScanType, WireInv
  <2>2. Len(map) \in Nat /\ Len(m_connection_specs) \in Nat
    BY <2>1, LenProperties
  <2>3. i - 1 = Len(map)
    BY ONLY <1>1, <2>1, <2>2
  <2>4. PICK cut : Framed(cut, q, map, Len(map))
    BY <1>1, <2>3 DEF CreateInv, WireInv
  <2>5. Len(created) = 0
    BY <1>1 DEF CreateInv, ArriveInv, Unread
  <2>6. /\ q \in Seq(Byte) /\ cut[0] = 4 /\ cut[Len(map)] = Len(q) /\ At(q, 2, writeShort(Len(map)))
        /\ 4 <= Len(q)
    <3>1. 0 \in 0 .. Len(map)
      BY ONLY <2>2
    <3>. QED  BY <2>4, <3>1 DEF Framed
  <2>7. CountFits => todo' = Len(map)
    <3>1. CountFits => Len(map) < 32768
      BY ONLY <2>1, <2>2 DEF CountFits
    <3>2. 2 \in Nat /\ 2 + 2 <= Len(q) /\ Len(map) \in Int /\ 0 <= Len(map)
      BY <2>2, <2>6, LenProperties
    <3>3. Len(map) < 32768 => readShort(Rest(q, 2)) = Len(map)
      BY ONLY <2>6, <3>2, ReadAt
    <3>. QED  BY <1>1, <3>1, <3>3
  <2>8. CountFits' = CountFits /\ m_connection_map' = map /\ Len(created') = 0
    BY <1>1, <2>5 DEF CountFits
  <2>9. Framed(cut, q, map, Len(map)) /\ m_queue' = Rest(q, cut[0]) /\ stage' = "reading"
    BY <1>1, <2>4, <2>6
  <2>10. Len(map) = Len(map) - 0
    BY ONLY <2>2
  <2>. HIDE DEF q, map
  <2>. QED  BY ONLY <2>7, <2>8, <2>9, <2>10 DEF WireInv
<1>. QED  BY <1>2, <1>3, <1>4, <1>5 DEF CreateInv

\* It has read all.
LEMMA ConnectedStep ==
  ASSUME CreateInv, ScanInv', RemoteConnected
  PROVE  CreateInv'
<1>1. /\ stage = "reading" /\ stage' = "CONNECTED" /\ todo <= 0
      /\ UNCHANGED <<argv, m_connection_specs, socks5_spec_count, wire>>
  BY DEF RemoteConnected, scan, config
<1>2. SpecsInv'
  BY <1>1, SpecsKept DEF CreateInv, Sent
<1>3. MapInv'
  BY <1>1, MapKept DEF CreateInv, wire
<1>4. WireInv'
  BY <1>1 DEF CreateInv, WireInv, CountFits, wire
<1>5. ArriveInv'
  BY <1>1, ArriveKept DEF CreateInv, Unread, wire
<1>. QED  BY <1>2, <1>3, <1>4, <1>5 DEF CreateInv

\* The next entry is created at the remote side.
LEMMA Arrives ==
  ASSUME Arrived, m_socks5_server \in BOOLEAN, m_connection_map \in Seq(Entry),
         NEW e, e = m_connection_map[Len(created) + 1], Len(created) + 1 <= Len(m_connection_map),
         NEW c \in [id : Int, spec : Shorts], c.id = e.id, SameSpec(e.spec, c.spec),
         created' = Append(created, c), m_connection_map' = m_connection_map,
         m_socks5_server' = (m_socks5_server \/ RemoteSocks(e.spec)), stage' # "second"
  PROVE  Arrived'
<1>. DEFINE map == m_connection_map
            r == Len(created)
            t == Append(created, c)
            S == [id : Int, spec : Shorts]
<1>1. /\ created \in Seq(S)
      /\ \A n \in 1 .. r : created[n].id = map[n].id /\ SameSpec(map[n].spec, created[n].spec)
      /\ m_socks5_server <=> \E n \in 1 .. r : RemoteSocks(map[n].spec)
  BY DEF Arrived
<1>2. r \in Nat
  BY <1>1, LenProperties
<1>3. /\ t \in Seq(S) /\ Len(t) = r + 1 /\ t[r + 1] = c /\ \A n \in 1 .. r : t[n] = created[n]
  <2>1. created \in Seq(S) /\ c \in S
    BY <1>1
  <2>. HIDE DEF S
  <2>2. /\ Append(created, c) \in Seq(S)
        /\ Len(Append(created, c)) = Len(created) + 1
        /\ Append(created, c)[Len(created) + 1] = c
        /\ \A n \in 1 .. Len(created) : Append(created, c)[n] = created[n]
    BY ONLY <2>1, AppendProperties
  <2>. QED  BY ONLY <2>2 DEF r, t
<1>4. \A n \in 1 .. r + 1 : n \in 1 .. r \/ n = r + 1
  BY ONLY <1>2
<1>5. 1 .. r \subseteq 1 .. r + 1 /\ r + 1 \in 1 .. r + 1
  BY ONLY <1>2
<1>. HIDE DEF r, t, map, S
<1>6. e = map[r + 1] /\ r + 1 <= Len(map)
  BY DEF r, map
<1>7. ASSUME NEW n \in 1 .. r + 1
      PROVE  t[n].id = map[n].id /\ SameSpec(map[n].spec, t[n].spec)
  <2>1. CASE n \in 1 .. r
    BY ONLY <1>1, <1>3, <2>1
  <2>2. CASE n = r + 1
    BY ONLY <1>3, <1>6, <2>2, c.id = e.id, SameSpec(e.spec, c.spec)
  <2>. QED  BY ONLY <1>4, <1>7, <2>1, <2>2
<1>8. m_socks5_server' <=> \E n \in 1 .. r + 1 : RemoteSocks(map[n].spec)
  BY ONLY <1>1, <1>4, <1>5, <1>6, m_socks5_server \in BOOLEAN,
          m_socks5_server' = (m_socks5_server \/ RemoteSocks(e.spec)), Zenon
<1>9. created' = t /\ m_connection_map' = map
  BY DEF t, map
<1>10. \A spec : RemoteSocks(spec)' = RemoteSocks(spec)
  BY DEF RemoteSocks
<1>. QED  BY ONLY <1>3, <1>6, <1>7, <1>8, <1>9, stage' # "second"
          DEF Arrived, S, SameSpec, RemoteSocks

\* The spec of a socks server as CreateConnection gets it.
Served(spec) == [spec EXCEPT !.host = localhost, !.connect = SocksPort]

LEMMA ServedSpec ==
  ASSUME NEW spec \in Shorts
  PROVE  /\ Served(spec) \in Shorts /\ Served(spec).type = spec.type
         /\ Served(spec).flags = spec.flags /\ Served(spec).listen = spec.listen
         /\ Served(spec).host = localhost /\ Served(spec).connect = SocksPort
<1>1. SocksPort \in Int /\ localhost \in Seq(Byte)
  BY BoundsAssumption DEF localhost, Byte
<1>. QED  BY <1>1 DEF Served, Shorts

\* The remote process reads an entry.
LEMMA SpecStep ==
  ASSUME CreateInv, ScanInv', NEW setup \in BOOLEAN, RemoteReadsSpec(setup)
  PROVE  CreateInv'
<1>. DEFINE map == m_connection_map
            r == Len(created)
            e == map[r + 1]
            id == readShort(m_queue)
            l == readLong(Rest(m_queue, 4))
            spec == deserialize(Rest(m_queue, 2), l)
            its == [spec EXCEPT !.host = localhost, !.connect = SocksPort]
<1>1. /\ stage = "reading" /\ todo > 0 /\ todo' = todo - 1
      /\ UNCHANGED <<argv, m_connection_specs, socks5_spec_count, m_connection_map>>
      /\ m_queue' = Rest(m_queue, 14 + l)
      /\ stage' \in {"reading", "second", "failed"}
  BY DEF RemoteReadsSpec, scan, config
<1>2. \/ /\ ~isSocks5(spec) /\ created' = Append(created, [id |-> id, spec |-> spec])
         /\ m_socks5_server' = m_socks5_server /\ stage' # "second"
      \/ /\ isSocks5(spec) /\ created' = created /\ m_socks5_server' = m_socks5_server
         /\ stage' # "reading" /\ (stage' = "second" => m_socks5_server)
      \/ /\ isSocks5(spec) /\ ~m_socks5_server /\ m_socks5_server' = TRUE
         /\ created' = Append(created, [id |-> id, spec |-> its]) /\ stage' = "reading"
  BY <1>1 DEF RemoteReadsSpec
<1>. HIDE DEF id, spec, l, its
<1>3. SpecsInv'
  BY <1>1, SpecsKept DEF CreateInv, Sent
<1>4. MapInv'
  BY <1>1, MapKept DEF CreateInv
<1>5. /\ m_socks5_server \in BOOLEAN /\ m_socks5_server' \in BOOLEAN /\ stage' \notin Unread
      /\ CountFits' = CountFits
  <2>1. m_socks5_server \in BOOLEAN
    BY Zenon DEF CreateInv, ArriveInv
  <2>2. m_socks5_server' \in BOOLEAN
    BY <1>2, <2>1, Zenon
  <2>3. stage' \notin Unread
    BY <1>1 DEF Unread
  <2>4. CountFits' = CountFits
    BY <1>1 DEF CountFits
  <2>. QED  BY <2>1, <2>2, <2>3, <2>4
<1>6. CASE ~CountFits
  <2>1. WireInv'
    BY <1>1, <1>5, <1>6 DEF WireInv
  <2>2. ArriveInv'
    BY <1>5, <1>6 DEF ArriveInv
  <2>. QED  BY <1>3, <1>4, <2>1, <2>2 DEF CreateInv
<1>7. CASE CountFits
  <2>1. /\ Arrived /\ todo = Len(map) - r /\ map \in Seq(Entry)
        /\ created \in Seq([id : Int, spec : Shorts]) /\ m_connection_specs \in Seq(Good)
    BY <1>1, <1>7 DEF CreateInv, ArriveInv, Arrived, WireInv, MapInv, SpecsInv
  <2>2. r \in Nat /\ Len(map) \in Nat /\ Len(m_connection_specs) \in Nat
    BY <2>1, LenProperties
  <2>3. r + 1 <= Len(map) /\ r + 1 \in 1 .. Len(map)
    BY ONLY <1>1, <2>1, <2>2
  <2>4. PICK cut, W : Framed(cut, W, map, Len(map)) /\ m_queue = Rest(W, cut[r])
    BY <1>1, <1>7 DEF CreateInv, WireInv
  <2>. HIDE DEF r, map
  <2>5. /\ e \in Entry /\ m_queue \in Seq(Byte) /\ At(m_queue, 0, Piece(e))
        /\ Len(Piece(e)) <= Len(m_queue)
        /\ Rest(m_queue, Len(Piece(e))) = Rest(W, cut[r + 1])
    BY ONLY <2>1, <2>2, <2>3, <2>4, FrameFront DEF e
  <2>6. e.id \in Nat /\ e.id < 32768 /\ e.spec \in Good
    <3>1. e.id \in Nat /\ e.spec \in Good
      BY ONLY <2>5 DEF Entry
    <3>2. e.id < Len(m_connection_specs)
      BY <2>3 DEF CreateInv, MapInv, e, map
    <3>. QED  BY ONLY <1>7, <2>2, <3>1, <3>2 DEF CountFits
  <2>. HIDE DEF e
  <2>7. /\ 14 + l = Len(Piece(e)) /\ spec \in Shorts /\ id \in Int /\ id = e.id
        /\ spec.type = e.spec.type /\ spec.flags = e.spec.flags /\ spec.host = e.spec.host
        /\ spec.listen % 65536 = e.spec.listen % 65536
        /\ spec.connect % 65536 = e.spec.connect % 65536
        /\ spec.connect = 0 <=> e.spec.connect % 65536 = 0
    BY ONLY <2>5, <2>6, Decode DEF l, spec, id
  <2>8. RemoteSocks(e.spec) <=> isSocks5(spec)
    <3>1. RemoteSocks(e.spec) <=> e.spec.host = <<>> /\ e.spec.connect % 65536 = 0
      <4>1. e.spec \in [type : {LISTEN, CONNECT}, host : Seq(Byte), connect : Nat, listen : Nat,
                        flags : 0 .. 3]
        BY <2>6 DEF Good
      <4>. QED  BY ONLY <4>1 DEF RemoteSocks, isSocks5, htons
    <3>. QED  BY ONLY <2>7, <3>1 DEF isSocks5
  <2>9. m_queue' = Rest(W, cut[r + 1])
    BY ONLY <1>1, <2>5, <2>7
  <2>10. e = map[r + 1]
    BY DEF e
  <2>11. ASSUME NEW c \in [id : Int, spec : Shorts], c.id = e.id, SameSpec(e.spec, c.spec),
                created' = Append(created, c), stage' # "second",
                m_socks5_server' = (m_socks5_server \/ RemoteSocks(e.spec))
         PROVE  CreateInv'
    <3>1. Arrived'
      BY <1>1, <1>5, <2>1, <2>3, <2>10, <2>11, Arrives DEF map, r
    <3>2. ArriveInv'
      BY <1>5, <3>1 DEF ArriveInv
    <3>3. Len(created') = r + 1
      BY <2>1, <2>11, AppendProperties DEF r
    <3>4. todo' = Len(map) - (r + 1)
      BY ONLY <1>1, <2>1, <2>2
    <3>5. WireInv'
      <4>1. m_connection_map' = map /\ stage' \notin {"writing", "CONNECTED"}
        BY <1>1 DEF map
      <4>. QED  BY ONLY <2>4, <2>9, <3>3, <3>4, <4>1 DEF WireInv
    <3>. QED  BY <1>3, <1>4, <3>2, <3>5 DEF CreateInv
  <2>12. CASE /\ ~isSocks5(spec) /\ created' = Append(created, [id |-> id, spec |-> spec])
              /\ m_socks5_server' = m_socks5_server /\ stage' # "second"
    <3>. DEFINE c == [id |-> id, spec |-> spec]
    <3>1. c \in [id : Int, spec : Shorts] /\ c.id = e.id /\ c.spec = spec
      BY ONLY <2>7
    <3>2. SameSpec(e.spec, spec)
      BY ONLY <2>7, <2>8, <2>12 DEF SameSpec, RemoteSocks, htons
    <3>3. m_socks5_server' = (m_socks5_server \/ RemoteSocks(e.spec))
      BY ONLY <1>5, <2>8, <2>12, Zenon
    <3>. HIDE DEF c
    <3>4. created' = Append(created, c) /\ stage' # "second" /\ SameSpec(e.spec, c.spec)
      BY <2>12, <3>1, <3>2 DEF c
    <3>. QED  BY <2>11, <3>1, <3>3, <3>4
  <2>13. CASE /\ isSocks5(spec) /\ created' = created /\ m_socks5_server' = m_socks5_server
              /\ stage' # "reading" /\ (stage' = "second" => m_socks5_server)
    <3>1. WireInv'
      BY <1>1, <2>13 DEF WireInv
    <3>2. stage' = "second" =>
             \E m, n \in 1 .. Len(map) :
                /\ m < n
                /\ RemoteSocks(map[m].spec) /\ RemoteSocks(map[n].spec)
      <4>1. SUFFICES ASSUME m_socks5_server
                     PROVE  \E m, n \in 1 .. Len(map) :
                               m < n /\ RemoteSocks(map[m].spec) /\ RemoteSocks(map[n].spec)
        BY <2>13
      <4>2. PICK m \in 1 .. r : RemoteSocks(map[m].spec)
        BY <2>1, <4>1 DEF Arrived, map, r
      <4>3. m \in 1 .. Len(map) /\ m < r + 1
        BY ONLY <2>2, <2>3, m \in 1 .. r
      <4>4. RemoteSocks(map[r + 1].spec)
        BY ONLY <2>8, <2>10, <2>13
      <4>. QED  BY ONLY <2>3, <4>2, <4>3, <4>4
    <3>3. /\ created' = created /\ m_connection_map' = map /\ m_socks5_server' = m_socks5_server
          /\ map = m_connection_map
      BY <1>1, <2>13 DEF map
    <3>4. Arrived'
      <4>1. /\ created \in Seq([id : Int, spec : Shorts]) /\ Len(created) <= Len(map)
            /\ \A n \in 1 .. Len(created) :
                 created[n].id = map[n].id /\ SameSpec(map[n].spec, created[n].spec)
            /\ m_socks5_server <=> \E n \in 1 .. Len(created) : RemoteSocks(map[n].spec)
        BY ONLY <2>1, <3>3 DEF Arrived
      <4>. QED  BY ONLY <3>2, <3>3, <4>1, ZenonT(40) DEF Arrived, SameSpec, RemoteSocks
    <3>5. ArriveInv'
      BY <1>5, <3>4 DEF ArriveInv
    <3>. QED  BY <1>3, <1>4, <3>1, <3>5 DEF CreateInv
  <2>14. CASE /\ isSocks5(spec) /\ ~m_socks5_server /\ m_socks5_server' = TRUE
              /\ created' = Append(created, [id |-> id, spec |-> its]) /\ stage' = "reading"
    <3>. DEFINE c == [id |-> id, spec |-> its]
    <3>1. its = Served(spec)
      BY DEF its, Served
    <3>2. /\ its \in Shorts /\ its.type = spec.type /\ its.flags = spec.flags
          /\ its.listen = spec.listen /\ its.host = localhost /\ its.connect = SocksPort
      BY ONLY <2>7, <3>1, ServedSpec
    <3>3. c \in [id : Int, spec : Shorts] /\ c.id = e.id /\ c.spec = its
      BY ONLY <2>7, <3>2
    <3>4. SameSpec(e.spec, its)
      BY ONLY <2>7, <2>8, <2>14, <3>2 DEF SameSpec, RemoteSocks, htons
    <3>5. m_socks5_server' = (m_socks5_server \/ RemoteSocks(e.spec))
      BY ONLY <1>5, <2>8, <2>14, Zenon
    <3>. HIDE DEF c
    <3>6. created' = Append(created, c) /\ stage' # "second" /\ SameSpec(e.spec, c.spec)
      BY <2>14, <3>3, <3>4 DEF c
    <3>. QED  BY <2>11, <3>3, <3>5, <3>6
  <2>. QED  BY ONLY <1>2, <2>12, <2>13, <2>14
<1>. QED  BY <1>6, <1>7

LEMMA NextCreate ==
  ASSUME CreateInv, [Next]_vars
  PROVE  CreateInv'
<1>. ScanInv'
  <2>1. ScanInv
    BY DEF CreateInv
  <2>. QED  BY <2>1, NextScans
<1>1. CASE CreateTunnelArg \/ CreateTunnelEnds \/ ConfigureArg
  BY <1>1, CreateTunnelStep
<1>2. CASE \E trybind \in bindStatus : ConfigureSpec(trybind)
  BY <1>2, ConfigureSpecStep
<1>3. CASE ConfigureEnds
  BY <1>3, ConfigureEndStep
<1>4. CASE \E initialize \in BOOLEAN : StartConnection(initialize)
  BY <1>4, StartStep
<1>5. CASE StartThrows \/ StartEnds
  BY <1>5, StartEndStep
<1>6. CASE StartHandshaking
  BY <1>6, HandshakeStep
<1>7. CASE WriteConnection
  BY <1>7, WriteStep
<1>8. CASE RemoteReadsCount
  BY <1>8, CountStep
<1>9. CASE RemoteConnected
  BY <1>9, ConnectedStep
<1>10. CASE \E setup \in BOOLEAN : RemoteReadsSpec(setup)
  BY <1>10, SpecStep
<1>11. CASE UNCHANGED vars
  <2>1. /\ UNCHANGED <<stage, i, argv, m_connection_specs, socks5_spec_count>>
        /\ UNCHANGED <<m_connection_map, m_queue, todo, created, m_socks5_server>>
    BY <1>11 DEF vars, scan, config, wire
  <2>2. SpecsInv'
    BY <2>1 DEF CreateInv, SpecsInv, isSocks5
  <2>3. MapInv'
    BY <2>1 DEF CreateInv, MapInv
  <2>4. WireInv'
    BY <2>1 DEF CreateInv, WireInv, CountFits
  <2>5. ArriveInv'
    <3>1. m_socks5_server' \in BOOLEAN
      BY <2>1, Zenon DEF CreateInv, ArriveInv
    <3>2. Arrived => Arrived'
      BY <2>1 DEF Arrived, SameSpec, RemoteSocks
    <3>. QED  BY <2>1, <3>1, <3>2 DEF CreateInv, ArriveInv, CountFits
  <2>. QED  BY <2>2, <2>3, <2>4, <2>5 DEF CreateInv
<1>. QED
  BY <1>1, <1>2, <1>3, <1>4, <1>5, <1>6, <1>7, <1>8, <1>9, <1>10, <1>11 DEF Next

LEMMA CreateCorrect == Spec => []CreateInv
<1>1. CreateInv /\ [Next]_vars => CreateInv'
  BY NextCreate
<1>. QED  BY <1>1, InitCreate, PTL DEF Spec

-------------------------------------------------------------------------------
(***************************************************************************)
(* For every set of arguments and command lines of every length, with less *)
(* than 32768 connections: the entries of CMD_CREATE that startHandshaking *)
(* writes, with a host of any length in each, are those that               *)
(* StdioTunnelRemote::polled reads back and creates connections for, and   *)
(* reading them leaves nothing of the packet.                              *)
(***************************************************************************)
THEOREM SpecsArriveCorrect == Spec => []SpecsArrive
<1>1. CreateInv => SpecsArrive
  <2>. SUFFICES ASSUME CreateInv, CountFits
                PROVE  /\ Len(created) <= Len(m_connection_map)
                       /\ \A n \in 1 .. Len(created) :
                            /\ created[n].id = m_connection_map[n].id
                            /\ SameSpec(m_connection_map[n].spec, created[n].spec)
                       /\ stage = "CONNECTED" =>
                            m_queue = <<>> /\ Len(created) = Len(m_connection_map)
    BY DEF SpecsArrive
  <2>1. Arrived /\ m_connection_map \in Seq(Entry)
    BY DEF CreateInv, ArriveInv, MapInv
  <2>2. CASE stage # "CONNECTED"
    BY <2>1, <2>2 DEF Arrived
  <2>3. CASE stage = "CONNECTED"
    <3>1. todo = Len(m_connection_map) - Len(created) /\ todo <= 0
      BY <2>3 DEF CreateInv, WireInv
    <3>2. /\ Len(m_connection_map) \in Nat /\ Len(created) \in Nat
          /\ Len(created) <= Len(m_connection_map)
      BY <2>1, LenProperties DEF Arrived
    <3>3. Len(created) = Len(m_connection_map)
      BY ONLY <3>1, <3>2
    <3>4. PICK cut, W : /\ Framed(cut, W, m_connection_map, Len(m_connection_map))
                        /\ m_queue = Rest(W, cut[Len(created)])
      BY <2>3 DEF CreateInv, WireInv
    <3>5. W \in Seq(Byte) /\ m_queue = Rest(W, Len(W))
      BY <3>3, <3>4 DEF Framed
    <3>6. Len(W) \in Nat /\ Len(W) <= Len(W)
      BY <3>5, LenProperties
    <3>7. m_queue \in Seq(Byte) /\ Len(m_queue) = 0
      BY <3>5, <3>6, RestOf
    <3>8. m_queue = <<>>
      BY ONLY <3>7, EmptySeq
    <3>. QED  BY <2>1, <3>3, <3>8 DEF Arrived
  <2>. QED  BY <2>2, <2>3
<1>. QED  BY <1>1, CreateCorrect, PTL

(***************************************************************************)
(* The same about socks servers, when no connect port has more than 16     *)
(* bits: StdioTunnelRemote never meets the second server that it has no    *)
(* place for, since configure has counted the socks specs, and it runs one *)
(* just when the local process has a socks connection.                     *)
(***************************************************************************)
THEOREM SocksAgreeCorrect == Spec => []SocksAgree
<1>1. CreateInv => SocksAgree
  <2>. DEFINE map == m_connection_map
              specs == m_connection_specs
  <2>. SUFFICES ASSUME CreateInv, CountFits,
                       \A k \in 1 .. Len(specs) : specs[k].connect < 65536
                PROVE  /\ stage # "second"
                       /\ stage = "CONNECTED" =>
                            (m_socks5_server <=> \E n \in 1 .. Len(map) :
                                isSocks5(map[n].spec) /\ map[n].spec.type = CONNECT)
    BY DEF SocksAgree
  <2>1. Arrived /\ map \in Seq(Entry) /\ specs \in Seq(Good)
    BY DEF CreateInv, ArriveInv, MapInv, SpecsInv
  <2>2. Len(map) \in Nat /\ Len(specs) \in Nat
    BY <2>1, LenProperties
  <2>3. ASSUME NEW n \in 1 .. Len(map)
        PROVE  /\ map[n].id \in Nat /\ map[n].id + 1 \in 1 .. Len(specs)
               /\ map[n].spec = specs[map[n].id + 1]
               /\ RemoteSocks(map[n].spec) <=> isSocks5(map[n].spec)
               /\ isSocks5(map[n].spec) => map[n].spec.type = CONNECT
    <3>1. map[n] \in Entry
      BY <2>1, ElementOfSeq
    <3>2. map[n].id \in Nat /\ map[n].spec \in Good
      BY ONLY <3>1 DEF Entry
    <3>3. map[n].id < Len(specs) /\ map[n].spec = specs[map[n].id + 1]
      BY DEF CreateInv, MapInv
    <3>4. map[n].id + 1 \in 1 .. Len(specs)
      BY ONLY <2>2, <3>2, <3>3
    <3>. DEFINE spec == map[n].spec
    <3>. HIDE DEF spec
    <3>5. /\ spec.connect < 65536
          /\ spec \in [type : {LISTEN, CONNECT}, host : Seq(Byte), connect : Nat, listen : Nat,
                       flags : 0 .. 3]
          /\ isSocks5(spec) => spec.type = CONNECT
      BY <3>2, <3>3, <3>4 DEF Good, spec
    <3>6. spec.connect % 65536 = spec.connect
      <4>1. spec.connect \in Nat
        BY ONLY <3>5
      <4>. QED  BY ONLY <3>5, <4>1
    <3>7. RemoteSocks(spec) <=> isSocks5(spec)
      BY ONLY <3>5, <3>6 DEF RemoteSocks, isSocks5, htons
    <3>. QED  BY ONLY <3>2, <3>3, <3>4, <3>5, <3>7 DEF spec
  <2>4. stage # "second"
    <3>. SUFFICES ASSUME stage = "second"  PROVE FALSE
      OBVIOUS
    <3>1. PICK m, n \in 1 .. Len(map) :
             m < n /\ RemoteSocks(map[m].spec) /\ RemoteSocks(map[n].spec)
      BY <2>1 DEF Arrived
    <3>2. isSocks5(specs[map[m].id + 1]) /\ isSocks5(specs[map[n].id + 1])
      BY ONLY <2>3, <3>1, m \in 1 .. Len(map), n \in 1 .. Len(map)
    <3>3. \A j, k \in 1 .. Len(specs) : isSocks5(specs[j]) /\ isSocks5(specs[k]) => j = k
      BY DEF CreateInv, SpecsInv, Sent
    <3>4. map[m].id + 1 = map[n].id + 1
      BY ONLY <2>3, <3>2, <3>3, m \in 1 .. Len(map), n \in 1 .. Len(map)
    <3>5. map[m].id < map[n].id
      BY <3>1 DEF CreateInv, MapInv
    <3>6. map[m].id \in Nat /\ map[n].id \in Nat
      BY ONLY <2>3, m \in 1 .. Len(map), n \in 1 .. Len(map)
    <3>. QED  BY ONLY <3>4, <3>5, <3>6
  <2>5. ASSUME stage = "CONNECTED"
        PROVE  m_socks5_server <=> \E n \in 1 .. Len(map) :
                  isSocks5(map[n].spec) /\ map[n].spec.type = CONNECT
    <3>1. todo = Len(map) - Len(created) /\ todo <= 0
      BY <2>5 DEF CreateInv, WireInv
    <3>2. Len(created) \in Nat /\ Len(created) <= Len(map)
      BY <2>1, LenProperties DEF Arrived
    <3>3. Len(created) = Len(map)
      BY ONLY <2>2, <3>1, <3>2
    <3>4. m_socks5_server <=> \E n \in 1 .. Len(map) : RemoteSocks(map[n].spec)
      BY <2>1, <3>3 DEF Arrived
    <3>. QED  BY ONLY <2>3, <3>4, Zenon
  <2>. QED  BY <2>4, <2>5
<1>. QED  BY <1>1, CreateCorrect, PTL
===============================================================================
