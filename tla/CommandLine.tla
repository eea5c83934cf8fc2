------------------------------ MODULE CommandLine ------------------------------
(***************************************************************************)
(* From the command line of the local process to the connections of the    *)
(* remote one: CreateTunnel and StdioTunnelLocal::configure, which both    *)
(* scan the arguments, parseConnection, and the ConnectionSpecs as         *)
(* CMD_CREATE carries them through 16-bit fields.                          *)
(***************************************************************************)
EXTENDS Integers, Sequences

CONSTANTS
  Args,        \* arguments: opt is the letter of an option or "word"; value is
               \* what follows the letter, or what the word says as a connection
               \* argument (below)
  MaxArgs,     \* bound: arguments
  SocksPort    \* port the system gives to a socks server

NoValue == [fields |-> 0]
Byte == 0 .. 255
INT_MAX == 2147483647

\* A connection argument: the number of fields between ':', what atoi makes of the
\* ports, and the flag characters 'a' and 'p'.  The length
\* of an argument is an int.
ASSUME ArgsAssumption ==
  \A a \in Args :
    \/ a.value = NoValue
    \/ /\ a.value \in [fields : Nat, listen : Int, host : Seq(Byte), connect : Int,
                       flags : SUBSET {"a", "p"}]
       /\ Len(a.value.host) <= INT_MAX

ASSUME BoundsAssumption == MaxArgs \in Nat /\ SocksPort \in 1 .. 65535

LISTEN == 0
CONNECT == 1
ACK_PACKETS == 1
PROMISCUOUS == 2
CMD_CREATE == 402
localhost == <<108, 104>>   \* stands for the characters of the name

VARIABLES
  argv,       \* the arguments behind the program's name
  stage,      \* "CreateTunnel", "configure", "start", "HAND_SHAKE", "writing"
              \* CMD_CREATE, "reading" it (the remote process), "CONNECTED";
              \* or how a process has ended: "usage", "version", "remote" (this is
              \* a remote process), "silent", "second" (a second socks server),
              \* "failed"
  i,          \* loop variable of the local process
  local, version, m_silent,
  stopped,    \* history: argument at which CreateTunnel sees the command
  m_command,  \* the same of configure; 0 is nullptr
  m_connection_specs,
  socks5_spec_count,
  m_connection_map,   \* of the local process: [id, spec] in the order of ids
  m_queue,            \* the bytes of CMD_CREATE
  todo,               \* specs the remote process has still to read
  created,            \* [id, spec] the remote process has called CreateConnection for
  m_socks5_server     \* it runs a socks server

scan == <<argv, local, version, stopped>>
config == <<m_silent, m_command, m_connection_specs, socks5_spec_count>>
wire == <<m_connection_map, m_queue, todo, created, m_socks5_server>>
vars == <<stage, i, scan, config, wire>>

Init ==
  /\ argv \in UNION {[1 .. n -> Args] : n \in 0 .. MaxArgs}
  /\ stage = "CreateTunnel" /\ i = 1
  /\ local = TRUE /\ version = FALSE /\ m_silent = FALSE
  /\ stopped = 0 /\ m_command = 0
  /\ m_connection_specs = <<>> /\ socks5_spec_count = 0
  /\ m_connection_map = <<>> /\ m_queue = <<>> /\ todo = 0 /\ created = <<>>
  /\ m_socks5_server = FALSE

Arg == argv[i]

-------------------------------------------------------------------------------
(***************************************************************************)
(* CreateTunnel.                                                           *)
(***************************************************************************)
\* Variant for testing the properties: the values of -p and -c are not skipped.
SkippedSpecsOnly == Arg.opt \in {"L", "R"} /\ Arg.value = NoValue

\* The argument is followed by its value.
Skipped == Arg.opt \in {"L", "R", "p", "c"} /\ Arg.value = NoValue

CreateTunnelArg ==
  /\ stage = "CreateTunnel" /\ stopped = 0 /\ i <= Len(argv)
  /\ IF Arg.opt \in {"l", "r", "D", "V", "L", "R", "p", "c", "-", "T", "t", "d", "s", "word"}
     THEN /\ stopped' = CASE Arg.opt = "word" -> i [] Arg.opt = "-" -> i + 1 [] OTHER -> 0
          /\ i' = IF Skipped THEN i + 2 ELSE i + 1
          /\ local' = CASE Arg.opt = "l" -> TRUE [] Arg.opt = "r" -> FALSE [] OTHER -> local
          /\ version' = (version \/ Arg.opt = "V")
          /\ stage' = stage
     ELSE /\ stage' = "usage"
          /\ UNCHANGED <<stopped, i, local, version>>
  /\ UNCHANGED <<argv, config, wire>>

CreateTunnelEnds ==
  /\ stage = "CreateTunnel" /\ (stopped # 0 \/ i > Len(argv))
  /\ stage' = CASE version /\ Len(argv) = 1 -> "version"
                [] local -> "configure"
                [] OTHER -> "remote"
  /\ i' = 1
  /\ UNCHANGED <<argv, local, version, stopped, config, wire>>

-------------------------------------------------------------------------------
(***************************************************************************)
(* StdioTunnelLocal::configure.                                            *)
(***************************************************************************)
isSocks5(spec) == spec.host = <<>> /\ spec.connect = 0

Flags(v) == IF v.fields # 4 THEN 0
            ELSE (IF "a" \in v.flags THEN ACK_PACKETS ELSE 0)
               + (IF "p" \in v.flags THEN PROMISCUOUS ELSE 0)

parseConnection(type, v) == [type |-> type, host |-> v.host, connect |-> v.connect,
                             listen |-> v.listen, flags |-> Flags(v)]

\* parseConnection does not throw.  Its test of host and port together never throws:
\* it asks for an empty and a non-empty host.
Parses(type, v) ==
  /\ v.fields \in {3, 4}
  /\ v.listen > 0
  /\ v.connect >= 0
  /\ isSocks5(v) => type = CONNECT

\* The value of the option at i: its own, or the next argument.
long_arg == Arg.value # NoValue \/ i = Len(argv)
Value == IF long_arg THEN Arg.value
         ELSE IF argv[i + 1].opt = "word" THEN argv[i + 1].value ELSE NoValue

Configuring == stage = "configure" /\ m_command = 0 /\ i <= Len(argv)

Scanned == i' = IF Arg.opt \in {"L", "R", "p", "c"} /\ ~long_arg THEN i + 2 ELSE i + 1

\* The socket cannot be had, the port is free, or it is in use.
bindStatus == {-1, 0, 1}

\* Variant: socks specs are not counted.
ConfigureSpecUncounted(trybind) ==
  LET type == IF Arg.opt = "L" THEN CONNECT ELSE LISTEN
  IN  /\ Configuring /\ Arg.opt \in {"L", "R"}
      /\ Parses(type, Value) /\ trybind = 0
      /\ Scanned
      /\ m_connection_specs' = Append(m_connection_specs, parseConnection(type, Value))
      /\ UNCHANGED <<stage, argv, local, version, stopped, m_silent, m_command,
                     socks5_spec_count, wire>>

\* -L and -R.  trybind is what bindStatus returns.
ConfigureSpec(trybind) ==
  LET type == IF Arg.opt = "L" THEN CONNECT ELSE LISTEN
      asked == Arg.opt = "L" /\ m_silent
  IN  /\ Configuring /\ Arg.opt \in {"L", "R"}
      /\ asked \/ trybind = 0
      /\ IF Parses(type, Value)
         THEN /\ m_connection_specs' = Append(m_connection_specs, parseConnection(type, Value))
              /\ socks5_spec_count' =
                   socks5_spec_count + (IF type = CONNECT /\ isSocks5(Value) THEN 1 ELSE 0)
              /\ stage' = CASE trybind = -1 -> "usage" [] trybind = 1 -> "silent"
                            [] OTHER -> stage
         ELSE /\ stage' = "usage"
              /\ UNCHANGED <<m_connection_specs, socks5_spec_count>>
      /\ Scanned
      /\ UNCHANGED <<argv, local, version, stopped, m_silent, m_command, wire>>

\* The other arguments: the command, "--" in front of it, -s, and what changes
\* nothing modelled here.
ConfigureArg ==
  /\ Configuring /\ Arg.opt \notin {"L", "R"}
  /\ m_command' = CASE Arg.opt = "word" -> i [] Arg.opt = "-" -> i + 1 [] OTHER -> 0
  /\ m_silent' = (m_silent \/ Arg.opt = "s")
  /\ Scanned
  /\ UNCHANGED <<stage, argv, local, version, stopped, m_connection_specs,
                 socks5_spec_count, wire>>

ConfigureEnds ==
  /\ stage = "configure" /\ (m_command # 0 \/ i > Len(argv))
  /\ stage' = IF \/ m_connection_specs = <<>>
                 \/ m_command \notin 1 .. Len(argv)
                 \/ socks5_spec_count > 1 THEN "usage" ELSE "start"
  /\ i' = 1
  /\ UNCHANGED <<scan, config, wire>>

-------------------------------------------------------------------------------
(***************************************************************************)
(* CMD_CREATE.                                                             *)
(***************************************************************************)
\* StdioTunnelLocal::start, for each spec: its connection gets the next id and is left
\* out when it is a listener whose initialize() returns false.
StartConnection(initialize) ==
  LET spec == m_connection_specs[i]
  IN  /\ stage = "start" /\ i <= Len(m_connection_specs)
      /\ initialize \/ spec.type = CONNECT
      /\ m_connection_map' = IF initialize
                             THEN Append(m_connection_map, [id |-> i - 1, spec |-> spec])
                             ELSE m_connection_map
      /\ i' = i + 1
      /\ UNCHANGED <<stage, scan, config, m_queue, todo, created, m_socks5_server>>

\* ListenSide::initialize cannot bind.
StartThrows ==
  /\ stage = "start" /\ i <= Len(m_connection_specs) /\ m_connection_specs[i].type = CONNECT
  /\ stage' = "failed"
  /\ UNCHANGED <<i, scan, config, wire>>

StartEnds ==
  /\ stage = "start" /\ i > Len(m_connection_specs)
  /\ stage' = "HAND_SHAKE" /\ i' = 1
  /\ UNCHANGED <<scan, config, wire>>

\* The int is converted to short; its two bytes, the high one first.
writeShort(s) == <<(s % 65536) \div 256, s % 256>>

\* htonl of a length
writeLong(n) == writeShort(n \div 65536) \o writeShort(n)
writeString(string) == writeLong(Len(string)) \o string

\* Variant: the ports are swapped.
serializeSwapped(spec) ==
  writeShort(spec.type) \o writeString(spec.host) \o writeShort(spec.listen)
  \o writeShort(spec.connect) \o writeShort(spec.flags)

serialize(spec) ==
  writeShort(spec.type) \o writeString(spec.host) \o writeShort(spec.connect)
  \o writeShort(spec.listen) \o writeShort(spec.flags)

\* startHandshaking: the command and the count, then the connections one by one; then the
\* packet is sent.
StartHandshaking ==
  /\ stage = "HAND_SHAKE"
  /\ m_queue' = writeShort(CMD_CREATE) \o writeShort(Len(m_connection_map))
  /\ stage' = "writing"
  /\ UNCHANGED <<i, scan, config, m_connection_map, todo, created, m_socks5_server>>

WriteConnection ==
  /\ stage = "writing" /\ i <= Len(m_connection_map)
  /\ m_queue' = m_queue \o (writeShort(m_connection_map[i].id)
                            \o serialize(m_connection_map[i].spec))
  /\ i' = i + 1
  /\ UNCHANGED <<stage, scan, config, m_connection_map, todo, created, m_socks5_server>>

\* The short at the front of the queue q, sign-extended to int.
readShort(q) == LET u == q[1] * 256 + q[2] IN IF u < 32768 THEN u ELSE u - 65536
Rest(q, n) == SubSeq(q, n + 1, Len(q))
readLong(q) == ((q[1] * 256 + q[2]) * 256 + q[3]) * 256 + q[4]

\* StdioTunnelRemote::polled, HANDSHAKING: the command and the count.
RemoteReadsCount ==
  /\ stage = "writing" /\ i > Len(m_connection_map)
  /\ readShort(m_queue) = CMD_CREATE
  /\ todo' = readShort(Rest(m_queue, 2))
  /\ m_queue' = Rest(m_queue, 4)
  /\ stage' = "reading"
  /\ UNCHANGED <<i, scan, config, m_connection_map, created, m_socks5_server>>

\* deserialize, the queue q at the front of a spec whose host has l characters
deserialize(q, l) ==
  [type |-> readShort(q), host |-> SubSeq(q, 7, 6 + l),
   connect |-> readShort(Rest(q, 6 + l)), listen |-> readShort(Rest(q, 8 + l)),
   flags |-> readShort(Rest(q, 10 + l))]

\* The next spec: a socks server is started for it if need be, and CreateConnection is
\* called; setup says whether the server can be set up, or the port of a listener bound.
RemoteReadsSpec(setup) ==
  LET id == readShort(m_queue)
      l == readLong(Rest(m_queue, 4))
      spec == deserialize(Rest(m_queue, 2), l)
  IN  /\ stage = "reading" /\ todo > 0
      /\ m_queue' = Rest(m_queue, 14 + l)
      /\ todo' = todo - 1
      /\ IF ~isSocks5(spec)
         THEN /\ created' = Append(created, [id |-> id, spec |-> spec])
              /\ stage' = IF spec.type = LISTEN /\ ~setup THEN "failed" ELSE stage
              /\ UNCHANGED m_socks5_server
         ELSE IF m_socks5_server \/ ~setup
         THEN /\ stage' = IF m_socks5_server THEN "second" ELSE "failed"
              /\ UNCHANGED <<created, m_socks5_server>>
         ELSE /\ m_socks5_server' = TRUE
              /\ created' = Append(created, [id |-> id, spec |->
                   [spec EXCEPT !.host = localhost, !.connect = SocksPort]])
              /\ UNCHANGED stage
      /\ UNCHANGED <<i, scan, config, m_connection_map>>

RemoteConnected ==
  /\ stage = "reading" /\ todo <= 0
  /\ stage' = "CONNECTED"
  /\ UNCHANGED <<i, scan, config, wire>>

Next ==
  \/ CreateTunnelArg \/ CreateTunnelEnds
  \/ \E trybind \in bindStatus : ConfigureSpec(trybind)
  \/ ConfigureArg \/ ConfigureEnds
  \/ \E initialize \in BOOLEAN : StartConnection(initialize)
  \/ StartThrows \/ StartEnds
  \/ StartHandshaking \/ WriteConnection
  \/ RemoteReadsCount \/ RemoteConnected
  \/ \E setup \in BOOLEAN : RemoteReadsSpec(setup)

Spec == Init /\ [][Next]_vars

-------------------------------------------------------------------------------
(***************************************************************************)
(* Properties.                                                             *)
(***************************************************************************)
(***************************************************************************)
(* The two scans agree on where the connection command begins, so that no  *)
(* argument of the command is taken for one of the tunnel, nor the other   *)
(* way round.                                                              *)
(***************************************************************************)
ScansAgree == stage = "start" => stopped = m_command

\* What bind() and connect() are given of a port.
htons(port) == port % 65536

\* What the local process makes of a spec is what the remote one does.
SameSpec(mine, its) ==
  /\ its.type = mine.type /\ its.flags = mine.flags
  /\ htons(its.listen) = htons(mine.listen)
  /\ IF isSocks5([mine EXCEPT !.connect = htons(@)])
     THEN its.host = localhost /\ its.connect = SocksPort
     ELSE its.host = mine.host /\ htons(its.connect) = htons(mine.connect)

\* The ids (g_id) and the count are shorts.
CountFits == Len(m_connection_specs) < 32768

(***************************************************************************)
(* Every connection of the local map reaches the remote process with its   *)
(* id, its direction, flags and host and the ports that will be used, and  *)
(* nothing of the packet is left to be taken for the next command.  (With  *)
(* 32768 connections the remote process reads a negative count.)           *)
(***************************************************************************)
SpecsArrive ==
  CountFits =>
    /\ Len(created) <= Len(m_connection_map)
    /\ \A n \in 1 .. Len(created) :
         /\ created[n].id = m_connection_map[n].id
         /\ SameSpec(m_connection_map[n].spec, created[n].spec)
    /\ stage = "CONNECTED" => m_queue = <<>> /\ Len(created) = Len(m_connection_map)

(***************************************************************************)
(* The remote process runs at most one socks server, for a -L connection   *)
(* the local process has counted as one: it never meets a second one.      *)
(* (Ports of more than 16 bits are excepted: connect port 65536 is 0 at    *)
(* the remote side only.)                                                  *)
(***************************************************************************)
SocksAgree ==
  CountFits /\ (\A k \in 1 .. Len(m_connection_specs) : m_connection_specs[k].connect < 65536) =>
     /\ stage # "second"
     /\ stage = "CONNECTED" =>
          (m_socks5_server <=> \E n \in 1 .. Len(m_connection_map) :
                                  /\ isSocks5(m_connection_map[n].spec)
                                  /\ m_connection_map[n].spec.type = CONNECT)
===============================================================================
