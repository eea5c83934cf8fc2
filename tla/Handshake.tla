------------------------------- MODULE Handshake -------------------------------
(***************************************************************************)
(* How the two StdioTunnel processes find each other: StdioTunnelLocal and *)
(* StdioTunnelRemote of src/com/antlersoft/stdio_tunnel/StdioTunnel.cpp    *)
(* from the start of the local process to the first packets of the links.  *)
(*                                                                         *)
(* The local process passes the user's terminal through to a remote shell. *)
(* Once the magic string of the remote process comes by, it sends          *)
(* CMD_CREATE with its connections; the remote process creates them and    *)
(* answers CMD_CREATE.  The packets of the links (CMD_CONNECTION) are      *)
(* modelled by the connection they name, since m_connection_map is what    *)
(* they meet here.                                                         *)
(***************************************************************************)
EXTENDS Naturals, Sequences

CONSTANTS
  Conns,        \* connections of the command line, named by their g_id
  ListenAt,     \* side at which CreateConnection makes the ListenSide
  MaxTyped,     \* bound: pieces of input of the user
  MaxPrinted,   \* bound: pieces of output of the shell
  MaxAccepts    \* bound: connections accepted, all listeners together

ASSUME HandshakeAssumption ==
  /\ ListenAt \in [Conns -> {"local", "remote"}]
  /\ MaxTyped \in Nat /\ MaxPrinted \in Nat /\ MaxAccepts \in Nat

\* What travels between the processes: input of the user ("typed"), output of the
\* shell or on stderr ("text"), the magic string, the beginning of a packet whose
\* sender has ended ("cut"), and packets.  conns is what a
\* CMD_CREATE to the remote side lists, and the one a CMD_CONNECTION names.
Item == [kind : {"typed", "text", "magic", "cut", "CMD_CREATE", "CMD_CONNECTION",
                 "CMD_ERROR"},
         conns : SUBSET Conns]
Typed == [kind |-> "typed", conns |-> {}]
Text == [kind |-> "text", conns |-> {}]
Magic == [kind |-> "magic", conns |-> {}]
Cut == [kind |-> "cut", conns |-> {}]
Error == [kind |-> "CMD_ERROR", conns |-> {}]
Create(S) == [kind |-> "CMD_CREATE", conns |-> S]
Connection(c) == [kind |-> "CMD_CONNECTION", conns |-> {c}]

IsPacket(x) == x.kind \in {"CMD_CREATE", "CMD_CONNECTION", "CMD_ERROR"}

VARIABLES
  localState,      \* m_state of the local process; "exited"; "crashed" (no
                   \* such entry in m_connection_map: a null pointer is called)
  remoteState,     \* the same of the remote process; "absent": a shell reads
                   \* its stdin; "unexpected": exited with "Unexpected handshake
                   \* command" or "Unexpected command"; "misframed": waits for
                   \* the rest of a packet that is none
  localMap,        \* keys of m_connection_map
  remoteMap,
  m_write_buffer,  \* input not yet written to the tunnel
  m_read_buffer,   \* output not yet written to stdout
  stdoutPolled,    \* stdout is still registered
  stdoutEvents,    \* and asks for POLLOUT
  localQueue,      \* packets of the local WriteStream
  localEvents,     \* POLLOUT is asked for on m_write_fd
  remoteQueue,
  remoteEvents,
  toRemote,        \* written by the local process, not yet read
  toLocal,
  loggedIn,        \* the login pattern was met: remoteInit has run
  typed, printed, accepted   \* history, for the bounds

tunnel == <<localQueue, localEvents, remoteQueue, remoteEvents>>
terminal == <<m_write_buffer, m_read_buffer, stdoutPolled, stdoutEvents>>
bounds == <<typed, printed, accepted>>
maps == <<localMap, remoteMap>>
vars == <<localState, remoteState, maps, terminal, tunnel, toRemote, toLocal,
          loggedIn, bounds>>

TypeOK ==
  /\ localState \in {"PASS_THROUGH", "HAND_SHAKE", "CONNECTED", "exited", "crashed"}
  /\ remoteState \in {"absent", "HANDSHAKING", "CONNECTED", "exited", "crashed",
                      "unexpected", "misframed"}
  /\ localMap \in SUBSET Conns /\ remoteMap \in SUBSET Conns
  /\ m_write_buffer \in 0 .. MaxTyped
  /\ m_read_buffer \in Nat
  /\ stdoutPolled \in BOOLEAN /\ stdoutEvents \in BOOLEAN
  /\ localQueue \in Seq(Item) /\ remoteQueue \in Seq(Item)
  /\ localEvents \in BOOLEAN /\ remoteEvents \in BOOLEAN
  /\ toRemote \in Seq(Item) /\ toLocal \in Seq(Item)
  /\ loggedIn \in BOOLEAN
  /\ typed \in 0 .. MaxTyped /\ printed \in 0 .. MaxPrinted
  /\ accepted \in 0 .. MaxAccepts

LocalRuns == localState \in {"PASS_THROUGH", "HAND_SHAKE", "CONNECTED"}
RemoteRuns == remoteState \in {"HANDSHAKING", "CONNECTED", "misframed"}

\* What CreateConnection may make of the connections S at a side: initialize()
\* returns false for some of the listeners, and they are left out of the map.
CreateConnections(side, S) ==
  {T \in SUBSET S : \A c \in S \ T : ListenAt[c] = side}

\* StdioTunnelLocal::start and setPollfd, the listeners included.
Init ==
  /\ localState = "PASS_THROUGH"
  /\ remoteState = "absent"
  /\ localMap \in CreateConnections("local", Conns)
  /\ remoteMap = {}
  /\ m_write_buffer = 0 /\ m_read_buffer = 0
  /\ stdoutPolled = TRUE /\ stdoutEvents = FALSE
  /\ localQueue = <<>> /\ localEvents = FALSE
  /\ remoteQueue = <<>> /\ remoteEvents = FALSE
  /\ toRemote = <<>> /\ toLocal = <<>>
  /\ loggedIn = FALSE
  /\ typed = 0 /\ printed = 0 /\ accepted = 0

-------------------------------------------------------------------------------
(***************************************************************************)
(* The user and the shell at the remote end.                               *)
(***************************************************************************)
\* The shell, or whatever runs on the terminal, prints.
Prints ==
  /\ ~RemoteRuns
  /\ printed < MaxPrinted
  /\ printed' = printed + 1
  /\ toLocal' = Append(toLocal, Text)
  /\ UNCHANGED <<localState, remoteState, maps, terminal, tunnel, toRemote, loggedIn,
                 typed, accepted>>

\* The shell reads its input.
ShellReads ==
  /\ ~RemoteRuns
  /\ toRemote # <<>>
  /\ toRemote' = Tail(toRemote)
  /\ UNCHANGED <<localState, remoteState, maps, terminal, tunnel, toLocal, loggedIn,
                 bounds>>

\* PASS_THROUGH, stdin readable.
ReadStdin ==
  /\ localState = "PASS_THROUGH"
  /\ typed < MaxTyped
  /\ typed' = typed + 1
  /\ m_write_buffer' = m_write_buffer + 1
  /\ localEvents' = TRUE
  /\ UNCHANGED <<localState, remoteState, maps, m_read_buffer, stdoutPolled,
                 stdoutEvents, localQueue, remoteQueue, remoteEvents, toRemote,
                 toLocal, loggedIn, printed, accepted>>

-------------------------------------------------------------------------------
(***************************************************************************)
(* The local process.                                                      *)
(***************************************************************************)
\* PASS_THROUGH, m_read_fd readable: text goes to stdout.  When it completes the
\* login pattern, remoteInit writes the remote command past m_write_buffer.
PassRead(login) ==
  /\ localState = "PASS_THROUGH"
  /\ toLocal # <<>> /\ Head(toLocal) = Text
  /\ login => ~loggedIn
  /\ toLocal' = Tail(toLocal)
  /\ loggedIn' = (loggedIn \/ login)
  /\ toRemote' = IF login THEN Append(toRemote, Typed) ELSE toRemote
  /\ m_read_buffer' = m_read_buffer + 1
  /\ stdoutEvents' = TRUE
  /\ UNCHANGED <<localState, remoteState, maps, m_write_buffer, stdoutPolled, tunnel,
                 bounds>>

\* The magic string has come: input not yet sent is dropped, and CMD_CREATE with the
\* connections S is queued.  The string and what follows it in the same read(), n
\* items in all, go to stdout: readData keeps them from ReadStream.
Starts(state, S, n) ==
  /\ localState = "PASS_THROUGH"
  /\ n <= Len(toLocal) /\ toLocal[1] = Magic
  /\ toLocal' = SubSeq(toLocal, n + 1, Len(toLocal))
  /\ localState' = state
  /\ m_write_buffer' = 0
  /\ localQueue' = Append(localQueue, Create(S))
  /\ localEvents' = TRUE
  /\ m_read_buffer' = m_read_buffer + n
  /\ stdoutEvents' = TRUE
  /\ UNCHANGED <<remoteState, maps, stdoutPolled, remoteQueue, remoteEvents, toRemote,
                 loggedIn, bounds>>

\* Variants for testing the properties: the answer is not waited for; one of the
\* connections is not listed.
StartHandshakingConnected(n) == Starts("CONNECTED", localMap, n)
StartHandshakingShort(n) == \E c \in localMap : Starts("HAND_SHAKE", localMap \ {c}, n)

\* startHandshaking.  Stdin is no longer polled (ReadStdin is disabled).
StartHandshaking(n) == Starts("HAND_SHAKE", localMap, n)

\* PASS_THROUGH, m_write_fd writable: n pieces of input are written; packets wait.
PassWrite(n) ==
  /\ localState = "PASS_THROUGH"
  /\ localEvents
  /\ m_write_buffer' = m_write_buffer - n
  /\ toRemote' = toRemote \o [i \in 1 .. n |-> Typed]
  /\ localEvents' = (m_write_buffer' # 0)
  /\ UNCHANGED <<localState, remoteState, maps, m_read_buffer, stdoutPolled,
                 stdoutEvents, localQueue, remoteQueue, remoteEvents, toLocal,
                 loggedIn, bounds>>

\* stdout writable, PASS_THROUGH: the last write takes the request back.
PassStdout(n) ==
  /\ localState = "PASS_THROUGH"
  /\ stdoutPolled /\ stdoutEvents
  /\ m_read_buffer' = m_read_buffer - n
  /\ stdoutEvents' = (m_read_buffer' # 0)
  /\ UNCHANGED <<localState, remoteState, maps, m_write_buffer, stdoutPolled, tunnel,
                 toRemote, toLocal, loggedIn, bounds>>

\* ... HAND_SHAKE and CONNECTED: n pieces are counted as written, and stdout stays in
\* the poller or not.
Shows(n, polled) ==
  /\ localState \in {"HAND_SHAKE", "CONNECTED"}
  /\ stdoutPolled /\ stdoutEvents
  /\ m_read_buffer' = m_read_buffer - n
  /\ stdoutPolled' = polled
  /\ UNCHANGED <<localState, remoteState, maps, m_write_buffer, stdoutEvents, tunnel,
                 toRemote, toLocal, loggedIn, bounds>>

\* Variants: one byte too many is counted; stdout is given up with output left.
ConnectedStdoutOver(n) == Shows(n + 1, m_read_buffer # 0)
ConnectedStdoutEarly(n) == Shows(n, FALSE)

\* It is polled until all is written.
ConnectedStdout(n) == Shows(n, m_read_buffer # 0)

\* WriteStream::empty in one of the states.
WritesIn(states) ==
  /\ localState \in states
  /\ localEvents
  /\ localQueue # <<>>
  /\ toRemote' = Append(toRemote, Head(localQueue))
  /\ localQueue' = Tail(localQueue)
  /\ localEvents' = (localQueue' # <<>>)
  /\ UNCHANGED <<localState, remoteState, maps, terminal, remoteQueue, remoteEvents,
                 toLocal, loggedIn, bounds>>

\* Variant: packets are written in PASS_THROUGH as well.
LocalWriteAlways == WritesIn({"PASS_THROUGH", "HAND_SHAKE", "CONNECTED"})

\* m_write_fd writable.
LocalWrite == WritesIn({"HAND_SHAKE", "CONNECTED"})

\* A packet is read; ReadStream::fill takes anything else for a packet of more than
\* 50000000 bytes ("Bad read length").
LocalReads(x) ==
  /\ localState \in {"HAND_SHAKE", "CONNECTED"}
  /\ toLocal # <<>>
  /\ x = Head(toLocal)
  /\ toLocal' = Tail(toLocal)
  /\ UNCHANGED <<remoteState, maps, terminal, remoteQueue, remoteEvents, toRemote,
                 loggedIn, bounds>>

\* The text behind a packet that was cut is taken for its bytes, and may or may not
\* come to a length or a command that is rejected: only then does this step happen.
LocalReadText(x) ==
  /\ LocalReads(x)
  /\ ~IsPacket(x)
  /\ localState' = "exited"
  /\ UNCHANGED <<localQueue, localEvents>>

\* CMD_ERROR: the message is shown on stderr.
LocalError(x) ==
  /\ LocalReads(x)
  /\ x.kind = "CMD_ERROR"
  /\ UNCHANGED <<localState, localQueue, localEvents>>

LocalCreate(x) ==
  /\ LocalReads(x)
  /\ x.kind = "CMD_CREATE"
  /\ localState' = "CONNECTED"
  /\ UNCHANGED <<localQueue, localEvents>>

\* processMessage of the connection, which may answer.
LocalConnection(x, c, answers) ==
  /\ LocalReads(x)
  /\ x.kind = "CMD_CONNECTION" /\ c \in x.conns
  /\ localState' = IF c \in localMap THEN localState ELSE "crashed"
  /\ IF answers THEN localQueue' = Append(localQueue, Connection(c)) /\ localEvents' = TRUE
                ELSE UNCHANGED <<localQueue, localEvents>>

\* ListenSide::polled: from start() on, before any handshake.
LocalAccept(c) ==
  /\ LocalRuns
  /\ c \in localMap /\ ListenAt[c] = "local"
  /\ accepted < MaxAccepts
  /\ accepted' = accepted + 1
  /\ localQueue' = Append(localQueue, Connection(c))
  /\ localEvents' = TRUE
  /\ UNCHANGED <<localState, remoteState, maps, terminal, remoteQueue, remoteEvents,
                 toRemote, toLocal, loggedIn, typed, printed>>

\* A signal, an error or the end of stdin or of the connection command.
LocalExits ==
  /\ LocalRuns
  /\ localState' = "exited"
  /\ UNCHANGED <<remoteState, maps, terminal, tunnel, toRemote, toLocal, loggedIn,
                 bounds>>

-------------------------------------------------------------------------------
(***************************************************************************)
(* The remote process.                                                     *)
(***************************************************************************)
\* StdioTunnelRemote::start: the terminal is raw, the magic string is written.
RemoteStart ==
  /\ remoteState = "absent"
  /\ remoteState' = "HANDSHAKING"
  /\ toLocal' = Append(toLocal, Magic)
  /\ UNCHANGED <<localState, maps, terminal, tunnel, toRemote, loggedIn, bounds>>

\* Exits by exception or signal: main says why on stderr, the same terminal.  The packet
\* that is being written may be left incomplete.
Exits(state) ==
  /\ remoteState' = state
  /\ \/ toLocal' = Append(toLocal, Text)
     \/ remoteQueue # <<>> /\ toLocal' = toLocal \o <<Cut, Text>>

RemoteReads(x) ==
  /\ remoteState \in {"HANDSHAKING", "CONNECTED"}
  /\ toRemote # <<>>
  /\ x = Head(toRemote)
  /\ toRemote' = Tail(toRemote)
  /\ UNCHANGED <<localState, localMap, terminal, localQueue, localEvents, loggedIn,
                 bounds>>

\* Input meant for the shell is taken for the length of a packet: too long, or, if
\* it starts with one of the characters 0 to 2, waited for.
RemoteReadTyped(x) ==
  /\ RemoteReads(x)
  /\ ~IsPacket(x)
  /\ \/ Exits("exited")
     \/ remoteState' = "misframed" /\ UNCHANGED toLocal
  /\ UNCHANGED <<remoteMap, remoteQueue, remoteEvents>>

\* HANDSHAKING: the connections are created and answer is sent.
Creates(x, answer) ==
  /\ RemoteReads(x)
  /\ remoteState = "HANDSHAKING" /\ x.kind = "CMD_CREATE"
  /\ remoteMap' \in CreateConnections("remote", x.conns)
  /\ remoteState' = "CONNECTED"
  /\ remoteQueue' = remoteQueue \o answer
  /\ remoteEvents' = TRUE
  /\ UNCHANGED toLocal

\* Variant: no answer.
RemoteCreateSilent(x) == Creates(x, <<>>)

\* The answer is CMD_CREATE ...
RemoteCreate(x) == Creates(x, <<Create({})>>)

\* ... unless a port cannot be bound or the socks server cannot be set up.
RemoteCreateThrows(x) ==
  /\ RemoteReads(x)
  /\ remoteState = "HANDSHAKING" /\ x.kind = "CMD_CREATE"
  /\ Exits("exited")
  /\ UNCHANGED <<remoteMap, remoteQueue, remoteEvents>>

\* CMD_CREATE is expected first, and only then.
RemoteUnexpected(x) ==
  /\ RemoteReads(x)
  /\ IsPacket(x)
  /\ (remoteState = "HANDSHAKING") # (x.kind = "CMD_CREATE")
  /\ Exits("unexpected")
  /\ UNCHANGED <<remoteMap, remoteQueue, remoteEvents>>

\* What processMessage of connection c sends: nothing, an answer, or at the side that
\* connects an answer behind the message of reportError.
Answers(c) == {<<>>, <<Connection(c)>>}
              \union IF ListenAt[c] = "local" THEN {<<Error, Connection(c)>>} ELSE {}

\* CONNECTED: processMessage of the connection.
RemoteConnection(x, c, answer) ==
  /\ RemoteReads(x)
  /\ remoteState = "CONNECTED" /\ x.kind = "CMD_CONNECTION" /\ c \in x.conns
  /\ remoteState' = IF c \in remoteMap THEN remoteState ELSE "crashed"
  /\ remoteQueue' = remoteQueue \o answer
  /\ remoteEvents' = (remoteEvents \/ answer # <<>>)
  /\ UNCHANGED <<remoteMap, toLocal>>

RemoteWrite ==
  /\ RemoteRuns
  /\ remoteEvents
  /\ remoteQueue # <<>>
  /\ toLocal' = Append(toLocal, Head(remoteQueue))
  /\ remoteQueue' = Tail(remoteQueue)
  /\ remoteEvents' = (remoteQueue' # <<>>)
  /\ UNCHANGED <<localState, remoteState, maps, terminal, localQueue, localEvents,
                 toRemote, loggedIn, bounds>>

RemoteAccept(c) ==
  /\ remoteState = "CONNECTED"
  /\ c \in remoteMap /\ ListenAt[c] = "remote"
  /\ accepted < MaxAccepts
  /\ accepted' = accepted + 1
  /\ remoteQueue' = Append(remoteQueue, Connection(c))
  /\ remoteEvents' = TRUE
  /\ UNCHANGED <<localState, remoteState, maps, terminal, localQueue, localEvents,
                 toRemote, toLocal, loggedIn, typed, printed>>

\* A signal, an error, or the hangup that follows the end of the local process.
RemoteExits ==
  /\ RemoteRuns
  /\ Exits("exited")
  /\ UNCHANGED <<localState, maps, terminal, tunnel, toRemote, loggedIn, bounds>>

-------------------------------------------------------------------------------
LocalRead ==
  /\ toLocal # <<>>
  /\ LET x == Head(toLocal)
     IN  \/ LocalReadText(x) \/ LocalError(x) \/ LocalCreate(x)
         \/ \E c \in Conns, a \in BOOLEAN : LocalConnection(x, c, a)

RemoteRead ==
  /\ toRemote # <<>>
  /\ LET x == Head(toRemote)
     IN  \/ RemoteReadTyped(x) \/ RemoteCreate(x) \/ RemoteCreateThrows(x)
         \/ RemoteUnexpected(x)
         \/ \E c \in Conns : \E answer \in Answers(c) : RemoteConnection(x, c, answer)

ReadMagic == \E n \in 1 .. Len(toLocal) : StartHandshaking(n)
WriteInput == \E n \in 0 .. MaxTyped : n <= m_write_buffer /\ PassWrite(n)
WriteOutput ==
  \/ \E n \in 0 .. m_read_buffer : PassStdout(n)
  \/ \E n \in 0 .. m_read_buffer : ConnectedStdout(n)

Next ==
  \/ Prints \/ ShellReads \/ ReadStdin
  \/ (\E login \in BOOLEAN : PassRead(login)) \/ ReadMagic
  \/ WriteInput \/ WriteOutput
  \/ LocalWrite \/ LocalRead \/ LocalExits
  \/ RemoteStart \/ RemoteWrite \/ RemoteRead \/ RemoteExits
  \/ \E c \in Conns : LocalAccept(c) \/ RemoteAccept(c)

Spec == Init /\ [][Next]_vars

(***************************************************************************)
(* The channel carries bytes on, and poll() is level-triggered: what can   *)
(* be read is read, what can be written is written, stdout takes output.   *)
(* Nothing is assumed about the user, the shell and the clients, nor about *)
(* what becomes of a packet that was cut.                                  *)
(***************************************************************************)
WaitsForRest == toLocal # <<>> /\ Head(toLocal) = Cut
StdoutTakes == \/ \E n \in 1 .. m_read_buffer : PassStdout(n) \/ ConnectedStdout(n)
               \/ m_read_buffer = 0 /\ ConnectedStdout(0)
Fairness ==
  /\ WF_vars(ReadMagic) /\ WF_vars(LocalWrite) /\ WF_vars(LocalRead /\ ~WaitsForRest)
  /\ WF_vars(RemoteWrite) /\ WF_vars(RemoteRead) /\ SF_vars(StdoutTakes)

FairSpec == Spec /\ Fairness

-------------------------------------------------------------------------------
(***************************************************************************)
(* Properties.                                                             *)
(***************************************************************************)
(***************************************************************************)
(* m_connection_map[id] is never asked for a connection it lacks, although *)
(* the two maps differ when a listener could not be initialised: the call  *)
(* through the null pointer that operator[] would insert does not happen.  *)
(***************************************************************************)
ConnectionKnown == localState # "crashed" /\ remoteState # "crashed"

(***************************************************************************)
(* The local process believes in the connection only when the remote one   *)
(* has created its connections (and may have ended since).                 *)
(***************************************************************************)
ConnectedAgree ==
  localState = "CONNECTED" => remoteState \notin {"absent", "HANDSHAKING", "misframed"}

(***************************************************************************)
(* No input of the user follows a packet to the remote process: once the   *)
(* packets have begun, nothing but packets is read.                        *)
(***************************************************************************)
InputBeforePackets ==
  /\ \A i, j \in 1 .. Len(toRemote) :
       i < j /\ IsPacket(toRemote[i]) => IsPacket(toRemote[j])
  /\ remoteState = "CONNECTED" => \A i \in 1 .. Len(toRemote) : IsPacket(toRemote[i])

(***************************************************************************)
(* A handshake that was begun ends: the local process is connected or      *)
(* stops.  There are three exceptions: the user's input has left the       *)
(* remote process waiting for the rest of a packet; the remote process     *)
(* ended in the middle of a packet, and the local one waits for its rest;  *)
(* the remote process ended so early that all it said of it was read       *)
(* together with the magic string and shown on stdout, and nothing is      *)
(* printed after it: then no text is left to be taken for a bad packet,    *)
(* and HAND_SHAKE has no timeout.                                          *)
(***************************************************************************)
HandshakeEnds ==
  localState = "HAND_SHAKE" ~>
    \/ localState # "HAND_SHAKE" \/ remoteState = "misframed"
    \/ []WaitsForRest
    \/ [](~RemoteRuns /\ toLocal = <<>>)

\* All output up to the end of the read() that brought the magic string is shown, though
\* stdout is dropped after it.
OutputShown == m_read_buffer # 0 ~> m_read_buffer = 0 \/ ~LocalRuns

\* "The two StdioTunnel processes will perform a simple handshake": the remote
\* process is sent CMD_CREATE first.
ExpectedFirst == remoteState # "unexpected"
===============================================================================
