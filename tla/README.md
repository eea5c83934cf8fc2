# Verification of StdioTunnel

StdioTunnel forwards TCP connections over the standard input and output of a
remote login. Two processes of the same program, the *local* and the *remote*
one, exchange packets over a pipe or terminal; each is a single-threaded event
loop around `poll()`. This directory holds TLA+ models of the program, TLC
configurations that check them on small instances, and TLAPS proofs for every
value of the parameters. `PROJECT.json` maps every definition to the lines it
models, and lists the runs, the hazards and the theorems.

Run a model with `tlc -config <run>.cfg <module>`; check proofs with
`tlapm <module>.tla`.

## 1. The system

| Component | State | Operations | Talks to |
|---|---|---|---|
| `Poller` | `m_polled` (entries), `m_pollfds`, `m_orig_size`, `m_index`, `m_finishing` | `start`, `pollOnce`, `addPolled`, `removePolled`, `setEvents`, `requestFinish` | calls `polled` of every entry, `pollCallback` after a pass; handlers call back into it |
| `ListenSide`, `ConnectSide` (a `TunnelConnection` each side) | `m_link_map`, `m_next_id`, spec with flags | `polled` (accept), `processMessage`, `processLinkMessage`, `closeLink`, `sendData`, `receiveData` | the peer's object of the same id, by `CMD_CONNECTION` packets |
| `ConnectionLink` | socket, `m_buffer`, `m_closing`, `m_acknowledged` | `polled`, `setAcknowledged`, `setClosing` | its `TunnelConnection` and the poller |
| `StdioTunnelLocal` | `m_state`, terminal buffers, `m_connection_map` | `start`, `polled`, `startHandshaking`, `remoteInit` | terminal, connection command, remote process |
| `StdioTunnelRemote` | `m_state`, `m_connection_map`, socks server | `start`, `polled`, `reportError` | local process |
| `WriteStream`, `ReadStream` | packet queue, bytes written; bytes read, `m_read_size`, `m_queue` | `send`, `empty`; `fill`, `readShort`, ... | the file descriptors of the tunnel |
| `SockBuffer` | `m_queue`, `m_output_buf`, `m_output_position` | `readData`, `writeData`, `pushOnBuffer`, `clear` | sockets, terminal |
| `MagicStringDetector` (a `SockBuffer`) | positions in the magic string and the login pattern | `processReadData` | starts the handshake, types the remote command |
| `ConnectionSpec`, command line | options, list of specs | `CreateTunnel`, `configure`, `parseConnection`, `serialize`, `deserialize` | sent in `CMD_CREATE` |
| `Socks5Server` | list of client threads (`sblist`), `done` of each | `setPollfd`, `polled`, `collect`, client thread | shares the entries with its threads; each thread talks to a client and a target |
| `Trace`, `MyException` | | logging | |

What is hard in this code, and hard to test: the two processes act on each
other's packets late, so creation, data and closing of a link cross in flight;
handlers change the poller's vector while it is being walked; poll requests are
rewritten by several handlers and a lost one is a silent hang; packets and the magic
string are cut anywhere; the handshake shares its channel with a user and a shell; a
signal or an exception ends one process at any moment; ports pass through a signed
short; two loops scan the same arguments; threads of the socks server share
their entries with the loop that frees them. Each hazard is listed in
`PROJECT.json` with its line and the properties aimed at it.

What makes each component correct: every packet finds its link, no end of a
link is left behind, bytes arrive in order (links); every ready entry has one
turn in a pass and no index leaves the vector (poller); no packet is taken for
text or text for a packet, and no connection is missing from a map (handshake);
the streams are FIFOs of packets, the buffers FIFOs of bytes; the handshake and
the remote command start where the patterns are (detector); both processes mean
the same connections (command line); entries and sockets are given up once, by a
thread that is through, and connections whose peers read or leave end (socks server).

## 2. Modules

* `TunnelConnection` - the link protocol. Variables are per side and per key
  (connection id, link id). `linkState` is "absent" (not in `m_link_map`),
  "pending" (accepted, not polled), "open" (polled) or "closing" (`m_closing`).
  `Poll` is the call of `poll()`: it chooses `revents`. Then the tunnel's handler
  runs (`Process`, one packet per pass; one action for each command, from
  `processMessage` of either side down to `processLinkMessage`) and the links'
  handlers (`PolledEof`, `PolledLink`) follow, as the order of registration in
  the poller has it: this order is what loses data at a close. `Accept` is
  `ListenSide::polled`. `chan` is the FIFO of packets of each direction that
  `PacketStream` implements. A chunk is what one `read()` returned. `mode`
  records how a process has ended, or that it has left the protocol ("notFound",
  "unread", "dangling"). A packet `LINK_CREATE` with a result code is named after
  the code.
* `Poller` - the event loop with handlers that may add, remove (any entry, their
  own included), finish, return and throw. `due` and `cleaned` are history.
* `Handshake` - from `StdioTunnelLocal::start` to the first link packets. The
  channel holds pieces of typed input, text and packets in order; a packet of a
  link is the connection id it names. The recognition of the magic string is one
  step, with all that the same `read()` brings (`ReadMagic`): what follows the string
  there goes to stdout. Typed input that reaches the remote process is taken for a
  length. A remote process that cannot connect a link says so with `CMD_ERROR` (`Error`),
  which the local process prints; one that ends prints text (`Exits`), behind the
  beginning of a packet (`Cut`) if it was writing one.
* `PacketFifo`, `PacketStream` - the promise of one direction of the tunnel, and
  the streams byte by byte. `sent`, `whole` and `received` are history: the bodies
  sent, how many of them are written completely, and those that have filled `m_queue`.
  The abstract queue of the refinement is `Pending`, what was sent and not received;
  when the sender ends, packets that were not written completely leave it. A sender ends
  between two packets ("exited") or inside one ("cut"); behind its last byte comes a
  hangup (`ReaderHangup`) or, if it was started from a shell, text (`ShellText`).
* `ByteFifo`, `SockBuffer` - the same for the buffers. The mapping is
  `Waiting`: the unwritten part of `m_output_buf`, then `m_queue`.
* `MagicStringDetector` - extends `SockBuffer` as the class does. `readData` is a loop of
  `Reads` (one `read()`), `ProcessChar` (one turn of the loop of `processReadData`) for
  each character, and `Inserts` (the characters go into `m_queue`; a full buffer
  makes it read on); nothing else of the process runs meanwhile. The members `m_recognized_count` and `m_recognized_login_count` survive from
  buffer to buffer; `handshakes` and `commands` record where a match was seen.
* `CommandLine` - from `argv` to the specs the remote process works with. The first scan
  (`CreateTunnel`) finds out which tunnel is wanted, the second one
  (`configure`) the specs and the command; `stopped` and `m_command` are where each
  of them thinks the command begins. An argument is an option letter with or
  without a value; a value is what `parseConnection` finds in it. Each turn of the loop of
  `start` is a step (`StartConnection`), and so is each of the loop of `startHandshaking`
  (`WriteConnection`): `m_queue` grows by the bytes of one connection, with shorts of 16
  and lengths of 32 bits. `RemoteReadsCount` and `RemoteReadsSpec` read them back. Which
  ports can be bound, on either side, and whether the socks server can be set up are free
  choices.
* `Socks5Server` - the event loop's handler (`Polled`, then `CollectTest` and
  `CollectJoin` for each entry, then `PolledFails`, `PolledRejects` or
  `PolledAccepts`) and one thread per client, from `socks5_handshake` through
  `copyloop` to the end of `socks5_clientthread`. `connect_socks_target`'s checks
  of a request are modelled on its length and fields; whether the target can be
  reached is a free choice. Data are counted in pieces; a blocked `write()` is an
  action that is not enabled. Clients and targets read when they want to. A client's name
  stands for one client after the other: it connects again once its entry is freed.
* `MC...` - values of the constants for TLC.
* `...Proofs` - the theorems about the module of that name; `LinkDataProofs` has those
  about the data of links in `TunnelConnection`, `SockBufferProofs` also those about
  `MagicStringDetector`.

How they fit together: `SockBuffer` justifies `m_buffer` as a sequence of chunks in
`TunnelConnection` and the counters of `Handshake`; `PacketStream` justifies `chan`
and the queues of `Handshake`; `Poller` justifies that every reported handler has
its turn (the fairness of handlers in `TunnelConnection`); `Handshake` ends in the
state in which `TunnelConnection` begins, with the connections `CommandLine` delivers;
`MagicStringDetector` justifies its one step for the recognition of the magic
string. A socks client is a link of `TunnelConnection` whose target is `Socks5Server`;
`JoinsFinished` is why that target never stops the loop that serves the link.

Definitions named "Variant" in a comment are altered copies of an operation, used
only to see that the properties would catch the alteration.

## 3. Runs

| Run | Shows |
|---|---|
| `links` | an acknowledged -L connection with two chunks each way and a plain -R connection with three, the single link id of each used twice: types, `LookupsSucceed`, `LinkProtocol`, `NoHalfOpen`, `StopAndWait`, `PollsForWork`, `DataInOrder` |
| `link_progress` | liveness as long as both processes run: `CloseCompletes`, `AckArrives` |
| `poller` | every ready entry has exactly one turn, no index out of range, all entries are cleaned up; a finish request ends the loop |
| `handshake` | `ConnectionKnown`, `ConnectedAgree`, `InputBeforePackets`; liveness: `HandshakeEnds`, `OutputShown` |
| `packets` | `PacketStream` implements `PacketFifo`; no bad length, no overrun of `m_read_buf`; every packet arrives; the end of the sender between two packets is noticed (`EndNoticed`), and only one inside a packet misleads (`OnlyCutMisleads`) |
| `terminal` | `HandshakeDetected` and `CommandSentOnce` for every text and every way to cut it; `SockBuffer` implements `ByteFifo` meanwhile, and its last byte is written |
| `startup` | `ScansAgree`, `SpecsArrive`, `SocksAgree` for every command line of four arguments |
| `socks` | `Owned`, `JoinsFinished`; liveness: `Reclaims`, `GoneEnds`, `ReapedUnlessBlocked` |
| `close_drops_data` | violation: LINK_CLOSE closes a socket with unwritten data |
| `signal_lost` | violation: a signal just before `poll()` is not noticed |
| `early_client` | violation: a client before the handshake makes it fail |
| `socks_idle` | violation: an idle connection is not reaped while its thread is in `write()` |

### Bounds

`MaxAccepts`, `MaxChunks`, `MaxTyped`, `MaxPrinted`, `MaxSends`, `MaxBytes`, `MaxText`,
`MaxArgs`, `MaxPieces` and `MaxBody` bound what users, clients and targets do; they appear
only in guards of the actions that start something new.

* Links: one link id used twice (`IdModulus = 1`, `MaxAccepts = 2`) makes an old
  LINK_CLOSE meet a new LINK_CREATE of the same id; two chunks make a full and a
  refilled buffer; three chunks a chunk behind a partly drained buffer. A behaviour of `links` uses one of the two
  connections (`MCSpec`), which is how both branches of the code, with and without
  acknowledgements, fit one run (570,150 states). Several connections that share the
  FIFOs are covered by the proofs, not by a run.
* Poller: four entries, two registered at first and an array of one, let a handler
  remove an entry before, at and behind its own, in and behind the pass, and make the
  array grow.
* Handshake: two pieces typed and two printed put text before and behind the magic
  string, and input before and behind its recognition; one connection for each
  direction.
* Packets: `Base = 2` makes lengths of up to three need more than one length byte;
  `READ_SIZE = 5` makes the read buffer grow; `MAX_LENGTH = 3` puts the longest packet
  at the limit.
* Terminal: `BUFFER_SIZE = 3` with six bytes gives refills below, at and above the limit.
  Five characters of an alphabet of two, a magic string `ab` and a login pattern `aa`: each
  string can follow a beginning of itself, be half met when the other one is, be cut
  at the buffer's end, and occur twice, also within one call of `readData`.
* Start-up: four arguments hold two options with their values, or one in front of a
  command that has options itself. The ports are small, 40000 (negative as a
  short), 65535, 65536 and 65558 (22 with one bit too many).
* Socks: three clients that come again and again and `blockitems = 1` make the list grow,
  and `collect` delete items before, between and behind those of threads that still
  run. The third client sends no greeting, and data is sent only by the first
  client and its target while the others are away (`MCSpec`): what is on the list does
  not depend on the data, nor the data of one client on that of another.
  `SocketSize = 1` with two pieces from the client and one from the target fills all that
  lies between them when one of them does not read.

Deadlock is not checked where a process may end for good, which is everywhere.

### Fairness

Only what `poll()` and the loop give is assumed. A handler that was reported is
called, because `pollOnce` finishes its pass (`Poller`: `PassComplete`). `poll()` is
level-triggered, so a tunnel that stays readable is reported again and again; it gets strong fairness because a pass of other handlers may be under
way in between. A socket with a reader at its other end becomes writable again and
again, and then takes a chunk. `readData` returns, as `read()` does not wait
(O_NONBLOCK). A channel passes on bytes. Threads of the socks server are scheduled, and
a timeout of `copyloop` comes if nothing else does. Nothing is assumed about what clients,
targets, users, signals or `accept()` do of themselves, not even that peers of the socks
server read: `GoneEnds` and `ReapedUnlessBlocked` name the thread that stays in `write()`.
`Reclaims` is conditional on clients that keep connecting, because only then is `collect`
called.

How one process learns of the end of the other is the subject of `packets`. There the
assumption is that something follows the last byte of a sender that has ended: the channel
is closed (POLLHUP, or `read()` returning 0), or a shell goes on to write at least the
four bytes that `fill` takes for a length. `link_progress` assumes nothing of the kind: its
properties hold as long as both processes run. In `Handshake` the last text of a remote
process is that of `main`.

## 4. Findings

1. `LINK_CLOSE` closes the socket at once, with data of earlier packets still in
   `m_buffer` (`StdioTunnel.cpp:1095`, `close_drops_data`).
2. A signal between the callback and `poll()` waits for the next event
   (`Poller.cpp:93`, `signal_lost`).
3. A client accepted before the handshake puts its packet in front of `CMD_CREATE`
   and the remote process gives up (`StdioTunnel.cpp:691`, `early_client`).
4. "inactive connections are reaped after 15 min" (`StdioTunnel.cpp:962`), but `write()` in
   `copyloop` has no timeout: when a client or a target stops reading, the thread and its
   sockets stay (`StdioTunnel.cpp:985`, `socks_idle`).

Seen while modelling; the properties name these cases as their exceptions:

* `m_link_map[next_id] = link` does not ask whether the truncated id is in use
  (`StdioTunnel.cpp:1179`). The safety properties of the protocol are stated for
  states in which this has not happened; `LookupsSucceed` says when it can.
* A magic string or login pattern that follows a beginning of itself is missed: after a
  mismatch the character is not tried again (`StdioTunnel.cpp:341`, `CleanAt`).
* A magic string that ends in a full buffer does not end `readData`: it reads on, and
  what comes then may complete a login pattern that was half met, so that the remote
  command is written in front of the queued `CMD_CREATE` (`StdioTunnel.cpp:347`, `SockBuffer.cpp:40`,
  `early` in `CommandSentOnce`). It takes output behind the magic string, which the
  remote process does not write. The attempt to prove that commands are
  sent only where the pattern is has shown this case.
* A connect port of 65536 and no host is an ordinary connection to the local process and
  a socks server to the remote one (`StdioTunnel.cpp:700`, `SocksAgree`).
* With 32768 connections or more the count of `CMD_CREATE` is negative when it is read: the
  remote process creates none and is CONNECTED (`StdioTunnel.cpp:382`, `CountFits` in
  `SpecsArrive` and `SocksAgree`). The attempt to prove `SpecsArrive` for any
  number of connections has shown that it needs this bound.
* If the client goes away while its target is being connected, the target's socket is
  never closed (`StdioTunnel.cpp:949`, "lost" in `Socks5Server`); if `pthread_create`
  fails, the client's socket and its entry are not (`StdioTunnel.cpp:1028`,
  "failed").
* "The connection is shut down when you kill the StdioTunnel process at either end"
  (`src/README:30`) does not hold for a remote process that a shell has started and that
  ends in the middle of writing a packet: `fill` takes the text that follows for the
  missing bytes and may wait for more of them for ever (`ReadStream.cpp:116`, "misled" in
  `PacketStream`, `WaitsForRest` in `Handshake`). `OnlyCutMisleads` and `EndNoticed` say
  that no other end is missed.
* `readData` takes everything that is there. If a remote process ends so early that its
  last words are read together with the magic string, they go to stdout; no text is
  left to be rejected as a packet, and HAND_SHAKE waits until something else is
  printed (`StdioTunnel.cpp:590`, the last case of `HandshakeEnds`).

These are exceptions, so the properties that name them do not catch them: `SocksAgree`
and `SpecsArrive` are silent on ports from 65536 on and on 32768 connections, `Owned`
on a lost target socket, and a failed `pthread_create` leaves an entry that satisfies it.

Outside the models: `m_is_terminal` is not set when `tcgetattr` fails, and read
all the same (`StdioTunnel.cpp:191`); `WritePacket` stores eight bytes into a buffer that may have six
(`WriteStream.cpp:17`); `CMD_SHUTDOWN` is only ever sent by a process that has received
it, so `startFinish` never sends one; `readBytes` leaves a stray data packet in
`m_queue` if its link is unknown (never, by `LookupsSucceed`); `-s` tries only the
ports of the `-L` options behind it; a socks client that sends its greeting and its
request at once is not answered, because `recv()` returns both and only the first is
looked at; a NUL behind a magic string that ends in a full buffer would match the NUL at
the end of `m_magic_string` and start the handshake again (`StdioTunnel.cpp:336`: texts
with a NUL are left out of `MagicStringDetector`).

## 5. Proofs

`TunnelConnectionProofs` proves, for any connections, number of ids, links and
chunks, that types hold, that `LinkProtocol`, `LookupsSucceed` and `NoHalfOpen` are
invariants. `LinkProtocol` is nearly inductive by itself: `KeyFits(k)` relates the states
of both ends of a link to the packets of that link in both FIFOs. It has three
parts, `PacketOrder` (what may follow what in a FIFO), `Creation` and `Closing`. It
is not enough alone: that a new id meets no link in use needs `FreshIds` (an id at
or above `m_next_id` is absent at the listening side), and everything holds only
until an id is reused under a live link, so the inductive invariant is

    IInv == TypeOK /\ (NothingDangling => Orderly) /\ (NothingDangling \/ Wrapped)

with `Orderly` = process states, `KeyFits` for all keys, `FreshIds`. The proof
abstracts each step of a FIFO to what `Has` and `NoneAfter` see of it (`Appended`,
`Consumed`, `Kept`), proves one lemma per step of a link on that level (`Fits...`),
and one lemma per action above it. Assumption: `ConstantsAssumption` (types of the constants,
at least one id).

`PollerProofs` proves all safety properties of `Poller` for any entries. The invariant
adds to `InBounds` that entries are distinct, and states `due` exactly in terms
of positions; `RemovePolled` is the heart, with a case for each place of the removed entry.
Assumption: `PollerAssumption` (distinct first entries, array not empty).

`LinkDataProofs` builds on the first of these. Its invariant `DataInv` says, for each
end of each link as long as no link in use was overwritten: the poll request fits
the buffer and the state of the acknowledgement (`PollAs`); of the packets that ask for an
acknowledgement and the answers, one at most is in flight, and none is while the end may
read (`AckAs`); and what the end has, followed by the chunks in the FIFO towards it, is
what the other end has read from its socket (`DataAs`, `Carries`). `PollsForWork` alone
is not inductive, because `revents` of an earlier `poll()` may still say POLLIN when
an acknowledgement is owed: `PollAs` excludes that. `DataInOrder` needs the chunks
in flight, `StopAndWait` the order of LINK_CLOSE and data from `LinkProtocol`. Each
part is proved per step of a link on the state of one end and two FIFOs, then for every
action.

`HandshakeProofs` proves the types, `ConnectionKnown`, `ConnectedAgree` and
`InputBeforePackets`. The invariant adds that a packet names only connections that both
have or will have (`Travels`, with `Known`), in which states packets may be under
way (`Begun`), that nothing is answered before `CMD_CREATE` was read (`Unanswered`), and
that the remote map is the local one but for listeners that could not be
initialised there (`MapsAgree`). Assumption:
`HandshakeAssumption` (types of the constants).

`PacketStreamProofs` proves that the streams implement `PacketFifo`, that no four bytes
are mistaken for a length and that `fill` stays inside `m_read_buf`, for every base,
buffer size and set of bodies. The invariant speaks of the bytes that are read or
written and not yet turned into packets: there is a function `cut`, one position
per packet, with the bytes of packet `n` between `cut[n-1]` and `cut[n]`
(`Layout`); the sender's queue holds the packets behind them (`Queued`); `m_read_buf` is
a proper beginning of the first (`Reading`). That positions merely *exist* replaces
a recursive parser, about which nothing could be proved. For `OnlyCutMisleads` the
invariant also tells a sender that ended inside a packet from one that did not: unless it
is "cut", the bytes end where a packet does, so a reader that has read them all has none
of a packet in hand (`WholeAtEnd`). Assumption: `StreamAssumption`
(bodies are not empty and fit `MAX_LENGTH`, `MAX_LENGTH` fits four digits, `READ_SIZE`
holds a length).

`SockBufferProofs` proves the refinement of `ByteFifo` by `SockBuffer`, and by
`MagicStringDetector`, with its types. `TypeOK` is inductive; the refinement has one
lemma for the bytes taken by a refill and one for a partial write. It also proves
`HandshakeDetected` and `CommandSentOnce`, for any strings, texts and cuts. That a count
of characters matches the end of the text is not enough to show that no clean
occurrence is missed; `Tracks` adds that whenever the string begins at a place where no
beginning of it ends, and all text since then belongs to it, the count is the length of
that text. Up to the first handshake this is kept by every character (`TracksNext`,
`TracksLost`); afterwards only the first part is (`MagicAs`, `LoginAs`). Assumptions:
`BufferAssumption`, `DetectorAssumption` (the magic string is not empty).

`Socks5ServerProofs` proves `Owned` and `JoinsFinished` for any number of clients. The
invariant relates `pc` of a thread to its entry, its sockets and its `done`
(`Entry`), says that the list holds exactly the allocated entries, once each (`Listed`), and
that `collect` joins an entry whose `done` is set (`Loop`): a thread sets `done` as its
last access to the entry. A client's name connects again only when its entry is no longer
allocated, so the name is off the list (`ClientConnectsIInv`).

`CommandLineProofs` proves `ScansAgree` for command lines of any length. When the second
scan starts, the first has forgotten which arguments it looked at; the invariant says
that a set of positions exists that is closed under the steps of the first scan, and on which
only the argument it stopped at begins a command (`Walk`). The second scan stays in it.

It also proves `SpecsArrive` and `SocksAgree`, for any connections and hosts of any
length. The invariant is `CreateInv`. `SpecsInv` says what `parseConnection` returns and
that `socks5_spec_count` tells no, one and several socks specs apart; `MapInv` that the
local map holds some of these specs, in order, under the ids that are their positions.
`WireInv` says what `CMD_CREATE` holds: there are positions `cut` in it such that entry
`n` lies between `cut[n-1]` and `cut[n]` (`Framed`), and, once the remote process has
created `n` connections, it is at `cut[n]`. As for `PacketStream`, the positions are not
computed: writing an entry extends them (`FrameGrows`), reading one moves on to the next
(`FrameFront`). That a whole entry is read, and what it is read as, is `Decode`, which
rests on lemmas about each field: `ShortRead` (a short comes back modulo 65536,
sign-extended), `LongRead`, `Layout` (where the fields of an entry are). `ArriveInv`
says that what is created are the first entries of the map, and where the socks server
comes from; stage "second" would need two entries with different ids, so two socks
specs, which `configure` has refused. Assumptions: `ArgsAssumption` (types of the
arguments; a host is no longer than an `int` can say: that the whole of `CMD_CREATE`
fits a packet, of which `PacketStream` knows the limit, is not part of this model) and
`BoundsAssumption` (the number of arguments is natural, the SOCKS port is a port).

Only model-checked, and why:

* all liveness properties: the prover has neither fairness nor ENABLED;
* that nothing deadlocks.

## 6. Not modelled

* The replacement of `poll()` by `select()` in `Poller.cpp`: it is compiled only for
  platforms without `poll()` (`PollConfig.h`), and stands for it.
* Terminal modes, forking, daemon mode and descriptor flags: they change no state of
  the protocol.
* `resolve()` and `server_setup()` of microsocks are system calls in a row; they are
  taken by their outcome (the `connected` and `setup` choices).
* `Trace`, `MyException`, `StderrEndl`: wording and logging.
* `poll()` errors other than EINTR end the process (`PollThrows`). `CMD_SHUTDOWN`
  cannot occur. Output of the remote process on stderr while it runs is excluded, as
  the manual demands. Failing `malloc` and `new` are left out.

## 7. Plan

All components that keep state are modelled, and every safety property and every refinement
that a run checks is proved. What is left is what the prover cannot do: the liveness
properties stay with TLC.
