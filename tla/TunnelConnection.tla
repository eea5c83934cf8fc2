--------------------------- MODULE TunnelConnection ---------------------------
(***************************************************************************)
(* The link protocol between the two StdioTunnel processes once both are   *)
(* CONNECTED: ListenSide, ConnectSide and ConnectionLink of                *)
(* src/com/antlersoft/stdio_tunnel/StdioTunnel.cpp, driven by the pass of  *)
(* Poller::pollOnce that calls their handlers.                             *)
(*                                                                         *)
(* A link is one forwarded TCP connection.  Its key is the pair            *)
(* (connection id, link id) that every CMD_CONNECTION packet carries.      *)
(* Each process is single-threaded; the two run concurrently and share     *)
(* only the two packet FIFOs.  Bytes read from a socket in one read() are  *)
(* a chunk, numbered in the order in which they were read.                 *)
(***************************************************************************)
EXTENDS Integers, Sequences, FiniteSets

CONSTANTS
  Conns,        \* connection ids, the keys of m_connection_map
  ListenAt,     \* side at which CreateConnection makes the ListenSide
  AckPackets,   \* connections whose spec has the ACK_PACKETS flag
  IdModulus,    \* number of values of a short (65536)
  MaxAccepts,   \* bound: connections accepted per listener
  MaxChunks     \* bound: chunks read from one socket of a connection

Side == {"local", "remote"}

ASSUME ConstantsAssumption ==
  /\ ListenAt \in [Conns -> Side]
  /\ AckPackets \subseteq Conns
  /\ IdModulus \in Nat \ {0}
  /\ MaxAccepts \in Nat
  /\ MaxChunks \in [Conns -> Nat]

Peer(s) == IF s = "local" THEN "remote" ELSE "local"

LinkId == 0 .. IdModulus - 1
Key == Conns \X LinkId

(***************************************************************************)
(* A result packet is LINK_CREATE followed by a result code; it is named   *)
(* here after the code, which tells it from the request.                   *)
(***************************************************************************)
Command == {"CMD_ERROR", "LINK_CREATE", "LINK_SUCCESS", "LINK_FAILURE",
            "LINK_SEND", "LINK_SEND_FOR_ACK", "LINK_ACK", "LINK_CLOSE"}
Packet == [key : Key, cmd : Command, chunk : Nat]

PollEvent == {"POLLIN", "POLLOUT", "POLLHUP"}

VARIABLES
  mode,           \* per side: "running"; "exited" (exception or signal);
                  \* "notFound" (ListenSide threw: no such link); "unread"
                  \* (ConnectSide returned and left packet bytes in m_queue);
                  \* "dangling" (a link in use was dropped from m_link_map,
                  \* the poller may hold a pointer to it)
  chan,           \* per side: packets sent to it and not yet read
  tunnelReady,    \* per side: the tunnel fd is still to be handled this pass
  m_next_id,      \* per connection: links accepted so far (501 in the code
                  \* is 0 here)
  linkState,      \* "absent": not in m_link_map; "pending": in it, not yet
                  \* polled; "open": polled; "closing": m_closing
  m_acknowledged,
  m_buffer,       \* chunks received and not yet written to the socket
  events,         \* events field of the link's pollfd
  revents,        \* result of the last poll() not yet handled
  nread,          \* history: chunks read from the socket
  delivered       \* history: chunks written to the socket

vars == <<mode, chan, tunnelReady, m_next_id, linkState, m_acknowledged,
          m_buffer, events, revents, nread, delivered>>

TypeOK ==
  /\ mode \in [Side -> {"running", "exited", "notFound", "unread", "dangling"}]
  /\ chan \in [Side -> Seq(Packet)]
  /\ tunnelReady \in [Side -> BOOLEAN]
  /\ m_next_id \in [Conns -> 0 .. MaxAccepts]
  /\ linkState \in [Side -> [Key -> {"absent", "pending", "open", "closing"}]]
  /\ m_acknowledged \in [Side -> [Key -> BOOLEAN]]
  /\ m_buffer \in [Side -> [Key -> Seq(Nat)]]
  /\ events \in [Side -> [Key -> SUBSET {"POLLIN", "POLLOUT"}]]
  /\ revents \in [Side -> [Key -> SUBSET PollEvent]]
  /\ nread \in [Side -> [Key -> Nat]]
  /\ delivered \in [Side -> [Key -> Seq(Nat)]]

Init ==
  /\ mode = [s \in Side |-> "running"]
  /\ chan = [s \in Side |-> <<>>]
  /\ tunnelReady = [s \in Side |-> FALSE]
  /\ m_next_id = [c \in Conns |-> 0]
  /\ linkState = [s \in Side |-> [k \in Key |-> "absent"]]
  /\ m_acknowledged = [s \in Side |-> [k \in Key |-> TRUE]]
  /\ m_buffer = [s \in Side |-> [k \in Key |-> <<>>]]
  /\ events = [s \in Side |-> [k \in Key |-> {}]]
  /\ revents = [s \in Side |-> [k \in Key |-> {}]]
  /\ nread = [s \in Side |-> [k \in Key |-> 0]]
  /\ delivered = [s \in Side |-> [k \in Key |-> <<>>]]

-------------------------------------------------------------------------------
(***************************************************************************)
(* Helpers.                                                                *)
(***************************************************************************)
Msg(k, cmd, n) == [key |-> k, cmd |-> cmd, chunk |-> n]

IsAck(k) == k[1] \in AckPackets
ListenSideOf(k) == ListenAt[k[1]]

\* Conversion of int m_next_id to the short that names the link.
ToShort(n) == n % IdModulus

\* CustomWriteStream::send
Send(s, m) == [chan EXCEPT ![Peer(s)] = Append(@, m)]

\* The packet read is consumed, and answered with m.
Consume(s) == [chan EXCEPT ![s] = Tail(@)]
Reply(s, m) == [chan EXCEPT ![s] = Tail(@), ![Peer(s)] = Append(@, m)]

\* Poller::setEvents finds nothing to set for a link that is not polled.
SetEvents(s, k, ev) ==
  IF linkState[s][k] = "open" THEN [events EXCEPT ![s][k] = ev] ELSE events

\* Variants for testing the properties: POLLHUP is asked for; unsent data is forgotten.
WantedHup(ack, buf) == (IF ack THEN {"POLLIN"} ELSE {}) \cup {"POLLHUP"}
WantedIn(ack, buf) == IF ack THEN {"POLLIN"} ELSE {}

\* Events wanted by ConnectionLink::setAcknowledged.
Wanted(ack, buf) == (IF ack THEN {"POLLIN"} ELSE {})
                      \cup (IF buf # <<>> THEN {"POLLOUT"} ELSE {})

InMap(s, k) == linkState[s][k] # "absent"

PassOver(s) == ~tunnelReady[s] /\ \A k \in Key : revents[s][k] = {}

Running(s) == mode[s] = "running"

\* m_link_map[k] = a new ConnectionLink.  Assigning over a link in use destroys
\* that object while the poller still has its address.
NewLink(s, k, st) ==
  /\ mode' = [mode EXCEPT ![s] = IF InMap(s, k) THEN "dangling" ELSE @]
  /\ linkState' = [linkState EXCEPT ![s][k] = st]
  /\ m_acknowledged' = [m_acknowledged EXCEPT ![s][k] = TRUE]
  /\ m_buffer' = [m_buffer EXCEPT ![s][k] = <<>>]
  /\ events' = [events EXCEPT ![s][k] = IF st = "open" THEN {"POLLIN"} ELSE {}]
  /\ nread' = [nread EXCEPT ![s][k] = 0]
  /\ delivered' = [delivered EXCEPT ![s][k] = <<>>]

\* m_link_map.erase: the last reference, the object is destroyed.
EraseLink(s, k) ==
  /\ linkState' = [linkState EXCEPT ![s][k] = "absent"]
  /\ m_acknowledged' = [m_acknowledged EXCEPT ![s][k] = TRUE]
  /\ m_buffer' = [m_buffer EXCEPT ![s][k] = <<>>]
  /\ events' = [events EXCEPT ![s][k] = {}]
  /\ revents' = [revents EXCEPT ![s][k] = {}]
  /\ UNCHANGED <<nread, delivered>>

\* ConnectionLink::setClosing: the socket is closed, the entry leaves the poller.
SetClosing(s, k) ==
  /\ linkState' = [linkState EXCEPT ![s][k] = "closing"]
  /\ events' = [events EXCEPT ![s][k] = {}]
  /\ revents' = [revents EXCEPT ![s][k] = {}]

-------------------------------------------------------------------------------
(***************************************************************************)
(* One pass of the poller.  poll() reports any non-empty part of what the  *)
(* registered entries ask for, and POLLHUP/POLLERR unasked.  The tunnel    *)
(* fds are registered before any link, so their handler runs first; the    *)
(* handlers of the links follow.  Packets may still be on their way, so    *)
(* the tunnel fd need not be readable when chan is not empty.              *)
(***************************************************************************)
Poll(s, t, R) ==
  /\ Running(s)
  /\ PassOver(s)
  /\ t => chan[s] # <<>>
  /\ \A k \in Key : R[k] \subseteq IF linkState[s][k] = "open"
                                     THEN events[s][k] \cup {"POLLHUP"} ELSE {}
  /\ t \/ \E k \in Key : R[k] # {}
  /\ tunnelReady' = [tunnelReady EXCEPT ![s] = t]
  /\ revents' = [revents EXCEPT ![s] = R]
  /\ UNCHANGED <<mode, chan, m_next_id, linkState, m_acknowledged, m_buffer,
                 events, nread, delivered>>

-------------------------------------------------------------------------------
(***************************************************************************)
(* ListenSide::polled                                                      *)
(***************************************************************************)
Accept(c) ==
  LET s == ListenAt[c]
      k == <<c, ToShort(m_next_id[c])>>
  IN  /\ Running(s)
      /\ m_next_id[c] < MaxAccepts
      /\ m_next_id' = [m_next_id EXCEPT ![c] = @ + 1]
      /\ NewLink(s, k, "pending")
      /\ chan' = Send(s, Msg(k, "LINK_CREATE", 0))
      /\ UNCHANGED <<tunnelReady, revents>>

(***************************************************************************)
(* ConnectionLink::polled.  read() returning 0 or an error closes the link *)
(* and returns at once.  Otherwise the POLLIN, POLLOUT and POLLHUP blocks  *)
(* run in this order: a chunk is sent, SockBuffer::writeData passes on the *)
(* n oldest chunks, the link is closed.  A write() of part of a chunk      *)
(* leaves the state that follows a poll() without POLLOUT.                 *)
(***************************************************************************)
LinkTurn(s, k) ==
  Running(s) /\ ~tunnelReady[s] /\ linkState[s][k] = "open" /\ revents[s][k] # {}

PolledEof(s, k) ==
  /\ LinkTurn(s, k)
  /\ "POLLIN" \in revents[s][k]
  /\ SetClosing(s, k)
  /\ chan' = Send(s, Msg(k, "LINK_CLOSE", 0))
  /\ UNCHANGED <<mode, tunnelReady, m_next_id, m_acknowledged, m_buffer, nread,
                 delivered>>

\* Variant: the buffer of the read before is sent.
SendDataStale(s, k) ==
  Send(s, Msg(k, IF IsAck(k) THEN "LINK_SEND_FOR_ACK" ELSE "LINK_SEND", nread[s][k]))

\* sendData and setAcknowledged(false) of the POLLIN block.
SendData(s, k) ==
  Send(s, Msg(k, IF IsAck(k) THEN "LINK_SEND_FOR_ACK" ELSE "LINK_SEND",
              nread[s][k] + 1))

PolledLink(s, k, n) ==
  LET in   == "POLLIN" \in revents[s][k]
      hup  == "POLLHUP" \in revents[s][k]
      ack  == m_acknowledged[s][k] /\ ~(in /\ IsAck(k))
      rest == SubSeq(m_buffer[s][k], n + 1, Len(m_buffer[s][k]))
      sent == IF in THEN SendData(s, k) ELSE chan
  IN  /\ LinkTurn(s, k)
      /\ in => nread[s][k] < MaxChunks[k[1]]
      /\ IF "POLLOUT" \in revents[s][k] THEN n \in 1 .. Len(m_buffer[s][k]) ELSE n = 0
      /\ nread' = [nread EXCEPT ![s][k] = IF in THEN @ + 1 ELSE @]
      /\ m_acknowledged' = [m_acknowledged EXCEPT ![s][k] = ack]
      /\ m_buffer' = [m_buffer EXCEPT ![s][k] = rest]
      /\ delivered' = [delivered EXCEPT ![s][k] = @ \o SubSeq(m_buffer[s][k], 1, n)]
      /\ chan' = IF hup THEN [sent EXCEPT ![Peer(s)] = Append(@, Msg(k, "LINK_CLOSE", 0))]
                        ELSE sent
      /\ linkState' = [linkState EXCEPT ![s][k] = IF hup THEN "closing" ELSE @]
      /\ events' = [events EXCEPT ![s][k] =
                      IF hup THEN {}
                      ELSE IF (in /\ IsAck(k)) \/ (n > 0 /\ rest = <<>>)
                        THEN Wanted(ack, rest) ELSE @]
      /\ revents' = [revents EXCEPT ![s][k] = {}]
      /\ UNCHANGED <<mode, tunnelReady, m_next_id>>

-------------------------------------------------------------------------------
(***************************************************************************)
(* processMessage: one packet per pass, from StdioTunnelLocal::polled or   *)
(* StdioTunnelRemote::polled through m_connection_map.                     *)
(***************************************************************************)
Receives(s, m) ==
  /\ Running(s)
  /\ tunnelReady[s]
  /\ chan[s] # <<>>
  /\ m = Head(chan[s])
  /\ tunnelReady' = [tunnelReady EXCEPT ![s] = FALSE]

\* A packet for a link that is not in m_link_map.  ListenSide throws; ConnectSide
\* returns, and leaves the length and the bytes of a data packet in m_queue.
Stray(s, m) ==
  /\ mode' = [mode EXCEPT ![s] =
                IF ListenSideOf(m.key) = s THEN "notFound"
                ELSE IF m.cmd \in {"LINK_SEND", "LINK_SEND_FOR_ACK"} THEN "unread"
                ELSE @]
  /\ chan' = Consume(s)
  /\ UNCHANGED <<linkState, m_acknowledged, m_buffer, events, revents, nread,
                 delivered>>

\* StdioTunnelLocal::reportError prints the text; no state changes.
RcvError(s, m) ==
  /\ Receives(s, m)
  /\ m.cmd = "CMD_ERROR"
  /\ chan' = Consume(s)
  /\ UNCHANGED <<mode, m_next_id, linkState, m_acknowledged, m_buffer, events,
                 revents, nread, delivered>>

\* ConnectSide::processMessage, LINK_CREATE: the connect() succeeds ...
RcvCreateOk(s, m) ==
  /\ Receives(s, m)
  /\ m.cmd = "LINK_CREATE"
  /\ NewLink(s, m.key, "open")
  /\ revents' = [revents EXCEPT ![s][m.key] = {}]
  /\ chan' = Reply(s, Msg(m.key, "LINK_SUCCESS", 0))
  /\ UNCHANGED m_next_id

\* Variant: a failed connect() is not answered.
RcvCreateFailSilent(s, m) ==
  /\ Receives(s, m)
  /\ m.cmd = "LINK_CREATE"
  /\ chan' = Consume(s)
  /\ UNCHANGED <<mode, m_next_id, linkState, m_acknowledged, m_buffer, events,
                 revents, nread, delivered>>

\* ... or the lookup, socket, connect or fcntl fails.  reportError sends a
\* CMD_ERROR packet from the remote side and prints on the local side.
RcvCreateFail(s, m) ==
  /\ Receives(s, m)
  /\ m.cmd = "LINK_CREATE"
  /\ LET failure == Msg(m.key, "LINK_FAILURE", 0)
         report == Msg(m.key, "CMD_ERROR", 0)
     IN  chan' = IF s = "remote"
                   THEN [Reply(s, report) EXCEPT ![Peer(s)] = Append(@, failure)]
                   ELSE Reply(s, failure)
  /\ UNCHANGED <<mode, m_next_id, linkState, m_acknowledged, m_buffer, events,
                 revents, nread, delivered>>

\* ListenSide::processMessage, LINK_CREATE with LINK_SUCCESS: addPolled.
RcvSuccess(s, m) ==
  /\ Receives(s, m)
  /\ m.cmd = "LINK_SUCCESS"
  /\ IF InMap(s, m.key)
       THEN /\ linkState' = [linkState EXCEPT ![s][m.key] = "open"]
            /\ events' = [events EXCEPT ![s][m.key] = {"POLLIN"}]
            /\ chan' = Consume(s)
            /\ UNCHANGED <<mode, m_acknowledged, m_buffer, revents, nread,
                           delivered>>
       ELSE Stray(s, m)
  /\ UNCHANGED m_next_id

\* ... with LINK_FAILURE: the accepted socket is closed and forgotten.
RcvFailure(s, m) ==
  /\ Receives(s, m)
  /\ m.cmd = "LINK_FAILURE"
  /\ IF InMap(s, m.key)
       THEN /\ EraseLink(s, m.key)
            /\ chan' = Consume(s)
            /\ UNCHANGED mode
       ELSE Stray(s, m)
  /\ UNCHANGED m_next_id

\* TunnelConnection::receiveData: a closing link drops the bytes.
ReceiveData(s, m) ==
  IF linkState[s][m.key] # "closing"
    THEN /\ m_buffer' = [m_buffer EXCEPT ![s][m.key] = Append(@, m.chunk)]
         /\ events' = SetEvents(s, m.key, {"POLLOUT"})
    ELSE UNCHANGED <<m_buffer, events>>

RcvSend(s, m) ==
  /\ Receives(s, m)
  /\ m.cmd = "LINK_SEND"
  /\ IF InMap(s, m.key)
       THEN /\ ReceiveData(s, m)
            /\ chan' = Consume(s)
            /\ UNCHANGED <<mode, linkState, m_acknowledged, revents, nread,
                           delivered>>
       ELSE Stray(s, m)
  /\ UNCHANGED m_next_id

\* Variant: data is taken without an acknowledgement.
RcvSendForAckSilent(s, m) ==
  /\ Receives(s, m)
  /\ m.cmd = "LINK_SEND_FOR_ACK"
  /\ IF InMap(s, m.key)
       THEN /\ ReceiveData(s, m)
            /\ chan' = Consume(s)
            /\ UNCHANGED <<mode, linkState, m_acknowledged, revents, nread, delivered>>
       ELSE Stray(s, m)
  /\ UNCHANGED m_next_id

\* A closing link does not answer; it falls through to setAcknowledged(true).
RcvSendForAck(s, m) ==
  /\ Receives(s, m)
  /\ m.cmd = "LINK_SEND_FOR_ACK"
  /\ IF InMap(s, m.key)
       THEN /\ ReceiveData(s, m)
            /\ IF linkState[s][m.key] # "closing"
                 THEN /\ chan' = Reply(s, Msg(m.key, "LINK_ACK", 0))
                      /\ UNCHANGED m_acknowledged
                 ELSE /\ chan' = Consume(s)
                      /\ m_acknowledged' = [m_acknowledged EXCEPT ![s][m.key] = TRUE]
            /\ UNCHANGED <<mode, linkState, revents, nread, delivered>>
       ELSE Stray(s, m)
  /\ UNCHANGED m_next_id

\* ConnectionLink::setAcknowledged(true)
RcvAck(s, m) ==
  /\ Receives(s, m)
  /\ m.cmd = "LINK_ACK"
  /\ IF InMap(s, m.key)
       THEN /\ m_acknowledged' = [m_acknowledged EXCEPT ![s][m.key] = TRUE]
            /\ events' = SetEvents(s, m.key, Wanted(TRUE, m_buffer[s][m.key]))
            /\ chan' = Consume(s)
            /\ UNCHANGED <<mode, linkState, m_buffer, revents, nread, delivered>>
       ELSE Stray(s, m)
  /\ UNCHANGED m_next_id

\* Variants: every LINK_CLOSE is answered; none is.
RcvCloseAlways(s, m) ==
  /\ Receives(s, m)
  /\ m.cmd = "LINK_CLOSE"
  /\ IF InMap(s, m.key)
       THEN /\ EraseLink(s, m.key)
            /\ chan' = Reply(s, Msg(m.key, "LINK_CLOSE", 0))
            /\ UNCHANGED mode
       ELSE Stray(s, m)
  /\ UNCHANGED m_next_id

RcvCloseSilent(s, m) ==
  /\ Receives(s, m)
  /\ m.cmd = "LINK_CLOSE"
  /\ IF InMap(s, m.key)
       THEN EraseLink(s, m.key) /\ chan' = Consume(s) /\ UNCHANGED mode
       ELSE Stray(s, m)
  /\ UNCHANGED m_next_id

\* closeLink answers LINK_CLOSE unless this end has sent its own already.
RcvClose(s, m) ==
  /\ Receives(s, m)
  /\ m.cmd = "LINK_CLOSE"
  /\ IF InMap(s, m.key)
       THEN /\ EraseLink(s, m.key)
            /\ chan' = IF linkState[s][m.key] = "closing"
                         THEN Consume(s)
                         ELSE Reply(s, Msg(m.key, "LINK_CLOSE", 0))
            /\ UNCHANGED mode
       ELSE Stray(s, m)
  /\ UNCHANGED m_next_id

Process(s, m) ==
  \/ RcvError(s, m)
  \/ RcvCreateOk(s, m)
  \/ RcvCreateFail(s, m)
  \/ RcvSuccess(s, m)
  \/ RcvFailure(s, m)
  \/ RcvSend(s, m)
  \/ RcvSendForAck(s, m)
  \/ RcvAck(s, m)
  \/ RcvClose(s, m)

-------------------------------------------------------------------------------
(***************************************************************************)
(* The end of a process.                                                   *)
(***************************************************************************)
Exit(s) ==
  /\ mode' = [mode EXCEPT ![s] = "exited"]
  /\ UNCHANGED <<chan, tunnelReady, m_next_id, linkState, m_acknowledged,
                 m_buffer, events, revents, nread, delivered>>

\* write() on one socket fails: the exception of SockBuffer::writeData leaves
\* through Poller::start and main.
WriteThrows(s, k) ==
  /\ LinkTurn(s, k)
  /\ "POLLOUT" \in revents[s][k]
  /\ Exit(s)

\* accept() or fcntl() fails in ListenSide::polled.
AcceptThrows(c) == Running(ListenAt[c]) /\ Exit(ListenAt[c])

\* pollCallback sees g_signaled after a pass.
Signaled(s) == Running(s) /\ PassOver(s) /\ Exit(s)

\* POLLHUP on the tunnel fd ("Read pipe closed/invalid", "Stdin closed"), or text of
\* the shell that started the peer, taken for a length.  Packets not yet read may be
\* lost.  PacketStream says when the end of the peer is sure to be noticed.
TunnelClosed(s) == Running(s) /\ PassOver(s) /\ ~Running(Peer(s)) /\ Exit(s)

-------------------------------------------------------------------------------
PollSome(s) == \E t \in BOOLEAN, R \in [Key -> SUBSET PollEvent] : Poll(s, t, R)

Polled(s, k) ==
  \/ PolledEof(s, k)
  \/ \E n \in 0 .. MaxChunks[k[1]] : PolledLink(s, k, n)
  \/ WriteThrows(s, k)

ProcessMessage(s) == chan[s] # <<>> /\ Process(s, Head(chan[s]))

Next ==
  \/ \E c \in Conns : Accept(c) \/ AcceptThrows(c)
  \/ \E s \in Side : \/ PollSome(s)
                     \/ ProcessMessage(s)
                     \/ \E k \in Key : Polled(s, k)
                     \/ Signaled(s)
                     \/ TunnelClosed(s)

Spec == Init /\ [][Next]_vars

(***************************************************************************)
(* What the scheduling guarantees.  A handler that poll() reported is      *)
(* called: pollOnce runs its loop to the end.  poll() is level-triggered,  *)
(* so a tunnel fd that stays readable is reported sooner or later.  A      *)
(* program at a socket's other end goes on reading, so the socket becomes  *)
(* writable again and again.  Nothing is assumed about when programs       *)
(* connect, send or close, nor that the end of the peer is noticed.        *)
(***************************************************************************)
Handler(s) == ProcessMessage(s) \/ \E k \in Key : Polled(s, k)
ReadableTunnel(s) == \E R \in [Key -> SUBSET PollEvent] : Poll(s, TRUE, R)
WritableSocket(s, k) ==
  \E t \in BOOLEAN, R \in [Key -> SUBSET PollEvent] :
    "POLLOUT" \in R[k] /\ Poll(s, t, R)

Fairness ==
  \A s \in Side : /\ WF_vars(Handler(s))
                  /\ SF_vars(ReadableTunnel(s))
                  /\ \A k \in Key : SF_vars(WritableSocket(s, k))

FairSpec == Spec /\ Fairness

-------------------------------------------------------------------------------
(***************************************************************************)
(* Properties.                                                             *)
(***************************************************************************)
\* No link in use has been overwritten: what the processes do is defined.
NothingDangling == \A s \in Side : mode[s] # "dangling"

\* Packet m is one of the commands S of link k.
IsFor(m, k, S) == m.key = k /\ m.cmd \in S
Has(q, k, S) == \E i \in 1 .. Len(q) : IsFor(q[i], k, S)
Count(q, k, S) == Cardinality({i \in 1 .. Len(q) : IsFor(q[i], k, S)})

\* After a packet of S for link k comes none of T.
NoneAfter(q, k, S, T) ==
  \A i, j \in 1 .. Len(q) : i < j /\ IsFor(q[i], k, S) => ~IsFor(q[j], k, T)

(***************************************************************************)
(* How the two ends of link k and the packets between them fit together:   *)
(* l and c are the states at the listening and at the connecting side, ql  *)
(* and qc the FIFOs to these sides.  An id is used again once the          *)
(* listening side has forgotten it; the connecting side may not have read  *)
(* the old LINK_CLOSE by then.                                             *)
(***************************************************************************)
LinkCmd == Command \ {"CMD_ERROR"}

\* What follows what in each FIFO.
PacketOrder(k, ql, qc) ==
  /\ NoneAfter(qc, k, {"LINK_CREATE"}, LinkCmd)
  /\ NoneAfter(qc, k, {"LINK_CLOSE"}, LinkCmd \ {"LINK_CREATE"})
  /\ NoneAfter(ql, k, {"LINK_CLOSE", "LINK_FAILURE"}, LinkCmd)
  /\ NoneAfter(ql, k, LinkCmd, {"LINK_SUCCESS", "LINK_FAILURE"})
  /\ ~Has(ql, k, {"LINK_CREATE"})
  /\ ~Has(qc, k, {"LINK_SUCCESS", "LINK_FAILURE"})

\* From accept() to the answer of the connecting side.
Creation(k, l, c, ql, qc) ==
  /\ c # "pending"
  /\ Has(qc, k, {"LINK_CREATE"}) => l = "pending" /\ ~Has(ql, k, LinkCmd) /\ c # "open"
  /\ Has(ql, k, {"LINK_SUCCESS"}) => l = "pending" /\ ~Has(qc, k, LinkCmd) /\ c # "absent"
  /\ Has(ql, k, {"LINK_FAILURE"}) => l = "pending" /\ ~Has(qc, k, LinkCmd) /\ c = "absent"
  /\ l = "pending" => \/ Has(qc, k, {"LINK_CREATE"})
                      \/ Has(ql, k, {"LINK_SUCCESS", "LINK_FAILURE"})

\* From the first LINK_CLOSE to the last.
Closing(k, l, c, ql, qc) ==
  /\ Has(ql, k, {"LINK_CLOSE"}) => c # "open" /\ l # "absent"
  /\ Has(qc, k, {"LINK_CLOSE"}) =>
       /\ c # "absent" /\ l # "open"
       /\ l = "pending" => Has(qc, k, {"LINK_CREATE"})
  /\ l = "absent" => ~Has(ql, k, LinkCmd) /\ c # "open"
  /\ c = "absent" => ~Has(qc, k, LinkCmd \ {"LINK_CREATE"}) /\ l # "open"
  /\ c = "closing" => \/ l = "absent"
                      \/ Has(qc, k, {"LINK_CREATE"})
                      \/ Has(ql, k, {"LINK_CLOSE"})
  /\ l = "closing" => IF c = "absent" THEN Has(ql, k, {"LINK_CLOSE"})
                                      ELSE Has(qc, k, {"LINK_CLOSE"})
  /\ l = "absent" \/ Has(qc, k, {"LINK_CREATE"}) =>
       c = "absent" \/ Has(qc, k, {"LINK_CLOSE"})

LinkFits(k, l, c, ql, qc) ==
  PacketOrder(k, ql, qc) /\ Creation(k, l, c, ql, qc) /\ Closing(k, l, c, ql, qc)

KeyFits(k) ==
  LinkFits(k, linkState[ListenSideOf(k)][k], linkState[Peer(ListenSideOf(k))][k],
           chan[ListenSideOf(k)], chan[Peer(ListenSideOf(k))])

(***************************************************************************)
(* The states of the two ends of every link and the packets in flight      *)
(* always fit, through crossing closes, failures and reuse of the id.      *)
(***************************************************************************)
LinkProtocol == NothingDangling => \A k \in Key : KeyFits(k)

(***************************************************************************)
(* Every packet finds its link: ListenSide::processMessage never throws    *)
(* "not found", ConnectSide::processMessage never returns with the bytes   *)
(* of a data packet unread (they would be taken for the next command), and *)
(* m_link_map never loses a link in use before a listener has accepted     *)
(* more connections than a short has values.                               *)
(***************************************************************************)
LookupsSucceed ==
  /\ NothingDangling => \A s \in Side : mode[s] \in {"running", "exited"}
  /\ (\A c \in Conns : m_next_id[c] <= IdModulus) => NothingDangling

(***************************************************************************)
(* When both processes run and nothing is in flight, each link is open at  *)
(* both ends or known at neither: the LINK_CREATE answer and the crossing  *)
(* LINK_CLOSE packets leave no end waiting for the other.                  *)
(***************************************************************************)
NoHalfOpen ==
  (\A s \in Side : Running(s) /\ chan[s] = <<>>)
    => \A k \in Key : \/ \A s \in Side : linkState[s][k] = "open"
                      \/ \A s \in Side : linkState[s][k] = "absent"

(***************************************************************************)
(* The chunks an end has written to its socket or holds in m_buffer are    *)
(* the first chunks the other end read, in order, none lost or doubled.    *)
(***************************************************************************)
DataInOrder ==
  NothingDangling =>
    \A s \in Side, k \in Key :
      LET got == delivered[s][k] \o m_buffer[s][k]
      IN  /\ \A i \in 1 .. Len(got) : got[i] = i
          /\ (\A t \in Side : linkState[t][k] = "open") => Len(got) <= nread[Peer(s)][k]

(***************************************************************************)
(* ACK_PACKETS: an open end that waits for an acknowledgement has exactly  *)
(* one packet, or its answer, in flight, unless the LINK_CLOSE of the      *)
(* other end is on its way; an end that may read has none in flight.       *)
(***************************************************************************)
StopAndWait ==
  NothingDangling =>
    \A s \in Side, k \in Key :
      linkState[s][k] = "open" =>
        LET out == Count(chan[Peer(s)], k, {"LINK_SEND_FOR_ACK"})
                     + Count(chan[s], k, {"LINK_ACK"})
        IN  IF m_acknowledged[s][k] THEN out = 0
            ELSE out = 1 \/ (out = 0 /\ Has(chan[s], k, {"LINK_CLOSE"}))

(***************************************************************************)
(* The poll request of an open link never goes to sleep: it asks for       *)
(* POLLOUT as long as there is unsent data, and for POLLIN once there is   *)
(* none and no acknowledgement is owed.                                    *)
(***************************************************************************)
PollsForWork ==
  NothingDangling =>
    \A s \in Side, k \in Key :
      linkState[s][k] = "open" =>
        /\ ("POLLOUT" \in events[s][k]) = (m_buffer[s][k] # <<>>)
        /\ m_acknowledged[s][k] /\ m_buffer[s][k] = <<>> => "POLLIN" \in events[s][k]

BothRunning == \A s \in Side : Running(s)

\* As long as both processes run, every closed link is forgotten: the LINK_CLOSE of the
\* other end arrives.
CloseCompletes ==
  \A s \in Side, k \in Key :
    linkState[s][k] = "closing" ~> linkState[s][k] = "absent" \/ ~BothRunning

\* As long as both processes run, a link that waits for LINK_ACK gets it or is closed.
AckArrives ==
  \A s \in Side, k \in Key :
    ~m_acknowledged[s][k]
      ~> m_acknowledged[s][k] \/ linkState[s][k] # "open" \/ ~BothRunning

\* Forwarding TCP: what was sent before the connection was closed is delivered
\* before the other end of it is closed.
ClosedAfterDelivery ==
  [][\A s \in Side, k \in Key :
       linkState[s][k] = "open" /\ linkState'[s][k] = "absent"
         => m_buffer[s][k] = <<>>]_vars
===============================================================================
