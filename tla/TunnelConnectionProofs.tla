------------------------ MODULE TunnelConnectionProofs ------------------------
(***************************************************************************)
(* Proofs about the link protocol of TunnelConnection, for any set of      *)
(* connections, any number of links and any amount of data.                *)
(***************************************************************************)
EXTENDS TunnelConnection, SequenceTheorems, TLAPS

-------------------------------------------------------------------------------
(***************************************************************************)
(* Typing.                                                                 *)
(***************************************************************************)
\* Each side has the other one as its peer.
LEMMA PeerSide ==
  ASSUME NEW s \in Side
  PROVE  Peer(s) \in Side /\ Peer(s) # s /\ Peer(Peer(s)) = s
BY DEF Side, Peer

\* Msg builds a packet.
LEMMA MsgType ==
  ASSUME NEW k \in Key, NEW cmd \in Command, NEW n \in Nat
  PROVE  /\ Msg(k, cmd, n) \in Packet
         /\ Msg(k, cmd, n).key = k
         /\ Msg(k, cmd, n).cmd = cmd
BY DEF Msg, Packet

\* The next id of a listener names a link.
LEMMA ToShortType ==
  ASSUME NEW n \in Nat
  PROVE  ToShort(n) \in LinkId
BY ConstantsAssumption DEF ToShort, LinkId

\* What Send, Consume and Reply make of the two FIFOs.
LEMMA ChanType ==
  ASSUME TypeOK, NEW s \in Side, NEW m \in Packet
  PROVE  /\ Send(s, m) \in [Side -> Seq(Packet)]
         /\ Send(s, m)[s] = chan[s]
         /\ Send(s, m)[Peer(s)] = Append(chan[Peer(s)], m)
         /\ chan[s] # <<>> =>
              /\ Head(chan[s]) \in Packet
              /\ Consume(s) \in [Side -> Seq(Packet)]
              /\ Consume(s)[s] = Tail(chan[s])
              /\ Consume(s)[Peer(s)] = chan[Peer(s)]
              /\ Reply(s, m) \in [Side -> Seq(Packet)]
              /\ Reply(s, m)[s] = Tail(chan[s])
              /\ Reply(s, m)[Peer(s)] = Append(chan[Peer(s)], m)
<1>1. /\ chan \in [Side -> Seq(Packet)]
      /\ chan[s] \in Seq(Packet) /\ chan[Peer(s)] \in Seq(Packet)
  BY PeerSide DEF TypeOK
<1>2. Append(chan[Peer(s)], m) \in Seq(Packet)
  BY <1>1, AppendProperties
<1>3. chan[s] # <<>> => Head(chan[s]) \in Packet /\ Tail(chan[s]) \in Seq(Packet)
  BY <1>1, HeadTailProperties
<1>. QED
  BY <1>1, <1>2, <1>3, PeerSide DEF Send, Consume, Reply

\* A part of a sequence of chunks is one.
LEMMA SubSeqType ==
  ASSUME NEW q \in Seq(Nat), NEW a \in 1 .. Len(q) + 1, NEW b \in 0 .. Len(q)
  PROVE  SubSeq(q, a, b) \in Seq(Nat)
<1>1. Len(q) \in Nat /\ \A i \in 1 .. Len(q) : q[i] \in Nat
  BY LenProperties, ElementOfSeq
<1>2. a \in Int /\ b \in Int /\ \A i \in a .. b : q[i] \in Nat
  BY <1>1
<1>. HIDE <1>1
<1>. QED  BY ONLY <1>2, SubSeqProperties

\* m_buffer and the socket's output after the n oldest chunks are written.
LEMMA BufferType ==
  ASSUME NEW q \in Seq(Nat), NEW d \in Seq(Nat), NEW n \in 0 .. Len(q)
  PROVE  /\ SubSeq(q, n + 1, Len(q)) \in Seq(Nat)
         /\ d \o SubSeq(q, 1, n) \in Seq(Nat)
<1>1. Len(q) \in Nat
  BY LenProperties
<1>2. n + 1 \in 1 .. Len(q) + 1 /\ Len(q) \in 0 .. Len(q)
  BY <1>1
<1>3. SubSeq(q, n + 1, Len(q)) \in Seq(Nat)
  BY <1>2, SubSeqType
<1>4. 1 \in 1 .. Len(q) + 1
  BY <1>1
<1>5. SubSeq(q, 1, n) \in Seq(Nat)
  BY <1>4, SubSeqType
<1>. QED  BY <1>3, <1>5, ConcatProperties

\* Data of an end is updated at that end only, within its type.
LEMMA EndUpdate ==
  ASSUME NEW S, NEW f \in [Side -> [Key -> S]], NEW s \in Side, NEW k \in Key, NEW v \in S
  PROVE  [f EXCEPT ![s][k] = v] \in [Side -> [Key -> S]]
OBVIOUS

\* Before the first packet.
LEMMA TypeInit == Init => TypeOK
BY ConstantsAssumption, EmptySeq DEF Init, TypeOK, PollEvent

\* A new link keeps the types, its poll request included.
LEMMA NewLinkType ==
  ASSUME TypeOK, NEW s \in Side, NEW k \in Key, NEW st \in {"pending", "open"},
         NewLink(s, k, st)
  PROVE  /\ mode' \in [Side -> {"running", "exited", "notFound", "unread", "dangling"}]
         /\ linkState' \in [Side -> [Key -> {"absent", "pending", "open", "closing"}]]
         /\ m_acknowledged' \in [Side -> [Key -> BOOLEAN]]
         /\ m_buffer' \in [Side -> [Key -> Seq(Nat)]]
         /\ events' \in [Side -> [Key -> SUBSET {"POLLIN", "POLLOUT"}]]
         /\ nread' \in [Side -> [Key -> Nat]]
         /\ delivered' \in [Side -> [Key -> Seq(Nat)]]
<1>1. mode' \in [Side -> {"running", "exited", "notFound", "unread", "dangling"}]
  BY DEF TypeOK, NewLink
<1>2. /\ m_buffer' \in [Side -> [Key -> Seq(Nat)]]
      /\ delivered' \in [Side -> [Key -> Seq(Nat)]]
  BY EndUpdate, EmptySeq DEF TypeOK, NewLink
<1>3. /\ linkState' \in [Side -> [Key -> {"absent", "pending", "open", "closing"}]]
      /\ m_acknowledged' \in [Side -> [Key -> BOOLEAN]]
      /\ events' \in [Side -> [Key -> SUBSET {"POLLIN", "POLLOUT"}]]
      /\ nread' \in [Side -> [Key -> Nat]]
  BY DEF TypeOK, NewLink
<1>. QED  BY <1>1, <1>2, <1>3

\* So does forgetting a link.
LEMMA EraseLinkType ==
  ASSUME TypeOK, NEW s \in Side, NEW k \in Key, EraseLink(s, k)
  PROVE  /\ linkState' \in [Side -> [Key -> {"absent", "pending", "open", "closing"}]]
         /\ m_acknowledged' \in [Side -> [Key -> BOOLEAN]]
         /\ m_buffer' \in [Side -> [Key -> Seq(Nat)]]
         /\ events' \in [Side -> [Key -> SUBSET {"POLLIN", "POLLOUT"}]]
         /\ revents' \in [Side -> [Key -> SUBSET PollEvent]]
         /\ nread' \in [Side -> [Key -> Nat]]
         /\ delivered' \in [Side -> [Key -> Seq(Nat)]]
<1>1. m_buffer' \in [Side -> [Key -> Seq(Nat)]]
  BY EndUpdate, EmptySeq DEF TypeOK, EraseLink
<1>. QED  BY <1>1 DEF TypeOK, EraseLink

\* Poller::setEvents stays within the events a link may ask for.
LEMMA SetEventsType ==
  ASSUME TypeOK, NEW s \in Side, NEW k \in Key, NEW ev \in SUBSET {"POLLIN", "POLLOUT"}
  PROVE  SetEvents(s, k, ev) \in [Side -> [Key -> SUBSET {"POLLIN", "POLLOUT"}]]
BY DEF TypeOK, SetEvents

\* A packet that finds no link keeps the types.
LEMMA StrayType ==
  ASSUME TypeOK, NEW s \in Side, NEW m \in Packet, chan[s] # <<>>, Stray(s, m),
         tunnelReady' \in [Side -> BOOLEAN], UNCHANGED m_next_id
  PROVE  TypeOK'
<1>1. Consume(s) \in [Side -> Seq(Packet)]
  BY ChanType
<1>2. mode' \in [Side -> {"running", "exited", "notFound", "unread", "dangling"}]
  BY DEF Stray, TypeOK
<1>. QED  BY <1>1, <1>2 DEF Stray, TypeOK

\* Every handler of a packet keeps the types.
LEMMA ProcessType ==
  ASSUME TypeOK, NEW s \in Side, NEW m \in Packet, chan[s] # <<>>, m = Head(chan[s]),
         Process(s, m)
  PROVE  TypeOK'
<1>. DEFINE k == m.key
<1>1. chan[s] # <<>>
  OBVIOUS
<1>2. k \in Key /\ m.chunk \in Nat /\ m.cmd \in Command
  BY DEF Packet
<1>3. ASSUME NEW cmd \in Command
      PROVE  /\ Consume(s) \in [Side -> Seq(Packet)]
             /\ Reply(s, Msg(k, cmd, 0)) \in [Side -> Seq(Packet)]
  <2>1. Msg(k, cmd, 0) \in Packet
    BY <1>2, MsgType
  <2>. QED  BY <1>1, <2>1, ChanType
<1>4. Receives(s, m) => tunnelReady' \in [Side -> BOOLEAN]
  BY DEF Receives, TypeOK
<1>5. m_buffer[s][k] \in Seq(Nat) /\ Append(m_buffer[s][k], m.chunk) \in Seq(Nat)
  <2>1. m_buffer[s][k] \in Seq(Nat)
    BY <1>2 DEF TypeOK
  <2>. QED  BY <1>2, <2>1, AppendProperties
<1>6. ASSUME ReceiveData(s, m)
      PROVE  /\ m_buffer' \in [Side -> [Key -> Seq(Nat)]]
             /\ events' \in [Side -> [Key -> SUBSET {"POLLIN", "POLLOUT"}]]
  <2>1. CASE linkState[s][k] = "closing"
    BY <1>6, <2>1 DEF ReceiveData, TypeOK
  <2>2. CASE linkState[s][k] # "closing"
    <3>1. /\ m_buffer' = [m_buffer EXCEPT ![s][k] = Append(m_buffer[s][k], m.chunk)]
          /\ events' = SetEvents(s, k, {"POLLOUT"})
      BY <1>2, <1>6, <2>2 DEF ReceiveData, TypeOK
    <3>2. {"POLLOUT"} \in SUBSET {"POLLIN", "POLLOUT"}
      OBVIOUS
    <3>3. events' \in [Side -> [Key -> SUBSET {"POLLIN", "POLLOUT"}]]
      BY <1>2, <3>1, <3>2, SetEventsType
    <3>4. m_buffer \in [Side -> [Key -> Seq(Nat)]]
      BY DEF TypeOK
    <3>. QED  BY <1>2, <1>5, <3>1, <3>3, <3>4
  <2>. QED  BY <2>1, <2>2
<1>7. CASE RcvError(s, m)
  BY <1>3, <1>4, <1>7 DEF RcvError, TypeOK, Command
<1>8. CASE RcvCreateOk(s, m)
  <2>1. /\ tunnelReady' \in [Side -> BOOLEAN]
        /\ chan' \in [Side -> Seq(Packet)]
        /\ UNCHANGED m_next_id
        /\ revents' \in [Side -> [Key -> SUBSET PollEvent]]
    BY <1>2, <1>3, <1>4, <1>8 DEF RcvCreateOk, TypeOK, Command
  <2>2. NewLink(s, k, "open")
    BY <1>8 DEF RcvCreateOk
  <2>. QED  BY <1>2, <2>1, <2>2, NewLinkType DEF TypeOK
<1>9. CASE RcvCreateFail(s, m)
  <2>. DEFINE failure == Msg(k, "LINK_FAILURE", 0)
              report == Msg(k, "CMD_ERROR", 0)
  <2>1. /\ Reply(s, failure) \in [Side -> Seq(Packet)]
        /\ Reply(s, report) \in [Side -> Seq(Packet)]
    BY <1>3 DEF Command
  <2>2. failure \in Packet
    BY <1>2, MsgType DEF Command
  <2>3. Append(Reply(s, report)[Peer(s)], failure) \in Seq(Packet)
    BY <2>1, <2>2, PeerSide, AppendProperties
  <2>4. [Reply(s, report) EXCEPT ![Peer(s)] = Append(@, failure)] \in [Side -> Seq(Packet)]
    BY <2>1, <2>3
  <2>5. chan' \in [Side -> Seq(Packet)]
    BY <1>9, <2>1, <2>4 DEF RcvCreateFail
  <2>. QED  BY <1>4, <1>9, <2>5 DEF RcvCreateFail, TypeOK
<1>10. CASE RcvSuccess(s, m)
  <2>1. CASE InMap(s, k)
    <3>1. /\ linkState' = [linkState EXCEPT ![s][k] = "open"]
          /\ events' = [events EXCEPT ![s][k] = {"POLLIN"}]
      BY <1>10, <2>1 DEF RcvSuccess
    <3>2. /\ linkState' \in [Side -> [Key -> {"absent", "pending", "open", "closing"}]]
          /\ events' \in [Side -> [Key -> SUBSET {"POLLIN", "POLLOUT"}]]
      BY <1>2, <3>1 DEF TypeOK
    <3>. QED  BY <1>3, <1>4, <1>10, <2>1, <3>2 DEF RcvSuccess, TypeOK, Command
  <2>. QED  BY <1>1, <1>4, <1>10, <2>1, StrayType DEF RcvSuccess
<1>11. CASE RcvFailure(s, m)
  <2>1. CASE InMap(s, k)
    <3>1. EraseLink(s, k) /\ chan' = Consume(s) /\ UNCHANGED <<mode, m_next_id>>
      BY <1>11, <2>1 DEF RcvFailure
    <3>2. tunnelReady' \in [Side -> BOOLEAN]
      BY <1>4, <1>11 DEF RcvFailure
    <3>. QED  BY <1>2, <1>3, <3>1, <3>2, EraseLinkType DEF TypeOK, Command
  <2>. QED  BY <1>1, <1>4, <1>11, <2>1, StrayType DEF RcvFailure
<1>12. CASE RcvSend(s, m)
  <2>1. CASE InMap(s, k)
    BY <1>3, <1>4, <1>6, <1>12, <2>1 DEF RcvSend, TypeOK, Command
  <2>. QED  BY <1>1, <1>4, <1>12, <2>1, StrayType DEF RcvSend
<1>13. CASE RcvSendForAck(s, m)
  <2>1. CASE InMap(s, k)
    <3>1. chan' \in [Side -> Seq(Packet)]
      BY <1>3, <1>13, <2>1 DEF RcvSendForAck, Command
    <3>2. m_acknowledged' \in [Side -> [Key -> BOOLEAN]]
      <4>1. CASE m_acknowledged' = m_acknowledged
        BY <4>1 DEF TypeOK
      <4>2. CASE m_acknowledged' = [m_acknowledged EXCEPT ![s][k] = TRUE]
        BY <1>2, <4>2 DEF TypeOK
      <4>. QED  BY <1>13, <2>1, <4>1, <4>2 DEF RcvSendForAck
    <3>. QED  BY <1>4, <1>6, <1>13, <2>1, <3>1, <3>2 DEF RcvSendForAck, TypeOK
  <2>. QED  BY <1>1, <1>4, <1>13, <2>1, StrayType DEF RcvSendForAck
<1>14. CASE RcvAck(s, m)
  <2>1. CASE InMap(s, k)
    <3>1. m_acknowledged' \in [Side -> [Key -> BOOLEAN]]
      <4>1. m_acknowledged' = [m_acknowledged EXCEPT ![s][k] = TRUE]
        BY <1>14, <2>1 DEF RcvAck
      <4>. QED  BY <1>2, <4>1 DEF TypeOK
    <3>2. Wanted(TRUE, m_buffer[s][k]) \in SUBSET {"POLLIN", "POLLOUT"}
      BY DEF Wanted
    <3>3. events' \in [Side -> [Key -> SUBSET {"POLLIN", "POLLOUT"}]]
      <4>1. events' = SetEvents(s, k, Wanted(TRUE, m_buffer[s][k]))
        BY <1>14, <2>1 DEF RcvAck
      <4>. QED  BY <1>2, <3>2, <4>1, SetEventsType
    <3>. QED  BY <1>3, <1>4, <1>14, <2>1, <3>1, <3>3 DEF RcvAck, TypeOK, Command
  <2>. QED  BY <1>1, <1>4, <1>14, <2>1, StrayType DEF RcvAck
<1>15. CASE RcvClose(s, m)
  <2>1. CASE InMap(s, k)
    <3>1. EraseLink(s, k) /\ UNCHANGED <<mode, m_next_id>>
      BY <1>15, <2>1 DEF RcvClose
    <3>2. tunnelReady' \in [Side -> BOOLEAN] /\ chan' \in [Side -> Seq(Packet)]
      BY <1>3, <1>4, <1>15, <2>1 DEF RcvClose, Command
    <3>. QED  BY <1>2, <3>1, <3>2, EraseLinkType DEF TypeOK
  <2>. QED  BY <1>1, <1>4, <1>15, <2>1, StrayType DEF RcvClose
<1>. QED
  BY <1>7, <1>8, <1>9, <1>10, <1>11, <1>12, <1>13, <1>14, <1>15
  DEF Process

\* Every handler of a link's socket keeps the types.
LEMMA PolledType ==
  ASSUME TypeOK, NEW s \in Side, NEW k \in Key, Polled(s, k)
  PROVE  TypeOK'
<1>1. ASSUME NEW cmd \in Command, NEW n \in Nat
      PROVE  Send(s, Msg(k, cmd, n)) \in [Side -> Seq(Packet)]
  <2>1. Msg(k, cmd, n) \in Packet
    BY MsgType
  <2>. QED  BY <2>1, ChanType
<1>2. CASE PolledEof(s, k)
  <2>1. SetClosing(s, k) /\ chan' = Send(s, Msg(k, "LINK_CLOSE", 0))
    BY <1>2 DEF PolledEof
  <2>2. chan' \in [Side -> Seq(Packet)]
    BY <1>1, <2>1 DEF Command
  <2>3. /\ linkState' \in [Side -> [Key -> {"absent", "pending", "open", "closing"}]]
        /\ events' \in [Side -> [Key -> SUBSET {"POLLIN", "POLLOUT"}]]
        /\ revents' \in [Side -> [Key -> SUBSET PollEvent]]
    BY <2>1 DEF SetClosing, TypeOK
  <2>. QED  BY <1>2, <2>2, <2>3 DEF PolledEof, TypeOK
<1>3. ASSUME NEW n \in Nat, PolledLink(s, k, n)
      PROVE  TypeOK'
  <2>. DEFINE q == m_buffer[s][k]
              ack == m_acknowledged[s][k] /\ ~("POLLIN" \in revents[s][k] /\ IsAck(k))
              rest == SubSeq(q, n + 1, Len(q))
              sent == IF "POLLIN" \in revents[s][k] THEN SendData(s, k) ELSE chan
  <2>1. nread[s][k] \in Nat /\ q \in Seq(Nat) /\ delivered[s][k] \in Seq(Nat)
    BY DEF TypeOK
  <2>2. n \in 0 .. Len(q)
    BY <1>3, <2>1, LenProperties DEF PolledLink
  <2>3. rest \in Seq(Nat) /\ delivered[s][k] \o SubSeq(q, 1, n) \in Seq(Nat)
    BY <2>1, <2>2, BufferType
  <2>4. sent \in [Side -> Seq(Packet)]
    <3>1. SendData(s, k) \in [Side -> Seq(Packet)]
      <4>1. nread[s][k] + 1 \in Nat
        BY <2>1
      <4>2. (IF IsAck(k) THEN "LINK_SEND_FOR_ACK" ELSE "LINK_SEND") \in Command
        BY DEF Command
      <4>. QED  BY <1>1, <4>1, <4>2 DEF SendData
    <3>. QED  BY <3>1 DEF TypeOK
  <2>5. chan' \in [Side -> Seq(Packet)]
    <3>1. Msg(k, "LINK_CLOSE", 0) \in Packet
      BY MsgType DEF Command
    <3>2. Append(sent[Peer(s)], Msg(k, "LINK_CLOSE", 0)) \in Seq(Packet)
      BY <2>4, <3>1, PeerSide, AppendProperties
    <3>3. \/ chan' = sent
          \/ chan' = [sent EXCEPT ![Peer(s)] = Append(@, Msg(k, "LINK_CLOSE", 0))]
      BY <1>3 DEF PolledLink
    <3>. QED  BY <2>4, <3>2, <3>3
  <2>6. /\ m_buffer' = [m_buffer EXCEPT ![s][k] = rest]
        /\ delivered' = [delivered EXCEPT ![s][k] = delivered[s][k] \o SubSeq(q, 1, n)]
    BY <1>3 DEF PolledLink, TypeOK
  <2>7. m_buffer' \in [Side -> [Key -> Seq(Nat)]]
    BY <2>3, <2>6 DEF TypeOK
  <2>8. delivered' \in [Side -> [Key -> Seq(Nat)]]
    <3>1. delivered \in [Side -> [Key -> Seq(Nat)]]
      BY DEF TypeOK
    <3>. HIDE DEF q
    <3>. QED  BY <2>3, <2>6, <3>1
  <2>9. m_acknowledged' \in [Side -> [Key -> BOOLEAN]]
    <3>1. ack \in BOOLEAN /\ m_acknowledged' = [m_acknowledged EXCEPT ![s][k] = ack]
      BY <1>3 DEF PolledLink
    <3>. HIDE DEF ack
    <3>. QED  BY <3>1 DEF TypeOK
  <2>10. nread' \in [Side -> [Key -> Nat]]
    <3>. DEFINE v == IF "POLLIN" \in revents[s][k] THEN nread[s][k] + 1 ELSE nread[s][k]
    <3>1. v \in Nat /\ nread' = [nread EXCEPT ![s][k] = v]
      BY <1>3, <2>1 DEF PolledLink
    <3>. HIDE DEF v
    <3>. QED  BY <3>1 DEF TypeOK
  <2>11. linkState' \in [Side -> [Key -> {"absent", "pending", "open", "closing"}]]
    <3>. DEFINE v == IF "POLLHUP" \in revents[s][k] THEN "closing" ELSE linkState[s][k]
    <3>1. linkState' = [linkState EXCEPT ![s][k] = v]
      BY <1>3 DEF PolledLink
    <3>2. v \in {"absent", "pending", "open", "closing"}
      BY DEF TypeOK
    <3>. HIDE DEF v
    <3>. QED  BY <3>1, <3>2 DEF TypeOK
  <2>12. events' \in [Side -> [Key -> SUBSET {"POLLIN", "POLLOUT"}]]
    <3>. DEFINE v == IF "POLLHUP" \in revents[s][k] THEN {}
                     ELSE IF ("POLLIN" \in revents[s][k] /\ IsAck(k)) \/ (n > 0 /\ rest = <<>>)
                       THEN Wanted(ack, rest) ELSE events[s][k]
    <3>1. events' = [events EXCEPT ![s][k] = v]
      BY <1>3 DEF PolledLink
    <3>2. Wanted(ack, rest) \in SUBSET {"POLLIN", "POLLOUT"}
      BY DEF Wanted
    <3>3. v \in SUBSET {"POLLIN", "POLLOUT"}
      BY <3>2 DEF TypeOK
    <3>. HIDE DEF v
    <3>. QED  BY <3>1, <3>3 DEF TypeOK
  <2>13. revents' \in [Side -> [Key -> SUBSET PollEvent]]
    BY <1>3 DEF PolledLink, TypeOK
  <2>. QED
    BY <1>3, <2>5, <2>7, <2>8, <2>9, <2>10, <2>11, <2>12, <2>13
    DEF PolledLink, TypeOK
<1>4. CASE WriteThrows(s, k)
  BY <1>4 DEF WriteThrows, Exit, TypeOK
<1>5. \A n \in 0 .. MaxChunks[k[1]] : n \in Nat
  OBVIOUS
<1>. QED  BY <1>2, <1>3, <1>4, <1>5 DEF Polled

\* Every step keeps the types.
LEMMA TypeNext == TypeOK /\ [Next]_vars => TypeOK'
<1>. SUFFICES ASSUME TypeOK, [Next]_vars PROVE TypeOK'
  OBVIOUS
<1>1. ASSUME NEW c \in Conns, Accept(c)
      PROVE  TypeOK'
  <2>. DEFINE s == ListenAt[c]
              k == <<c, ToShort(m_next_id[c])>>
  <2>1. s \in Side /\ m_next_id[c] \in Nat
    BY ConstantsAssumption DEF TypeOK
  <2>2. k \in Key
    BY <2>1, ToShortType DEF Key
  <2>3. Msg(k, "LINK_CREATE", 0) \in Packet
    BY <2>2, MsgType DEF Command
  <2>4. /\ NewLink(s, k, "pending")
        /\ chan' = Send(s, Msg(k, "LINK_CREATE", 0))
        /\ UNCHANGED <<tunnelReady, revents>>
    BY <1>1 DEF Accept
  <2>5. m_next_id' \in [Conns -> 0 .. MaxAccepts]
    BY <1>1, ConstantsAssumption DEF Accept, TypeOK
  <2>. HIDE DEF s, k
  <2>6. chan' \in [Side -> Seq(Packet)]
    BY <2>1, <2>3, <2>4, ChanType
  <2>. QED  BY <2>1, <2>2, <2>4, <2>5, <2>6, NewLinkType DEF TypeOK
<1>2. ASSUME NEW c \in Conns, AcceptThrows(c)
      PROVE  TypeOK'
  BY <1>2 DEF AcceptThrows, Exit, TypeOK
<1>3. ASSUME NEW s \in Side, PollSome(s)
      PROVE  TypeOK'
  <2>1. PICK t \in BOOLEAN, R \in [Key -> SUBSET PollEvent] : Poll(s, t, R)
    BY <1>3 DEF PollSome
  <2>. QED  BY <2>1 DEF Poll, TypeOK
<1>4. ASSUME NEW s \in Side, ProcessMessage(s)
      PROVE  TypeOK'
  <2>1. chan[s] \in Seq(Packet) /\ chan[s] # <<>> /\ Process(s, Head(chan[s]))
    BY <1>4 DEF ProcessMessage, TypeOK
  <2>2. Head(chan[s]) \in Packet
    BY <2>1, HeadTailProperties
  <2>. QED  BY <2>1, <2>2, ProcessType
<1>5. ASSUME NEW s \in Side, NEW k \in Key, Polled(s, k)
      PROVE  TypeOK'
  BY <1>5, PolledType
<1>6. ASSUME NEW s \in Side, Signaled(s) \/ TunnelClosed(s)
      PROVE  TypeOK'
  BY <1>6 DEF Signaled, TunnelClosed, Exit, TypeOK
<1>7. CASE UNCHANGED vars
  BY <1>7 DEF vars, TypeOK
<1>. QED  BY <1>1, <1>2, <1>3, <1>4, <1>5, <1>6, <1>7 DEF Next

\* The state keeps its types, whatever the two processes do.
THEOREM TypeCorrect == Spec => []TypeOK
BY TypeInit, TypeNext, PTL DEF Spec

-------------------------------------------------------------------------------
(***************************************************************************)
(* Lemmas about FIFOs: what adding or reading a packet does to Has and     *)
(* NoneAfter.                                                              *)
(***************************************************************************)
\* r is q with a packet x of link k added.
Appended(q, r, k, x) ==
  /\ \A S : Has(r, k, S) <=> Has(q, k, S) \/ x \in S
  /\ \A S, T : NoneAfter(q, k, S, T) /\ (x \in T => ~Has(q, k, S)) => NoneAfter(r, k, S, T)

\* r is q after a packet x of link k has been read.
Consumed(q, r, k, x) ==
  /\ \A S : Has(q, k, S) <=> x \in S \/ Has(r, k, S)
  /\ \A S, T : NoneAfter(q, k, S, T) => NoneAfter(r, k, S, T) /\ (x \in S => ~Has(r, k, T))

\* q and r differ in packets that are not about link k.
Kept(q, r, k) ==
  /\ \A S : "CMD_ERROR" \notin S => (Has(r, k, S) <=> Has(q, k, S))
  /\ \A S, T : "CMD_ERROR" \notin S /\ "CMD_ERROR" \notin T /\ NoneAfter(q, k, S, T)
                 => NoneAfter(r, k, S, T)

\* A packet added at the end is seen by Has.
LEMMA HasAppend ==
  ASSUME NEW q \in Seq(Packet), NEW m \in Packet, NEW k, NEW S
  PROVE  Has(Append(q, m), k, S) <=> Has(q, k, S) \/ IsFor(m, k, S)
<1>1. /\ Len(q) \in Nat
      /\ Len(Append(q, m)) = Len(q) + 1
      /\ \A i \in 1 .. Len(q) : Append(q, m)[i] = q[i]
      /\ Append(q, m)[Len(q) + 1] = m
  BY AppendProperties, LenProperties
<1>2. ASSUME Has(Append(q, m), k, S)  PROVE Has(q, k, S) \/ IsFor(m, k, S)
  <2>1. PICK i \in 1 .. Len(q) + 1 : IsFor(Append(q, m)[i], k, S)
    BY <1>1, <1>2 DEF Has
  <2>. QED  BY <1>1, <2>1 DEF Has
<1>3. ASSUME Has(q, k, S)  PROVE Has(Append(q, m), k, S)
  <2>1. PICK i \in 1 .. Len(q) : IsFor(q[i], k, S)
    BY <1>3 DEF Has
  <2>. QED  BY <1>1, <2>1 DEF Has
<1>4. ASSUME IsFor(m, k, S)  PROVE Has(Append(q, m), k, S)
  BY <1>1, <1>4 DEF Has
<1>. QED  BY <1>2, <1>3, <1>4

\* A packet is the first one or one of the rest.
LEMMA HasTail ==
  ASSUME NEW q \in Seq(Packet), q # <<>>, NEW k, NEW S
  PROVE  Has(q, k, S) <=> IsFor(Head(q), k, S) \/ Has(Tail(q), k, S)
<1>1. /\ Len(q) \in Nat \ {0}
      /\ Head(q) = q[1]
      /\ Len(Tail(q)) = Len(q) - 1
      /\ \A i \in 1 .. Len(Tail(q)) : Tail(q)[i] = q[i + 1]
  BY HeadTailProperties, EmptySeq
<1>2. ASSUME Has(q, k, S)  PROVE IsFor(Head(q), k, S) \/ Has(Tail(q), k, S)
  <2>1. PICK i \in 1 .. Len(q) : IsFor(q[i], k, S)
    BY <1>2 DEF Has
  <2>2. CASE i = 1
    BY <1>1, <2>1, <2>2
  <2>3. CASE i # 1
    <3>1. i - 1 \in 1 .. Len(Tail(q)) /\ (i - 1) + 1 = i
      BY <1>1, <2>1, <2>3
    <3>2. Tail(q)[i - 1] = q[i]
      BY <1>1, <3>1
    <3>. QED  BY <2>1, <3>1, <3>2 DEF Has
  <2>. QED  BY <2>2, <2>3
<1>3. ASSUME IsFor(Head(q), k, S)  PROVE Has(q, k, S)
  BY <1>1, <1>3 DEF Has
<1>4. ASSUME Has(Tail(q), k, S)  PROVE Has(q, k, S)
  <2>1. PICK i \in 1 .. Len(Tail(q)) : IsFor(Tail(q)[i], k, S)
    BY <1>4 DEF Has
  <2>2. i + 1 \in 1 .. Len(q) /\ IsFor(q[i + 1], k, S)
    BY <1>1, <2>1
  <2>. QED  BY <2>2 DEF Has
<1>. QED  BY <1>2, <1>3, <1>4

\* Adding a packet keeps an order that it does not break itself.
LEMMA NoneAfterAppend ==
  ASSUME NEW q \in Seq(Packet), NEW m \in Packet, NEW k, NEW S, NEW T,
         NoneAfter(q, k, S, T), IsFor(m, k, T) => ~Has(q, k, S)
  PROVE  NoneAfter(Append(q, m), k, S, T)
<1>1. /\ Len(q) \in Nat
      /\ Len(Append(q, m)) = Len(q) + 1
      /\ \A i \in 1 .. Len(q) : Append(q, m)[i] = q[i]
      /\ Append(q, m)[Len(q) + 1] = m
  BY AppendProperties, LenProperties
<1>. SUFFICES ASSUME NEW i \in 1 .. Len(q) + 1, NEW j \in 1 .. Len(q) + 1, i < j,
                     IsFor(Append(q, m)[i], k, S), IsFor(Append(q, m)[j], k, T)
              PROVE  FALSE
  BY <1>1 DEF NoneAfter
<1>2. i \in 1 .. Len(q) /\ IsFor(q[i], k, S)
  BY <1>1
<1>3. CASE j = Len(q) + 1
  BY <1>1, <1>2, <1>3 DEF Has
<1>4. CASE j # Len(q) + 1
  <2>1. j \in 1 .. Len(q) /\ IsFor(q[j], k, T)
    BY <1>1, <1>4
  <2>. QED  BY <1>2, <2>1 DEF NoneAfter
<1>. QED  BY <1>3, <1>4

\* Reading a packet keeps an order, and puts it to use.
LEMMA NoneAfterTail ==
  ASSUME NEW q \in Seq(Packet), q # <<>>, NEW k, NEW S, NEW T, NoneAfter(q, k, S, T)
  PROVE  /\ NoneAfter(Tail(q), k, S, T)
         /\ IsFor(Head(q), k, S) => ~Has(Tail(q), k, T)
<1>1. /\ Len(q) \in Nat \ {0}
      /\ Head(q) = q[1]
      /\ Len(Tail(q)) = Len(q) - 1
      /\ \A i \in 1 .. Len(Tail(q)) : Tail(q)[i] = q[i + 1] /\ i + 1 \in 2 .. Len(q)
  BY HeadTailProperties, EmptySeq
<1>2. NoneAfter(Tail(q), k, S, T)
  <2>. SUFFICES ASSUME NEW i \in 1 .. Len(Tail(q)), NEW j \in 1 .. Len(Tail(q)), i < j,
                       IsFor(Tail(q)[i], k, S), IsFor(Tail(q)[j], k, T)
                PROVE  FALSE
    BY DEF NoneAfter
  <2>1. /\ i + 1 \in 1 .. Len(q) /\ j + 1 \in 1 .. Len(q) /\ i + 1 < j + 1
        /\ IsFor(q[i + 1], k, S) /\ IsFor(q[j + 1], k, T)
    BY <1>1
  <2>. QED  BY <2>1 DEF NoneAfter
<1>3. ASSUME IsFor(Head(q), k, S), Has(Tail(q), k, T)  PROVE FALSE
  <2>1. PICK i \in 1 .. Len(Tail(q)) : IsFor(Tail(q)[i], k, T)
    BY <1>3 DEF Has
  <2>2. /\ 1 \in 1 .. Len(q) /\ i + 1 \in 1 .. Len(q) /\ 1 < i + 1
        /\ IsFor(q[1], k, S) /\ IsFor(q[i + 1], k, T)
    BY <1>1, <1>3, <2>1
  <2>. QED  BY <2>2 DEF NoneAfter
<1>. QED  BY <1>2, <1>3

\* Append for the packet's own link.
LEMMA AppendThis ==
  ASSUME NEW q \in Seq(Packet), NEW m \in Packet
  PROVE  Appended(q, Append(q, m), m.key, m.cmd)
<1>1. ASSUME NEW S  PROVE IsFor(m, m.key, S) <=> m.cmd \in S
  BY DEF IsFor
<1>. QED  BY <1>1, HasAppend, NoneAfterAppend DEF Appended

\* Append for the other links.
LEMMA AppendOther ==
  ASSUME NEW q \in Seq(Packet), NEW m \in Packet, NEW k, m.key # k \/ m.cmd = "CMD_ERROR"
  PROVE  Kept(q, Append(q, m), k)
<1>1. ASSUME NEW S, "CMD_ERROR" \notin S  PROVE ~IsFor(m, k, S)
  BY <1>1 DEF IsFor
<1>. QED  BY <1>1, HasAppend, NoneAfterAppend DEF Kept

\* Tail for the packet's own link.
LEMMA TailThis ==
  ASSUME NEW q \in Seq(Packet), q # <<>>
  PROVE  Consumed(q, Tail(q), Head(q).key, Head(q).cmd)
<1>. DEFINE k == Head(q).key
<1>1. ASSUME NEW S  PROVE IsFor(Head(q), k, S) <=> Head(q).cmd \in S
  BY DEF IsFor
<1>. QED  BY <1>1, HasTail, NoneAfterTail DEF Consumed

\* Tail for the other links.
LEMMA TailOther ==
  ASSUME NEW q \in Seq(Packet), q # <<>>, NEW k,
         Head(q).key # k \/ Head(q).cmd = "CMD_ERROR"
  PROVE  Kept(q, Tail(q), k)
<1>1. ASSUME NEW S, "CMD_ERROR" \notin S  PROVE ~IsFor(Head(q), k, S)
  BY <1>1 DEF IsFor
<1>. QED  BY <1>1, HasTail, NoneAfterTail DEF Kept

\* Nothing changes, or changes twice.
LEMMA KeptRefl ==
  ASSUME NEW q, NEW k
  PROVE  Kept(q, q, k)
BY DEF Kept

\* Packets kept over two steps.
LEMMA KeptTrans ==
  ASSUME NEW q, NEW r, NEW t, NEW k, Kept(q, r, k), Kept(r, t, k)
  PROVE  Kept(q, t, k)
BY DEF Kept

-------------------------------------------------------------------------------
(***************************************************************************)
(* The protocol of one link: each step keeps LinkFits.                     *)
(***************************************************************************)
DataCmd == {"LINK_SEND", "LINK_SEND_FOR_ACK", "LINK_ACK"}

\* The command sets of LinkFits in terms of single commands.
LEMMA HasParts ==
  ASSUME NEW q, NEW k
  PROVE  /\ Has(q, k, {"LINK_SUCCESS", "LINK_FAILURE"})
              <=> Has(q, k, {"LINK_SUCCESS"}) \/ Has(q, k, {"LINK_FAILURE"})
         /\ Has(q, k, {"LINK_CLOSE", "LINK_FAILURE"})
              <=> Has(q, k, {"LINK_CLOSE"}) \/ Has(q, k, {"LINK_FAILURE"})
         /\ Has(q, k, LinkCmd \ {"LINK_CREATE"})
              <=> \/ Has(q, k, {"LINK_SUCCESS"}) \/ Has(q, k, {"LINK_FAILURE"})
                  \/ Has(q, k, {"LINK_CLOSE"}) \/ Has(q, k, DataCmd)
         /\ Has(q, k, LinkCmd)
              <=> Has(q, k, {"LINK_CREATE"}) \/ Has(q, k, LinkCmd \ {"LINK_CREATE"})
BY DEF Has, IsFor, LinkCmd, Command, DataCmd

\* Packets of other links do not matter.
LEMMA FitsKept ==
  ASSUME NEW k, NEW l, NEW c, NEW ql, NEW qc, NEW rl, NEW rc,
         LinkFits(k, l, c, ql, qc), Kept(ql, rl, k), Kept(qc, rc, k)
  PROVE  LinkFits(k, l, c, rl, rc)
<1>1. /\ "CMD_ERROR" \notin LinkCmd
      /\ "CMD_ERROR" \notin LinkCmd \ {"LINK_CREATE"}
      /\ "CMD_ERROR" \notin {"LINK_CREATE"}
      /\ "CMD_ERROR" \notin {"LINK_CLOSE"}
      /\ "CMD_ERROR" \notin {"LINK_SUCCESS"}
      /\ "CMD_ERROR" \notin {"LINK_FAILURE"}
      /\ "CMD_ERROR" \notin {"LINK_CLOSE", "LINK_FAILURE"}
      /\ "CMD_ERROR" \notin {"LINK_SUCCESS", "LINK_FAILURE"}
  BY DEF LinkCmd
<1>2. PacketOrder(k, rl, rc)
  BY <1>1 DEF LinkFits, PacketOrder, Kept
<1>3. Creation(k, l, c, rl, rc)
  BY <1>1 DEF LinkFits, Creation, Kept
<1>4. Closing(k, l, c, rl, rc)
  BY <1>1 DEF LinkFits, Closing, Kept
<1>. QED  BY <1>2, <1>3, <1>4 DEF LinkFits

\* ListenSide::polled accepts a connection.
LEMMA FitsAccept ==
  ASSUME NEW k, NEW c, NEW ql, NEW qc, NEW rc,
         LinkFits(k, "absent", c, ql, qc), Appended(qc, rc, k, "LINK_CREATE")
  PROVE  LinkFits(k, "pending", c, ql, rc)
<1>. USE HasParts DEF Appended, LinkCmd, Command, DataCmd
<1>1. PacketOrder(k, ql, rc)
  BY DEF LinkFits, PacketOrder, Creation, Closing
<1>2. Creation(k, "pending", c, ql, rc)
  BY DEF LinkFits, PacketOrder, Creation, Closing
<1>3. Closing(k, "pending", c, ql, rc)
  BY DEF LinkFits, PacketOrder, Creation, Closing
<1>. QED  BY <1>1, <1>2, <1>3 DEF LinkFits

\* ConnectSide answers LINK_CREATE with LINK_SUCCESS ...
LEMMA FitsCreateOk ==
  ASSUME NEW k, NEW l, NEW c, NEW ql, NEW qc, NEW rl, NEW rc,
         LinkFits(k, l, c, ql, qc), c = "absent",
         Consumed(qc, rc, k, "LINK_CREATE"), Appended(ql, rl, k, "LINK_SUCCESS")
  PROVE  LinkFits(k, l, "open", rl, rc)
<1>. USE HasParts DEF Appended, Consumed, LinkCmd, Command, DataCmd
<1>1. PacketOrder(k, rl, rc)
  BY DEF LinkFits, PacketOrder, Creation, Closing
<1>2. Creation(k, l, "open", rl, rc)
  BY DEF LinkFits, PacketOrder, Creation, Closing
<1>3. Closing(k, l, "open", rl, rc)
  BY DEF LinkFits, PacketOrder, Creation, Closing
<1>. QED  BY <1>1, <1>2, <1>3 DEF LinkFits

\* ... or with LINK_FAILURE.
LEMMA FitsCreateFail ==
  ASSUME NEW k, NEW l, NEW c, NEW ql, NEW qc, NEW rl, NEW rc,
         LinkFits(k, l, c, ql, qc), c = "absent",
         Consumed(qc, rc, k, "LINK_CREATE"), Appended(ql, rl, k, "LINK_FAILURE")
  PROVE  LinkFits(k, l, c, rl, rc)
<1>. USE HasParts DEF Appended, Consumed, LinkCmd, Command, DataCmd
<1>1. PacketOrder(k, rl, rc)
  BY DEF LinkFits, PacketOrder, Creation, Closing
<1>2. Creation(k, l, c, rl, rc)
  BY DEF LinkFits, PacketOrder, Creation, Closing
<1>3. Closing(k, l, c, rl, rc)
  BY DEF LinkFits, PacketOrder, Creation, Closing
<1>. QED  BY <1>1, <1>2, <1>3 DEF LinkFits

\* ListenSide reads LINK_SUCCESS ...
LEMMA FitsSuccess ==
  ASSUME NEW k, NEW l, NEW c, NEW ql, NEW qc, NEW rl,
         LinkFits(k, l, c, ql, qc), Consumed(ql, rl, k, "LINK_SUCCESS")
  PROVE  LinkFits(k, "open", c, rl, qc)
<1>. USE HasParts DEF Appended, Consumed, LinkCmd, Command, DataCmd
<1>1. PacketOrder(k, rl, qc)
  BY DEF LinkFits, PacketOrder, Creation, Closing
<1>2. Creation(k, "open", c, rl, qc)
  BY DEF LinkFits, PacketOrder, Creation, Closing
<1>3. Closing(k, "open", c, rl, qc)
  BY DEF LinkFits, PacketOrder, Creation, Closing
<1>. QED  BY <1>1, <1>2, <1>3 DEF LinkFits

\* ... or LINK_FAILURE.
LEMMA FitsFailure ==
  ASSUME NEW k, NEW l, NEW c, NEW ql, NEW qc, NEW rl,
         LinkFits(k, l, c, ql, qc), Consumed(ql, rl, k, "LINK_FAILURE")
  PROVE  LinkFits(k, "absent", c, rl, qc)
<1>. USE HasParts DEF Appended, Consumed, LinkCmd, Command, DataCmd
<1>1. PacketOrder(k, rl, qc)
  BY DEF LinkFits, PacketOrder, Creation, Closing
<1>2. Creation(k, "absent", c, rl, qc)
  BY DEF LinkFits, PacketOrder, Creation, Closing
<1>3. Closing(k, "absent", c, rl, qc)
  BY DEF LinkFits, PacketOrder, Creation, Closing
<1>. QED  BY <1>1, <1>2, <1>3 DEF LinkFits

\* An open link at the listening side sends data or an acknowledgement.
LEMMA FitsListenSends ==
  ASSUME NEW k, NEW l, NEW c, NEW ql, NEW qc, NEW rc,
         NEW x \in DataCmd,
         LinkFits(k, l, c, ql, qc), l = "open", Appended(qc, rc, k, x)
  PROVE  LinkFits(k, l, c, ql, rc)
<1>. USE HasParts DEF Appended, Consumed, LinkCmd, Command, DataCmd
<1>1. PacketOrder(k, ql, rc)
  BY DEF LinkFits, PacketOrder, Creation, Closing
<1>2. Creation(k, l, c, ql, rc)
  BY DEF LinkFits, PacketOrder, Creation, Closing
<1>3. Closing(k, l, c, ql, rc)
  BY DEF LinkFits, PacketOrder, Creation, Closing
<1>. QED  BY <1>1, <1>2, <1>3 DEF LinkFits

\* The same at the connecting side.
LEMMA FitsConnectSends ==
  ASSUME NEW k, NEW l, NEW c, NEW ql, NEW qc, NEW rl,
         NEW x \in DataCmd,
         LinkFits(k, l, c, ql, qc), c = "open", Appended(ql, rl, k, x)
  PROVE  LinkFits(k, l, c, rl, qc)
<1>. USE HasParts DEF Appended, Consumed, LinkCmd, Command, DataCmd
<1>1. PacketOrder(k, rl, qc)
  BY DEF LinkFits, PacketOrder, Creation, Closing
<1>2. Creation(k, l, c, rl, qc)
  BY DEF LinkFits, PacketOrder, Creation, Closing
<1>3. Closing(k, l, c, rl, qc)
  BY DEF LinkFits, PacketOrder, Creation, Closing
<1>. QED  BY <1>1, <1>2, <1>3 DEF LinkFits

\* An open link at the listening side is closed.
LEMMA FitsListenCloses ==
  ASSUME NEW k, NEW l, NEW c, NEW ql, NEW qc, NEW rc,
         LinkFits(k, l, c, ql, qc), l = "open", Appended(qc, rc, k, "LINK_CLOSE")
  PROVE  LinkFits(k, "closing", c, ql, rc)
<1>. USE HasParts DEF Appended, Consumed, LinkCmd, Command, DataCmd
<1>1. PacketOrder(k, ql, rc)
  BY DEF LinkFits, PacketOrder, Creation, Closing
<1>2. Creation(k, "closing", c, ql, rc)
  BY DEF LinkFits, PacketOrder, Creation, Closing
<1>3. Closing(k, "closing", c, ql, rc)
  BY DEF LinkFits, PacketOrder, Creation, Closing
<1>. QED  BY <1>1, <1>2, <1>3 DEF LinkFits

\* The same at the connecting side.
LEMMA FitsConnectCloses ==
  ASSUME NEW k, NEW l, NEW c, NEW ql, NEW qc, NEW rl,
         LinkFits(k, l, c, ql, qc), c = "open", Appended(ql, rl, k, "LINK_CLOSE")
  PROVE  LinkFits(k, l, "closing", rl, qc)
<1>. USE HasParts DEF Appended, Consumed, LinkCmd, Command, DataCmd
<1>1. PacketOrder(k, rl, qc)
  BY DEF LinkFits, PacketOrder, Creation, Closing
<1>2. Creation(k, l, "closing", rl, qc)
  BY DEF LinkFits, PacketOrder, Creation, Closing
<1>3. Closing(k, l, "closing", rl, qc)
  BY DEF LinkFits, PacketOrder, Creation, Closing
<1>. QED  BY <1>1, <1>2, <1>3 DEF LinkFits

\* The listening side reads data or an acknowledgement.
LEMMA FitsListenReads ==
  ASSUME NEW k, NEW l, NEW c, NEW ql, NEW qc, NEW rl,
         NEW x \in DataCmd,
         LinkFits(k, l, c, ql, qc), Consumed(ql, rl, k, x)
  PROVE  LinkFits(k, l, c, rl, qc)
<1>. USE HasParts DEF Appended, Consumed, LinkCmd, Command, DataCmd
<1>1. PacketOrder(k, rl, qc)
  BY DEF LinkFits, PacketOrder, Creation, Closing
<1>2. Creation(k, l, c, rl, qc)
  BY DEF LinkFits, PacketOrder, Creation, Closing
<1>3. Closing(k, l, c, rl, qc)
  BY DEF LinkFits, PacketOrder, Creation, Closing
<1>. QED  BY <1>1, <1>2, <1>3 DEF LinkFits

\* The same at the connecting side.
LEMMA FitsConnectReads ==
  ASSUME NEW k, NEW l, NEW c, NEW ql, NEW qc, NEW rc,
         NEW x \in DataCmd,
         LinkFits(k, l, c, ql, qc), Consumed(qc, rc, k, x)
  PROVE  LinkFits(k, l, c, ql, rc)
<1>. USE HasParts DEF Appended, Consumed, LinkCmd, Command, DataCmd
<1>1. PacketOrder(k, ql, rc)
  BY DEF LinkFits, PacketOrder, Creation, Closing
<1>2. Creation(k, l, c, ql, rc)
  BY DEF LinkFits, PacketOrder, Creation, Closing
<1>3. Closing(k, l, c, ql, rc)
  BY DEF LinkFits, PacketOrder, Creation, Closing
<1>. QED  BY <1>1, <1>2, <1>3 DEF LinkFits

\* A closing link at the listening side reads LINK_CLOSE ...
LEMMA FitsListenClosed ==
  ASSUME NEW k, NEW l, NEW c, NEW ql, NEW qc, NEW rl,
         LinkFits(k, l, c, ql, qc), l = "closing", Consumed(ql, rl, k, "LINK_CLOSE")
  PROVE  LinkFits(k, "absent", c, rl, qc)
<1>. USE HasParts DEF Appended, Consumed, LinkCmd, Command, DataCmd
<1>1. PacketOrder(k, rl, qc)
  BY DEF LinkFits, PacketOrder, Creation, Closing
<1>2. Creation(k, "absent", c, rl, qc)
  BY DEF LinkFits, PacketOrder, Creation, Closing
<1>3. Closing(k, "absent", c, rl, qc)
  BY DEF LinkFits, PacketOrder, Creation, Closing
<1>. QED  BY <1>1, <1>2, <1>3 DEF LinkFits

\* ... an open one answers it.
LEMMA FitsListenAnswers ==
  ASSUME NEW k, NEW l, NEW c, NEW ql, NEW qc, NEW rl, NEW rc,
         LinkFits(k, l, c, ql, qc), l = "open",
         Consumed(ql, rl, k, "LINK_CLOSE"), Appended(qc, rc, k, "LINK_CLOSE")
  PROVE  LinkFits(k, "absent", c, rl, rc)
<1>. USE HasParts DEF Appended, Consumed, LinkCmd, Command, DataCmd
<1>1. PacketOrder(k, rl, rc)
  BY DEF LinkFits, PacketOrder, Creation, Closing
<1>2. Creation(k, "absent", c, rl, rc)
  BY DEF LinkFits, PacketOrder, Creation, Closing
<1>3. Closing(k, "absent", c, rl, rc)
  BY DEF LinkFits, PacketOrder, Creation, Closing
<1>. QED  BY <1>1, <1>2, <1>3 DEF LinkFits

\* A closing link at the connecting side reads LINK_CLOSE ...
LEMMA FitsConnectClosed ==
  ASSUME NEW k, NEW l, NEW c, NEW ql, NEW qc, NEW rc,
         LinkFits(k, l, c, ql, qc), c = "closing", Consumed(qc, rc, k, "LINK_CLOSE")
  PROVE  LinkFits(k, l, "absent", ql, rc)
<1>. USE HasParts DEF Appended, Consumed, LinkCmd, Command, DataCmd
<1>1. PacketOrder(k, ql, rc)
  BY DEF LinkFits, PacketOrder, Creation, Closing
<1>2. Creation(k, l, "absent", ql, rc)
  BY DEF LinkFits, PacketOrder, Creation, Closing
<1>3. Closing(k, l, "absent", ql, rc)
  BY DEF LinkFits, PacketOrder, Creation, Closing
<1>. QED  BY <1>1, <1>2, <1>3 DEF LinkFits

\* ... an open one answers it.
LEMMA FitsConnectAnswers ==
  ASSUME NEW k, NEW l, NEW c, NEW ql, NEW qc, NEW rl, NEW rc,
         LinkFits(k, l, c, ql, qc), c = "open",
         Consumed(qc, rc, k, "LINK_CLOSE"), Appended(ql, rl, k, "LINK_CLOSE")
  PROVE  LinkFits(k, l, "absent", rl, rc)
<1>. USE HasParts DEF Appended, Consumed, LinkCmd, Command, DataCmd
<1>1. PacketOrder(k, rl, rc)
  BY DEF LinkFits, PacketOrder, Creation, Closing
<1>2. Creation(k, l, "absent", rl, rc)
  BY DEF LinkFits, PacketOrder, Creation, Closing
<1>3. Closing(k, l, "absent", rl, rc)
  BY DEF LinkFits, PacketOrder, Creation, Closing
<1>. QED  BY <1>1, <1>2, <1>3 DEF LinkFits

\* A packet the listening side reads finds its link, in a state that expects it.
LEMMA FitsAtListen ==
  ASSUME NEW k, NEW l, NEW c, NEW ql, NEW qc, NEW rl, NEW x \in LinkCmd,
         LinkFits(k, l, c, ql, qc), Consumed(ql, rl, k, x)
  PROVE  /\ l # "absent"
         /\ x # "LINK_CREATE"
         /\ x \in {"LINK_SUCCESS", "LINK_FAILURE"} \/ l # "pending"
BY HasParts
DEF Consumed, LinkFits, PacketOrder, Creation, Closing, LinkCmd, Command, DataCmd

\* The same at the connecting side, where LINK_CREATE meets no older link.
LEMMA FitsAtConnect ==
  ASSUME NEW k, NEW l, NEW c, NEW ql, NEW qc, NEW rc, NEW x \in LinkCmd,
         LinkFits(k, l, c, ql, qc), Consumed(qc, rc, k, x)
  PROVE  /\ x = "LINK_CREATE" <=> c = "absent"
         /\ c # "pending"
         /\ x \notin {"LINK_SUCCESS", "LINK_FAILURE"}
BY HasParts
DEF Consumed, LinkFits, PacketOrder, Creation, Closing, LinkCmd, Command, DataCmd

-------------------------------------------------------------------------------
(***************************************************************************)
(* The inductive invariant.  LinkProtocol is inductive as long as no id is *)
(* given to a second link while the first is in use; that takes more       *)
(* accepted connections than there are ids, because an id that was never   *)
(* given is not in use (FreshIds).                                         *)
(***************************************************************************)
FreshIds ==
  \A k \in Key : m_next_id[k[1]] <= k[2] => linkState[ListenSideOf(k)][k] = "absent"

Wrapped == \E c \in Conns : m_next_id[c] > IdModulus

Orderly ==
  /\ \A s \in Side : mode[s] \in {"running", "exited"}
  /\ \A k \in Key : KeyFits(k)
  /\ FreshIds

IInv ==
  /\ TypeOK
  /\ NothingDangling => Orderly
  /\ NothingDangling \/ Wrapped

\* g is f with packet m sent by side s, or with the first packet of side s read.
Put(f, g, s, m) == g = [f EXCEPT ![Peer(s)] = Append(@, m)]
Take(f, g, s) == g = [f EXCEPT ![s] = Tail(@)]

\* One packet more towards the other side.
LEMMA PutFacts ==
  ASSUME NEW f \in [Side -> Seq(Packet)], NEW s \in Side, NEW m \in Packet,
         NEW g, Put(f, g, s, m)
  PROVE  /\ g \in [Side -> Seq(Packet)]
         /\ g[s] = f[s]
         /\ Appended(f[Peer(s)], g[Peer(s)], m.key, m.cmd)
         /\ \A t \in Side : \A k : m.key # k \/ m.cmd = "CMD_ERROR" => Kept(f[t], g[t], k)
<1>1. f[Peer(s)] \in Seq(Packet) /\ Peer(s) \in Side /\ Peer(s) # s
  BY PeerSide
<1>2. Append(f[Peer(s)], m) \in Seq(Packet)
  BY <1>1, AppendProperties
<1>3. g \in [Side -> Seq(Packet)] /\ g[s] = f[s] /\ g[Peer(s)] = Append(f[Peer(s)], m)
  BY <1>1, <1>2 DEF Put
<1>4. \A t \in Side : t # Peer(s) => g[t] = f[t]
  BY DEF Put
<1>5. Appended(f[Peer(s)], g[Peer(s)], m.key, m.cmd)
  BY <1>1, <1>3, AppendThis
<1>6. ASSUME NEW t \in Side, NEW k, m.key # k \/ m.cmd = "CMD_ERROR"
      PROVE  Kept(f[t], g[t], k)
  <2>1. CASE t = Peer(s)
    BY <1>1, <1>3, <1>6, <2>1, AppendOther
  <2>2. CASE t # Peer(s)
    BY <1>4, <2>2, KeptRefl
  <2>. QED  BY <2>1, <2>2
<1>. QED  BY <1>3, <1>5, <1>6

\* The first packet has been read.
LEMMA TakeFacts ==
  ASSUME NEW f \in [Side -> Seq(Packet)], NEW s \in Side, f[s] # <<>>,
         NEW m, m = Head(f[s]), NEW g, Take(f, g, s)
  PROVE  /\ g \in [Side -> Seq(Packet)]
         /\ g[Peer(s)] = f[Peer(s)]
         /\ Consumed(f[s], g[s], m.key, m.cmd)
         /\ \A t \in Side : \A k : m.key # k \/ m.cmd = "CMD_ERROR" => Kept(f[t], g[t], k)
<1>1. f[s] \in Seq(Packet) /\ Peer(s) \in Side /\ Peer(s) # s
  BY PeerSide
<1>2. Tail(f[s]) \in Seq(Packet)
  BY <1>1, HeadTailProperties
<1>3. g \in [Side -> Seq(Packet)] /\ g[Peer(s)] = f[Peer(s)] /\ g[s] = Tail(f[s])
  BY <1>1, <1>2 DEF Take
<1>4. \A t \in Side : t # s => g[t] = f[t]
  BY DEF Take
<1>5. Consumed(f[s], g[s], m.key, m.cmd)
  BY <1>1, <1>3, TailThis
<1>6. ASSUME NEW t \in Side, NEW k, m.key # k \/ m.cmd = "CMD_ERROR"
      PROVE  Kept(f[t], g[t], k)
  <2>1. CASE t = s
    BY <1>1, <1>3, <1>6, <2>1, TailOther
  <2>2. CASE t # s
    BY <1>4, <2>2, KeptRefl
  <2>. QED  BY <2>1, <2>2
<1>. QED  BY <1>3, <1>5, <1>6

\* Links that a step is not about still fit.
LEMMA OthersFit ==
  ASSUME NEW k \in Key, KeyFits(k),
         \A s \in Side : linkState'[s][k] = linkState[s][k] /\ Kept(chan[s], chan'[s], k)
  PROVE  KeyFits(k)'
<1>1. ListenSideOf(k) \in Side /\ Peer(ListenSideOf(k)) \in Side
  BY ConstantsAssumption, PeerSide DEF ListenSideOf, Key
<1>. QED  BY <1>1, FitsKept DEF KeyFits

\* A link has one end at each side.
LEMMA TwoSides ==
  ASSUME NEW k \in Key, NEW s \in Side
  PROVE  /\ ListenSideOf(k) \in Side
         /\ s = ListenSideOf(k) \/ (s = Peer(ListenSideOf(k)) /\ Peer(s) = ListenSideOf(k))
BY ConstantsAssumption DEF ListenSideOf, Key, Side, Peer

(***************************************************************************)
(* LinkFits seen from side s: v and w are the states of the link at s and  *)
(* at its peer, qs and qp the FIFOs to s and to its peer.                  *)
(***************************************************************************)
FitsAs(s, k, v, w, qs, qp) ==
  IF s = ListenSideOf(k) THEN LinkFits(k, v, w, qs, qp) ELSE LinkFits(k, w, v, qp, qs)

\* Both views of a link say the same.
LEMMA FitsViews ==
  ASSUME NEW s \in Side, NEW k \in Key
  PROVE  KeyFits(k) <=> FitsAs(s, k, linkState[s][k], linkState[Peer(s)][k],
                               chan[s], chan[Peer(s)])
<1>1. CASE s = ListenSideOf(k)
  BY <1>1 DEF KeyFits, FitsAs
<1>2. CASE s # ListenSideOf(k)
  <2>1. s = Peer(ListenSideOf(k)) /\ Peer(s) = ListenSideOf(k)
    BY <1>2, TwoSides
  <2>. QED  BY <1>2, <2>1 DEF KeyFits, FitsAs
<1>. QED  BY <1>1, <1>2

\* An open end sends data or an acknowledgement.
LEMMA SendsFits ==
  ASSUME NEW s, NEW k, NEW w, NEW qs, NEW qp, NEW rp, NEW x \in DataCmd,
         FitsAs(s, k, "open", w, qs, qp), Appended(qp, rp, k, x)
  PROVE  FitsAs(s, k, "open", w, qs, rp)
BY FitsListenSends, FitsConnectSends DEF FitsAs

\* An open end closes.
LEMMA ClosesFits ==
  ASSUME NEW s, NEW k, NEW w, NEW qs, NEW qp, NEW rp,
         FitsAs(s, k, "open", w, qs, qp), Appended(qp, rp, k, "LINK_CLOSE")
  PROVE  FitsAs(s, k, "closing", w, qs, rp)
BY FitsListenCloses, FitsConnectCloses DEF FitsAs

\* An end reads data or an acknowledgement.
LEMMA ReadsFits ==
  ASSUME NEW s, NEW k, NEW v, NEW w, NEW qs, NEW qp, NEW rs, NEW x \in DataCmd,
         FitsAs(s, k, v, w, qs, qp), Consumed(qs, rs, k, x)
  PROVE  FitsAs(s, k, v, w, rs, qp)
BY FitsListenReads, FitsConnectReads DEF FitsAs

\* A closing end reads LINK_CLOSE ...
LEMMA ClosedFits ==
  ASSUME NEW s, NEW k, NEW w, NEW qs, NEW qp, NEW rs,
         FitsAs(s, k, "closing", w, qs, qp), Consumed(qs, rs, k, "LINK_CLOSE")
  PROVE  FitsAs(s, k, "absent", w, rs, qp)
BY FitsListenClosed, FitsConnectClosed DEF FitsAs

\* ... an open one answers it.
LEMMA AnswersFits ==
  ASSUME NEW s, NEW k, NEW w, NEW qs, NEW qp, NEW rs, NEW rp,
         FitsAs(s, k, "open", w, qs, qp),
         Consumed(qs, rs, k, "LINK_CLOSE"), Appended(qp, rp, k, "LINK_CLOSE")
  PROVE  FitsAs(s, k, "absent", w, rs, rp)
BY FitsListenAnswers, FitsConnectAnswers DEF FitsAs

(***************************************************************************)
(* A packet that is read finds its link in a state that expects it, and    *)
(* comes to the side it is meant for.                                      *)
(***************************************************************************)
LEMMA Expected ==
  ASSUME NEW s, NEW k, NEW v, NEW w, NEW qs, NEW qp, NEW rs, NEW x \in LinkCmd,
         FitsAs(s, k, v, w, qs, qp), Consumed(qs, rs, k, x)
  PROVE  /\ x = "LINK_CREATE" <=> v = "absent"
         /\ x = "LINK_CREATE" => s # ListenSideOf(k)
         /\ x \in {"LINK_SUCCESS", "LINK_FAILURE"} => s = ListenSideOf(k)
         /\ x \notin {"LINK_SUCCESS", "LINK_FAILURE"} => v # "pending"
BY FitsAtListen, FitsAtConnect DEF FitsAs

\* A step of side s about link k, which puts that end of the link in state v.
LEMMA StepOrderly ==
  ASSUME TypeOK, Orderly, NEW s \in Side, NEW k \in Key, NEW v,
         linkState' = [linkState EXCEPT ![s][k] = v],
         UNCHANGED m_next_id,
         \A t \in Side : mode'[t] \in {"running", "exited"},
         \A j \in Key : j # k => \A t \in Side : Kept(chan[t], chan'[t], j),
         s = ListenSideOf(k) => linkState[s][k] # "absent",
         FitsAs(s, k, v, linkState[Peer(s)][k], chan'[s], chan'[Peer(s)])
  PROVE  Orderly'
<1>1. linkState \in [Side -> [Key -> {"absent", "pending", "open", "closing"}]]
  BY DEF TypeOK
<1>2. /\ linkState'[s][k] = v
      /\ linkState'[Peer(s)][k] = linkState[Peer(s)][k]
  BY <1>1, PeerSide
<1>3. ASSUME NEW j \in Key, j # k, NEW t \in Side
      PROVE  linkState'[t][j] = linkState[t][j]
  BY <1>1, <1>3
<1>4. ASSUME NEW j \in Key
      PROVE  KeyFits(j)'
  <2>1. CASE j # k
    <3>1. KeyFits(j)
      BY DEF Orderly
    <3>. QED  BY <1>3, <2>1, <3>1, OthersFit
  <2>2. CASE j = k /\ s = ListenSideOf(k)
    BY <1>2, <2>2 DEF KeyFits, FitsAs
  <2>3. CASE j = k /\ s = Peer(ListenSideOf(k)) /\ Peer(s) = ListenSideOf(k)
    <3>1. s # ListenSideOf(k)
      BY <2>3, PeerSide
    <3>. QED  BY <1>2, <2>3, <3>1 DEF KeyFits, FitsAs
  <2>. QED  BY <2>1, <2>2, <2>3, TwoSides
<1>5. FreshIds'
  <2>. SUFFICES ASSUME NEW j \in Key, m_next_id[j[1]] <= j[2]
                PROVE  linkState'[ListenSideOf(j)][j] = "absent"
    BY DEF FreshIds
  <2>1. linkState[ListenSideOf(j)][j] = "absent" /\ ListenSideOf(j) \in Side
    BY TwoSides DEF Orderly, FreshIds
  <2>2. CASE j # k
    BY <1>3, <2>1, <2>2
  <2>3. CASE j = k
    <3>1. s # ListenSideOf(k)
      BY <2>1, <2>3
    <3>2. Peer(s) = ListenSideOf(k)
      BY <3>1, TwoSides
    <3>. QED  BY <1>2, <2>1, <2>3, <3>2
  <2>. QED  BY <2>2, <2>3
<1>. QED  BY <1>4, <1>5 DEF Orderly

\* A step about link k that leaves its states alone.
LEMMA QuietUpdate ==
  ASSUME TypeOK, NEW s \in Side, NEW k \in Key, UNCHANGED linkState
  PROVE  linkState' = [linkState EXCEPT ![s][k] = linkState[s][k]]
BY DEF TypeOK

\* A step that leaves all links alone and sends or reads no packet of any.
LEMMA QuietOrderly ==
  ASSUME Orderly, UNCHANGED <<m_next_id, linkState>>,
         \A t \in Side : mode'[t] \in {"running", "exited"},
         \A j \in Key : \A t \in Side : Kept(chan[t], chan'[t], j)
  PROVE  Orderly'
<1>1. \A j \in Key : KeyFits(j)'
  BY OthersFit DEF Orderly
<1>. QED  BY <1>1 DEF Orderly, FreshIds

\* A step that changes neither packets nor links.
LEMMA IdleOrderly ==
  ASSUME Orderly, UNCHANGED <<chan, m_next_id, linkState>>,
         \A t \in Side : mode'[t] \in {"running", "exited"}
  PROVE  Orderly'
BY DEF Orderly, KeyFits, FreshIds

\* PutFacts for a packet of link k.
LEMMA MsgPut ==
  ASSUME NEW f \in [Side -> Seq(Packet)], NEW s \in Side, NEW k \in Key, NEW cmd \in Command,
         NEW n \in Nat, NEW g, Put(f, g, s, Msg(k, cmd, n))
  PROVE  /\ g \in [Side -> Seq(Packet)]
         /\ g[s] = f[s]
         /\ Appended(f[Peer(s)], g[Peer(s)], k, cmd)
         /\ \A j : j # k \/ cmd = "CMD_ERROR" => \A t \in Side : Kept(f[t], g[t], j)
<1>. DEFINE m == Msg(k, cmd, n)
<1>1. m \in Packet /\ m.key = k /\ m.cmd = cmd /\ Put(f, g, s, m)
  BY MsgType
<1>. HIDE DEF m
<1>2. /\ g \in [Side -> Seq(Packet)]
      /\ g[s] = f[s]
      /\ Appended(f[Peer(s)], g[Peer(s)], m.key, m.cmd)
      /\ \A t \in Side : \A j : m.key # j \/ m.cmd = "CMD_ERROR" => Kept(f[t], g[t], j)
  BY <1>1, PutFacts
<1>. QED  BY <1>1, <1>2

\* The two FIFOs after a packet has been read.
LEMMA ReadFacts ==
  ASSUME TypeOK, NEW s \in Side, NEW m \in Packet, chan[s] # <<>>, m = Head(chan[s])
  PROVE  /\ Consume(s) \in [Side -> Seq(Packet)]
         /\ Consume(s)[Peer(s)] = chan[Peer(s)]
         /\ Consumed(chan[s], Consume(s)[s], m.key, m.cmd)
         /\ \A j : j # m.key \/ m.cmd = "CMD_ERROR" =>
              \A t \in Side : Kept(chan[t], Consume(s)[t], j)
<1>1. chan \in [Side -> Seq(Packet)] /\ Take(chan, Consume(s), s)
  BY DEF TypeOK, Take, Consume
<1>. QED  BY <1>1, TakeFacts

\* The two FIFOs after a packet has been read and answered.
LEMMA ReplyFacts ==
  ASSUME TypeOK, NEW s \in Side, NEW m \in Packet, chan[s] # <<>>, m = Head(chan[s]),
         NEW cmd \in Command
  PROVE  LET g == Reply(s, Msg(m.key, cmd, 0))
         IN  /\ g \in [Side -> Seq(Packet)]
             /\ Consumed(chan[s], g[s], m.key, m.cmd)
             /\ g[s] = Consume(s)[s]
             /\ Appended(chan[Peer(s)], g[Peer(s)], m.key, cmd)
             /\ \A j : j # m.key => \A t \in Side : Kept(chan[t], g[t], j)
             /\ cmd = "CMD_ERROR" => Kept(chan[Peer(s)], g[Peer(s)], m.key)
<1>. DEFINE g == Reply(s, Msg(m.key, cmd, 0))
            f == Consume(s)
            k == m.key
<1>1. k \in Key
  BY DEF Packet
<1>2. /\ f \in [Side -> Seq(Packet)]
      /\ f[Peer(s)] = chan[Peer(s)]
      /\ Consumed(chan[s], f[s], k, m.cmd)
      /\ \A j : j # k => \A t \in Side : Kept(chan[t], f[t], j)
  BY ReadFacts
<1>3. Put(f, g, s, Msg(k, cmd, 0))
  BY PeerSide DEF TypeOK, Put, Consume, Reply
<1>. HIDE DEF f, g, k
<1>4. /\ g \in [Side -> Seq(Packet)]
      /\ g[s] = f[s]
      /\ Appended(f[Peer(s)], g[Peer(s)], k, cmd)
      /\ \A j : j # k \/ cmd = "CMD_ERROR" => \A t \in Side : Kept(f[t], g[t], j)
  BY <1>1, <1>2, <1>3, MsgPut
<1>5. ASSUME NEW j, j # k, NEW t \in Side  PROVE Kept(chan[t], g[t], j)
  BY <1>2, <1>4, <1>5, KeptTrans
<1>6. cmd = "CMD_ERROR" => Kept(chan[Peer(s)], g[Peer(s)], k)
  BY <1>2, <1>4, PeerSide
<1>. QED  BY <1>2, <1>4, <1>5, <1>6 DEF f, g, k

\* PolledEof
LEMMA EofOrderly ==
  ASSUME TypeOK, Orderly, NEW s \in Side, NEW k \in Key, PolledEof(s, k)
  PROVE  Orderly'
<1>1. linkState' = [linkState EXCEPT ![s][k] = "closing"]
  BY DEF PolledEof, SetClosing
<1>2. linkState[s][k] = "open" /\ UNCHANGED <<mode, m_next_id>>
  BY DEF PolledEof, LinkTurn
<1>3. Put(chan, chan', s, Msg(k, "LINK_CLOSE", 0))
  BY DEF PolledEof, Send, Put
<1>4. /\ chan'[s] = chan[s]
      /\ Appended(chan[Peer(s)], chan'[Peer(s)], k, "LINK_CLOSE")
      /\ \A j \in Key : j # k => \A t \in Side : Kept(chan[t], chan'[t], j)
  <2>. DEFINE m == Msg(k, "LINK_CLOSE", 0)
  <2>1. m \in Packet /\ m.key = k /\ m.cmd = "LINK_CLOSE"
    BY MsgType DEF Command
  <2>2. chan \in [Side -> Seq(Packet)] /\ Put(chan, chan', s, m)
    BY <1>3 DEF TypeOK
  <2>. HIDE DEF m
  <2>3. /\ chan'[s] = chan[s]
        /\ Appended(chan[Peer(s)], chan'[Peer(s)], m.key, m.cmd)
        /\ \A t \in Side : \A j : m.key # j \/ m.cmd = "CMD_ERROR" => Kept(chan[t], chan'[t], j)
    BY <2>1, <2>2, PutFacts
  <2>. QED  BY <2>1, <2>3
<1>5. FitsAs(s, k, "open", linkState[Peer(s)][k], chan[s], chan[Peer(s)])
  BY <1>2, FitsViews DEF Orderly
<1>6. FitsAs(s, k, "closing", linkState[Peer(s)][k], chan'[s], chan'[Peer(s)])
  BY <1>4, <1>5, ClosesFits
<1>7. \A t \in Side : mode'[t] \in {"running", "exited"}
  BY <1>2 DEF Orderly
<1>8. linkState[s][k] # "absent" /\ UNCHANGED m_next_id
  BY <1>2
<1>. QED  BY <1>1, <1>4, <1>6, <1>7, <1>8, StepOrderly

\* PolledLink: data, then LINK_CLOSE after a hangup.
LEMMA LinkOrderly ==
  ASSUME TypeOK, Orderly, NEW s \in Side, NEW k \in Key, NEW n \in Nat, PolledLink(s, k, n)
  PROVE  Orderly'
<1>. DEFINE in == "POLLIN" \in revents[s][k]
            hup == "POLLHUP" \in revents[s][k]
            sent == IF in THEN SendData(s, k) ELSE chan
            w == linkState[Peer(s)][k]
            data == Msg(k, IF IsAck(k) THEN "LINK_SEND_FOR_ACK" ELSE "LINK_SEND",
                        nread[s][k] + 1)
            bye == Msg(k, "LINK_CLOSE", 0)
<1>1. linkState' = [linkState EXCEPT ![s][k] = IF hup THEN "closing" ELSE @]
  BY DEF PolledLink
<1>2. linkState[s][k] = "open" /\ UNCHANGED <<mode, m_next_id>>
  BY DEF PolledLink, LinkTurn
<1>3. FitsAs(s, k, "open", w, chan[s], chan[Peer(s)])
  BY <1>2, FitsViews DEF Orderly
<1>4. data \in Packet /\ data.key = k /\ data.cmd \in DataCmd /\ data.cmd # "CMD_ERROR"
  <2>1. nread[s][k] + 1 \in Nat
    BY DEF TypeOK
  <2>. QED  BY <2>1, MsgType DEF Command, DataCmd
<1>5. bye \in Packet /\ bye.key = k /\ bye.cmd = "LINK_CLOSE"
  BY MsgType DEF Command
<1>6. chan \in [Side -> Seq(Packet)]
  BY DEF TypeOK
<1>7. in => Put(chan, sent, s, data)
  BY DEF SendData, Send, Put
<1>8. ~in => sent = chan
  OBVIOUS
<1>9. hup => Put(sent, chan', s, bye)
  BY DEF PolledLink, Put
<1>10. ~hup => chan' = sent
  BY DEF PolledLink
<1>. HIDE DEF in, hup, sent, data, bye, w
<1>11. /\ sent \in [Side -> Seq(Packet)]
       /\ sent[s] = chan[s]
       /\ FitsAs(s, k, "open", w, sent[s], sent[Peer(s)])
       /\ \A j : j # k => \A t \in Side : Kept(chan[t], sent[t], j)
  <2>1. CASE in
    <3>1. /\ sent \in [Side -> Seq(Packet)]
          /\ sent[s] = chan[s]
          /\ Appended(chan[Peer(s)], sent[Peer(s)], data.key, data.cmd)
          /\ \A t \in Side : \A j : data.key # j \/ data.cmd = "CMD_ERROR"
                                      => Kept(chan[t], sent[t], j)
      BY <1>4, <1>6, <1>7, <2>1, PutFacts
    <3>2. FitsAs(s, k, "open", w, sent[s], sent[Peer(s)])
      BY <1>3, <1>4, <3>1, SendsFits
    <3>. QED  BY <1>4, <3>1, <3>2
  <2>2. CASE ~in
    BY <1>3, <1>6, <1>8, <2>2, KeptRefl
  <2>. QED  BY <2>1, <2>2
<1>. DEFINE v == IF hup THEN "closing" ELSE "open"
<1>12. /\ FitsAs(s, k, v, w, chan'[s], chan'[Peer(s)])
       /\ \A j : j # k => \A t \in Side : Kept(chan[t], chan'[t], j)
  <2>1. CASE hup
    <3>1. /\ chan'[s] = sent[s]
          /\ Appended(sent[Peer(s)], chan'[Peer(s)], bye.key, bye.cmd)
          /\ \A t \in Side : \A j : bye.key # j \/ bye.cmd = "CMD_ERROR"
                                      => Kept(sent[t], chan'[t], j)
      BY <1>5, <1>9, <1>11, <2>1, PutFacts
    <3>2. FitsAs(s, k, "closing", w, chan'[s], chan'[Peer(s)])
      BY <1>5, <1>11, <3>1, ClosesFits
    <3>3. ASSUME NEW j, j # k, NEW t \in Side  PROVE Kept(chan[t], chan'[t], j)
      BY <1>5, <1>11, <3>1, <3>3, KeptTrans
    <3>. QED  BY <2>1, <3>2, <3>3
  <2>2. CASE ~hup
    BY <1>10, <1>11, <2>2
  <2>. QED  BY <2>1, <2>2
<1>13. linkState' = [linkState EXCEPT ![s][k] = v]
  BY <1>1, <1>2 DEF TypeOK
<1>14. \A t \in Side : mode'[t] \in {"running", "exited"}
  BY <1>2 DEF Orderly
<1>15. linkState[s][k] # "absent" /\ UNCHANGED m_next_id
  BY <1>2
<1>. HIDE DEF v
<1>. QED  BY <1>12, <1>13, <1>14, <1>15, StepOrderly DEF w

-------------------------------------------------------------------------------
\* What a packet read from the tunnel meets.
LEMMA Arrival ==
  ASSUME TypeOK, Orderly, NEW s \in Side, NEW m \in Packet, Receives(s, m),
         m.cmd # "CMD_ERROR"
  PROVE  LET k == m.key
             v == linkState[s][k]
         IN  /\ k \in Key
             /\ FitsAs(s, k, v, linkState[Peer(s)][k], chan[s], chan[Peer(s)])
             /\ Consumed(chan[s], Consume(s)[s], k, m.cmd)
             /\ m.cmd = "LINK_CREATE" <=> v = "absent"
             /\ m.cmd = "LINK_CREATE" => s # ListenSideOf(k)
             /\ m.cmd \in {"LINK_SUCCESS", "LINK_FAILURE"} => s = ListenSideOf(k)
             /\ m.cmd \notin {"LINK_SUCCESS", "LINK_FAILURE"} => v # "pending"
<1>1. m.key \in Key /\ m.cmd \in LinkCmd
  BY DEF Packet, LinkCmd
<1>2. chan[s] # <<>> /\ m = Head(chan[s])
  BY DEF Receives
<1>3. Consumed(chan[s], Consume(s)[s], m.key, m.cmd)
  BY <1>2, ReadFacts
<1>4. FitsAs(s, m.key, linkState[s][m.key], linkState[Peer(s)][m.key], chan[s], chan[Peer(s)])
  BY <1>1, FitsViews DEF Orderly
<1>5. /\ m.cmd = "LINK_CREATE" <=> linkState[s][m.key] = "absent"
      /\ m.cmd = "LINK_CREATE" => s # ListenSideOf(m.key)
      /\ m.cmd \in {"LINK_SUCCESS", "LINK_FAILURE"} => s = ListenSideOf(m.key)
      /\ m.cmd \notin {"LINK_SUCCESS", "LINK_FAILURE"} => linkState[s][m.key] # "pending"
  BY <1>1, <1>3, <1>4, Expected
<1>. QED  BY <1>1, <1>3, <1>4, <1>5

\* The step of an end that has read a packet and sent nothing.
LEMMA ConsumeOrderly ==
  ASSUME TypeOK, Orderly, NEW s \in Side, NEW m \in Packet, Receives(s, m),
         m.cmd \notin {"CMD_ERROR", "LINK_CREATE"},
         UNCHANGED <<mode, m_next_id>>, chan' = Consume(s),
         NEW v, linkState' = [linkState EXCEPT ![s][m.key] = v],
         FitsAs(s, m.key, v, linkState[Peer(s)][m.key], Consume(s)[s], chan[Peer(s)])
  PROVE  Orderly'
<1>. DEFINE k == m.key
<1>1. k \in Key /\ linkState[s][k] # "absent"
  BY Arrival
<1>2. chan[s] # <<>> /\ m = Head(chan[s])
  BY DEF Receives
<1>3. /\ chan'[Peer(s)] = chan[Peer(s)]
      /\ \A j : j # k => \A t \in Side : Kept(chan[t], chan'[t], j)
  BY <1>2, ReadFacts
<1>4. \A t \in Side : mode'[t] \in {"running", "exited"}
  BY DEF Orderly
<1>5. FitsAs(s, k, v, linkState[Peer(s)][k], chan'[s], chan'[Peer(s)])
  BY <1>3
<1>6. UNCHANGED m_next_id
  OBVIOUS
<1>. HIDE DEF k
<1>7. linkState' = [linkState EXCEPT ![s][k] = v]
  BY DEF k
<1>. QED  BY ONLY TypeOK, Orderly, s \in Side, <1>1, <1>3, <1>4, <1>5, <1>6, <1>7,
                   StepOrderly

\* The step of an end that has read a packet and answered it.
LEMMA AnswerOrderly ==
  ASSUME TypeOK, Orderly, NEW s \in Side, NEW m \in Packet, Receives(s, m),
         m.cmd # "CMD_ERROR", NEW cmd \in LinkCmd,
         UNCHANGED m_next_id, \A t \in Side : mode'[t] \in {"running", "exited"},
         chan' = Reply(s, Msg(m.key, cmd, 0)),
         NEW v, linkState' = [linkState EXCEPT ![s][m.key] = v],
         ASSUME NEW rp, Appended(chan[Peer(s)], rp, m.key, cmd)
         PROVE  FitsAs(s, m.key, v, linkState[Peer(s)][m.key], Consume(s)[s], rp)
  PROVE  Orderly'
<1>. DEFINE k == m.key
<1>1. k \in Key /\ (s = ListenSideOf(k) => linkState[s][k] # "absent")
  BY Arrival
<1>2. chan[s] # <<>> /\ m = Head(chan[s]) /\ cmd \in Command
  BY DEF Receives, LinkCmd
<1>3. /\ chan'[s] = Consume(s)[s]
      /\ Appended(chan[Peer(s)], chan'[Peer(s)], k, cmd)
      /\ \A j : j # k => \A t \in Side : Kept(chan[t], chan'[t], j)
  BY <1>2, ReplyFacts
<1>4. FitsAs(s, k, v, linkState[Peer(s)][k], chan'[s], chan'[Peer(s)])
  BY <1>3
<1>. HIDE DEF k
<1>5. linkState' = [linkState EXCEPT ![s][k] = v]
  BY DEF k
<1>6. /\ \A t \in Side : mode'[t] \in {"running", "exited"}
      /\ UNCHANGED m_next_id
  OBVIOUS
<1>. QED  BY ONLY TypeOK, Orderly, s \in Side, <1>1, <1>3, <1>4, <1>5, <1>6, StepOrderly

\* RcvError
LEMMA ErrorOrderly ==
  ASSUME TypeOK, Orderly, NEW s \in Side, NEW m \in Packet, RcvError(s, m)
  PROVE  Orderly'
<1>1. chan[s] # <<>> /\ m = Head(chan[s]) /\ m.cmd = "CMD_ERROR"
  BY DEF RcvError, Receives
<1>2. chan' = Consume(s) /\ UNCHANGED <<mode, m_next_id, linkState>>
  BY DEF RcvError
<1>3. \A j \in Key : \A t \in Side : Kept(chan[t], chan'[t], j)
  BY <1>1, <1>2, ReadFacts
<1>4. \A t \in Side : mode'[t] \in {"running", "exited"}
  BY <1>2 DEF Orderly
<1>. QED  BY <1>2, <1>3, <1>4, QuietOrderly

\* RcvCreateOk meets no older link of the same id.
LEMMA CreateOkOrderly ==
  ASSUME TypeOK, Orderly, NEW s \in Side, NEW m \in Packet, RcvCreateOk(s, m)
  PROVE  Orderly'
<1>1. Receives(s, m) /\ m.cmd = "LINK_CREATE" /\ UNCHANGED m_next_id
  BY DEF RcvCreateOk
<1>2. linkState' = [linkState EXCEPT ![s][m.key] = "open"]
  BY DEF RcvCreateOk, NewLink
<1>3. chan' = Reply(s, Msg(m.key, "LINK_SUCCESS", 0))
  BY DEF RcvCreateOk
<1>4. /\ m.key \in Key /\ linkState[s][m.key] = "absent" /\ s # ListenSideOf(m.key)
      /\ FitsAs(s, m.key, linkState[s][m.key], linkState[Peer(s)][m.key],
                chan[s], chan[Peer(s)])
      /\ Consumed(chan[s], Consume(s)[s], m.key, m.cmd)
  BY <1>1, Arrival
<1>5. mode' = [mode EXCEPT ![s] = IF InMap(s, m.key) THEN "dangling" ELSE @]
  BY DEF RcvCreateOk, NewLink
<1>6. \A t \in Side : mode'[t] \in {"running", "exited"}
  BY <1>4, <1>5 DEF Orderly, InMap, TypeOK
<1>7. ASSUME NEW rp, Appended(chan[Peer(s)], rp, m.key, "LINK_SUCCESS")
      PROVE  FitsAs(s, m.key, "open", linkState[Peer(s)][m.key], Consume(s)[s], rp)
  BY <1>1, <1>4, <1>7, FitsCreateOk DEF FitsAs
<1>8. "LINK_SUCCESS" \in LinkCmd /\ m.cmd # "CMD_ERROR"
  BY <1>1 DEF LinkCmd, Command
<1>. QED  BY <1>1, <1>2, <1>3, <1>6, <1>7, <1>8, AnswerOrderly

\* RcvCreateFail: LINK_FAILURE, after CMD_ERROR if the remote side reports.
LEMMA CreateFailOrderly ==
  ASSUME TypeOK, Orderly, NEW s \in Side, NEW m \in Packet, RcvCreateFail(s, m)
  PROVE  Orderly'
<1>. DEFINE k == m.key
            failure == Msg(k, "LINK_FAILURE", 0)
            f == IF s = "remote" THEN Reply(s, Msg(k, "CMD_ERROR", 0)) ELSE Consume(s)
<1>1. Receives(s, m) /\ m.cmd = "LINK_CREATE" /\ UNCHANGED <<mode, m_next_id, linkState>>
  BY DEF RcvCreateFail
<1>2. /\ k \in Key /\ linkState[s][k] = "absent" /\ s # ListenSideOf(k)
      /\ FitsAs(s, k, linkState[s][k], linkState[Peer(s)][k], chan[s], chan[Peer(s)])
      /\ Consumed(chan[s], Consume(s)[s], k, "LINK_CREATE")
  BY <1>1, Arrival
<1>3. chan[s] # <<>> /\ m = Head(chan[s])
  BY <1>1 DEF Receives
<1>4. /\ f \in [Side -> Seq(Packet)]
      /\ f[s] = Consume(s)[s]
      /\ Kept(chan[Peer(s)], f[Peer(s)], k)
      /\ \A j : j # k => \A t \in Side : Kept(chan[t], f[t], j)
  <2>1. CASE s = "remote"
    <3>1. "CMD_ERROR" \in Command
      BY DEF Command
    <3>. QED  BY <1>3, <2>1, <3>1, ReplyFacts
  <2>2. CASE s # "remote"
    BY <1>3, <2>2, ReadFacts, KeptRefl
  <2>. QED  BY <2>1, <2>2
<1>5. Put(f, chan', s, failure)
  <2>1. CASE s = "remote"
    BY <2>1 DEF RcvCreateFail, Put
  <2>2. CASE s # "remote"
    <3>1. chan' = Reply(s, failure)
      BY <2>2 DEF RcvCreateFail
    <3>. QED  BY <2>2, <3>1, PeerSide DEF Put, Reply, Consume, TypeOK
  <2>. QED  BY <2>1, <2>2
<1>6. failure \in Packet /\ failure.key = k /\ failure.cmd = "LINK_FAILURE"
  BY <1>2, MsgType DEF Command
<1>. HIDE DEF f, failure
<1>7. /\ chan'[s] = f[s]
      /\ Appended(f[Peer(s)], chan'[Peer(s)], k, "LINK_FAILURE")
      /\ \A j : j # k => \A t \in Side : Kept(f[t], chan'[t], j)
  <2>1. /\ chan'[s] = f[s]
        /\ Appended(f[Peer(s)], chan'[Peer(s)], failure.key, failure.cmd)
        /\ \A t \in Side : \A j : failure.key # j \/ failure.cmd = "CMD_ERROR"
                                    => Kept(f[t], chan'[t], j)
    BY <1>4, <1>5, <1>6, PutFacts
  <2>. QED  BY <1>6, <2>1
<1>8. FitsAs(s, k, "absent", linkState[Peer(s)][k], chan'[s], chan'[Peer(s)])
  <2>1. LinkFits(k, linkState[Peer(s)][k], "absent", chan[Peer(s)], chan[s])
    BY <1>2 DEF FitsAs
  <2>2. LinkFits(k, linkState[Peer(s)][k], "absent", f[Peer(s)], chan[s])
    BY <1>4, <2>1, FitsKept, KeptRefl
  <2>3. LinkFits(k, linkState[Peer(s)][k], "absent", chan'[Peer(s)], chan'[s])
    BY <1>2, <1>4, <1>7, <2>2, FitsCreateFail
  <2>. QED  BY <1>2, <2>3 DEF FitsAs
<1>9. ASSUME NEW j \in Key, j # k, NEW t \in Side
      PROVE  Kept(chan[t], chan'[t], j)
  BY <1>4, <1>7, <1>9, KeptTrans
<1>10. linkState' = [linkState EXCEPT ![s][k] = "absent"]
  BY <1>1, <1>2, QuietUpdate
<1>11. \A t \in Side : mode'[t] \in {"running", "exited"}
  BY <1>1 DEF Orderly
<1>12. UNCHANGED m_next_id
  BY <1>1
<1>. HIDE DEF k
<1>. QED  BY ONLY TypeOK, Orderly, s \in Side, <1>2, <1>8, <1>9, <1>10, <1>11, <1>12,
                  StepOrderly

\* RcvSuccess finds its link.
LEMMA SuccessOrderly ==
  ASSUME TypeOK, Orderly, NEW s \in Side, NEW m \in Packet, RcvSuccess(s, m)
  PROVE  Orderly'
<1>1. Receives(s, m) /\ m.cmd = "LINK_SUCCESS" /\ UNCHANGED m_next_id
  BY DEF RcvSuccess
<1>2. /\ linkState[s][m.key] # "absent" /\ s = ListenSideOf(m.key)
      /\ FitsAs(s, m.key, linkState[s][m.key], linkState[Peer(s)][m.key],
                chan[s], chan[Peer(s)])
      /\ Consumed(chan[s], Consume(s)[s], m.key, "LINK_SUCCESS")
  BY <1>1, Arrival
<1>3. chan' = Consume(s) /\ UNCHANGED mode
  BY <1>2 DEF RcvSuccess, InMap
<1>4. linkState' = [linkState EXCEPT ![s][m.key] = "open"]
  BY <1>2 DEF RcvSuccess, InMap
<1>5. FitsAs(s, m.key, "open", linkState[Peer(s)][m.key], Consume(s)[s], chan[Peer(s)])
  BY <1>2, FitsSuccess DEF FitsAs
<1>. QED  BY <1>1, <1>3, <1>4, <1>5, ConsumeOrderly

\* RcvFailure finds its link.
LEMMA FailureOrderly ==
  ASSUME TypeOK, Orderly, NEW s \in Side, NEW m \in Packet, RcvFailure(s, m)
  PROVE  Orderly'
<1>1. Receives(s, m) /\ m.cmd = "LINK_FAILURE" /\ UNCHANGED m_next_id
  BY DEF RcvFailure
<1>2. /\ linkState[s][m.key] # "absent" /\ s = ListenSideOf(m.key)
      /\ FitsAs(s, m.key, linkState[s][m.key], linkState[Peer(s)][m.key],
                chan[s], chan[Peer(s)])
      /\ Consumed(chan[s], Consume(s)[s], m.key, "LINK_FAILURE")
  BY <1>1, Arrival
<1>3. chan' = Consume(s) /\ UNCHANGED mode
  BY <1>2 DEF RcvFailure, InMap
<1>4. linkState' = [linkState EXCEPT ![s][m.key] = "absent"]
  BY <1>2 DEF RcvFailure, InMap, EraseLink
<1>5. FitsAs(s, m.key, "absent", linkState[Peer(s)][m.key], Consume(s)[s], chan[Peer(s)])
  BY <1>2, FitsFailure DEF FitsAs
<1>. QED  BY <1>1, <1>3, <1>4, <1>5, ConsumeOrderly

\* RcvSend and RcvAck find their link and leave its state alone.
LEMMA DataOrderly ==
  ASSUME TypeOK, Orderly, NEW s \in Side, NEW m \in Packet,
         RcvSend(s, m) \/ RcvAck(s, m)
  PROVE  Orderly'
<1>1. Receives(s, m) /\ m.cmd \in {"LINK_SEND", "LINK_ACK"} /\ UNCHANGED m_next_id
  BY DEF RcvSend, RcvAck
<1>2. /\ m.key \in Key /\ linkState[s][m.key] # "absent"
      /\ FitsAs(s, m.key, linkState[s][m.key], linkState[Peer(s)][m.key],
                chan[s], chan[Peer(s)])
      /\ Consumed(chan[s], Consume(s)[s], m.key, m.cmd)
  BY <1>1, Arrival
<1>3. chan' = Consume(s) /\ UNCHANGED <<mode, linkState>>
  BY <1>2 DEF RcvSend, RcvAck, InMap
<1>. DEFINE v == linkState[s][m.key]
<1>4. linkState' = [linkState EXCEPT ![s][m.key] = v]
  BY <1>2, <1>3, QuietUpdate
<1>5. FitsAs(s, m.key, v, linkState[Peer(s)][m.key], Consume(s)[s], chan[Peer(s)])
  BY <1>1, <1>2, ReadsFits DEF DataCmd
<1>6. m.cmd \notin {"CMD_ERROR", "LINK_CREATE"} /\ UNCHANGED <<mode, m_next_id>>
  BY <1>1, <1>3
<1>. HIDE DEF v
<1>. QED  BY <1>1, <1>3, <1>4, <1>5, <1>6, ConsumeOrderly

\* RcvSendForAck: an open link answers LINK_ACK, a closing one is silent.
LEMMA SendForAckOrderly ==
  ASSUME TypeOK, Orderly, NEW s \in Side, NEW m \in Packet, RcvSendForAck(s, m)
  PROVE  Orderly'
<1>. DEFINE v == linkState[s][m.key]
            w == linkState[Peer(s)][m.key]
<1>1. Receives(s, m) /\ m.cmd = "LINK_SEND_FOR_ACK" /\ UNCHANGED m_next_id
  BY DEF RcvSendForAck
<1>2. /\ m.key \in Key /\ v # "absent" /\ v # "pending"
      /\ FitsAs(s, m.key, v, w, chan[s], chan[Peer(s)])
      /\ Consumed(chan[s], Consume(s)[s], m.key, "LINK_SEND_FOR_ACK")
  BY <1>1, Arrival
<1>3. UNCHANGED <<mode, linkState>>
  BY <1>2 DEF RcvSendForAck, InMap
<1>4. linkState' = [linkState EXCEPT ![s][m.key] = v]
  BY <1>2, <1>3, QuietUpdate
<1>5. FitsAs(s, m.key, v, w, Consume(s)[s], chan[Peer(s)])
  BY <1>2, ReadsFits DEF DataCmd
<1>6. v \in {"open", "closing"}
  BY <1>2 DEF TypeOK
<1>7. m.cmd \notin {"CMD_ERROR", "LINK_CREATE"} /\ UNCHANGED <<mode, m_next_id>>
  BY <1>1, <1>3
<1>8. CASE v = "closing"
  <2>1. chan' = Consume(s)
    BY <1>2, <1>8 DEF RcvSendForAck, InMap
  <2>. HIDE DEF v
  <2>. QED  BY <1>1, <1>4, <1>5, <1>7, <2>1, ConsumeOrderly
<1>9. CASE v = "open"
  <2>1. chan' = Reply(s, Msg(m.key, "LINK_ACK", 0))
    BY <1>2, <1>9 DEF RcvSendForAck, InMap
  <2>2. ASSUME NEW rp, Appended(chan[Peer(s)], rp, m.key, "LINK_ACK")
        PROVE  FitsAs(s, m.key, v, w, Consume(s)[s], rp)
    BY <1>5, <1>9, <2>2, SendsFits DEF DataCmd
  <2>3. "LINK_ACK" \in LinkCmd
    BY DEF LinkCmd, Command
  <2>4. \A t \in Side : mode'[t] \in {"running", "exited"}
    BY <1>3 DEF Orderly
  <2>. HIDE DEF v
  <2>. QED  BY <1>1, <1>4, <1>7, <2>1, <2>2, <2>3, <2>4, AnswerOrderly
<1>. QED  BY <1>6, <1>8, <1>9

\* RcvClose: an open link answers LINK_CLOSE, a closing one is silent.
LEMMA CloseOrderly ==
  ASSUME TypeOK, Orderly, NEW s \in Side, NEW m \in Packet, RcvClose(s, m)
  PROVE  Orderly'
<1>. DEFINE v == linkState[s][m.key]
            w == linkState[Peer(s)][m.key]
<1>1. Receives(s, m) /\ m.cmd = "LINK_CLOSE" /\ UNCHANGED m_next_id
  BY DEF RcvClose
<1>2. /\ m.key \in Key /\ v # "absent" /\ v # "pending"
      /\ FitsAs(s, m.key, v, w, chan[s], chan[Peer(s)])
      /\ Consumed(chan[s], Consume(s)[s], m.key, "LINK_CLOSE")
  BY <1>1, Arrival
<1>3. UNCHANGED mode
  BY <1>2 DEF RcvClose, InMap
<1>4. linkState' = [linkState EXCEPT ![s][m.key] = "absent"]
  BY <1>2 DEF RcvClose, InMap, EraseLink
<1>5. v \in {"open", "closing"}
  BY <1>2 DEF TypeOK
<1>6. m.cmd \notin {"CMD_ERROR", "LINK_CREATE"} /\ UNCHANGED <<mode, m_next_id>>
  BY <1>1, <1>3
<1>7. CASE v = "closing"
  <2>1. chan' = Consume(s)
    BY <1>2, <1>7 DEF RcvClose, InMap
  <2>2. FitsAs(s, m.key, "absent", w, Consume(s)[s], chan[Peer(s)])
    BY <1>2, <1>7, ClosedFits
  <2>. QED  BY <1>1, <1>4, <1>6, <2>1, <2>2, ConsumeOrderly
<1>8. CASE v = "open"
  <2>1. chan' = Reply(s, Msg(m.key, "LINK_CLOSE", 0))
    BY <1>2, <1>8 DEF RcvClose, InMap
  <2>2. ASSUME NEW rp, Appended(chan[Peer(s)], rp, m.key, "LINK_CLOSE")
        PROVE  FitsAs(s, m.key, "absent", w, Consume(s)[s], rp)
    BY <1>2, <1>8, <2>2, AnswersFits
  <2>3. "LINK_CLOSE" \in LinkCmd
    BY DEF LinkCmd, Command
  <2>4. \A t \in Side : mode'[t] \in {"running", "exited"}
    BY <1>3 DEF Orderly
  <2>. QED  BY <1>1, <1>4, <1>6, <2>1, <2>2, <2>3, <2>4, AnswerOrderly
<1>. QED  BY <1>5, <1>7, <1>8

\* Every handler of a tunnel packet.
LEMMA ProcessOrderly ==
  ASSUME TypeOK, Orderly, NEW s \in Side, NEW m \in Packet, Process(s, m)
  PROVE  Orderly'
BY ErrorOrderly, CreateOkOrderly, CreateFailOrderly, SuccessOrderly, FailureOrderly,
   DataOrderly, SendForAckOrderly, CloseOrderly DEF Process

-------------------------------------------------------------------------------
\* Below IdModulus a number is its own short; above, a smaller one is.
LEMMA ShortIds ==
  ASSUME NEW n \in Nat
  PROVE  /\ ToShort(n) \in Nat /\ ToShort(n) <= n
         /\ n < IdModulus => ToShort(n) = n
BY ConstantsAssumption DEF ToShort

\* Accept: an id that is free is used, or one in use is given again, which takes
\* more accepted connections than there are ids.
LEMMA AcceptStep ==
  ASSUME TypeOK, Orderly, NEW c \in Conns, Accept(c)
  PROVE  Orderly' \/ (~NothingDangling' /\ Wrapped')
<1>. DEFINE s == ListenAt[c]
            n == m_next_id[c]
            k == <<c, ToShort(n)>>
            m == Msg(k, "LINK_CREATE", 0)
<1>1. s \in Side /\ n \in Nat
  BY ConstantsAssumption DEF TypeOK
<1>2. k \in Key /\ ListenSideOf(k) = s /\ k[1] = c /\ k[2] = ToShort(n)
  BY <1>1, ToShortType DEF Key, ListenSideOf
<1>3. m \in Packet /\ m.key = k /\ m.cmd = "LINK_CREATE"
  BY <1>2, MsgType DEF Command
<1>4. m_next_id' = [m_next_id EXCEPT ![c] = @ + 1]
  BY DEF Accept
<1>5. linkState' = [linkState EXCEPT ![s][k] = "pending"]
  BY DEF Accept, NewLink
<1>6. mode' = [mode EXCEPT ![s] = IF InMap(s, k) THEN "dangling" ELSE @]
  BY DEF Accept, NewLink
<1>7. Put(chan, chan', s, m)
  BY DEF Accept, Send, Put
<1>8. m_next_id'[c] = n + 1 /\ \A d \in Conns : d # c => m_next_id'[d] = m_next_id[d]
  BY <1>4 DEF TypeOK
<1>. HIDE DEF s, n, k, m
<1>9. CASE InMap(s, k)
  <2>1. mode'[s] = "dangling"
    BY <1>1, <1>6, <1>9 DEF TypeOK
  <2>2. ~(n < IdModulus)
    <3>. SUFFICES ASSUME n < IdModulus PROVE FALSE
      OBVIOUS
    <3>1. m_next_id[k[1]] <= k[2]
      BY <1>1, <1>2, ShortIds DEF n
    <3>. QED  BY <1>2, <1>9, <3>1 DEF Orderly, FreshIds, InMap
  <2>3. n + 1 > IdModulus
    BY <1>1, <2>2, ConstantsAssumption
  <2>. QED  BY <1>1, <1>8, <2>1, <2>3 DEF NothingDangling, Wrapped
<1>10. CASE ~InMap(s, k)
  <2>1. linkState[s][k] = "absent"
    BY <1>10 DEF InMap
  <2>2. \A t \in Side : mode'[t] \in {"running", "exited"}
    BY <1>6, <1>10 DEF Orderly, TypeOK
  <2>3. /\ chan'[s] = chan[s]
        /\ Appended(chan[Peer(s)], chan'[Peer(s)], k, "LINK_CREATE")
        /\ \A j : j # k => \A t \in Side : Kept(chan[t], chan'[t], j)
    <3>1. chan \in [Side -> Seq(Packet)]
      BY DEF TypeOK
    <3>2. /\ chan'[s] = chan[s]
          /\ Appended(chan[Peer(s)], chan'[Peer(s)], m.key, m.cmd)
          /\ \A t \in Side : \A j : m.key # j \/ m.cmd = "CMD_ERROR"
                                      => Kept(chan[t], chan'[t], j)
      BY <1>1, <1>3, <1>7, <3>1, PutFacts
    <3>. QED  BY <1>3, <3>2
  <2>4. /\ linkState'[s][k] = "pending"
        /\ linkState'[Peer(s)][k] = linkState[Peer(s)][k]
    BY <1>1, <1>2, <1>5, PeerSide DEF TypeOK
  <2>5. ASSUME NEW j \in Key, j # k, NEW t \in Side
        PROVE  linkState'[t][j] = linkState[t][j]
    BY <1>1, <1>2, <1>5, <2>5 DEF TypeOK
  <2>6. ASSUME NEW j \in Key  PROVE KeyFits(j)'
    <3>1. CASE j # k
      BY <2>3, <2>5, <3>1, OthersFit DEF Orderly
    <3>2. CASE j = k
      <4>1. LinkFits(k, "absent", linkState[Peer(s)][k], chan[s], chan[Peer(s)])
        BY <1>2, <2>1 DEF Orderly, KeyFits
      <4>2. LinkFits(k, "pending", linkState[Peer(s)][k], chan'[s], chan'[Peer(s)])
        BY <2>3, <4>1, FitsAccept
      <4>. QED  BY <1>2, <2>4, <3>2, <4>2 DEF KeyFits
    <3>. QED  BY <3>1, <3>2
  <2>7. FreshIds'
    <3>. SUFFICES ASSUME NEW j \in Key, m_next_id'[j[1]] <= j[2]
                  PROVE  linkState'[ListenSideOf(j)][j] = "absent"
      BY DEF FreshIds
    <3>1. j[1] \in Conns /\ j[2] \in Nat
      BY ConstantsAssumption DEF Key, LinkId
    <3>2. m_next_id[j[1]] <= j[2] /\ j # k
      <4>1. CASE j[1] = c
        BY <1>1, <1>2, <1>8, <3>1, <4>1, ShortIds DEF n
      <4>2. CASE j[1] # c
        BY <1>2, <1>8, <3>1, <4>2
      <4>. QED  BY <4>1, <4>2
    <3>3. linkState[ListenSideOf(j)][j] = "absent"
      BY <3>2 DEF Orderly, FreshIds
    <3>4. ListenSideOf(j) \in Side
      BY <1>1, TwoSides
    <3>. QED  BY <2>5, <3>2, <3>3, <3>4
  <2>. QED  BY <2>2, <2>6, <2>7 DEF Orderly
<1>. QED  BY <1>9, <1>10

\* A process that has stopped takes no step.
LEMMA StoppedStays ==
  ASSUME TypeOK, [Next]_vars, NEW s \in Side, ~Running(s)
  PROVE  mode'[s] = mode[s]
<1>1. ASSUME NEW c \in Conns, Accept(c) \/ AcceptThrows(c)
      PROVE  mode'[s] = mode[s]
  BY <1>1 DEF Accept, AcceptThrows, NewLink, Exit, TypeOK
<1>2. ASSUME NEW t \in Side, PollSome(t) \/ Signaled(t) \/ TunnelClosed(t)
      PROVE  mode'[s] = mode[s]
  BY <1>2 DEF PollSome, Poll, Signaled, TunnelClosed, Exit, TypeOK
<1>3. ASSUME NEW t \in Side, ProcessMessage(t)
      PROVE  mode'[s] = mode[s]
  <2>. DEFINE m == Head(chan[t])
  <2>1. Process(t, m)
    BY <1>3 DEF ProcessMessage
  <2>. HIDE DEF m
  <2>2. Running(t)
    BY <2>1 DEF Process, Receives, RcvError, RcvCreateOk, RcvCreateFail, RcvSuccess,
                RcvFailure, RcvSend, RcvSendForAck, RcvAck, RcvClose
  <2>3. \E x : mode' = [mode EXCEPT ![t] = x]
    <3>1. CASE UNCHANGED mode
      BY <3>1 DEF TypeOK
    <3>2. CASE RcvCreateOk(t, m)
      BY <3>2 DEF RcvCreateOk, NewLink
    <3>3. CASE Stray(t, m)
      BY <3>3 DEF Stray
    <3>. QED  BY <2>1, <3>1, <3>2, <3>3
              DEF Process, RcvError, RcvCreateFail, RcvSuccess,
                  RcvFailure, RcvSend, RcvSendForAck, RcvAck, RcvClose
  <2>. QED  BY <2>2, <2>3 DEF TypeOK
<1>4. ASSUME NEW t \in Side, NEW k \in Key, Polled(t, k)
      PROVE  mode'[s] = mode[s]
  <2>1. Running(t)
    BY <1>4 DEF Polled, PolledEof, PolledLink, WriteThrows, LinkTurn
  <2>2. UNCHANGED mode \/ mode' = [mode EXCEPT ![t] = "exited"]
    BY <1>4 DEF Polled, PolledEof, PolledLink, WriteThrows, Exit
  <2>. QED  BY <2>1, <2>2 DEF TypeOK
<1>5. CASE UNCHANGED vars
  BY <1>5 DEF vars
<1>. QED  BY <1>1, <1>2, <1>3, <1>4, <1>5 DEF Next

\* m_next_id only grows.
LEMMA IdsGrow ==
  ASSUME TypeOK, [Next]_vars, NEW c \in Conns
  PROVE  m_next_id'[c] >= m_next_id[c]
<1>1. ASSUME NEW d \in Conns, Accept(d)
      PROVE  m_next_id'[c] >= m_next_id[c]
  BY <1>1, ConstantsAssumption DEF Accept, TypeOK
<1>2. CASE UNCHANGED m_next_id
  BY <1>2, ConstantsAssumption DEF TypeOK
<1>3. ASSUME NEW s \in Side, ProcessMessage(s)
      PROVE  UNCHANGED m_next_id
  BY <1>3 DEF ProcessMessage, Process, RcvError, RcvCreateOk, RcvCreateFail, RcvSuccess,
              RcvFailure, RcvSend, RcvSendForAck, RcvAck, RcvClose
<1>4. ASSUME NEW s \in Side, NEW k \in Key, Polled(s, k)
      PROVE  UNCHANGED m_next_id
  BY <1>4 DEF Polled, PolledEof, PolledLink, WriteThrows, Exit
<1>. QED  BY <1>1, <1>2, <1>3, <1>4
          DEF Next, vars, AcceptThrows, PollSome, Poll, Signaled, TunnelClosed, Exit

\* Every step from an orderly state leads to one, or gives an id in use again.
LEMMA OrderlyNext ==
  ASSUME TypeOK, Orderly, [Next]_vars
  PROVE  Orderly' \/ (~NothingDangling' /\ Wrapped')
<1>1. ASSUME NEW s \in Side, ProcessMessage(s)
      PROVE  Orderly'
  <2>. DEFINE m == Head(chan[s])
  <2>1. chan[s] \in Seq(Packet) /\ chan[s] # <<>> /\ Process(s, m)
    BY <1>1 DEF ProcessMessage, TypeOK
  <2>2. m \in Packet
    BY <2>1, HeadTailProperties
  <2>. HIDE DEF m
  <2>. QED  BY <2>1, <2>2, ProcessOrderly
<1>2. ASSUME NEW s \in Side, Exit(s)
      PROVE  Orderly'
  <2>1. UNCHANGED <<chan, m_next_id, linkState>>
    BY <1>2 DEF Exit
  <2>2. \A t \in Side : mode'[t] \in {"running", "exited"}
    BY <1>2 DEF Exit, Orderly, TypeOK
  <2>. QED  BY <2>1, <2>2, IdleOrderly
<1>3. ASSUME NEW s \in Side, NEW k \in Key, Polled(s, k)
      PROVE  Orderly'
  <2>1. ASSUME NEW n \in 0 .. MaxChunks[k[1]], PolledLink(s, k, n)
        PROVE  Orderly'
    BY <2>1, LinkOrderly
  <2>. QED  BY <1>2, <1>3, <2>1, EofOrderly DEF Polled, WriteThrows
<1>4. CASE UNCHANGED <<mode, chan, m_next_id, linkState>>
  <2>1. \A t \in Side : mode'[t] \in {"running", "exited"}
    BY <1>4 DEF Orderly
  <2>. QED  BY <1>4, <2>1, IdleOrderly
<1>5. ASSUME NEW s \in Side, PollSome(s)
      PROVE  UNCHANGED <<mode, chan, m_next_id, linkState>>
  BY <1>5 DEF PollSome, Poll
<1>6. ASSUME NEW c \in Conns, AcceptThrows(c)
      PROVE  Orderly'
  BY <1>2, <1>6, ConstantsAssumption DEF AcceptThrows
<1>7. ASSUME NEW s \in Side, Signaled(s) \/ TunnelClosed(s)
      PROVE  Orderly'
  BY <1>2, <1>7 DEF Signaled, TunnelClosed
<1>8. CASE UNCHANGED vars
  BY <1>4, <1>8 DEF vars
<1>. QED  BY <1>1, <1>3, <1>4, <1>5, <1>6, <1>7, <1>8, AcceptStep DEF Next

\* Nothing is listening yet, nothing is in flight.
LEMMA InvInit == Init => IInv
<1>. SUFFICES ASSUME Init PROVE IInv
  OBVIOUS
<1>1. TypeOK
  BY TypeInit
<1>2. ASSUME NEW k \in Key  PROVE KeyFits(k)
  <2>1. ListenSideOf(k) \in Side /\ Peer(ListenSideOf(k)) \in Side
    BY ConstantsAssumption, PeerSide DEF ListenSideOf, Key
  <2>2. \A s \in Side : linkState[s][k] = "absent" /\ chan[s] = <<>>
    BY DEF Init
  <2>3. LinkFits(k, "absent", "absent", <<>>, <<>>)
    BY DEF LinkFits, PacketOrder, Creation, Closing, Has, NoneAfter
  <2>. QED  BY <2>1, <2>2, <2>3 DEF KeyFits
<1>3. FreshIds
  BY ConstantsAssumption DEF Init, FreshIds, ListenSideOf, Key
<1>4. Orderly /\ NothingDangling
  BY <1>2, <1>3 DEF Init, Orderly, NothingDangling
<1>. QED  BY <1>1, <1>4 DEF IInv

\* Every step keeps the inductive invariant.
LEMMA InvNext == IInv /\ [Next]_vars => IInv'
<1>. SUFFICES ASSUME IInv, [Next]_vars PROVE IInv'
  OBVIOUS
<1>1. TypeOK /\ TypeOK'
  BY TypeNext DEF IInv
<1>2. CASE NothingDangling
  <2>1. Orderly' \/ (~NothingDangling' /\ Wrapped')
    BY <1>1, <1>2, OrderlyNext DEF IInv
  <2>2. Orderly' => NothingDangling'
    BY DEF Orderly, NothingDangling
  <2>. QED  BY <1>1, <2>1, <2>2 DEF IInv
<1>3. CASE ~NothingDangling
  <2>1. PICK s \in Side : mode[s] = "dangling"
    BY <1>3 DEF NothingDangling
  <2>2. mode'[s] = "dangling"
    BY <1>1, <2>1, StoppedStays DEF Running
  <2>3. PICK c \in Conns : m_next_id[c] > IdModulus
    BY <1>3 DEF IInv, Wrapped
  <2>4. m_next_id'[c] > IdModulus
    <3>1. m_next_id'[c] >= m_next_id[c]
      BY <1>1, IdsGrow
    <3>2. m_next_id[c] \in Int /\ m_next_id'[c] \in Int /\ IdModulus \in Int
      BY <1>1, ConstantsAssumption DEF TypeOK
    <3>. QED  BY <2>3, <3>1, <3>2
  <2>. QED  BY <1>1, <2>2, <2>4 DEF IInv, NothingDangling, Wrapped
<1>. QED  BY <1>2, <1>3

\* IInv is an invariant of the protocol.
THEOREM InvCorrect == Spec => []IInv
BY InvInit, InvNext, PTL DEF Spec

(***************************************************************************)
(* The states of the two ends of a link and the packets in flight fit, for *)
(* any number of links, ids and packets.                                   *)
(***************************************************************************)
THEOREM LinkProtocolCorrect == Spec => []LinkProtocol
<1>1. IInv => LinkProtocol
  BY DEF IInv, LinkProtocol, Orderly
<1>. QED  BY <1>1, InvCorrect, PTL

(***************************************************************************)
(* processMessage of either side finds the link of every packet, and a     *)
(* link in use is overwritten only by a listener that has accepted more    *)
(* connections than a short has values.                                    *)
(***************************************************************************)
THEOREM LookupsCorrect == Spec => []LookupsSucceed
<1>1. IInv => LookupsSucceed
  <2>. SUFFICES ASSUME IInv PROVE LookupsSucceed
    OBVIOUS
  <2>1. NothingDangling => \A s \in Side : mode[s] \in {"running", "exited"}
    BY DEF IInv, Orderly
  <2>2. ASSUME \A c \in Conns : m_next_id[c] <= IdModulus
        PROVE  NothingDangling
    <3>1. \A c \in Conns : m_next_id[c] \in Int /\ IdModulus \in Int
      BY ConstantsAssumption DEF IInv, TypeOK
    <3>2. ~Wrapped
      BY <2>2, <3>1 DEF Wrapped
    <3>. QED  BY <3>2 DEF IInv
  <2>. QED  BY <2>1, <2>2 DEF LookupsSucceed
<1>. QED  BY <1>1, InvCorrect, PTL

(***************************************************************************)
(* When both processes run and no packet is in flight, each link is open   *)
(* at both ends or known at neither.                                       *)
(***************************************************************************)
THEOREM NoHalfOpenCorrect == Spec => []NoHalfOpen
<1>1. IInv => NoHalfOpen
  <2>. SUFFICES ASSUME IInv, \A s \in Side : Running(s) /\ chan[s] = <<>>, NEW k \in Key
                PROVE  \/ \A s \in Side : linkState[s][k] = "open"
                       \/ \A s \in Side : linkState[s][k] = "absent"
    BY DEF NoHalfOpen
  <2>. DEFINE a == ListenSideOf(k)
              l == linkState[a][k]
              c == linkState[Peer(a)][k]
  <2>1. a \in Side /\ Peer(a) \in Side /\ \A s \in Side : s = a \/ s = Peer(a)
    BY ConstantsAssumption DEF ListenSideOf, Key, Side, Peer
  <2>2. {l, c} \subseteq {"absent", "pending", "open", "closing"}
    BY <2>1 DEF IInv, TypeOK
  <2>3. LinkFits(k, l, c, <<>>, <<>>)
    <3>1. NothingDangling
      BY DEF NothingDangling, Running
    <3>2. KeyFits(k)
      BY <3>1 DEF IInv, Orderly
    <3>. QED  BY <2>1, <3>2 DEF KeyFits
  <2>4. \A S : ~Has(<<>>, k, S)
    BY DEF Has
  <2>. HIDE DEF a, l, c
  <2>5. (l = "open" /\ c = "open") \/ (l = "absent" /\ c = "absent")
    BY <2>2, <2>3, <2>4 DEF LinkFits, Creation, Closing
  <2>. QED  BY <2>1, <2>5 DEF l, c
<1>. QED  BY <1>1, InvCorrect, PTL

===============================================================================
