----------------------------- MODULE PacketStream -----------------------------
(***************************************************************************)
(* One direction of the tunnel, byte by byte: WriteStream and ReadStream   *)
(* of src/com/antlersoft/net.  A packet is sent as its length in four      *)
(* bytes, most significant first, and its body.  write() and read() may    *)
(* stop anywhere, so packets are cut and joined on the way.                *)
(***************************************************************************)
EXTENDS Integers, Sequences

CONSTANTS
  Base,           \* number of values of a byte (256)
  Bodies,         \* bodies of the packets that are sent
  READ_SIZE,      \* size of the first m_read_buf (ReadStream::BUFFER_SIZE)
  MAX_LENGTH,     \* 50000000
  MaxSends        \* bound: packets sent

Byte == 0 .. Base - 1

ASSUME StreamAssumption ==
  /\ Base \in Nat \ {0, 1}
  /\ Bodies \subseteq Seq(Byte) \ {<<>>}
  /\ READ_SIZE \in Nat /\ READ_SIZE >= 4
  /\ MAX_LENGTH \in Nat /\ MAX_LENGTH < Base * Base * Base * Base
  /\ \A b \in Bodies : Len(b) <= MAX_LENGTH
  /\ MaxSends \in Nat

VARIABLES
  sender,          \* "running"; "exited"; "cut": exited with a packet written in part
  reader,          \* "running"; "exited"; "badLength": took bytes of packets for a bad
                   \* length; "misled": took other text for bytes of a packet
  m_packet_queue,  \* WritePackets, as the bytes of m_buf
  m_written,       \* bytes of the first one already written
  pollout,         \* POLLOUT is asked for on the tunnel's fd
  wire,            \* bytes written and not yet read
  m_read_buf,      \* the m_read_count bytes read so far
  m_read_size,
  received,        \* history: packets that filled m_queue
  sent,            \* history: bodies of the packets sent
  whole            \* history: how many of them are written completely

vars == <<sender, reader, m_packet_queue, m_written, pollout, wire, m_read_buf,
          m_read_size, received, sent, whole>>

TypeOK ==
  /\ sender \in {"running", "exited", "cut"}
  /\ reader \in {"running", "exited", "badLength", "misled"}
  /\ m_packet_queue \in Seq(Seq(Byte))
  /\ m_written \in Nat
  /\ pollout \in BOOLEAN
  /\ wire \in Seq(Byte)
  /\ m_read_buf \in Seq(Byte)
  /\ m_read_size \in Nat
  /\ received \in Seq(Seq(Byte))
  /\ sent \in Seq(Bodies) /\ Len(sent) <= MaxSends
  /\ whole \in 0 .. Len(sent)

Init ==
  /\ sender = "running" /\ reader = "running"
  /\ m_packet_queue = <<>>
  /\ m_written = 0
  /\ pollout = FALSE
  /\ wire = <<>>
  /\ m_read_buf = <<>>
  /\ m_read_size = READ_SIZE
  /\ received = <<>>
  /\ sent = <<>> /\ whole = 0

-------------------------------------------------------------------------------
(***************************************************************************)
(* WriteStream                                                             *)
(***************************************************************************)
\* n in four bytes, most significant first.
BigEndian(n) ==
  LET n1 == n \div Base
      n2 == n1 \div Base
      n3 == n2 \div Base
  IN  <<n3 % Base, n2 % Base, n1 % Base, n % Base>>

\* Variant for testing the properties: the length counts itself.
htonlOfAll(n) == BigEndian(n + 4)

htonl(n) == BigEndian(n)

\* WritePacket::WritePacket
WritePacket(body) == htonl(Len(body)) \o body

\* A packet is queued.
Queues(body) ==
  /\ sender = "running"
  /\ Len(sent) < MaxSends
  /\ sent' = Append(sent, body)
  /\ m_packet_queue' = Append(m_packet_queue, WritePacket(body))
  /\ UNCHANGED <<sender, reader, m_written, wire, m_read_buf, m_read_size, received, whole>>

\* Variant: POLLOUT is not asked for.
SendUnasked(body) == Queues(body) /\ UNCHANGED pollout

\* CustomWriteStream::send of what a handler has written to m_queue.
Send(body) == Queues(body) /\ pollout' = TRUE

\* Variant: a packet counts as sent after one write().
EmptyOnce(n) ==
  /\ sender = "running" /\ pollout /\ m_packet_queue # <<>>
  /\ LET buf == Head(m_packet_queue)
     IN  /\ m_written + n <= Len(buf)
         /\ wire' = wire \o SubSeq(buf, m_written + 1, m_written + n)
         /\ m_packet_queue' = Tail(m_packet_queue)
         /\ m_written' = 0
         /\ whole' = whole + 1
  /\ pollout' = (m_packet_queue' # <<>>)
  /\ UNCHANGED <<sender, reader, m_read_buf, m_read_size, received, sent>>

\* WriteStream::empty with WritePacket::sendPacket: write() takes n bytes of the
\* first packet.  The request for POLLOUT goes with the last packet.
Empty(n) ==
  /\ sender = "running" /\ pollout /\ m_packet_queue # <<>>
  /\ LET buf == Head(m_packet_queue)
         done == m_written + n = Len(buf)
     IN  /\ m_written + n <= Len(buf)
         /\ wire' = wire \o SubSeq(buf, m_written + 1, m_written + n)
         /\ m_packet_queue' = IF done THEN Tail(m_packet_queue) ELSE m_packet_queue
         /\ m_written' = IF done THEN 0 ELSE m_written + n
         /\ whole' = IF done THEN whole + 1 ELSE whole
  /\ pollout' = (m_packet_queue' # <<>>)
  /\ UNCHANGED <<sender, reader, m_read_buf, m_read_size, received, sent>>

-------------------------------------------------------------------------------
(***************************************************************************)
(* ReadStream::fill.  Up to two reads are made: of the missing bytes of    *)
(* the length, and of the missing bytes of the body; the second may find   *)
(* nothing (EAGAIN).                                                       *)
(***************************************************************************)
\* ntohl of the first four bytes
ntohl(buf) == buf[1] * Base * Base * Base + buf[2] * Base * Base + buf[3] * Base + buf[4]

Readable == reader = "running" /\ wire # <<>>

\* The length is not complete after the first read.
FillHeader(n) ==
  /\ Readable
  /\ n \in 1 .. Len(wire)
  /\ Len(m_read_buf) + n < 4
  /\ m_read_buf' = m_read_buf \o SubSeq(wire, 1, n)
  /\ wire' = SubSeq(wire, n + 1, Len(wire))
  /\ UNCHANGED <<sender, reader, m_packet_queue, m_written, pollout, m_read_size,
                 received, sent, whole>>

\* The bytes of the length that are still missing.
Missing == IF Len(m_read_buf) < 4 THEN 4 - Len(m_read_buf) ELSE 0

\* Variant: room is made for the body alone.
GrownShort(length) == IF length > m_read_size THEN length ELSE m_read_size

\* m_read_size after making room for a packet.
Grown(length) == IF length + 4 > m_read_size THEN length + 4 ELSE m_read_size

\* The length is complete; n bytes of the body are read.  A complete packet goes to
\* m_queue and is processed, m_read_count starts again.
FillBody(n) ==
  LET head   == m_read_buf \o SubSeq(wire, 1, Missing)
      length == ntohl(head)
      buf    == head \o SubSeq(wire, Missing + 1, Missing + n)
  IN  /\ Readable
      /\ Missing + n <= Len(wire)
      /\ Missing = 0 => n > 0
      /\ wire' = SubSeq(wire, Missing + n + 1, Len(wire))
      /\ IF length > MAX_LENGTH
           THEN /\ n = 0
                /\ reader' = "badLength"
                /\ UNCHANGED <<m_read_buf, m_read_size, received>>
           ELSE /\ Len(buf) <= length + 4
                /\ m_read_size' = Grown(length)
                /\ IF Len(buf) = length + 4
                     THEN /\ received' = Append(received, SubSeq(buf, 5, Len(buf)))
                          /\ m_read_buf' = <<>>
                     ELSE /\ m_read_buf' = buf
                          /\ UNCHANGED received
                /\ UNCHANGED reader
      /\ UNCHANGED <<sender, m_packet_queue, m_written, pollout, sent, whole>>

-------------------------------------------------------------------------------
\* The sender ends: what it has not written is lost.
SenderExits ==
  /\ sender = "running"
  /\ sender' = IF m_written = 0 THEN "exited" ELSE "cut"
  /\ m_packet_queue' = <<>>
  /\ m_written' = 0
  /\ pollout' = FALSE
  /\ UNCHANGED <<reader, wire, m_read_buf, m_read_size, received, sent, whole>>

\* POLLHUP, or read() returns 0 where a length should begin: the reader throws.
\* Bytes not yet read are not looked at.
ReaderHangup ==
  /\ reader = "running" /\ sender # "running"
  /\ reader' = "exited"
  /\ UNCHANGED <<sender, m_packet_queue, m_written, pollout, wire, m_read_buf,
                 m_read_size, received, sent, whole>>

\* A sender that was started from a shell leaves the channel to it, and the shell's text
\* follows the last byte.  Where a length should begin, four bytes of text are one above
\* MAX_LENGTH and fill throws; in the middle of a packet they are taken for its bytes.
ShellText ==
  /\ reader = "running" /\ sender # "running" /\ wire = <<>>
  /\ reader' = IF m_read_buf = <<>> THEN "exited" ELSE "misled"
  /\ UNCHANGED <<sender, m_packet_queue, m_written, pollout, wire, m_read_buf,
                 m_read_size, received, sent, whole>>

Write == m_packet_queue # <<>> /\ \E n \in 0 .. Len(Head(m_packet_queue)) : Empty(n)
Fill == \/ \E n \in 1 .. 3 : FillHeader(n)
        \/ \E n \in 0 .. Len(wire) : FillBody(n)

Next ==
  \/ \E body \in Bodies : Send(body)
  \/ Write \/ Fill
  \/ SenderExits \/ ReaderHangup \/ ShellText

Spec == Init /\ [][Next]_vars

(***************************************************************************)
(* The channel takes and hands on bytes: a write() that is tried again and *)
(* again takes at least one, and poll() reports bytes that are there.      *)
(* After the end of the sender it is closed or a shell goes on to write.   *)
(***************************************************************************)
WriteSome == m_packet_queue # <<>> /\ \E n \in 1 .. Len(Head(m_packet_queue)) : Empty(n)

FairSpec ==
  Spec /\ WF_vars(WriteSome) /\ WF_vars(Fill) /\ WF_vars(ReaderHangup \/ ShellText)

-------------------------------------------------------------------------------
(***************************************************************************)
(* Properties.                                                             *)
(***************************************************************************)
\* However the packets are cut and joined, ReadStream::fill never throws "Bad read
\* length" over their bytes.
NeverBadLength == reader # "badLength"

\* Both reads of ReadStream::fill stay inside m_read_buf, and fill never reads past
\* the end of the packet it is in.
FitsBuffer ==
  /\ Len(m_read_buf) <= m_read_size
  /\ Len(m_read_buf) >= 4 =>
       /\ ntohl(m_read_buf) + 4 <= m_read_size
       /\ Len(m_read_buf) < ntohl(m_read_buf) + 4

\* What was sent arrives, unless one of the two processes ends.
AllArrive ==
  Len(sent) > Len(received) ~> Len(sent) = Len(received) \/ sender # "running" \/ reader = "exited"

\* A shell's text is never taken for a part of a packet, unless the sender ended in the
\* middle of writing one: ReadStream::fill stops at the last byte of the last packet.
OnlyCutMisleads == reader = "misled" => sender = "cut"

(***************************************************************************)
(* "The connection is shut down when you kill the StdioTunnel process at   *)
(* either end" (src/README): a reader whose sender ended between two       *)
(* packets reads what is left and ends, be the end a hangup or text.  The  *)
(* sentence does not hold where the sender ended in the middle of a packet *)
(* and a shell goes on: the reader may wait for the rest of it for ever.   *)
(***************************************************************************)
EndNoticed == sender = "exited" ~> reader = "exited"

\* The packets that are still to arrive.
Pending == SubSeq(sent, Len(received) + 1, IF sender = "running" THEN Len(sent) ELSE whole)

Fifo == INSTANCE PacketFifo WITH
  Packets <- Bodies, queue <- Pending, received <- received, open <- (sender = "running")

\* Packets cut and joined by write() and read() on the way arrive whole, in order
\* and once: WriteStream and ReadStream implement a FIFO of packets.
ImplementsFifo == Fifo!Spec
===============================================================================
