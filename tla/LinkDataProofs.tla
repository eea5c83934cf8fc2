---------------------------- MODULE LinkDataProofs ----------------------------
(***************************************************************************)
(* Proofs about the data of a link in TunnelConnection, for any set of     *)
(* connections, any number of links and any amount of data: poll requests  *)
(* never go to sleep, acknowledged packets are sent one at a time, and     *)
(* data arrives in order.  They rest on the link protocol, which           *)
(* TunnelConnectionProofs shows to hold.                                   *)
(***************************************************************************)
EXTENDS TunnelConnectionProofs, FiniteSetTheorems

-------------------------------------------------------------------------------
(***************************************************************************)
(* The invariant of one end of a link.                                     *)
(***************************************************************************)
SendCmd == {"LINK_SEND", "LINK_SEND_FOR_ACK"}

\* Poll requests: st is the state of the link at the end, ack, buf, ev and rev its
\* m_acknowledged, m_buffer, events and revents.  POLLIN is asked for, and so reported,
\* only when no acknowledgement is owed.
PollAs(st, ack, buf, ev, rev) ==
  /\ st = "pending" => ack /\ buf = <<>>
  /\ st = "open" => /\ "POLLOUT" \in ev <=> buf # <<>>
                    /\ ack /\ buf = <<>> => "POLLIN" \in ev
                    /\ "POLLIN" \in ev \cup rev => ack

\* Acknowledgements: qi and qo are the FIFOs to the end and from it.
AckAs(k, st, ack, qi, qo) ==
  /\ st = "pending" => ~Has(qi, k, {"LINK_ACK"})
  /\ st = "open" =>
       /\ NoneAfter(qo, k, {"LINK_SEND_FOR_ACK"}, {"LINK_SEND_FOR_ACK"})
       /\ NoneAfter(qi, k, {"LINK_ACK"}, {"LINK_ACK"})
       /\ ack => ~Has(qo, k, {"LINK_SEND_FOR_ACK"}) /\ ~Has(qi, k, {"LINK_ACK"})
       /\ ~ack => /\ ~(Has(qo, k, {"LINK_SEND_FOR_ACK"}) /\ Has(qi, k, {"LINK_ACK"}))
                  /\ \/ Has(qo, k, {"LINK_SEND_FOR_ACK"}) \/ Has(qi, k, {"LINK_ACK"})
                     \/ Has(qi, k, {"LINK_CLOSE"})

\* The data packets of link k in q carry the chunks after lo up to hi, in order.
Carries(q, k, lo, hi) ==
  /\ lo <= hi
  /\ \A i \in 1 .. Len(q) : IsFor(q[i], k, SendCmd) => q[i].chunk \in lo + 1 .. hi
  /\ \A i, j \in 1 .. Len(q) :
       i < j /\ IsFor(q[i], k, SendCmd) /\ IsFor(q[j], k, SendCmd) => q[i].chunk < q[j].chunk
  /\ \A n \in lo + 1 .. hi :
       \E i \in 1 .. Len(q) : IsFor(q[i], k, SendCmd) /\ q[i].chunk = n

\* Data: got is what has reached the end, own and peer the chunks that it and the other
\* end have read from their sockets.
DataAs(k, st, got, own, peer, qi) ==
  /\ \A i \in 1 .. Len(got) : got[i] = i
  /\ st = "pending" => Len(got) = 0 /\ own = 0
  /\ st = "open" \/ Has(qi, k, {"LINK_SUCCESS"}) => Carries(qi, k, Len(got), peer)

Got(s, k) == delivered[s][k] \o m_buffer[s][k]

EndFits(s, k) ==
  /\ PollAs(linkState[s][k], m_acknowledged[s][k], m_buffer[s][k], events[s][k], revents[s][k])
  /\ AckAs(k, linkState[s][k], m_acknowledged[s][k], chan[s], chan[Peer(s)])
  /\ DataAs(k, linkState[s][k], Got(s, k), nread[s][k], nread[Peer(s)][k], chan[s])

DataFits == \A s \in Side, k \in Key : EndFits(s, k)

DataInv == NothingDangling => DataFits

-------------------------------------------------------------------------------
(***************************************************************************)
(* Data in a FIFO.                                                         *)
(***************************************************************************)
\* What Append does to a FIFO, position by position.
LEMMA AppendAt ==
  ASSUME NEW q \in Seq(Packet), NEW m \in Packet
  PROVE  /\ Append(q, m) \in Seq(Packet) /\ Len(q) \in Nat /\ Len(Append(q, m)) = Len(q) + 1
         /\ \A i \in 1 .. Len(q) : Append(q, m)[i] = q[i] /\ q[i] \in Packet /\ q[i].chunk \in Nat
         /\ Append(q, m)[Len(q) + 1] = m /\ m.chunk \in Nat
<1>1. \A i \in 1 .. Len(q) : q[i] \in Packet
  BY ElementOfSeq
<1>. QED  BY <1>1, AppendProperties, LenProperties DEF Packet

\* The same for Tail.
LEMMA TailAt ==
  ASSUME NEW q \in Seq(Packet), q # <<>>
  PROVE  /\ Tail(q) \in Seq(Packet) /\ Len(q) \in Nat \ {0} /\ Len(Tail(q)) = Len(q) - 1
         /\ Head(q) = q[1] /\ Head(q) \in Packet
         /\ \A i \in 1 .. Len(Tail(q)) : Tail(q)[i] = q[i + 1]
         /\ \A i \in 1 .. Len(q) : q[i] \in Packet /\ q[i].chunk \in Nat
<1>1. \A i \in 1 .. Len(q) : q[i] \in Packet
  BY ElementOfSeq
<1>. QED  BY <1>1, HeadTailProperties, EmptySeq DEF Packet

\* A packet without data changes nothing.
LEMMA CarriesAppend ==
  ASSUME NEW q \in Seq(Packet), NEW m \in Packet, NEW k, NEW lo \in Nat, NEW hi \in Nat,
         Carries(q, k, lo, hi), ~IsFor(m, k, SendCmd)
  PROVE  Carries(Append(q, m), k, lo, hi)
<1>. DEFINE r == Append(q, m)
<1>1. /\ Len(q) \in Nat /\ Len(r) = Len(q) + 1
      /\ \A i \in 1 .. Len(q) : r[i] = q[i]
      /\ r[Len(q) + 1] = m
  BY AppendAt
<1>. HIDE DEF r
<1>2. ASSUME NEW i \in 1 .. Len(r), IsFor(r[i], k, SendCmd)
      PROVE  i \in 1 .. Len(q) /\ r[i] = q[i] /\ IsFor(q[i], k, SendCmd)
  BY <1>1, <1>2
<1>3. \A i \in 1 .. Len(r) : IsFor(r[i], k, SendCmd) => r[i].chunk \in lo + 1 .. hi
  BY <1>2 DEF Carries
<1>4. \A i, j \in 1 .. Len(r) :
        i < j /\ IsFor(r[i], k, SendCmd) /\ IsFor(r[j], k, SendCmd) => r[i].chunk < r[j].chunk
  BY <1>2 DEF Carries
<1>5. ASSUME NEW n \in lo + 1 .. hi
      PROVE  \E i \in 1 .. Len(r) : IsFor(r[i], k, SendCmd) /\ r[i].chunk = n
  <2>1. PICK i \in 1 .. Len(q) : IsFor(q[i], k, SendCmd) /\ q[i].chunk = n
    BY DEF Carries
  <2>2. i \in 1 .. Len(r) /\ r[i] = q[i]
    BY <1>1
  <2>. QED  BY <2>1, <2>2
<1>. QED  BY <1>3, <1>4, <1>5 DEF Carries, r

\* The next chunk is sent.
LEMMA CarriesMore ==
  ASSUME NEW q \in Seq(Packet), NEW m \in Packet, NEW k, NEW lo \in Nat, NEW hi \in Nat,
         Carries(q, k, lo, hi), IsFor(m, k, SendCmd), m.chunk = hi + 1
  PROVE  Carries(Append(q, m), k, lo, hi + 1)
<1>. DEFINE r == Append(q, m)
<1>1. /\ Len(q) \in Nat /\ Len(r) = Len(q) + 1
      /\ \A i \in 1 .. Len(q) : r[i] = q[i] /\ q[i].chunk \in Nat
      /\ r[Len(q) + 1] = m
  BY AppendAt
<1>. HIDE DEF r
<1>2. ASSUME NEW i \in 1 .. Len(r), IsFor(r[i], k, SendCmd)
      PROVE  r[i].chunk \in lo + 1 .. hi + 1
  <2>1. CASE i \in 1 .. Len(q)
    <3>1. r[i] = q[i] /\ q[i].chunk \in lo + 1 .. hi
      BY <1>1, <1>2, <2>1 DEF Carries
    <3>. QED  BY <3>1
  <2>2. CASE i = Len(q) + 1
    <3>1. lo <= hi /\ r[i].chunk = hi + 1
      BY <1>1, <2>2 DEF Carries
    <3>. QED  BY <3>1
  <2>. QED  BY <1>1, <2>1, <2>2
<1>3. ASSUME NEW i \in 1 .. Len(r), NEW j \in 1 .. Len(r), i < j,
             IsFor(r[i], k, SendCmd), IsFor(r[j], k, SendCmd)
      PROVE  r[i].chunk < r[j].chunk
  <2>1. i \in 1 .. Len(q) /\ r[i] = q[i]
    BY <1>1, <1>3
  <2>2. CASE j \in 1 .. Len(q)
    <3>1. r[j] = q[j]
      BY <1>1, <2>2
    <3>. QED  BY <1>3, <2>1, <2>2, <3>1 DEF Carries
  <2>3. CASE j = Len(q) + 1
    <3>1. r[j].chunk = hi + 1
      BY <1>1, <2>3
    <3>2. q[i].chunk \in lo + 1 .. hi
      BY <1>3, <2>1 DEF Carries
    <3>. QED  BY <2>1, <3>1, <3>2
  <2>. QED  BY <1>1, <2>2, <2>3
<1>4. ASSUME NEW n \in lo + 1 .. hi + 1
      PROVE  \E i \in 1 .. Len(r) : IsFor(r[i], k, SendCmd) /\ r[i].chunk = n
  <2>1. CASE n = hi + 1
    <3>1. Len(q) + 1 \in 1 .. Len(r) /\ r[Len(q) + 1] = m
      BY <1>1
    <3>. QED  BY <2>1, <3>1
  <2>2. CASE n # hi + 1
    <3>1. n \in lo + 1 .. hi
      BY <1>4, <2>2
    <3>2. PICK i \in 1 .. Len(q) : IsFor(q[i], k, SendCmd) /\ q[i].chunk = n
      BY <3>1 DEF Carries
    <3>3. i \in 1 .. Len(r) /\ r[i] = q[i]
      BY <1>1
    <3>. QED  BY <3>2, <3>3
  <2>. QED  BY <2>1, <2>2
<1>5. lo <= hi + 1
  BY DEF Carries
<1>. QED  BY <1>2, <1>3, <1>4, <1>5 DEF Carries, r

\* A packet without data is read.
LEMMA CarriesTail ==
  ASSUME NEW q \in Seq(Packet), q # <<>>, NEW k, NEW lo \in Nat, NEW hi \in Nat,
         Carries(q, k, lo, hi), ~IsFor(Head(q), k, SendCmd)
  PROVE  Carries(Tail(q), k, lo, hi)
<1>. DEFINE r == Tail(q)
<1>1. /\ Len(q) \in Nat \ {0} /\ Len(r) = Len(q) - 1 /\ Head(q) = q[1]
      /\ \A i \in 1 .. Len(r) : r[i] = q[i + 1]
  BY TailAt
<1>. HIDE DEF r
<1>2. ASSUME NEW i \in 1 .. Len(r)
      PROVE  i + 1 \in 1 .. Len(q) /\ r[i] = q[i + 1]
  BY <1>1, <1>2
<1>3. \A i \in 1 .. Len(r) : IsFor(r[i], k, SendCmd) => r[i].chunk \in lo + 1 .. hi
  BY <1>2 DEF Carries
<1>4. ASSUME NEW i \in 1 .. Len(r), NEW j \in 1 .. Len(r), i < j,
             IsFor(r[i], k, SendCmd), IsFor(r[j], k, SendCmd)
      PROVE  r[i].chunk < r[j].chunk
  <2>1. i + 1 < j + 1
    BY <1>1, <1>4
  <2>. QED  BY <1>2, <1>4, <2>1 DEF Carries
<1>5. ASSUME NEW n \in lo + 1 .. hi
      PROVE  \E i \in 1 .. Len(r) : IsFor(r[i], k, SendCmd) /\ r[i].chunk = n
  <2>1. PICK i \in 1 .. Len(q) : IsFor(q[i], k, SendCmd) /\ q[i].chunk = n
    BY DEF Carries
  <2>2. i # 1
    BY <1>1, <2>1
  <2>3. i - 1 \in 1 .. Len(r) /\ r[i - 1] = q[i]
    BY <1>1, <2>2
  <2>. QED  BY <2>1, <2>3
<1>. QED  BY <1>3, <1>4, <1>5 DEF Carries, r

\* A data packet is read: it carries the next chunk.
LEMMA CarriesLess ==
  ASSUME NEW q \in Seq(Packet), q # <<>>, NEW k, NEW lo \in Nat, NEW hi \in Nat,
         Carries(q, k, lo, hi), IsFor(Head(q), k, SendCmd)
  PROVE  Head(q).chunk = lo + 1 /\ Carries(Tail(q), k, lo + 1, hi)
<1>. DEFINE r == Tail(q)
<1>1. /\ Len(q) \in Nat \ {0} /\ Len(r) = Len(q) - 1 /\ Head(q) = q[1]
      /\ \A i \in 1 .. Len(r) : r[i] = q[i + 1]
      /\ \A i \in 1 .. Len(q) : q[i].chunk \in Nat
  BY TailAt
<1>. HIDE DEF r
<1>2. 1 \in 1 .. Len(q) /\ IsFor(q[1], k, SendCmd) /\ q[1].chunk \in lo + 1 .. hi
  BY <1>1 DEF Carries
<1>3. q[1].chunk = lo + 1
  <2>1. lo + 1 \in lo + 1 .. hi
    BY <1>2
  <2>2. PICK i \in 1 .. Len(q) : IsFor(q[i], k, SendCmd) /\ q[i].chunk = lo + 1
    BY <2>1 DEF Carries
  <2>3. i # 1 => q[1].chunk < q[i].chunk
    BY <1>1, <1>2, <2>2 DEF Carries
  <2>. QED  BY <1>2, <2>2, <2>3
<1>4. ASSUME NEW i \in 1 .. Len(r)
      PROVE  i + 1 \in 1 .. Len(q) /\ r[i] = q[i + 1] /\ 1 < i + 1
  BY <1>1, <1>4
<1>5. ASSUME NEW i \in 1 .. Len(r), IsFor(r[i], k, SendCmd)
      PROVE  r[i].chunk \in (lo + 1) + 1 .. hi
  <2>1. r[i].chunk \in lo + 1 .. hi /\ q[1].chunk < r[i].chunk
    BY <1>2, <1>4, <1>5 DEF Carries
  <2>. QED  BY <1>3, <2>1
<1>6. ASSUME NEW i \in 1 .. Len(r), NEW j \in 1 .. Len(r), i < j,
             IsFor(r[i], k, SendCmd), IsFor(r[j], k, SendCmd)
      PROVE  r[i].chunk < r[j].chunk
  <2>1. i + 1 < j + 1
    BY <1>1, <1>6
  <2>. QED  BY <1>4, <1>6, <2>1 DEF Carries
<1>7. ASSUME NEW n \in (lo + 1) + 1 .. hi
      PROVE  \E i \in 1 .. Len(r) : IsFor(r[i], k, SendCmd) /\ r[i].chunk = n
  <2>1. n \in lo + 1 .. hi /\ n # lo + 1
    BY <1>7
  <2>2. PICK i \in 1 .. Len(q) : IsFor(q[i], k, SendCmd) /\ q[i].chunk = n
    BY <2>1 DEF Carries
  <2>3. i # 1
    BY <1>3, <2>1, <2>2
  <2>4. i - 1 \in 1 .. Len(r) /\ r[i - 1] = q[i]
    BY <1>1, <2>3
  <2>. QED  BY <2>2, <2>4
<1>8. lo + 1 <= hi
  BY <1>2
<1>. QED  BY <1>1, <1>3, <1>5, <1>6, <1>7, <1>8 DEF Carries, r

\* Nothing is under way.
LEMMA CarriesNone ==
  ASSUME NEW q, NEW k, ~Has(q, k, LinkCmd), NEW n \in Nat
  PROVE  Carries(q, k, n, n)
<1>1. \A i \in 1 .. Len(q) : ~IsFor(q[i], k, SendCmd)
  BY DEF Has, IsFor, SendCmd, LinkCmd, Command
<1>2. \A i \in n + 1 .. n : FALSE
  OBVIOUS
<1>. QED  BY <1>1, <1>2 DEF Carries


\* A packet x of link k, with chunk n, is added to q, or read from it.
Added(q, r, k, x, n) ==
  /\ Appended(q, r, k, x)
  /\ \A lo, hi \in Nat : Carries(q, k, lo, hi) =>
       /\ x \notin SendCmd => Carries(r, k, lo, hi)
       /\ x \in SendCmd /\ n = hi + 1 => Carries(r, k, lo, hi + 1)

Removed(q, r, k, x, n) ==
  /\ Consumed(q, r, k, x)
  /\ \A lo, hi \in Nat : Carries(q, k, lo, hi) =>
       /\ x \notin SendCmd => Carries(r, k, lo, hi)
       /\ x \in SendCmd => n = lo + 1 /\ Carries(r, k, lo + 1, hi)

\* q and r differ in packets that are not about link k.
Same(q, r, k) ==
  /\ Kept(q, r, k)
  /\ \A lo, hi \in Nat : Carries(q, k, lo, hi) => Carries(r, k, lo, hi)

\* Nothing changes, or changes twice.
LEMMA SameTrans ==
  ASSUME NEW q, NEW r, NEW t, NEW k
  PROVE  /\ Same(q, q, k)
         /\ Same(q, r, k) /\ Same(r, t, k) => Same(q, t, k)
BY KeptRefl, KeptTrans DEF Same

\* PutFacts, with the data.
LEMMA PutData ==
  ASSUME NEW f \in [Side -> Seq(Packet)], NEW s \in Side, NEW m \in Packet,
         NEW g, Put(f, g, s, m)
  PROVE  /\ g \in [Side -> Seq(Packet)]
         /\ g[s] = f[s]
         /\ Added(f[Peer(s)], g[Peer(s)], m.key, m.cmd, m.chunk)
         /\ \A j : j # m.key \/ m.cmd = "CMD_ERROR" => \A t \in Side : Same(f[t], g[t], j)
<1>. DEFINE k == m.key
            cmd == m.cmd
            n == m.chunk
            q == f[Peer(s)]
<1>1. m \in Packet /\ m.key = k /\ m.cmd = cmd /\ m.chunk = n /\ n \in Nat
  BY DEF Packet
<1>2. /\ g \in [Side -> Seq(Packet)]
      /\ g[s] = f[s]
      /\ Appended(q, g[Peer(s)], k, cmd)
      /\ \A j : j # k \/ cmd = "CMD_ERROR" => \A t \in Side : Kept(f[t], g[t], j)
  BY PutFacts, ZenonT(40)
<1>3. /\ q \in Seq(Packet) /\ g[Peer(s)] = Append(q, m)
      /\ \A t \in Side : t # Peer(s) => g[t] = f[t]
  BY PeerSide DEF Put
<1>. HIDE DEF k, cmd, n, q
<1>4. \A j, S : IsFor(m, j, S) <=> j = k /\ cmd \in S
  BY <1>1 DEF IsFor
<1>5. ASSUME NEW lo \in Nat, NEW hi \in Nat, Carries(q, k, lo, hi)
      PROVE  /\ cmd \notin SendCmd => Carries(g[Peer(s)], k, lo, hi)
             /\ cmd \in SendCmd /\ n = hi + 1 => Carries(g[Peer(s)], k, lo, hi + 1)
  <2>1. ASSUME cmd \notin SendCmd  PROVE Carries(g[Peer(s)], k, lo, hi)
    <3>1. ~IsFor(m, k, SendCmd)
      BY <1>4, <2>1
    <3>2. Carries(Append(q, m), k, lo, hi)
      BY <1>1, <1>3, <1>5, <3>1, CarriesAppend
    <3>. QED  BY <1>3, <3>2
  <2>2. ASSUME cmd \in SendCmd, n = hi + 1  PROVE Carries(g[Peer(s)], k, lo, hi + 1)
    <3>1. IsFor(m, k, SendCmd) /\ m.chunk = hi + 1
      BY <1>1, <1>4, <2>2
    <3>2. Carries(Append(q, m), k, lo, hi + 1)
      BY <1>1, <1>3, <1>5, <3>1, CarriesMore
    <3>. QED  BY <1>3, <3>2
  <2>. QED  BY <2>1, <2>2
<1>6. ASSUME NEW j, j # k \/ cmd = "CMD_ERROR", NEW t \in Side,
             NEW lo \in Nat, NEW hi \in Nat, Carries(f[t], j, lo, hi)
      PROVE  Carries(g[t], j, lo, hi)
  <2>1. ~IsFor(m, j, SendCmd)
    BY <1>4, <1>6 DEF SendCmd
  <2>2. CASE t = Peer(s)
    BY <1>1, <1>3, <1>6, <2>1, <2>2, CarriesAppend DEF q
  <2>3. CASE t # Peer(s)
    BY <1>3, <1>6, <2>3
  <2>. QED  BY <2>2, <2>3
<1>7. Added(q, g[Peer(s)], k, cmd, n)
  BY <1>2, <1>5 DEF Added
<1>. QED  BY <1>2, <1>6, <1>7 DEF Same, k, cmd, n, q

\* PutData for a packet of link k.
LEMMA MsgData ==
  ASSUME NEW f \in [Side -> Seq(Packet)], NEW s \in Side, NEW k \in Key, NEW cmd \in Command,
         NEW n \in Nat, NEW g, Put(f, g, s, Msg(k, cmd, n))
  PROVE  /\ g \in [Side -> Seq(Packet)]
         /\ g[s] = f[s]
         /\ Added(f[Peer(s)], g[Peer(s)], k, cmd, n)
         /\ \A j : j # k \/ cmd = "CMD_ERROR" => \A t \in Side : Same(f[t], g[t], j)
<1>. DEFINE m == Msg(k, cmd, n)
<1>1. m \in Packet /\ m.key = k /\ m.cmd = cmd /\ m.chunk = n /\ Put(f, g, s, m)
  BY MsgType DEF Msg
<1>. HIDE DEF m
<1>2. /\ g \in [Side -> Seq(Packet)]
      /\ g[s] = f[s]
      /\ Added(f[Peer(s)], g[Peer(s)], m.key, m.cmd, m.chunk)
      /\ \A j : j # m.key \/ m.cmd = "CMD_ERROR" => \A t \in Side : Same(f[t], g[t], j)
  BY <1>1, PutData
<1>. QED  BY <1>1, <1>2

\* TakeFacts, with the data.
LEMMA TakeData ==
  ASSUME NEW f \in [Side -> Seq(Packet)], NEW s \in Side, f[s] # <<>>,
         NEW m, m = Head(f[s]), NEW g, Take(f, g, s)
  PROVE  /\ g \in [Side -> Seq(Packet)]
         /\ g[Peer(s)] = f[Peer(s)]
         /\ Removed(f[s], g[s], m.key, m.cmd, m.chunk)
         /\ \A j : j # m.key \/ m.cmd = "CMD_ERROR" => \A t \in Side : Same(f[t], g[t], j)
<1>1. /\ g \in [Side -> Seq(Packet)]
      /\ g[Peer(s)] = f[Peer(s)]
      /\ Consumed(f[s], g[s], m.key, m.cmd)
      /\ \A t \in Side : \A k : m.key # k \/ m.cmd = "CMD_ERROR" => Kept(f[t], g[t], k)
  BY TakeFacts
<1>2. /\ f[s] \in Seq(Packet) /\ g[s] = Tail(f[s])
      /\ \A t \in Side : t # s => g[t] = f[t]
  BY DEF Take
<1>3. \A j, S : IsFor(m, j, S) <=> j = m.key /\ m.cmd \in S
  BY DEF IsFor
<1>4. ASSUME NEW lo \in Nat, NEW hi \in Nat, Carries(f[s], m.key, lo, hi)
      PROVE  /\ m.cmd \notin SendCmd => Carries(g[s], m.key, lo, hi)
             /\ m.cmd \in SendCmd => m.chunk = lo + 1 /\ Carries(g[s], m.key, lo + 1, hi)
  BY <1>2, <1>3, <1>4, CarriesTail, CarriesLess
<1>5. ASSUME NEW j, j # m.key \/ m.cmd = "CMD_ERROR", NEW t \in Side,
             NEW lo \in Nat, NEW hi \in Nat, Carries(f[t], j, lo, hi)
      PROVE  Carries(g[t], j, lo, hi)
  <2>1. ~IsFor(m, j, SendCmd)
    BY <1>3, <1>5 DEF SendCmd
  <2>2. CASE t = s
    BY <1>2, <1>5, <2>1, <2>2, CarriesTail
  <2>3. CASE t # s
    BY <1>2, <1>5, <2>3
  <2>. QED  BY <2>2, <2>3
<1>6. Removed(f[s], g[s], m.key, m.cmd, m.chunk)
  BY <1>1, <1>4 DEF Removed
<1>. QED  BY <1>1, <1>5, <1>6 DEF Same

\* The two FIFOs after a packet has been read ...
LEMMA ReadData ==
  ASSUME TypeOK, NEW s \in Side, NEW m \in Packet, chan[s] # <<>>, m = Head(chan[s])
  PROVE  /\ Consume(s) \in [Side -> Seq(Packet)]
         /\ Consume(s)[Peer(s)] = chan[Peer(s)]
         /\ Removed(chan[s], Consume(s)[s], m.key, m.cmd, m.chunk)
         /\ \A j : j # m.key \/ m.cmd = "CMD_ERROR" =>
              \A t \in Side : Same(chan[t], Consume(s)[t], j)
<1>1. chan \in [Side -> Seq(Packet)] /\ Take(chan, Consume(s), s)
  BY DEF TypeOK, Take, Consume
<1>. QED  BY <1>1, TakeData

\* ... and answered.
LEMMA ReplyData ==
  ASSUME TypeOK, NEW s \in Side, NEW m \in Packet, chan[s] # <<>>, m = Head(chan[s]),
         NEW cmd \in Command
  PROVE  LET g == Reply(s, Msg(m.key, cmd, 0))
         IN  /\ g \in [Side -> Seq(Packet)]
             /\ Removed(chan[s], g[s], m.key, m.cmd, m.chunk)
             /\ g[s] = Consume(s)[s]
             /\ Added(chan[Peer(s)], g[Peer(s)], m.key, cmd, 0)
             /\ \A j : j # m.key => \A t \in Side : Same(chan[t], g[t], j)
             /\ cmd = "CMD_ERROR" => Same(chan[Peer(s)], g[Peer(s)], m.key)
<1>. DEFINE g == Reply(s, Msg(m.key, cmd, 0))
            f == Consume(s)
            k == m.key
<1>1. k \in Key
  BY DEF Packet
<1>2. /\ f \in [Side -> Seq(Packet)]
      /\ f[Peer(s)] = chan[Peer(s)]
      /\ Removed(chan[s], f[s], k, m.cmd, m.chunk)
      /\ \A j : j # k => \A t \in Side : Same(chan[t], f[t], j)
  BY ReadData
<1>3. Put(f, g, s, Msg(k, cmd, 0))
  BY PeerSide DEF TypeOK, Put, Consume, Reply
<1>. HIDE DEF f, g, k
<1>4. /\ g \in [Side -> Seq(Packet)]
      /\ g[s] = f[s]
      /\ Added(f[Peer(s)], g[Peer(s)], k, cmd, 0)
      /\ \A j : j # k \/ cmd = "CMD_ERROR" => \A t \in Side : Same(f[t], g[t], j)
  BY <1>1, <1>2, <1>3, MsgData
<1>5. ASSUME NEW j, j # k, NEW t \in Side  PROVE Same(chan[t], g[t], j)
  BY <1>2, <1>4, <1>5, SameTrans
<1>6. cmd = "CMD_ERROR" => Same(chan[Peer(s)], g[Peer(s)], k)
  BY <1>2, <1>4, PeerSide
<1>. QED  BY <1>2, <1>4, <1>5, <1>6 DEF f, g, k

-------------------------------------------------------------------------------
(***************************************************************************)
(* What the link protocol says about the packets around an end.            *)
(***************************************************************************)
\* A FIFO without packets of a link.
LEMMA NoCmd ==
  ASSUME NEW q, NEW k, NEW S
  PROVE  /\ ~Has(q, k, LinkCmd) /\ S \subseteq LinkCmd => ~Has(q, k, S)
         /\ ~Has(q, k, S) => \A T : NoneAfter(q, k, S, T)
BY DEF Has, IsFor, NoneAfter

\* Consequences of LinkFits for the end at s (state v, FIFO qs to it) and its peer's.
LEMMA FitsFacts ==
  ASSUME NEW s, NEW k, NEW v, NEW w, NEW qs, NEW qp, FitsAs(s, k, v, w, qs, qp)
  PROVE  /\ Has(qs, k, {"LINK_CLOSE"}) => w # "open"
         /\ v = "closing" /\ w = "open" => Has(qp, k, {"LINK_CLOSE"})
         /\ w = "pending" /\ v = "open" => ~Has(qs, k, LinkCmd)
         /\ Has(qs, k, {"LINK_SUCCESS"}) => v = "pending" /\ ~Has(qp, k, LinkCmd)
         /\ Has(qs, k, {"LINK_FAILURE"}) => v = "pending" /\ w = "absent"
         /\ Has(qs, k, {"LINK_CREATE"}) => w = "pending" /\ ~Has(qp, k, LinkCmd)
         /\ s = ListenSideOf(k) /\ v = "absent" =>
              /\ ~Has(qs, k, LinkCmd) /\ ~Has(qp, k, {"LINK_SUCCESS"})
              /\ w \notin {"open", "pending"}
<1>1. ASSUME NEW l, NEW c, NEW ql, NEW qc, LinkFits(k, l, c, ql, qc)
      PROVE  /\ Has(ql, k, {"LINK_CLOSE"}) => c # "open"
             /\ Has(qc, k, {"LINK_CLOSE"}) => l # "open"
             /\ l = "closing" /\ c = "open" => Has(qc, k, {"LINK_CLOSE"})
             /\ c = "closing" /\ l = "open" => Has(ql, k, {"LINK_CLOSE"})
             /\ l = "pending" /\ c = "open" => ~Has(qc, k, LinkCmd)
             /\ c # "pending"
             /\ Has(ql, k, {"LINK_SUCCESS"}) => l = "pending" /\ ~Has(qc, k, LinkCmd)
             /\ Has(ql, k, {"LINK_FAILURE"}) => l = "pending" /\ c = "absent"
             /\ ~Has(qc, k, {"LINK_SUCCESS"}) /\ ~Has(qc, k, {"LINK_FAILURE"})
             /\ Has(qc, k, {"LINK_CREATE"}) => l = "pending" /\ ~Has(ql, k, LinkCmd)
             /\ ~Has(ql, k, {"LINK_CREATE"})
             /\ l = "absent" => ~Has(ql, k, LinkCmd) /\ c # "open"
  BY <1>1, HasParts DEF LinkFits, PacketOrder, Creation, Closing
<1>2. CASE s = ListenSideOf(k)
  <2>1. LinkFits(k, v, w, qs, qp)
    BY <1>2 DEF FitsAs
  <2>. QED  BY <1>1, <2>1
<1>3. CASE s # ListenSideOf(k)
  <2>1. LinkFits(k, w, v, qp, qs)
    BY <1>3 DEF FitsAs
  <2>. QED  BY <1>1, <1>3, <2>1
<1>. QED  BY <1>2, <1>3

\* Nothing of the link follows LINK_CREATE or LINK_FAILURE.
LEMMA LastPacket ==
  ASSUME NEW s, NEW k, NEW v, NEW w, NEW qs, NEW qp, NEW rs,
         FitsAs(s, k, v, w, qs, qp), NEW x \in {"LINK_CREATE", "LINK_FAILURE"},
         Consumed(qs, rs, k, x)
  PROVE  ~Has(rs, k, LinkCmd)
<1>1. Has(qs, k, {x})
  BY DEF Consumed
<1>2. CASE s = ListenSideOf(k)
  <2>1. PacketOrder(k, qs, qp)
    BY <1>2 DEF FitsAs, LinkFits
  <2>2. x = "LINK_FAILURE"
    BY <1>1, <2>1 DEF PacketOrder
  <2>. QED  BY <2>1, <2>2 DEF PacketOrder, Consumed
<1>3. CASE s # ListenSideOf(k)
  <2>1. PacketOrder(k, qp, qs)
    BY <1>3 DEF FitsAs, LinkFits
  <2>2. x = "LINK_CREATE"
    BY <1>1, <2>1, HasParts DEF PacketOrder
  <2>. QED  BY <2>1, <2>2 DEF PacketOrder, Consumed
<1>. QED  BY <1>2, <1>3

-------------------------------------------------------------------------------
(***************************************************************************)
(* How an end fares while packets come and go around it.                   *)
(***************************************************************************)
\* The other end, or this one, sends x.
LEMMA AckSent ==
  ASSUME NEW k, NEW st, NEW ack, NEW qi, NEW qo, AckAs(k, st, ack, qi, qo),
         NEW r, NEW x
  PROVE  /\ Appended(qi, r, k, x) /\ x # "LINK_ACK" => AckAs(k, st, ack, r, qo)
         /\ Appended(qo, r, k, x) /\ x # "LINK_SEND_FOR_ACK" => AckAs(k, st, ack, qi, r)
<1>1. ASSUME Appended(qi, r, k, x), x # "LINK_ACK"  PROVE AckAs(k, st, ack, r, qo)
  <2>1. /\ Has(r, k, {"LINK_ACK"}) <=> Has(qi, k, {"LINK_ACK"})
        /\ Has(qi, k, {"LINK_CLOSE"}) => Has(r, k, {"LINK_CLOSE"})
        /\ NoneAfter(qi, k, {"LINK_ACK"}, {"LINK_ACK"})
             => NoneAfter(r, k, {"LINK_ACK"}, {"LINK_ACK"})
    BY <1>1 DEF Appended
  <2>. QED  BY <2>1 DEF AckAs
<1>2. ASSUME Appended(qo, r, k, x), x # "LINK_SEND_FOR_ACK"  PROVE AckAs(k, st, ack, qi, r)
  <2>1. /\ Has(r, k, {"LINK_SEND_FOR_ACK"}) <=> Has(qo, k, {"LINK_SEND_FOR_ACK"})
        /\ NoneAfter(qo, k, {"LINK_SEND_FOR_ACK"}, {"LINK_SEND_FOR_ACK"})
             => NoneAfter(r, k, {"LINK_SEND_FOR_ACK"}, {"LINK_SEND_FOR_ACK"})
    BY <1>2 DEF Appended
  <2>. QED  BY <2>1 DEF AckAs
<1>. QED  BY <1>1, <1>2

\* This end, or the other one, reads x.
LEMMA AckRead ==
  ASSUME NEW k, NEW st, NEW ack, NEW qi, NEW qo, AckAs(k, st, ack, qi, qo),
         NEW r, NEW x
  PROVE  /\ Consumed(qi, r, k, x) /\ x \notin {"LINK_ACK", "LINK_CLOSE"}
              => AckAs(k, st, ack, r, qo)
         /\ Consumed(qo, r, k, x) /\ x # "LINK_SEND_FOR_ACK" => AckAs(k, st, ack, qi, r)
<1>1. ASSUME Consumed(qi, r, k, x), x \notin {"LINK_ACK", "LINK_CLOSE"}
      PROVE  AckAs(k, st, ack, r, qo)
  <2>1. /\ Has(r, k, {"LINK_ACK"}) <=> Has(qi, k, {"LINK_ACK"})
        /\ Has(qi, k, {"LINK_CLOSE"}) <=> Has(r, k, {"LINK_CLOSE"})
        /\ NoneAfter(qi, k, {"LINK_ACK"}, {"LINK_ACK"})
             => NoneAfter(r, k, {"LINK_ACK"}, {"LINK_ACK"})
    BY <1>1 DEF Consumed
  <2>. QED  BY <2>1 DEF AckAs
<1>2. ASSUME Consumed(qo, r, k, x), x # "LINK_SEND_FOR_ACK"  PROVE AckAs(k, st, ack, qi, r)
  <2>1. /\ Has(r, k, {"LINK_SEND_FOR_ACK"}) <=> Has(qo, k, {"LINK_SEND_FOR_ACK"})
        /\ NoneAfter(qo, k, {"LINK_SEND_FOR_ACK"}, {"LINK_SEND_FOR_ACK"})
             => NoneAfter(r, k, {"LINK_SEND_FOR_ACK"}, {"LINK_SEND_FOR_ACK"})
    BY <1>2 DEF Consumed
  <2>. QED  BY <2>1 DEF AckAs
<1>. QED  BY <1>1, <1>2

\* Packets of other links do not matter.
LEMMA AckSame ==
  ASSUME NEW k, NEW st, NEW ack, NEW qi, NEW qo, AckAs(k, st, ack, qi, qo),
         NEW ri, NEW ro, Kept(qi, ri, k), Kept(qo, ro, k)
  PROVE  AckAs(k, st, ack, ri, ro)
<1>1. /\ "CMD_ERROR" \notin {"LINK_ACK"}
      /\ "CMD_ERROR" \notin {"LINK_CLOSE"}
      /\ "CMD_ERROR" \notin {"LINK_SEND_FOR_ACK"}
  OBVIOUS
<1>. QED  BY <1>1 DEF AckAs, Kept

\* The other end sends a packet without data, or this end reads one.
LEMMA DataQuiet ==
  ASSUME NEW k, NEW st, NEW got \in Seq(Nat), NEW own, NEW peer \in Nat, NEW q,
         DataAs(k, st, got, own, peer, q), NEW r, NEW x, NEW n,
         x \notin SendCmd, x # "LINK_SUCCESS"
  PROVE  Added(q, r, k, x, n) \/ Removed(q, r, k, x, n) => DataAs(k, st, got, own, peer, r)
<1>1. Len(got) \in Nat
  BY LenProperties
<1>2. ASSUME Added(q, r, k, x, n)
      PROVE  /\ Has(r, k, {"LINK_SUCCESS"}) <=> Has(q, k, {"LINK_SUCCESS"})
             /\ Carries(q, k, Len(got), peer) => Carries(r, k, Len(got), peer)
  BY <1>1, <1>2 DEF Added, Appended
<1>3. ASSUME Removed(q, r, k, x, n)
      PROVE  /\ Has(r, k, {"LINK_SUCCESS"}) <=> Has(q, k, {"LINK_SUCCESS"})
             /\ Carries(q, k, Len(got), peer) => Carries(r, k, Len(got), peer)
  BY <1>1, <1>3 DEF Removed, Consumed
<1>. QED  BY <1>2, <1>3 DEF DataAs

\* The other end sends the next chunk.
LEMMA DataMore ==
  ASSUME NEW k, NEW st, NEW got \in Seq(Nat), NEW own, NEW peer \in Nat, NEW q,
         DataAs(k, st, got, own, peer, q), NEW r, NEW x \in SendCmd,
         Added(q, r, k, x, peer + 1)
  PROVE  DataAs(k, st, got, own, peer + 1, r)
<1>1. Len(got) \in Nat /\ x # "LINK_SUCCESS"
  BY LenProperties DEF SendCmd
<1>2. /\ Has(r, k, {"LINK_SUCCESS"}) <=> Has(q, k, {"LINK_SUCCESS"})
      /\ Carries(q, k, Len(got), peer) => Carries(r, k, Len(got), peer + 1)
  BY <1>1 DEF Added, Appended
<1>. QED  BY <1>2 DEF DataAs

\* Packets of other links do not matter.
LEMMA DataSame ==
  ASSUME NEW k, NEW st, NEW got \in Seq(Nat), NEW own, NEW peer \in Nat, NEW q,
         DataAs(k, st, got, own, peer, q), NEW r, Same(q, r, k)
  PROVE  DataAs(k, st, got, own, peer, r)
<1>1. Len(got) \in Nat /\ "CMD_ERROR" \notin {"LINK_SUCCESS"}
  BY LenProperties
<1>2. /\ Has(r, k, {"LINK_SUCCESS"}) <=> Has(q, k, {"LINK_SUCCESS"})
      /\ Carries(q, k, Len(got), peer) => Carries(r, k, Len(got), peer)
  BY <1>1 DEF Same, Kept
<1>. QED  BY <1>2 DEF DataAs

\* An end that is neither open nor has LINK_SUCCESS on its way.
LEMMA DataOver ==
  ASSUME NEW k, NEW st \in {"absent", "closing"}, NEW got, NEW own, NEW peer, NEW q,
         \A i \in 1 .. Len(got) : got[i] = i, ~Has(q, k, {"LINK_SUCCESS"})
  PROVE  DataAs(k, st, got, own, peer, q)
BY DEF DataAs

\* Poll requests and acknowledgements of an end that is not polled.
LEMMA EndOver ==
  ASSUME NEW k, NEW st \in {"absent", "closing"}, NEW ack, NEW buf, NEW ev, NEW rev,
         NEW qi, NEW qo
  PROVE  PollAs(st, ack, buf, ev, rev) /\ AckAs(k, st, ack, qi, qo)
BY DEF PollAs, AckAs

-------------------------------------------------------------------------------
(***************************************************************************)
(* Steps of side s about link k.                                           *)
(***************************************************************************)
\* f and g differ only at the end of link k at side s.
OnlyAt(f, g, s, k) == \A t \in Side, j \in Key : t # s \/ j # k => g[t][j] = f[t][j]

Local(s, k) ==
  /\ OnlyAt(linkState, linkState', s, k) /\ OnlyAt(m_acknowledged, m_acknowledged', s, k)
  /\ OnlyAt(m_buffer, m_buffer', s, k) /\ OnlyAt(delivered, delivered', s, k)
  /\ OnlyAt(events, events', s, k) /\ OnlyAt(revents, revents', s, k)
  /\ OnlyAt(nread, nread', s, k)
  /\ \A j \in Key : j # k => \A t \in Side : Same(chan[t], chan'[t], j)

\* What an end has received is a sequence of chunks.
LEMMA GotType ==
  ASSUME TypeOK, NEW s \in Side, NEW k \in Key
  PROVE  /\ m_buffer[s][k] \in Seq(Nat) /\ delivered[s][k] \in Seq(Nat)
         /\ Got(s, k) \in Seq(Nat)
         /\ nread[s][k] \in Nat /\ nread[Peer(s)][k] \in Nat
         /\ linkState[s][k] \in {"absent", "pending", "open", "closing"}
         /\ linkState[Peer(s)][k] \in {"absent", "pending", "open", "closing"}
         /\ m_acknowledged[s][k] \in BOOLEAN
<1>1. m_buffer[s][k] \in Seq(Nat) /\ delivered[s][k] \in Seq(Nat)
  BY DEF TypeOK
<1>2. Got(s, k) \in Seq(Nat)
  BY <1>1, ConcatProperties DEF Got
<1>. QED  BY <1>1, <1>2, PeerSide DEF TypeOK

\* The two ends of the link are all there is to see to.
LEMMA LocalFits ==
  ASSUME TypeOK, DataFits, NEW s \in Side, NEW k \in Key, Local(s, k),
         EndFits(s, k)', EndFits(Peer(s), k)'
  PROVE  DataFits'
<1>. SUFFICES ASSUME NEW t \in Side, NEW j \in Key  PROVE EndFits(t, j)'
  BY DEF DataFits
<1>1. CASE j = k
  <2>1. t = s \/ t = Peer(s)
    BY DEF Side, Peer
  <2>. QED  BY <1>1, <2>1
<1>2. CASE j # k
  <2>1. Peer(t) \in Side
    BY PeerSide
  <2>2. /\ linkState'[t][j] = linkState[t][j]
        /\ m_acknowledged'[t][j] = m_acknowledged[t][j]
        /\ m_buffer'[t][j] = m_buffer[t][j]
        /\ delivered'[t][j] = delivered[t][j]
        /\ events'[t][j] = events[t][j]
        /\ revents'[t][j] = revents[t][j]
        /\ nread'[t][j] = nread[t][j]
        /\ nread'[Peer(t)][j] = nread[Peer(t)][j]
    BY <1>2, <2>1 DEF Local, OnlyAt
  <2>3. Same(chan[t], chan'[t], j) /\ Same(chan[Peer(t)], chan'[Peer(t)], j)
    BY <1>2, <2>1 DEF Local
  <2>4. EndFits(t, j)
    BY DEF DataFits
  <2>5. Got(t, j)' = Got(t, j)
    BY <2>2 DEF Got
  <2>6. PollAs(linkState[t][j], m_acknowledged[t][j], m_buffer[t][j], events[t][j],
               revents[t][j])'
    BY <2>2, <2>4 DEF EndFits
  <2>7. AckAs(j, linkState[t][j], m_acknowledged[t][j], chan'[t], chan'[Peer(t)])
    BY <2>3, <2>4, AckSame DEF EndFits, Same
  <2>8. DataAs(j, linkState[t][j], Got(t, j), nread[t][j], nread[Peer(t)][j], chan'[t])
    <3>1. Got(t, j) \in Seq(Nat) /\ nread[Peer(t)][j] \in Nat
      BY GotType
    <3>. QED  BY <2>3, <2>4, <3>1, DataSame DEF EndFits
  <2>. QED  BY <2>2, <2>5, <2>6, <2>7, <2>8 DEF EndFits
<1>. QED  BY <1>1, <1>2

\* A variable that changes at one end.
LEMMA UpdateAt ==
  ASSUME NEW S, NEW f \in [Side -> [Key -> S]], NEW s \in Side, NEW k \in Key, NEW v,
         NEW g, g = [f EXCEPT ![s][k] = v]
  PROVE  OnlyAt(f, g, s, k) /\ g[s][k] = v
BY DEF OnlyAt

\* The step of side s, once what it leaves of the two ends of the link is known.
LEMMA StepFits ==
  ASSUME TypeOK, DataFits, NEW s \in Side, NEW k \in Key, Local(s, k),
         PollAs(linkState'[s][k], m_acknowledged'[s][k], m_buffer'[s][k], events'[s][k],
                revents'[s][k]),
         AckAs(k, linkState'[s][k], m_acknowledged'[s][k], chan'[s], chan'[Peer(s)]),
         DataAs(k, linkState'[s][k], Got(s, k)', nread'[s][k], nread[Peer(s)][k], chan'[s]),
         AckAs(k, linkState[Peer(s)][k], m_acknowledged[Peer(s)][k], chan'[Peer(s)], chan'[s]),
         DataAs(k, linkState[Peer(s)][k], Got(Peer(s), k), nread[Peer(s)][k], nread'[s][k],
                chan'[Peer(s)])
  PROVE  DataFits'
<1>. DEFINE p == Peer(s)
<1>1. p \in Side /\ p # s /\ Peer(p) = s
  BY PeerSide
<1>. HIDE DEF p
<1>2. /\ linkState'[p][k] = linkState[p][k]
      /\ m_acknowledged'[p][k] = m_acknowledged[p][k]
      /\ m_buffer'[p][k] = m_buffer[p][k]
      /\ delivered'[p][k] = delivered[p][k]
      /\ events'[p][k] = events[p][k]
      /\ revents'[p][k] = revents[p][k]
      /\ nread'[p][k] = nread[p][k]
  BY <1>1 DEF Local, OnlyAt
<1>3. EndFits(p, k)
  BY <1>1 DEF DataFits
<1>4. EndFits(p, k)'
  <2>1. Got(p, k)' = Got(p, k)
    BY <1>2 DEF Got
  <2>2. PollAs(linkState[p][k], m_acknowledged[p][k], m_buffer[p][k], events[p][k],
               revents[p][k])'
    BY <1>2, <1>3 DEF EndFits
  <2>. QED  BY <1>1, <1>2, <2>1, <2>2 DEF EndFits, p
<1>5. EndFits(s, k)'
  BY <1>2 DEF EndFits, p
<1>. QED  BY <1>4, <1>5, LocalFits DEF p

\* An end before a step.
LEMMA EndBefore ==
  ASSUME TypeOK, Orderly, DataFits, NEW s \in Side, NEW k \in Key
  PROVE  /\ Peer(s) \in Side /\ Peer(Peer(s)) = s
         /\ PollAs(linkState[s][k], m_acknowledged[s][k], m_buffer[s][k], events[s][k],
                   revents[s][k])
         /\ AckAs(k, linkState[s][k], m_acknowledged[s][k], chan[s], chan[Peer(s)])
         /\ DataAs(k, linkState[s][k], Got(s, k), nread[s][k], nread[Peer(s)][k], chan[s])
         /\ AckAs(k, linkState[Peer(s)][k], m_acknowledged[Peer(s)][k], chan[Peer(s)], chan[s])
         /\ DataAs(k, linkState[Peer(s)][k], Got(Peer(s), k), nread[Peer(s)][k], nread[s][k],
                   chan[Peer(s)])
         /\ FitsAs(s, k, linkState[s][k], linkState[Peer(s)][k], chan[s], chan[Peer(s)])
         /\ Got(s, k) \in Seq(Nat) /\ Got(Peer(s), k) \in Seq(Nat)
         /\ nread[s][k] \in Nat /\ nread[Peer(s)][k] \in Nat
<1>1. Peer(s) \in Side /\ Peer(Peer(s)) = s
  BY PeerSide
<1>2. EndFits(s, k) /\ EndFits(Peer(s), k)
  BY <1>1 DEF DataFits
<1>3. FitsAs(s, k, linkState[s][k], linkState[Peer(s)][k], chan[s], chan[Peer(s)])
  BY FitsViews DEF Orderly
<1>. QED  BY <1>1, <1>2, <1>3, GotType DEF EndFits

\* PolledEof
LEMMA EofFits ==
  ASSUME TypeOK, Orderly, DataFits, NEW s \in Side, NEW k \in Key, PolledEof(s, k)
  PROVE  DataFits'
<1>. DEFINE p == Peer(s)
<1>1. linkState[s][k] = "open"
  BY DEF PolledEof, LinkTurn
<1>2. /\ linkState' = [linkState EXCEPT ![s][k] = "closing"]
      /\ events' = [events EXCEPT ![s][k] = {}]
      /\ revents' = [revents EXCEPT ![s][k] = {}]
      /\ UNCHANGED <<m_acknowledged, m_buffer, nread, delivered>>
  BY DEF PolledEof, SetClosing
<1>3. /\ chan'[s] = chan[s]
      /\ Added(chan[p], chan'[p], k, "LINK_CLOSE", 0)
      /\ \A j : j # k => \A t \in Side : Same(chan[t], chan'[t], j)
  <2>. DEFINE m == Msg(k, "LINK_CLOSE", 0)
  <2>1. m \in Packet /\ m.key = k /\ m.cmd = "LINK_CLOSE" /\ m.chunk = 0
    BY MsgType DEF Msg, Command
  <2>2. Put(chan, chan', s, m) /\ chan \in [Side -> Seq(Packet)]
    BY DEF PolledEof, Send, Put, TypeOK
  <2>. HIDE DEF m
  <2>3. /\ chan'[s] = chan[s]
        /\ Added(chan[p], chan'[p], m.key, m.cmd, m.chunk)
        /\ \A j : j # m.key \/ m.cmd = "CMD_ERROR" => \A t \in Side : Same(chan[t], chan'[t], j)
    BY <2>1, <2>2, PutData
  <2>. QED  BY <2>1, <2>3
<1>4. linkState'[s][k] = "closing"
  BY <1>2 DEF TypeOK
<1>5. Local(s, k)
  <2>1. /\ OnlyAt(linkState, linkState', s, k) /\ OnlyAt(events, events', s, k)
        /\ OnlyAt(revents, revents', s, k)
    BY <1>2, UpdateAt DEF TypeOK
  <2>. QED  BY <1>2, <1>3, <2>1 DEF Local, OnlyAt
<1>6. Got(s, k)' = Got(s, k) /\ nread'[s][k] = nread[s][k]
  BY <1>2 DEF Got
<1>. HIDE DEF p
<1>7. ~Has(chan[s], k, {"LINK_SUCCESS"})
  <2>1. FitsAs(s, k, "open", linkState[p][k], chan[s], chan[p])
    BY <1>1, EndBefore DEF p
  <2>. QED  BY <2>1, FitsFacts
<1>8. /\ PollAs(linkState'[s][k], m_acknowledged'[s][k], m_buffer'[s][k], events'[s][k],
                revents'[s][k])
      /\ AckAs(k, linkState'[s][k], m_acknowledged'[s][k], chan'[s], chan'[p])
  BY <1>4, EndOver
<1>9. DataAs(k, linkState'[s][k], Got(s, k)', nread'[s][k], nread[p][k], chan'[s])
  <2>1. \A i \in 1 .. Len(Got(s, k)) : Got(s, k)[i] = i
    BY EndBefore DEF DataAs
  <2>. QED  BY <1>3, <1>4, <1>6, <1>7, <2>1, DataOver
<1>10. AckAs(k, linkState[p][k], m_acknowledged[p][k], chan'[p], chan'[s])
  BY <1>3, EndBefore, AckSent DEF Added, p
<1>11. DataAs(k, linkState[p][k], Got(p, k), nread[p][k], nread'[s][k], chan'[p])
  <2>1. "LINK_CLOSE" \notin SendCmd
    BY DEF SendCmd
  <2>. QED  BY <1>3, <1>6, <2>1, EndBefore, DataQuiet DEF p
<1>. QED  BY <1>5, <1>8, <1>9, <1>10, <1>11, StepFits DEF p

\* Three sequences behind one another.
LEMMA Joined ==
  ASSUME NEW s \in Seq(Nat), NEW t \in Seq(Nat), NEW u \in Seq(Nat)
  PROVE  (s \o t) \o u = s \o (t \o u)
BY ConcatAssociative, SMTT(30)

\* Writing the n oldest chunks moves them from m_buffer to the socket.
LEMMA GotWritten ==
  ASSUME NEW d \in Seq(Nat), NEW b \in Seq(Nat), NEW n \in 0 .. Len(b)
  PROVE  /\ (d \o SubSeq(b, 1, n)) \o SubSeq(b, n + 1, Len(b)) = d \o b
         /\ n = 0 => SubSeq(b, n + 1, Len(b)) = b
<1>. DEFINE x == SubSeq(b, 1, n)
            y == SubSeq(b, n + 1, Len(b))
<1>1. Len(b) \in Nat /\ n \in Nat /\ n <= Len(b)
  BY LenProperties
<1>2. x \in Seq(Nat) /\ y \in Seq(Nat)
  <2>1. 1 \in 1 .. Len(b) + 1 /\ n + 1 \in 1 .. Len(b) + 1 /\ Len(b) \in 0 .. Len(b)
    BY <1>1
  <2>. QED  BY <2>1, SubSeqType
<1>3. /\ Len(x) = n /\ \A i \in 1 .. n : x[i] = b[i]
      /\ Len(y) = Len(b) - n /\ \A i \in 1 .. Len(b) - n : y[i] = b[n + i]
  <2>1. \A i \in 1 .. Len(b) : b[i] \in Nat
    BY ElementOfSeq
  <2>2. /\ \A i \in 1 .. n : b[i] \in Nat
        /\ \A i \in n + 1 .. Len(b) : b[i] \in Nat
    BY <1>1, <2>1
  <2>3. /\ Len(x) = IF 1 <= n THEN n - 1 + 1 ELSE 0
        /\ \A i \in 1 .. n - 1 + 1 : x[i] = b[1 + i - 1]
    BY <1>1, <2>2, SubSeqProperties
  <2>4. /\ Len(y) = IF n + 1 <= Len(b) THEN Len(b) - (n + 1) + 1 ELSE 0
        /\ \A i \in 1 .. Len(b) - (n + 1) + 1 : y[i] = b[(n + 1) + i - 1]
    BY <1>1, <2>2, SubSeqProperties
  <2>. HIDE DEF x, y
  <2>5. Len(x) = n /\ \A i \in 1 .. n : x[i] = b[i]
    BY <1>1, <2>3
  <2>6. Len(y) = Len(b) - n /\ \A i \in 1 .. Len(b) - n : y[i] = b[n + i]
    <3>1. Len(y) = Len(b) - n
      BY <1>1, <2>4
    <3>2. ASSUME NEW i \in 1 .. Len(b) - n  PROVE y[i] = b[n + i]
      <4>1. i \in 1 .. Len(b) - (n + 1) + 1 /\ (n + 1) + i - 1 = n + i
        BY <1>1, <3>2
      <4>. QED  BY <2>4, <4>1
    <3>. QED  BY <3>1, <3>2
  <2>. QED  BY <2>5, <2>6
<1>. HIDE DEF x, y
<1>4. x \o y = b
  <2>1. /\ x \o y \in Seq(Nat) /\ Len(x \o y) = Len(x) + Len(y)
        /\ \A i \in 1 .. Len(x) + Len(y) :
             (x \o y)[i] = IF i <= Len(x) THEN x[i] ELSE y[i - Len(x)]
    BY <1>2, ConcatProperties
  <2>2. Len(x \o y) = Len(b)
    BY <1>1, <1>3, <2>1
  <2>3. ASSUME NEW i \in 1 .. Len(b)  PROVE (x \o y)[i] = b[i]
    <3>1. (x \o y)[i] = IF i <= n THEN x[i] ELSE y[i - n]
      BY <1>1, <1>3, <2>1, <2>3, SMTT(30)
    <3>2. CASE i <= n
      <4>1. i \in 1 .. n
        BY <1>1, <2>3, <3>2
      <4>. QED  BY <1>3, <3>1, <3>2, <4>1
    <3>3. CASE ~(i <= n)
      <4>1. i - n \in 1 .. Len(b) - n /\ n + (i - n) = i
        BY <1>1, <2>3, <3>3
      <4>. QED  BY <1>3, <3>1, <3>3, <4>1
    <3>. QED  BY <3>2, <3>3
  <2>. QED  BY <2>1, <2>2, <2>3, SeqEqual
<1>5. (d \o x) \o y = d \o (x \o y)
  BY ONLY d \in Seq(Nat), <1>2, Joined, Zenon
<1>6. ASSUME n = 0  PROVE y = b
  <2>1. Len(y) = Len(b) /\ \A i \in 1 .. Len(b) : y[i] = b[i]
    BY <1>1, <1>3, <1>6
  <2>. QED  BY <1>2, <2>1, SeqEqual
<1>. QED  BY <1>4, <1>5, <1>6 DEF x, y

\* The poll request of an open link after a pass: asked for again when it may have changed.
LEMMA PollAfter ==
  ASSUME NEW ack \in BOOLEAN, NEW buf, NEW ev, NEW rev, PollAs("open", ack, buf, ev, rev),
         NEW new \in BOOLEAN, NEW rest, NEW again \in BOOLEAN,
         ~again => new = ack /\ (rest = buf \/ (rest # <<>> /\ buf # <<>>))
  PROVE  PollAs("open", new, rest, IF again THEN Wanted(new, rest) ELSE ev, {})
<1>1. CASE again
  <2>1. /\ "POLLOUT" \in Wanted(new, rest) <=> rest # <<>>
        /\ "POLLIN" \in Wanted(new, rest) <=> new
    BY DEF Wanted
  <2>. QED  BY <1>1, <2>1 DEF PollAs
<1>2. CASE ~again
  <2>1. new = ack /\ (buf = <<>> <=> rest = <<>>)
    BY <1>2
  <2>. QED  BY <1>2, <2>1 DEF PollAs
<1>. QED  BY <1>1, <1>2

\* PolledLink: the packet of the POLLIN block.
LEMMA BlockIn ==
  ASSUME TypeOK, Orderly, DataFits, NEW s \in Side, NEW k \in Key, linkState[s][k] = "open"
  PROVE  LET in   == "POLLIN" \in revents[s][k]
             sent == IF in THEN SendData(s, k) ELSE chan
             ack  == m_acknowledged[s][k] /\ ~(in /\ IsAck(k))
             x    == IF in THEN nread[s][k] + 1 ELSE nread[s][k]
             p    == Peer(s)
         IN  /\ sent \in [Side -> Seq(Packet)]
             /\ sent[s] = chan[s]
             /\ \A j : j # k => \A t \in Side : Same(chan[t], sent[t], j)
             /\ AckAs(k, "open", ack, chan[s], sent[p])
             /\ AckAs(k, linkState[p][k], m_acknowledged[p][k], sent[p], chan[s])
             /\ DataAs(k, linkState[p][k], Got(p, k), nread[p][k], x, sent[p])
<1>. DEFINE p == Peer(s)
            in == "POLLIN" \in revents[s][k]
            sent == IF in THEN SendData(s, k) ELSE chan
            ack == m_acknowledged[s][k] /\ ~(in /\ IsAck(k))
            x == IF in THEN nread[s][k] + 1 ELSE nread[s][k]
            w == linkState[p][k]
            cmd == IF IsAck(k) THEN "LINK_SEND_FOR_ACK" ELSE "LINK_SEND"
            data == Msg(k, cmd, nread[s][k] + 1)
<1>1. /\ PollAs("open", m_acknowledged[s][k], m_buffer[s][k], events[s][k], revents[s][k])
      /\ AckAs(k, "open", m_acknowledged[s][k], chan[s], chan[p])
      /\ AckAs(k, w, m_acknowledged[p][k], chan[p], chan[s])
      /\ DataAs(k, w, Got(p, k), nread[p][k], nread[s][k], chan[p])
      /\ Got(p, k) \in Seq(Nat) /\ nread[s][k] \in Nat
  BY EndBefore
<1>2. cmd \in SendCmd /\ cmd \in Command /\ cmd # "CMD_ERROR" /\ cmd # "LINK_ACK"
  BY DEF SendCmd, Command
<1>3. chan \in [Side -> Seq(Packet)] /\ m_acknowledged[s][k] \in BOOLEAN
  BY DEF TypeOK
<1>4. CASE ~in
  <2>1. sent = chan /\ ack = m_acknowledged[s][k] /\ x = nread[s][k]
    BY <1>3, <1>4
  <2>2. \A j : \A t \in Side : Same(chan[t], sent[t], j)
    BY <2>1, SameTrans
  <2>. QED  BY <1>1, <1>3, <2>1, <2>2
<1>5. CASE in
  <2>1. m_acknowledged[s][k]
    BY <1>1, <1>5 DEF PollAs
  <2>2. data \in Packet /\ data.key = k /\ data.cmd = cmd /\ data.chunk = nread[s][k] + 1
    <3>1. nread[s][k] + 1 \in Nat
      BY <1>1
    <3>. QED  BY <1>2, <3>1, MsgType DEF Msg
  <2>3. Put(chan, sent, s, data)
    BY <1>5 DEF SendData, Send, Put
  <2>4. x = nread[s][k] + 1 /\ (ack <=> ~IsAck(k))
    BY <1>5, <2>1
  <2>. HIDE DEF data, cmd, in, w, p, sent, ack, x
  <2>5. /\ sent \in [Side -> Seq(Packet)]
        /\ sent[s] = chan[s]
        /\ Added(chan[p], sent[p], data.key, data.cmd, data.chunk)
        /\ \A j : j # data.key \/ data.cmd = "CMD_ERROR" =>
             \A t \in Side : Same(chan[t], sent[t], j)
    <3>1. data \in Packet
      BY <2>2
    <3>. QED  BY ONLY s \in Side, <1>3, <2>3, <3>1, PutData DEF p
  <2>6. Added(chan[p], sent[p], k, cmd, nread[s][k] + 1)
    BY <2>2, <2>5
  <2>7. AckAs(k, w, m_acknowledged[p][k], sent[p], chan[s])
    BY <1>1, <1>2, <2>6, AckSent DEF Added
  <2>8. DataAs(k, w, Got(p, k), nread[p][k], x, sent[p])
    BY <1>1, <1>2, <2>4, <2>6, DataMore
  <2>9. AckAs(k, "open", ack, chan[s], sent[p])
    <3>1. CASE IsAck(k)
      <4>1. cmd = "LINK_SEND_FOR_ACK" /\ ~ack
        BY <2>4, <3>1 DEF cmd
      <4>2. ~Has(chan[p], k, {"LINK_SEND_FOR_ACK"}) /\ ~Has(chan[s], k, {"LINK_ACK"})
        BY <1>1, <2>1 DEF AckAs
      <4>3. /\ Has(sent[p], k, {"LINK_SEND_FOR_ACK"})
            /\ NoneAfter(sent[p], k, {"LINK_SEND_FOR_ACK"}, {"LINK_SEND_FOR_ACK"})
        BY <1>1, <2>6, <4>1, <4>2 DEF AckAs, Added, Appended
      <4>. QED  BY <1>1, <4>1, <4>2, <4>3 DEF AckAs
    <3>2. CASE ~IsAck(k)
      <4>1. cmd # "LINK_SEND_FOR_ACK" /\ ack
        BY <2>4, <3>2 DEF cmd
      <4>2. AckAs(k, "open", m_acknowledged[s][k], chan[s], sent[p])
        BY <1>1, <2>6, <4>1, AckSent DEF Added
      <4>. QED  BY <2>1, <4>1, <4>2 DEF AckAs
    <3>. QED  BY <3>1, <3>2
  <2>10. \A j : j # k => \A t \in Side : Same(chan[t], sent[t], j)
    BY <2>2, <2>5
  <2>11. /\ sent \in [Side -> Seq(Packet)]
         /\ sent[s] = chan[s]
         /\ \A j : j # k => \A t \in Side : Same(chan[t], sent[t], j)
         /\ AckAs(k, "open", ack, chan[s], sent[p])
         /\ AckAs(k, linkState[p][k], m_acknowledged[p][k], sent[p], chan[s])
         /\ DataAs(k, linkState[p][k], Got(p, k), nread[p][k], x, sent[p])
    BY <2>5, <2>7, <2>8, <2>9, <2>10 DEF w
  <2>. QED  BY <2>11 DEF p, sent, ack, x, in
<1>. QED  BY <1>4, <1>5

\* PolledLink: what the step leaves at the end of the link it is about.
LEMMA BlockValues ==
  ASSUME TypeOK, NEW s \in Side, NEW k \in Key, NEW n \in Nat, PolledLink(s, k, n)
  PROVE  LET in   == "POLLIN" \in revents[s][k]
             hup  == "POLLHUP" \in revents[s][k]
             ack  == m_acknowledged[s][k] /\ ~(in /\ IsAck(k))
             rest == SubSeq(m_buffer[s][k], n + 1, Len(m_buffer[s][k]))
         IN  /\ linkState[s][k] = "open"
             /\ n \in 0 .. Len(m_buffer[s][k])
             /\ linkState'[s][k] = IF hup THEN "closing" ELSE "open"
             /\ m_acknowledged'[s][k] = ack
             /\ m_buffer'[s][k] = rest
             /\ delivered'[s][k] = delivered[s][k] \o SubSeq(m_buffer[s][k], 1, n)
             /\ nread'[s][k] = IF in THEN nread[s][k] + 1 ELSE nread[s][k]
             /\ ~hup => events'[s][k] = IF (in /\ IsAck(k)) \/ (n > 0 /\ rest = <<>>)
                                          THEN Wanted(ack, rest) ELSE events[s][k]
             /\ revents'[s][k] = {}
             /\ OnlyAt(linkState, linkState', s, k)
             /\ OnlyAt(m_acknowledged, m_acknowledged', s, k)
             /\ OnlyAt(m_buffer, m_buffer', s, k) /\ OnlyAt(delivered, delivered', s, k)
             /\ OnlyAt(events, events', s, k) /\ OnlyAt(revents, revents', s, k)
             /\ OnlyAt(nread, nread', s, k)
<1>. DEFINE in == "POLLIN" \in revents[s][k]
            hup == "POLLHUP" \in revents[s][k]
            ack == m_acknowledged[s][k] /\ ~(in /\ IsAck(k))
            rest == SubSeq(m_buffer[s][k], n + 1, Len(m_buffer[s][k]))
            gone == delivered[s][k] \o SubSeq(m_buffer[s][k], 1, n)
            count == IF in THEN nread[s][k] + 1 ELSE nread[s][k]
            st == IF hup THEN "closing" ELSE "open"
            ev == IF hup THEN {}
                  ELSE IF (in /\ IsAck(k)) \/ (n > 0 /\ rest = <<>>)
                    THEN Wanted(ack, rest) ELSE events[s][k]
<1>1. linkState[s][k] = "open"
  BY DEF PolledLink, LinkTurn
<1>2. n \in 0 .. Len(m_buffer[s][k])
  <2>1. Len(m_buffer[s][k]) \in Nat
    BY GotType, LenProperties
  <2>. QED  BY <2>1 DEF PolledLink
<1>3. /\ linkState' = [linkState EXCEPT ![s][k] = st]
      /\ m_acknowledged' = [m_acknowledged EXCEPT ![s][k] = ack]
      /\ m_buffer' = [m_buffer EXCEPT ![s][k] = rest]
      /\ delivered' = [delivered EXCEPT ![s][k] = gone]
      /\ nread' = [nread EXCEPT ![s][k] = count]
      /\ events' = [events EXCEPT ![s][k] = ev]
      /\ revents' = [revents EXCEPT ![s][k] = {}]
  BY <1>1 DEF PolledLink, TypeOK
<1>. HIDE DEF st, ack, rest, gone, count, ev
<1>4. OnlyAt(linkState, linkState', s, k) /\ linkState'[s][k] = st
  BY <1>3, UpdateAt DEF TypeOK
<1>5. OnlyAt(m_acknowledged, m_acknowledged', s, k) /\ m_acknowledged'[s][k] = ack
  BY <1>3, UpdateAt DEF TypeOK
<1>6. OnlyAt(m_buffer, m_buffer', s, k) /\ m_buffer'[s][k] = rest
  BY <1>3, UpdateAt DEF TypeOK
<1>7. OnlyAt(delivered, delivered', s, k) /\ delivered'[s][k] = gone
  BY <1>3, UpdateAt DEF TypeOK
<1>8. OnlyAt(nread, nread', s, k) /\ nread'[s][k] = count
  BY <1>3, UpdateAt DEF TypeOK
<1>9. OnlyAt(events, events', s, k) /\ events'[s][k] = ev
  BY <1>3, UpdateAt DEF TypeOK
<1>10. OnlyAt(revents, revents', s, k) /\ revents'[s][k] = {}
  BY <1>3, UpdateAt, ZenonT(40) DEF TypeOK
<1>. QED  BY <1>1, <1>2, <1>4, <1>5, <1>6, <1>7, <1>8, <1>9, <1>10
          DEF st, ack, rest, gone, count, ev

\* PolledLink
LEMMA BlocksFit ==
  ASSUME TypeOK, Orderly, DataFits, NEW s \in Side, NEW k \in Key, NEW n \in Nat,
         PolledLink(s, k, n)
  PROVE  DataFits'
<1>. DEFINE p == Peer(s)
            in == "POLLIN" \in revents[s][k]
            hup == "POLLHUP" \in revents[s][k]
            ack == m_acknowledged[s][k] /\ ~(in /\ IsAck(k))
            b == m_buffer[s][k]
            rest == SubSeq(b, n + 1, Len(b))
            again == (in /\ IsAck(k)) \/ (n > 0 /\ rest = <<>>)
            sent == IF in THEN SendData(s, k) ELSE chan
            count == IF in THEN nread[s][k] + 1 ELSE nread[s][k]
<1>1. /\ linkState[s][k] = "open"
      /\ n \in 0 .. Len(b)
      /\ linkState'[s][k] = IF hup THEN "closing" ELSE "open"
      /\ m_acknowledged'[s][k] = ack
      /\ m_buffer'[s][k] = rest
      /\ delivered'[s][k] = delivered[s][k] \o SubSeq(b, 1, n)
      /\ nread'[s][k] = count
      /\ ~hup => events'[s][k] = IF again THEN Wanted(ack, rest) ELSE events[s][k]
      /\ revents'[s][k] = {}
  BY BlockValues
<1>2. /\ OnlyAt(linkState, linkState', s, k)
      /\ OnlyAt(m_acknowledged, m_acknowledged', s, k)
      /\ OnlyAt(m_buffer, m_buffer', s, k) /\ OnlyAt(delivered, delivered', s, k)
      /\ OnlyAt(events, events', s, k) /\ OnlyAt(revents, revents', s, k)
      /\ OnlyAt(nread, nread', s, k)
  BY BlockValues
<1>3. /\ sent \in [Side -> Seq(Packet)]
      /\ sent[s] = chan[s]
      /\ \A j : j # k => \A t \in Side : Same(chan[t], sent[t], j)
      /\ AckAs(k, "open", ack, chan[s], sent[p])
      /\ AckAs(k, linkState[p][k], m_acknowledged[p][k], sent[p], chan[s])
      /\ DataAs(k, linkState[p][k], Got(p, k), nread[p][k], count, sent[p])
  BY <1>1, BlockIn
<1>4. /\ b \in Seq(Nat) /\ delivered[s][k] \in Seq(Nat)
      /\ count \in Nat /\ ack \in BOOLEAN /\ again \in BOOLEAN
      /\ m_acknowledged[s][k] \in BOOLEAN
  BY GotType
<1>5. /\ PollAs("open", m_acknowledged[s][k], b, events[s][k], revents[s][k])
      /\ DataAs(k, "open", Got(s, k), nread[s][k], nread[p][k], chan[s])
      /\ FitsAs(s, k, "open", linkState[p][k], chan[s], chan[p])
      /\ Got(p, k) \in Seq(Nat)
  BY <1>1, EndBefore
<1>6. Got(s, k)' = Got(s, k) /\ (n = 0 => rest = b)
  <2>. DEFINE d == delivered[s][k]
  <2>1. d \in Seq(Nat) /\ b \in Seq(Nat) /\ n \in 0 .. Len(b)
    BY <1>1, <1>4
  <2>2. Got(s, k) = d \o b /\ Got(s, k)' = (d \o SubSeq(b, 1, n)) \o SubSeq(b, n + 1, Len(b))
    BY <1>1 DEF Got
  <2>. HIDE DEF b, d
  <2>3. /\ (d \o SubSeq(b, 1, n)) \o SubSeq(b, n + 1, Len(b)) = d \o b
        /\ n = 0 => SubSeq(b, n + 1, Len(b)) = b
    BY <2>1, GotWritten
  <2>. QED  BY <2>2, <2>3
<1>7. ~again => ack = m_acknowledged[s][k] /\ (rest = b \/ (rest # <<>> /\ b # <<>>))
  <2>. SUFFICES ASSUME ~again
                PROVE  ack = m_acknowledged[s][k] /\ (rest = b \/ (rest # <<>> /\ b # <<>>))
    OBVIOUS
  <2>1. ack = m_acknowledged[s][k]
    BY <1>4
  <2>2. n = 0 \/ (n > 0 /\ rest # <<>>)
    BY <1>1
  <2>3. n > 0 => b # <<>>
    BY <1>1, <1>4, EmptySeq
  <2>. QED  BY <1>6, <2>1, <2>2, <2>3
<1>8. hup => Put(sent, chan', s, Msg(k, "LINK_CLOSE", 0))
  BY DEF PolledLink, Put
<1>9. ~hup => chan' = sent
  BY DEF PolledLink
<1>. HIDE DEF p, in, hup, ack, b, rest, again, sent, count
<1>10. /\ chan'[s] = chan[s]
       /\ hup => Added(sent[p], chan'[p], k, "LINK_CLOSE", 0)
       /\ \A j : j # k => \A t \in Side : Same(chan[t], chan'[t], j)
  <2>1. CASE hup
    <3>. DEFINE m == Msg(k, "LINK_CLOSE", 0)
    <3>1. m \in Packet /\ m.key = k /\ m.cmd = "LINK_CLOSE" /\ m.chunk = 0
      BY MsgType DEF Msg, Command
    <3>2. Put(sent, chan', s, m)
      BY <1>8, <2>1
    <3>. HIDE DEF m
    <3>3. /\ chan'[s] = sent[s]
          /\ Added(sent[p], chan'[p], m.key, m.cmd, m.chunk)
          /\ \A j : j # m.key \/ m.cmd = "CMD_ERROR" =>
               \A t \in Side : Same(sent[t], chan'[t], j)
      BY <1>3, <3>1, <3>2, PutData DEF p
    <3>4. ASSUME NEW j, j # k, NEW t \in Side  PROVE Same(chan[t], chan'[t], j)
      BY <1>3, <3>1, <3>3, <3>4, SameTrans
    <3>. QED  BY <1>3, <3>1, <3>3, <3>4
  <2>. QED  BY <1>3, <1>9, <2>1
<1>11. Local(s, k)
  BY <1>2, <1>10 DEF Local
<1>12. /\ PollAs(linkState'[s][k], m_acknowledged'[s][k], m_buffer'[s][k], events'[s][k],
                 revents'[s][k])
       /\ AckAs(k, linkState'[s][k], m_acknowledged'[s][k], chan'[s], chan'[p])
  <2>1. CASE hup
    BY <1>1, <2>1, EndOver
  <2>2. CASE ~hup
    <3>1. PollAs("open", ack, rest, IF again THEN Wanted(ack, rest) ELSE events[s][k], {})
      BY <1>4, <1>5, <1>7, PollAfter
    <3>. QED  BY <1>1, <1>3, <1>9, <2>2, <3>1
  <2>. QED  BY <2>1, <2>2
<1>13. DataAs(k, linkState'[s][k], Got(s, k)', nread'[s][k], nread[p][k], chan'[s])
  <2>1. CASE hup
    <3>1. ~Has(chan[s], k, {"LINK_SUCCESS"})
      BY <1>5, FitsFacts
    <3>2. \A i \in 1 .. Len(Got(s, k)) : Got(s, k)[i] = i
      BY <1>5 DEF DataAs
    <3>3. linkState'[s][k] = "closing" /\ chan'[s] = chan[s] /\ Got(s, k)' = Got(s, k)
      BY <1>1, <1>6, <1>10, <2>1
    <3>4. DataAs(k, "closing", Got(s, k), nread'[s][k], nread[p][k], chan[s])
      BY <3>1, <3>2, DataOver
    <3>. QED  BY <3>3, <3>4
  <2>2. CASE ~hup
    <3>1. linkState'[s][k] = "open" /\ chan'[s] = chan[s] /\ Got(s, k)' = Got(s, k)
      BY <1>1, <1>6, <1>10, <2>2
    <3>. QED  BY <1>5, <3>1 DEF DataAs
  <2>. QED  BY <2>1, <2>2
<1>14. /\ AckAs(k, linkState[p][k], m_acknowledged[p][k], chan'[p], chan'[s])
       /\ DataAs(k, linkState[p][k], Got(p, k), nread[p][k], nread'[s][k], chan'[p])
  <2>1. CASE hup
    <3>1. "LINK_CLOSE" \notin SendCmd
      BY DEF SendCmd
    <3>2. AckAs(k, linkState[p][k], m_acknowledged[p][k], chan'[p], chan[s])
      BY <1>3, <1>10, <2>1, AckSent DEF Added
    <3>3. DataAs(k, linkState[p][k], Got(p, k), nread[p][k], count, chan'[p])
      BY <1>3, <1>4, <1>5, <1>10, <2>1, <3>1, DataQuiet
    <3>. QED  BY <1>1, <1>10, <3>2, <3>3
  <2>2. CASE ~hup
    BY <1>1, <1>3, <1>9, <1>10, <2>2
  <2>. QED  BY <2>1, <2>2
<1>. QED  BY <1>11, <1>12, <1>13, <1>14, StepFits DEF p

-------------------------------------------------------------------------------
(***************************************************************************)
(* Steps of side s that read a packet.                                     *)
(***************************************************************************)
\* The packet meets the end that expects it.
LEMMA ArrivalData ==
  ASSUME TypeOK, Orderly, NEW s \in Side, NEW m \in Packet, Receives(s, m),
         m.cmd # "CMD_ERROR"
  PROVE  /\ m.key \in Key /\ m.chunk \in Nat
         /\ Consumed(chan[s], Consume(s)[s], m.key, m.cmd)
         /\ Has(chan[s], m.key, {m.cmd}) /\ Has(chan[s], m.key, LinkCmd)
         /\ m.cmd = "LINK_CREATE" <=> linkState[s][m.key] = "absent"
         /\ m.cmd = "LINK_CREATE" => s # ListenSideOf(m.key)
         /\ m.cmd \notin {"LINK_SUCCESS", "LINK_FAILURE"} => linkState[s][m.key] # "pending"
<1>1. m.key \in Key /\ m.chunk \in Nat /\ m.cmd \in LinkCmd
  BY DEF Packet, LinkCmd
<1>2. /\ Consumed(chan[s], Consume(s)[s], m.key, m.cmd)
      /\ m.cmd = "LINK_CREATE" <=> linkState[s][m.key] = "absent"
      /\ m.cmd = "LINK_CREATE" => s # ListenSideOf(m.key)
      /\ m.cmd \notin {"LINK_SUCCESS", "LINK_FAILURE"} => linkState[s][m.key] # "pending"
  BY Arrival
<1>3. Has(chan[s], m.key, {m.cmd}) /\ Has(chan[s], m.key, LinkCmd)
  BY <1>1, <1>2 DEF Consumed
<1>. QED  BY <1>1, <1>2, <1>3

\* The FIFOs after it is read ...
LEMMA ReadStep ==
  ASSUME TypeOK, NEW s \in Side, NEW m \in Packet, Receives(s, m), chan' = Consume(s)
  PROVE  /\ chan'[Peer(s)] = chan[Peer(s)]
         /\ chan'[s] = Consume(s)[s]
         /\ Removed(chan[s], chan'[s], m.key, m.cmd, m.chunk)
         /\ \A j : j # m.key \/ m.cmd = "CMD_ERROR" => \A t \in Side : Same(chan[t], chan'[t], j)
<1>1. chan[s] # <<>> /\ m = Head(chan[s])
  BY DEF Receives
<1>. QED  BY <1>1, ReadData

\* ... and answered.
LEMMA ReplyStep ==
  ASSUME TypeOK, NEW s \in Side, NEW m \in Packet, Receives(s, m), NEW cmd \in Command,
         chan' = Reply(s, Msg(m.key, cmd, 0))
  PROVE  /\ chan'[s] = Consume(s)[s]
         /\ Removed(chan[s], chan'[s], m.key, m.cmd, m.chunk)
         /\ Added(chan[Peer(s)], chan'[Peer(s)], m.key, cmd, 0)
         /\ \A j : j # m.key => \A t \in Side : Same(chan[t], chan'[t], j)
<1>1. chan[s] # <<>> /\ m = Head(chan[s])
  BY DEF Receives
<1>. QED  BY <1>1, ReplyData

\* A variable that does not change, changes nowhere else.
LEMMA NoUpdate ==
  ASSUME NEW f, NEW s, NEW k
  PROVE  OnlyAt(f, f, s, k)
BY DEF OnlyAt

\* NewLink and EraseLink change one end.
LEMMA NewLinkAt ==
  ASSUME TypeOK, NEW s \in Side, NEW k \in Key, NEW st, NewLink(s, k, st)
  PROVE  /\ linkState'[s][k] = st /\ m_acknowledged'[s][k] = TRUE
         /\ m_buffer'[s][k] = <<>> /\ delivered'[s][k] = <<>> /\ nread'[s][k] = 0
         /\ events'[s][k] = IF st = "open" THEN {"POLLIN"} ELSE {}
         /\ OnlyAt(linkState, linkState', s, k)
         /\ OnlyAt(m_acknowledged, m_acknowledged', s, k)
         /\ OnlyAt(m_buffer, m_buffer', s, k) /\ OnlyAt(delivered, delivered', s, k)
         /\ OnlyAt(events, events', s, k) /\ OnlyAt(nread, nread', s, k)
<1>. DEFINE ev == IF st = "open" THEN {"POLLIN"} ELSE {}
<1>0. /\ linkState' = [linkState EXCEPT ![s][k] = st]
      /\ m_acknowledged' = [m_acknowledged EXCEPT ![s][k] = TRUE]
      /\ m_buffer' = [m_buffer EXCEPT ![s][k] = <<>>]
      /\ events' = [events EXCEPT ![s][k] = ev]
      /\ nread' = [nread EXCEPT ![s][k] = 0]
      /\ delivered' = [delivered EXCEPT ![s][k] = <<>>]
  BY DEF NewLink
<1>. HIDE DEF ev
<1>1. OnlyAt(linkState, linkState', s, k) /\ linkState'[s][k] = st
  BY <1>0, UpdateAt DEF TypeOK
<1>2. OnlyAt(m_acknowledged, m_acknowledged', s, k) /\ m_acknowledged'[s][k] = TRUE
  BY <1>0 DEF TypeOK, OnlyAt
<1>3. OnlyAt(m_buffer, m_buffer', s, k) /\ m_buffer'[s][k] = <<>>
  BY <1>0, UpdateAt DEF TypeOK
<1>4. OnlyAt(delivered, delivered', s, k) /\ delivered'[s][k] = <<>>
  BY <1>0, UpdateAt DEF TypeOK
<1>5. OnlyAt(nread, nread', s, k) /\ nread'[s][k] = 0
  BY <1>0, UpdateAt DEF TypeOK
<1>6. OnlyAt(events, events', s, k) /\ events'[s][k] = ev
  BY <1>0, UpdateAt DEF TypeOK
<1>. QED  BY <1>1, <1>2, <1>3, <1>4, <1>5, <1>6 DEF ev

\* What was written to the socket stays the beginning of the data.
LEMMA EraseLinkAt ==
  ASSUME TypeOK, NEW s \in Side, NEW k \in Key, EraseLink(s, k),
         \A i \in 1 .. Len(Got(s, k)) : Got(s, k)[i] = i
  PROVE  /\ linkState'[s][k] = "absent" /\ nread'[s][k] = nread[s][k]
         /\ \A i \in 1 .. Len(Got(s, k)') : Got(s, k)'[i] = i
         /\ OnlyAt(linkState, linkState', s, k)
         /\ OnlyAt(m_acknowledged, m_acknowledged', s, k)
         /\ OnlyAt(m_buffer, m_buffer', s, k) /\ OnlyAt(delivered, delivered', s, k)
         /\ OnlyAt(events, events', s, k) /\ OnlyAt(revents, revents', s, k)
         /\ OnlyAt(nread, nread', s, k)
<1>0. /\ linkState' = [linkState EXCEPT ![s][k] = "absent"]
      /\ m_acknowledged' = [m_acknowledged EXCEPT ![s][k] = TRUE]
      /\ m_buffer' = [m_buffer EXCEPT ![s][k] = <<>>]
      /\ events' = [events EXCEPT ![s][k] = {}]
      /\ revents' = [revents EXCEPT ![s][k] = {}]
      /\ UNCHANGED <<nread, delivered>>
  BY DEF EraseLink
<1>1. OnlyAt(linkState, linkState', s, k) /\ linkState'[s][k] = "absent"
  BY <1>0, UpdateAt DEF TypeOK
<1>2. OnlyAt(m_acknowledged, m_acknowledged', s, k)
  BY <1>0, UpdateAt DEF TypeOK
<1>3. OnlyAt(m_buffer, m_buffer', s, k) /\ m_buffer'[s][k] = <<>>
  BY <1>0, UpdateAt DEF TypeOK
<1>4. OnlyAt(events, events', s, k) /\ OnlyAt(revents, revents', s, k)
  BY <1>0, UpdateAt DEF TypeOK
<1>5. /\ OnlyAt(nread, nread', s, k) /\ OnlyAt(delivered, delivered', s, k)
      /\ nread'[s][k] = nread[s][k]
  BY <1>0, NoUpdate
<1>6. \A i \in 1 .. Len(Got(s, k)') : Got(s, k)'[i] = i
  <2>. DEFINE d == delivered[s][k]
              b == m_buffer[s][k]
  <2>1. d \in Seq(Nat) /\ b \in Seq(Nat)
    BY GotType
  <2>2. Got(s, k)' = d \o <<>> /\ Got(s, k) = d \o b
    BY <1>0, <1>3 DEF Got
  <2>. HIDE DEF d, b
  <2>3. d \o <<>> = d
    BY <2>1, ConcatEmptySeq
  <2>4. /\ Len(d) \in Nat /\ Len(b) \in Nat /\ Len(d \o b) = Len(d) + Len(b)
        /\ \A i \in 1 .. Len(d) + Len(b) : (d \o b)[i] = IF i <= Len(d) THEN d[i] ELSE b[i - Len(d)]
    BY <2>1, ConcatProperties, LenProperties
  <2>5. ASSUME NEW i \in 1 .. Len(d)  PROVE d[i] = i
    <3>1. i \in 1 .. Len(d) + Len(b) /\ i <= Len(d)
      BY <2>4, <2>5
    <3>. QED  BY <2>2, <2>4, <3>1
  <2>. QED  BY <2>2, <2>3, <2>5
<1>. QED  BY <1>1, <1>2, <1>3, <1>4, <1>5, <1>6

\* RcvError: no packet of a link is read.
LEMMA ErrorFits ==
  ASSUME TypeOK, DataFits, NEW s \in Side, NEW m \in Packet, RcvError(s, m)
  PROVE  DataFits'
<1>1. Receives(s, m) /\ m.cmd = "CMD_ERROR" /\ chan' = Consume(s)
  BY DEF RcvError
<1>2. UNCHANGED <<linkState, m_acknowledged, m_buffer, events, revents, nread, delivered>>
  BY DEF RcvError
<1>3. \A j : \A t \in Side : Same(chan[t], chan'[t], j)
  BY <1>1, ReadStep
<1>. SUFFICES ASSUME NEW t \in Side, NEW j \in Key  PROVE EndFits(t, j)'
  BY DEF DataFits
<1>4. EndFits(t, j) /\ Peer(t) \in Side
  BY PeerSide DEF DataFits
<1>5. Same(chan[t], chan'[t], j) /\ Same(chan[Peer(t)], chan'[Peer(t)], j)
  BY <1>3, <1>4
<1>6. AckAs(j, linkState[t][j], m_acknowledged[t][j], chan'[t], chan'[Peer(t)])
  BY <1>4, <1>5, AckSame DEF EndFits, Same
<1>7. DataAs(j, linkState[t][j], Got(t, j), nread[t][j], nread[Peer(t)][j], chan'[t])
  <2>1. Got(t, j) \in Seq(Nat) /\ nread[Peer(t)][j] \in Nat
    BY GotType
  <2>. QED  BY <1>4, <1>5, <2>1, DataSame DEF EndFits
<1>. QED  BY <1>2, <1>4, <1>6, <1>7 DEF EndFits, Got

\* RcvCreateOk: a new link with nothing in flight but LINK_SUCCESS.
LEMMA CreateOkFits ==
  ASSUME TypeOK, Orderly, DataFits, NEW s \in Side, NEW m \in Packet, RcvCreateOk(s, m)
  PROVE  DataFits'
<1>. DEFINE k == m.key
            p == Peer(s)
            w == linkState[p][k]
<1>1. Receives(s, m) /\ m.cmd = "LINK_CREATE" /\ NewLink(s, k, "open")
  BY DEF RcvCreateOk
<1>2. /\ k \in Key /\ Has(chan[s], k, {"LINK_CREATE"})
      /\ Consumed(chan[s], Consume(s)[s], k, "LINK_CREATE")
  BY <1>1, ArrivalData
<1>3. /\ chan'[s] = Consume(s)[s]
      /\ Added(chan[p], chan'[p], k, "LINK_SUCCESS", 0)
      /\ \A j : j # k => \A t \in Side : Same(chan[t], chan'[t], j)
  <2>1. "LINK_SUCCESS" \in Command /\ chan' = Reply(s, Msg(m.key, "LINK_SUCCESS", 0))
    BY DEF Command, RcvCreateOk
  <2>. QED  BY <1>1, <2>1, ReplyStep
<1>4. /\ linkState'[s][k] = "open" /\ m_acknowledged'[s][k] = TRUE
      /\ m_buffer'[s][k] = <<>> /\ delivered'[s][k] = <<>> /\ nread'[s][k] = 0
      /\ events'[s][k] = {"POLLIN"}
      /\ OnlyAt(linkState, linkState', s, k)
      /\ OnlyAt(m_acknowledged, m_acknowledged', s, k)
      /\ OnlyAt(m_buffer, m_buffer', s, k) /\ OnlyAt(delivered, delivered', s, k)
      /\ OnlyAt(events, events', s, k) /\ OnlyAt(nread, nread', s, k)
  BY <1>1, <1>2, NewLinkAt
<1>5. OnlyAt(revents, revents', s, k) /\ revents'[s][k] = {}
  <2>1. revents' = [revents EXCEPT ![s][k] = {}]
    BY DEF RcvCreateOk
  <2>2. revents \in [Side -> [Key -> SUBSET PollEvent]]
    BY DEF TypeOK
  <2>. HIDE DEF k
  <2>. QED  BY <1>2, <2>1, <2>2, UpdateAt
<1>. HIDE DEF k, p, w
<1>6. Local(s, k)
  BY <1>3, <1>4, <1>5 DEF Local
<1>7. /\ FitsAs(s, k, linkState[s][k], w, chan[s], chan[p])
      /\ AckAs(k, w, m_acknowledged[p][k], chan[p], chan[s])
      /\ DataAs(k, w, Got(p, k), nread[p][k], nread[s][k], chan[p])
      /\ Got(p, k) \in Seq(Nat)
  BY <1>2, EndBefore DEF p, w
<1>8. w = "pending" /\ ~Has(chan[p], k, LinkCmd) /\ ~Has(chan'[s], k, LinkCmd)
  BY <1>2, <1>3, <1>7, FitsFacts, LastPacket
<1>9. /\ {"LINK_ACK"} \subseteq LinkCmd /\ {"LINK_SEND_FOR_ACK"} \subseteq LinkCmd
      /\ {"LINK_SUCCESS"} \subseteq LinkCmd
  BY DEF LinkCmd, Command
<1>10. PollAs("open", TRUE, <<>>, {"POLLIN"}, {})
  BY DEF PollAs
<1>11. AckAs(k, "open", TRUE, chan'[s], chan'[p])
  <2>1. /\ ~Has(chan'[s], k, {"LINK_ACK"})
        /\ ~Has(chan[p], k, {"LINK_SEND_FOR_ACK"})
    BY <1>8, <1>9, NoCmd
  <2>2. ~Has(chan'[p], k, {"LINK_SEND_FOR_ACK"})
    BY <1>3, <2>1 DEF Added, Appended
  <2>. QED  BY <2>1, <2>2, NoCmd DEF AckAs
<1>12. Len(Got(p, k)) = 0 /\ nread[p][k] = 0
  BY <1>7, <1>8 DEF DataAs
<1>13. Got(s, k)' = <<>>
  BY <1>4, EmptySeq, ConcatEmptySeq DEF Got
<1>14. DataAs(k, "open", <<>>, 0, nread[p][k], chan'[s])
  <2>1. Carries(chan'[s], k, 0, 0) /\ Len(<<>>) = 0
    BY <1>8, CarriesNone
  <2>. QED  BY <1>12, <2>1 DEF DataAs
<1>15. AckAs(k, w, m_acknowledged[p][k], chan'[p], chan'[s])
  <2>1. ~Has(chan'[p], k, {"LINK_ACK"})
    BY <1>3, <1>7, <1>8 DEF AckAs, Added, Appended
  <2>. QED  BY <1>8, <2>1 DEF AckAs
<1>16. DataAs(k, w, Got(p, k), nread[p][k], 0, chan'[p])
  <2>1. Carries(chan[p], k, 0, 0)
    BY <1>8, CarriesNone
  <2>2. Carries(chan'[p], k, 0, 0)
    BY <1>3, <2>1 DEF Added, SendCmd
  <2>. QED  BY <1>7, <1>8, <1>12, <2>2 DEF DataAs
<1>. QED  BY <1>2, <1>4, <1>5, <1>6, <1>10, <1>11, <1>13, <1>14, <1>15, <1>16, StepFits
          DEF p, w

\* RcvFailure and RcvClose forget the link.
LEMMA ForgetFits ==
  ASSUME TypeOK, Orderly, DataFits, NEW s \in Side, NEW m \in Packet,
         RcvFailure(s, m) \/ RcvClose(s, m)
  PROVE  DataFits'
<1>. DEFINE k == m.key
            p == Peer(s)
            v == linkState[s][k]
            w == linkState[p][k]
<1>1. Receives(s, m) /\ m.cmd \in {"LINK_FAILURE", "LINK_CLOSE"}
  BY DEF RcvFailure, RcvClose
<1>2. /\ k \in Key /\ v # "absent" /\ Has(chan[s], k, {m.cmd})
      /\ m.cmd = "LINK_CLOSE" => v # "pending"
      /\ Consumed(chan[s], Consume(s)[s], k, m.cmd)
  BY <1>1, ArrivalData
<1>3. /\ EraseLink(s, k)
      /\ chan' = Consume(s) \/ chan' = Reply(s, Msg(m.key, "LINK_CLOSE", 0))
  BY <1>2 DEF RcvFailure, RcvClose, InMap
<1>4. /\ chan'[s] = Consume(s)[s]
      /\ chan'[p] = chan[p] \/ Added(chan[p], chan'[p], k, "LINK_CLOSE", 0)
      /\ \A j : j # k => \A t \in Side : Same(chan[t], chan'[t], j)
  <2>1. "LINK_CLOSE" \in Command
    BY DEF Command
  <2>2. CASE chan' = Consume(s)
    BY <1>1, <2>2, ReadStep
  <2>3. CASE chan' = Reply(s, Msg(m.key, "LINK_CLOSE", 0))
    BY <1>1, <2>1, <2>3, ReplyStep
  <2>. QED  BY <1>3, <2>2, <2>3
<1>. HIDE DEF k, p, v, w
<1>5. /\ FitsAs(s, k, v, w, chan[s], chan[p])
      /\ DataAs(k, v, Got(s, k), nread[s][k], nread[p][k], chan[s])
      /\ AckAs(k, w, m_acknowledged[p][k], chan[p], chan[s])
      /\ DataAs(k, w, Got(p, k), nread[p][k], nread[s][k], chan[p])
      /\ Got(p, k) \in Seq(Nat) /\ nread[s][k] \in Nat
  BY <1>2, EndBefore DEF p, v, w
<1>6. \A i \in 1 .. Len(Got(s, k)) : Got(s, k)[i] = i
  BY <1>5 DEF DataAs
<1>7. /\ linkState'[s][k] = "absent" /\ nread'[s][k] = nread[s][k]
      /\ \A i \in 1 .. Len(Got(s, k)') : Got(s, k)'[i] = i
      /\ OnlyAt(linkState, linkState', s, k)
      /\ OnlyAt(m_acknowledged, m_acknowledged', s, k)
      /\ OnlyAt(m_buffer, m_buffer', s, k) /\ OnlyAt(delivered, delivered', s, k)
      /\ OnlyAt(events, events', s, k) /\ OnlyAt(revents, revents', s, k)
      /\ OnlyAt(nread, nread', s, k)
  BY <1>2, <1>3, <1>6, EraseLinkAt
<1>8. Local(s, k)
  BY <1>4, <1>7 DEF Local
<1>9. ~Has(chan'[s], k, {"LINK_SUCCESS"})
  <2>1. CASE m.cmd = "LINK_FAILURE"
    <3>1. ~Has(chan'[s], k, LinkCmd) /\ {"LINK_SUCCESS"} \subseteq LinkCmd
      BY <1>2, <1>4, <1>5, <2>1, LastPacket DEF LinkCmd, Command
    <3>. QED  BY <3>1, NoCmd
  <2>2. CASE m.cmd = "LINK_CLOSE"
    <3>1. ~Has(chan[s], k, {"LINK_SUCCESS"})
      BY <1>2, <1>5, <2>2, FitsFacts
    <3>. QED  BY <1>2, <1>4, <3>1 DEF Consumed
  <2>. QED  BY <1>1, <2>1, <2>2
<1>10. /\ PollAs("absent", m_acknowledged'[s][k], m_buffer'[s][k], events'[s][k],
                 revents'[s][k])
       /\ AckAs(k, "absent", m_acknowledged'[s][k], chan'[s], chan'[p])
  BY EndOver
<1>11. DataAs(k, "absent", Got(s, k)', nread'[s][k], nread[p][k], chan'[s])
  BY <1>7, <1>9, DataOver
<1>12. w # "open"
  <2>1. /\ Has(chan[s], k, {"LINK_CLOSE"}) => w # "open"
        /\ Has(chan[s], k, {"LINK_FAILURE"}) => w = "absent"
    BY <1>5, FitsFacts
  <2>. QED  BY <1>1, <1>2, <2>1
<1>13. /\ AckAs(k, w, m_acknowledged[p][k], chan'[p], chan'[s])
       /\ DataAs(k, w, Got(p, k), nread[p][k], nread[s][k], chan'[p])
  <2>1. CASE chan'[p] = chan[p]
    BY <1>5, <1>12, <2>1 DEF AckAs
  <2>2. CASE Added(chan[p], chan'[p], k, "LINK_CLOSE", 0)
    <3>1. AckAs(k, w, m_acknowledged[p][k], chan'[p], chan[s])
      BY <1>5, <2>2, AckSent DEF Added
    <3>2. "LINK_CLOSE" \notin SendCmd
      BY DEF SendCmd
    <3>3. DataAs(k, w, Got(p, k), nread[p][k], nread[s][k], chan'[p])
      BY <1>5, <2>2, <3>2, DataQuiet
    <3>. QED  BY <1>12, <3>1, <3>3 DEF AckAs
  <2>. QED  BY <1>4, <2>1, <2>2
<1>. QED  BY <1>2, <1>7, <1>8, <1>10, <1>11, <1>13, StepFits DEF p, w

\* RcvCreateFail: the link is not made, LINK_FAILURE is on its way.
LEMMA CreateFailFits ==
  ASSUME TypeOK, Orderly, DataFits, NEW s \in Side, NEW m \in Packet, RcvCreateFail(s, m)
  PROVE  DataFits'
<1>. DEFINE k == m.key
            p == Peer(s)
            w == linkState[p][k]
            failure == Msg(k, "LINK_FAILURE", 0)
            f == IF s = "remote" THEN Reply(s, Msg(k, "CMD_ERROR", 0)) ELSE Consume(s)
<1>1. /\ Receives(s, m) /\ m.cmd = "LINK_CREATE"
      /\ UNCHANGED <<linkState, m_acknowledged, m_buffer, events, revents, nread, delivered>>
  BY DEF RcvCreateFail
<1>2. /\ k \in Key /\ linkState[s][k] = "absent" /\ Has(chan[s], k, {"LINK_CREATE"})
      /\ Consumed(chan[s], Consume(s)[s], k, "LINK_CREATE")
  BY <1>1, ArrivalData
<1>3. chan[s] # <<>> /\ m = Head(chan[s])
  BY <1>1 DEF Receives
<1>4. /\ f \in [Side -> Seq(Packet)]
      /\ f[s] = Consume(s)[s]
      /\ Same(chan[p], f[p], k)
      /\ \A j : j # k => \A t \in Side : Same(chan[t], f[t], j)
  <2>1. CASE s = "remote"
    <3>1. "CMD_ERROR" \in Command
      BY DEF Command
    <3>. QED  BY <1>3, <2>1, <3>1, ReplyData
  <2>2. CASE s # "remote"
    BY <1>3, <2>2, ReadData, SameTrans
  <2>. QED  BY <2>1, <2>2
<1>5. Put(f, chan', s, failure)
  <2>1. CASE s = "remote"
    BY <2>1 DEF RcvCreateFail, Put
  <2>2. CASE s # "remote"
    <3>1. chan' = Reply(s, failure)
      BY <2>2 DEF RcvCreateFail
    <3>. QED  BY <2>2, <3>1, PeerSide DEF Put, Reply, Consume, TypeOK
  <2>. QED  BY <2>1, <2>2
<1>6. /\ failure \in Packet /\ failure.key = k /\ failure.cmd = "LINK_FAILURE"
      /\ failure.chunk = 0
  BY <1>2, MsgType DEF Command, Msg
<1>. HIDE DEF f, failure, k, p, w
<1>7. /\ chan'[s] = f[s]
      /\ Added(f[p], chan'[p], k, "LINK_FAILURE", 0)
      /\ \A j : j # k => \A t \in Side : Same(f[t], chan'[t], j)
  <2>1. /\ chan'[s] = f[s]
        /\ Added(f[p], chan'[p], failure.key, failure.cmd, failure.chunk)
        /\ \A j : j # failure.key \/ failure.cmd = "CMD_ERROR" =>
             \A t \in Side : Same(f[t], chan'[t], j)
    BY <1>4, <1>5, <1>6, PutData DEF p
  <2>. QED  BY <1>6, <2>1
<1>8. ASSUME NEW j, j # k, NEW t \in Side  PROVE Same(chan[t], chan'[t], j)
  BY <1>4, <1>7, <1>8, SameTrans
<1>9. Local(s, k)
  BY <1>1, <1>8, NoUpdate DEF Local
<1>10. /\ FitsAs(s, k, "absent", w, chan[s], chan[p])
       /\ DataAs(k, "absent", Got(s, k), nread[s][k], nread[p][k], chan[s])
       /\ AckAs(k, w, m_acknowledged[p][k], chan[p], chan[s])
       /\ DataAs(k, w, Got(p, k), nread[p][k], nread[s][k], chan[p])
  BY <1>2, EndBefore DEF p, w
<1>11. w = "pending" /\ ~Has(chan[p], k, LinkCmd) /\ ~Has(chan'[s], k, LinkCmd)
  BY <1>2, <1>4, <1>7, <1>10, FitsFacts, LastPacket
<1>12. /\ ~Has(chan'[s], k, {"LINK_SUCCESS"})
       /\ ~Has(chan'[p], k, {"LINK_SUCCESS"}) /\ ~Has(chan'[p], k, {"LINK_ACK"})
  <2>1. /\ {"LINK_ACK"} \subseteq LinkCmd /\ {"LINK_SUCCESS"} \subseteq LinkCmd
        /\ "CMD_ERROR" \notin {"LINK_ACK"} /\ "CMD_ERROR" \notin {"LINK_SUCCESS"}
    BY DEF LinkCmd, Command
  <2>2. /\ ~Has(chan[p], k, {"LINK_SUCCESS"}) /\ ~Has(chan[p], k, {"LINK_ACK"})
        /\ ~Has(chan'[s], k, {"LINK_SUCCESS"})
    BY <1>11, <2>1, NoCmd
  <2>3. ~Has(f[p], k, {"LINK_SUCCESS"}) /\ ~Has(f[p], k, {"LINK_ACK"})
    BY <1>4, <2>1, <2>2 DEF Same, Kept
  <2>. QED  BY <1>7, <2>2, <2>3 DEF Added, Appended
<1>13. linkState'[s][k] = "absent" /\ nread'[s][k] = nread[s][k] /\ Got(s, k)' = Got(s, k)
  BY <1>1, <1>2 DEF Got
<1>14. /\ PollAs("absent", m_acknowledged'[s][k], m_buffer'[s][k], events'[s][k],
                 revents'[s][k])
       /\ AckAs(k, "absent", m_acknowledged'[s][k], chan'[s], chan'[p])
  BY EndOver
<1>15. DataAs(k, "absent", Got(s, k), nread[s][k], nread[p][k], chan'[s])
  <2>1. \A i \in 1 .. Len(Got(s, k)) : Got(s, k)[i] = i
    BY <1>10 DEF DataAs
  <2>. QED  BY <1>12, <2>1, DataOver
<1>16. AckAs(k, w, m_acknowledged[p][k], chan'[p], chan'[s])
  BY <1>11, <1>12 DEF AckAs
<1>17. DataAs(k, w, Got(p, k), nread[p][k], nread[s][k], chan'[p])
  BY <1>10, <1>11, <1>12 DEF DataAs
<1>. QED  BY <1>2, <1>9, <1>13, <1>14, <1>15, <1>16, <1>17, StepFits DEF p, w

\* RcvSuccess: the accepted connection is polled from now on.
LEMMA SuccessFits ==
  ASSUME TypeOK, Orderly, DataFits, NEW s \in Side, NEW m \in Packet, RcvSuccess(s, m)
  PROVE  DataFits'
<1>. DEFINE k == m.key
            p == Peer(s)
            v == linkState[s][k]
            w == linkState[p][k]
<1>1. Receives(s, m) /\ m.cmd = "LINK_SUCCESS"
  BY DEF RcvSuccess
<1>2. k \in Key /\ v # "absent" /\ Has(chan[s], k, {"LINK_SUCCESS"})
  BY <1>1, ArrivalData
<1>3. /\ linkState' = [linkState EXCEPT ![s][k] = "open"]
      /\ events' = [events EXCEPT ![s][k] = {"POLLIN"}]
      /\ chan' = Consume(s)
      /\ UNCHANGED <<m_acknowledged, m_buffer, revents, nread, delivered>>
  BY <1>2 DEF RcvSuccess, InMap
<1>4. /\ chan'[p] = chan[p]
      /\ Removed(chan[s], chan'[s], k, "LINK_SUCCESS", m.chunk)
      /\ \A j : j # k => \A t \in Side : Same(chan[t], chan'[t], j)
  BY <1>1, <1>3, ReadStep
<1>. HIDE DEF k, p, v, w
<1>5. /\ OnlyAt(linkState, linkState', s, k) /\ linkState'[s][k] = "open"
      /\ OnlyAt(events, events', s, k) /\ events'[s][k] = {"POLLIN"}
  <2>1. /\ linkState \in [Side -> [Key -> {"absent", "pending", "open", "closing"}]]
        /\ events \in [Side -> [Key -> SUBSET {"POLLIN", "POLLOUT"}]]
    BY DEF TypeOK
  <2>2. OnlyAt(linkState, linkState', s, k) /\ linkState'[s][k] = "open"
    BY <1>2, <1>3, <2>1, UpdateAt
  <2>3. OnlyAt(events, events', s, k) /\ events'[s][k] = {"POLLIN"}
    BY <1>2, <1>3, <2>1, UpdateAt
  <2>. QED  BY <2>2, <2>3
<1>6. Local(s, k)
  BY <1>3, <1>4, <1>5, NoUpdate DEF Local
<1>7. /\ FitsAs(s, k, v, w, chan[s], chan[p])
      /\ PollAs(v, m_acknowledged[s][k], m_buffer[s][k], events[s][k], revents[s][k])
      /\ AckAs(k, v, m_acknowledged[s][k], chan[s], chan[p])
      /\ DataAs(k, v, Got(s, k), nread[s][k], nread[p][k], chan[s])
      /\ AckAs(k, w, m_acknowledged[p][k], chan[p], chan[s])
      /\ DataAs(k, w, Got(p, k), nread[p][k], nread[s][k], chan[p])
      /\ Got(s, k) \in Seq(Nat) /\ nread[p][k] \in Nat
  BY <1>2, EndBefore DEF p, v, w
<1>8. v = "pending" /\ ~Has(chan[p], k, LinkCmd)
  BY <1>2, <1>7, FitsFacts
<1>9. m_acknowledged[s][k] /\ m_buffer[s][k] = <<>>
  BY <1>7, <1>8 DEF PollAs
<1>10. PollAs("open", m_acknowledged[s][k], m_buffer[s][k], {"POLLIN"}, revents[s][k])
  BY <1>9 DEF PollAs
<1>11. AckAs(k, "open", m_acknowledged[s][k], chan'[s], chan'[p])
  <2>1. {"LINK_SEND_FOR_ACK"} \subseteq LinkCmd
    BY DEF LinkCmd, Command
  <2>2. ~Has(chan[p], k, {"LINK_SEND_FOR_ACK"})
    BY <1>8, <2>1, NoCmd
  <2>3. ~Has(chan[s], k, {"LINK_ACK"})
    BY <1>7, <1>8 DEF AckAs
  <2>4. ~Has(chan'[s], k, {"LINK_ACK"})
    BY <1>4, <2>3 DEF Removed, Consumed
  <2>. QED  BY <1>4, <1>9, <2>2, <2>4, NoCmd DEF AckAs
<1>12. DataAs(k, "open", Got(s, k), nread[s][k], nread[p][k], chan'[s])
  <2>1. Len(Got(s, k)) \in Nat
    BY <1>7, LenProperties
  <2>2. Carries(chan[s], k, Len(Got(s, k)), nread[p][k])
    BY <1>2, <1>7 DEF DataAs
  <2>3. Carries(chan'[s], k, Len(Got(s, k)), nread[p][k])
    BY <1>4, <1>7, <2>1, <2>2 DEF Removed, SendCmd
  <2>. QED  BY <1>7, <2>3 DEF DataAs
<1>13. AckAs(k, w, m_acknowledged[p][k], chan'[p], chan'[s])
  BY <1>4, <1>7, AckRead DEF Removed
<1>14. Got(s, k)' = Got(s, k)
  BY <1>3 DEF Got
<1>15. DataAs(k, w, Got(p, k), nread[p][k], nread'[s][k], chan'[p])
  BY <1>3, <1>4, <1>7
<1>. QED  BY <1>2, <1>3, <1>5, <1>6, <1>10, <1>11, <1>12, <1>13, <1>14, <1>15, StepFits
          DEF p, w

\* RcvAck: setAcknowledged(true).
LEMMA AckFits ==
  ASSUME TypeOK, Orderly, DataFits, NEW s \in Side, NEW m \in Packet, RcvAck(s, m)
  PROVE  DataFits'
<1>. DEFINE k == m.key
            p == Peer(s)
            v == linkState[s][k]
            w == linkState[p][k]
            b == m_buffer[s][k]
<1>1. Receives(s, m) /\ m.cmd = "LINK_ACK"
  BY DEF RcvAck
<1>2. k \in Key /\ v # "absent" /\ v # "pending" /\ Has(chan[s], k, {"LINK_ACK"})
  BY <1>1, ArrivalData
<1>3. /\ m_acknowledged' = [m_acknowledged EXCEPT ![s][k] = TRUE]
      /\ events' = SetEvents(s, k, Wanted(TRUE, b))
      /\ chan' = Consume(s)
      /\ UNCHANGED <<linkState, m_buffer, revents, nread, delivered>>
  BY <1>2 DEF RcvAck, InMap
<1>4. /\ chan'[p] = chan[p]
      /\ Removed(chan[s], chan'[s], k, "LINK_ACK", m.chunk)
      /\ \A j : j # k => \A t \in Side : Same(chan[t], chan'[t], j)
  BY <1>1, <1>3, ReadStep
<1>5. v \in {"open", "closing"}
  BY <1>2, GotType
<1>. HIDE DEF k, p, b
<1>6. OnlyAt(m_acknowledged, m_acknowledged', s, k) /\ m_acknowledged'[s][k] = TRUE
  BY <1>2, <1>3 DEF TypeOK, OnlyAt
<1>7. OnlyAt(events, events', s, k) /\ (v = "open" => events'[s][k] = Wanted(TRUE, b))
  BY <1>2, <1>3, UpdateAt, NoUpdate, ZenonT(40) DEF TypeOK, SetEvents
<1>8. Local(s, k)
  BY <1>3, <1>4, <1>6, <1>7, NoUpdate DEF Local
<1>. HIDE DEF v, w
<1>9. /\ FitsAs(s, k, v, w, chan[s], chan[p])
      /\ AckAs(k, v, m_acknowledged[s][k], chan[s], chan[p])
      /\ DataAs(k, v, Got(s, k), nread[s][k], nread[p][k], chan[s])
      /\ AckAs(k, w, m_acknowledged[p][k], chan[p], chan[s])
      /\ DataAs(k, w, Got(p, k), nread[p][k], nread[s][k], chan[p])
      /\ Got(s, k) \in Seq(Nat) /\ nread[p][k] \in Nat
  BY <1>2, EndBefore DEF p, v, w
<1>10. PollAs(v, TRUE, b, events'[s][k], revents[s][k])
  <2>1. /\ "POLLOUT" \in Wanted(TRUE, b) <=> b # <<>>
        /\ "POLLIN" \in Wanted(TRUE, b)
    BY DEF Wanted
  <2>. QED  BY <1>5, <1>7, <2>1 DEF PollAs
<1>11. AckAs(k, v, TRUE, chan'[s], chan'[p])
  <2>1. CASE v = "open"
    <3>1. /\ ~Has(chan[p], k, {"LINK_SEND_FOR_ACK"})
          /\ NoneAfter(chan[s], k, {"LINK_ACK"}, {"LINK_ACK"})
          /\ NoneAfter(chan[p], k, {"LINK_SEND_FOR_ACK"}, {"LINK_SEND_FOR_ACK"})
      BY <1>2, <1>9, <2>1 DEF AckAs
    <3>2. ~Has(chan'[s], k, {"LINK_ACK"})
      BY <1>4, <3>1 DEF Removed, Consumed
    <3>. QED  BY <1>4, <2>1, <3>1, <3>2, NoCmd DEF AckAs
  <2>2. CASE v = "closing"
    BY <2>2 DEF AckAs
  <2>. QED  BY <1>5, <2>1, <2>2
<1>12. "LINK_ACK" \notin SendCmd
  BY DEF SendCmd
<1>13. DataAs(k, v, Got(s, k), nread[s][k], nread[p][k], chan'[s])
  BY <1>4, <1>9, <1>12, DataQuiet
<1>14. AckAs(k, w, m_acknowledged[p][k], chan'[p], chan'[s])
  BY <1>4, <1>9, AckRead DEF Removed
<1>15. Got(s, k)' = Got(s, k) /\ linkState'[s][k] = v /\ m_buffer'[s][k] = b
  BY <1>3 DEF Got, v, b
<1>16. DataAs(k, w, Got(p, k), nread[p][k], nread'[s][k], chan'[p])
  BY <1>3, <1>4, <1>9
<1>. QED  BY <1>2, <1>3, <1>6, <1>8, <1>10, <1>11, <1>13, <1>14, <1>15, <1>16, StepFits
          DEF p, w

\* receiveData adds a chunk to what has been received.
LEMMA GotMore ==
  ASSUME NEW d \in Seq(Nat), NEW b \in Seq(Nat), NEW c \in Nat
  PROVE  /\ d \o Append(b, c) = Append(d \o b, c)
         /\ Append(b, c) # <<>>
<1>1. /\ d \o b \in Seq(Nat) /\ Append(b, c) \in Seq(Nat)
      /\ Len(d) \in Nat /\ Len(b) \in Nat
      /\ Len(Append(b, c)) = Len(b) + 1 /\ Append(b, c)[Len(b) + 1] = c
      /\ \A i \in 1 .. Len(b) : Append(b, c)[i] = b[i]
  BY AppendProperties, LenProperties, ConcatProperties
<1>2. /\ Len(d \o b) = Len(d) + Len(b)
      /\ \A i \in 1 .. Len(d) + Len(b) : (d \o b)[i] = IF i <= Len(d) THEN d[i] ELSE b[i - Len(d)]
  BY ConcatProperties
<1>. DEFINE x == Append(b, c)
            y == d \o b
            l == d \o x
            r == Append(y, c)
<1>3. /\ l \in Seq(Nat) /\ Len(l) = Len(d) + Len(x)
      /\ \A i \in 1 .. Len(d) + Len(x) : l[i] = IF i <= Len(d) THEN d[i] ELSE x[i - Len(d)]
  BY <1>1, ConcatProperties
<1>4. /\ r \in Seq(Nat) /\ Len(r) = Len(y) + 1 /\ r[Len(y) + 1] = c
      /\ \A i \in 1 .. Len(y) : r[i] = y[i]
  BY <1>1, AppendProperties
<1>5. Append(b, c) # <<>>
  BY <1>1, EmptySeq
<1>. HIDE DEF x, y, l, r
<1>6. Len(x) = Len(b) + 1 /\ x[Len(b) + 1] = c /\ \A i \in 1 .. Len(b) : x[i] = b[i]
  BY <1>1 DEF x
<1>7. /\ Len(y) = Len(d) + Len(b)
      /\ \A i \in 1 .. Len(d) + Len(b) : y[i] = IF i <= Len(d) THEN d[i] ELSE b[i - Len(d)]
  BY <1>2 DEF y
<1>8. Len(l) = Len(r) /\ Len(r) = Len(d) + Len(b) + 1
  BY <1>1, <1>3, <1>4, <1>6, <1>7
<1>9. ASSUME NEW i \in 1 .. Len(r)  PROVE l[i] = r[i]
  <2>1. i \in 1 .. Len(d) + Len(x) /\ l[i] = IF i <= Len(d) THEN d[i] ELSE x[i - Len(d)]
    BY <1>1, <1>3, <1>6, <1>8, <1>9
  <2>2. CASE i <= Len(d)
    <3>1. i \in 1 .. Len(y) /\ i \in 1 .. Len(d) + Len(b)
      BY <1>1, <1>7, <1>9, <2>2
    <3>. QED  BY <1>4, <1>7, <2>1, <2>2, <3>1
  <2>3. CASE ~(i <= Len(d)) /\ i # Len(r)
    <3>1. i \in 1 .. Len(y) /\ i \in 1 .. Len(d) + Len(b) /\ i - Len(d) \in 1 .. Len(b)
      BY <1>1, <1>7, <1>8, <1>9, <2>3
    <3>. QED  BY <1>4, <1>6, <1>7, <2>1, <2>3, <3>1
  <2>4. CASE ~(i <= Len(d)) /\ i = Len(r)
    <3>1. i = Len(y) + 1 /\ i - Len(d) = Len(b) + 1
      BY <1>1, <1>7, <1>8, <2>4
    <3>. QED  BY <1>4, <1>6, <2>1, <2>4, <3>1
  <2>. QED  BY <2>2, <2>3, <2>4
<1>10. l = r
  BY <1>3, <1>4, <1>8, <1>9, SeqEqual
<1>. QED  BY <1>5, <1>10 DEF l, r, x, y

\* An open end takes the data of the packet it reads: the next chunk.
LEMMA DataLess ==
  ASSUME NEW k, NEW got \in Seq(Nat), NEW own, NEW peer \in Nat, NEW q,
         DataAs(k, "open", got, own, peer, q), NEW r, NEW x \in SendCmd, NEW c \in Nat,
         Removed(q, r, k, x, c)
  PROVE  DataAs(k, "open", Append(got, c), own, peer, r)
<1>1. /\ Len(got) \in Nat /\ Len(Append(got, c)) = Len(got) + 1
      /\ Append(got, c)[Len(got) + 1] = c
      /\ \A i \in 1 .. Len(got) : Append(got, c)[i] = got[i]
  BY AppendProperties, LenProperties
<1>2. Carries(q, k, Len(got), peer)
  BY DEF DataAs
<1>3. c = Len(got) + 1 /\ Carries(r, k, Len(got) + 1, peer)
  BY <1>1, <1>2 DEF Removed
<1>4. ASSUME NEW i \in 1 .. Len(Append(got, c))  PROVE Append(got, c)[i] = i
  <2>1. CASE i \in 1 .. Len(got)
    <3>1. got[i] = i
      BY <2>1 DEF DataAs
    <3>. QED  BY <1>1, <2>1, <3>1
  <2>2. CASE i = Len(got) + 1
    BY <1>1, <1>3, <2>2
  <2>. QED  BY <1>1, <1>4, <2>1, <2>2
<1>. QED  BY <1>1, <1>3, <1>4 DEF DataAs

\* receiveData at a link in the map: an open one takes the data, a closing one drops it.
LEMMA ReceivedAt ==
  ASSUME TypeOK, Orderly, DataFits, NEW s \in Side, NEW m \in Packet, Receives(s, m),
         m.cmd \in SendCmd, ReceiveData(s, m), UNCHANGED <<revents, nread, delivered>>,
         Removed(chan[s], chan'[s], m.key, m.cmd, m.chunk)
  PROVE  LET k == m.key
             v == linkState[s][k]
         IN  /\ v \in {"open", "closing"} /\ k \in Key
             /\ OnlyAt(m_buffer, m_buffer', s, k) /\ OnlyAt(events, events', s, k)
             /\ PollAs(v, m_acknowledged[s][k], m_buffer'[s][k], events'[s][k], revents[s][k])
             /\ DataAs(k, v, Got(s, k)', nread[s][k], nread[Peer(s)][k], chan'[s])
<1>. DEFINE k == m.key
            p == Peer(s)
            v == linkState[s][k]
            b == m_buffer[s][k]
            d == delivered[s][k]
            c == m.chunk
<1>1. /\ k \in Key /\ c \in Nat /\ v # "absent" /\ v # "pending"
      /\ Has(chan[s], k, LinkCmd)
  BY ArrivalData DEF SendCmd
<1>2. /\ v \in {"open", "closing"} /\ b \in Seq(Nat) /\ d \in Seq(Nat)
      /\ Got(s, k) = d \o b /\ Got(s, k) \in Seq(Nat) /\ nread[p][k] \in Nat
  BY <1>1, GotType DEF Got
<1>3. /\ PollAs(v, m_acknowledged[s][k], b, events[s][k], revents[s][k])
      /\ DataAs(k, v, Got(s, k), nread[s][k], nread[p][k], chan[s])
      /\ FitsAs(s, k, v, linkState[p][k], chan[s], chan[p])
  BY <1>1, EndBefore
<1>4. CASE v = "closing"
  <2>1. UNCHANGED <<m_buffer, events>>
    BY <1>4 DEF ReceiveData
  <2>2. Got(s, k)' = Got(s, k)
    BY <2>1 DEF Got
  <2>3. ~Has(chan[s], k, {"LINK_SUCCESS"})
    BY <1>3, <1>4, FitsFacts
  <2>4. ~Has(chan'[s], k, {"LINK_SUCCESS"})
    BY <2>3 DEF Removed, Consumed
  <2>5. \A i \in 1 .. Len(Got(s, k)) : Got(s, k)[i] = i
    BY <1>3 DEF DataAs
  <2>6. DataAs(k, "closing", Got(s, k), nread[s][k], nread[p][k], chan'[s])
    BY <2>4, <2>5, DataOver
  <2>. QED  BY <1>1, <1>2, <1>3, <1>4, <2>1, <2>2, <2>6, NoUpdate
<1>5. CASE v = "open"
  <2>1. /\ m_buffer' = [m_buffer EXCEPT ![s][k] = Append(b, c)]
        /\ events' = [events EXCEPT ![s][k] = {"POLLOUT"}]
    BY <1>1, <1>5 DEF ReceiveData, SetEvents, TypeOK
  <2>2. /\ m_buffer \in [Side -> [Key -> Seq(Nat)]]
        /\ events \in [Side -> [Key -> SUBSET {"POLLIN", "POLLOUT"}]]
    BY DEF TypeOK
  <2>3. /\ d \o Append(b, c) = Append(d \o b, c)
        /\ Append(b, c) # <<>>
    BY <1>1, <1>2, GotMore, ZenonT(40)
  <2>4. DataAs(k, "open", Append(Got(s, k), c), nread[s][k], nread[p][k], chan'[s])
    <3>1. Removed(chan[s], chan'[s], k, m.cmd, c) /\ m.cmd \in SendCmd
      OBVIOUS
    <3>. HIDE DEF k, c
    <3>. QED  BY <1>1, <1>2, <1>3, <1>5, <3>1, DataLess
  <2>. HIDE DEF k, b, c
  <2>5. OnlyAt(m_buffer, m_buffer', s, k) /\ m_buffer'[s][k] = Append(b, c)
    BY <1>1, <2>1, <2>2, UpdateAt
  <2>6. OnlyAt(events, events', s, k) /\ events'[s][k] = {"POLLOUT"}
    BY <1>1, <2>1, <2>2, UpdateAt
  <2>7. Got(s, k)' = Append(Got(s, k), c)
    BY <1>2, <2>3, <2>5 DEF Got
  <2>8. PollAs("open", m_acknowledged[s][k], Append(b, c), {"POLLOUT"}, revents[s][k])
    BY <1>3, <1>5, <2>3 DEF PollAs
  <2>9. /\ PollAs(v, m_acknowledged[s][k], m_buffer'[s][k], events'[s][k], revents[s][k])
        /\ DataAs(k, v, Got(s, k)', nread[s][k], nread[p][k], chan'[s])
    BY <1>5, <2>4, <2>5, <2>6, <2>7, <2>8
  <2>. QED  BY <1>1, <1>2, <2>5, <2>6, <2>9 DEF k
<1>. QED  BY <1>2, <1>4, <1>5

\* RcvSend
LEMMA SendFits ==
  ASSUME TypeOK, Orderly, DataFits, NEW s \in Side, NEW m \in Packet, RcvSend(s, m)
  PROVE  DataFits'
<1>. DEFINE k == m.key
            p == Peer(s)
            v == linkState[s][k]
            w == linkState[p][k]
<1>1. Receives(s, m) /\ m.cmd = "LINK_SEND" /\ m.cmd \in SendCmd
  BY DEF RcvSend, SendCmd
<1>2. k \in Key /\ v # "absent"
  BY <1>1, ArrivalData
<1>3. /\ ReceiveData(s, m) /\ chan' = Consume(s)
      /\ UNCHANGED <<linkState, m_acknowledged, revents, nread, delivered>>
  BY <1>2 DEF RcvSend, InMap
<1>4. /\ chan'[p] = chan[p]
      /\ Removed(chan[s], chan'[s], k, m.cmd, m.chunk)
      /\ \A j : j # k => \A t \in Side : Same(chan[t], chan'[t], j)
  BY <1>1, <1>3, ReadStep
<1>5. /\ OnlyAt(m_buffer, m_buffer', s, k) /\ OnlyAt(events, events', s, k)
      /\ PollAs(v, m_acknowledged[s][k], m_buffer'[s][k], events'[s][k], revents[s][k])
      /\ DataAs(k, v, Got(s, k)', nread[s][k], nread[p][k], chan'[s])
  BY <1>1, <1>3, <1>4, ReceivedAt
<1>. HIDE DEF k, p
<1>6. Local(s, k)
  BY <1>3, <1>4, <1>5, NoUpdate DEF Local
<1>7. /\ AckAs(k, v, m_acknowledged[s][k], chan[s], chan[p])
      /\ AckAs(k, w, m_acknowledged[p][k], chan[p], chan[s])
      /\ DataAs(k, w, Got(p, k), nread[p][k], nread[s][k], chan[p])
  BY <1>2, EndBefore DEF p
<1>8. /\ AckAs(k, v, m_acknowledged[s][k], chan'[s], chan'[p])
      /\ AckAs(k, w, m_acknowledged[p][k], chan'[p], chan'[s])
  BY <1>1, <1>4, <1>7, AckRead DEF Removed
<1>. QED  BY <1>2, <1>3, <1>4, <1>5, <1>6, <1>7, <1>8, StepFits DEF p

\* RcvSendForAck: LINK_ACK answers for the one packet in flight; a closing end, silent,
\* has sent LINK_CLOSE.
LEMMA SendForAckFits ==
  ASSUME TypeOK, Orderly, DataFits, NEW s \in Side, NEW m \in Packet, RcvSendForAck(s, m)
  PROVE  DataFits'
<1>. DEFINE k == m.key
            p == Peer(s)
            v == linkState[s][k]
            w == linkState[p][k]
            x == "LINK_SEND_FOR_ACK"
<1>1. Receives(s, m) /\ m.cmd = x /\ m.cmd \in SendCmd
  BY DEF RcvSendForAck, SendCmd
<1>2. k \in Key /\ v # "absent" /\ Has(chan[s], k, {x}) /\ Has(chan[s], k, LinkCmd)
  BY <1>1, ArrivalData
<1>3. /\ ReceiveData(s, m)
      /\ UNCHANGED <<linkState, revents, nread, delivered>>
      /\ v = "closing" => /\ chan' = Consume(s)
                          /\ m_acknowledged' = [m_acknowledged EXCEPT ![s][k] = TRUE]
      /\ v # "closing" => chan' = Reply(s, Msg(m.key, "LINK_ACK", 0)) /\ UNCHANGED m_acknowledged
  BY <1>2 DEF RcvSendForAck, InMap
<1>4. /\ v = "closing" => chan'[p] = chan[p]
      /\ v # "closing" => Added(chan[p], chan'[p], k, "LINK_ACK", 0)
      /\ Removed(chan[s], chan'[s], k, m.cmd, m.chunk)
      /\ \A j : j # k => \A t \in Side : Same(chan[t], chan'[t], j)
  <2>1. CASE v = "closing"
    BY <1>1, <1>3, <2>1, ReadStep
  <2>2. CASE v # "closing"
    <3>1. "LINK_ACK" \in Command
      BY DEF Command
    <3>. QED  BY <1>1, <1>3, <2>2, <3>1, ReplyStep
  <2>. QED  BY <2>1, <2>2
<1>5. /\ v \in {"open", "closing"}
      /\ OnlyAt(m_buffer, m_buffer', s, k) /\ OnlyAt(events, events', s, k)
      /\ PollAs(v, m_acknowledged[s][k], m_buffer'[s][k], events'[s][k], revents[s][k])
      /\ DataAs(k, v, Got(s, k)', nread[s][k], nread[p][k], chan'[s])
  BY <1>1, <1>3, <1>4, ReceivedAt
<1>. HIDE DEF k, p
<1>6. OnlyAt(m_acknowledged, m_acknowledged', s, k)
  BY <1>2, <1>3 DEF TypeOK, OnlyAt
<1>7. Local(s, k)
  BY <1>3, <1>4, <1>5, <1>6, NoUpdate DEF Local
<1>8. /\ AckAs(k, v, m_acknowledged[s][k], chan[s], chan[p])
      /\ AckAs(k, w, m_acknowledged[p][k], chan[p], chan[s])
      /\ DataAs(k, w, Got(p, k), nread[p][k], nread[s][k], chan[p])
      /\ FitsAs(s, k, v, w, chan[s], chan[p])
      /\ Got(p, k) \in Seq(Nat) /\ nread[s][k] \in Nat
  BY <1>2, EndBefore DEF p
<1>9. Removed(chan[s], chan'[s], k, x, m.chunk)
  BY <1>1, <1>4
<1>10. w = "open" => /\ ~m_acknowledged[p][k] /\ ~Has(chan[p], k, {"LINK_ACK"})
                     /\ ~Has(chan'[s], k, {x})
                     /\ NoneAfter(chan'[s], k, {x}, {x})
                     /\ NoneAfter(chan[p], k, {"LINK_ACK"}, {"LINK_ACK"})
  BY <1>2, <1>8, <1>9 DEF AckAs, Removed, Consumed
<1>11. PollAs(v, m_acknowledged'[s][k], m_buffer'[s][k], events'[s][k], revents[s][k])
  <2>1. CASE v = "open"
    BY <1>3, <1>5, <2>1
  <2>2. CASE v = "closing"
    BY <2>2 DEF PollAs
  <2>. QED  BY <1>5, <2>1, <2>2
<1>12. CASE v = "closing"
  <2>1. AckAs(k, v, m_acknowledged'[s][k], chan'[s], chan'[p])
    BY <1>12 DEF AckAs
  <2>2. w = "open" => Has(chan[p], k, {"LINK_CLOSE"})
    BY <1>8, <1>12, FitsFacts
  <2>3. AckAs(k, w, m_acknowledged[p][k], chan'[p], chan'[s])
    BY <1>4, <1>8, <1>10, <1>12, <2>2 DEF AckAs
  <2>4. DataAs(k, w, Got(p, k), nread[p][k], nread[s][k], chan'[p])
    BY <1>4, <1>8, <1>12
  <2>. QED  BY <1>2, <1>3, <1>5, <1>7, <1>11, <2>1, <2>3, <2>4, StepFits DEF p
<1>13. CASE v = "open"
  <2>1. Added(chan[p], chan'[p], k, "LINK_ACK", 0)
    BY <1>4, <1>13
  <2>2. AckAs(k, v, m_acknowledged[s][k], chan'[s], chan'[p])
    <3>1. AckAs(k, v, m_acknowledged[s][k], chan'[s], chan[p])
      BY <1>8, <1>9, AckRead DEF Removed
    <3>. QED  BY <2>1, <3>1, AckSent DEF Added
  <2>3. w # "pending"
    BY <1>2, <1>8, <1>13, FitsFacts
  <2>4. AckAs(k, w, m_acknowledged[p][k], chan'[p], chan'[s])
    <3>1. CASE w = "open"
      <4>1. /\ Has(chan'[p], k, {"LINK_ACK"})
            /\ NoneAfter(chan'[p], k, {"LINK_ACK"}, {"LINK_ACK"})
        BY <1>10, <2>1, <3>1 DEF Added, Appended
      <4>. QED  BY <1>10, <3>1, <4>1 DEF AckAs
    <3>2. CASE w # "open"
      BY <2>3, <3>2 DEF AckAs
    <3>. QED  BY <3>1, <3>2
  <2>5. DataAs(k, w, Got(p, k), nread[p][k], nread[s][k], chan'[p])
    <3>1. "LINK_ACK" \notin SendCmd
      BY DEF SendCmd
    <3>. QED  BY <1>8, <2>1, <3>1, DataQuiet
  <2>. QED  BY <1>2, <1>3, <1>5, <1>7, <1>11, <1>13, <2>2, <2>4, <2>5, StepFits DEF p
<1>. QED  BY <1>5, <1>12, <1>13

-------------------------------------------------------------------------------
(***************************************************************************)
(* The remaining steps, and the invariant.                                 *)
(***************************************************************************)
\* Accept with an id that is free: nothing of an earlier link of this id is in flight.
LEMMA AcceptFits ==
  ASSUME TypeOK, Orderly, DataFits, NEW c \in Conns, Accept(c), NothingDangling'
  PROVE  DataFits'
<1>1. PICK s \in Side, k \in Key :
        s = ListenAt[c] /\ k = <<c, ToShort(m_next_id[c])>> /\ ListenSideOf(k) = s
  <2>1. /\ ListenAt[c] \in Side /\ <<c, ToShort(m_next_id[c])>> \in Key
        /\ ListenSideOf(<<c, ToShort(m_next_id[c])>>) = ListenAt[c]
    BY ConstantsAssumption, ToShortType DEF TypeOK, Key, ListenSideOf
  <2>. HIDE DEF Key
  <2>. QED  BY <2>1
<1>1a. s \in Side /\ k \in Key /\ ListenSideOf(k) = s
  BY <1>1
<1>. DEFINE p == Peer(s)
            w == linkState[p][k]
<1>2. /\ NewLink(s, k, "pending")
      /\ Put(chan, chan', s, Msg(k, "LINK_CREATE", 0))
      /\ UNCHANGED revents
  BY <1>1 DEF Accept, Send, Put
<1>3. linkState[s][k] = "absent"
  <2>1. mode' = [mode EXCEPT ![s] = IF InMap(s, k) THEN "dangling" ELSE @]
    BY <1>2 DEF NewLink
  <2>. QED  BY <1>1, <2>1 DEF NothingDangling, InMap, TypeOK
<1>. HIDE DEF p, w
<1>4. /\ chan'[s] = chan[s]
      /\ Added(chan[p], chan'[p], k, "LINK_CREATE", 0)
      /\ \A j : j # k => \A t \in Side : Same(chan[t], chan'[t], j)
  <2>. DEFINE m == Msg(k, "LINK_CREATE", 0)
  <2>1. m \in Packet /\ m.key = k /\ m.cmd = "LINK_CREATE" /\ m.chunk = 0
    BY <1>1a, MsgType DEF Msg, Command
  <2>2. Put(chan, chan', s, m) /\ chan \in [Side -> Seq(Packet)]
    BY <1>2 DEF TypeOK
  <2>. HIDE DEF m
  <2>3. /\ chan'[s] = chan[s]
        /\ Added(chan[p], chan'[p], m.key, m.cmd, m.chunk)
        /\ \A j : j # m.key \/ m.cmd = "CMD_ERROR" => \A t \in Side : Same(chan[t], chan'[t], j)
    BY <1>1a, <2>1, <2>2, PutData, ZenonT(40) DEF p
  <2>. QED  BY <2>1, <2>3
<1>5. /\ linkState'[s][k] = "pending" /\ m_acknowledged'[s][k] = TRUE
      /\ m_buffer'[s][k] = <<>> /\ delivered'[s][k] = <<>> /\ nread'[s][k] = 0
      /\ OnlyAt(linkState, linkState', s, k)
      /\ OnlyAt(m_acknowledged, m_acknowledged', s, k)
      /\ OnlyAt(m_buffer, m_buffer', s, k) /\ OnlyAt(delivered, delivered', s, k)
      /\ OnlyAt(events, events', s, k) /\ OnlyAt(nread, nread', s, k)
  BY <1>1a, <1>2, NewLinkAt
<1>6. Local(s, k)
  BY <1>2, <1>4, <1>5, NoUpdate DEF Local
<1>7. /\ FitsAs(s, k, "absent", w, chan[s], chan[p])
      /\ DataAs(k, w, Got(p, k), nread[p][k], nread[s][k], chan[p])
      /\ w \in {"absent", "pending", "open", "closing"}
  BY <1>1a, <1>3, EndBefore, GotType DEF p, w
<1>8. /\ ~Has(chan[s], k, LinkCmd) /\ ~Has(chan[p], k, {"LINK_SUCCESS"})
      /\ w \in {"absent", "closing"}
  BY <1>1a, <1>7, FitsFacts
<1>9. /\ ~Has(chan'[s], k, {"LINK_ACK"}) /\ ~Has(chan'[s], k, {"LINK_SUCCESS"})
      /\ ~Has(chan'[p], k, {"LINK_SUCCESS"})
  <2>1. {"LINK_ACK"} \subseteq LinkCmd /\ {"LINK_SUCCESS"} \subseteq LinkCmd
    BY DEF LinkCmd, Command
  <2>2. ~Has(chan[s], k, {"LINK_ACK"}) /\ ~Has(chan[s], k, {"LINK_SUCCESS"})
    BY <1>8, <2>1, NoCmd
  <2>3. ~Has(chan'[p], k, {"LINK_SUCCESS"})
    BY <1>4, <1>8 DEF Added, Appended
  <2>. QED  BY <1>4, <2>2, <2>3
<1>10. Got(s, k)' = <<>>
  BY <1>5, EmptySeq, ConcatEmptySeq DEF Got
<1>11. /\ PollAs("pending", TRUE, <<>>, events'[s][k], revents'[s][k])
       /\ AckAs(k, "pending", TRUE, chan'[s], chan'[p])
  BY <1>9 DEF PollAs, AckAs
<1>12. DataAs(k, "pending", <<>>, 0, nread[p][k], chan'[s])
  <2>1. Len(<<>>) = 0
    OBVIOUS
  <2>. QED  BY <1>9, <2>1 DEF DataAs
<1>13. AckAs(k, w, m_acknowledged[p][k], chan'[p], chan'[s])
  BY <1>8, EndOver
<1>14. DataAs(k, w, Got(p, k), nread[p][k], 0, chan'[p])
  <2>1. \A i \in 1 .. Len(Got(p, k)) : Got(p, k)[i] = i
    BY <1>7 DEF DataAs
  <2>. QED  BY <1>8, <1>9, <2>1, DataOver
<1>. QED  BY <1>1a, <1>5, <1>6, <1>10, <1>11, <1>12, <1>13, <1>14, StepFits DEF p, w

\* Poll reports POLLIN only where it is asked for.
LEMMA PollFits ==
  ASSUME TypeOK, DataFits, NEW s \in Side, PollSome(s)
  PROVE  DataFits'
<1>1. PICK t \in BOOLEAN, R \in [Key -> SUBSET PollEvent] : Poll(s, t, R)
  BY DEF PollSome
<1>2. /\ revents' = [revents EXCEPT ![s] = R]
      /\ UNCHANGED <<chan, linkState, m_acknowledged, m_buffer, events, nread, delivered>>
      /\ \A k \in Key : R[k] \subseteq IF linkState[s][k] = "open"
                                         THEN events[s][k] \cup {"POLLHUP"} ELSE {}
  BY <1>1 DEF Poll
<1>. SUFFICES ASSUME NEW u \in Side, NEW k \in Key  PROVE EndFits(u, k)'
  BY DEF DataFits
<1>3. EndFits(u, k)
  BY DEF DataFits
<1>4. revents'[u][k] = revents[u][k] \/ (u = s /\ revents'[u][k] = R[k])
  BY <1>2 DEF TypeOK
<1>5. PollAs(linkState[u][k], m_acknowledged[u][k], m_buffer[u][k], events[u][k],
             revents'[u][k])
  <2>1. CASE revents'[u][k] = revents[u][k]
    BY <1>3, <2>1 DEF EndFits
  <2>2. CASE u = s /\ revents'[u][k] = R[k]
    <3>1. linkState[u][k] = "open" /\ "POLLIN" \in R[k] => "POLLIN" \in events[u][k]
      BY <1>2, <2>2
    <3>. QED  BY <1>3, <2>2, <3>1 DEF EndFits, PollAs
  <2>. QED  BY <1>4, <2>1, <2>2
<1>. QED  BY <1>2, <1>3, <1>5 DEF EndFits, Got

\* A step that leaves links and packets alone.
LEMMA IdleFits ==
  ASSUME DataFits, UNCHANGED <<chan, linkState, m_acknowledged, m_buffer, events, revents,
                               nread, delivered>>
  PROVE  DataFits'
BY DEF DataFits, EndFits, Got

\* Every handler of a tunnel packet.
LEMMA ProcessFits ==
  ASSUME TypeOK, Orderly, DataFits, NEW s \in Side, NEW m \in Packet, Process(s, m)
  PROVE  DataFits'
BY ErrorFits, CreateOkFits, CreateFailFits, SuccessFits, ForgetFits, SendFits,
   SendForAckFits, AckFits DEF Process

\* Every step from an orderly state keeps the invariant of the ends.
LEMMA DataNext ==
  ASSUME TypeOK, Orderly, DataFits, [Next]_vars, NothingDangling'
  PROVE  DataFits'
<1>1. ASSUME NEW s \in Side, ProcessMessage(s)
      PROVE  DataFits'
  <2>. DEFINE m == Head(chan[s])
  <2>1. chan[s] \in Seq(Packet) /\ chan[s] # <<>> /\ Process(s, m)
    BY <1>1 DEF ProcessMessage, TypeOK
  <2>2. m \in Packet
    BY <2>1, HeadTailProperties
  <2>. HIDE DEF m
  <2>. QED  BY <2>1, <2>2, ProcessFits
<1>2. ASSUME NEW s \in Side, Exit(s)
      PROVE  DataFits'
  BY <1>2, IdleFits DEF Exit
<1>3. ASSUME NEW s \in Side, NEW k \in Key, Polled(s, k)
      PROVE  DataFits'
  <2>1. ASSUME NEW n \in 0 .. MaxChunks[k[1]], PolledLink(s, k, n)
        PROVE  DataFits'
    <3>1. n \in Nat
      OBVIOUS
    <3>. QED  BY <2>1, <3>1, BlocksFit
  <2>. QED  BY <1>2, <1>3, <2>1, EofFits DEF Polled, WriteThrows
<1>4. ASSUME NEW c \in Conns, AcceptThrows(c)
      PROVE  DataFits'
  BY <1>2, <1>4, ConstantsAssumption DEF AcceptThrows
<1>5. ASSUME NEW s \in Side, Signaled(s) \/ TunnelClosed(s)
      PROVE  DataFits'
  BY <1>2, <1>5 DEF Signaled, TunnelClosed
<1>6. CASE UNCHANGED vars
  BY <1>6, IdleFits DEF vars
<1>. QED  BY <1>1, <1>3, <1>4, <1>5, <1>6, AcceptFits, PollFits DEF Next

\* Before the first packet.
LEMMA DataInit == Init => DataInv
<1>. SUFFICES ASSUME Init, NEW s \in Side, NEW k \in Key PROVE EndFits(s, k)
  BY DEF DataInv, DataFits
<1>1. /\ linkState[s][k] = "absent" /\ chan[s] = <<>> /\ chan[Peer(s)] = <<>>
      /\ m_buffer[s][k] = <<>> /\ delivered[s][k] = <<>>
  BY PeerSide DEF Init
<1>2. Got(s, k) = <<>>
  BY <1>1, EmptySeq, ConcatEmptySeq DEF Got
<1>3. Len(<<>>) = 0 /\ ~Has(<<>>, k, {"LINK_SUCCESS"})
  BY DEF Has
<1>4. DataAs(k, "absent", <<>>, nread[s][k], nread[Peer(s)][k], <<>>)
  BY <1>3 DEF DataAs
<1>. QED  BY <1>1, <1>2, <1>4, EndOver DEF EndFits

(***************************************************************************)
(* The invariant of the ends holds as long as no link in use has been      *)
(* overwritten.                                                            *)
(***************************************************************************)
THEOREM DataInvCorrect == Spec => []DataInv
<1>1. IInv /\ DataInv /\ [Next]_vars => DataInv'
  <2>. SUFFICES ASSUME IInv, DataInv, [Next]_vars, NothingDangling'  PROVE DataFits'
    BY DEF DataInv
  <2>1. TypeOK
    BY DEF IInv
  <2>2. NothingDangling
    <3>. SUFFICES ASSUME NEW s \in Side, mode[s] = "dangling"  PROVE FALSE
      BY DEF NothingDangling
    <3>1. mode'[s] = "dangling"
      BY <2>1, StoppedStays DEF Running
    <3>. QED  BY <3>1 DEF NothingDangling
  <2>3. Orderly /\ DataFits
    BY <2>2 DEF IInv, DataInv
  <2>. QED  BY <2>1, <2>3, DataNext
<1>. QED  BY <1>1, InvCorrect, DataInit, PTL DEF Spec

(***************************************************************************)
(* The poll request of an open link asks for POLLOUT as long as there is   *)
(* unsent data, and for POLLIN once nothing is owed: no link goes to sleep *)
(* in the poller.                                                          *)
(***************************************************************************)
THEOREM PollsForWorkCorrect == Spec => []PollsForWork
<1>1. DataInv => PollsForWork
  BY DEF DataInv, DataFits, PollsForWork, EndFits, PollAs
<1>. QED  BY <1>1, DataInvCorrect, PTL

(***************************************************************************)
(* What an end has received is the beginning of what the other end has     *)
(* read from its socket, in order, for any amount of data.                 *)
(***************************************************************************)
THEOREM DataInOrderCorrect == Spec => []DataInOrder
<1>1. IInv /\ DataInv => DataInOrder
  <2>. SUFFICES ASSUME IInv, DataInv, NothingDangling, NEW s \in Side, NEW k \in Key
                PROVE  /\ \A i \in 1 .. Len(Got(s, k)) : Got(s, k)[i] = i
                       /\ (\A t \in Side : linkState[t][k] = "open")
                            => Len(Got(s, k)) <= nread[Peer(s)][k]
    BY DEF DataInOrder, Got
  <2>1. DataAs(k, linkState[s][k], Got(s, k), nread[s][k], nread[Peer(s)][k], chan[s])
    BY DEF DataInv, DataFits, EndFits
  <2>. QED  BY <2>1 DEF DataAs, Carries
<1>. QED  BY <1>1, InvCorrect, DataInvCorrect, PTL

\* How often a packet that is not followed by its like occurs in a FIFO.
LEMMA CountOnce ==
  ASSUME NEW q \in Seq(Packet), NEW k, NEW S, NoneAfter(q, k, S, S)
  PROVE  Count(q, k, S) = IF Has(q, k, S) THEN 1 ELSE 0
<1>. DEFINE I == {i \in 1 .. Len(q) : IsFor(q[i], k, S)}
<1>1. Len(q) \in Nat
  BY LenProperties
<1>2. CASE Has(q, k, S)
  <2>1. PICK i \in 1 .. Len(q) : IsFor(q[i], k, S)
    BY <1>2 DEF Has
  <2>2. ASSUME NEW j \in I  PROVE j = i
    <3>1. ~(i < j) /\ ~(j < i)
      BY <2>1 DEF NoneAfter
    <3>. QED  BY <1>1, <2>1, <3>1
  <2>3. I = {i}
    BY <2>1, <2>2
  <2>. QED  BY <1>2, <2>3, FS_Singleton DEF Count
<1>3. CASE ~Has(q, k, S)
  <2>1. I = {}
    BY <1>3 DEF Has
  <2>. QED  BY <1>3, <2>1, FS_EmptySet DEF Count
<1>. QED  BY <1>2, <1>3

(***************************************************************************)
(* ACK_PACKETS: between the two open ends of a link there is at most one   *)
(* packet that waits for its acknowledgement, or that acknowledgement.     *)
(***************************************************************************)
THEOREM StopAndWaitCorrect == Spec => []StopAndWait
<1>1. IInv /\ DataInv => StopAndWait
  <2>. SUFFICES ASSUME IInv, DataInv, NothingDangling, NEW s \in Side, NEW k \in Key,
                       linkState[s][k] = "open"
                PROVE  LET out == Count(chan[Peer(s)], k, {"LINK_SEND_FOR_ACK"})
                                    + Count(chan[s], k, {"LINK_ACK"})
                       IN  IF m_acknowledged[s][k] THEN out = 0
                           ELSE out = 1 \/ (out = 0 /\ Has(chan[s], k, {"LINK_CLOSE"}))
    BY DEF StopAndWait
  <2>. DEFINE a == Has(chan[Peer(s)], k, {"LINK_SEND_FOR_ACK"})
              b == Has(chan[s], k, {"LINK_ACK"})
              x == Count(chan[Peer(s)], k, {"LINK_SEND_FOR_ACK"})
              y == Count(chan[s], k, {"LINK_ACK"})
  <2>1. AckAs(k, "open", m_acknowledged[s][k], chan[s], chan[Peer(s)])
    BY DEF DataInv, DataFits, EndFits
  <2>2. chan[s] \in Seq(Packet) /\ chan[Peer(s)] \in Seq(Packet)
    BY PeerSide DEF IInv, TypeOK
  <2>3. x = IF a THEN 1 ELSE 0
    BY <2>1, <2>2, CountOnce DEF AckAs
  <2>4. y = IF b THEN 1 ELSE 0
    BY <2>1, <2>2, CountOnce DEF AckAs
  <2>5. /\ m_acknowledged[s][k] => ~a /\ ~b
        /\ ~m_acknowledged[s][k] => ~(a /\ b) /\ (a \/ b \/ Has(chan[s], k, {"LINK_CLOSE"}))
    BY <2>1 DEF AckAs
  <2>. HIDE DEF a, b, x, y
  <2>6. IF m_acknowledged[s][k] THEN x + y = 0
        ELSE x + y = 1 \/ (x + y = 0 /\ Has(chan[s], k, {"LINK_CLOSE"}))
    BY <2>3, <2>4, <2>5
  <2>. QED  BY <2>6 DEF x, y
<1>. QED  BY <1>1, InvCorrect, DataInvCorrect, PTL

===============================================================================
