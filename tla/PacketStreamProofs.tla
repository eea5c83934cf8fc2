-------------------------- MODULE PacketStreamProofs --------------------------
(***************************************************************************)
(* Proofs about PacketStream, for every set of bodies, every base, buffer  *)
(* size and bound: the reader never loses the boundaries between packets,  *)
(* its reads stay inside m_read_buf, and the two streams implement a FIFO  *)
(* of packets.                                                             *)
(*                                                                         *)
(* The inductive invariant says where the packets lie in the bytes that    *)
(* are written and not yet processed: there are positions, one for each    *)
(* packet, at which the bytes of these packets begin, each where the one   *)
(* before it ends; what follows the last of them is the beginning of the   *)
(* packet that is being written, or was when the sender ended.             *)
(***************************************************************************)
EXTENDS PacketStream, SequenceTheorems, TLAPS

(***************************************************************************)
(* The length of a packet.                                                 *)
(***************************************************************************)
\* Division by a positive number.
LEMMA DivMod ==
  ASSUME NEW n \in Nat, NEW d \in Nat \ {0}
  PROVE  /\ n \div d \in Nat /\ n % d \in 0 .. d - 1
         /\ n = (n \div d) * d + (n % d)
<1>1. n % d \in 0 .. d - 1
  OBVIOUS
<1>2. n = (n \div d) * d + (n % d)
  OBVIOUS
<1>3. n \div d \in Int
  OBVIOUS
<1>4. n \div d >= 0
  OBVIOUS
<1>. QED  BY <1>1, <1>2, <1>3, <1>4

\* What is below d * m becomes less than m.
LEMMA DivBound ==
  ASSUME NEW n \in Nat, NEW d \in Nat \ {0}, NEW m \in Nat, n < m * d
  PROVE  /\ n \div d \in Nat /\ n \div d < m /\ n % d \in Nat
         /\ n = (n \div d) * d + (n % d)
<1>1. /\ n \div d \in Nat /\ n % d \in Nat
      /\ n = (n \div d) * d + (n % d)
  BY DivMod
<1>. DEFINE q == n \div d
<1>. HIDE DEF q
<1>2. SUFFICES ASSUME q >= m  PROVE FALSE
  BY <1>1 DEF q
<1>3. q * d >= m * d
  BY <1>1, <1>2 DEF q
<1>. QED  BY <1>1, <1>3 DEF q

\* The four bytes of a length.
LEMMA BigEndianType ==
  ASSUME NEW n \in Nat
  PROVE  /\ BigEndian(n) \in Seq(Byte) /\ Len(BigEndian(n)) = 4
<1>. DEFINE n1 == n \div Base
            n2 == n1 \div Base
            n3 == n2 \div Base
<1>1. Base \in Nat \ {0}
  BY StreamAssumption
<1>2. n1 \in Nat /\ n % Base \in Byte
  BY <1>1, DivMod DEF Byte
<1>3. n2 \in Nat /\ n1 % Base \in Byte
  BY <1>1, <1>2, DivMod DEF Byte
<1>4. n3 \in Nat /\ n2 % Base \in Byte
  BY <1>1, <1>3, DivMod DEF Byte
<1>5. n3 % Base \in Byte
  BY <1>1, <1>4, DivMod DEF Byte
<1>6. BigEndian(n) = <<n3 % Base, n2 % Base, n1 % Base, n % Base>>
  BY DEF BigEndian
<1>. HIDE DEF n1, n2, n3, Byte
<1>. QED  BY <1>2, <1>3, <1>4, <1>5, <1>6

\* ntohl reads what htonl has written, if it fits into four bytes.
LEMMA LengthRead ==
  ASSUME NEW n \in Nat, n < Base * Base * Base * Base, NEW q,
         \A j \in 1 .. 4 : q[j] = BigEndian(n)[j]
  PROVE  ntohl(q) = n
<1>. DEFINE n1 == n \div Base
            n2 == n1 \div Base
            n3 == n2 \div Base
<1>1. Base \in Nat \ {0}
  BY StreamAssumption
<1>. DEFINE B2 == Base * Base
            B3 == B2 * Base
<1>2. B2 \in Nat /\ B3 \in Nat /\ B2 = Base * Base /\ B3 = B2 * Base /\ n < B3 * Base
  BY <1>1
<1>. HIDE DEF B2, B3
<1>3. n1 \in Nat /\ n1 < B3 /\ n % Base \in Nat /\ n = n1 * Base + (n % Base)
  BY ONLY n \in Nat, <1>1, <1>2, DivBound DEF n1
<1>. HIDE DEF n1
<1>4. n2 \in Nat /\ n2 < B2 /\ n1 % Base \in Nat /\ n1 = n2 * Base + (n1 % Base)
  BY ONLY <1>1, <1>2, <1>3, DivBound DEF n2
<1>. HIDE DEF n2
<1>5. n3 \in Nat /\ n3 < Base /\ n2 % Base \in Nat /\ n2 = n3 * Base + (n2 % Base)
  BY ONLY <1>1, <1>2, <1>4, DivBound DEF n3
<1>. HIDE DEF n3
<1>6. n3 % Base = n3
  BY <1>1, <1>5
<1>7. q[1] = n3 /\ q[2] = n2 % Base /\ q[3] = n1 % Base /\ q[4] = n % Base
  BY <1>6 DEF BigEndian, n1, n2, n3
<1>. DEFINE r2 == n2 % Base
            r1 == n1 % Base
            r0 == n % Base
<1>. HIDE DEF r0, r1, r2
<1>8. n = ((n3 * Base + r2) * Base + r1) * Base + r0
  <2>1. n = n1 * Base + r0 /\ n1 = n2 * Base + r1 /\ n2 = n3 * Base + r2
    BY <1>3, <1>4, <1>5 DEF r0, r1, r2
  <2>. QED  BY ONLY <2>1, Zenon
<1>9. n3 \in Nat /\ r2 \in Nat /\ r1 \in Nat /\ r0 \in Nat
  BY <1>3, <1>4, <1>5 DEF r0, r1, r2
<1>10. ((n3 * Base + r2) * Base + r1) * Base + r0
         = n3 * Base * Base * Base + r2 * Base * Base + r1 * Base + r0
  BY <1>1, <1>9
<1>. QED  BY <1>7, <1>8, <1>10 DEF ntohl, r0, r1, r2

\* A packet on the wire.
LEMMA WritePacketType ==
  ASSUME NEW b \in Bodies
  PROVE  /\ b \in Seq(Byte) /\ Len(b) \in Nat \ {0} /\ Len(b) <= MAX_LENGTH
         /\ WritePacket(b) \in Seq(Byte) /\ Len(WritePacket(b)) = Len(b) + 4
         /\ \A j \in 1 .. 4 : WritePacket(b)[j] = BigEndian(Len(b))[j]
         /\ \A j \in 1 .. Len(b) : WritePacket(b)[4 + j] = b[j]
<1>1. b \in Seq(Byte) /\ b # <<>> /\ Len(b) <= MAX_LENGTH
  BY StreamAssumption
<1>2. Len(b) \in Nat \ {0}
  BY <1>1, EmptySeq
<1>. DEFINE h == htonl(Len(b))
<1>3. h \in Seq(Byte) /\ Len(h) = 4 /\ h = BigEndian(Len(b))
  BY <1>2, BigEndianType DEF htonl
<1>4. WritePacket(b) = h \o b
  BY DEF WritePacket
<1>. HIDE DEF h, Byte
<1>5. /\ h \o b \in Seq(Byte) /\ Len(h \o b) = Len(h) + Len(b)
      /\ \A i \in 1 .. Len(h) + Len(b) :
           (h \o b)[i] = IF i <= Len(h) THEN h[i] ELSE b[i - Len(h)]
  BY <1>1, <1>3, ConcatProperties
<1>6. ASSUME NEW j \in 1 .. 4  PROVE WritePacket(b)[j] = BigEndian(Len(b))[j]
  BY <1>2, <1>3, <1>4, <1>5, <1>6
<1>7. ASSUME NEW j \in 1 .. Len(b)  PROVE WritePacket(b)[4 + j] = b[j]
  <2>1. 4 + j \in 1 .. 4 + Len(b) /\ ~(4 + j <= 4) /\ (4 + j) - 4 = j
    BY <1>2, <1>7
  <2>. QED  BY <1>3, <1>4, <1>5, <2>1
<1>8. Len(WritePacket(b)) = Len(b) + 4
  BY <1>2, <1>3, <1>4, <1>5
<1>. QED  BY <1>1, <1>2, <1>4, <1>5, <1>6, <1>7, <1>8

-------------------------------------------------------------------------------
(***************************************************************************)
(* Sequences.                                                              *)
(***************************************************************************)
\* A part of a sequence.
LEMMA PartOf ==
  ASSUME NEW S, NEW s \in Seq(S), NEW m \in Nat, NEW n \in Nat, m <= n, n <= Len(s)
  PROVE  /\ SubSeq(s, m + 1, n) \in Seq(S) /\ Len(SubSeq(s, m + 1, n)) = n - m
         /\ \A i \in 1 .. n - m : SubSeq(s, m + 1, n)[i] = s[m + i]
<1>1. Len(s) \in Nat /\ \A i \in 1 .. Len(s) : s[i] \in S
  BY LenProperties, ElementOfSeq
<1>2. \A i \in m + 1 .. n : s[i] \in S
  BY <1>1
<1>. DEFINE t == SubSeq(s, m + 1, n)
<1>3. /\ t \in Seq(S) /\ Len(t) = IF m + 1 <= n THEN n - (m + 1) + 1 ELSE 0
      /\ \A i \in 1 .. n - (m + 1) + 1 : t[i] = s[(m + 1) + i - 1]
  BY <1>2, SubSeqProperties
<1>. HIDE DEF t
<1>4. Len(t) = n - m
  BY <1>3
<1>5. ASSUME NEW i \in 1 .. n - m  PROVE t[i] = s[m + i]
  <2>1. i \in 1 .. n - (m + 1) + 1 /\ (m + 1) + i - 1 = m + i
    BY <1>5
  <2>. QED  BY <1>3, <2>1
<1>. QED  BY <1>3, <1>4, <1>5 DEF t

\* Bytes that go from one sequence to the end of another.
LEMMA Moved ==
  ASSUME NEW S, NEW a \in Seq(S), NEW s \in Seq(S), NEW n \in 0 .. Len(s)
  PROVE  (a \o SubSeq(s, 1, n)) \o SubSeq(s, n + 1, Len(s)) = a \o s
<1>. DEFINE x == SubSeq(s, 1, n)
            y == SubSeq(s, n + 1, Len(s))
<1>1. Len(s) \in Nat /\ n \in Nat /\ n <= Len(s) /\ Len(a) \in Nat
  BY LenProperties
<1>2. x \in Seq(S) /\ Len(x) = n /\ \A i \in 1 .. n : x[i] = s[i]
  <2>1. /\ SubSeq(s, 0 + 1, n) \in Seq(S) /\ Len(SubSeq(s, 0 + 1, n)) = n - 0
        /\ \A i \in 1 .. n - 0 : SubSeq(s, 0 + 1, n)[i] = s[0 + i]
    BY <1>1, PartOf
  <2>. QED  BY <1>1, <2>1
<1>3. y \in Seq(S) /\ Len(y) = Len(s) - n /\ \A i \in 1 .. Len(s) - n : y[i] = s[n + i]
  BY <1>1, PartOf
<1>. HIDE DEF x, y
<1>4. x \o y = s
  <2>1. /\ x \o y \in Seq(S) /\ Len(x \o y) = Len(s)
        /\ \A i \in 1 .. Len(x) + Len(y) :
             (x \o y)[i] = IF i <= Len(x) THEN x[i] ELSE y[i - Len(x)]
    BY <1>1, <1>2, <1>3, ConcatProperties
  <2>2. ASSUME NEW i \in 1 .. Len(s)  PROVE (x \o y)[i] = s[i]
    <3>1. (x \o y)[i] = IF i <= n THEN x[i] ELSE y[i - n]
      BY <1>1, <1>2, <1>3, <2>1, <2>2
    <3>2. CASE i <= n
      BY <1>1, <1>2, <2>2, <3>1, <3>2
    <3>3. CASE ~(i <= n)
      <4>1. i - n \in 1 .. Len(s) - n /\ n + (i - n) = i
        BY <1>1, <2>2, <3>3
      <4>. QED  BY <1>3, <3>1, <3>3, <4>1
    <3>. QED  BY <3>2, <3>3
  <2>. QED  BY <2>1, <2>2, SeqEqual
<1>5. (a \o x) \o y = a \o (x \o y)
  <2>1. x \in Seq(S) /\ y \in Seq(S)
    BY <1>2, <1>3
  <2>. QED  BY ONLY a \in Seq(S), <2>1, ConcatAssociative, SMTT(30)
<1>. QED  BY ONLY <1>4, <1>5, Zenon DEF x, y

-------------------------------------------------------------------------------
(***************************************************************************)
(* Packets in a sequence of bytes.                                         *)
(***************************************************************************)
\* Behind position x, q goes on with the first n bytes of p.
Agree(q, x, p, n) == \A j \in 1 .. n : q[x + j] = p[j]

\* The bytes of packet i of those in s.
Packet(s, i) == WritePacket(s[i])

\* q holds packets r + 1 to w of those in s, each of them from cut[i - 1] on, and behind
\* them nothing or a part of the next one.
Framed(cut, q, s, r, w) ==
  /\ cut \in [Nat -> Int]
  /\ cut[r] = 0
  /\ \A i \in r .. w - 1 : /\ cut[i + 1] = cut[i] + Len(Packet(s, i + 1))
                            /\ Agree(q, cut[i], Packet(s, i + 1), Len(Packet(s, i + 1)))
  /\ \A i, j \in r .. w : i <= j => cut[i] <= cut[j]
  /\ cut[w] <= Len(q)
  /\ cut[w] < Len(q) => /\ w < Len(s)
                        /\ Len(q) - cut[w] < Len(Packet(s, w + 1))
                        /\ Agree(q, cut[w], Packet(s, w + 1), Len(q) - cut[w])

\* The packets of a sequence of bodies.
LEMMA PacketType ==
  ASSUME NEW s \in Seq(Bodies), NEW i \in 1 .. Len(s)
  PROVE  /\ s[i] \in Bodies /\ s[i] \in Seq(Byte)
         /\ Len(s[i]) \in Nat \ {0} /\ Len(s[i]) <= MAX_LENGTH
         /\ Packet(s, i) \in Seq(Byte) /\ Len(Packet(s, i)) = Len(s[i]) + 4
         /\ \A j \in 1 .. 4 : Packet(s, i)[j] = BigEndian(Len(s[i]))[j]
         /\ \A j \in 1 .. Len(s[i]) : Packet(s, i)[4 + j] = s[i][j]
<1>1. s[i] \in Bodies
  BY ElementOfSeq
<1>. QED  BY <1>1, WritePacketType DEF Packet

\* What the reader finds first is the packet behind those it has received.
LEMMA FrontAgrees ==
  ASSUME NEW cut, NEW q \in Seq(Byte), NEW s \in Seq(Bodies), NEW r \in Nat,
         NEW w \in r .. Len(s), Framed(cut, q, s, r, w), q # <<>>
  PROVE  /\ r < Len(s)
         /\ r < w => Len(Packet(s, r + 1)) <= Len(q)
         /\ r = w => Len(q) < Len(Packet(s, r + 1))
         /\ \A j \in 1 .. Len(q) : j <= Len(Packet(s, r + 1)) => q[j] = Packet(s, r + 1)[j]
<1>1. Len(q) \in Nat \ {0} /\ Len(s) \in Nat /\ w \in Nat /\ r <= w /\ w <= Len(s)
  BY EmptySeq, LenProperties
<1>. DEFINE p == Packet(s, r + 1)
<1>2. CASE r < w
  <2>1. r + 1 \in 1 .. Len(s) /\ r \in r .. w - 1
    BY <1>1, <1>2
  <2>2. Len(p) \in Nat
    BY <2>1, PacketType
  <2>3. cut[r + 1] = 0 + Len(p) /\ Agree(q, 0, p, Len(p))
    BY <2>1 DEF Framed
  <2>4. cut[r + 1] <= cut[w] /\ cut[w] <= Len(q) /\ cut[w] \in Int
    <3>1. r + 1 \in r .. w /\ w \in r .. w /\ r + 1 <= w
      BY <1>1, <1>2
    <3>. QED  BY <1>1, <3>1 DEF Framed
  <2>. HIDE DEF p
  <2>5. Len(p) <= Len(q)
    BY <1>1, <2>2, <2>3, <2>4
  <2>6. ASSUME NEW j \in 1 .. Len(q), j <= Len(p)  PROVE q[j] = p[j]
    <3>1. j \in 1 .. Len(p) /\ 0 + j = j
      BY <2>2, <2>6
    <3>. QED  BY <2>3, <3>1 DEF Agree
  <2>. QED  BY <1>1, <1>2, <2>5, <2>6 DEF p
<1>3. CASE r = w
  <2>1. /\ w < Len(s) /\ Len(q) - 0 < Len(p) /\ Agree(q, 0, p, Len(q) - 0)
    <3>1. cut[w] = 0 /\ cut[w] < Len(q)
      BY <1>1, <1>3 DEF Framed
    <3>. QED  BY <1>3, <3>1 DEF Framed
  <2>. HIDE DEF p
  <2>2. ASSUME NEW j \in 1 .. Len(q)  PROVE q[j] = p[j]
    <3>1. j \in 1 .. Len(q) - 0 /\ 0 + j = j
      BY <1>1, <2>2
    <3>. QED  BY <2>1, <3>1 DEF Agree
  <2>. QED  BY <1>1, <1>3, <2>1, <2>2 DEF p
<1>. QED  BY <1>1, <1>2, <1>3

\* Another packet is queued.
LEMMA FrameSend ==
  ASSUME NEW cut, NEW q \in Seq(Byte), NEW s \in Seq(Bodies), NEW r \in Nat,
         NEW w \in r .. Len(s), Framed(cut, q, s, r, w), NEW b \in Bodies
  PROVE  Framed(cut, q, Append(s, b), r, w)
<1>. DEFINE t == Append(s, b)
<1>1. /\ Len(s) \in Nat /\ w \in Nat /\ w <= Len(s)
      /\ Len(t) = Len(s) + 1 /\ \A i \in 1 .. Len(s) : t[i] = s[i]
  BY LenProperties
<1>. HIDE DEF t
<1>2. \A i \in 1 .. Len(s) : Packet(t, i) = Packet(s, i)
  BY <1>1 DEF Packet
<1>3. ASSUME NEW i \in r .. w - 1  PROVE Packet(t, i + 1) = Packet(s, i + 1)
  <2>1. i + 1 \in 1 .. Len(s)
    BY <1>1, <1>3
  <2>. QED  BY <1>2, <2>1
<1>4. w < Len(s) => w < Len(t) /\ Packet(t, w + 1) = Packet(s, w + 1)
  <2>1. w < Len(s) => w + 1 \in 1 .. Len(s)
    BY <1>1
  <2>. QED  BY <1>1, <1>2, <2>1
<1>5. Framed(cut, q, t, r, w)
  BY <1>3, <1>4 DEF Framed
<1>. QED  BY <1>5 DEF t

\* write() takes bytes e + 1 to e + n of the packet that is being written.
LEMMA Grows ==
  ASSUME NEW q \in Seq(Byte), NEW p \in Seq(Byte), NEW e \in Nat, NEW n \in Nat,
         e + n <= Len(p), e <= Len(q), Agree(q, Len(q) - e, p, e)
  PROVE  LET u == q \o SubSeq(p, e + 1, e + n)
         IN  /\ u \in Seq(Byte) /\ Len(u) = Len(q) + n
             /\ \A i \in 1 .. Len(q) : u[i] = q[i]
             /\ Agree(u, Len(q) - e, p, e + n)
<1>. DEFINE y == SubSeq(p, e + 1, e + n)
            u == q \o y
<1>1. Len(q) \in Nat /\ Len(p) \in Nat
  BY LenProperties
<1>2. y \in Seq(Byte) /\ Len(y) = n /\ \A i \in 1 .. n : y[i] = p[e + i]
  <2>1. e + n \in Nat /\ e <= e + n /\ (e + n) - e = n
    OBVIOUS
  <2>. HIDE DEF Byte
  <2>2. /\ y \in Seq(Byte) /\ Len(y) = (e + n) - e
        /\ \A i \in 1 .. (e + n) - e : y[i] = p[e + i]
    BY <2>1, PartOf
  <2>. QED  BY <2>1, <2>2
<1>. HIDE DEF y, Byte
<1>3. /\ u \in Seq(Byte) /\ Len(u) = Len(q) + n
      /\ \A i \in 1 .. Len(q) + n : u[i] = IF i <= Len(q) THEN q[i] ELSE y[i - Len(q)]
  BY <1>2, ConcatProperties
<1>. HIDE DEF u
<1>4. \A i \in 1 .. Len(q) : u[i] = q[i]
  BY <1>1, <1>3
<1>5. ASSUME NEW j \in 1 .. e + n  PROVE u[(Len(q) - e) + j] = p[j]
  <2>1. CASE j <= e
    <3>1. j \in 1 .. e /\ (Len(q) - e) + j \in 1 .. Len(q)
      BY <1>1, <1>5, <2>1
    <3>. QED  BY <1>4, <3>1 DEF Agree
  <2>2. CASE ~(j <= e)
    <3>1. /\ (Len(q) - e) + j \in 1 .. Len(q) + n /\ ~((Len(q) - e) + j <= Len(q))
          /\ ((Len(q) - e) + j) - Len(q) = j - e /\ j - e \in 1 .. n /\ e + (j - e) = j
      BY <1>1, <1>5, <2>2
    <3>2. u[(Len(q) - e) + j] = y[j - e]
      BY <1>3, <3>1
    <3>. QED  BY <1>2, <3>1, <3>2
  <2>. QED  BY <2>1, <2>2
<1>6. Agree(u, Len(q) - e, p, e + n)
  BY <1>5 DEF Agree
<1>. QED  BY <1>3, <1>4, <1>6 DEF u, y

\* What a longer sequence begins with still lies where it was.
LEMMA StillAgrees ==
  ASSUME NEW q, NEW u, NEW l \in Nat, \A i \in 1 .. l : u[i] = q[i],
         NEW x \in Int, NEW p, NEW n \in Int, 0 <= x, x + n <= l, Agree(q, x, p, n)
  PROVE  Agree(u, x, p, n)
<1>1. ASSUME NEW j \in 1 .. n  PROVE u[x + j] = p[j]
  <2>1. x + j \in 1 .. l
    BY <1>1
  <2>. QED  BY <2>1 DEF Agree
<1>. QED  BY <1>1 DEF Agree

\* The complete packets of a sequence that grows.
LEMMA WholeOnes ==
  ASSUME NEW cut, NEW q \in Seq(Byte), NEW s \in Seq(Bodies), NEW r \in Nat,
         NEW w \in r .. Len(s), Framed(cut, q, s, r, w),
         NEW u, \A i \in 1 .. Len(q) : u[i] = q[i]
  PROVE  \A i \in r .. w - 1 : Agree(u, cut[i], Packet(s, i + 1), Len(Packet(s, i + 1)))
<1>1. /\ Len(q) \in Nat /\ Len(s) \in Nat /\ w \in Nat /\ w <= Len(s)
      /\ \A i \in Nat : cut[i] \in Int
  BY LenProperties DEF Framed
<1>2. SUFFICES ASSUME NEW i \in r .. w - 1
               PROVE  Agree(u, cut[i], Packet(s, i + 1), Len(Packet(s, i + 1)))
  OBVIOUS
<1>3. /\ i \in Nat /\ i + 1 \in 1 .. Len(s)
      /\ i \in r .. w /\ i + 1 \in r .. w /\ r \in r .. w /\ w \in r .. w /\ r <= i /\ i + 1 <= w
  BY <1>1
<1>. DEFINE p == Packet(s, i + 1)
<1>4. Len(p) \in Nat
  BY <1>3, PacketType
<1>5. /\ cut[i] \in Int /\ cut[w] \in Int /\ cut[w] <= Len(q)
      /\ cut[i + 1] = cut[i] + Len(p) /\ Agree(q, cut[i], p, Len(p))
  BY <1>1, <1>3 DEF Framed
<1>6. cut[r] <= cut[i] /\ cut[r] = 0 /\ cut[i + 1] <= cut[w]
  BY <1>3 DEF Framed
<1>. HIDE DEF p
<1>7. 0 <= cut[i] /\ cut[i] + Len(p) <= Len(q)
  BY <1>1, <1>4, <1>5, <1>6
<1>8. Agree(u, cut[i], p, Len(p))
  <2>. DEFINE l == Len(q)
              x == cut[i]
              n == Len(p)
  <2>1. /\ l \in Nat /\ x \in Int /\ n \in Int /\ 0 <= x /\ x + n <= l
        /\ \A j \in 1 .. l : u[j] = q[j]
        /\ Agree(q, x, p, n)
    BY <1>1, <1>4, <1>5, <1>7
  <2>. HIDE DEF l, x, n
  <2>2. Agree(u, x, p, n)
    BY ONLY <2>1, StillAgrees
  <2>. QED  BY <2>2 DEF x, n
<1>. QED  BY <1>8 DEF p

\* u holds k of the l bytes of packet w + 1 behind the first x, the packets before it.
Wrote(cut, u, s, r, w, l, x, k) ==
  /\ u \in Seq(Byte) /\ Len(u) = x + k
  /\ k < l => Framed(cut, u, s, r, w)
  /\ k = l => Framed([cut EXCEPT ![w + 1] = x + k], u, s, r, w + 1)

\* A write(): the packet is complete, or a longer part of it follows the others.
LEMMA FrameWrite ==
  ASSUME NEW cut, NEW q \in Seq(Byte), NEW s \in Seq(Bodies), NEW r \in Nat,
         NEW w \in r .. Len(s), Framed(cut, q, s, r, w), w < Len(s),
         NEW p \in Seq(Byte), p = Packet(s, w + 1),
         NEW x \in Int, x = cut[w], NEW e \in Nat, Len(q) = x + e,
         NEW n \in Nat, e + n <= Len(p), NEW v, v = q \o SubSeq(p, e + 1, e + n)
  PROVE  Wrote(cut, v, s, r, w, Len(p), x, e + n)
<1>. DEFINE u == q \o SubSeq(p, e + 1, e + n)
<1>1. Len(q) \in Nat /\ Len(s) \in Nat /\ w \in Nat /\ r <= w /\ w <= Len(s) /\ Len(p) \in Nat
  BY LenProperties
<1>2. cut \in [Nat -> Int] /\ \A i \in Nat : cut[i] \in Int
  BY DEF Framed
<1>3. /\ cut[r] = 0 /\ 0 <= x /\ \A i, j \in r .. w : i <= j => cut[i] <= cut[j]
      /\ \A i \in r .. w - 1 : cut[i + 1] = cut[i] + Len(Packet(s, i + 1))
  <2>1. r \in r .. w /\ w \in r .. w
    BY ONLY r \in Nat, <1>1
  <2>. QED  BY <1>1, <2>1 DEF Framed
<1>4. e <= Len(q) /\ Len(q) - e = x /\ Len(q) - x = e /\ (e # 0 => x < Len(q))
  BY ONLY <1>1, <1>3, x \in Int, e \in Nat, Len(q) = x + e
<1>5. Agree(q, Len(q) - e, p, e)
  <2>1. CASE e = 0
    BY <2>1 DEF Agree
  <2>2. CASE e # 0
    <3>1. x < Len(q)
      BY <1>4, <2>2
    <3>2. Agree(q, x, p, Len(q) - x)
      BY <3>1 DEF Framed
    <3>. QED  BY <1>4, <3>2
  <2>. QED  BY <2>1, <2>2
<1>6. /\ u \in Seq(Byte) /\ Len(u) = Len(q) + n
      /\ \A i \in 1 .. Len(q) : u[i] = q[i]
      /\ Agree(u, Len(q) - e, p, e + n)
  <2>1. q \in Seq(Byte) /\ p \in Seq(Byte) /\ e \in Nat /\ n \in Nat /\ e + n <= Len(p)
    OBVIOUS
  <2>. HIDE DEF Byte
  <2>. QED  BY ONLY <1>4, <1>5, <2>1, Grows
<1>. HIDE DEF u
<1>7. \A i \in r .. w - 1 : Agree(u, cut[i], Packet(s, i + 1), Len(Packet(s, i + 1)))
  BY <1>6, WholeOnes
<1>8. Len(u) = x + (e + n) /\ Agree(u, x, p, e + n)
  <2>1. Len(u) = x + (e + n)
    BY ONLY <1>1, <1>6, x \in Int, e \in Nat, n \in Nat, Len(q) = x + e
  <2>. QED  BY <1>4, <1>6, <2>1
<1>9. ASSUME e + n < Len(p)  PROVE Framed(cut, u, s, r, w)
  <2>1. x <= Len(u) /\ Len(u) - x = e + n
    BY ONLY <1>8, x \in Int, e \in Nat, n \in Nat
  <2>. QED  BY <1>2, <1>3, <1>7, <1>8, <1>9, <2>1 DEF Framed
<1>10. ASSUME e + n = Len(p)
       PROVE  Framed([cut EXCEPT ![w + 1] = x + (e + n)], u, s, r, w + 1)
  <2>. DEFINE new == [cut EXCEPT ![w + 1] = x + (e + n)]
  <2>1. /\ new \in [Nat -> Int] /\ new[w + 1] = x + (e + n)
        /\ \A i \in r .. w : new[i] = cut[i]
    BY ONLY r \in Nat, <1>1, <1>2, x \in Int, e \in Nat, n \in Nat
  <2>. HIDE DEF new
  <2>2. new[r] = 0
    <3>1. r \in r .. w
      BY ONLY r \in Nat, <1>1
    <3>. QED  BY ONLY <1>3, <2>1, <3>1
  <2>3. ASSUME NEW i \in r .. (w + 1) - 1
        PROVE  /\ new[i + 1] = new[i] + Len(Packet(s, i + 1))
               /\ Agree(u, new[i], Packet(s, i + 1), Len(Packet(s, i + 1)))
    <3>1. CASE i = w
      <4>1. new[w] = x
        BY <1>1, <2>1
      <4>. QED  BY <1>8, <1>10, <2>1, <3>1, <4>1
    <3>2. CASE i # w
      <4>1. i \in r .. w - 1 /\ i \in r .. w /\ i + 1 \in r .. w
        BY <1>1, <2>3, <3>2
      <4>. QED  BY <1>3, <1>7, <2>1, <4>1
    <3>. QED  BY <3>1, <3>2
  <2>4. ASSUME NEW i \in r .. w + 1, NEW j \in r .. w + 1, i <= j  PROVE new[i] <= new[j]
    <3>1. CASE j = w + 1
      <4>1. CASE i = w + 1
        BY ONLY <2>1, <3>1, <4>1, x \in Int, e \in Nat, n \in Nat
      <4>2. CASE i # w + 1
        <5>1. i \in r .. w /\ w \in r .. w /\ i <= w /\ i \in Nat
          BY <1>1, <2>4, <4>2
        <5>2. new[i] <= x /\ new[i] \in Int
          BY <1>2, <1>3, <2>1, <5>1
        <5>. QED  BY ONLY <2>1, <3>1, <5>2, x \in Int, e \in Nat, n \in Nat
      <4>. QED  BY <4>1, <4>2
    <3>2. CASE j # w + 1
      <4>1. i \in r .. w /\ j \in r .. w
        BY <1>1, <2>4, <3>2
      <4>2. cut[i] <= cut[j] /\ new[i] = cut[i] /\ new[j] = cut[j]
        BY <1>3, <2>1, <2>4, <4>1
      <4>. QED  BY <4>2
    <3>. QED  BY <3>1, <3>2
  <2>5. new[w + 1] <= Len(u) /\ ~(new[w + 1] < Len(u))
    BY ONLY <1>8, <2>1, x \in Int, e \in Nat, n \in Nat
  <2>6. Framed(new, u, s, r, w + 1)
    BY <2>1, <2>2, <2>3, <2>4, <2>5 DEF Framed
  <2>. QED  BY <2>6 DEF new
<1>11. v = u
  BY DEF u
<1>. QED  BY ONLY <1>6, <1>8, <1>9, <1>10, <1>11, Zenon DEF Wrote

\* Three sequences behind one another.
LEMMA Joined ==
  ASSUME NEW a \in Seq(Byte), NEW b \in Seq(Byte), NEW c \in Seq(Byte)
  PROVE  (a \o b) \o c = a \o (b \o c)
BY ConcatAssociative

\* What is left of q without its first packet, and where the others lie in it.
FirstTaken(cut, q, s, r, w) ==
  LET l == Len(Packet(s, r + 1))
      u == SubSeq(q, l + 1, Len(q))
      new == [i \in Nat |-> cut[i] - l]
  IN  /\ u \in Seq(Byte) /\ Len(u) = Len(q) - l
      /\ Framed(new, u, s, r + 1, w) /\ new[w] = cut[w] - l

\* The first packet is received.
LEMMA FrameNext ==
  ASSUME NEW cut, NEW q \in Seq(Byte), NEW s \in Seq(Bodies), NEW r \in Nat,
         NEW w \in r .. Len(s), Framed(cut, q, s, r, w), r < w
  PROVE  FirstTaken(cut, q, s, r, w)
<1>. DEFINE l == Len(Packet(s, r + 1))
            u == SubSeq(q, l + 1, Len(q))
            new == [i \in Nat |-> cut[i] - l]
<1>1. /\ Len(q) \in Nat /\ Len(s) \in Nat /\ w \in Nat /\ r + 1 <= w /\ w <= Len(s)
      /\ cut \in [Nat -> Int] /\ r + 1 \in 1 .. Len(s) /\ \A i \in Nat : cut[i] \in Int
  BY LenProperties DEF Framed
<1>2. l \in Nat
  BY <1>1, PacketType
<1>. HIDE DEF l
<1>3. /\ cut[r + 1] = l /\ \A i \in r + 1 .. w : i \in r .. w /\ l <= cut[i] /\ cut[i] <= cut[w]
      /\ cut[w] <= Len(q) /\ cut[w] \in Int
  <2>1. r \in r .. w - 1 /\ r + 1 \in r .. w /\ w \in r .. w
    BY <1>1
  <2>2. cut[r + 1] = cut[r] + l /\ cut[r] = 0
    BY <2>1 DEF Framed, l
  <2>3. ASSUME NEW i \in r + 1 .. w
        PROVE  i \in r .. w /\ cut[r + 1] <= cut[i] /\ cut[i] <= cut[w]
    <3>1. i \in r .. w /\ r + 1 <= i /\ i <= w
      BY <1>1, <2>3
    <3>. QED  BY <2>1, <3>1 DEF Framed
  <2>. QED  BY <1>1, <1>2, <2>2, <2>3 DEF Framed
<1>4. l <= Len(q)
  <2>1. w \in r + 1 .. w
    BY <1>1
  <2>. QED  BY <1>1, <1>2, <1>3, <2>1
<1>5. u \in Seq(Byte) /\ Len(u) = Len(q) - l /\ \A i \in 1 .. Len(q) - l : u[i] = q[l + i]
  <2>. HIDE DEF Byte
  <2>. QED  BY <1>1, <1>2, <1>4, PartOf, SMTT(30)
<1>6. /\ new \in [Nat -> Int] /\ \A i \in Nat : new[i] = cut[i] - l
  BY <1>1, <1>2, SMTT(30)
<1>. HIDE DEF u, new
<1>7. ASSUME NEW i \in r + 1 .. w, NEW p, NEW n \in Int, Agree(q, cut[i], p, n),
             cut[i] + n <= Len(q)
      PROVE  Agree(u, new[i], p, n)
  <2>1. cut[i] \in Int /\ l <= cut[i] /\ new[i] = cut[i] - l
    <3>1. i \in Nat
      BY <1>1, <1>7
    <3>. QED  BY <1>1, <1>3, <1>6, <1>7, <3>1
  <2>2. ASSUME NEW j \in 1 .. n  PROVE u[new[i] + j] = p[j]
    <3>1. new[i] + j \in 1 .. Len(q) - l /\ l + (new[i] + j) = cut[i] + j
      <4>. DEFINE z == cut[i]
      <4>1. z \in Int /\ l <= z /\ new[i] = z - l /\ z + n <= Len(q) /\ Len(q) \in Nat
        BY <1>1, <1>7, <2>1
      <4>. HIDE DEF z
      <4>2. (z - l) + j \in 1 .. Len(q) - l /\ l + ((z - l) + j) = z + j
        BY ONLY <1>2, n \in Int, j \in 1 .. n, <4>1
      <4>. QED  BY <4>1, <4>2 DEF z
    <3>2. q[cut[i] + j] = p[j]
      BY <1>7, <2>2 DEF Agree
    <3>. QED  BY <1>5, <3>1, <3>2
  <2>. QED  BY <2>2 DEF Agree
<1>8. new[r + 1] = 0
  BY <1>1, <1>2, <1>3, <1>6
<1>9. ASSUME NEW i \in r + 1 .. w - 1
      PROVE  /\ new[i + 1] = new[i] + Len(Packet(s, i + 1))
             /\ Agree(u, new[i], Packet(s, i + 1), Len(Packet(s, i + 1)))
  <2>. DEFINE p == Packet(s, i + 1)
  <2>1. /\ i \in r .. w - 1 /\ i \in r + 1 .. w /\ i + 1 \in r + 1 .. w /\ i \in Nat
        /\ i + 1 \in 1 .. Len(s)
    BY <1>1, <1>9
  <2>2. cut[i + 1] = cut[i] + Len(p) /\ Agree(q, cut[i], p, Len(p))
    BY <2>1 DEF Framed
  <2>3. Len(p) \in Nat
    BY <2>1, PacketType
  <2>. HIDE DEF p
  <2>4. cut[i] + Len(p) <= Len(q)
    <3>1. cut[i + 1] <= cut[w]
      BY ONLY <1>3, <2>1
    <3>2. cut[i] \in Int /\ cut[w] \in Int /\ cut[w] <= Len(q) /\ Len(q) \in Nat
      BY ONLY <1>1, <1>3, <2>1
    <3>. QED  BY ONLY <2>2, <2>3, <3>1, <3>2
  <2>5. Agree(u, new[i], p, Len(p))
    BY <1>7, <2>1, <2>2, <2>3, <2>4
  <2>6. new[i + 1] = new[i] + Len(p)
    BY <1>1, <1>2, <1>6, <2>1, <2>2, <2>3, SMTT(30)
  <2>. QED  BY <2>5, <2>6 DEF p
<1>10. ASSUME NEW i \in r + 1 .. w, NEW j \in r + 1 .. w, i <= j  PROVE new[i] <= new[j]
  <2>1. i \in Nat /\ j \in Nat /\ cut[i] <= cut[j]
    BY <1>1, <1>3, <1>10 DEF Framed
  <2>. QED  BY <1>1, <1>2, <1>6, <2>1, SMTT(30)
<1>11. /\ new[w] = cut[w] - l /\ new[w] <= Len(u) /\ Len(u) - new[w] = Len(q) - cut[w]
       /\ new[w] < Len(u) => cut[w] < Len(q)
       /\ Len(q) - cut[w] \in Int /\ cut[w] + (Len(q) - cut[w]) <= Len(q)
  <2>. DEFINE z == cut[w]
              y == new[w]
  <2>1. z \in Int /\ y = z - l /\ z <= Len(q)
    BY <1>1, <1>3, <1>6
  <2>. HIDE DEF z, y
  <2>2. /\ y = z - l /\ y <= Len(u) /\ Len(u) - y = Len(q) - z /\ (y < Len(u) => z < Len(q))
        /\ Len(q) - z \in Int /\ z + (Len(q) - z) <= Len(q)
    BY ONLY <1>2, <1>5, <2>1, Len(q) \in Nat, <1>1
  <2>. QED  BY <2>2 DEF y, z
<1>12. ASSUME new[w] < Len(u)
       PROVE  /\ w < Len(s) /\ Len(u) - new[w] < Len(Packet(s, w + 1))
              /\ Agree(u, new[w], Packet(s, w + 1), Len(u) - new[w])
  <2>1. cut[w] < Len(q) /\ w \in r + 1 .. w /\ Len(q) - cut[w] \in Int
        /\ cut[w] + (Len(q) - cut[w]) <= Len(q)
    BY <1>1, <1>11, <1>12
  <2>2. /\ w < Len(s) /\ Len(q) - cut[w] < Len(Packet(s, w + 1))
        /\ Agree(q, cut[w], Packet(s, w + 1), Len(q) - cut[w])
    BY <2>1 DEF Framed
  <2>3. Agree(u, new[w], Packet(s, w + 1), Len(q) - cut[w])
    BY <1>7, <2>1, <2>2
  <2>. QED  BY <1>11, <2>2, <2>3
<1>13. Framed(new, u, s, r + 1, w)
  BY <1>6, <1>8, <1>9, <1>10, <1>11, <1>12 DEF Framed
<1>. QED  BY <1>5, <1>11, <1>13 DEF l, u, new, FirstTaken

-------------------------------------------------------------------------------
(***************************************************************************)
(* The inductive invariant.                                                *)
(***************************************************************************)
\* The bytes that are written and not yet processed.
Stream == m_read_buf \o wire

\* They are the packets from the first that is not received to the last that is
\* written completely, and what is written of the next one.
Layout == \E cut \in [Nat -> Int] :
            /\ Framed(cut, Stream, sent, Len(received), whole)
            /\ sender # "cut" => Len(Stream) = cut[whole] + m_written

\* The queue of the WriteStream holds the packets that are not written completely.
Queued ==
  sender = "running" =>
    /\ Len(m_packet_queue) = Len(sent) - whole
    /\ \A i \in 1 .. Len(m_packet_queue) : m_packet_queue[i] = Packet(sent, whole + i)

\* m_read_buf holds less than the packet that is being read, and has room for it once
\* its length is known.
Reading ==
  LET p == Packet(sent, Len(received) + 1)
  IN  /\ reader # "badLength"
      /\ Len(received) <= whole
      /\ 4 <= m_read_size /\ Len(m_read_buf) <= m_read_size
      /\ m_read_buf # <<>> => Len(received) < Len(sent) /\ Len(m_read_buf) < Len(p)
      /\ Len(m_read_buf) >= 4 => Len(p) <= m_read_size

IInv == TypeOK /\ Layout /\ Queued /\ Reading

\* h is a and m bytes, t is n bytes more, y is the rest of the bytes q.
PartRead(S, a, m, n, h, t, y, q) ==
  /\ h \in Seq(S) /\ Len(h) = Len(a) + m /\ \A j \in 1 .. Len(a) + m : h[j] = q[j]
  /\ t \in Seq(S) /\ Len(t) = Len(a) + (m + n)
  /\ \A j \in 1 .. Len(a) + (m + n) : t[j] = q[j]
  /\ y \in Seq(S) /\ t \o y = q /\ y = SubSeq(q, Len(t) + 1, Len(q))

\* A read: n bytes behind the first m of what is on the wire.
LEMMA ReadPart ==
  ASSUME NEW S, NEW a \in Seq(S), NEW s \in Seq(S), NEW m \in Nat, NEW n \in Nat,
         m + n <= Len(s), NEW h, h = a \o SubSeq(s, 1, m),
         NEW t, t = h \o SubSeq(s, m + 1, m + n),
         NEW y, y = SubSeq(s, m + n + 1, Len(s)), NEW q, q = a \o s
  PROVE  PartRead(S, a, m, n, h, t, y, q)
<1>. DEFINE b == SubSeq(s, 1, m)
            c == SubSeq(s, m + 1, m + n)
<1>0. h = a \o b /\ t = h \o c
  OBVIOUS
<1>1. /\ Len(a) \in Nat /\ Len(s) \in Nat /\ m <= m + n /\ m + n \in Nat /\ m <= Len(s)
      /\ m \in Nat /\ n \in Nat /\ m + n <= Len(s)
  BY LenProperties
<1>2. b \in Seq(S) /\ Len(b) = m /\ \A j \in 1 .. m : b[j] = s[j]
  <2>1. /\ SubSeq(s, 0 + 1, m) \in Seq(S) /\ Len(SubSeq(s, 0 + 1, m)) = m - 0
        /\ \A i \in 1 .. m - 0 : SubSeq(s, 0 + 1, m)[i] = s[0 + i]
    BY <1>1, PartOf
  <2>. QED  BY <1>1, <2>1
<1>3. c \in Seq(S) /\ Len(c) = n /\ \A j \in 1 .. n : c[j] = s[m + j]
  <2>1. /\ c \in Seq(S) /\ Len(c) = (m + n) - m
        /\ \A i \in 1 .. (m + n) - m : c[i] = s[m + i]
    BY <1>1, PartOf
  <2>2. (m + n) - m = n
    OBVIOUS
  <2>. QED  BY <2>1, <2>2
<1>4. /\ y \in Seq(S) /\ Len(y) = Len(s) - (m + n)
      /\ \A j \in 1 .. Len(s) - (m + n) : y[j] = s[(m + n) + j]
  BY <1>1, PartOf
<1>5. /\ q \in Seq(S) /\ Len(q) = Len(a) + Len(s)
      /\ \A j \in 1 .. Len(a) + Len(s) : q[j] = IF j <= Len(a) THEN a[j] ELSE s[j - Len(a)]
  BY ConcatProperties
<1>. HIDE DEF b, c
<1>6. /\ h \in Seq(S) /\ Len(h) = Len(a) + m
      /\ \A j \in 1 .. Len(a) + m : h[j] = IF j <= Len(a) THEN a[j] ELSE b[j - Len(a)]
  <2>1. /\ a \o b \in Seq(S) /\ Len(a \o b) = Len(a) + Len(b)
        /\ \A j \in 1 .. Len(a) + Len(b) :
             (a \o b)[j] = IF j <= Len(a) THEN a[j] ELSE b[j - Len(a)]
    BY ONLY a \in Seq(S), <1>2, ConcatProperties
  <2>. QED  BY ONLY <1>0, <1>2, <2>1
<1>7. ASSUME NEW j \in 1 .. Len(a) + m  PROVE h[j] = q[j]
  <2>1. j \in 1 .. Len(a) + Len(s) /\ (~(j <= Len(a)) => j - Len(a) \in 1 .. m)
    BY <1>1, <1>7
  <2>. QED  BY <1>2, <1>5, <1>6, <1>7, <2>1
<1>8. /\ t \in Seq(S) /\ Len(t) = (Len(a) + m) + n
      /\ \A j \in 1 .. (Len(a) + m) + n :
           t[j] = IF j <= Len(a) + m THEN h[j] ELSE c[j - (Len(a) + m)]
  <2>1. h \in Seq(S) /\ c \in Seq(S)
    BY <1>3, <1>6
  <2>2. /\ h \o c \in Seq(S) /\ Len(h \o c) = Len(h) + Len(c)
        /\ \A j \in 1 .. Len(h) + Len(c) :
             (h \o c)[j] = IF j <= Len(h) THEN h[j] ELSE c[j - Len(h)]
    BY ONLY <2>1, ConcatProperties
  <2>3. Len(h) = Len(a) + m /\ Len(c) = n
    BY <1>3, <1>6
  <2>. QED  BY ONLY <1>0, <2>2, <2>3
<1>9. (Len(a) + m) + n = Len(a) + (m + n)
  BY <1>1
<1>10. ASSUME NEW j \in 1 .. Len(a) + (m + n)  PROVE t[j] = q[j]
  <2>1. CASE j <= Len(a) + m
    <3>1. j \in 1 .. Len(a) + m
      BY <1>1, <1>10, <2>1
    <3>. QED  BY <1>7, <1>8, <1>9, <2>1, <3>1
  <2>2. CASE ~(j <= Len(a) + m)
    <3>1. /\ j - (Len(a) + m) \in 1 .. n /\ m + (j - (Len(a) + m)) = j - Len(a)
          /\ ~(j <= Len(a)) /\ j \in 1 .. Len(a) + Len(s)
      BY <1>1, <1>10, <2>2
    <3>2. t[j] = s[j - Len(a)]
      BY <1>3, <1>8, <1>9, <2>2, <3>1
    <3>3. q[j] = s[j - Len(a)]
      BY <1>5, <3>1
    <3>. QED  BY <3>2, <3>3
  <2>. QED  BY <2>1, <2>2
<1>10a. /\ Len(t) = Len(a) + (m + n) /\ Len(y) = Len(s) - (m + n) /\ Len(q) = Len(a) + Len(s)
       /\ Len(t) \in Nat /\ Len(q) \in Nat
  BY ONLY <1>1, <1>4, <1>5, <1>8, <1>9
<1>11. y = SubSeq(q, Len(t) + 1, Len(q))
  <2>. DEFINE z == SubSeq(q, Len(t) + 1, Len(q))
  <2>1. Len(t) \in Nat /\ Len(q) \in Nat /\ Len(t) <= Len(q) /\ Len(q) - Len(t) = Len(s) - (m + n)
    BY ONLY <1>1, <1>5, <1>8
  <2>2. /\ z \in Seq(S) /\ Len(z) = Len(s) - (m + n)
        /\ \A j \in 1 .. Len(s) - (m + n) : z[j] = q[Len(t) + j]
    BY ONLY <1>5, <2>1, PartOf, SMTT(30)
  <2>. HIDE DEF z
  <2>3. ASSUME NEW j \in 1 .. Len(s) - (m + n)  PROVE y[j] = z[j]
    <3>1. /\ Len(t) + j \in 1 .. Len(a) + Len(s) /\ ~(Len(t) + j <= Len(a))
          /\ (Len(t) + j) - Len(a) = (m + n) + j
      BY ONLY <1>1, <1>8, <2>3
    <3>. QED  BY <1>4, <1>5, <2>2, <3>1
  <2>4. y = z
    BY <1>4, <2>2, <2>3, SeqEqual
  <2>. QED  BY <2>4 DEF z
<1>12. t \o y = q
  <2>1. /\ t \o y \in Seq(S) /\ Len(t \o y) = Len(q)
        /\ \A j \in 1 .. Len(t) + Len(y) :
             (t \o y)[j] = IF j <= Len(t) THEN t[j] ELSE y[j - Len(t)]
    <3>1. t \in Seq(S) /\ y \in Seq(S)
      BY <1>4, <1>8
    <3>2. /\ t \o y \in Seq(S) /\ Len(t \o y) = Len(t) + Len(y)
          /\ \A j \in 1 .. Len(t) + Len(y) :
               (t \o y)[j] = IF j <= Len(t) THEN t[j] ELSE y[j - Len(t)]
      BY ONLY <3>1, ConcatProperties
    <3>3. Len(t) + Len(y) = Len(q)
      BY ONLY <1>1, <1>4, <1>5, <1>8
    <3>. QED  BY <3>2, <3>3
  <2>2. ASSUME NEW j \in 1 .. Len(q)  PROVE (t \o y)[j] = q[j]
    <3>1. j \in 1 .. Len(t) + Len(y)
      BY ONLY <1>1, <1>10a, <2>2
    <3>2. CASE j <= Len(t)
      <4>1. j \in 1 .. Len(a) + (m + n)
        BY ONLY <1>1, <1>8, <2>2, <3>2
      <4>. QED  BY <1>10, <2>1, <3>1, <3>2, <4>1
    <3>3. CASE ~(j <= Len(t))
      <4>1. /\ j - Len(t) \in 1 .. Len(s) - (m + n) /\ ~(j <= Len(a))
            /\ (m + n) + (j - Len(t)) = j - Len(a) /\ j \in 1 .. Len(a) + Len(s)
        BY ONLY <1>1, <1>10a, <2>2, <3>3
      <4>2. (t \o y)[j] = s[j - Len(a)]
        BY <1>4, <2>1, <3>1, <3>3, <4>1
      <4>3. q[j] = s[j - Len(a)]
        BY <1>5, <4>1
      <4>. QED  BY <4>2, <4>3
    <3>. QED  BY <3>2, <3>3
  <2>. QED  BY <1>5, <2>1, <2>2, SeqEqual
<1>. QED  BY <1>4, <1>6, <1>7, <1>8, <1>9, <1>10, <1>11, <1>12 DEF PartRead

\* The types of the parts of the state that the steps below work with.
LEMMA Types ==
  ASSUME TypeOK
  PROVE  /\ m_read_buf \in Seq(Byte) /\ wire \in Seq(Byte) /\ Stream \in Seq(Byte)
         /\ sent \in Seq(Bodies) /\ whole \in 0 .. Len(sent) /\ received \in Seq(Seq(Byte))
         /\ m_packet_queue \in Seq(Seq(Byte))
         /\ Len(m_read_buf) \in Nat /\ Len(wire) \in Nat /\ Len(sent) \in Nat
         /\ Len(received) \in Nat /\ Len(m_packet_queue) \in Nat
         /\ m_read_size \in Nat /\ m_written \in Nat
         /\ Len(Stream) = Len(m_read_buf) + Len(wire)
         /\ \A j \in 1 .. Len(m_read_buf) : Stream[j] = m_read_buf[j]
<1>1. m_read_buf \in Seq(Byte) /\ wire \in Seq(Byte)
  BY DEF TypeOK
<1>. HIDE DEF Byte
<1>2. /\ Stream \in Seq(Byte) /\ Len(Stream) = Len(m_read_buf) + Len(wire)
      /\ \A j \in 1 .. Len(m_read_buf) + Len(wire) :
           Stream[j] = IF j <= Len(m_read_buf) THEN m_read_buf[j] ELSE wire[j - Len(m_read_buf)]
  BY ONLY <1>1, ConcatProperties DEF Stream
<1>3. Len(m_read_buf) \in Nat /\ Len(wire) \in Nat
  BY ONLY <1>1, LenProperties
<1>4. \A j \in 1 .. Len(m_read_buf) : Stream[j] = m_read_buf[j]
  BY ONLY <1>2, <1>3
<1>5. /\ sent \in Seq(Bodies) /\ whole \in 0 .. Len(sent) /\ received \in Seq(Seq(Byte))
      /\ m_packet_queue \in Seq(Seq(Byte)) /\ m_read_size \in Nat /\ m_written \in Nat
  BY DEF TypeOK
<1>6. Len(sent) \in Nat /\ Len(received) \in Nat /\ Len(m_packet_queue) \in Nat
  BY ONLY <1>5, LenProperties
<1>. QED  BY <1>1, <1>2, <1>3, <1>4, <1>5, <1>6

\* What the reader has before it: a part of the first packet that is not received.
LEMMA Front ==
  ASSUME IInv, Stream # <<>>
  PROVE  LET r == Len(received)
             p == Packet(sent, r + 1)
         IN  /\ r < Len(sent) /\ r + 1 \in 1 .. Len(sent)
             /\ r < whole => Len(p) <= Len(Stream)
             /\ r = whole => Len(Stream) < Len(p)
             /\ \A j \in 1 .. Len(Stream) : j <= Len(p) => Stream[j] = p[j]
<1>. DEFINE r == Len(received)
<1>1. PICK cut \in [Nat -> Int] : Framed(cut, Stream, sent, r, whole)
  BY DEF IInv, Layout
<1>2. /\ Stream \in Seq(Byte) /\ sent \in Seq(Bodies) /\ r \in Nat /\ whole \in r .. Len(sent)
      /\ Len(sent) \in Nat
  BY Types DEF IInv, Reading
<1>. HIDE DEF r, Byte
<1>3. /\ r < Len(sent)
      /\ r < whole => Len(Packet(sent, r + 1)) <= Len(Stream)
      /\ r = whole => Len(Stream) < Len(Packet(sent, r + 1))
      /\ \A j \in 1 .. Len(Stream) :
           j <= Len(Packet(sent, r + 1)) => Stream[j] = Packet(sent, r + 1)[j]
  BY ONLY Stream # <<>>, <1>1, <1>2, FrontAgrees
<1>4. r + 1 \in 1 .. Len(sent)
  BY ONLY <1>2, <1>3
<1>. QED  BY <1>3, <1>4 DEF r

\* Four bytes from the start of a packet hold its length.
LEMMA LengthOf ==
  ASSUME NEW s \in Seq(Bodies), NEW i \in 1 .. Len(s), NEW q,
         \A j \in 1 .. 4 : q[j] = Packet(s, i)[j]
  PROVE  ntohl(q) = Len(s[i])
<1>1. /\ Len(s[i]) \in Nat /\ Len(s[i]) <= MAX_LENGTH
      /\ \A j \in 1 .. 4 : Packet(s, i)[j] = BigEndian(Len(s[i]))[j]
  BY PacketType
<1>. DEFINE n == Len(s[i])
<1>. HIDE DEF n
<1>2. n \in Nat /\ n < Base * Base * Base * Base
  <2>1. /\ MAX_LENGTH \in Nat /\ MAX_LENGTH < Base * Base * Base * Base
        /\ Base * Base * Base * Base \in Int
    BY StreamAssumption
  <2>. DEFINE x == Base * Base * Base * Base
  <2>. HIDE DEF x
  <2>2. n < x
    BY <1>1, <2>1 DEF n, x
  <2>. QED  BY <1>1, <2>2 DEF n, x
<1>3. \A j \in 1 .. 4 : q[j] = BigEndian(n)[j]
  BY <1>1 DEF n
<1>4. ntohl(q) = n
  BY ONLY <1>2, <1>3, LengthRead
<1>. QED  BY <1>4 DEF n

\* What FillBody does: it takes the length that was sent, and either receives the
\* packet and leaves what is behind it, or only moves bytes to m_read_buf.
LEMMA BodyRead ==
  ASSUME IInv, NEW n \in Nat, FillBody(n)
  PROVE  LET r == Len(received)
             p == Packet(sent, r + 1)
         IN  /\ UNCHANGED <<sender, reader, m_packet_queue, m_written, pollout, sent, whole>>
             /\ r + 1 \in 1 .. Len(sent) /\ wire' \in Seq(Byte)
             /\ m_read_size' \in Nat /\ m_read_size <= m_read_size' /\ Len(p) <= m_read_size'
             /\ \/ /\ r < whole /\ received' = Append(received, sent[r + 1])
                   /\ m_read_buf' = <<>> /\ wire' = SubSeq(Stream, Len(p) + 1, Len(Stream))
                \/ /\ received' = received /\ m_read_buf' \in Seq(Byte)
                   /\ Len(m_read_buf') < Len(p) /\ Stream' = Stream
<1>. DEFINE r == Len(received)
            p == Packet(sent, r + 1)
            M == Missing
            head == m_read_buf \o SubSeq(wire, 1, M)
            length == ntohl(head)
            buf == head \o SubSeq(wire, M + 1, M + n)
            y == SubSeq(wire, M + n + 1, Len(wire))
<1>1. /\ wire # <<>> /\ M + n <= Len(wire) /\ wire' = y
      /\ UNCHANGED <<sender, m_packet_queue, m_written, pollout, sent, whole>>
      /\ IF length > MAX_LENGTH
         THEN reader' = "badLength"
         ELSE /\ Len(buf) <= length + 4
              /\ m_read_size' = Grown(length)
              /\ IF Len(buf) = length + 4
                 THEN /\ received' = Append(received, SubSeq(buf, 5, Len(buf)))
                      /\ m_read_buf' = <<>>
                 ELSE m_read_buf' = buf /\ UNCHANGED received
              /\ UNCHANGED reader
  BY DEF FillBody, Readable
<1>2. /\ m_read_buf \in Seq(Byte) /\ wire \in Seq(Byte) /\ Stream \in Seq(Byte)
      /\ sent \in Seq(Bodies) /\ Len(m_read_buf) \in Nat /\ Len(wire) \in Nat
      /\ Len(sent) \in Nat /\ r \in Nat /\ whole \in Nat /\ r <= whole /\ m_read_size \in Nat
      /\ Len(Stream) = Len(m_read_buf) + Len(wire)
  BY Types DEF IInv, Reading
<1>3. M \in Nat /\ 4 <= Len(m_read_buf) + M
  BY ONLY <1>2 DEF Missing
<1>. HIDE DEF M, r, y
<1>4. Stream # <<>> /\ Len(wire) > 0
  <2>1. Len(wire) \in Nat \ {0}
    BY ONLY <1>1, <1>2, EmptySeq
  <2>2. Len(Stream) # 0
    BY ONLY <1>2, <2>1
  <2>. QED  BY ONLY <2>1, <2>2, EmptySeq
<1>5. /\ r + 1 \in 1 .. Len(sent)
      /\ r = whole => Len(Stream) < Len(p)
      /\ \A j \in 1 .. Len(Stream) : j <= Len(p) => Stream[j] = p[j]
  BY <1>4, Front DEF r
<1>. HIDE DEF Byte
<1>6. /\ head \in Seq(Byte) /\ \A j \in 1 .. Len(m_read_buf) + M : head[j] = Stream[j]
      /\ buf \in Seq(Byte) /\ Len(buf) = Len(m_read_buf) + (M + n)
      /\ \A j \in 1 .. Len(m_read_buf) + (M + n) : buf[j] = Stream[j]
      /\ y \in Seq(Byte) /\ buf \o y = Stream /\ y = SubSeq(Stream, Len(buf) + 1, Len(Stream))
  <2>1. /\ m_read_buf \in Seq(Byte) /\ wire \in Seq(Byte) /\ M \in Nat /\ n \in Nat
        /\ M + n <= Len(wire)
    BY <1>1, <1>2, <1>3
  <2>. DEFINE q == m_read_buf \o wire
  <2>2. /\ head \in Seq(Byte) /\ \A j \in 1 .. Len(m_read_buf) + M : head[j] = q[j]
        /\ buf \in Seq(Byte) /\ Len(buf) = Len(m_read_buf) + (M + n)
        /\ \A j \in 1 .. Len(m_read_buf) + (M + n) : buf[j] = q[j]
        /\ y \in Seq(Byte) /\ buf \o y = q /\ y = SubSeq(q, Len(buf) + 1, Len(q))
    <3>1. /\ head = m_read_buf \o SubSeq(wire, 1, M)
          /\ buf = head \o SubSeq(wire, M + 1, M + n)
          /\ y = SubSeq(wire, M + n + 1, Len(wire))
          /\ q = m_read_buf \o wire
      BY DEF y
    <3>. HIDE DEF q, head, buf, y
    <3>2. PartRead(Byte, m_read_buf, M, n, head, buf, y, q)
      BY ONLY <2>1, <3>1, ReadPart
    <3>. QED  BY ONLY <3>2 DEF PartRead
  <2>3. q = Stream
    BY DEF Stream
  <2>. HIDE DEF q, head, buf, y
  <2>. QED  BY ONLY <2>2, <2>3, Zenon
<1>7. /\ sent[r + 1] \in Seq(Byte) /\ Len(sent[r + 1]) \in Nat \ {0}
      /\ Len(sent[r + 1]) <= MAX_LENGTH /\ Len(p) = Len(sent[r + 1]) + 4
      /\ \A j \in 1 .. Len(sent[r + 1]) : p[4 + j] = sent[r + 1][j]
  BY ONLY <1>2, <1>5, PacketType
<1>. HIDE DEF p, head, buf
<1>7a. Len(buf) \in Nat /\ Len(p) \in Nat /\ Len(buf) <= Len(Stream)
  BY ONLY <1>1, <1>2, <1>3, <1>6, <1>7, n \in Nat
<1>8. length = Len(sent[r + 1])
  <2>1. ASSUME NEW j \in 1 .. 4  PROVE head[j] = p[j]
    <3>1. /\ j \in 1 .. Len(m_read_buf) + M /\ j \in 1 .. Len(Stream) /\ j <= Len(p)
      BY ONLY <1>1, <1>2, <1>3, <1>7, <2>1, n \in Nat, SMTT(30)
    <3>. QED  BY ONLY <1>5, <1>6, <3>1
  <2>. QED  BY ONLY <1>2, <1>5, <2>1, LengthOf DEF p
<1>9. length + 4 = Len(p) /\ ~(length > MAX_LENGTH) /\ MAX_LENGTH \in Nat
  BY ONLY <1>7, <1>8, StreamAssumption
<1>. HIDE DEF length
<1>10. /\ m_read_size' \in Nat /\ m_read_size <= m_read_size' /\ Len(p) <= m_read_size'
       /\ Len(buf) <= Len(p) /\ reader' = reader
  <2>1. length \in Nat
    BY ONLY <1>7, <1>8
  <2>. QED  BY ONLY <1>1, <1>2, <1>9, <2>1 DEF Grown
<1>11. CASE Len(buf) = length + 4
  <2>1. received' = Append(received, SubSeq(buf, 5, Len(buf))) /\ m_read_buf' = <<>>
    BY ONLY <1>1, <1>9, <1>11
  <2>2. r < whole
    BY ONLY <1>1, <1>2, <1>3, <1>5, <1>6, <1>9, <1>11, n \in Nat
  <2>3. SubSeq(buf, 5, Len(buf)) = sent[r + 1]
    <3>. DEFINE b == sent[r + 1]
                z == SubSeq(buf, 5, Len(buf))
    <3>1. /\ Len(buf) \in Nat /\ 4 <= Len(buf) /\ Len(buf) - 4 = Len(b)
      BY ONLY <1>7, <1>9, <1>11
    <3>2. /\ z \in Seq(Byte) /\ Len(z) = Len(b) /\ \A i \in 1 .. Len(b) : z[i] = buf[4 + i]
      <4>1. PICK m \in Nat : m = 4
        OBVIOUS
      <4>2. buf \in Seq(Byte) /\ Len(buf) \in Nat /\ m <= Len(buf) /\ Len(buf) <= Len(buf)
        BY <1>6, <3>1, <4>1
      <4>3. /\ SubSeq(buf, m + 1, Len(buf)) \in Seq(Byte)
            /\ Len(SubSeq(buf, m + 1, Len(buf))) = Len(buf) - m
            /\ \A i \in 1 .. Len(buf) - m : SubSeq(buf, m + 1, Len(buf))[i] = buf[m + i]
        BY ONLY m \in Nat, <4>2, PartOf
      <4>. QED  BY ONLY <3>1, <4>1, <4>3
    <3>. HIDE DEF z
    <3>3. ASSUME NEW i \in 1 .. Len(b)  PROVE z[i] = b[i]
      <4>1. /\ 4 + i \in 1 .. Len(m_read_buf) + (M + n) /\ 4 + i \in 1 .. Len(Stream)
            /\ 4 + i <= Len(p)
        <5>1. /\ Len(buf) = Len(m_read_buf) + (M + n) /\ Len(p) = Len(buf) /\ Len(b) \in Nat
              /\ Len(p) = Len(b) + 4 /\ Len(buf) <= Len(Stream) /\ Len(Stream) \in Nat
          BY ONLY <1>2, <1>6, <1>7, <1>7a, <1>9, <1>11, SMTT(30)
        <5>2. 4 + i \in 1 .. Len(b) + 4 /\ 4 + i <= Len(b) + 4
          BY ONLY <3>3, <5>1
        <5>3. 4 + i \in 1 .. Len(Stream)
          BY ONLY <5>1, <5>2
        <5>. QED  BY ONLY <5>1, <5>2, <5>3
      <4>2. buf[4 + i] = Stream[4 + i]
        BY ONLY <1>6, <4>1
      <4>3. Stream[4 + i] = p[4 + i]
        BY ONLY <1>5, <4>1
      <4>4. p[4 + i] = b[i]
        BY ONLY <1>7, <3>3
      <4>. QED  BY ONLY <3>2, <3>3, <4>2, <4>3, <4>4
    <3>4. z = b
      <4>1. b \in Seq(Byte)
        BY ONLY <1>7
      <4>. HIDE DEF b
      <4>. QED  BY ONLY <3>2, <3>3, <4>1, SeqEqual
    <3>. QED  BY ONLY <3>4 DEF z
  <2>4. wire' = SubSeq(Stream, Len(p) + 1, Len(Stream)) /\ wire' \in Seq(Byte)
    BY ONLY <1>1, <1>6, <1>9, <1>11
  <2>. QED  BY ONLY <1>1, <1>5, <1>10, <2>1, <2>2, <2>3, <2>4 DEF r, p
<1>12. CASE Len(buf) # length + 4
  <2>1. m_read_buf' = buf /\ received' = received
    BY ONLY <1>1, <1>9, <1>12
  <2>2. Stream' = Stream
    BY ONLY <1>1, <1>6, <2>1 DEF Stream
  <2>3. Len(buf) < Len(p)
    BY ONLY <1>7a, <1>9, <1>10, <1>12
  <2>4. wire' \in Seq(Byte) /\ m_read_buf' \in Seq(Byte)
    BY ONLY <1>1, <1>6, <2>1
  <2>. QED  BY ONLY <1>1, <1>5, <1>10, <2>1, <2>2, <2>3, <2>4 DEF r, p
<1>. QED  BY <1>11, <1>12

-------------------------------------------------------------------------------
(***************************************************************************)
(* Each step keeps the invariant.                                          *)
(***************************************************************************)
\* Nothing is sent at the beginning.
LEMMA InitInv == Init => IInv
<1>. SUFFICES ASSUME Init  PROVE IInv
  OBVIOUS
<1>1. /\ sender = "running" /\ reader = "running" /\ m_packet_queue = <<>> /\ m_written = 0
      /\ pollout = FALSE /\ wire = <<>> /\ m_read_buf = <<>> /\ m_read_size = READ_SIZE
      /\ received = <<>> /\ sent = <<>> /\ whole = 0
  BY DEF Init
<1>2. READ_SIZE \in Nat /\ 4 <= READ_SIZE /\ MaxSends \in Nat
  BY StreamAssumption
<1>. HIDE DEF Byte
<1>3. /\ <<>> \in Seq(Byte) /\ <<>> \in Seq(Seq(Byte)) /\ <<>> \in Seq(Bodies)
      /\ Len(<<>>) = 0
  BY EmptySeq
<1>4. TypeOK
  <2>1. pollout \in BOOLEAN /\ sender \in {"running", "exited", "cut"}
        /\ reader \in {"running", "exited", "badLength", "misled"}
    BY ONLY <1>1, Zenon
  <2>2. Len(sent) <= MaxSends /\ whole \in 0 .. Len(sent) /\ m_written \in Nat
    BY ONLY <1>1, <1>2, <1>3
  <2>. QED  BY ONLY <1>1, <1>2, <1>3, <2>1, <2>2, Zenon DEF TypeOK
<1>5. Stream = <<>>
  BY ONLY <1>1, <1>3, ConcatEmptySeq DEF Stream
<1>6. Layout
  <2>. DEFINE cut == [i \in Nat |-> 0]
  <2>1. cut \in [Nat -> Int] /\ \A i \in Nat : cut[i] = 0
    OBVIOUS
  <2>. HIDE DEF cut
  <2>2. /\ \A i \in 0 .. 0 - 1 : FALSE
        /\ \A i \in 0 .. 0 : i = 0
        /\ cut[0] = 0
    BY ONLY <2>1
  <2>3. Framed(cut, <<>>, <<>>, 0, 0)
    BY ONLY <1>3, <2>1, <2>2 DEF Framed
  <2>. QED  BY ONLY <1>1, <1>3, <1>5, <2>1, <2>2, <2>3 DEF Layout
<1>7. Queued
  BY ONLY <1>1, <1>3 DEF Queued
<1>8. Reading
  BY ONLY <1>1, <1>2, <1>3 DEF Reading
<1>. QED  BY <1>4, <1>6, <1>7, <1>8 DEF IInv

\* CustomWriteStream::send.
LEMMA SendInv ==
  ASSUME IInv, NEW body \in Bodies, Send(body)
  PROVE  IInv'
<1>1. /\ sender = "running" /\ Len(sent) < MaxSends
      /\ sent' = Append(sent, body)
      /\ m_packet_queue' = Append(m_packet_queue, WritePacket(body))
      /\ pollout' = TRUE
      /\ UNCHANGED <<sender, reader, m_written, wire, m_read_buf, m_read_size, received, whole>>
  BY DEF Send, Queues
<1>2. /\ sent \in Seq(Bodies) /\ Len(sent) \in Nat /\ whole \in 0 .. Len(sent)
      /\ m_packet_queue \in Seq(Seq(Byte)) /\ Len(m_packet_queue) \in Nat
      /\ Stream \in Seq(Byte) /\ Len(received) \in Nat /\ Len(received) <= whole
      /\ MaxSends \in Nat
  BY Types, StreamAssumption DEF IInv, Reading
<1>3. WritePacket(body) \in Seq(Byte)
  BY WritePacketType
<1>4. TypeOK
  BY DEF IInv
<1>. HIDE DEF Byte
<1>5. /\ sent' \in Seq(Bodies) /\ Len(sent') = Len(sent) + 1
      /\ \A i \in 1 .. Len(sent) : sent'[i] = sent[i]
      /\ sent'[Len(sent) + 1] = body
  BY ONLY body \in Bodies, <1>1, <1>2
<1>6. /\ m_packet_queue' \in Seq(Seq(Byte)) /\ Len(m_packet_queue') = Len(m_packet_queue) + 1
      /\ \A i \in 1 .. Len(m_packet_queue) : m_packet_queue'[i] = m_packet_queue[i]
      /\ m_packet_queue'[Len(m_packet_queue) + 1] = WritePacket(body)
  BY ONLY <1>1, <1>2, <1>3
<1>7. TypeOK'
  <2>1. Len(sent') <= MaxSends /\ whole' \in 0 .. Len(sent')
    BY ONLY <1>1, <1>2, <1>5
  <2>. QED  BY ONLY <1>1, <1>4, <1>5, <1>6, <2>1 DEF TypeOK
<1>8. \A i \in 1 .. Len(sent) : Packet(sent', i) = Packet(sent, i)
  BY ONLY <1>5 DEF Packet
<1>9. Layout'
  <2>1. PICK cut \in [Nat -> Int] :
          /\ Framed(cut, Stream, sent, Len(received), whole)
          /\ sender # "cut" => Len(Stream) = cut[whole] + m_written
    BY DEF IInv, Layout
  <2>2. whole \in Len(received) .. Len(sent)
    BY ONLY <1>2
  <2>3. Framed(cut, Stream, sent', Len(received), whole)
    <3>1. Framed(cut, Stream, Append(sent, body), Len(received), whole)
      <4>. DEFINE r == Len(received)
      <4>1. /\ Framed(cut, Stream, sent, r, whole) /\ Stream \in Seq(Byte) /\ r \in Nat
            /\ sent \in Seq(Bodies) /\ whole \in r .. Len(sent)
        BY ONLY <1>2, <2>1, <2>2, Zenon
      <4>. HIDE DEF r, Stream
      <4>2. Framed(cut, Stream, Append(sent, body), r, whole)
        BY ONLY body \in Bodies, <4>1, FrameSend
      <4>. QED  BY ONLY <4>2 DEF r
    <3>. QED  BY ONLY <1>1, <3>1
  <2>4. Stream' = Stream
    BY ONLY <1>1, Zenon DEF Stream
  <2>5. Framed(cut, Stream', sent', Len(received'), whole')
    BY ONLY <1>1, <2>3, <2>4, Zenon
  <2>6. sender' # "cut" => Len(Stream') = cut[whole'] + m_written'
    BY ONLY <1>1, <2>1, <2>4, Zenon
  <2>7. cut \in [Nat -> Int]
    BY ONLY <2>1
  <2>. QED  BY ONLY <2>5, <2>6, <2>7, Zenon DEF Layout
<1>10. Queued'
  <2>1. /\ Len(m_packet_queue) = Len(sent) - whole
        /\ \A i \in 1 .. Len(m_packet_queue) : m_packet_queue[i] = Packet(sent, whole + i)
    BY <1>1 DEF IInv, Queued
  <2>2. Len(m_packet_queue') = Len(sent') - whole'
    BY ONLY <1>1, <1>2, <1>5, <1>6, <2>1
  <2>3. ASSUME NEW i \in 1 .. Len(m_packet_queue')
        PROVE  m_packet_queue'[i] = Packet(sent', whole + i)
    <3>1. CASE i \in 1 .. Len(m_packet_queue)
      <4>1. whole + i \in 1 .. Len(sent)
        BY ONLY <1>2, <2>1, <3>1
      <4>. QED  BY ONLY <1>6, <1>8, <2>1, <3>1, <4>1
    <3>2. CASE i \notin 1 .. Len(m_packet_queue)
      <4>1. i = Len(m_packet_queue) + 1 /\ whole + i = Len(sent) + 1
        BY ONLY <1>2, <1>6, <2>1, <2>3, <3>2
      <4>. QED  BY ONLY <1>5, <1>6, <4>1 DEF Packet
    <3>. QED  BY <3>1, <3>2
  <2>. QED  BY ONLY <1>1, <2>2, <2>3 DEF Queued
<1>11. Reading'
  <2>1. Len(received) < Len(sent) => /\ Len(received) < Len(sent')
                                     /\ Packet(sent', Len(received) + 1) = Packet(sent, Len(received) + 1)
    <3>1. Len(received) < Len(sent) => Len(received) + 1 \in 1 .. Len(sent)
      BY ONLY <1>2
    <3>2. Len(received) < Len(sent) => Len(received) < Len(sent')
      BY ONLY <1>2, <1>5
    <3>. QED  BY ONLY <1>8, <3>1, <3>2
  <2>2. Len(m_read_buf) >= 4 => m_read_buf # <<>>
    BY ONLY <1>4, EmptySeq
  <2>3. Reading
    BY DEF IInv
  <2>. QED  BY ONLY <1>1, <2>1, <2>2, <2>3 DEF Reading
<1>. QED  BY <1>7, <1>9, <1>10, <1>11 DEF IInv

\* WriteStream::empty.
LEMMA EmptyInv ==
  ASSUME IInv, NEW n \in Nat, Empty(n)
  PROVE  IInv'
<1>. DEFINE buf == Head(m_packet_queue)
            done == m_written + n = Len(buf)
            add == SubSeq(buf, m_written + 1, m_written + n)
            r == Len(received)
<1>1. /\ sender = "running" /\ m_packet_queue # <<>> /\ m_written + n <= Len(buf)
      /\ wire' = wire \o add
      /\ m_packet_queue' = IF done THEN Tail(m_packet_queue) ELSE m_packet_queue
      /\ m_written' = IF done THEN 0 ELSE m_written + n
      /\ whole' = IF done THEN whole + 1 ELSE whole
      /\ pollout' = (m_packet_queue' # <<>>)
      /\ UNCHANGED <<sender, reader, m_read_buf, m_read_size, received, sent>>
  BY DEF Empty
<1>2. /\ sent \in Seq(Bodies) /\ Len(sent) \in Nat /\ whole \in 0 .. Len(sent)
      /\ m_packet_queue \in Seq(Seq(Byte)) /\ Len(m_packet_queue) \in Nat
      /\ Stream \in Seq(Byte) /\ m_read_buf \in Seq(Byte) /\ wire \in Seq(Byte)
      /\ r \in Nat /\ r <= whole /\ m_written \in Nat
  BY Types DEF IInv, Reading
<1>3. /\ Len(m_packet_queue) = Len(sent) - whole
      /\ \A i \in 1 .. Len(m_packet_queue) : m_packet_queue[i] = Packet(sent, whole + i)
      /\ TypeOK /\ Reading
  BY <1>1 DEF IInv, Queued
<1>. HIDE DEF Byte, r
<1>4. /\ Len(m_packet_queue) > 0 /\ whole < Len(sent) /\ whole \in Nat
      /\ whole + 1 \in 1 .. Len(sent) /\ whole \in r .. Len(sent)
  <2>1. Len(m_packet_queue) \in Nat \ {0}
    BY ONLY <1>1, <1>2, EmptySeq
  <2>2. /\ whole \in Nat /\ whole <= Len(sent) /\ Len(sent) \in Nat /\ r \in Nat /\ r <= whole
        /\ Len(m_packet_queue) = Len(sent) - whole
    BY <1>2, <1>3
  <2>. QED  BY ONLY <2>1, <2>2
<1>5. buf = Packet(sent, whole + 1)
  <2>1. buf = m_packet_queue[1] /\ 1 \in 1 .. Len(m_packet_queue)
    BY ONLY <1>1, <1>2, <1>4
  <2>. QED  BY ONLY <1>3, <2>1
<1>6. buf \in Seq(Byte) /\ Len(buf) \in Nat
  BY ONLY <1>2, <1>4, <1>5, PacketType
<1>. HIDE DEF buf
<1>7. PICK cut \in [Nat -> Int] :
        /\ Framed(cut, Stream, sent, r, whole)
        /\ Len(Stream) = cut[whole] + m_written
  BY <1>1 DEF IInv, Layout, r
<1>8. cut[whole] \in Int
  BY ONLY <1>4, <1>7
<1>. DEFINE x == cut[whole]
            u == Stream \o add
            new == [cut EXCEPT ![whole + 1] = x + (m_written + n)]
<1>9. /\ u \in Seq(Byte) /\ Len(u) = x + (m_written + n)
      /\ m_written + n < Len(buf) => Framed(cut, u, sent, r, whole)
      /\ m_written + n = Len(buf) => Framed(new, u, sent, r, whole + 1)
  <2>1. x = cut[whole] /\ x \in Int /\ Len(Stream) = x + m_written
    BY ONLY <1>7, <1>8
  <2>2. /\ Stream \in Seq(Byte) /\ sent \in Seq(Bodies) /\ r \in Nat /\ whole \in r .. Len(sent)
        /\ Framed(cut, Stream, sent, r, whole) /\ whole < Len(sent) /\ m_written \in Nat
        /\ m_written + n <= Len(buf) /\ u = Stream \o SubSeq(buf, m_written + 1, m_written + n)
    BY <1>1, <1>2, <1>4, <1>7
  <2>. HIDE DEF x, u, Stream
  <2>3. Wrote(cut, u, sent, r, whole, Len(buf), x, m_written + n)
    BY ONLY n \in Nat, <1>5, <1>6, <2>1, <2>2, FrameWrite
  <2>. QED  BY ONLY <2>3 DEF Wrote
<1>10. add \in Seq(Byte)
  <2>1. m_written <= m_written + n /\ m_written + n \in Nat
    BY ONLY <1>2, n \in Nat
  <2>. QED  BY ONLY <1>1, <1>2, <1>6, <2>1, PartOf
<1>. HIDE DEF add
<1>11. u = m_read_buf \o (wire \o add) /\ Stream' = u /\ wire' \in Seq(Byte)
  <2>1. m_read_buf \in Seq(Byte) /\ wire \in Seq(Byte) /\ add \in Seq(Byte)
    BY ONLY <1>2, <1>10
  <2>2. (m_read_buf \o wire) \o add = m_read_buf \o (wire \o add)
    BY ONLY <2>1, Joined
  <2>3. wire \o add \in Seq(Byte)
    BY ONLY <2>1, ConcatProperties
  <2>. QED  BY ONLY <1>1, <2>2, <2>3, Zenon DEF Stream
<1>12. /\ new \in [Nat -> Int] /\ new[whole + 1] = x + (m_written + n)
  <2>1. x \in Int /\ m_written \in Nat /\ whole \in Nat
    BY ONLY <1>2, <1>4, <1>8
  <2>. HIDE DEF x
  <2>2. whole + 1 \in Nat /\ x + (m_written + n) \in Int
    BY ONLY n \in Nat, <2>1
  <2>. QED  BY ONLY <1>7, <2>2
<1>. HIDE DEF u, new
<1>13. Reading'
  <2>1. Len(received) <= whole' /\ whole' \in 0 .. Len(sent)
    BY ONLY <1>1, <1>2, <1>4 DEF r
  <2>. QED  BY ONLY <1>1, <1>3, <2>1 DEF Reading
<1>14. CASE done
  <2>1. /\ m_packet_queue' = Tail(m_packet_queue) /\ m_written' = 0 /\ whole' = whole + 1
    BY ONLY <1>1, <1>14
  <2>2. /\ m_packet_queue' \in Seq(Seq(Byte)) /\ Len(m_packet_queue') = Len(m_packet_queue) - 1
        /\ \A i \in 1 .. Len(m_packet_queue') : m_packet_queue'[i] = m_packet_queue[i + 1]
    BY ONLY <1>1, <1>2, <2>1, HeadTailProperties
  <2>3. TypeOK'
    <3>1. m_written' \in Nat /\ whole' \in 0 .. Len(sent)
      BY ONLY <1>4, <1>2, <2>1
    <3>2. pollout' \in BOOLEAN
      BY ONLY <1>1, Zenon
    <3>. QED  BY ONLY <1>1, <1>3, <1>11, <2>2, <3>1, <3>2 DEF TypeOK
  <2>4. Layout'
    <3>1. Framed(new, Stream', sent', Len(received'), whole')
      BY ONLY <1>1, <1>9, <1>11, <1>14, <2>1, Zenon DEF r
    <3>2. Len(Stream') = new[whole'] + m_written'
      <4>1. x + (m_written + n) = (x + (m_written + n)) + 0
        BY ONLY <1>2, <1>8, n \in Nat
      <4>. QED  BY ONLY <1>9, <1>11, <1>12, <2>1, <4>1, Zenon
    <3>. QED  BY ONLY <1>12, <3>1, <3>2, Zenon DEF Layout
  <2>5. Queued'
    <3>1. Len(m_packet_queue') = Len(sent') - whole'
      <4>1. /\ Len(m_packet_queue') = Len(m_packet_queue) - 1 /\ sent' = sent /\ whole' = whole + 1
            /\ Len(m_packet_queue) = Len(sent) - whole /\ whole \in Nat /\ Len(sent) \in Nat
        BY <1>1, <1>2, <1>3, <2>1, <2>2
      <4>. QED  BY ONLY <4>1
    <3>2. ASSUME NEW i \in 1 .. Len(m_packet_queue')
          PROVE  m_packet_queue'[i] = Packet(sent', whole' + i)
      <4>1. i + 1 \in 1 .. Len(m_packet_queue) /\ whole + (i + 1) = (whole + 1) + i
        BY ONLY <1>2, <2>2, <3>2
      <4>2. m_packet_queue'[i] = Packet(sent, whole + (i + 1))
        BY ONLY <1>3, <2>2, <3>2, <4>1
      <4>. QED  BY ONLY <1>1, <2>1, <4>1, <4>2
    <3>. QED  BY ONLY <3>1, <3>2 DEF Queued
  <2>. QED  BY <1>13, <2>3, <2>4, <2>5 DEF IInv
<1>15. CASE ~done
  <2>1. /\ m_packet_queue' = m_packet_queue /\ m_written' = m_written + n /\ whole' = whole
    BY ONLY <1>1, <1>15
  <2>2. TypeOK'
    <3>1. m_written' \in Nat
      BY ONLY <1>2, <2>1, n \in Nat
    <3>2. pollout' \in BOOLEAN
      BY ONLY <1>1, Zenon
    <3>. QED  BY ONLY <1>1, <1>3, <1>11, <2>1, <3>1, <3>2 DEF TypeOK
  <2>3. Layout'
    <3>1. m_written + n < Len(buf)
      BY ONLY <1>1, <1>2, <1>6, <1>15, n \in Nat
    <3>2. Framed(cut, Stream', sent', Len(received'), whole')
      BY ONLY <1>1, <1>9, <1>11, <2>1, <3>1, Zenon DEF r
    <3>3. Len(Stream') = cut[whole'] + m_written'
      BY ONLY <1>9, <1>11, <2>1, Zenon
    <3>. QED  BY ONLY <1>7, <3>2, <3>3, Zenon DEF Layout
  <2>4. Queued'
    BY ONLY <1>1, <1>3, <2>1 DEF Queued
  <2>. QED  BY <1>13, <2>2, <2>3, <2>4 DEF IInv
<1>. QED  BY <1>14, <1>15

\* ReadStream::fill while the length is not complete.
LEMMA HeaderInv ==
  ASSUME IInv, NEW n \in 1 .. 3, FillHeader(n)
  PROVE  IInv'
<1>. DEFINE r == Len(received)
            x == SubSeq(wire, 1, n)
            y == SubSeq(wire, n + 1, Len(wire))
<1>1. /\ n \in 1 .. Len(wire) /\ Len(m_read_buf) + n < 4 /\ wire # <<>>
      /\ m_read_buf' = m_read_buf \o x /\ wire' = y
      /\ UNCHANGED <<sender, reader, m_packet_queue, m_written, pollout, m_read_size, received,
                     sent, whole>>
  BY DEF FillHeader, Readable
<1>2. /\ m_read_buf \in Seq(Byte) /\ wire \in Seq(Byte) /\ sent \in Seq(Bodies)
      /\ Len(m_read_buf) \in Nat /\ Len(wire) \in Nat /\ Len(Stream) = Len(m_read_buf) + Len(wire)
      /\ TypeOK /\ Queued /\ Layout /\ Reading
  BY Types DEF IInv
<1>. HIDE DEF Byte
<1>3. n \in 0 .. Len(wire) /\ 0 <= n /\ n \in Nat /\ n <= Len(wire) /\ Len(wire) <= Len(wire)
  BY ONLY <1>1, <1>2
<1>4. x \in Seq(Byte) /\ Len(x) = n
  <2>1. PICK m \in Nat : m = 0
    OBVIOUS
  <2>2. SubSeq(wire, m + 1, n) \in Seq(Byte) /\ Len(SubSeq(wire, m + 1, n)) = n - m
    BY ONLY m \in Nat, <1>2, <1>3, <2>1, PartOf
  <2>. QED  BY ONLY <1>3, <2>1, <2>2
<1>5. y \in Seq(Byte)
  BY ONLY <1>2, <1>3, PartOf
<1>6. (m_read_buf \o x) \o y = m_read_buf \o wire
  BY ONLY <1>2, <1>3, Moved
<1>. HIDE DEF x, y
<1>7. /\ m_read_buf' \in Seq(Byte) /\ Len(m_read_buf') = Len(m_read_buf) + n
  <2>1. m_read_buf \o x \in Seq(Byte) /\ Len(m_read_buf \o x) = Len(m_read_buf) + Len(x)
    BY ONLY <1>2, <1>4, ConcatProperties
  <2>. QED  BY ONLY <1>1, <1>4, <2>1
<1>8. Stream' = Stream
  BY ONLY <1>1, <1>6, Zenon DEF Stream
<1>9. TypeOK'
  BY ONLY <1>1, <1>2, <1>5, <1>7 DEF TypeOK
<1>10. Queued'
  BY ONLY <1>1, <1>2 DEF Queued
<1>11. Layout'
  BY ONLY <1>1, <1>2, <1>8 DEF Layout
<1>12. r < Len(sent) /\ r + 1 \in 1 .. Len(sent)
  <2>1. Stream # <<>>
    BY ONLY <1>1, <1>2, <1>3, EmptySeq
  <2>. QED  BY <2>1, Front
<1>13. 4 < Len(Packet(sent, r + 1))
  <2>1. Len(sent[r + 1]) \in Nat \ {0} /\ Len(Packet(sent, r + 1)) = Len(sent[r + 1]) + 4
    BY ONLY <1>2, <1>12, PacketType
  <2>. QED  BY ONLY <2>1
<1>14. Reading'
  <2>1. Len(m_read_buf') < 4 /\ Len(m_read_buf') \in Nat
    BY ONLY <1>1, <1>2, <1>3, <1>7
  <2>2. /\ reader # "badLength" /\ Len(received) <= whole /\ 4 <= m_read_size /\ m_read_size \in Nat
    BY ONLY <1>2 DEF Reading, TypeOK
  <2>3. Len(m_read_buf') <= m_read_size
    BY ONLY <2>1, <2>2
  <2>4. Len(m_read_buf') < Len(Packet(sent, r + 1)) /\ ~(Len(m_read_buf') >= 4)
    <3>1. Len(Packet(sent, r + 1)) \in Nat
      BY ONLY <1>2, <1>12, PacketType
    <3>. QED  BY ONLY <1>13, <2>1, <3>1
  <2>. QED  BY ONLY <1>1, <1>12, <2>2, <2>3, <2>4 DEF Reading
<1>. QED  BY <1>9, <1>10, <1>11, <1>14 DEF IInv

\* ReadStream::fill once the length is complete.
LEMMA BodyInv ==
  ASSUME IInv, NEW n \in Nat, FillBody(n)
  PROVE  IInv'
<1>. DEFINE r == Len(received)
            p == Packet(sent, r + 1)
            got == /\ r < whole /\ received' = Append(received, sent[r + 1])
                   /\ m_read_buf' = <<>> /\ wire' = SubSeq(Stream, Len(p) + 1, Len(Stream))
            moved == /\ received' = received /\ m_read_buf' \in Seq(Byte)
                     /\ Len(m_read_buf') < Len(p) /\ Stream' = Stream
<1>1. /\ UNCHANGED <<sender, reader, m_packet_queue, m_written, pollout, sent, whole>>
      /\ r + 1 \in 1 .. Len(sent) /\ wire' \in Seq(Byte)
      /\ m_read_size' \in Nat /\ m_read_size <= m_read_size' /\ Len(p) <= m_read_size'
      /\ got \/ moved
  BY BodyRead
<1>2. /\ sent \in Seq(Bodies) /\ Len(sent) \in Nat /\ whole \in 0 .. Len(sent)
      /\ Stream \in Seq(Byte) /\ received \in Seq(Seq(Byte)) /\ m_written \in Nat
      /\ r \in Nat /\ r <= whole /\ m_read_size \in Nat /\ 4 <= m_read_size
      /\ TypeOK /\ Queued /\ Layout /\ Reading
  BY Types DEF IInv, Reading
<1>. HIDE DEF Byte
<1>3. /\ sent[r + 1] \in Seq(Byte) /\ Len(p) \in Nat
  BY ONLY <1>1, <1>2, PacketType
<1>4. reader' # "badLength" /\ Queued'
  BY ONLY <1>1, <1>2 DEF Reading, Queued
<1>5. CASE got
  <2>1. received' \in Seq(Seq(Byte)) /\ Len(received') = r + 1
    BY ONLY <1>2, <1>3, <1>5
  <2>2. <<>> \in Seq(Byte) /\ Len(<<>>) = 0
    BY ONLY EmptySeq
  <2>3. TypeOK'
    BY ONLY <1>1, <1>2, <1>5, <2>1, <2>2 DEF TypeOK
  <2>4. Stream' = SubSeq(Stream, Len(p) + 1, Len(Stream))
    BY ONLY <1>1, <1>5, ConcatEmptySeq DEF Stream
  <2>5. PICK cut \in [Nat -> Int] :
          /\ Framed(cut, Stream, sent, r, whole)
          /\ sender # "cut" => Len(Stream) = cut[whole] + m_written
    BY <1>2 DEF Layout
  <2>. DEFINE new == [i \in Nat |-> cut[i] - Len(p)]
              u == SubSeq(Stream, Len(p) + 1, Len(Stream))
  <2>6. /\ Len(u) = Len(Stream) - Len(p)
        /\ Framed(new, u, sent, r + 1, whole) /\ new[whole] = cut[whole] - Len(p)
    <3>1. whole \in r .. Len(sent) /\ r < whole
      BY ONLY <1>2, <1>5
    <3>. HIDE DEF r, Stream
    <3>2. FirstTaken(cut, Stream, sent, r, whole)
      BY ONLY <1>2, <2>5, <3>1, FrameNext
    <3>. QED  BY ONLY <3>2 DEF FirstTaken
  <2>. HIDE DEF u, p
  <2>7. new \in [Nat -> Int] /\ cut[whole] \in Int /\ Len(Stream) \in Nat
    <3>1. whole \in Nat /\ \A i \in Nat : cut[i] - Len(p) \in Int
      BY ONLY <1>2, <1>3, <2>5
    <3>2. Len(Stream) \in Nat
      BY ONLY <1>2, LenProperties
    <3>. QED  BY ONLY <2>5, <3>1, <3>2
  <2>. HIDE DEF new
  <2>8. Layout'
    <3>1. Framed(new, Stream', sent', Len(received'), whole')
      BY ONLY <1>1, <2>1, <2>4, <2>6, Zenon DEF u
    <3>2. sender' # "cut" => Len(Stream') = new[whole'] + m_written'
      <4>. DEFINE z == cut[whole]
      <4>1. /\ z \in Int /\ Len(Stream) \in Nat /\ Len(Stream') = Len(Stream) - Len(p)
            /\ new[whole] = z - Len(p) /\ (sender # "cut" => Len(Stream) = z + m_written)
        BY ONLY <2>4, <2>5, <2>6, <2>7 DEF u
      <4>. HIDE DEF z
      <4>2. sender # "cut" => Len(Stream') = (z - Len(p)) + m_written
        BY ONLY <1>2, <1>3, <4>1
      <4>. QED  BY ONLY <1>1, <4>1, <4>2
    <3>. QED  BY ONLY <2>7, <3>1, <3>2, Zenon DEF Layout
  <2>9. Reading'
    <3>1. /\ Len(received') <= whole' /\ 4 <= m_read_size' /\ Len(m_read_buf') <= m_read_size'
          /\ ~(Len(m_read_buf') >= 4)
      BY ONLY <1>1, <1>2, <1>5, <2>1, <2>2
    <3>. QED  BY ONLY <1>4, <1>5, <3>1 DEF Reading
  <2>. QED  BY <1>4, <2>3, <2>8, <2>9 DEF IInv
<1>6. CASE moved
  <2>1. TypeOK'
    BY ONLY <1>1, <1>2, <1>6 DEF TypeOK
  <2>2. Layout'
    BY ONLY <1>1, <1>2, <1>6 DEF Layout
  <2>3. Reading'
    <3>1. Len(m_read_buf') \in Nat
      BY ONLY <1>6, LenProperties
    <3>2. 4 <= m_read_size' /\ Len(m_read_buf') <= m_read_size' /\ Len(received') <= whole'
          /\ Len(received') < Len(sent')
      BY ONLY <1>1, <1>2, <1>3, <1>6, <3>1
    <3>. QED  BY ONLY <1>1, <1>4, <1>6, <3>2 DEF Reading
  <2>. QED  BY <1>4, <2>1, <2>2, <2>3 DEF IInv
<1>. QED  BY <1>1, <1>5, <1>6

\* The invariant is inductive.
LEMMA NextInv ==
  ASSUME IInv, [Next]_vars
  PROVE  IInv'
<1>1. ASSUME NEW body \in Bodies, Send(body)  PROVE IInv'
  BY <1>1, SendInv
<1>2. ASSUME Write  PROVE IInv'
  <2>1. PICK n \in 0 .. Len(Head(m_packet_queue)) : Empty(n)
    BY <1>2 DEF Write
  <2>2. n \in Nat
    BY <2>1
  <2>. QED  BY <2>1, <2>2, EmptyInv
<1>3. ASSUME Fill  PROVE IInv'
  <2>1. ASSUME NEW n \in 1 .. 3, FillHeader(n)  PROVE IInv'
    BY <2>1, HeaderInv
  <2>2. ASSUME NEW n \in 0 .. Len(wire), FillBody(n)  PROVE IInv'
    BY <2>2, BodyInv
  <2>. QED  BY <1>3, <2>1, <2>2 DEF Fill
<1>4. ASSUME SenderExits  PROVE IInv'
  <2>1. /\ sender = "running" /\ sender' = IF m_written = 0 THEN "exited" ELSE "cut"
        /\ m_packet_queue' = <<>> /\ m_written' = 0 /\ pollout' = FALSE
        /\ UNCHANGED <<reader, wire, m_read_buf, m_read_size, received, sent, whole>>
    BY <1>4 DEF SenderExits
  <2>2. TypeOK /\ Layout /\ Reading
    BY DEF IInv
  <2>3. Stream' = Stream
    BY ONLY <2>1, Zenon DEF Stream
  <2>4. TypeOK'
    BY ONLY <2>1, <2>2, EmptySeq DEF TypeOK
  <2>5. Layout'
    BY ONLY <2>1, <2>2, <2>3 DEF Layout
  <2>6. Queued' /\ Reading'
    BY ONLY <2>1, <2>2 DEF Queued, Reading
  <2>. QED  BY <2>4, <2>5, <2>6 DEF IInv
<1>5. ASSUME ReaderHangup \/ ShellText  PROVE IInv'
  <2>1. /\ reader' \in {"exited", "misled"}
        /\ UNCHANGED <<sender, m_packet_queue, m_written, pollout, wire, m_read_buf,
                       m_read_size, received, sent, whole>>
    BY <1>5 DEF ReaderHangup, ShellText
  <2>. QED  BY ONLY IInv, <2>1 DEF IInv, TypeOK, Layout, Queued, Reading, Stream
<1>6. ASSUME UNCHANGED vars  PROVE IInv'
  BY ONLY IInv, <1>6 DEF vars, IInv, TypeOK, Layout, Queued, Reading, Stream
<1>. QED  BY <1>1, <1>2, <1>3, <1>4, <1>5, <1>6 DEF Next

\* TypeOK, and where the packets lie in the bytes on the way, for every run of
\* WriteStream and ReadStream.
THEOREM StreamInvCorrect == Spec => []IInv
<1>1. Init => IInv
  BY InitInv
<1>2. IInv /\ [Next]_vars => IInv'
  BY NextInv
<1>. QED  BY <1>1, <1>2, PTL DEF Spec

\* ReadStream::fill never throws "Bad read length" over the bytes of packets.
THEOREM NeverBadLengthCorrect == Spec => []NeverBadLength
<1>1. IInv => NeverBadLength
  BY DEF IInv, Reading, NeverBadLength
<1>. QED  BY <1>1, StreamInvCorrect, PTL

\* What is in m_read_buf fits into it, the packet that is being read has room in it, and
\* fill does not read past that packet.
LEMMA BufferFits == IInv => FitsBuffer
<1>. SUFFICES ASSUME IInv  PROVE FitsBuffer
  OBVIOUS
<1>. DEFINE r == Len(received)
            p == Packet(sent, r + 1)
<1>1. /\ m_read_buf \in Seq(Byte) /\ sent \in Seq(Bodies) /\ Len(m_read_buf) \in Nat
      /\ Len(wire) \in Nat /\ Len(Stream) = Len(m_read_buf) + Len(wire)
      /\ \A j \in 1 .. Len(m_read_buf) : Stream[j] = m_read_buf[j]
  BY Types DEF IInv
<1>2. /\ Len(m_read_buf) <= m_read_size
      /\ m_read_buf # <<>> => r < Len(sent) /\ Len(m_read_buf) < Len(p)
      /\ Len(m_read_buf) >= 4 => Len(p) <= m_read_size
  BY DEF IInv, Reading
<1>3. ASSUME Len(m_read_buf) >= 4
      PROVE  /\ ntohl(m_read_buf) + 4 <= m_read_size
             /\ Len(m_read_buf) < ntohl(m_read_buf) + 4
  <2>1. Stream # <<>> /\ m_read_buf # <<>>
    BY ONLY <1>1, <1>3, EmptySeq
  <2>2. /\ r + 1 \in 1 .. Len(sent)
        /\ \A j \in 1 .. Len(Stream) : j <= Len(p) => Stream[j] = p[j]
    BY <2>1, Front
  <2>3. Len(sent[r + 1]) \in Nat /\ Len(p) = Len(sent[r + 1]) + 4
    BY ONLY <1>1, <2>2, PacketType
  <2>. HIDE DEF p
  <2>4. ASSUME NEW j \in 1 .. 4  PROVE m_read_buf[j] = p[j]
    <3>1. j \in 1 .. Len(m_read_buf) /\ j \in 1 .. Len(Stream) /\ j <= Len(p)
      BY ONLY <1>1, <1>3, <2>3, <2>4
    <3>. QED  BY ONLY <1>1, <2>2, <3>1
  <2>5. ntohl(m_read_buf) = Len(sent[r + 1])
    BY ONLY <1>1, <2>2, <2>4, LengthOf DEF p
  <2>. QED  BY ONLY <1>2, <1>3, <2>1, <2>3, <2>5
<1>. QED  BY <1>2, <1>3 DEF FitsBuffer

\* Both reads of ReadStream::fill stay inside m_read_buf and inside one packet.
THEOREM FitsBufferCorrect == Spec => []FitsBuffer
<1>1. IInv => FitsBuffer
  BY BufferFits
<1>. QED  BY <1>1, StreamInvCorrect, PTL

\* Behind a sender that ended between two packets, the bytes that are left end with a
\* packet: a part of one in m_read_buf has the rest of it on the way.
LEMMA WholeAtEnd ==
  ASSUME IInv, sender = "exited", m_written = 0, m_read_buf # <<>>
  PROVE  wire # <<>>
<1>. DEFINE r == Len(received)
            p == Packet(sent, r + 1)
<1>1. /\ m_read_buf \in Seq(Byte) /\ Len(m_read_buf) \in Nat /\ Len(wire) \in Nat
      /\ Stream \in Seq(Byte) /\ Len(Stream) = Len(m_read_buf) + Len(wire)
      /\ r \in Nat /\ whole \in Nat
  BY Types DEF IInv
<1>2. /\ r <= whole /\ Len(m_read_buf) < Len(p)
  BY DEF IInv, Reading
<1>3. Len(m_read_buf) # 0
  BY ONLY <1>1, m_read_buf # <<>>, EmptySeq
<1>4. Stream # <<>>
  BY ONLY <1>1, <1>3, EmptySeq
<1>5. PICK cut \in [Nat -> Int] : /\ Framed(cut, Stream, sent, r, whole)
                                 /\ Len(Stream) = cut[whole] + m_written
  BY DEF IInv, Layout
<1>6. r < whole
  <2>1. CASE r = whole
    <3>1. cut[whole] = 0
      BY ONLY <1>5, <2>1 DEF Framed
    <3>2. Len(Stream) = 0
      BY <1>5, <3>1
    <3>3. \A a, b \in Nat : a # 0 => a + b # 0
      BY ONLY TRUE
    <3>. QED  BY ONLY <1>1, <1>3, <3>2, <3>3, Zenon
  <2>. QED  BY ONLY <1>1, <1>2, <2>1
<1>7. Len(p) <= Len(Stream)
  BY <1>4, <1>6, Front
<1>8. r + 1 \in 1 .. Len(sent) /\ sent \in Seq(Bodies)
  BY <1>4, Front, Types DEF IInv
<1>9. Len(p) \in Nat
  BY ONLY <1>8, PacketType
<1>. HIDE DEF p
<1>. QED  BY ONLY <1>1, <1>2, <1>7, <1>9, EmptySeq

\* A shell's text is taken for bytes of a packet only behind a sender that ended in the
\* middle of one: ReadStream::fill never stops short of a packet's end, nor reads past it.
THEOREM OnlyCutMisleadsCorrect == Spec => []OnlyCutMisleads
<1>. DEFINE J == OnlyCutMisleads /\ (sender = "exited" => m_written = 0)
<1>1. Init => J
  BY DEF Init, OnlyCutMisleads
<1>2. IInv /\ J /\ [Next]_vars => J'
  <2>. SUFFICES ASSUME IInv, J, [Next]_vars  PROVE J'
    OBVIOUS
  <2>1. ASSUME NEW body \in Bodies, Send(body)  PROVE J'
    BY <2>1 DEF Send, Queues, OnlyCutMisleads
  <2>2. ASSUME Write  PROVE J'
    BY <2>2 DEF Write, Empty, OnlyCutMisleads
  <2>3. ASSUME Fill  PROVE J'
    BY <2>3 DEF Fill, FillHeader, FillBody, Readable, OnlyCutMisleads
  <2>4. ASSUME SenderExits  PROVE J'
    BY <2>4 DEF SenderExits, OnlyCutMisleads
  <2>5. ASSUME ReaderHangup  PROVE J'
    BY <2>5 DEF ReaderHangup, OnlyCutMisleads
  <2>6. ASSUME ShellText  PROVE J'
    <3>1. m_read_buf # <<>> => sender = "cut"
      BY <2>6, WholeAtEnd DEF ShellText, IInv, TypeOK
    <3>. QED  BY <2>6, <3>1 DEF ShellText, OnlyCutMisleads
  <2>7. ASSUME UNCHANGED vars  PROVE J'
    BY <2>7 DEF vars, OnlyCutMisleads
  <2>. QED  BY <2>1, <2>2, <2>3, <2>4, <2>5, <2>6, <2>7 DEF Next
<1>3. J => OnlyCutMisleads
  OBVIOUS
<1>. QED  BY <1>1, <1>2, <1>3, StreamInvCorrect, PTL DEF Spec

-------------------------------------------------------------------------------
(***************************************************************************)
(* The refinement: every step is a step of the FIFO or leaves it alone.    *)
(***************************************************************************)
\* Part of a sequence, as Pending is one: x elements are left out.
LEMMA PendingPart ==
  ASSUME NEW S, NEW s \in Seq(S), NEW x \in Nat, NEW y \in Nat, x <= y, y <= Len(s)
  PROVE  /\ SubSeq(s, x + 1, y) \in Seq(S) /\ Len(SubSeq(s, x + 1, y)) = y - x
         /\ x < y => /\ SubSeq(s, x + 1, y) # <<>>
                     /\ Head(SubSeq(s, x + 1, y)) = s[x + 1]
                     /\ Tail(SubSeq(s, x + 1, y)) = SubSeq(s, (x + 1) + 1, y)
<1>1. SubSeq(s, x + 1, y) \in Seq(S) /\ Len(SubSeq(s, x + 1, y)) = y - x
  BY PartOf
<1>2. ASSUME x < y
      PROVE  /\ SubSeq(s, x + 1, y) # <<>>
             /\ Head(SubSeq(s, x + 1, y)) = s[x + 1]
             /\ Tail(SubSeq(s, x + 1, y)) = SubSeq(s, (x + 1) + 1, y)
  <2>1. x + 1 \in 1 .. Len(s) /\ y \in x + 1 .. Len(s)
    BY <1>2, LenProperties
  <2>2. SubSeq(s, x + 1, y) # <<>>
    BY <1>1, <1>2, EmptySeq
  <2>. QED  BY <2>1, <2>2, HeadTailOfSubSeq
<1>. QED  BY <1>1, <1>2

\* Nothing is pending at the beginning.
LEMMA InitFifo == Init => Fifo!Init
<1>. SUFFICES ASSUME Init  PROVE Fifo!Init
  OBVIOUS
<1>1. sender = "running" /\ received = <<>> /\ sent = <<>> /\ Len(<<>>) = 0
  BY EmptySeq DEF Init
<1>2. Pending = SubSeq(<<>>, 0 + 1, 0)
  BY <1>1 DEF Pending
<1>3. Pending = <<>>
  BY <1>2, SubSeqEmpty
<1>. QED  BY <1>1, <1>3 DEF Fifo!Init

\* A packet is sent.
LEMMA SendFifo ==
  ASSUME IInv, NEW body \in Bodies, Send(body)
  PROVE  Fifo!Next
<1>. DEFINE r == Len(received)
<1>1. /\ sender = "running" /\ sender' = "running" /\ sent' = Append(sent, body)
      /\ received' = received
  BY DEF Send, Queues
<1>2. /\ sent \in Seq(Bodies) /\ Len(sent) \in Nat /\ r \in Nat /\ r <= Len(sent)
  BY Types DEF IInv, Reading
<1>3. Pending = SubSeq(sent, r + 1, Len(sent)) /\ Pending' = SubSeq(sent', r + 1, Len(sent'))
  BY ONLY <1>1 DEF Pending
<1>. HIDE DEF r
<1>4. /\ sent' \in Seq(Bodies) /\ Len(sent') = Len(sent) + 1
      /\ \A i \in 1 .. Len(sent) : sent'[i] = sent[i]
      /\ sent'[Len(sent) + 1] = body
  BY ONLY body \in Bodies, <1>1, <1>2
<1>5. /\ Pending \in Seq(Bodies) /\ Len(Pending) = Len(sent) - r
      /\ \A i \in 1 .. Len(sent) - r : Pending[i] = sent[r + i]
  BY ONLY <1>2, <1>3, PartOf
<1>6. /\ Pending' \in Seq(Bodies) /\ Len(Pending') = Len(sent') - r
      /\ \A i \in 1 .. Len(sent') - r : Pending'[i] = sent'[r + i]
  <2>1. Len(sent') \in Nat /\ r <= Len(sent') /\ Len(sent') <= Len(sent')
    BY ONLY <1>2, <1>4
  <2>. QED  BY ONLY <1>2, <1>3, <1>4, <2>1, PartOf
<1>. DEFINE a == Append(Pending, body)
<1>7. /\ a \in Seq(Bodies) /\ Len(a) = Len(Pending) + 1
      /\ \A i \in 1 .. Len(Pending) : a[i] = Pending[i]
      /\ a[Len(Pending) + 1] = body
  <2>. HIDE DEF Pending
  <2>. QED  BY ONLY body \in Bodies, <1>5
<1>. HIDE DEF a
<1>8. Pending' = a
  <2>1. Len(Pending') = Len(a) /\ Len(a) = Len(sent) - r + 1
    BY ONLY <1>2, <1>4, <1>5, <1>6, <1>7
  <2>2. ASSUME NEW i \in 1 .. Len(Pending')  PROVE Pending'[i] = a[i]
    <3>1. i \in 1 .. Len(sent') - r
      BY ONLY <1>6, <2>2
    <3>2. CASE i \in 1 .. Len(sent) - r
      <4>1. r + i \in 1 .. Len(sent) /\ i \in 1 .. Len(Pending)
        BY ONLY <1>2, <1>5, <3>2
      <4>. QED  BY ONLY <1>4, <1>5, <1>6, <1>7, <3>1, <3>2, <4>1
    <3>3. CASE i \notin 1 .. Len(sent) - r
      <4>1. r + i = Len(sent) + 1 /\ i = Len(Pending) + 1
        BY ONLY <1>2, <1>4, <1>5, <3>1, <3>3
      <4>. QED  BY ONLY <1>4, <1>6, <1>7, <3>1, <4>1
    <3>. QED  BY <3>2, <3>3
  <2>. QED  BY ONLY <1>6, <1>7, <2>1, <2>2, SeqEqual
<1>9. Fifo!Send(body)
  BY ONLY <1>1, <1>8 DEF Fifo!Send, a
<1>. QED  BY ONLY body \in Bodies, <1>9 DEF Fifo!Next

\* A packet is received, or bytes are read.
LEMMA BodyFifo ==
  ASSUME IInv, NEW n \in Nat, FillBody(n)
  PROVE  Fifo!Next \/ UNCHANGED Fifo!vars
<1>. DEFINE r == Len(received)
            p == Packet(sent, r + 1)
            end == IF sender = "running" THEN Len(sent) ELSE whole
<1>1. /\ sender' = sender /\ sent' = sent /\ whole' = whole
      /\ \/ r < whole /\ received' = Append(received, sent[r + 1])
         \/ received' = received
  BY BodyRead
<1>2. /\ sent \in Seq(Bodies) /\ r \in Nat /\ r <= whole /\ Len(sent) \in Nat
      /\ whole \in 0 .. Len(sent) /\ received \in Seq(Seq(Byte))
  BY Types DEF IInv, Reading
<1>3. Pending = SubSeq(sent, r + 1, end)
  BY DEF Pending
<1>4. CASE received' = received
  <2>1. Pending' = Pending
    BY ONLY <1>1, <1>4 DEF Pending
  <2>. QED  BY ONLY <1>1, <1>4, <2>1 DEF Fifo!vars
<1>5. CASE r < whole /\ received' = Append(received, sent[r + 1])
  <2>1. r < end /\ end \in Nat /\ r <= end /\ end <= Len(sent)
    BY ONLY <1>2, <1>5
  <2>2. Len(received') = r + 1
    BY ONLY <1>2, <1>5
  <2>3. Pending' = SubSeq(sent, (r + 1) + 1, end)
    BY ONLY <1>1, <2>2 DEF Pending
  <2>. HIDE DEF end, r
  <2>4. Pending # <<>> /\ Head(Pending) = sent[r + 1] /\ Tail(Pending) = Pending'
    <3>. DEFINE q == SubSeq(sent, r + 1, end)
    <3>1. sent \in Seq(Bodies) /\ r \in Nat
      BY ONLY <1>2
    <3>2. q # <<>> /\ Head(q) = sent[r + 1] /\ Tail(q) = SubSeq(sent, (r + 1) + 1, end)
      BY ONLY <2>1, <3>1, PendingPart
    <3>. QED  BY ONLY <1>3, <2>3, <3>2, Zenon
  <2>5. Fifo!Receive
    BY ONLY <1>1, <1>5, <2>4 DEF Fifo!Receive
  <2>. QED  BY ONLY <2>5 DEF Fifo!Next
<1>. QED  BY <1>1, <1>4, <1>5

\* The sender ends: what is written completely still arrives.
LEMMA ExitFifo ==
  ASSUME IInv, SenderExits
  PROVE  Fifo!Next
<1>. DEFINE r == Len(received)
            k == whole - r
<1>1. sender = "running" /\ sender' # "running" /\ UNCHANGED <<received, sent, whole>>
  BY DEF SenderExits
<1>2. /\ sent \in Seq(Bodies) /\ r \in Nat /\ r <= whole /\ whole <= Len(sent) /\ whole \in Nat
      /\ Len(sent) \in Nat
  BY Types DEF IInv, Reading
<1>3. Pending = SubSeq(sent, r + 1, Len(sent)) /\ Pending' = SubSeq(sent, r + 1, whole)
  BY ONLY <1>1 DEF Pending
<1>. HIDE DEF r
<1>4. /\ Pending \in Seq(Bodies) /\ Len(Pending) = Len(sent) - r
      /\ \A i \in 1 .. Len(sent) - r : Pending[i] = sent[r + i]
  <2>1. r <= Len(sent) /\ Len(sent) <= Len(sent)
    BY ONLY <1>2
  <2>. QED  BY ONLY <1>2, <1>3, <2>1, PartOf
<1>5. /\ Pending' \in Seq(Bodies) /\ Len(Pending') = whole - r
      /\ \A i \in 1 .. whole - r : Pending'[i] = sent[r + i]
  BY ONLY <1>2, <1>3, PartOf
<1>6. k \in 0 .. Len(Pending) /\ k \in Nat
  BY ONLY <1>2, <1>4
<1>. DEFINE a == SubSeq(Pending, 1, k)
<1>7. a \in Seq(Bodies) /\ Len(a) = k /\ \A i \in 1 .. k : a[i] = Pending[i]
  <2>1. PICK m \in Nat : m = 0
    OBVIOUS
  <2>2. m <= k /\ k <= Len(Pending)
    BY ONLY <1>4, <1>6, <2>1
  <2>. HIDE DEF k, Pending
  <2>3. /\ SubSeq(Pending, m + 1, k) \in Seq(Bodies) /\ Len(SubSeq(Pending, m + 1, k)) = k - m
        /\ \A i \in 1 .. k - m : SubSeq(Pending, m + 1, k)[i] = Pending[m + i]
    BY ONLY m \in Nat, <1>4, <1>6, <2>2, PartOf
  <2>. QED  BY ONLY <1>6, <2>1, <2>3
<1>. HIDE DEF a
<1>8. Pending' = a
  <2>1. Len(Pending') = Len(a)
    BY ONLY <1>5, <1>7
  <2>2. ASSUME NEW i \in 1 .. Len(Pending')  PROVE Pending'[i] = a[i]
    <3>1. i \in 1 .. k /\ i \in 1 .. whole - r /\ i \in 1 .. Len(sent) - r
      BY ONLY <1>2, <1>5, <2>2
    <3>. QED  BY ONLY <1>4, <1>5, <1>7, <3>1
  <2>. QED  BY ONLY <1>5, <1>7, <2>1, <2>2, SeqEqual
<1>9. Fifo!Stop(k)
  BY ONLY <1>1, <1>8 DEF Fifo!Stop, a
<1>. QED  BY ONLY <1>6, <1>9 DEF Fifo!Next

\* Every step.
LEMMA StepFifo ==
  ASSUME IInv, [Next]_vars
  PROVE  [Fifo!Next]_(Fifo!vars)
<1>1. ASSUME UNCHANGED <<sender, received, sent>>, sender = "running" \/ whole' = whole
      PROVE  UNCHANGED Fifo!vars
  <2>1. Pending' = Pending
    BY ONLY <1>1 DEF Pending
  <2>. QED  BY ONLY <1>1, <2>1 DEF Fifo!vars
<1>2. ASSUME NEW body \in Bodies, Send(body)  PROVE Fifo!Next
  BY <1>2, SendFifo
<1>3. ASSUME Write  PROVE UNCHANGED Fifo!vars
  <2>1. UNCHANGED <<sender, received, sent>> /\ sender = "running"
    BY <1>3 DEF Write, Empty
  <2>. QED  BY ONLY <1>1, <2>1
<1>4. ASSUME Fill  PROVE Fifo!Next \/ UNCHANGED Fifo!vars
  <2>1. ASSUME NEW n \in 1 .. 3, FillHeader(n)  PROVE UNCHANGED Fifo!vars
    <3>1. UNCHANGED <<sender, received, sent>> /\ whole' = whole
      BY <2>1 DEF FillHeader
    <3>. QED  BY ONLY <1>1, <3>1
  <2>2. ASSUME NEW n \in 0 .. Len(wire), FillBody(n)
        PROVE  Fifo!Next \/ UNCHANGED Fifo!vars
    BY <2>2, BodyFifo
  <2>. QED  BY <1>4, <2>1, <2>2 DEF Fill
<1>5. ASSUME SenderExits  PROVE Fifo!Next
  BY <1>5, ExitFifo
<1>6. ASSUME ReaderHangup \/ ShellText  PROVE UNCHANGED Fifo!vars
  <2>1. UNCHANGED <<sender, received, sent>> /\ whole' = whole
    BY <1>6 DEF ReaderHangup, ShellText
  <2>. QED  BY ONLY <1>1, <2>1
<1>7. ASSUME UNCHANGED vars  PROVE UNCHANGED Fifo!vars
  <2>1. UNCHANGED <<sender, received, sent>> /\ whole' = whole
    BY <1>7 DEF vars
  <2>. QED  BY ONLY <1>1, <2>1
<1>. QED  BY <1>2, <1>3, <1>4, <1>5, <1>6, <1>7 DEF Next

\* WriteStream and ReadStream implement a FIFO of packets: what is received is what was
\* sent, whole, in order and once, however write() and read() cut and join it.
THEOREM PacketsImplementFifo == Spec => ImplementsFifo
<1>1. Init => Fifo!Init
  BY InitFifo
<1>2. IInv /\ [Next]_vars => [Fifo!Next]_(Fifo!vars)
  BY StepFifo
<1>. QED  BY <1>1, <1>2, StreamInvCorrect, PTL DEF Spec, ImplementsFifo, Fifo!Spec

===============================================================================
