--------------------------- MODULE SockBufferProofs ---------------------------
(***************************************************************************)
(* Proofs about SockBuffer and about MagicStringDetector, which inherits   *)
(* from it: for any BUFFER_SIZE, and any number and size of reads and      *)
(* writes, the buffer is a FIFO of bytes.                                  *)
(***************************************************************************)
EXTENDS MagicStringDetector, SequenceTheorems, TLAPS

-------------------------------------------------------------------------------
(***************************************************************************)
(* The parts of a step.                                                    *)
(***************************************************************************)
\* What comes in is a sequence of bytes, and one the abstract FIFO may take.
LEMMA BytesType ==
  ASSUME TypeOK, NEW n \in 0 .. MaxBytes
  PROVE  /\ Bytes(n) \in Seq(Nat) /\ Len(Bytes(n)) = n
         /\ Bytes(n) \in {[j \in 1 .. h |-> m + j] : m \in 0 .. MaxBytes, h \in 0 .. MaxBytes}
<1>1. came \in 0 .. MaxBytes /\ MaxBytes \in Nat /\ n \in Nat
  BY BufferAssumption DEF TypeOK
<1>2. Bytes(n) \in [1 .. n -> Nat]
  BY <1>1 DEF Bytes
<1>. QED
  BY <1>1, <1>2 DEF Bytes

\* The array and the queue behind a refill: as writeData finds them if there is
\* none.
Refilled == [p \in 1 .. BUFFER_SIZE |->
               IF p > BUFFER_SIZE - FillSize THEN m_queue[p - (BUFFER_SIZE - FillSize)]
                                             ELSE m_output_buf[p]]
Left == SubSeq(m_queue, FillSize + 1, Len(m_queue))
First == m_output_position - FillSize

\* A refill takes what the queue has, and only into an empty array.
LEMMA FillSizeType ==
  ASSUME TypeOK
  PROVE  /\ FillSize \in 0 .. Len(m_queue) /\ FillSize <= BUFFER_SIZE
         /\ FillSize # 0 => m_output_position = BUFFER_SIZE
         /\ First \in 0 .. BUFFER_SIZE
<1>1. /\ m_output_position \in 0 .. BUFFER_SIZE /\ BUFFER_SIZE \in Nat \ {0}
      /\ Len(m_queue) \in Nat
  BY BufferAssumption, LenProperties DEF TypeOK
<1>. QED
  BY <1>1 DEF FillSize, Least, First

\* Filling the buffer keeps its type.
LEMMA RefillType ==
  ASSUME TypeOK
  PROVE  /\ Refilled \in [1 .. BUFFER_SIZE -> Nat]
         /\ Refilled \in Seq(Nat) /\ Len(Refilled) = BUFFER_SIZE
         /\ Left \in Seq(Nat) /\ Len(Left) = Len(m_queue) - FillSize
         /\ \A j \in 1 .. Len(Left) : Left[j] = m_queue[FillSize + j]
<1>1. /\ m_output_position \in 0 .. BUFFER_SIZE /\ BUFFER_SIZE \in Nat \ {0}
      /\ m_queue \in Seq(Nat) /\ Len(m_queue) \in Nat
      /\ m_output_buf \in [1 .. BUFFER_SIZE -> Nat]
      /\ \A j \in 1 .. Len(m_queue) : m_queue[j] \in Nat
  BY BufferAssumption, LenProperties, ElementOfSeq DEF TypeOK
<1>2. FillSize \in 0 .. Len(m_queue) /\ FillSize <= BUFFER_SIZE
  BY FillSizeType
<1>3. Refilled \in [1 .. BUFFER_SIZE -> Nat]
  BY <1>1, <1>2 DEF Refilled
<1>4. Refilled \in Seq(Nat) /\ Len(Refilled) = BUFFER_SIZE
  BY <1>1, <1>3
<1>5. /\ Left \in Seq(Nat) /\ Len(Left) = Len(m_queue) - FillSize
      /\ \A j \in 1 .. Len(Left) : Left[j] = m_queue[FillSize + j]
  <2>1. FillSize + 1 \in Int /\ \A j \in FillSize + 1 .. Len(m_queue) : m_queue[j] \in Nat
    BY <1>1, <1>2
  <2>2. /\ Left \in Seq(Nat)
        /\ Len(Left) = IF FillSize + 1 <= Len(m_queue)
                       THEN Len(m_queue) - (FillSize + 1) + 1 ELSE 0
        /\ \A j \in 1 .. Len(m_queue) - (FillSize + 1) + 1 :
             Left[j] = m_queue[FillSize + 1 + j - 1]
    BY <1>1, <2>1, SubSeqProperties DEF Left
  <2>. QED
    BY <1>1, <1>2, <2>2
<1>. QED
  BY <1>3, <1>4, <1>5

\* Two sequences in a row, the first one a part of an array.
LEMMA PartThenQueue ==
  ASSUME NEW N \in Nat, NEW buf \in [1 .. N -> Nat], NEW p \in 0 .. N, NEW q \in Seq(Nat)
  PROVE  /\ SubSeq(buf, p + 1, N) \o q \in Seq(Nat)
         /\ Len(SubSeq(buf, p + 1, N) \o q) = N - p + Len(q)
         /\ \A j \in 1 .. N - p + Len(q) :
              (SubSeq(buf, p + 1, N) \o q)[j] =
                IF j <= N - p THEN buf[p + j] ELSE q[j - (N - p)]
<1>1. p + 1 \in Int /\ N \in Int /\ p \in Int /\ \A j \in p + 1 .. N : buf[j] \in Nat
  OBVIOUS
<1>2. /\ SubSeq(buf, p + 1, N) \in Seq(Nat)
      /\ Len(SubSeq(buf, p + 1, N)) = N - p
      /\ \A j \in 1 .. N - p : SubSeq(buf, p + 1, N)[j] = buf[p + j]
  <2>1. /\ SubSeq(buf, p + 1, N) \in Seq(Nat)
        /\ Len(SubSeq(buf, p + 1, N)) = IF p + 1 <= N THEN N - (p + 1) + 1 ELSE 0
        /\ \A j \in 1 .. N - (p + 1) + 1 : SubSeq(buf, p + 1, N)[j] = buf[p + 1 + j - 1]
    BY <1>1, SubSeqProperties
  <2>. QED
    BY <1>1, <2>1
<1>3. Len(q) \in Nat
  BY LenProperties
<1> DEFINE a == SubSeq(buf, p + 1, N)
<1> HIDE DEF a
<1>4. /\ a \o q \in Seq(Nat) /\ Len(a \o q) = Len(a) + Len(q)
      /\ \A j \in 1 .. Len(a) + Len(q) :
           (a \o q)[j] = IF j <= Len(a) THEN a[j] ELSE q[j - Len(a)]
  BY <1>2, ConcatProperties DEF a
<1>5. Len(a) = N - p /\ \A j \in 1 .. N - p : a[j] = buf[p + j]
  BY <1>2 DEF a
<1>6. /\ a \o q \in Seq(Nat) /\ Len(a \o q) = N - p + Len(q)
      /\ \A j \in 1 .. N - p + Len(q) :
           (a \o q)[j] = IF j <= N - p THEN buf[p + j] ELSE q[j - (N - p)]
  BY <1>1, <1>3, <1>4, <1>5
<1>. QED
  BY <1>6 DEF a

\* The bytes that wait, as a sequence.
LEMMA WaitingType ==
  ASSUME TypeOK
  PROVE  /\ Waiting \in Seq(Nat)
         /\ Len(Waiting) = BUFFER_SIZE - m_output_position + Len(m_queue)
         /\ \A j \in 1 .. BUFFER_SIZE - m_output_position + Len(m_queue) :
              Waiting[j] = IF j <= BUFFER_SIZE - m_output_position
                           THEN m_output_buf[m_output_position + j]
                           ELSE m_queue[j - (BUFFER_SIZE - m_output_position)]
<1>1. /\ BUFFER_SIZE \in Nat /\ m_output_buf \in [1 .. BUFFER_SIZE -> Nat]
      /\ m_output_position \in 0 .. BUFFER_SIZE /\ m_queue \in Seq(Nat)
  BY BufferAssumption DEF TypeOK
<1>. QED
  BY ONLY <1>1, PartThenQueue DEF Waiting

\* A refill changes nothing about the bytes that wait.
LEMMA RefillKeepsWaiting ==
  ASSUME TypeOK
  PROVE  SubSeq(Refilled, First + 1, BUFFER_SIZE) \o Left = Waiting
<1> DEFINE W == SubSeq(Refilled, First + 1, BUFFER_SIZE) \o Left
<1>1. /\ m_output_position \in 0 .. BUFFER_SIZE /\ BUFFER_SIZE \in Nat \ {0}
      /\ Len(m_queue) \in Nat /\ FillSize \in 0 .. Len(m_queue) /\ FillSize <= BUFFER_SIZE
      /\ FillSize # 0 => m_output_position = BUFFER_SIZE
      /\ First \in 0 .. BUFFER_SIZE /\ First = m_output_position - FillSize
  BY BufferAssumption, LenProperties, FillSizeType DEF TypeOK, First
<1>2. /\ W \in Seq(Nat)
      /\ Len(W) = BUFFER_SIZE - First + Len(Left)
      /\ \A j \in 1 .. BUFFER_SIZE - First + Len(Left) :
           W[j] = IF j <= BUFFER_SIZE - First THEN Refilled[First + j]
                  ELSE Left[j - (BUFFER_SIZE - First)]
  <2>1. BUFFER_SIZE \in Nat /\ Refilled \in [1 .. BUFFER_SIZE -> Nat] /\ Left \in Seq(Nat)
    BY <1>1, RefillType
  <2>. QED
    BY <1>1, <2>1, PartThenQueue
<1> HIDE DEF W
<1>3. Len(Left) = Len(m_queue) - FillSize
  BY RefillType
<1>4. Len(W) = Len(Waiting) /\ Len(W) = BUFFER_SIZE - m_output_position + Len(m_queue)
  BY <1>1, <1>2, <1>3, WaitingType, SMTT(30)
<1>5. ASSUME NEW j \in 1 .. Len(W)
      PROVE  W[j] = Waiting[j]
  <2>1. Waiting[j] = IF j <= BUFFER_SIZE - m_output_position
                     THEN m_output_buf[m_output_position + j]
                     ELSE m_queue[j - (BUFFER_SIZE - m_output_position)]
    BY <1>4, <1>5, WaitingType
  <2>2. W[j] = IF j <= BUFFER_SIZE - First THEN Refilled[First + j]
               ELSE Left[j - (BUFFER_SIZE - First)]
    BY <1>1, <1>2, <1>3, <1>4, <1>5
  <2>3. CASE j <= BUFFER_SIZE - First
    <3>1. First + j \in 1 .. BUFFER_SIZE
      BY <1>1, <1>4, <1>5, <2>3
    <3>2. W[j] = IF First + j > BUFFER_SIZE - FillSize
                 THEN m_queue[First + j - (BUFFER_SIZE - FillSize)] ELSE m_output_buf[First + j]
      <4>1. W[j] = Refilled[First + j]
        BY <2>2, <2>3
      <4>. QED
        BY <1>1, <3>1, <4>1 DEF Refilled
    <3>. QED
      BY <1>1, <1>4, <1>5, <2>1, <2>3, <3>2
  <2>4. CASE j > BUFFER_SIZE - First
    <3>1. j - (BUFFER_SIZE - First) \in 1 .. Len(Left)
      BY <1>1, <1>2, <1>5, <1>3, <1>4, <2>4
    <3>2. W[j] = m_queue[FillSize + (j - (BUFFER_SIZE - First))]
      BY <1>1, <1>4, <2>2, <2>4, <3>1, RefillType
    <3>. QED
      BY <1>1, <1>4, <1>5, <2>1, <2>4, <3>2
  <2>. QED
    BY <1>1, <1>4, <1>5, <2>3, <2>4
<1>. QED
  <2>1. W = Waiting
    BY <1>2, <1>4, <1>5, WaitingType, SeqEqual
  <2>. QED
    BY <2>1 DEF W

-------------------------------------------------------------------------------
(***************************************************************************)
(* Types.                                                                  *)
(***************************************************************************)
\* A step of the buffer keeps the types: the bytes of a refill fit into the array.
LEMMA StepType ==
  ASSUME TypeOK, [Next]_vars
  PROVE  TypeOK'
<1>1. /\ m_queue \in Seq(Nat) /\ output \in Seq(Nat) /\ came \in 0 .. MaxBytes
      /\ m_output_position \in 0 .. BUFFER_SIZE /\ closed \in BOOLEAN
      /\ BUFFER_SIZE \in Nat \ {0} /\ MaxBytes \in Nat
  BY BufferAssumption DEF TypeOK
<1>2. ASSUME NEW n \in 0 .. MaxBytes, PushOnBuffer(n) \/ ReadData(n)
      PROVE  TypeOK'
  <2>1. m_queue \o Bytes(n) \in Seq(Nat)
    BY <1>1, BytesType, ConcatProperties
  <2>2. came' \in 0 .. MaxBytes
    BY <1>1, <1>2 DEF PushOnBuffer, ReadData
  <2>. QED
    BY <1>2, <2>1, <2>2 DEF PushOnBuffer, ReadData, TypeOK
<1>3. ASSUME NEW n \in 0 .. BUFFER_SIZE, WriteData(n)
      PROVE  TypeOK'
  <2>1. /\ m_output_buf' = Refilled /\ m_queue' = Left
        /\ First + n <= BUFFER_SIZE /\ m_output_position' = First + n
        /\ output' = output \o SubSeq(Refilled, First + 1, First + n)
        /\ UNCHANGED <<came, closed>>
    BY <1>3 DEF WriteData, Refilled, Left, First
  <2>2. First \in 0 .. BUFFER_SIZE
    BY FillSizeType
  <2>3. \A j \in First + 1 .. First + n : Refilled[j] \in Nat
    BY <1>1, <1>3, <2>1, <2>2, RefillType, SMTT(30)
  <2>4. SubSeq(Refilled, First + 1, First + n) \in Seq(Nat)
    <3>1. First + 1 \in Int /\ First + n \in Int
      BY <2>2
    <3>. QED
      BY <2>3, <3>1, SubSeqProperties
  <2>5. output' \in Seq(Nat)
    BY <1>1, <2>1, <2>4, ConcatProperties
  <2>6. m_output_position' \in 0 .. BUFFER_SIZE
    BY <1>1, <2>1, <2>2
  <2>. QED
    BY <2>1, <2>5, <2>6, RefillType DEF TypeOK
<1>4. CASE Throws
  BY <1>4 DEF Throws, TypeOK
<1>5. CASE Clear
  BY <1>1, <1>5 DEF Clear, TypeOK
<1>6. CASE UNCHANGED vars
  BY <1>6 DEF vars, TypeOK
<1>. QED
  BY <1>1, <1>2, <1>3, <1>4, <1>5, <1>6 DEF Next

\* The first state has the types.
LEMMA InitType == Init => TypeOK
<1> SUFFICES ASSUME Init PROVE TypeOK
  OBVIOUS
<1>1. BUFFER_SIZE \in Nat /\ MaxBytes \in Nat
  BY BufferAssumption
<1>2. m_output_buf \in [1 .. BUFFER_SIZE -> Nat]
  BY DEF Init
<1>3. <<>> \in Seq(Nat) /\ 0 \in 0 .. MaxBytes /\ BUFFER_SIZE \in 0 .. BUFFER_SIZE
  BY <1>1
<1>. QED
  BY <1>2, <1>3 DEF Init, TypeOK

-------------------------------------------------------------------------------
(***************************************************************************)
(* The refinement.                                                         *)
(***************************************************************************)
\* The first state is one of the abstract queue.
LEMMA InitFifo == Init => Fifo!Init
<1> SUFFICES ASSUME Init PROVE Fifo!Init
  OBVIOUS
<1>1. TypeOK /\ m_queue = <<>> /\ m_output_position = BUFFER_SIZE /\ output = <<>>
  BY InitType DEF Init
<1>2. Waiting \in Seq(Nat) /\ Len(Waiting) = 0
  BY <1>1, WaitingType, BufferAssumption
<1>3. Waiting = <<>>
  BY <1>2, EmptySeq
<1>. QED
  BY <1>1, <1>3 DEF Fifo!Init

\* Three sequences in a row.
LEMMA Joined ==
  ASSUME NEW S, NEW a \in Seq(S), NEW b \in Seq(S), NEW c \in Seq(S)
  PROVE  (a \o b) \o c = a \o (b \o c)
BY ConcatAssociative, SMT

\* Bytes that come go behind those that wait.
LEMMA PutFifo ==
  ASSUME TypeOK, NEW n \in 0 .. MaxBytes, PushOnBuffer(n) \/ ReadData(n)
  PROVE  Fifo!Next
<1>1. m_queue' = m_queue \o Bytes(n) /\ UNCHANGED <<m_output_buf, m_output_position, output>>
  BY DEF PushOnBuffer, ReadData
<1> DEFINE a == SubSeq(m_output_buf, m_output_position + 1, BUFFER_SIZE)
<1>2. a \in Seq(Nat)
  <2>1. /\ BUFFER_SIZE \in Int /\ m_output_position + 1 \in Int
        /\ \A j \in m_output_position + 1 .. BUFFER_SIZE : m_output_buf[j] \in Nat
    BY BufferAssumption DEF TypeOK
  <2>. QED
    BY <2>1, SubSeqProperties
<1>3. Waiting = a \o m_queue /\ Waiting' = a \o (m_queue \o Bytes(n))
  BY <1>1 DEF Waiting
<1>4. Waiting' = Waiting \o Bytes(n)
  <2> HIDE DEF a
  <2>1. m_queue \in Seq(Nat) /\ Bytes(n) \in Seq(Nat)
    BY BytesType DEF TypeOK
  <2>2. (a \o m_queue) \o Bytes(n) = a \o (m_queue \o Bytes(n))
    BY ONLY <1>2, <2>1, Joined, SMTT(30)
  <2>. QED
    BY <1>3, <2>2
<1>5. Fifo!Put(Bytes(n))
  BY <1>1, <1>4 DEF Fifo!Put
<1>. QED
  BY <1>5, BytesType DEF Fifo!Next

\* What write() takes are the oldest bytes.
LEMMA GetFifo ==
  ASSUME TypeOK, NEW n \in 0 .. BUFFER_SIZE, WriteData(n)
  PROVE  Fifo!Next
<1> DEFINE W == SubSeq(Refilled, First + 1, BUFFER_SIZE) \o Left
<1>1. /\ m_output_buf' = Refilled /\ m_queue' = Left
      /\ First + n <= BUFFER_SIZE /\ m_output_position' = First + n
      /\ output' = output \o SubSeq(Refilled, First + 1, First + n)
  BY DEF WriteData, Refilled, Left, First
<1>2. /\ First \in 0 .. BUFFER_SIZE /\ BUFFER_SIZE \in Nat /\ n \in Nat
      /\ First + n \in 0 .. BUFFER_SIZE
      /\ Refilled \in [1 .. BUFFER_SIZE -> Nat] /\ Left \in Seq(Nat) /\ Len(Left) \in Nat
  <2>1. First \in 0 .. BUFFER_SIZE /\ BUFFER_SIZE \in Nat /\ n \in Nat
    BY FillSizeType, BufferAssumption
  <2>2. Refilled \in [1 .. BUFFER_SIZE -> Nat] /\ Left \in Seq(Nat)
    BY RefillType
  <2>. QED
    BY <1>1, <2>1, <2>2, LenProperties
<1>3. /\ W \in Seq(Nat)
      /\ Len(W) = BUFFER_SIZE - First + Len(Left)
      /\ \A j \in 1 .. BUFFER_SIZE - First + Len(Left) :
           W[j] = IF j <= BUFFER_SIZE - First THEN Refilled[First + j]
                  ELSE Left[j - (BUFFER_SIZE - First)]
  BY <1>2, PartThenQueue
<1> DEFINE V == SubSeq(Refilled, (First + n) + 1, BUFFER_SIZE) \o Left
<1>4. /\ V \in Seq(Nat)
      /\ Len(V) = BUFFER_SIZE - (First + n) + Len(Left)
      /\ \A j \in 1 .. BUFFER_SIZE - (First + n) + Len(Left) :
           V[j] = IF j <= BUFFER_SIZE - (First + n) THEN Refilled[(First + n) + j]
                  ELSE Left[j - (BUFFER_SIZE - (First + n))]
  BY <1>2, PartThenQueue
<1>5. Waiting = W /\ Waiting' = V
  BY <1>1, RefillKeepsWaiting DEF Waiting
<1> HIDE DEF W, V
<1>6. n \in 0 .. Len(W)
  BY <1>2, <1>3
<1>7. V = SubSeq(W, n + 1, Len(W))
  <2>1. \A j \in n + 1 .. Len(W) : W[j] \in Nat
    BY <1>2, <1>3, ElementOfSeq
  <2>2. /\ SubSeq(W, n + 1, Len(W)) \in Seq(Nat)
        /\ Len(SubSeq(W, n + 1, Len(W))) = IF n + 1 <= Len(W) THEN Len(W) - (n + 1) + 1 ELSE 0
        /\ \A j \in 1 .. Len(W) - (n + 1) + 1 :
             SubSeq(W, n + 1, Len(W))[j] = W[n + 1 + j - 1]
    <3>1. n + 1 \in Int /\ Len(W) \in Int
      BY <1>2, <1>3
    <3>. QED
      BY <2>1, <3>1, SubSeqProperties
  <2>3. Len(V) = Len(SubSeq(W, n + 1, Len(W)))
    BY <1>2, <1>3, <1>4, <1>6, <2>2
  <2>4. ASSUME NEW j \in 1 .. Len(V)
        PROVE  V[j] = SubSeq(W, n + 1, Len(W))[j]
    <3>1. SubSeq(W, n + 1, Len(W))[j] = W[n + j]
      BY <1>2, <1>3, <1>4, <2>2, <2>4
    <3>2. W[n + j] = IF n + j <= BUFFER_SIZE - First THEN Refilled[First + (n + j)]
                     ELSE Left[(n + j) - (BUFFER_SIZE - First)]
      BY <1>2, <1>3, <1>4, <2>4
    <3>3. V[j] = IF j <= BUFFER_SIZE - (First + n) THEN Refilled[(First + n) + j]
                 ELSE Left[j - (BUFFER_SIZE - (First + n))]
      BY <1>2, <1>4, <2>4
    <3>4. /\ j \in Int /\ First + (n + j) = (First + n) + j
          /\ (n + j) - (BUFFER_SIZE - First) = j - (BUFFER_SIZE - (First + n))
          /\ n + j <= BUFFER_SIZE - First <=> j <= BUFFER_SIZE - (First + n)
      BY <1>2, <1>4, <2>4
    <3>. QED
      BY <3>1, <3>2, <3>3, <3>4
  <2>. QED
    BY <1>4, <2>2, <2>3, <2>4, SeqEqual
<1>8. SubSeq(Refilled, First + 1, First + n) = SubSeq(W, 1, n)
  <2>1. \A j \in 1 .. n : W[j] \in Nat
    <3>1. \A j \in 1 .. Len(W) : W[j] \in Nat
      BY <1>3, ElementOfSeq
    <3>. QED
      BY <1>2, <1>3, <1>6, <3>1
  <2>2. /\ SubSeq(W, 1, n) \in Seq(Nat)
        /\ Len(SubSeq(W, 1, n)) = IF 1 <= n THEN n - 1 + 1 ELSE 0
        /\ \A j \in 1 .. n - 1 + 1 : SubSeq(W, 1, n)[j] = W[1 + j - 1]
    BY <1>2, <2>1, SubSeqProperties
  <2>3. /\ First + 1 \in Int /\ First + n \in Int
        /\ \A j \in First + 1 .. First + n : Refilled[j] \in Nat
    BY <1>2
  <2> DEFINE U == SubSeq(Refilled, First + 1, First + n)
  <2>4. /\ U \in Seq(Nat)
        /\ Len(U) = IF First + 1 <= First + n THEN (First + n) - (First + 1) + 1 ELSE 0
        /\ \A j \in 1 .. (First + n) - (First + 1) + 1 : U[j] = Refilled[First + 1 + j - 1]
    BY <2>3, SubSeqProperties
  <2> HIDE DEF U
  <2>5. Len(U) = n /\ Len(SubSeq(W, 1, n)) = n
    BY <1>2, <2>2, <2>4
  <2>6. ASSUME NEW j \in 1 .. n
        PROVE  U[j] = SubSeq(W, 1, n)[j]
    <3>1. SubSeq(W, 1, n)[j] = W[j]
      BY <1>2, <2>2, <2>6
    <3>2. W[j] = Refilled[First + j]
      <4>1. j \in 1 .. BUFFER_SIZE - First + Len(Left) /\ j <= BUFFER_SIZE - First
        BY <1>1, <1>2, <2>6
      <4>. QED
        BY <1>3, <4>1
    <3>3. U[j] = Refilled[First + j]
      BY <1>2, <2>4, <2>6
    <3>. QED
      BY <3>1, <3>2, <3>3
  <2>7. U = SubSeq(W, 1, n)
    BY <2>2, <2>4, <2>5, <2>6, SeqEqual
  <2>. QED
    BY <2>7 DEF U
<1>9. Fifo!Get(n)
  BY <1>1, <1>5, <1>6, <1>7, <1>8 DEF Fifo!Get
<1>. QED
  BY <1>5, <1>6, <1>9 DEF Fifo!Next

\* Every step is one of the FIFO, or none.
LEMMA StepFifo ==
  ASSUME TypeOK, [Next]_vars
  PROVE  [Fifo!Next]_(Fifo!vars)
<1>1. ASSUME NEW n \in 0 .. MaxBytes, PushOnBuffer(n) \/ ReadData(n)
      PROVE  Fifo!Next
  BY <1>1, PutFifo
<1>2. ASSUME NEW n \in 0 .. BUFFER_SIZE, WriteData(n)
      PROVE  Fifo!Next
  BY <1>2, GetFifo
<1>3. CASE Throws \/ UNCHANGED vars
  BY <1>3 DEF Throws, vars, Fifo!vars, Waiting
<1>4. CASE Clear
  <2>1. m_queue' = <<>> /\ m_output_position' = BUFFER_SIZE /\ output' = <<>>
    BY <1>4 DEF Clear
  <2>2. TypeOK'
    BY StepType
  <2>3. Waiting' \in Seq(Nat) /\ Len(Waiting') = 0
    <3>1. /\ Waiting' \in Seq(Nat)
          /\ Len(Waiting') = BUFFER_SIZE - m_output_position' + Len(m_queue')
      <4>1. /\ BUFFER_SIZE \in Nat /\ m_output_buf' \in [1 .. BUFFER_SIZE -> Nat]
            /\ m_output_position' \in 0 .. BUFFER_SIZE /\ m_queue' \in Seq(Nat)
        BY <2>2, BufferAssumption DEF TypeOK
      <4>. QED
        BY <4>1, PartThenQueue DEF Waiting
    <3>. QED
      BY <2>1, <3>1, BufferAssumption
  <2>4. Waiting' = <<>>
    BY <2>3, EmptySeq
  <2>. QED
    BY <2>1, <2>4 DEF Fifo!Clear, Fifo!Next
<1>. QED
  BY <1>1, <1>2, <1>3, <1>4, BufferAssumption DEF Next

-------------------------------------------------------------------------------
(***************************************************************************)
(* The theorems.                                                           *)
(***************************************************************************)
\* SockBuffer: the position stays in the array and a refill fits into it.
THEOREM BufferTypeCorrect == Spec => []TypeOK
<1>1. TypeOK /\ [Next]_vars => TypeOK'
  BY StepType
<1>. QED
  BY <1>1, InitType, PTL DEF Spec

\* SockBuffer is a FIFO of bytes, whatever refills, partial writes and clears do.
THEOREM BufferImplementsFifo == Spec => ImplementsFifo
<1>1. TypeOK /\ [Next]_vars => TypeOK' /\ [Fifo!Next]_(Fifo!vars)
  BY StepType, StepFifo
<1>. QED
  BY <1>1, InitType, InitFifo, PTL DEF Spec, ImplementsFifo, Fifo!Spec

-------------------------------------------------------------------------------
(***************************************************************************)
(* Strings in a text, character by character.                              *)
(***************************************************************************)
\* The first n characters of str end at position p of txt.
Ends(txt, str, n, p) == n <= p /\ \A j \in 1 .. n : txt[(p - n) + j] = str[j]

\* No beginning of str ends there.
Fresh(txt, str, p) == \A n \in 1 .. Len(str) : ~Ends(txt, str, n, p)

\* All of txt behind position p is a beginning of str.
Begins(txt, str, p) ==
  Len(txt) - p <= Len(str) /\ \A j \in 1 .. Len(txt) - p : txt[p + j] = str[j]

\* The count c says how much of str has come at the end of txt, unless str has begun
\* within a beginning of itself.
Tracks(txt, str, c) ==
  /\ Ends(txt, str, c, Len(txt))
  /\ \A p \in 0 .. Len(txt) : Fresh(txt, str, p) /\ Begins(txt, str, p) => c = Len(txt) - p

\* What OccursAt and CleanAt say of text.
Occurs(txt, str, p) == p >= Len(str) /\ SubSeq(txt, p - Len(str) + 1, p) = str
Clean(txt, str, p) == Ends(txt, str, Len(str), p) /\ Fresh(txt, str, p - Len(str))

\* u is txt and more.
Extends(u, txt) == Len(txt) <= Len(u) /\ \A j \in 1 .. Len(txt) : u[j] = txt[j]

\* A string occurs where all its characters end.
LEMMA OccursEnds ==
  ASSUME NEW S, NEW txt \in Seq(S), NEW str \in Seq(S), NEW p \in 0 .. Len(txt)
  PROVE  Occurs(txt, str, p) <=> Ends(txt, str, Len(str), p)
<1>1. Len(txt) \in Nat /\ Len(str) \in Nat /\ p \in Nat
  BY LenProperties
<1>2. CASE ~(Len(str) <= p)
  BY ONLY <1>1, <1>2 DEF Occurs, Ends
<1>3. CASE Len(str) <= p
  <2>. DEFINE n == Len(str)
              v == SubSeq(txt, p - n + 1, p)
  <2>1. p - n + 1 \in Int /\ p \in Int /\ \A j \in p - n + 1 .. p : txt[j] \in S
    BY <1>1, <1>3, ElementOfSeq
  <2>2. /\ v \in Seq(S) /\ Len(v) = (IF p - n + 1 <= p THEN p - (p - n + 1) + 1 ELSE 0)
        /\ \A j \in 1 .. p - (p - n + 1) + 1 : v[j] = txt[(p - n + 1) + j - 1]
    BY <2>1, SubSeqProperties
  <2>. HIDE DEF v, n
  <2>3. n \in Nat /\ n <= p
    BY <1>1, <1>3 DEF n
  <2>4. Len(v) = n /\ \A j \in 1 .. n : v[j] = txt[(p - n) + j]
    BY ONLY <1>1, <2>2, <2>3
  <2>5. Occurs(txt, str, p) <=> v = str
    BY <2>3 DEF Occurs, v, n
  <2>6. ASSUME Ends(txt, str, n, p)  PROVE v = str
    <3>1. Len(v) = Len(str) /\ \A j \in 1 .. Len(v) : v[j] = str[j]
      BY ONLY <2>4, <2>6 DEF Ends, n
    <3>. QED  BY <2>2, <3>1, SeqEqual
  <2>7. ASSUME v = str  PROVE Ends(txt, str, n, p)
    BY ONLY <2>3, <2>4, <2>7 DEF Ends
  <2>. QED  BY <2>5, <2>6, <2>7 DEF n
<1>. QED  BY <1>2, <1>3

\* A beginning of a string occurs where its characters end.
LEMMA PrefixEnds ==
  ASSUME NEW S, NEW txt \in Seq(S), NEW str \in Seq(S), NEW p \in 0 .. Len(txt),
         NEW n \in 1 .. Len(str)
  PROVE  Occurs(txt, SubSeq(str, 1, n), p) <=> Ends(txt, str, n, p)
<1>. DEFINE v == SubSeq(str, 1, n)
<1>1. Len(str) \in Nat /\ n \in Nat /\ n \in 1 .. Len(str) /\ 1 \in Int /\ n \in Int
  BY LenProperties
<1>2. \A j \in 1 .. n : str[j] \in S
  BY <1>1, ElementOfSeq
<1>3. /\ v \in Seq(S) /\ Len(v) = (IF 1 <= n THEN n - 1 + 1 ELSE 0)
      /\ \A j \in 1 .. n - 1 + 1 : v[j] = str[1 + j - 1]
  BY <1>1, <1>2, SubSeqProperties
<1>. HIDE DEF v
<1>4. Len(v) = n /\ \A j \in 1 .. n : v[j] = str[j]
  BY ONLY <1>1, <1>3
<1>5. Occurs(txt, v, p) <=> Ends(txt, v, n, p)
  BY <1>3, <1>4, OccursEnds
<1>6. Ends(txt, v, n, p) <=> Ends(txt, str, n, p)
  BY ONLY <1>4 DEF Ends
<1>. QED  BY <1>5, <1>6 DEF v

\* What has ended in a text ends there still when the text goes on.
LEMMA EndsStay ==
  ASSUME NEW S, NEW txt \in Seq(S), NEW u \in Seq(S), Extends(u, txt),
         NEW str, NEW p \in 0 .. Len(txt), NEW n \in Nat
  PROVE  Ends(u, str, n, p) <=> Ends(txt, str, n, p)
<1>1. Len(txt) \in Nat /\ p \in Nat /\ p <= Len(txt)
  BY LenProperties
<1>2. CASE n <= p
  <2>1. \A j \in 1 .. n : (p - n) + j \in 1 .. Len(txt)
    BY ONLY <1>1, <1>2, n \in Nat
  <2>2. \A j \in 1 .. n : u[(p - n) + j] = txt[(p - n) + j]
    BY ONLY <2>1, Extends(u, txt) DEF Extends
  <2>. QED  BY ONLY <2>2 DEF Ends
<1>3. CASE ~(n <= p)
  BY ONLY <1>3 DEF Ends
<1>. QED  BY <1>2, <1>3

LEMMA FreshStays ==
  ASSUME NEW S, NEW txt \in Seq(S), NEW u \in Seq(S), Extends(u, txt),
         NEW str \in Seq(S), NEW p \in 0 .. Len(txt)
  PROVE  Fresh(u, str, p) <=> Fresh(txt, str, p)
<1>1. \A n \in 1 .. Len(str) : n \in Nat
  BY LenProperties
<1>. QED  BY <1>1, EndsStay DEF Fresh

LEMMA CleanStays ==
  ASSUME NEW S, NEW txt \in Seq(S), NEW u \in Seq(S), Extends(u, txt),
         NEW str \in Seq(S), NEW p \in 0 .. Len(txt)
  PROVE  Clean(u, str, p) <=> Clean(txt, str, p)
<1>1. Len(str) \in Nat /\ Len(txt) \in Nat
  BY LenProperties
<1>2. Ends(u, str, Len(str), p) <=> Ends(txt, str, Len(str), p)
  BY <1>1, EndsStay
<1>3. CASE Len(str) <= p
  <2>1. p - Len(str) \in 0 .. Len(txt)
    BY <1>1, <1>3
  <2>. QED  BY <1>2, <2>1, FreshStays DEF Clean
<1>4. CASE ~(Len(str) <= p)
  BY ONLY <1>4 DEF Clean, Ends
<1>. QED  BY <1>3, <1>4

\* One character more: a count that is met by the character goes on, another starts over.
LEMMA EndsNext ==
  ASSUME NEW S, NEW txt \in Seq(S), NEW u \in Seq(S), Extends(u, txt), Len(txt) < Len(u),
         NEW str, NEW c \in Nat, Ends(txt, str, c, Len(txt)), u[Len(txt) + 1] = str[c + 1]
  PROVE  Ends(u, str, c + 1, Len(txt) + 1)
<1>. DEFINE l == Len(txt)
<1>1. l \in Nat
  BY LenProperties
<1>. HIDE DEF l
<1>2. c <= l /\ \A j \in 1 .. c : txt[(l - c) + j] = str[j]
  BY DEF Ends, l
<1>3. \A j \in 1 .. l : u[j] = txt[j]
  BY DEF Extends, l
<1>4. ASSUME NEW j \in 1 .. c + 1
      PROVE  u[((l + 1) - (c + 1)) + j] = str[j]
  <2>1. ((l + 1) - (c + 1)) + j = (l - c) + j
    BY ONLY <1>1, c \in Nat, j \in 1 .. c + 1
  <2>2. CASE j = c + 1
    <3>1. (l - c) + j = l + 1
      BY ONLY <1>1, c \in Nat, <2>2
    <3>. QED  BY <2>1, <2>2, <3>1 DEF l
  <2>3. CASE j # c + 1
    <3>1. j \in 1 .. c /\ (l - c) + j \in 1 .. l
      BY ONLY <1>1, <1>2, c \in Nat, j \in 1 .. c + 1, <2>3
    <3>. QED  BY ONLY <1>2, <1>3, <2>1, <3>1
  <2>. QED  BY <2>2, <2>3
<1>. QED  BY <1>1, <1>2, <1>4 DEF Ends, l

\* u is txt and one character.
Longer(u, txt) == Extends(u, txt) /\ Len(u) = Len(txt) + 1

\* What begins in the longer text has begun before, and its last character fits.
LEMMA BeginsBefore ==
  ASSUME NEW S, NEW txt \in Seq(S), NEW u \in Seq(S), Longer(u, txt),
         NEW str \in Seq(S), NEW p \in 0 .. Len(txt), Begins(u, str, p)
  PROVE  /\ Begins(txt, str, p) /\ Len(txt) - p < Len(str)
         /\ u[Len(txt) + 1] = str[(Len(txt) - p) + 1]
<1>. DEFINE l == Len(txt)
<1>1. l \in Nat /\ p \in Nat /\ p <= l /\ Len(u) = l + 1 /\ Len(str) \in Nat
  BY LenProperties DEF Longer
<1>2. \A j \in 1 .. l : u[j] = txt[j]
  BY DEF Longer, Extends
<1>. HIDE DEF l
<1>3. (l + 1) - p <= Len(str) /\ \A j \in 1 .. (l + 1) - p : u[p + j] = str[j]
  BY <1>1 DEF Begins
<1>4. l - p < Len(str) /\ l - p <= Len(str)
  BY ONLY <1>1, <1>3
<1>5. ASSUME NEW j \in 1 .. l - p  PROVE txt[p + j] = str[j]
  <2>1. j \in 1 .. (l + 1) - p /\ p + j \in 1 .. l
    BY ONLY <1>1, j \in 1 .. l - p
  <2>. QED  BY ONLY <1>2, <1>3, <2>1
<1>6. u[l + 1] = str[(l - p) + 1]
  <2>1. (l - p) + 1 \in 1 .. (l + 1) - p /\ p + ((l - p) + 1) = l + 1
    BY ONLY <1>1
  <2>. QED  BY ONLY <1>3, <2>1
<1>. QED  BY <1>4, <1>5, <1>6 DEF Begins, l

\* The count goes on with the character that str goes on with.
LEMMA TracksNext ==
  ASSUME NEW S, NEW txt \in Seq(S), NEW u \in Seq(S), Longer(u, txt),
         NEW str \in Seq(S), NEW c \in Nat, c < Len(str), Tracks(txt, str, c),
         u[Len(txt) + 1] = str[c + 1]
  PROVE  Tracks(u, str, c + 1)
<1>1. Len(txt) \in Nat /\ Len(u) = Len(txt) + 1 /\ Extends(u, txt) /\ Len(str) \in Nat
  BY LenProperties DEF Longer
<1>2. Len(txt) < Len(u) /\ Ends(txt, str, c, Len(txt))
  BY <1>1 DEF Tracks
<1>3. Ends(u, str, c + 1, Len(u))
  BY <1>1, <1>2, EndsNext
<1>4. ASSUME NEW p \in 0 .. Len(u), Fresh(u, str, p), Begins(u, str, p)
      PROVE  c + 1 = Len(u) - p
  <2>1. CASE p \in 0 .. Len(txt)
    <3>1. Fresh(txt, str, p)
      BY <1>1, <1>4, <2>1, FreshStays
    <3>2. Begins(txt, str, p)
      BY <1>4, <2>1, BeginsBefore
    <3>3. c = Len(txt) - p
      BY <2>1, <3>1, <3>2 DEF Tracks
    <3>. QED  BY <1>1, <2>1, <3>3
  <2>2. CASE p = Len(u)
    <3>1. c + 1 \in 1 .. Len(str)
      BY <1>1
    <3>. QED  BY <1>3, <1>4, <2>2, <3>1 DEF Fresh
  <2>. QED  BY <1>1, <2>1, <2>2
<1>. QED  BY <1>3, <1>4 DEF Tracks

\* It starts over with any other character.
LEMMA TracksLost ==
  ASSUME NEW S, NEW txt \in Seq(S), NEW u \in Seq(S), Longer(u, txt),
         NEW str \in Seq(S), NEW c \in Nat, Tracks(txt, str, c),
         u[Len(txt) + 1] # str[c + 1]
  PROVE  Tracks(u, str, 0)
<1>1. Len(txt) \in Nat /\ Len(u) = Len(txt) + 1 /\ Extends(u, txt)
  BY LenProperties DEF Longer
<1>2. Ends(u, str, 0, Len(u))
  BY <1>1 DEF Ends
<1>3. ASSUME NEW p \in 0 .. Len(u), Fresh(u, str, p), Begins(u, str, p)
      PROVE  0 = Len(u) - p
  <2>1. CASE p \in 0 .. Len(txt)
    <3>1. Fresh(txt, str, p)
      BY <1>1, <1>3, <2>1, FreshStays
    <3>2. Begins(txt, str, p) /\ u[Len(txt) + 1] = str[(Len(txt) - p) + 1]
      BY <1>3, <2>1, BeginsBefore
    <3>3. c = Len(txt) - p
      BY <2>1, <3>1, <3>2 DEF Tracks
    <3>. QED  BY <3>2, <3>3
  <2>. QED  BY <1>1, <2>1
<1>. QED  BY <1>2, <1>3 DEF Tracks

\* A clean occurrence is not missed.
LEMMA CleanFound ==
  ASSUME NEW S, NEW txt \in Seq(S), NEW u \in Seq(S), Longer(u, txt),
         NEW str \in Seq(S), str # <<>>, NEW c \in Nat, Tracks(txt, str, c),
         Clean(u, str, Len(txt) + 1)
  PROVE  c + 1 = Len(str) /\ u[Len(txt) + 1] = str[c + 1]
<1>. DEFINE l == Len(txt)
            n == Len(str)
            t == (l + 1) - n
<1>1. l \in Nat /\ n \in Nat /\ Len(u) = l + 1 /\ Extends(u, txt)
  BY LenProperties DEF Longer
<1>2. n # 0
  BY EmptySeq
<1>3. \A j \in 1 .. l : u[j] = txt[j]
  BY DEF Longer, Extends
<1>4. n <= l + 1 /\ \A j \in 1 .. n : u[((l + 1) - n) + j] = str[j]
  BY DEF Clean, Ends
<1>5. Fresh(u, str, t)
  BY DEF Clean
<1>. HIDE DEF l, n
<1>6. t \in 0 .. l /\ l - t = n - 1
  BY ONLY <1>1, <1>2, <1>4
<1>7. Fresh(txt, str, t)
  BY <1>1, <1>5, <1>6, FreshStays DEF l
<1>8. Begins(txt, str, t)
  <2>1. ASSUME NEW j \in 1 .. l - t  PROVE txt[t + j] = str[j]
    <3>1. j \in 1 .. n /\ t + j \in 1 .. l
      BY ONLY <1>1, <1>6, j \in 1 .. l - t, t = (l + 1) - n
    <3>. QED  BY ONLY <1>3, <1>4, <3>1
  <2>2. l - t <= n
    BY ONLY <1>1, <1>6
  <2>. QED  BY <2>1, <2>2 DEF Begins, l, n
<1>9. c = l - t
  BY <1>6, <1>7, <1>8 DEF Tracks, l
<1>10. c + 1 = n
  BY ONLY <1>1, <1>6, <1>9
<1>11. u[l + 1] = str[n]
  <2>1. n \in 1 .. n /\ ((l + 1) - n) + n = l + 1
    BY ONLY <1>1, <1>2
  <2>. QED  BY ONLY <1>4, <2>1
<1>. QED  BY <1>10, <1>11 DEF l, n

-------------------------------------------------------------------------------
(***************************************************************************)
(* The invariant of the detector: txt is the text, c a count, hs are the   *)
(* places of handshakes and cm those of commands.                          *)
(***************************************************************************)
Early(hs, p) == \A q \in hs : p < q

\* The count of the magic string is right up to the first handshake, and never claims
\* more than has come; handshakes are where the string is.
MagicAs(txt, c, hs) ==
  /\ c < Len(m_magic_string) => Ends(txt, m_magic_string, c, Len(txt))
  /\ hs = {} => c < Len(m_magic_string) /\ Tracks(txt, m_magic_string, c)
  /\ \A q \in hs : q \in 1 .. Len(txt) /\ Ends(txt, m_magic_string, Len(m_magic_string), q)
  /\ \A p \in 1 .. Len(txt) : Clean(txt, m_magic_string, p) => \E q \in hs : q <= p

\* The command of place k, after which the count stays as it is.
Sent(txt, c, hs, cm, k) ==
  /\ cm = <<k>> /\ m_remote_cmd /\ c = Len(m_login_pattern)
  /\ Early(hs, k) => Ends(txt, m_login_pattern, Len(m_login_pattern), k)

LoginAs(txt, c, hs, cm) ==
  /\ hs = {} /\ m_remote_cmd /\ c < Len(m_login_pattern) => Tracks(txt, m_login_pattern, c)
  /\ \/ cm = <<>> /\ (m_login_pattern # <<>> => c < Len(m_login_pattern))
     \/ \E k \in 1 .. Len(txt) : Sent(txt, c, hs, cm, k)
  /\ \A p \in 1 .. Len(txt) :
       /\ m_remote_cmd /\ m_login_pattern # <<>>
       /\ Clean(txt, m_login_pattern, p) /\ Early(hs, p)
       => cm # <<>> /\ cm[1] <= p

\* A character that does not complete the magic string.
LEMMA MagicNext ==
  ASSUME NEW txt \in Seq(Char), NEW u \in Seq(Char), Longer(u, txt), NEW hs,
         NEW c \in 0 .. Len(m_magic_string), MagicAs(txt, c, hs), NEW d,
         d = IF Expected(m_magic_string, c, u[Len(txt) + 1]) THEN c + 1 ELSE 0,
         d # Len(m_magic_string)
  PROVE  MagicAs(u, d, hs)
<1>. DEFINE str == m_magic_string
            l == Len(txt)
<1>1. str \in Seq(Char) /\ str # <<>> /\ Len(str) \in Nat /\ l \in Nat /\ c \in Nat
  BY DetectorAssumption, LenProperties
<1>2. Len(u) = l + 1 /\ Extends(u, txt) /\ l < Len(u)
  BY <1>1 DEF Longer
<1>3. /\ c < Len(str) => Ends(txt, str, c, l)
      /\ hs = {} => c < Len(str) /\ Tracks(txt, str, c)
      /\ \A q \in hs : q \in 1 .. l /\ Ends(txt, str, Len(str), q)
      /\ \A p \in 1 .. l : Clean(txt, str, p) => \E q \in hs : q <= p
  BY DEF MagicAs
<1>4. \/ c < Len(str) /\ str[c + 1] = u[l + 1] /\ d = c + 1
      \/ ~(c < Len(str) /\ str[c + 1] = u[l + 1]) /\ d = 0
  BY DEF Expected
<1>. HIDE DEF str, l
<1>5. d < Len(str)
  <2>1. d # Len(str)
    BY DEF str
  <2>2. Len(str) # 0
    BY <1>1, EmptySeq
  <2>. QED  BY ONLY <1>1, <1>4, <2>1, <2>2
<1>6. Ends(u, str, d, Len(u))
  <2>1. CASE c < Len(str) /\ str[c + 1] = u[l + 1] /\ d = c + 1
    BY <1>1, <1>2, <1>3, <2>1, EndsNext DEF l
  <2>2. CASE d = 0
    BY <1>1, <1>2, <2>2 DEF Ends
  <2>. QED  BY <1>4, <2>1, <2>2
<1>7. ASSUME hs = {}  PROVE Tracks(u, str, d)
  <2>0. c < Len(str) /\ Tracks(txt, str, c)
    BY <1>3, <1>7
  <2>1. CASE str[c + 1] = u[l + 1]
    <3>1. d = c + 1
      BY <1>4, <2>0, <2>1
    <3>. QED  BY <1>1, <2>0, <2>1, <3>1, TracksNext DEF l
  <2>2. CASE str[c + 1] # u[l + 1]
    <3>1. d = 0
      BY <1>4, <2>0, <2>2
    <3>. QED  BY <1>1, <2>0, <2>2, <3>1, TracksLost DEF l
  <2>. QED  BY <2>1, <2>2
<1>8. ASSUME NEW q \in hs  PROVE q \in 1 .. Len(u) /\ Ends(u, str, Len(str), q)
  <2>1. q \in 0 .. l /\ q \in 1 .. Len(u) /\ Ends(txt, str, Len(str), q)
    BY <1>1, <1>2, <1>3, <1>8
  <2>. QED  BY <1>1, <1>2, <2>1, EndsStay DEF l
<1>9. ASSUME NEW p \in 1 .. Len(u), Clean(u, str, p)  PROVE \E q \in hs : q <= p
  <2>1. CASE p \in 1 .. l
    <3>1. Clean(txt, str, p)
      BY <1>1, <1>2, <1>9, <2>1, CleanStays DEF l
    <3>. QED  BY <1>3, <2>1, <3>1
  <2>2. CASE p = l + 1 /\ hs = {}
    <3>1. c + 1 = Len(str) /\ u[l + 1] = str[c + 1]
      BY <1>1, <1>3, <1>9, <2>2, CleanFound DEF l
    <3>. QED  BY <1>1, <1>3, <1>4, <1>5, <2>2, <3>1
  <2>3. CASE p = l + 1 /\ hs # {}
    <3>1. PICK q : q \in hs
      BY <2>3
    <3>2. q \in 1 .. l
      BY <1>3, <3>1
    <3>3. q <= p
      BY ONLY <1>1, <2>3, <3>2
    <3>. QED  BY <3>1, <3>3
  <2>. QED  BY <1>1, <1>2, <2>1, <2>2, <2>3
<1>. QED  BY <1>5, <1>6, <1>7, <1>8, <1>9 DEF MagicAs, str

\* The character that completes it: the rest of the buffer is passed over.
LEMMA MagicMet ==
  ASSUME NEW txt \in Seq(Char), NEW u \in Seq(Char), Extends(u, txt), Len(txt) < Len(u),
         NEW hs, NEW c \in 0 .. Len(m_magic_string), MagicAs(txt, c, hs),
         Expected(m_magic_string, c, u[Len(txt) + 1]), c + 1 = Len(m_magic_string)
  PROVE  MagicAs(u, c + 1, hs \union {Len(txt) + 1})
<1>. DEFINE str == m_magic_string
            l == Len(txt)
            hs1 == hs \union {l + 1}
<1>1. /\ str \in Seq(Char) /\ Len(str) \in Nat /\ l \in Nat /\ c \in Nat /\ Len(u) \in Nat
      /\ l + 1 \in 1 .. Len(u)
  BY DetectorAssumption, LenProperties
<1>2. /\ c < Len(str) /\ Ends(txt, str, c, l) /\ u[l + 1] = str[c + 1]
      /\ \A q \in hs : q \in 1 .. l /\ Ends(txt, str, Len(str), q)
      /\ \A p \in 1 .. l : Clean(txt, str, p) => \E q \in hs : q <= p
  BY <1>1 DEF MagicAs, Expected
<1>. HIDE DEF str, l
<1>3. Ends(u, str, Len(str), l + 1)
  BY <1>1, <1>2, EndsNext DEF l, str
<1>4. ASSUME NEW q \in hs  PROVE q \in 1 .. Len(u) /\ Ends(u, str, Len(str), q)
  <2>1. q \in 0 .. l /\ q \in 1 .. Len(u) /\ Ends(txt, str, Len(str), q)
    BY <1>1, <1>2, <1>4
  <2>. QED  BY <1>1, <2>1, EndsStay DEF l
<1>5. ASSUME NEW p \in 1 .. Len(u), Clean(u, str, p)  PROVE \E q \in hs1 : q <= p
  <2>1. CASE p \in 1 .. l
    <3>1. Clean(txt, str, p)
      BY <1>1, <1>5, <2>1, CleanStays DEF l
    <3>. QED  BY <1>2, <2>1, <3>1
  <2>2. CASE p \notin 1 .. l
    <3>1. l + 1 <= p
      BY ONLY <1>1, <2>2, p \in 1 .. Len(u)
    <3>. QED  BY <3>1
  <2>. QED  BY <2>1, <2>2
<1>6. c + 1 = Len(str) /\ ~(c + 1 < Len(str)) /\ hs1 # {}
  BY <1>1 DEF str
<1>7. \A q \in hs1 : q \in 1 .. Len(u) /\ Ends(u, str, Len(str), q)
  BY <1>1, <1>3, <1>4
<1>. QED  BY <1>5, <1>6, <1>7 DEF MagicAs, str, l

\* Nothing later than the last character is early once there was a handshake.
LEMMA EarlyLast ==
  ASSUME NEW l \in Nat, NEW hs, \A q \in hs : q \in 1 .. l, NEW p \in Nat, l <= p, Early(hs, p)
  PROVE  hs = {}
<1>1. ASSUME NEW q \in hs  PROVE FALSE
  <2>1. q \in 1 .. l /\ p < q
    BY <1>1 DEF Early
  <2>. QED  BY <2>1
<1>. QED  BY <1>1

\* The login pattern goes on with ch.
Hits(c, ch) == m_remote_cmd /\ Expected(m_login_pattern, c, ch)

\* A character for the login pattern.
LEMMA LoginNext ==
  ASSUME NEW txt \in Seq(Char), NEW u \in Seq(Char), Longer(u, txt),
         NEW hs, \A q \in hs : q \in 1 .. Len(txt),
         NEW c \in 0 .. Len(m_login_pattern), NEW cm, LoginAs(txt, c, hs, cm), NEW d, NEW cm1,
         d = IF Hits(c, u[Len(txt) + 1]) THEN c + 1
             ELSE IF c < Len(m_login_pattern) THEN 0 ELSE c,
         cm1 = IF Hits(c, u[Len(txt) + 1]) /\ c + 1 = Len(m_login_pattern)
               THEN Append(cm, Len(txt) + 1) ELSE cm
  PROVE  LoginAs(u, d, hs, cm1)
<1>. DEFINE str == m_login_pattern
            l == Len(txt)
            hit == Hits(c, u[l + 1])
<1>1. /\ str \in Seq(Char) /\ Len(str) \in Nat /\ l \in Nat /\ c \in Nat
      /\ Len(u) = l + 1 /\ Extends(u, txt) /\ l < Len(u) /\ c <= Len(str)
  BY DetectorAssumption, LenProperties DEF Longer
<1>2. /\ hs = {} /\ m_remote_cmd /\ c < Len(str) => Tracks(txt, str, c)
      /\ \/ cm = <<>> /\ (str # <<>> => c < Len(str))
         \/ \E k \in 1 .. l : Sent(txt, c, hs, cm, k)
      /\ \A p \in 1 .. l : m_remote_cmd /\ str # <<>> /\ Clean(txt, str, p) /\ Early(hs, p)
                             => cm # <<>> /\ cm[1] <= p
  BY DEF LoginAs
<1>3. hit <=> m_remote_cmd /\ c < Len(str) /\ str[c + 1] = u[l + 1]
  BY DEF Hits, Expected
<1>4. /\ d = IF hit THEN c + 1 ELSE IF c < Len(str) THEN 0 ELSE c
      /\ cm1 = IF hit /\ c + 1 = Len(str) THEN Append(cm, l + 1) ELSE cm
      /\ \A q \in hs : q \in 1 .. l
  OBVIOUS
<1>5. str # <<>> <=> Len(str) # 0
  BY <1>1, EmptySeq
<1>6. Longer(u, txt) /\ Len(txt) = l
  OBVIOUS
<1>. HIDE DEF str, l, hit
<1>7. ASSUME hs = {}, m_remote_cmd, d < Len(str)  PROVE Tracks(u, str, d)
  <2>1. c < Len(str)
    BY ONLY <1>1, <1>3, <1>4, <1>7
  <2>2. Tracks(txt, str, c)
    BY <1>2, <1>7, <2>1
  <2>3. CASE str[c + 1] = u[l + 1]
    <3>1. d = c + 1
      BY ONLY <1>3, <1>4, <1>7, <2>1, <2>3
    <3>. QED  BY <1>1, <1>6, <2>1, <2>2, <2>3, <3>1, TracksNext
  <2>4. CASE str[c + 1] # u[l + 1]
    <3>1. d = 0
      BY ONLY <1>3, <1>4, <2>1, <2>4
    <3>. QED  BY <1>1, <1>6, <2>2, <2>4, <3>1, TracksLost
  <2>. QED  BY <2>3, <2>4
<1>8. CASE cm = <<>> /\ (str # <<>> => c < Len(str))
  <2>1. CASE hit /\ c + 1 = Len(str)
    <3>1. cm1 = <<l + 1>> /\ m_remote_cmd /\ d = Len(str) /\ c < Len(str) /\ str[c + 1] = u[l + 1]
      <4>1. cm1 = Append(<<>>, l + 1)
        BY <1>4, <1>8, <2>1
      <4>2. cm1 = <<l + 1>>
        BY ONLY <4>1
      <4>3. m_remote_cmd /\ c < Len(str) /\ str[c + 1] = u[l + 1]
        BY ONLY <1>3, <2>1
      <4>4. d = Len(str)
        BY ONLY <1>4, <2>1
      <4>. QED  BY <4>2, <4>3, <4>4
    <3>2. ASSUME Early(hs, l + 1)  PROVE Ends(u, str, Len(str), l + 1)
      <4>1. hs = {}
        <5>1. l + 1 \in Nat /\ l <= l + 1
          BY <1>1
        <5>. QED  BY <1>1, <1>4, <3>2, <5>1, EarlyLast
      <4>2. Ends(txt, str, c, l)
        BY <1>2, <1>6, <3>1, <4>1 DEF Tracks
      <4>3. Ends(u, str, c + 1, l + 1)
        BY <1>1, <1>6, <3>1, <4>2, EndsNext
      <4>. QED  BY <2>1, <4>3
    <3>3. Sent(u, d, hs, cm1, l + 1) /\ l + 1 \in 1 .. Len(u)
      <4>1. l + 1 \in 1 .. Len(u)
        BY ONLY <1>1
      <4>. QED  BY <3>1, <3>2, <4>1, Zenon DEF Sent, str
    <3>4. \A p \in 1 .. Len(u) : Early(hs, p) /\ Clean(u, str, p) => cm1 # <<>> /\ cm1[1] <= p
      <4>1. ASSUME NEW p \in 1 .. l, m_remote_cmd, Early(hs, p), Clean(u, str, p)
            PROVE  FALSE
        <5>1. Clean(txt, str, p) /\ p \in 0 .. l
          BY <1>1, <1>6, <4>1, CleanStays
        <5>2. str # <<>>
          BY ONLY <1>1, <1>5, <3>1
        <5>. QED  BY <1>2, <1>8, <4>1, <5>1, <5>2
      <4>2. cm1 # <<>> /\ cm1[1] = l + 1
        BY ONLY <3>1
      <4>. QED  BY <1>1, <3>1, <4>1, <4>2
    <3>. QED  BY <1>7, <3>3, <3>4 DEF LoginAs, str
  <2>2. CASE ~(hit /\ c + 1 = Len(str))
    <3>1. cm1 = <<>> /\ (str # <<>> => d < Len(str))
      BY ONLY <1>1, <1>3, <1>4, <1>5, <1>8, <2>2
    <3>2. ASSUME NEW p \in 1 .. Len(u), m_remote_cmd, str # <<>>, Clean(u, str, p), Early(hs, p)
          PROVE  FALSE
      <4>1. CASE p \in 1 .. l
        <5>1. Clean(txt, str, p)
          BY <1>1, <1>6, <3>2, <4>1, CleanStays
        <5>. QED  BY <1>2, <1>8, <3>2, <4>1, <5>1
      <4>2. CASE p = l + 1
        <5>1. hs = {}
          <6>1. l + 1 \in Nat /\ l <= l + 1
            BY <1>1
          <6>. QED  BY <1>1, <1>4, <3>2, <4>2, <6>1, EarlyLast
        <5>2. c < Len(str) /\ Tracks(txt, str, c)
          BY <1>2, <1>8, <3>2, <5>1
        <5>3. c + 1 = Len(str) /\ u[l + 1] = str[c + 1]
          BY <1>1, <1>6, <3>2, <4>2, <5>2, CleanFound
        <5>. QED  BY <1>3, <2>2, <3>2, <5>2, <5>3
      <4>. QED  BY <1>1, <4>1, <4>2
    <3>. QED  BY <1>7, <3>1, <3>2 DEF LoginAs, str
  <2>. QED  BY <2>1, <2>2
<1>9. CASE \E k \in 1 .. l : Sent(txt, c, hs, cm, k)
  <2>1. PICK k \in 1 .. l : Sent(txt, c, hs, cm, k)
    BY <1>9
  <2>2. cm = <<k>> /\ m_remote_cmd /\ c = Len(str) /\ (Early(hs, k) => Ends(txt, str, Len(str), k))
    BY <2>1 DEF Sent, str
  <2>3. ~hit /\ d = c /\ cm1 = cm
    BY ONLY <1>1, <1>3, <1>4, <2>2
  <2>4. k \in 0 .. l /\ k \in 1 .. Len(u)
    BY <1>1
  <2>5. Sent(u, d, hs, cm1, k)
    <3>1. Ends(u, str, Len(str), k) <=> Ends(txt, str, Len(str), k)
      BY <1>1, <1>6, <2>4, EndsStay
    <3>. QED  BY <2>2, <2>3, <3>1 DEF Sent, str
  <2>6. ASSUME NEW p \in 1 .. Len(u), m_remote_cmd, str # <<>>, Clean(u, str, p), Early(hs, p)
        PROVE  cm1 # <<>> /\ cm1[1] <= p
    <3>1. CASE p \in 1 .. l
      <4>1. Clean(txt, str, p)
        BY <1>1, <1>6, <2>6, <3>1, CleanStays
      <4>. QED  BY <1>2, <2>3, <2>6, <3>1, <4>1
    <3>2. CASE p = l + 1
      <4>1. cm1[1] = k /\ cm1 # <<>>
        BY <2>2, <2>3
      <4>. QED  BY <1>1, <3>2, <4>1, SMTT(30)
    <3>. QED  BY <1>1, <3>1, <3>2
  <2>. QED  BY <1>7, <2>4, <2>5, <2>6 DEF LoginAs, str
<1>. QED  BY <1>2, <1>8, <1>9

\* The magic string was met first: the login pattern is not looked at.
LEMMA LoginPassed ==
  ASSUME NEW txt \in Seq(Char), NEW u \in Seq(Char), Extends(u, txt), Len(txt) < Len(u),
         NEW hs, NEW c, NEW cm, LoginAs(txt, c, hs, cm)
  PROVE  LoginAs(u, c, hs \union {Len(txt) + 1}, cm)
<1>. DEFINE str == m_login_pattern
            l == Len(txt)
            hs1 == hs \union {l + 1}
<1>1. str \in Seq(Char) /\ Len(str) \in Nat /\ l \in Nat /\ Len(u) \in Nat /\ l < Len(u)
  BY DetectorAssumption, LenProperties
<1>2. /\ \/ cm = <<>> /\ (str # <<>> => c < Len(str))
         \/ \E k \in 1 .. l : Sent(txt, c, hs, cm, k)
      /\ \A p \in 1 .. l : m_remote_cmd /\ str # <<>> /\ Clean(txt, str, p) /\ Early(hs, p)
                             => cm # <<>> /\ cm[1] <= p
  BY DEF LoginAs
<1>3. \A p : Early(hs1, p) => Early(hs, p) /\ p < l + 1
  BY DEF Early
<1>4. Len(txt) = l /\ hs1 # {}
  OBVIOUS
<1>. HIDE DEF str, l, hs1
<1>5. ASSUME NEW k \in 1 .. l, Sent(txt, c, hs, cm, k)
      PROVE  k \in 1 .. Len(u) /\ Sent(u, c, hs1, cm, k)
  <2>1. k \in 0 .. l /\ k \in 1 .. Len(u)
    BY <1>1
  <2>2. Ends(u, str, Len(str), k) <=> Ends(txt, str, Len(str), k)
    BY <1>1, <1>4, <2>1, EndsStay
  <2>. QED  BY <1>3, <1>5, <2>1, <2>2 DEF Sent, str
<1>6. ASSUME NEW p \in 1 .. Len(u), m_remote_cmd, str # <<>>, Clean(u, str, p), Early(hs1, p)
      PROVE  cm # <<>> /\ cm[1] <= p
  <2>1. Early(hs, p) /\ p < l + 1
    BY <1>3, <1>6
  <2>2. p \in 1 .. l /\ p \in 0 .. l
    BY ONLY <1>1, <2>1, p \in 1 .. Len(u)
  <2>3. Clean(txt, str, p)
    BY <1>1, <1>4, <1>6, <2>2, CleanStays
  <2>. QED  BY <1>2, <1>6, <2>1, <2>2, <2>3
<1>. QED  BY <1>2, <1>4, <1>5, <1>6 DEF LoginAs, str, l, hs1

-------------------------------------------------------------------------------
(***************************************************************************)
(* The steps of the detector.                                              *)
(***************************************************************************)
DetectorType ==
  /\ input_buf \in Seq(Char) /\ i \in Nat \ {0} /\ read_total \in Nat
  /\ m_recognized_count \in 0 .. Len(m_magic_string)
  /\ m_recognized_login_count \in 0 .. Len(m_login_pattern)
  /\ text \in Seq(Char)

Matched ==
  /\ MagicAs(text, m_recognized_count, handshakes)
  /\ LoginAs(text, m_recognized_login_count, handshakes, commands)

DetectorInv == TypeOK /\ DetectorType /\ Matched

\* Before anything is read, both counts are right.
LEMMA InitDetector == DetectorInit => DetectorInv
<1>. SUFFICES ASSUME DetectorInit  PROVE DetectorInv
  OBVIOUS
<1>1. /\ input_buf = <<>> /\ i = 1 /\ read_total = 0 /\ m_recognized_count = 0
      /\ m_recognized_login_count = 0 /\ text = <<>> /\ handshakes = {} /\ commands = <<>>
  BY DEF DetectorInit
<1>2. TypeOK
  BY InitType DEF DetectorInit
<1>3. /\ <<>> \in Seq(Char) /\ Len(<<>>) = 0
      /\ Len(m_magic_string) \in Nat \ {0} /\ Len(m_login_pattern) \in Nat
  BY DetectorAssumption, LenProperties, EmptySeq
<1>4. \A str : Tracks(<<>>, str, 0) /\ Ends(<<>>, str, 0, 0)
  BY <1>3 DEF Tracks, Ends
<1>5. MagicAs(<<>>, 0, {})
  BY <1>3, <1>4 DEF MagicAs
<1>6. LoginAs(<<>>, 0, {}, <<>>)
  <2>1. m_login_pattern # <<>> => 0 < Len(m_login_pattern)
    BY <1>3, DetectorAssumption, EmptySeq
  <2>. QED  BY <1>3, <1>4, <2>1 DEF LoginAs
<1>7. Matched
  BY <1>1, <1>5, <1>6 DEF Matched
<1>8. DetectorType
  BY <1>1, <1>3 DEF DetectorType
<1>. QED  BY <1>2, <1>7, <1>8 DEF DetectorInv

\* The characters of a buffer that are passed over, or the one that is looked at.
LEMMA RestOf ==
  ASSUME NEW S, NEW txt \in Seq(S), NEW buf \in Seq(S), NEW n \in 1 .. Len(buf)
  PROVE  /\ txt \o SubSeq(buf, n, Len(buf)) \in Seq(S)
         /\ Extends(txt \o SubSeq(buf, n, Len(buf)), txt)
         /\ Len(txt) < Len(txt \o SubSeq(buf, n, Len(buf)))
         /\ (txt \o SubSeq(buf, n, Len(buf)))[Len(txt) + 1] = buf[n]
<1>. DEFINE v == SubSeq(buf, n, Len(buf))
            m == Len(buf)
<1>1. Len(txt) \in Nat /\ m \in Nat /\ n \in Int /\ m \in Int
  BY LenProperties
<1>2. \A j \in n .. m : buf[j] \in S
  BY <1>1, ElementOfSeq
<1>3. /\ v \in Seq(S) /\ Len(v) = (IF n <= m THEN m - n + 1 ELSE 0)
      /\ \A j \in 1 .. m - n + 1 : v[j] = buf[n + j - 1]
  BY <1>1, <1>2, SubSeqProperties
<1>. HIDE DEF v
<1>4. /\ txt \o v \in Seq(S) /\ Len(txt \o v) = Len(txt) + Len(v)
      /\ \A j \in 1 .. Len(txt) + Len(v) :
           (txt \o v)[j] = IF j <= Len(txt) THEN txt[j] ELSE v[j - Len(txt)]
  BY <1>3, ConcatProperties
<1>5. Len(v) = (m - n) + 1 /\ Len(v) >= 1 /\ v[1] = buf[n]
  BY <1>1, <1>3
<1>6. Extends(txt \o v, txt) /\ Len(txt) < Len(txt \o v)
  BY <1>1, <1>4, <1>5 DEF Extends
<1>7. (txt \o v)[Len(txt) + 1] = v[1]
  <2>1. Len(txt) + 1 \in 1 .. Len(txt) + Len(v) /\ ~(Len(txt) + 1 <= Len(txt))
    BY <1>1, <1>5
  <2>2. (Len(txt) + 1) - Len(txt) = 1
    BY <1>1
  <2>. QED  BY <1>4, <2>1, <2>2
<1>. QED  BY <1>4, <1>5, <1>6, <1>7 DEF v

LEMMA AppendLonger ==
  ASSUME NEW S, NEW txt \in Seq(S), NEW ch \in S
  PROVE  /\ Append(txt, ch) \in Seq(S) /\ Longer(Append(txt, ch), txt)
         /\ Append(txt, ch)[Len(txt) + 1] = ch
BY LenProperties, AppendProperties DEF Longer, Extends

\* One turn of the loop of processReadData.
LEMMA ProcessCharMatched ==
  ASSUME DetectorInv, ProcessChar
  PROVE  DetectorType' /\ Matched'
<1>. DEFINE ch == input_buf[i]
            c == m_recognized_count
            e == m_recognized_login_count
            l == Len(text)
<1>1. /\ input_buf \in Seq(Char) /\ i \in Nat \ {0} /\ read_total \in Nat /\ text \in Seq(Char)
      /\ c \in 0 .. Len(m_magic_string) /\ e \in 0 .. Len(m_login_pattern)
      /\ Len(m_magic_string) \in Nat /\ Len(m_login_pattern) \in Nat /\ Len(input_buf) \in Nat
      /\ MagicAs(text, c, handshakes) /\ LoginAs(text, e, handshakes, commands)
  BY DetectorAssumption, LenProperties DEF DetectorInv, DetectorType, Matched
<1>2. /\ i \in 1 .. Len(input_buf) /\ input_buf' = input_buf /\ read_total' = read_total
      /\ m_recognized_count' = IF Expected(m_magic_string, c, ch) THEN c + 1 ELSE 0
  BY <1>1 DEF ProcessChar, MatchMagic
<1>3. ch \in Char
  BY <1>1, <1>2, ElementOfSeq
<1>4. m_recognized_count' \in 0 .. Len(m_magic_string)
  BY <1>1, <1>2 DEF Expected
<1>. HIDE DEF ch, l
<1>5. CASE /\ m_recognized_count' = Len(m_magic_string)
           /\ handshakes' = handshakes \union {l + 1}
           /\ text' = text \o SubSeq(input_buf, i, Len(input_buf))
           /\ i' = Len(input_buf) + 1
           /\ UNCHANGED <<m_recognized_login_count, commands>>
  <2>1. /\ text' \in Seq(Char) /\ Extends(text', text) /\ Len(text) < Len(text')
        /\ text'[Len(text) + 1] = ch
    BY <1>1, <1>2, <1>5, RestOf DEF ch
  <2>2. Expected(m_magic_string, c, ch) /\ c + 1 = Len(m_magic_string)
    <3>1. Len(m_magic_string) # 0
      BY DetectorAssumption, EmptySeq
    <3>. QED  BY <1>2, <1>5, <3>1
  <2>3. MagicAs(text', c + 1, handshakes \union {Len(text) + 1})
    BY <1>1, <2>1, <2>2, MagicMet
  <2>4. LoginAs(text', e, handshakes \union {Len(text) + 1}, commands)
    BY <1>1, <2>1, LoginPassed
  <2>5. Matched'
    BY <1>5, <2>2, <2>3, <2>4 DEF Matched, l
  <2>6. DetectorType'
    BY <1>1, <1>2, <1>4, <1>5, <2>1 DEF DetectorType
  <2>. QED  BY <2>5, <2>6
<1>6. CASE /\ m_recognized_count' # Len(m_magic_string)
           /\ MatchLogin(ch)
           /\ text' = Append(text, ch)
           /\ i' = i + 1
           /\ UNCHANGED handshakes
  <2>1. text' \in Seq(Char) /\ Longer(text', text) /\ text'[Len(text) + 1] = ch
    BY <1>1, <1>3, <1>6, AppendLonger
  <2>2. MagicAs(text', m_recognized_count', handshakes)
    BY <1>1, <1>2, <1>6, <2>1, MagicNext
  <2>3. /\ m_recognized_login_count' =
             IF Hits(e, ch) THEN e + 1 ELSE IF e < Len(m_login_pattern) THEN 0 ELSE e
        /\ commands' = IF Hits(e, ch) /\ e + 1 = Len(m_login_pattern)
                       THEN Append(commands, Len(text) + 1) ELSE commands
    BY <1>6 DEF MatchLogin, Hits
  <2>4. \A q \in handshakes : q \in 1 .. Len(text)
    BY <1>1 DEF MagicAs
  <2>5. m_recognized_login_count' \in 0 .. Len(m_login_pattern)
    BY <1>1, <2>3 DEF Hits, Expected
  <2>6. /\ m_recognized_login_count' =
             IF Hits(e, text'[Len(text) + 1]) THEN e + 1
             ELSE IF e < Len(m_login_pattern) THEN 0 ELSE e
        /\ commands' = IF Hits(e, text'[Len(text) + 1]) /\ e + 1 = Len(m_login_pattern)
                       THEN Append(commands, Len(text) + 1) ELSE commands
    BY <2>1, <2>3
  <2>7. LoginAs(text', m_recognized_login_count', handshakes, commands')
    BY <1>1, <2>1, <2>4, <2>6, LoginNext
  <2>8. Matched'
    BY <1>6, <2>2, <2>7 DEF Matched
  <2>9. DetectorType'
    BY <1>1, <1>2, <1>4, <1>6, <2>1, <2>5 DEF DetectorType
  <2>. QED  BY <2>8, <2>9
<1>7. \/ /\ m_recognized_count' = Len(m_magic_string)
         /\ handshakes' = handshakes \union {l + 1}
         /\ text' = text \o SubSeq(input_buf, i, Len(input_buf))
         /\ i' = Len(input_buf) + 1
         /\ UNCHANGED <<m_recognized_login_count, commands>>
      \/ /\ m_recognized_count' # Len(m_magic_string)
         /\ MatchLogin(ch)
         /\ text' = Append(text, ch)
         /\ i' = i + 1
         /\ UNCHANGED handshakes
  BY DEF ProcessChar, ch, l
<1>. QED  BY <1>5, <1>6, <1>7

\* Looking for strings changes nothing about the buffer: each step of the terminal's
\* buffer is one of SockBuffer.
LEMMA DetectorStep ==
  ASSUME TypeOK, DetectorType, [DetectorNext]_<<vars, detector>>
  PROVE  [Next]_vars
<1>1. CASE Read
  BY <1>1 DEF Read, Reads
<1>2. CASE ProcessChar
  BY <1>2 DEF ProcessChar
<1>3. CASE Inserts
  <2>1. ReadData(0) \/ PushOnBuffer(Len(input_buf))
    BY <1>3 DEF Inserts
  <2>2. Len(input_buf) \in Nat /\ MaxBytes \in Nat /\ came \in Nat
    BY LenProperties, BufferAssumption DEF DetectorType, TypeOK
  <2>3. CASE ReadData(0)
    <3>1. 0 \in 0 .. MaxBytes
      BY <2>2
    <3>. QED  BY <2>3, <3>1 DEF Next
  <2>4. CASE PushOnBuffer(Len(input_buf)) /\ Len(input_buf) # 0
    <3>1. Len(input_buf) \in 1 .. MaxBytes
      BY <2>2, <2>4 DEF PushOnBuffer
    <3>. QED  BY <2>4, <3>1 DEF Next
  <2>5. CASE PushOnBuffer(Len(input_buf)) /\ Len(input_buf) = 0
    <3>1. Bytes(0) = <<>>
      BY DEF Bytes
    <3>2. m_queue \o <<>> = m_queue /\ came + 0 = came
      BY <2>2, ConcatEmptySeq DEF TypeOK
    <3>. QED  BY <2>5, <3>1, <3>2 DEF PushOnBuffer, vars
  <2>. QED  BY <2>1, <2>3, <2>4, <2>5
<1>4. CASE Throws
  BY <1>4 DEF Next
<1>5. CASE \/ \E n \in 1 .. MaxBytes : PushOnBuffer(n)
           \/ \E n \in 0 .. BUFFER_SIZE : WriteData(n)
           \/ Clear
  BY <1>5 DEF Next
<1>6. CASE UNCHANGED <<vars, detector>>
  BY <1>6
<1>. QED  BY <1>1, <1>2, <1>3, <1>4, <1>5, <1>6 DEF DetectorNext

\* A step of the detector.
LEMMA DetectorInvStep ==
  ASSUME DetectorInv, [DetectorNext]_<<vars, detector>>
  PROVE  DetectorInv'
<1>1. TypeOK'
  BY StepType, DetectorStep DEF DetectorInv
<1>2. CASE Read
  <2>1. PICK n \in 0 .. Least(BUFFER_SIZE, MaxText - Len(text)) :
          \E s \in [1 .. n -> Char] : Reads(s)
    BY <1>2 DEF Read
  <2>2. PICK s \in [1 .. n -> Char] : Reads(s)
    BY <2>1
  <2>3. n \in Nat
    BY <2>1
  <2>4. s \in Seq(Char)
    BY <2>2, <2>3
  <2>. QED  BY <1>1, <2>2, <2>4 DEF Reads, DetectorInv, DetectorType, Matched
<1>3. CASE ProcessChar
  BY <1>1, <1>3, ProcessCharMatched DEF DetectorInv
<1>4. CASE Inserts
  <2>1. /\ input_buf' = <<>> /\ i' = 1 /\ read_total' \in {0, read_total + Len(input_buf)}
        /\ UNCHANGED <<m_recognized_count, m_recognized_login_count, text, handshakes, commands>>
    BY <1>4 DEF Inserts
  <2>2. read_total' \in Nat
    BY <2>1, LenProperties DEF DetectorInv, DetectorType
  <2>. QED  BY <1>1, <2>1, <2>2 DEF DetectorInv, DetectorType, Matched
<1>5. CASE UNCHANGED detector
  BY <1>1, <1>5 DEF detector, DetectorInv, DetectorType, Matched
<1>. QED  BY <1>2, <1>3, <1>4, <1>5 DEF DetectorNext

\* What the invariant says in the words of the properties.
LEMMA TextOccurs ==
  ASSUME NEW txt \in Seq(Char), NEW str \in Seq(Char), NEW p \in 0 .. Len(txt), txt = text
  PROVE  /\ OccursAt(str, p) <=> Ends(txt, str, Len(str), p)
         /\ CleanAt(str, p) <=> Clean(txt, str, p)
<1>1. OccursAt(str, p) <=> Ends(txt, str, Len(str), p)
  BY OccursEnds DEF OccursAt, Occurs
<1>2. ASSUME OccursAt(str, p)
      PROVE  \A n \in 1 .. Len(str) :
               OccursAt(SubSeq(str, 1, n), p - Len(str)) <=> Ends(txt, str, n, p - Len(str))
  <2>1. p - Len(str) \in 0 .. Len(txt)
    BY <1>2, LenProperties DEF OccursAt
  <2>2. \A v, q : OccursAt(v, q) <=> Occurs(txt, v, q)
    BY DEF OccursAt, Occurs
  <2>3. \A n \in 1 .. Len(str) :
          Occurs(txt, SubSeq(str, 1, n), p - Len(str)) <=> Ends(txt, str, n, p - Len(str))
    BY <2>1, PrefixEnds
  <2>. QED  BY <2>2, <2>3
<1>. QED  BY <1>1, <1>2 DEF CleanAt, Clean, Fresh

LEMMA InvDetected == DetectorInv => HandshakeDetected
<1>. SUFFICES ASSUME DetectorInv  PROVE HandshakeDetected
  OBVIOUS
<1>1. /\ text \in Seq(Char) /\ Len(text) \in Nat /\ m_magic_string \in Seq(Char)
      /\ MagicAs(text, m_recognized_count, handshakes)
  BY DetectorAssumption, LenProperties DEF DetectorInv, DetectorType, Matched
<1>2. \A p \in 1 .. Len(text) : p \in 0 .. Len(text)
  BY <1>1
<1>3. /\ \A q \in handshakes : q \in 1 .. Len(text)
                                 /\ Ends(text, m_magic_string, Len(m_magic_string), q)
      /\ \A p \in 1 .. Len(text) : Clean(text, m_magic_string, p) => \E q \in handshakes : q <= p
  BY <1>1 DEF MagicAs
<1>. QED  BY <1>1, <1>2, <1>3, TextOccurs DEF HandshakeDetected

LEMMA InvSent == DetectorInv => CommandSentOnce
<1>. SUFFICES ASSUME DetectorInv  PROVE CommandSentOnce
  OBVIOUS
<1>. DEFINE str == m_login_pattern
<1>1. /\ text \in Seq(Char) /\ Len(text) \in Nat /\ str \in Seq(Char)
      /\ LoginAs(text, m_recognized_login_count, handshakes, commands)
  BY DetectorAssumption, LenProperties DEF DetectorInv, DetectorType, Matched
<1>2. \A p \in 1 .. Len(text) : p \in 0 .. Len(text)
  BY <1>1
<1>3. ASSUME NEW p \in 1 .. Len(text)
      PROVE  (OccursAt(str, p) <=> Ends(text, str, Len(str), p))
             /\ (CleanAt(str, p) <=> Clean(text, str, p))
  BY <1>1, <1>2, TextOccurs
<1>. HIDE DEF str
<1>4. \A p \in 1 .. Len(text) :
        m_remote_cmd /\ str # <<>> /\ CleanAt(str, p) /\ Early(handshakes, p)
          => commands # <<>> /\ commands[1] <= p
  BY <1>1, <1>3 DEF LoginAs, str
<1>5. CASE commands = <<>>
  <2>1. Len(commands) = 0
    BY <1>5
  <2>. QED  BY <1>4, <1>5, <2>1 DEF CommandSentOnce, Early, str
<1>6. CASE \E k \in 1 .. Len(text) :
             Sent(text, m_recognized_login_count, handshakes, commands, k)
  <2>1. PICK k \in 1 .. Len(text) :
             Sent(text, m_recognized_login_count, handshakes, commands, k)
    BY <1>6
  <2>2. /\ commands = <<k>> /\ m_remote_cmd
        /\ Early(handshakes, k) => OccursAt(str, k)
    BY <1>3, <2>1 DEF Sent, str
  <2>3. Len(commands) = 1 /\ commands[1] = k
    BY ONLY <2>2
  <2>4. \A n \in 1 .. Len(commands) : n = 1
    BY <2>3
  <2>5. 1 \in 1 .. Len(commands) /\ Len(commands) <= 1
    BY <2>3
  <2>. QED  BY <1>4, <2>2, <2>3, <2>4, <2>5 DEF CommandSentOnce, Early, str
<1>. QED  BY <1>1, <1>5, <1>6 DEF LoginAs

\* The invariant holds in every state.
LEMMA DetectorInvariant == DetectorSpec => []DetectorInv
<1>1. DetectorInv /\ [DetectorNext]_<<vars, detector>> => DetectorInv'
  BY DetectorInvStep
<1>. QED  BY <1>1, InitDetector, PTL DEF DetectorSpec

\* The same for the buffer of the terminal, which looks for strings in what it reads.
THEOREM DetectorTypeCorrect == DetectorSpec => []TypeOK
<1>1. DetectorInv => TypeOK
  BY DEF DetectorInv
<1>. QED  BY <1>1, DetectorInvariant, PTL

\* With the detector in front, which looks at every byte and may start the handshake,
\* the bytes still come out as they came in.
THEOREM DetectorImplementsFifo == DetectorSpec => ImplementsFifo
<1>1. DetectorInv /\ [DetectorNext]_<<vars, detector>> => [Fifo!Next]_(Fifo!vars)
  BY StepFifo, DetectorStep DEF DetectorInv
<1>2. DetectorInit => Fifo!Init
  BY InitFifo DEF DetectorInit
<1>. QED
  BY <1>1, <1>2, DetectorInvariant, PTL DEF DetectorSpec, ImplementsFifo, Fifo!Spec

\* MagicStringDetector starts the handshake where the magic string is, and misses only
\* one that follows a beginning of itself, for any string, text and cuts of it.
THEOREM HandshakeDetectedCorrect == DetectorSpec => []HandshakeDetected
BY DetectorInvariant, InvDetected, PTL

\* The remote command is written once at most, and where the login pattern is.
THEOREM CommandSentOnceCorrect == DetectorSpec => []CommandSentOnce
BY DetectorInvariant, InvSent, PTL
===============================================================================
