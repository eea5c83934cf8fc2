------------------------------ MODULE SockBuffer ------------------------------
(***************************************************************************)
(* The buffer between a reader and a socket of                             *)
(* src/com/antlersoft/net/SockBuffer.cpp.  Bytes wait in m_queue and are   *)
(* moved to the end of m_output_buf, up to BUFFER_SIZE at a time, once all *)
(* bytes there have been written.  The bytes are numbered by the order in  *)
(* which they come.                                                        *)
(***************************************************************************)
EXTENDS Integers, Sequences

CONSTANTS
  BUFFER_SIZE,
  MaxBytes       \* bound: bytes put in

ASSUME BufferAssumption == BUFFER_SIZE \in Nat \ {0} /\ MaxBytes \in Nat

VARIABLES
  m_queue,
  m_output_buf,       \* position p of the array is m_output_buf[p + 1]
  m_output_position,  \* first unwritten position of m_output_buf
  came,               \* history: bytes put in
  output,             \* history: bytes written since the last clear()
  closed              \* readData has returned 0 or a call has thrown: the owner
                      \* gives up

vars == <<m_queue, m_output_buf, m_output_position, came, output, closed>>

TypeOK ==
  /\ m_queue \in Seq(Nat)
  /\ m_output_buf \in [1 .. BUFFER_SIZE -> Nat]
  /\ m_output_position \in 0 .. BUFFER_SIZE
  /\ came \in 0 .. MaxBytes
  /\ output \in Seq(Nat)
  /\ closed \in BOOLEAN

\* The array is not initialised; 0 stands for what is in it.
Init ==
  /\ m_queue = <<>>
  /\ m_output_buf = [p \in 1 .. BUFFER_SIZE |-> 0]
  /\ m_output_position = BUFFER_SIZE
  /\ came = 0
  /\ output = <<>>
  /\ closed = FALSE

\* The next n bytes.
Bytes(n) == [i \in 1 .. n |-> came + i]

-------------------------------------------------------------------------------
\* pushOnBuffer
PushOnBuffer(n) ==
  /\ ~closed
  /\ came + n <= MaxBytes
  /\ m_queue' = m_queue \o Bytes(n)
  /\ came' = came + n
  /\ UNCHANGED <<m_output_buf, m_output_position, output, closed>>

\* readData: n bytes by all the reads of the loop, the last of which is shorter than
\* BUFFER_SIZE.  End of file and the errors that count as no bytes return 0.
ReadData(n) ==
  /\ ~closed
  /\ came + n <= MaxBytes
  /\ m_queue' = m_queue \o Bytes(n)
  /\ came' = came + n
  /\ closed' = (n = 0)
  /\ UNCHANGED <<m_output_buf, m_output_position, output>>

Least(a, b) == IF a < b THEN a ELSE b

\* Variants for testing the properties: the refill is not limited, overwrites what is
\* unwritten, or waits for a full buffer.
FillSizeAny == IF m_output_position = BUFFER_SIZE THEN Len(m_queue) ELSE 0
FillSizeAlways == Least(Len(m_queue), m_output_position)
FillSizeFull ==
  IF m_output_position = BUFFER_SIZE /\ Len(m_queue) >= BUFFER_SIZE THEN BUFFER_SIZE ELSE 0

\* Bytes moved from m_queue by writeData.
FillSize ==
  IF m_output_position = BUFFER_SIZE THEN Least(Len(m_queue), BUFFER_SIZE) ELSE 0

\* writeData: the refill, then write() takes n bytes.
WriteData(n) ==
  LET first == m_output_position - FillSize
      buf == [p \in 1 .. BUFFER_SIZE |->
                IF p > BUFFER_SIZE - FillSize THEN m_queue[p - (BUFFER_SIZE - FillSize)]
                                              ELSE m_output_buf[p]]
  IN  /\ ~closed
      /\ first + n <= BUFFER_SIZE
      /\ m_output_buf' = buf
      /\ m_queue' = SubSeq(m_queue, FillSize + 1, Len(m_queue))
      /\ m_output_position' = first + n
      /\ output' = output \o SubSeq(buf, first + 1, first + n)
      /\ UNCHANGED <<came, closed>>

\* read() or write() fails.
Throws ==
  /\ ~closed
  /\ closed' = TRUE
  /\ UNCHANGED <<m_queue, m_output_buf, m_output_position, came, output>>

\* clear, as startHandshaking calls it
Clear ==
  /\ ~closed
  /\ m_queue' = <<>>
  /\ m_output_position' = BUFFER_SIZE
  /\ output' = <<>>
  /\ UNCHANGED <<m_output_buf, came, closed>>

Next ==
  \/ \E n \in 1 .. MaxBytes : PushOnBuffer(n)
  \/ \E n \in 0 .. MaxBytes : ReadData(n)
  \/ \E n \in 0 .. BUFFER_SIZE : WriteData(n)
  \/ Throws
  \/ Clear

Spec == Init /\ [][Next]_vars

unsentData == m_output_position # BUFFER_SIZE \/ m_queue # <<>>

-------------------------------------------------------------------------------
\* The bytes in the buffer, oldest first.
Waiting == SubSeq(m_output_buf, m_output_position + 1, BUFFER_SIZE) \o m_queue

Fifo == INSTANCE ByteFifo WITH
  Chunks <- {[i \in 1 .. n |-> m + i] : m \in 0 .. MaxBytes, n \in 0 .. MaxBytes},
  queue <- Waiting, output <- output

\* Refilling and partial writes neither lose, double nor reorder bytes: a SockBuffer
\* is a FIFO of bytes.
ImplementsFifo == Fifo!Spec

\* What was put in is written out or cleared, down to the last byte: unsentData stays
\* true until then.
Drains == unsentData ~> ~unsentData \/ closed
===============================================================================
