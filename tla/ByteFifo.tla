------------------------------- MODULE ByteFifo -------------------------------
(***************************************************************************)
(* What a SockBuffer promises: bytes leave in the order in which they      *)
(* came, until the buffer is cleared.                                      *)
(***************************************************************************)
EXTENDS Naturals, Sequences

CONSTANT Chunks   \* what may be put in at once

VARIABLES
  queue,     \* bytes taken in and not yet passed on
  output     \* bytes passed on since the last clear()

vars == <<queue, output>>

Init == queue = <<>> /\ output = <<>>

Put(bytes) == queue' = queue \o bytes /\ UNCHANGED output

\* The n oldest bytes are passed on.
Get(n) ==
  /\ n \in 0 .. Len(queue)
  /\ output' = output \o SubSeq(queue, 1, n)
  /\ queue' = SubSeq(queue, n + 1, Len(queue))

Clear == queue' = <<>> /\ output' = <<>>

Next ==
  \/ \E bytes \in Chunks : Put(bytes)
  \/ \E n \in 0 .. Len(queue) : Get(n)
  \/ Clear

Spec == Init /\ [][Next]_vars
===============================================================================
