------------------------------ MODULE PacketFifo ------------------------------
(***************************************************************************)
(* What the tunnel promises in one direction: packets arrive whole, in the *)
(* order in which they were sent, none twice.  When the sender stops, the  *)
(* last ones may be lost, and nothing after them arrives.                  *)
(***************************************************************************)
EXTENDS Naturals, Sequences

CONSTANT Packets

VARIABLES
  queue,      \* packets sent and not yet received
  received,   \* packets received, in order
  open        \* the sender still runs

vars == <<queue, received, open>>

Init == queue = <<>> /\ received = <<>> /\ open = TRUE

Send(p) ==
  /\ open
  /\ queue' = Append(queue, p)
  /\ UNCHANGED <<received, open>>

Receive ==
  /\ queue # <<>>
  /\ received' = Append(received, Head(queue))
  /\ queue' = Tail(queue)
  /\ UNCHANGED open

\* The sender stops; the first n packets of the queue are on their way.
Stop(n) ==
  /\ open
  /\ open' = FALSE
  /\ queue' = SubSeq(queue, 1, n)
  /\ UNCHANGED received

Next ==
  \/ \E p \in Packets : Send(p)
  \/ Receive
  \/ \E n \in 0 .. Len(queue) : Stop(n)

Spec == Init /\ [][Next]_vars
===============================================================================
