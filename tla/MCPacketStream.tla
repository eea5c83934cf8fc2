---------------------------- MODULE MCPacketStream ----------------------------
(***************************************************************************)
(* PacketStream for TLC.                                                   *)
(***************************************************************************)
EXTENDS PacketStream

CONSTANT MaxBody    \* bound: length of a body

MCBodies == UNION {[1 .. n -> {n % Base}] : n \in 1 .. MaxBody}
===============================================================================
