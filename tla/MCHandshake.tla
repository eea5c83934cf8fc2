------------------------------ MODULE MCHandshake ------------------------------
(***************************************************************************)
(* Instances of Handshake for TLC: a connection made with -L and one made  *)
(* with -R.                                                                *)
(***************************************************************************)
EXTENDS Handshake

CONSTANTS fwd, rev

MCListenAt == [c \in Conns |-> IF c = fwd THEN "local" ELSE "remote"]
===============================================================================
