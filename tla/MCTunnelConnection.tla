-------------------------- MODULE MCTunnelConnection --------------------------
(***************************************************************************)
(* Instances of TunnelConnection for TLC: one -L connection and one -R     *)
(* connection.                                                             *)
(***************************************************************************)
EXTENDS TunnelConnection

CONSTANTS
  fwd, rev,               \* the connections made with -L and with -R
  FwdChunks, RevChunks    \* their bounds on chunks

\* -L listens at the local side, -R at the remote side.
MCListenAt == [c \in Conns |-> IF c = fwd THEN "local" ELSE "remote"]
MCMaxChunks == [c \in Conns |-> IF c = fwd THEN FwdChunks ELSE RevChunks]

\* Each behaviour uses one of the connections: what the two sides do for one has no
\* part in what they do for another.
MCSpec ==
  Init /\ [][Next /\ \E c \in Conns : \A d \in Conns \ {c} : m_next_id'[d] = 0]_vars
===============================================================================
