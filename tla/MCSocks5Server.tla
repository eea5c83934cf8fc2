---------------------------- MODULE MCSocks5Server ----------------------------
(***************************************************************************)
(* Socks5Server for TLC.                                                   *)
(***************************************************************************)
EXTENDS Socks5Server, TLC

CONSTANTS c1, c2, c3

\* Two pieces of c1 are one more than its target has to read; its target sends one.
\* The others are there to be listed before and behind it.
MCMaxPieces ==
  [c \in Client |-> IF c = c1 THEN [client |-> 2, target |-> 1]
                             ELSE [client |-> 0, target |-> 0]]

\* A request for an address of four bytes, whole or cut short by recv(), and one for
\* a name of l = 3 bytes that lacks its last byte.
MCRequests ==
  LET whole == [n |-> 10, version |-> 5, cmd |-> 1, rsv |-> 0, atyp |-> 1, l |-> 0]
  IN  {whole, [whole EXCEPT !.n = 4],
       [whole EXCEPT !.n = 9, !.atyp = 3, !.l = 3]}

\* c1 and c2 do all that a client may do, c3 comes and goes without a greeting.  Data
\* is sent only by c1 and its target, and only while the others are away.
Others == Client \ {c1}
MCSpec ==
  /\ Init
  /\ [][/\ Next
        /\ c3 \in Client => pc'[c3] # "SS_3_AUTHED"
        /\ sent'[c1] = [s \in Side |-> 0] \/ \A c \in Others : client'[c] = "away"]_vars
  /\ Fairness
===============================================================================
