----------------------------- MODULE Socks5Server -----------------------------
(***************************************************************************)
(* The socks server of the remote process: Socks5Server of                 *)
(* src/com/antlersoft/stdio_tunnel/StdioTunnel.cpp on top of src/microsocks. *)
(* The event loop accepts a client in polled() and starts a thread for it; *)
(* the thread answers the client, connects to its target and copies in     *)
(* both directions.  A later call of polled() joins the threads that are   *)
(* done and frees their entries of m_threads.                              *)
(***************************************************************************)
EXTENDS Naturals, Sequences

CONSTANTS
  Client,        \* clients that may connect
  blockitems,    \* entries by which m_threads grows
  SocketSize,    \* pieces of data one direction of a connection holds
  Requests,      \* what a client may send as its request
  MaxPieces      \* bound: pieces each side of a client's connection sends

ASSUME SocksAssumption ==
  /\ Requests \subseteq [n : Nat, version : Nat, cmd : Nat, rsv : Nat, atyp : Nat, l : Nat]
  /\ blockitems \in Nat \ {0} /\ SocketSize \in Nat \ {0}
  /\ MaxPieces \in [Client -> [{"client", "target"} -> Nat]]

VARIABLES
  m_threads,    \* items of the sblist: the clients of its entries
  capa,         \* entries the sblist has room for
  main,         \* the event loop: "poll", or in polled() "collect" or "join"
  i,            \* loop variable of collect()
  thread,       \* the entry of a client: "none", "allocated", "freed"
  done,         \* its member
  pc,           \* the client's thread: "none" (not accepted), "failed"
                \* (pthread_create), "SS_1_CONNECTED", "SS_3_AUTHED", "poll" and
                \* "write" (copyloop), "close", "closed", "done", "returned"
  client,       \* the client: "away", "waiting" (in the backlog), "connected",
                \* "gone" (has closed, or was closed)
  clientFd,     \* the thread's socket to the client is open
  remoteFd,     \* its socket to the target: "none", "open", "closed", "lost" (open,
                \* and known to nobody)
  sent,         \* pieces sent by each side
  chan,         \* pieces under way in each direction
  out           \* "write": the side that is written to

Side == {"client", "target"}
Other(s) == IF s = "client" THEN "target" ELSE "client"
\* Directions: <<s, "in">> from side s to the thread, <<s, "out">> to side s.
Dir == Side \X {"in", "out"}

list == <<m_threads, capa, main, i>>
sockets == <<client, clientFd, remoteFd>>
data == <<sent, chan, out>>
vars == <<list, thread, done, pc, sockets, data>>

Init ==
  /\ m_threads = <<>> /\ capa = 0 /\ main = "poll" /\ i = 1
  /\ thread = [c \in Client |-> "none"]
  /\ done = [c \in Client |-> FALSE]
  /\ pc = [c \in Client |-> "none"]
  /\ client = [c \in Client |-> "away"]
  /\ clientFd = [c \in Client |-> FALSE]
  /\ remoteFd = [c \in Client |-> "none"]
  /\ sent = [c \in Client |-> [s \in Side |-> 0]]
  /\ chan = [c \in Client |-> [d \in Dir |-> 0]]
  /\ out = [c \in Client |-> "target"]

Copying(c) == pc[c] \in {"poll", "write"}

-------------------------------------------------------------------------------
(***************************************************************************)
(* The event loop.                                                         *)
(***************************************************************************)
\* polled() is called: a client waits.
Polled ==
  /\ main = "poll"
  /\ \E c \in Client : client[c] = "waiting"
  /\ main' = "collect"
  /\ UNCHANGED <<m_threads, capa, i, thread, done, pc, sockets, data>>

\* Variants for testing the properties: done is not tested; the wrong item is
\* deleted; the first thread that still runs ends the loop.
CollectTestNot ==
  /\ main = "collect" /\ i <= Len(m_threads)
  /\ main' = "join"
  /\ UNCHANGED <<m_threads, capa, i, thread, done, pc, sockets, data>>
sblist_deleteNext(l, item) == SubSeq(l, 1, item) \o SubSeq(l, item + 2, Len(l))
CollectTestStops ==
  /\ main = "collect" /\ i <= Len(m_threads)
  /\ IF done[m_threads[i]] THEN main' = "join" /\ i' = i
                           ELSE main' = main /\ i' = Len(m_threads) + 1
  /\ UNCHANGED <<m_threads, capa, thread, done, pc, sockets, data>>

\* collect: the test of thread->done.
CollectTest ==
  /\ main = "collect" /\ i <= Len(m_threads)
  /\ IF done[m_threads[i]] THEN main' = "join" /\ i' = i
                           ELSE main' = main /\ i' = i + 1
  /\ UNCHANGED <<m_threads, capa, thread, done, pc, sockets, data>>

\* sblist_delete: the items behind are moved.
sblist_delete(l, item) == SubSeq(l, 1, item - 1) \o SubSeq(l, item + 1, Len(l))

\* pthread_join returns; sblist_delete and free.
CollectJoin ==
  /\ main = "join"
  /\ pc[m_threads[i]] = "returned"
  /\ m_threads' = sblist_delete(m_threads, i)
  /\ thread' = [thread EXCEPT ![m_threads[i]] = "freed"]
  /\ main' = "collect"
  /\ UNCHANGED <<capa, i, done, pc, sockets, data>>

\* collect() is over and polled() will return.
Accepting ==
  /\ main = "collect" /\ i = Len(m_threads) + 1
  /\ main' = "poll" /\ i' = 1

\* No memory for an entry, or accept() fails: the client stays in the backlog.
PolledFails ==
  /\ Accepting
  /\ UNCHANGED <<m_threads, capa, thread, done, pc, sockets, data>>

\* accept() succeeds, but sblist_add has no memory to grow: the client is closed.
PolledRejects(c) ==
  /\ Accepting
  /\ client[c] = "waiting" /\ Len(m_threads) = capa
  /\ client' = [client EXCEPT ![c] = "gone"]
  /\ UNCHANGED <<m_threads, capa, thread, done, pc, clientFd, remoteFd, data>>

\* sblist_grow_if_needed
GrownCapa == IF Len(m_threads) = capa THEN capa + blockitems ELSE capa

\* accept(), sblist_add and pthread_create, which may fail.
PolledAccepts(c, created) ==
  /\ Accepting
  /\ client[c] = "waiting"
  /\ client' = [client EXCEPT ![c] = "connected"]
  /\ clientFd' = [clientFd EXCEPT ![c] = TRUE]
  /\ thread' = [thread EXCEPT ![c] = "allocated"]
  /\ m_threads' = Append(m_threads, c)
  /\ capa' = GrownCapa
  /\ pc' = [pc EXCEPT ![c] = IF created THEN "SS_1_CONNECTED" ELSE "failed"]
  /\ UNCHANGED <<done, remoteFd, data>>

-------------------------------------------------------------------------------
(***************************************************************************)
(* A client's thread.                                                      *)
(***************************************************************************)
\* connect_socks_target for the request r, of which recv() returned r.n bytes;
\* connected is what resolve(), socket() and connect() come to.
connect_socks_target(r, connected) ==
  LET minlen == CASE r.atyp = 1 -> 10 [] r.atyp = 4 -> 22 [] OTHER -> 7 + r.l
  IN  /\ r.n >= 5
      /\ r.version = 5 /\ r.cmd = 1 /\ r.rsv = 0
      /\ r.atyp \in {1, 3, 4}
      /\ r.n >= minlen
      /\ connected

Step(c, from, to) == pc[c] = from /\ pc' = [pc EXCEPT ![c] = to]

\* socks5_handshake, SS_1_CONNECTED: whatever is received is answered.
Greeting(c) ==
  /\ Step(c, "SS_1_CONNECTED", "SS_3_AUTHED")
  /\ client[c] = "connected"
  /\ UNCHANGED <<list, thread, done, sockets, data>>

\* SS_3_AUTHED: the request is answered with the result.
Request(c, r, connected) ==
  /\ client[c] = "connected"
  /\ IF connect_socks_target(r, connected)
     THEN /\ Step(c, "SS_3_AUTHED", "poll")
          /\ remoteFd' = [remoteFd EXCEPT ![c] = "open"]
     ELSE /\ Step(c, "SS_3_AUTHED", "close")
          /\ UNCHANGED remoteFd
  /\ UNCHANGED <<list, thread, done, client, clientFd, data>>

\* The client has gone while connect_socks_target was at work: the answer cannot be
\* written and socks5_handshake returns -1, whether or not there is a connection.
RequestLost(c, r, connected) ==
  /\ client[c] = "gone"
  /\ Step(c, "SS_3_AUTHED", "close")
  /\ connect_socks_target(r, connected)
  /\ remoteFd' = [remoteFd EXCEPT ![c] = "lost"]
  /\ UNCHANGED <<list, thread, done, client, clientFd, data>>

\* recv() or write() finds that the client is gone.
HandshakeFails(c) ==
  /\ client[c] = "gone"
  /\ Step(c, "SS_1_CONNECTED", "close") \/ Step(c, "SS_3_AUTHED", "close")
  /\ UNCHANGED <<list, thread, done, sockets, data>>

\* copyloop: poll() reports that side s can be read; fd1, the client, goes first.
Readable(c, s) == chan[c][<<s, "in">>] > 0 \/ (s = "client" /\ client[c] = "gone")
infd(c) == IF Readable(c, "client") THEN "client" ELSE "target"

CopyRead(c) ==
  /\ chan[c][<<infd(c), "in">>] > 0
  /\ Step(c, "poll", "write")
  /\ chan' = [chan EXCEPT ![c][<<infd(c), "in">>] = @ - 1]
  /\ out' = [out EXCEPT ![c] = Other(infd(c))]
  /\ UNCHANGED <<list, thread, done, sockets, sent>>

\* Variants: a timeout goes on; close(t->client.fd) is missing.
CopyTimeoutGoesOn(c) == pc[c] = "poll" /\ UNCHANGED vars
CloseRemoteFd(c) ==
  /\ Step(c, "close", "closed")
  /\ remoteFd' = [remoteFd EXCEPT ![c] = IF @ = "open" THEN "closed" ELSE @]
  /\ UNCHANGED <<list, thread, done, client, clientFd, data>>

\* The blocking write().
CopyWrite(c) ==
  /\ Step(c, "write", "poll")
  /\ chan[c][<<out[c], "out">>] < SocketSize
  /\ chan' = [chan EXCEPT ![c][<<out[c], "out">>] = @ + 1]
  /\ UNCHANGED <<list, thread, done, sockets, sent, out>>

\* read() returns 0, or write() fails, since the client is gone.
CopyEof(c) ==
  /\ client[c] = "gone"
  /\ \/ chan[c][<<"client", "in">>] = 0 /\ Step(c, "poll", "close")
     \/ out[c] = "client" /\ Step(c, "write", "close")
  /\ UNCHANGED <<list, thread, done, sockets, data>>

\* poll() times out after 15 minutes.
CopyTimeout(c) ==
  /\ \A s \in Side : ~Readable(c, s)
  /\ Step(c, "poll", "close")
  /\ UNCHANGED <<list, thread, done, sockets, data>>

\* The target has closed, a connection is reset, or poll() fails.
CopyFails(c) ==
  /\ Step(c, "poll", "close") \/ Step(c, "write", "close")
  /\ UNCHANGED <<list, thread, done, sockets, data>>

\* socks5_clientthread after the loop: both sockets are closed ...
CloseFds(c) ==
  /\ Step(c, "close", "closed")
  /\ remoteFd' = [remoteFd EXCEPT ![c] = IF @ = "open" THEN "closed" ELSE @]
  /\ clientFd' = [clientFd EXCEPT ![c] = FALSE]
  /\ client' = [client EXCEPT ![c] = "gone"]
  /\ UNCHANGED <<list, thread, done, data>>

\* ... t->done = 1 ...
SetDone(c) ==
  /\ Step(c, "closed", "done")
  /\ done' = [done EXCEPT ![c] = TRUE]
  /\ UNCHANGED <<list, thread, sockets, data>>

\* ... and the thread ends.
Return(c) ==
  /\ Step(c, "done", "returned")
  /\ UNCHANGED <<list, thread, done, sockets, data>>

-------------------------------------------------------------------------------
(***************************************************************************)
(* The clients and their targets.                                          *)
(***************************************************************************)
\* A client connects.  A name stands for one client after the other: it is free again
\* when the last one was rejected or its entry has been freed.
ClientConnects(c) ==
  /\ client[c] \in {"away", "gone"} /\ thread[c] # "allocated"
  /\ client' = [client EXCEPT ![c] = "waiting"]
  /\ thread' = [thread EXCEPT ![c] = "none"]
  /\ done' = [done EXCEPT ![c] = FALSE]
  /\ pc' = [pc EXCEPT ![c] = "none"]
  /\ remoteFd' = [remoteFd EXCEPT ![c] = "none"]
  /\ sent' = [sent EXCEPT ![c] = [s \in Side |-> 0]]
  /\ chan' = [chan EXCEPT ![c] = [d \in Dir |-> 0]]
  /\ out' = [out EXCEPT ![c] = "target"]
  /\ UNCHANGED <<list, clientFd>>

ClientCloses(c) ==
  /\ client[c] = "connected"
  /\ client' = [client EXCEPT ![c] = "gone"]
  /\ UNCHANGED <<list, thread, done, pc, clientFd, remoteFd, data>>

Sends(c, s) ==
  /\ Copying(c)
  /\ s = "client" => client[c] = "connected"
  /\ sent[c][s] < MaxPieces[c][s] /\ chan[c][<<s, "in">>] < SocketSize
  /\ sent' = [sent EXCEPT ![c][s] = @ + 1]
  /\ chan' = [chan EXCEPT ![c][<<s, "in">>] = @ + 1]
  /\ UNCHANGED <<list, thread, done, pc, sockets, out>>

\* A client or a target reads, when it wants to: it may stop for ever.
Reads(c, s) ==
  /\ Copying(c)
  /\ chan[c][<<s, "out">>] > 0
  /\ chan' = [chan EXCEPT ![c][<<s, "out">>] = @ - 1]
  /\ UNCHANGED <<list, thread, done, pc, sockets, sent, out>>

-------------------------------------------------------------------------------
EventLoop ==
  \/ Polled \/ CollectTest \/ CollectJoin \/ PolledFails
  \/ \E c \in Client : \/ PolledRejects(c)
                      \/ \E created \in BOOLEAN : PolledAccepts(c, created)

\* What a thread does by itself, whatever the client sends.
Runs(c) == \/ HandshakeFails(c) \/ CopyRead(c) \/ CopyWrite(c) \/ CopyEof(c)
           \/ CopyTimeout(c) \/ CloseFds(c) \/ SetDone(c) \/ Return(c)

Thread(c) == \/ Runs(c) \/ Greeting(c) \/ CopyFails(c)
             \/ \E r \in Requests, connected \in BOOLEAN : 
                  Request(c, r, connected) \/ RequestLost(c, r, connected)

Peers(c) == \/ ClientConnects(c) \/ ClientCloses(c)
            \/ \E s \in Side : Sends(c, s) \/ Reads(c, s)

Next == EventLoop \/ \E c \in Client : Thread(c) \/ Peers(c)

Spec == Init /\ [][Next]_vars

(***************************************************************************)
(* Threads are scheduled and the event loop goes on.  Nothing is assumed   *)
(* of clients and targets.                                                 *)
(***************************************************************************)
Fairness == WF_vars(EventLoop) /\ \A c \in Client : WF_vars(Runs(c))

FairSpec == Spec /\ Fairness

-------------------------------------------------------------------------------
(***************************************************************************)
(* Properties.                                                             *)
(***************************************************************************)
TypeOK ==
  /\ m_threads \in Seq(Client) /\ capa \in Nat
  /\ main \in {"poll", "collect", "join"} /\ i \in Nat
  /\ thread \in [Client -> {"none", "allocated", "freed"}]
  /\ done \in [Client -> BOOLEAN]
  /\ pc \in [Client -> {"none", "failed", "SS_1_CONNECTED", "SS_3_AUTHED", "poll",
                        "write", "close", "closed", "done", "returned"}]
  /\ client \in [Client -> {"away", "waiting", "connected", "gone"}]
  /\ clientFd \in [Client -> BOOLEAN] 
  /\ remoteFd \in [Client -> {"none", "open", "closed", "lost"}]
  /\ sent \in [Client -> [Side -> Nat]]
  /\ chan \in [Client -> [Dir -> 0 .. SocketSize]]
  /\ out \in [Client -> Side]

(***************************************************************************)
(* Nothing is used after it is freed and nothing is forgotten: a thread    *)
(* that still has its entry to use, or a socket to close, is on the list,  *)
(* once; every item of the list is an allocated entry, and the sblist has  *)
(* room for it.  The only socket that is lost is that of a target that was *)
(* reached after the client had gone.                                      *)
(***************************************************************************)
Owned ==
  /\ \A c \in Client :
       \/ clientFd[c] \/ remoteFd[c] = "open" \/ pc[c] \notin {"none", "returned"}
       => \E n \in 1 .. Len(m_threads) : m_threads[n] = c
  /\ \A n \in 1 .. Len(m_threads) :
       /\ thread[m_threads[n]] = "allocated"
       /\ \A k \in 1 .. n - 1 : m_threads[k] # m_threads[n]
  /\ Len(m_threads) <= capa
  /\ \A c \in Client : remoteFd[c] = "lost" => client[c] = "gone"

(***************************************************************************)
(* The event loop, which also serves the other end of the client's         *)
(* connection, joins only a thread that has nothing left to wait for.      *)
(***************************************************************************)
JoinsFinished ==
  main = "join" =>
    /\ i <= Len(m_threads) /\ pc[m_threads[i]] \in {"done", "returned"}
    /\ ~clientFd[m_threads[i]] /\ remoteFd[m_threads[i]] # "open"

(***************************************************************************)
(* As long as clients keep connecting, so that polled() is called, the     *)
(* entry of every thread that is done is freed, whatever threads before it *)
(* on the list still run and whatever items move.  (Without new clients    *)
(* the entries stay.)                                                      *)
(***************************************************************************)
Reclaims ==
  ([]<><<Polled>>_vars) => \A c \in Client : done[c] ~> thread[c] = "freed"

\* The thread waits in write() for a side that does not read; no timeout runs there.
Blocked(c, s) ==
  pc[c] = "write" /\ out[c] = s /\ chan[c][<<s, "out">>] = SocketSize

(***************************************************************************)
(* A client that has gone does not keep its thread, except where           *)
(* pthread_create failed (that entry and its socket are never given up)    *)
(* and where the target never again reads what the thread has to write.    *)
(***************************************************************************)
GoneEnds ==
  \A c \in Client :
    clientFd[c] /\ client[c] = "gone" ~>
      ~clientFd[c] \/ pc[c] = "failed" \/ []Blocked(c, "target")

(***************************************************************************)
(* What the timeout of poll() does achieve: a connection on which no more  *)
(* is sent comes to its end, whichever way its data went, unless its       *)
(* thread stays in write() for ever.                                       *)
(***************************************************************************)
ReapedUnlessBlocked ==
  \A c \in Client : Copying(c) ~> ~Copying(c) \/ \E s \in Side : []Blocked(c, s)

(***************************************************************************)
(* "inactive connections are reaped after 15 min to free resources", says  *)
(* the comment at the timeout of copyloop: a connection on which no more   *)
(* is sent comes to its end.  The code does not keep this: write() has no  *)
(* timeout.                                                                *)
(***************************************************************************)
InactiveReaped == \A c \in Client : Copying(c) ~> ~Copying(c)
===============================================================================
