-------------------------- MODULE Socks5ServerProofs --------------------------
(***************************************************************************)
(* Proofs about Socks5Server, for any clients, requests, amounts of data   *)
(* and growth of the list: the event loop and the threads share the        *)
(* entries of m_threads without a lock, and still each entry is freed once *)
(* and only when its thread is through with it.                            *)
(***************************************************************************)
EXTENDS Socks5Server, SequenceTheorems, TLAPS

-------------------------------------------------------------------------------
(***************************************************************************)
(* The inductive invariant.                                                *)
(***************************************************************************)
\* What the entry, the thread and the sockets of one client have to do with each
\* other.  A thread sets done as its last use of the entry, after both close().
Entry(c) ==
  /\ thread[c] = "none" <=> pc[c] = "none"
  /\ thread[c] = "freed" => pc[c] = "returned"
  /\ done[c] <=> pc[c] \in {"done", "returned"}
  /\ client[c] \in {"away", "waiting"} => pc[c] = "none"
  /\ pc[c] \in {"none", "closed", "done", "returned"} => ~clientFd[c] /\ remoteFd[c] # "open"
  /\ pc[c] \in {"none", "failed", "SS_1_CONNECTED", "SS_3_AUTHED"} => remoteFd[c] = "none"
  /\ remoteFd[c] = "lost" => client[c] = "gone"

OnList(c) == \E n \in 1 .. Len(m_threads) : m_threads[n] = c

\* The list holds the allocated entries, each once, and has room for them.
Listed ==
  /\ \A c \in Client : thread[c] = "allocated" <=> OnList(c)
  /\ \A n, k \in 1 .. Len(m_threads) : k < n => m_threads[k] # m_threads[n]
  /\ Len(m_threads) <= capa

\* collect() is at an item of the list or behind it, and joins a thread that is done.
Loop ==
  /\ i \in 1 .. Len(m_threads) + 1
  /\ main = "join" => i <= Len(m_threads) /\ done[m_threads[i]]

IInv == TypeOK /\ (\A c \in Client : Entry(c)) /\ Listed /\ Loop

\* The invariant says what the runs check.
LEMMA IInvOwned == IInv => Owned /\ JoinsFinished
<1> SUFFICES ASSUME IInv PROVE Owned /\ JoinsFinished
  OBVIOUS
<1>1. /\ m_threads \in Seq(Client) /\ Len(m_threads) \in Nat /\ capa \in Nat /\ i \in Nat
      /\ \A n \in 1 .. Len(m_threads) : m_threads[n] \in Client
  BY LenProperties, ElementOfSeq DEF IInv, TypeOK
<1>2. \A n \in 1 .. Len(m_threads) : thread[m_threads[n]] = "allocated"
  BY <1>1 DEF IInv, Listed, OnList
<1>3. ASSUME NEW c \in Client,
             clientFd[c] \/ remoteFd[c] = "open" \/ pc[c] \notin {"none", "returned"}
      PROVE  OnList(c)
  <2>1. thread[c] \in {"none", "allocated", "freed"}
    BY DEF IInv, TypeOK
  <2>2. thread[c] = "allocated"
    BY <1>3, <2>1 DEF IInv, Entry
  <2>. QED
    BY <2>2 DEF IInv, Listed
<1>4. Owned
  <2>1. \A n \in 1 .. Len(m_threads) : \A k \in 1 .. n - 1 : m_threads[k] # m_threads[n]
    BY <1>1 DEF IInv, Listed
  <2>. QED
    BY <1>2, <1>3, <2>1 DEF Owned, OnList, IInv, Listed, Entry
<1>5. JoinsFinished
  <2> SUFFICES ASSUME main = "join"
               PROVE  /\ i <= Len(m_threads) /\ pc[m_threads[i]] \in {"done", "returned"}
                      /\ ~clientFd[m_threads[i]] /\ remoteFd[m_threads[i]] # "open"
    BY DEF JoinsFinished
  <2>1. i \in 1 .. Len(m_threads) /\ done[m_threads[i]] /\ m_threads[i] \in Client
    BY <1>1 DEF IInv, Loop
  <2>. QED
    BY <1>1, <2>1 DEF IInv, Entry
<1>. QED
  BY <1>4, <1>5

\* The first state satisfies the invariant.
LEMMA InitIInv == Init => IInv
<1> SUFFICES ASSUME Init PROVE IInv
  OBVIOUS
<1>1. /\ m_threads = <<>> /\ Len(m_threads) = 0 /\ m_threads \in Seq(Client)
      /\ \A n \in 1 .. Len(m_threads) : FALSE
  BY DEF Init
<1>2. TypeOK
  <2>1. /\ sent \in [Client -> [Side -> Nat]] /\ out \in [Client -> Side]
    BY DEF Init, Side
  <2>2. chan \in [Client -> [Dir -> 0 .. SocketSize]]
    BY SocksAssumption DEF Init
  <2>. QED
    BY <1>1, <2>1, <2>2 DEF Init, TypeOK
<1>3. \A c \in Client : Entry(c)
  BY DEF Init, Entry
<1>. QED
  BY <1>1, <1>2, <1>3 DEF IInv, Listed, OnList, Loop, Init

-------------------------------------------------------------------------------
(***************************************************************************)
(* Steps of a client's thread, of the client and of its target.            *)
(***************************************************************************)
\* What such a step may do: it leaves the list and the entries alone, and changes
\* pc, done and the sockets of its own client only.
Beside(c) ==
  /\ UNCHANGED <<list, thread>>
  /\ TypeOK'
  /\ Entry(c)'
  /\ \A d \in Client \ {c} : /\ done'[d] = done[d] /\ pc'[d] = pc[d] /\ client'[d] = client[d]
                             /\ clientFd'[d] = clientFd[d] /\ remoteFd'[d] = remoteFd[d]
  /\ done[c] => done'[c]

\* Such a step keeps the invariant.
LEMMA BesideIInv ==
  ASSUME IInv, NEW c \in Client, Beside(c)
  PROVE  IInv'
<1>1. \A d \in Client : Entry(d)'
  BY DEF IInv, Beside, Entry
<1>2. Listed'
  BY DEF IInv, Beside, Listed, OnList, list
<1>3. Loop'
  <2>1. /\ UNCHANGED <<m_threads, main, i>> /\ Len(m_threads) \in Nat /\ i \in Nat
        /\ \A n \in 1 .. Len(m_threads) : m_threads[n] \in Client
    BY LenProperties, ElementOfSeq DEF Beside, list, IInv, TypeOK
  <2>2. \A d \in Client : done[d] => done'[d]
    BY DEF Beside
  <2>. QED
    BY <2>1, <2>2 DEF IInv, Loop
<1>. QED
  BY <1>1, <1>2, <1>3 DEF IInv, Beside

\* Data moves: nothing else changes.
LEMMA DataBeside ==
  ASSUME IInv, NEW c \in Client, UNCHANGED <<list, thread, done, pc, sockets>>, TypeOK'
  PROVE  Beside(c)
BY DEF Beside, IInv, Entry, sockets

\* A client connects under a name that is on no item of the list.
LEMMA ClientConnectsIInv ==
  ASSUME IInv, NEW c \in Client, ClientConnects(c)
  PROVE  IInv'
<1>1. /\ m_threads \in Seq(Client) /\ Len(m_threads) \in Nat /\ i \in Nat
      /\ \A n \in 1 .. Len(m_threads) : m_threads[n] \in Client
      /\ UNCHANGED <<m_threads, capa, main, i, clientFd>>
  BY LenProperties, ElementOfSeq DEF IInv, TypeOK, ClientConnects, list
<1>2. \A n \in 1 .. Len(m_threads) : m_threads[n] # c
  BY <1>1 DEF IInv, Listed, OnList, ClientConnects
<1>3. ~clientFd[c]
  <2>1. thread[c] \in {"none", "freed"}
    BY DEF IInv, TypeOK, ClientConnects
  <2>. QED
    BY <2>1 DEF IInv, Entry
<1>4. TypeOK'
  <2>1. chan' \in [Client -> [Dir -> 0 .. SocketSize]]
    BY SocksAssumption DEF ClientConnects, IInv, TypeOK
  <2>2. out' \in [Client -> Side] /\ sent' \in [Client -> [Side -> Nat]]
    BY DEF ClientConnects, IInv, TypeOK, Side
  <2>. QED
    BY <1>1, <2>1, <2>2 DEF ClientConnects, IInv, TypeOK
<1>5. /\ thread'[c] = "none" /\ pc'[c] = "none" /\ done'[c] = FALSE
      /\ client'[c] = "waiting" /\ remoteFd'[c] = "none"
      /\ \A d \in Client \ {c} :
           /\ thread'[d] = thread[d] /\ pc'[d] = pc[d] /\ done'[d] = done[d]
           /\ client'[d] = client[d] /\ remoteFd'[d] = remoteFd[d]
  BY DEF ClientConnects, IInv, TypeOK
<1>6. \A d \in Client : Entry(d)'
  BY <1>1, <1>3, <1>5 DEF IInv, Entry
<1>7. Listed'
  BY <1>1, <1>2, <1>5 DEF IInv, Listed, OnList
<1>8. Loop'
  BY <1>1, <1>2, <1>5 DEF IInv, Loop
<1>. QED
  BY <1>4, <1>6, <1>7, <1>8 DEF IInv

\* From then on, a client and its target take only such steps.
LEMMA PeersBeside ==
  ASSUME IInv, NEW c \in Client, Peers(c), ~ClientConnects(c)
  PROVE  Beside(c)
<1> USE SocksAssumption
<1>1. CASE ClientCloses(c)
  <2>1. TypeOK'
    BY <1>1 DEF ClientCloses, IInv, TypeOK, list, data
  <2>. QED
    BY <1>1, <2>1 DEF ClientCloses, Beside, IInv, TypeOK, Entry
<1>2. ASSUME NEW s \in Side, Sends(c, s)
      PROVE  Beside(c)
  <2>1. <<s, "in">> \in Dir
    BY DEF Dir
  <2>2. chan' \in [Client -> [Dir -> 0 .. SocketSize]] /\ sent' \in [Client -> [Side -> Nat]]
    BY <1>2, <2>1 DEF Sends, IInv, TypeOK
  <2>3. TypeOK'
    BY <1>2, <2>2 DEF Sends, IInv, TypeOK, list, sockets
  <2>. QED
    BY <1>2, <2>3, DataBeside DEF Sends
<1>3. ASSUME NEW s \in Side, Reads(c, s)
      PROVE  Beside(c)
  <2>1. <<s, "out">> \in Dir
    BY DEF Dir
  <2>2. chan' \in [Client -> [Dir -> 0 .. SocketSize]]
    BY <1>3, <2>1 DEF Reads, IInv, TypeOK
  <2>3. TypeOK'
    BY <1>3, <2>2 DEF Reads, IInv, TypeOK, list, sockets
  <2>. QED
    BY <1>3, <2>3, DataBeside DEF Reads
<1>. QED
  BY <1>1, <1>2, <1>3 DEF Peers

\* So does the thread.
LEMMA ThreadBeside ==
  ASSUME IInv, NEW c \in Client, Thread(c)
  PROVE  Beside(c)
<1> USE SocksAssumption
<1>1. CASE Greeting(c) \/ HandshakeFails(c) \/ CopyEof(c) \/ CopyTimeout(c) \/ CopyFails(c)
  <2>1. /\ UNCHANGED <<list, thread, done, sockets, data>>
        /\ \E to \in {"SS_3_AUTHED", "close"} :
             /\ pc' = [pc EXCEPT ![c] = to]
             /\ to = "SS_3_AUTHED" => pc[c] = "SS_1_CONNECTED"
             /\ pc[c] \in {"SS_1_CONNECTED", "SS_3_AUTHED", "poll", "write"}
    BY <1>1 DEF Greeting, HandshakeFails, CopyEof, CopyTimeout, CopyFails, Step
  <2>2. TypeOK'
    BY <2>1 DEF IInv, TypeOK, list, sockets, data
  <2>3. PICK to \in {"SS_3_AUTHED", "close"} :
          /\ pc' = [pc EXCEPT ![c] = to]
          /\ to = "SS_3_AUTHED" => pc[c] = "SS_1_CONNECTED"
          /\ pc[c] \in {"SS_1_CONNECTED", "SS_3_AUTHED", "poll", "write"}
    BY <2>1
  <2>4. pc'[c] = to /\ \A d \in Client \ {c} : pc'[d] = pc[d]
    BY <2>3 DEF IInv, TypeOK
  <2>5. Entry(c)'
    BY <2>1, <2>3, <2>4 DEF IInv, Entry, sockets
  <2>. QED
    BY <2>1, <2>2, <2>4, <2>5 DEF Beside, sockets
<1>2. CASE CopyRead(c)
  <2>1. infd(c) \in Side /\ Other(infd(c)) \in Side /\ <<infd(c), "in">> \in Dir
    BY DEF infd, Other, Side, Dir
  <2>2. chan' \in [Client -> [Dir -> 0 .. SocketSize]] /\ out' \in [Client -> Side]
    BY <1>2, <2>1 DEF CopyRead, IInv, TypeOK
  <2>3. TypeOK'
    BY <1>2, <2>2 DEF CopyRead, Step, IInv, TypeOK, list, sockets
  <2>4. /\ pc[c] \in {"poll", "write"} /\ pc'[c] \in {"poll", "write"}
        /\ \A d \in Client \ {c} : pc'[d] = pc[d]
        /\ UNCHANGED <<list, thread, done, sockets>>
    BY <1>2 DEF CopyRead, Step, IInv, TypeOK
  <2>5. Entry(c)'
    BY <2>4 DEF IInv, Entry, sockets
  <2>. QED
    BY <2>3, <2>4, <2>5 DEF Beside, sockets
<1>3. CASE CopyWrite(c)
  <2>1. <<out[c], "out">> \in Dir
    BY DEF IInv, TypeOK, Dir
  <2>2. chan' \in [Client -> [Dir -> 0 .. SocketSize]]
    BY <1>3, <2>1 DEF CopyWrite, IInv, TypeOK
  <2>3. TypeOK'
    BY <1>3, <2>2 DEF CopyWrite, Step, IInv, TypeOK, list, sockets
  <2>4. /\ pc[c] \in {"poll", "write"} /\ pc'[c] \in {"poll", "write"}
        /\ \A d \in Client \ {c} : pc'[d] = pc[d]
        /\ UNCHANGED <<list, thread, done, sockets>>
    BY <1>3 DEF CopyWrite, Step, IInv, TypeOK
  <2>5. Entry(c)'
    BY <2>4 DEF IInv, Entry, sockets
  <2>. QED
    BY <2>3, <2>4, <2>5 DEF Beside, sockets
<1>4. CASE CloseFds(c)
  <2>1. TypeOK'
    BY <1>4 DEF CloseFds, Step, IInv, TypeOK, list, data
  <2>2. /\ pc[c] = "close" /\ pc'[c] = "closed" /\ clientFd'[c] = FALSE /\ client'[c] = "gone"
        /\ remoteFd'[c] = (IF remoteFd[c] = "open" THEN "closed" ELSE remoteFd[c])
        /\ UNCHANGED <<list, thread, done>>
    BY <1>4 DEF CloseFds, Step, IInv, TypeOK
  <2>3. \A d \in Client \ {c} : /\ pc'[d] = pc[d] /\ client'[d] = client[d]
                                /\ clientFd'[d] = clientFd[d] /\ remoteFd'[d] = remoteFd[d]
    BY <1>4 DEF CloseFds, Step, IInv, TypeOK
  <2>4. Entry(c)'
    BY <2>2 DEF IInv, Entry
  <2>. QED
    BY <2>1, <2>2, <2>3, <2>4 DEF Beside
<1>5. CASE SetDone(c) \/ Return(c)
  <2>1. TypeOK'
    BY <1>5 DEF SetDone, Return, Step, IInv, TypeOK, list, sockets, data
  <2>2. /\ pc[c] \in {"closed", "done"} /\ pc'[c] \in {"done", "returned"} /\ done'[c]
        /\ UNCHANGED <<list, thread, sockets>>
    BY <1>5 DEF SetDone, Return, Step, IInv, TypeOK, Entry
  <2>3. \A d \in Client \ {c} : pc'[d] = pc[d] /\ done'[d] = done[d]
    BY <1>5 DEF SetDone, Return, Step, IInv, TypeOK
  <2>4. Entry(c)'
    BY <2>2 DEF IInv, Entry, sockets
  <2>. QED
    BY <2>1, <2>2, <2>3, <2>4 DEF Beside, sockets
<1>6. ASSUME NEW r \in Requests, NEW connected \in BOOLEAN,
             Request(c, r, connected) \/ RequestLost(c, r, connected)
      PROVE  Beside(c)
  <2>1. TypeOK'
    BY <1>6 DEF Request, RequestLost, Step, IInv, TypeOK, list, data
  <2>2. /\ pc[c] = "SS_3_AUTHED" /\ pc'[c] \in {"poll", "close"}
        /\ remoteFd'[c] \in {"open", "lost", remoteFd[c]}
        /\ remoteFd'[c] = "open" => pc'[c] = "poll"
        /\ remoteFd'[c] = "lost" => client[c] = "gone" \/ remoteFd[c] = "lost"
    BY <1>6 DEF Request, RequestLost, Step, IInv, TypeOK, Entry
  <2>3. \A d \in Client \ {c} : pc'[d] = pc[d] /\ remoteFd'[d] = remoteFd[d]
    BY <1>6, SMTT(30) DEF Request, RequestLost, Step, IInv, TypeOK
  <2>4. UNCHANGED <<list, thread, done, client, clientFd>>
    BY <1>6 DEF Request, RequestLost
  <2>5. Entry(c)'
    BY <2>2, <2>4 DEF IInv, Entry
  <2>. QED
    BY <2>1, <2>3, <2>4, <2>5 DEF Beside
<1>. QED
  BY <1>1, <1>2, <1>3, <1>4, <1>5, <1>6 DEF Thread, Runs

-------------------------------------------------------------------------------
(***************************************************************************)
(* Steps of the event loop.                                                *)
(***************************************************************************)
\* collect() deletes item n: the others stay, in their order.
LEMMA Deleted ==
  ASSUME NEW l \in Seq(Client), NEW n \in 1 .. Len(l)
  PROVE  /\ sblist_delete(l, n) \in Seq(Client)
         /\ Len(sblist_delete(l, n)) = Len(l) - 1
         /\ \A k \in 1 .. Len(l) - 1 :
              sblist_delete(l, n)[k] = IF k < n THEN l[k] ELSE l[k + 1]
<1>1. /\ Len(l) \in Nat /\ n \in Int /\ n - 1 \in Int /\ n + 1 \in Int
      /\ \A k \in 1 .. Len(l) : l[k] \in Client
  BY LenProperties, ElementOfSeq
<1> DEFINE a == SubSeq(l, 1, n - 1)
           b == SubSeq(l, n + 1, Len(l))
<1>2. /\ a \in Seq(Client) /\ Len(a) = n - 1
      /\ \A k \in 1 .. n - 1 : a[k] = l[k]
  <2>1. \A k \in 1 .. n - 1 : l[k] \in Client
    BY <1>1
  <2>2. /\ a \in Seq(Client) /\ Len(a) = IF 1 <= n - 1 THEN (n - 1) - 1 + 1 ELSE 0
        /\ \A k \in 1 .. (n - 1) - 1 + 1 : a[k] = l[1 + k - 1]
    BY <1>1, <2>1, SubSeqProperties
  <2>. QED
    BY <1>1, <2>2
<1>3. /\ b \in Seq(Client) /\ Len(b) = Len(l) - n
      /\ \A k \in 1 .. Len(l) - n : b[k] = l[n + k]
  <2>1. \A k \in n + 1 .. Len(l) : l[k] \in Client
    BY <1>1
  <2>2. /\ b \in Seq(Client) /\ Len(b) = IF n + 1 <= Len(l) THEN Len(l) - (n + 1) + 1 ELSE 0
        /\ \A k \in 1 .. Len(l) - (n + 1) + 1 : b[k] = l[(n + 1) + k - 1]
    BY <1>1, <2>1, SubSeqProperties
  <2>. QED
    BY <1>1, <2>2
<1>4. sblist_delete(l, n) = a \o b
  BY DEF sblist_delete
<1> HIDE DEF a, b
<1>5. /\ a \o b \in Seq(Client) /\ Len(a \o b) = Len(a) + Len(b)
      /\ \A k \in 1 .. Len(a) + Len(b) : (a \o b)[k] = IF k <= Len(a) THEN a[k] ELSE b[k - Len(a)]
  BY <1>2, <1>3, ConcatProperties
<1>6. Len(a) + Len(b) = Len(l) - 1
  BY <1>1, <1>2, <1>3
<1>7. ASSUME NEW k \in 1 .. Len(l) - 1
      PROVE  (a \o b)[k] = IF k < n THEN l[k] ELSE l[k + 1]
  <2>1. (a \o b)[k] = IF k <= n - 1 THEN a[k] ELSE b[k - (n - 1)]
    BY <1>2, <1>5, <1>6, <1>7
  <2>2. CASE k < n
    BY <1>1, <1>2, <1>7, <2>1, <2>2
  <2>3. CASE k >= n
    <3>1. k - (n - 1) \in 1 .. Len(l) - n /\ n + (k - (n - 1)) = k + 1
      BY <1>1, <1>7, <2>3
    <3>2. b[k - (n - 1)] = l[k + 1]
      BY <1>3, <3>1
    <3>. QED
      BY <1>1, <1>7, <2>1, <2>3, <3>2
  <2>4. k < n \/ k >= n
    BY <1>1, <1>7
  <2>. QED
    BY <2>2, <2>3, <2>4
<1>. QED
  BY <1>4, <1>5, <1>6, <1>7

\* An entry is freed, and no other is lost from the list.
LEMMA CollectJoinIInv ==
  ASSUME IInv, CollectJoin
  PROVE  IInv'
<1> DEFINE c == m_threads[i]
<1>1. /\ i \in 1 .. Len(m_threads) /\ done[c] /\ Len(m_threads) \in Nat /\ capa \in Nat
      /\ m_threads \in Seq(Client)
      /\ \A n \in 1 .. Len(m_threads) : m_threads[n] \in Client
  BY LenProperties, ElementOfSeq DEF CollectJoin, IInv, Loop, TypeOK
<1>2. /\ m_threads' \in Seq(Client) /\ Len(m_threads') = Len(m_threads) - 1
      /\ \A k \in 1 .. Len(m_threads) - 1 :
           m_threads'[k] = IF k < i THEN m_threads[k] ELSE m_threads[k + 1]
  BY <1>1, Deleted DEF CollectJoin
<1>3. /\ c \in Client /\ pc[c] = "returned" /\ thread' = [thread EXCEPT ![c] = "freed"]
      /\ main' = "collect" /\ UNCHANGED <<capa, i, done, pc, sockets, data>>
  BY <1>1 DEF CollectJoin
<1> HIDE DEF c
<1>4. TypeOK'
  BY <1>2, <1>3 DEF IInv, TypeOK, sockets, data
<1>5. \A d \in Client : Entry(d)'
  BY <1>3 DEF IInv, TypeOK, Entry, sockets
<1>6. Listed'
  <2>1. ASSUME NEW d \in Client
        PROVE  thread'[d] = "allocated" <=> OnList(d)'
    <3>1. CASE d = c
      <4>1. ASSUME NEW k \in 1 .. Len(m_threads')
            PROVE  m_threads'[k] # c
        <5>1. k \in 1 .. Len(m_threads) - 1
          BY <1>2
        <5>2. CASE k < i
          BY <1>1, <1>2, <5>1, <5>2 DEF IInv, Listed, c
        <5>3. CASE k >= i
          BY <1>1, <1>2, <5>1, <5>3 DEF IInv, Listed, c
        <5>. QED
          BY <1>1, <5>1, <5>2, <5>3
      <4>. QED
        BY <1>3, <3>1, <4>1 DEF OnList, IInv, TypeOK
    <3>2. CASE d # c
      <4>1. thread'[d] = thread[d]
        BY <1>3, <3>2 DEF IInv, TypeOK
      <4>2. ASSUME OnList(d)
            PROVE  OnList(d)'
        <5>1. PICK k \in 1 .. Len(m_threads) : m_threads[k] = d
          BY <4>2 DEF OnList
        <5>2. k # i
          BY <3>2, <5>1 DEF c
        <5>3. CASE k < i
          <6>1. k \in 1 .. Len(m_threads') /\ m_threads'[k] = d
            BY <1>1, <1>2, <5>1, <5>3
          <6>. QED
            BY <6>1 DEF OnList
        <5>4. CASE k > i
          <6>1. k - 1 \in 1 .. Len(m_threads') /\ m_threads'[k - 1] = d
            BY <1>1, <1>2, <5>1, <5>4
          <6>. QED
            BY <6>1 DEF OnList
        <5>. QED
          BY <1>1, <5>2, <5>3, <5>4
      <4>3. ASSUME OnList(d)'
            PROVE  OnList(d)
        <5>1. PICK k \in 1 .. Len(m_threads') : m_threads'[k] = d
          BY <4>3 DEF OnList
        <5>2. \E n \in {k, k + 1} : n \in 1 .. Len(m_threads) /\ m_threads[n] = d
          BY <1>1, <1>2, <5>1
        <5>. QED
          BY <5>2 DEF OnList
      <4>. QED
        BY <4>1, <4>2, <4>3 DEF IInv, Listed
    <3>. QED
      BY <3>1, <3>2
  <2>2. ASSUME NEW n \in 1 .. Len(m_threads'), NEW k \in 1 .. Len(m_threads'), k < n
        PROVE  m_threads'[k] # m_threads'[n]
    <3> DEFINE at(x) == IF x < i THEN x ELSE x + 1
    <3>1. /\ at(k) \in 1 .. Len(m_threads) /\ at(n) \in 1 .. Len(m_threads) /\ at(k) < at(n)
          /\ m_threads'[k] = m_threads[at(k)] /\ m_threads'[n] = m_threads[at(n)]
      BY <1>1, <1>2, <2>2
    <3> HIDE DEF at
    <3>. QED
      BY <3>1 DEF IInv, Listed
  <2>3. Len(m_threads') <= capa'
    BY <1>1, <1>2, <1>3 DEF IInv, Listed
  <2>. QED
    BY <2>1, <2>2, <2>3 DEF Listed
<1>7. Loop'
  BY <1>1, <1>2, <1>3 DEF IInv, Loop
<1>. QED
  BY <1>4, <1>5, <1>6, <1>7 DEF IInv

\* A client is accepted: its entry is new to the list, which grows for it.
LEMMA PolledAcceptsIInv ==
  ASSUME IInv, NEW c \in Client, NEW created \in BOOLEAN, PolledAccepts(c, created)
  PROVE  IInv'
<1>1. /\ m_threads \in Seq(Client) /\ Len(m_threads) \in Nat /\ capa \in Nat
      /\ \A n \in 1 .. Len(m_threads) : m_threads[n] \in Client
      /\ blockitems \in Nat \ {0}
  BY SocksAssumption, LenProperties, ElementOfSeq DEF IInv, TypeOK
<1>2. /\ m_threads' \in Seq(Client) /\ Len(m_threads') = Len(m_threads) + 1
      /\ \A k \in 1 .. Len(m_threads) : m_threads'[k] = m_threads[k]
      /\ m_threads'[Len(m_threads) + 1] = c
  BY <1>1, AppendProperties DEF PolledAccepts
<1>3. pc[c] = "none" /\ thread[c] = "none" /\ ~done[c] /\ ~clientFd[c] /\ remoteFd[c] = "none"
  BY DEF PolledAccepts, IInv, Entry
<1>4. TypeOK'
  <2>1. capa' \in Nat /\ i' \in Nat /\ main' = "poll"
    BY <1>1 DEF PolledAccepts, Accepting, GrownCapa
  <2>. QED
    BY <1>2, <2>1 DEF PolledAccepts, IInv, TypeOK, data
<1>5. \A d \in Client : Entry(d)'
  BY <1>3 DEF PolledAccepts, IInv, TypeOK, Entry
<1>6. Listed'
  <2>1. ASSUME NEW d \in Client
        PROVE  thread'[d] = "allocated" <=> OnList(d)'
    <3>1. CASE d = c
      <4>1. Len(m_threads) + 1 \in 1 .. Len(m_threads')
        BY <1>1, <1>2
      <4>. QED
        BY <1>2, <3>1, <4>1 DEF OnList, PolledAccepts, IInv, TypeOK
    <3>2. CASE d # c
      <4>1. thread'[d] = thread[d]
        BY <3>2 DEF PolledAccepts, IInv, TypeOK
      <4>2. OnList(d) <=> OnList(d)'
        BY <1>1, <1>2, <3>2 DEF OnList
      <4>. QED
        BY <4>1, <4>2 DEF IInv, Listed
    <3>. QED
      BY <3>1, <3>2
  <2>2. \A k \in 1 .. Len(m_threads) : m_threads[k] # c
    BY <1>3 DEF IInv, Listed, OnList
  <2>3. \A n, k \in 1 .. Len(m_threads') : k < n => m_threads'[k] # m_threads'[n]
    BY <1>1, <1>2, <2>2 DEF IInv, Listed
  <2>4. Len(m_threads') <= capa'
    BY <1>1, <1>2 DEF PolledAccepts, GrownCapa, IInv, Listed
  <2>. QED
    BY <2>1, <2>3, <2>4 DEF Listed
<1>7. Loop'
  BY <1>1, <1>2 DEF PolledAccepts, Accepting, Loop
<1>. QED
  BY <1>4, <1>5, <1>6, <1>7 DEF IInv

\* Every step of the event loop keeps the invariant.
LEMMA EventLoopIInv ==
  ASSUME IInv, EventLoop
  PROVE  IInv'
<1>1. /\ Len(m_threads) \in Nat /\ i \in Nat
      /\ \A n \in 1 .. Len(m_threads) : m_threads[n] \in Client
  BY LenProperties, ElementOfSeq DEF IInv, TypeOK
<1>2. CASE Polled \/ CollectTest \/ PolledFails
  <2>1. UNCHANGED <<m_threads, capa, thread, done, pc, sockets, data>>
    BY <1>2 DEF Polled, CollectTest, PolledFails
  <2>2. TypeOK'
    <3>1. main' \in {"poll", "collect", "join"} /\ i' \in Nat
      BY <1>1, <1>2 DEF Polled, CollectTest, PolledFails, Accepting
    <3>. QED
      BY <2>1, <3>1 DEF IInv, TypeOK, sockets, data
  <2>3. \A c \in Client : Entry(c)'
    BY <2>1 DEF IInv, Entry, sockets
  <2>4. Listed'
    BY <2>1 DEF IInv, Listed, OnList
  <2>5. Loop'
    BY <1>1, <1>2, <2>1 DEF Polled, CollectTest, PolledFails, Accepting, IInv, Loop
  <2>. QED
    BY <2>2, <2>3, <2>4, <2>5 DEF IInv
<1>3. CASE CollectJoin
  BY <1>3, CollectJoinIInv
<1>4. ASSUME NEW c \in Client, PolledRejects(c)
      PROVE  IInv'
  <2>1. /\ UNCHANGED <<m_threads, capa, thread, done, pc, clientFd, remoteFd, data>>
        /\ main' = "poll" /\ i' = 1 /\ client' = [client EXCEPT ![c] = "gone"]
    BY <1>4 DEF PolledRejects, Accepting
  <2>2. TypeOK'
    BY <2>1 DEF IInv, TypeOK, data
  <2>3. \A d \in Client : Entry(d)'
    BY <2>1 DEF IInv, TypeOK, Entry
  <2>4. Listed'
    BY <2>1 DEF IInv, Listed, OnList
  <2>5. Loop'
    BY <1>1, <2>1 DEF Loop
  <2>. QED
    BY <2>2, <2>3, <2>4, <2>5 DEF IInv
<1>5. ASSUME NEW c \in Client, NEW created \in BOOLEAN, PolledAccepts(c, created)
      PROVE  IInv'
  BY <1>5, PolledAcceptsIInv
<1>. QED
  BY <1>2, <1>3, <1>4, <1>5 DEF EventLoop

\* Every step keeps the invariant.
LEMMA NextIInv ==
  ASSUME IInv, [Next]_vars
  PROVE  IInv'
<1>1. CASE EventLoop
  BY <1>1, EventLoopIInv
<1>2. ASSUME NEW c \in Client, Thread(c) \/ Peers(c)
      PROVE  IInv'
  BY <1>2, ThreadBeside, PeersBeside, ClientConnectsIInv, BesideIInv
<1>3. CASE UNCHANGED vars
  BY <1>3 DEF vars, list, sockets, data, IInv, TypeOK, Entry, Listed, OnList, Loop
<1>. QED
  BY <1>1, <1>2, <1>3 DEF Next

-------------------------------------------------------------------------------
(***************************************************************************)
(* The theorems.                                                           *)
(***************************************************************************)
\* The invariant holds in every state.
LEMMA Invariant == Spec => []IInv
<1>1. IInv /\ [Next]_vars => IInv'
  BY NextIInv
<1>. QED
  BY <1>1, InitIInv, PTL DEF Spec

\* No socket holds more than it can, and no variable leaves its type.
THEOREM SocksTypeCorrect == Spec => []TypeOK
<1>1. IInv => TypeOK
  BY DEF IInv
<1>. QED
  BY <1>1, Invariant, PTL

\* collect() and the client threads: no entry is used after it is freed, none is freed
\* twice, and no entry or open socket is forgotten but the two leaks that Owned names.
THEOREM OwnedCorrect == Spec => []Owned
BY IInvOwned, Invariant, PTL

\* pthread_join in collect() never waits for more than the return of a thread.
THEOREM JoinsFinishedCorrect == Spec => []JoinsFinished
BY IInvOwned, Invariant, PTL
===============================================================================
