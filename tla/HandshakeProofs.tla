---------------------------- MODULE HandshakeProofs ----------------------------
(***************************************************************************)
(* Proofs about Handshake, for any connections, any sides they listen at   *)
(* and any amount of input and output: the two processes never look up a   *)
(* connection they do not have, agree on being connected, and the user's   *)
(* input never follows a packet.                                           *)
(***************************************************************************)
EXTENDS Handshake, SequenceTheorems, TLAPS

-------------------------------------------------------------------------------
(***************************************************************************)
(* The inductive invariant.                                                *)
(***************************************************************************)
\* Connections a CMD_CONNECTION may name: the local process has them, and so has the
\* remote one, or will have when it creates what is not its to listen for.
Known == {c \in localMap : ListenAt[c] = "local" \/ c \in remoteMap}

FromLocal == {Create(localMap)} \union {Connection(c) : c \in Known}
FromRemote == {Create({}), Error} \union {Connection(c) : c \in Known}
Output == {Text, Magic, Cut}

\* What is queued and under way in each direction.
Travels ==
  /\ localQueue \in Seq(FromLocal) /\ toRemote \in Seq(FromLocal \union {Typed})
  /\ remoteQueue \in Seq(FromRemote) /\ toLocal \in Seq(FromRemote \union Output)

\* In a sequence, only packets follow a packet.
PacketsLast(s) == \A i, j \in 1 .. Len(s) : i < j /\ IsPacket(s[i]) => IsPacket(s[j])

\* The local process writes packets only after it has seen the magic string, and the
\* remote one is connected by the first of them.
Begun ==
  /\ PacketsLast(toRemote)
  /\ localState = "PASS_THROUGH" => toRemote \in Seq({Typed}) /\ remoteState # "CONNECTED"
  /\ remoteState = "CONNECTED" => toRemote \in Seq(FromLocal)

\* The remote process writes packets only when it is connected.
Unanswered ==
  remoteState \in {"absent", "HANDSHAKING", "misframed"} =>
    /\ remoteMap = {} /\ remoteQueue = <<>> /\ toLocal \in Seq(Output)
    /\ localState # "CONNECTED"

\* The remote map is the local one but for listeners that could not be initialised.
MapsAgree ==
  /\ remoteMap \subseteq localMap
  /\ remoteState = "CONNECTED" => \A c \in localMap \ remoteMap : ListenAt[c] = "remote"

Core == Travels /\ Begun /\ Unanswered /\ MapsAgree /\ ConnectionKnown

\* The types of what is not a sequence.
Scalars ==
  /\ localState \in {"PASS_THROUGH", "HAND_SHAKE", "CONNECTED", "exited", "crashed"}
  /\ remoteState \in {"absent", "HANDSHAKING", "CONNECTED", "exited", "crashed",
                      "unexpected", "misframed"}
  /\ localMap \in SUBSET Conns /\ remoteMap \in SUBSET Conns
  /\ m_write_buffer \in 0 .. MaxTyped
  /\ m_read_buffer \in Nat
  /\ stdoutPolled \in BOOLEAN /\ stdoutEvents \in BOOLEAN
  /\ localEvents \in BOOLEAN /\ remoteEvents \in BOOLEAN
  /\ loggedIn \in BOOLEAN
  /\ typed \in 0 .. MaxTyped /\ printed \in 0 .. MaxPrinted
  /\ accepted \in 0 .. MaxAccepts
  /\ m_write_buffer <= typed

-------------------------------------------------------------------------------
(***************************************************************************)
(* Sequences.                                                              *)
(***************************************************************************)
\* A sequence over a set is one over any larger set.
LEMMA SeqMono ==
  ASSUME NEW S, NEW T, S \subseteq T, NEW s \in Seq(S)
  PROVE  s \in Seq(T)
<1>1. Len(s) \in Nat /\ s \in [1 .. Len(s) -> S]
  BY LenProperties
<1>2. s \in [1 .. Len(s) -> T]
  BY <1>1
<1>. QED
  BY <1>1, <1>2

\* A sequence is over any set that holds all its elements.
LEMMA Only ==
  ASSUME NEW S, NEW T, NEW s \in Seq(S), \A n \in 1 .. Len(s) : s[n] \in T
  PROVE  s \in Seq(T)
<1>1. Len(s) \in Nat /\ s \in [1 .. Len(s) -> S]
  BY LenProperties
<1>2. s \in [1 .. Len(s) -> T]
  BY <1>1
<1>. QED
  BY <1>1, <1>2

\* What an item of each kind is.
LEMMA Kinds ==
  /\ \A x \in FromLocal : /\ IsPacket(x) /\ x.kind \in {"CMD_CREATE", "CMD_CONNECTION"}
                          /\ x.kind = "CMD_CREATE" => x.conns = localMap
                          /\ x.kind = "CMD_CONNECTION" => x.conns \subseteq Known
  /\ \A x \in FromRemote : /\ IsPacket(x)
                           /\ x.kind = "CMD_CONNECTION" => x.conns \subseteq Known
  /\ \A x \in Output : ~IsPacket(x)
  /\ ~IsPacket(Typed)
BY DEF FromLocal, FromRemote, Output, IsPacket, Typed, Text, Magic, Cut, Error, Create, Connection

\* All of them are of the type TypeOK gives the queues and channels.
LEMMA Items ==
  ASSUME localMap \subseteq Conns
  PROVE  /\ FromLocal \subseteq Item /\ FromRemote \subseteq Item
         /\ Output \subseteq Item /\ Typed \in Item
<1>1. Known \subseteq Conns
  BY DEF Known
<1>2. \A c \in Known : Connection(c) \in Item
  BY <1>1 DEF Connection, Item
<1>3. Create(localMap) \in Item /\ Create({}) \in Item
  BY DEF Create, Item
<1>. QED
  BY <1>2, <1>3 DEF FromLocal, FromRemote, Output, Item, Typed, Text, Magic, Cut, Error

\* The maps decide what may be sent; the remote one only comes to hold more.
LEMMA KnownGrows ==
  ASSUME localMap' = localMap, remoteMap \subseteq remoteMap'
  PROVE  FromLocal \subseteq FromLocal' /\ FromRemote \subseteq FromRemote'
<1>1. Known \subseteq Known'
  BY DEF Known
<1>. QED
  BY <1>1 DEF FromLocal, FromRemote, Create, Connection, Error

\* Steps that leave the maps alone leave alone what may be sent.
LEMMA MapsUnchanged ==
  ASSUME UNCHANGED <<localMap, remoteMap>>
  PROVE  Known' = Known /\ FromLocal' = FromLocal /\ FromRemote' = FromRemote
<1>1. Known' = Known
  BY DEF Known
<1>. QED
  BY <1>1 DEF FromLocal, FromRemote, Create, Connection, Error

\* Input alone is in order.
LEMMA TypedOnly ==
  ASSUME NEW s \in Seq({Typed})
  PROVE  PacketsLast(s)
BY Kinds, ElementOfSeq DEF PacketsLast

\* Reading the first item keeps the order.
LEMMA TailLast ==
  ASSUME NEW S, NEW s \in Seq(S), s # <<>>, PacketsLast(s)
  PROVE  PacketsLast(Tail(s))
<1>1. /\ Tail(s) \in Seq(S) /\ Len(Tail(s)) = Len(s) - 1 /\ Len(s) \in Nat
      /\ \A n \in 1 .. Len(Tail(s)) : Tail(s)[n] = s[n + 1]
  BY HeadTailProperties, LenProperties
<1> SUFFICES ASSUME NEW i \in 1 .. Len(Tail(s)), NEW j \in 1 .. Len(Tail(s)),
                    i < j, IsPacket(Tail(s)[i])
             PROVE  IsPacket(Tail(s)[j])
  BY DEF PacketsLast
<1>2. /\ i + 1 \in 1 .. Len(s) /\ j + 1 \in 1 .. Len(s) /\ i + 1 < j + 1
      /\ Tail(s)[i] = s[i + 1] /\ Tail(s)[j] = s[j + 1]
  BY <1>1
<1>. QED
  BY <1>2 DEF PacketsLast

\* So does writing a packet.
LEMMA AppendLast ==
  ASSUME NEW S, NEW s \in Seq(S), NEW x \in S, PacketsLast(s), IsPacket(x)
  PROVE  PacketsLast(Append(s, x))
<1>1. /\ Len(Append(s, x)) = Len(s) + 1 /\ Len(s) \in Nat
      /\ \A n \in 1 .. Len(s) : Append(s, x)[n] = s[n]
      /\ Append(s, x)[Len(s) + 1] = x
  BY AppendProperties, LenProperties
<1> SUFFICES ASSUME NEW i \in 1 .. Len(Append(s, x)), NEW j \in 1 .. Len(Append(s, x)),
                    i < j, IsPacket(Append(s, x)[i])
             PROVE  IsPacket(Append(s, x)[j])
  BY DEF PacketsLast
<1>2. CASE j = Len(s) + 1
  BY <1>1, <1>2
<1>3. CASE j # Len(s) + 1
  <2>1. i \in 1 .. Len(s) /\ j \in 1 .. Len(s)
    BY <1>1, <1>3
  <2>2. Append(s, x)[i] = s[i] /\ Append(s, x)[j] = s[j]
    BY <1>1, <2>1
  <2>. QED
    BY <2>1, <2>2 DEF PacketsLast
<1>. QED
  BY <1>2, <1>3

\* Behind a packet there is nothing but packets.
LEMMA BehindPacket ==
  ASSUME NEW s \in Seq(FromLocal \union {Typed}), s # <<>>, PacketsLast(s), IsPacket(Head(s))
  PROVE  Tail(s) \in Seq(FromLocal)
<1>1. /\ Tail(s) \in Seq(FromLocal \union {Typed}) /\ Len(Tail(s)) = Len(s) - 1
      /\ Len(s) \in Nat \ {0} /\ Head(s) = s[1]
      /\ \A n \in 1 .. Len(Tail(s)) : Tail(s)[n] = s[n + 1]
  BY HeadTailProperties, EmptySeq, LenProperties
<1>2. ASSUME NEW n \in 1 .. Len(Tail(s))
      PROVE  Tail(s)[n] \in FromLocal
  <2>1. 1 \in 1 .. Len(s) /\ n + 1 \in 1 .. Len(s) /\ 1 < n + 1 /\ Tail(s)[n] = s[n + 1]
    BY <1>1, <1>2
  <2>2. IsPacket(Tail(s)[n])
    BY <1>1, <2>1 DEF PacketsLast
  <2>3. Tail(s)[n] \in FromLocal \union {Typed}
    BY <1>1, ElementOfSeq
  <2>. QED
    BY <2>2, <2>3, Kinds
<1>. QED
  BY <1>1, <1>2, Only

-------------------------------------------------------------------------------
(***************************************************************************)
(* The first state, and what the invariant says.                           *)
(***************************************************************************)
\* StdioTunnelLocal::start establishes the invariant.
LEMMA InitIInv == Init => Scalars /\ Core
<1> SUFFICES ASSUME Init PROVE Scalars /\ Core
  OBVIOUS
<1>1. localMap \subseteq Conns
  BY DEF Init, CreateConnections
<1>2. Scalars
  <2>1. 0 \in 0 .. MaxTyped /\ 0 \in 0 .. MaxPrinted /\ 0 \in 0 .. MaxAccepts /\ 0 \in Nat
    BY HandshakeAssumption
  <2>2. /\ localMap \in SUBSET Conns /\ remoteMap \in SUBSET Conns /\ 0 <= 0
        /\ TRUE \in BOOLEAN /\ FALSE \in BOOLEAN
    BY <1>1 DEF Init
  <2>. QED
    BY <2>1, <2>2, Zenon DEF Init, Scalars
<1>3. \A S : <<>> \in Seq(S)
  BY EmptySeq
<1>4. Len(toRemote) = 0
  BY DEF Init
<1>. QED
  BY <1>2, <1>3, <1>4
    DEF Init, Core, Travels, Begun, PacketsLast, Unanswered, MapsAgree, ConnectionKnown

\* The core types the queues and channels.
LEMMA CoreType == Scalars /\ Core => TypeOK
<1> SUFFICES ASSUME Scalars, Core PROVE TypeOK
  OBVIOUS
<1>1. /\ FromLocal \subseteq Item /\ FromRemote \subseteq Item
      /\ Output \subseteq Item /\ Typed \in Item
  BY Items DEF Scalars
<1>2. /\ localQueue \in Seq(Item) /\ toRemote \in Seq(Item)
      /\ remoteQueue \in Seq(Item) /\ toLocal \in Seq(Item)
  <2>1. FromLocal \union {Typed} \subseteq Item /\ FromRemote \union Output \subseteq Item
    BY <1>1
  <2>. QED
    BY <1>1, <2>1, SeqMono DEF Core, Travels
<1>. QED
  BY <1>2 DEF Scalars, TypeOK

\* The core implies what the run checks.
LEMMA CoreProperties == Scalars /\ Core => ConnectedAgree /\ InputBeforePackets
<1> SUFFICES ASSUME Core PROVE ConnectedAgree /\ InputBeforePackets
  OBVIOUS
<1>1. ConnectedAgree
  BY DEF Core, Unanswered, ConnectedAgree
<1>2. ASSUME remoteState = "CONNECTED", NEW n \in 1 .. Len(toRemote)
      PROVE  IsPacket(toRemote[n])
  <2>1. toRemote[n] \in FromLocal
    BY <1>2, ElementOfSeq DEF Core, Begun
  <2>. QED
    BY <2>1, Kinds
<1>. QED
  BY <1>1, <1>2 DEF Core, Begun, PacketsLast, InputBeforePackets

-------------------------------------------------------------------------------
(***************************************************************************)
(* Steps and the core of the invariant.                                    *)
(***************************************************************************)
\* Every step but RemoteCreate leaves the maps alone: the core then speaks of the
\* same items before and after.
LEMMA CoreStep ==
  ASSUME Core, UNCHANGED maps,
         localQueue' \in Seq(FromLocal), toRemote' \in Seq(FromLocal \union {Typed}),
         remoteQueue' \in Seq(FromRemote), toLocal' \in Seq(FromRemote \union Output),
         PacketsLast(toRemote'),
         localState' = "PASS_THROUGH" =>
           toRemote' \in Seq({Typed}) /\ localState = "PASS_THROUGH",
         remoteState' = "CONNECTED" =>
           toRemote' \in Seq(FromLocal) /\ remoteState = "CONNECTED",
         remoteState' \in {"absent", "HANDSHAKING", "misframed"} =>
           /\ remoteState \in {"absent", "HANDSHAKING", "misframed"}
           /\ remoteQueue' = <<>> /\ toLocal' \in Seq(Output) /\ localState' # "CONNECTED",
         ConnectionKnown'
  PROVE  Core'
<1>1. UNCHANGED <<localMap, remoteMap>>
  BY DEF maps
<1>2. FromLocal' = FromLocal /\ FromRemote' = FromRemote
  BY <1>1, MapsUnchanged
<1>3. Travels'
  BY <1>2 DEF Travels, Typed, Output, Text, Magic, Cut
<1>4. Begun'
  <2>1. PacketsLast(toRemote)'
    BY DEF PacketsLast, IsPacket
  <2>. QED
    BY <1>2, <2>1 DEF Core, Begun, Typed
<1>5. Unanswered'
  BY <1>1 DEF Core, Unanswered, Output, Text, Magic, Cut
<1>6. MapsAgree'
  BY <1>1 DEF Core, MapsAgree
<1>. QED
  BY <1>3, <1>4, <1>5, <1>6 DEF Core

\* What is read from a channel, and what is left there.
LEMMA PopToLocal ==
  ASSUME Core, toLocal # <<>>
  PROVE  /\ Tail(toLocal) \in Seq(FromRemote \union Output)
         /\ Head(toLocal) \in FromRemote \union Output
         /\ toLocal \in Seq(Output) => Tail(toLocal) \in Seq(Output) /\ Head(toLocal) \in Output
BY HeadTailProperties DEF Core, Travels

\* Several items are taken off the channel to the local process in one read().
LEMMA DropToLocal ==
  ASSUME Core, NEW n \in 1 .. Len(toLocal)
  PROVE  LET rest == SubSeq(toLocal, n + 1, Len(toLocal))
         IN  /\ rest \in Seq(FromRemote \union Output)
             /\ toLocal \in Seq(Output) => rest \in Seq(Output)
<1>1. ASSUME NEW S, toLocal \in Seq(S)
      PROVE  SubSeq(toLocal, n + 1, Len(toLocal)) \in Seq(S)
  <2>1. Len(toLocal) \in Nat /\ \A i \in 1 .. Len(toLocal) : toLocal[i] \in S
    BY <1>1, LenProperties, ElementOfSeq
  <2>2. n + 1 \in Int /\ \A i \in n + 1 .. Len(toLocal) : toLocal[i] \in S
    BY <2>1
  <2>. QED
    BY <1>1, <2>1, <2>2, SubSeqProperties
<1>. QED
  BY <1>1 DEF Core, Travels

\* The same for one item to the remote process: the order is kept.
LEMMA PopToRemote ==
  ASSUME Core, toRemote # <<>>
  PROVE  /\ Tail(toRemote) \in Seq(FromLocal \union {Typed})
         /\ Head(toRemote) \in FromLocal \union {Typed}
         /\ PacketsLast(Tail(toRemote))
         /\ toRemote \in Seq({Typed}) => Tail(toRemote) \in Seq({Typed}) /\ Head(toRemote) = Typed
         /\ toRemote \in Seq(FromLocal) =>
              Tail(toRemote) \in Seq(FromLocal) /\ Head(toRemote) \in FromLocal
BY HeadTailProperties, TailLast DEF Core, Travels, Begun

\* What is shown on the terminal comes behind whatever is under way.
LEMMA PushOutput ==
  ASSUME Core, NEW x \in Output
  PROVE  /\ Append(toLocal, x) \in Seq(FromRemote \union Output)
         /\ toLocal \in Seq(Output) => Append(toLocal, x) \in Seq(Output)
<1>1. x \in FromRemote \union Output
  OBVIOUS
<1>. QED
  BY <1>1, AppendProperties DEF Core, Travels

\* Input, in PASS_THROUGH.
LEMMA PushInput ==
  ASSUME Core, localState = "PASS_THROUGH", NEW s \in Seq({Typed})
  PROVE  /\ toRemote \o s \in Seq({Typed}) /\ toRemote \o s \in Seq(FromLocal \union {Typed})
         /\ PacketsLast(toRemote \o s)
<1>1. toRemote \o s \in Seq({Typed})
  BY ConcatProperties DEF Core, Begun
<1>2. {Typed} \subseteq FromLocal \union {Typed}
  OBVIOUS
<1>. QED
  BY <1>1, <1>2, SeqMono, TypedOnly

\* The user and the shell.
LEMMA UserCore ==
  ASSUME Core, Scalars, Prints \/ ShellReads \/ ReadStdin
  PROVE  Core'
<1>1. CASE Prints
  <2>1. Text \in Output
    BY DEF Output
  <2>2. /\ toLocal' = Append(toLocal, Text)
        /\ UNCHANGED <<localState, remoteState, maps, localQueue, remoteQueue, toRemote>>
    BY <1>1 DEF Prints, tunnel
  <2>. QED
    BY <2>1, <2>2, PushOutput, CoreStep DEF Core, Travels, Begun, Unanswered, ConnectionKnown
<1>2. CASE ShellReads
  <2>1. /\ toRemote # <<>> /\ toRemote' = Tail(toRemote) /\ remoteState # "CONNECTED"
        /\ UNCHANGED <<localState, remoteState, maps, localQueue, remoteQueue, toLocal>>
    BY <1>2 DEF ShellReads, tunnel, RemoteRuns
  <2>. QED
    BY <2>1, PopToRemote, CoreStep DEF Core, Travels, Begun, Unanswered, ConnectionKnown
<1>3. CASE ReadStdin
  <2>1. UNCHANGED <<localState, remoteState, maps, localQueue, remoteQueue, toRemote, toLocal>>
    BY <1>3 DEF ReadStdin
  <2>. QED
    BY <2>1, CoreStep DEF Core, Travels, Begun, Unanswered, ConnectionKnown
<1>. QED
  BY <1>1, <1>2, <1>3

\* The local process in PASS_THROUGH, and stdout in every state.
LEMMA PassCore ==
  ASSUME Core, Scalars,
         (\E login \in BOOLEAN : PassRead(login)) \/ ReadMagic \/ WriteInput \/ WriteOutput
  PROVE  Core'
<1>1. ASSUME NEW login \in BOOLEAN, PassRead(login)
      PROVE  Core'
  <2>1. /\ toLocal # <<>> /\ toLocal' = Tail(toLocal) /\ localState = "PASS_THROUGH"
        /\ toRemote' = toRemote \/ toRemote' = Append(toRemote, Typed)
        /\ UNCHANGED <<localState, remoteState, maps, localQueue, remoteQueue>>
    BY <1>1 DEF PassRead, tunnel
  <2>2. /\ toRemote' \in Seq({Typed}) /\ toRemote' \in Seq(FromLocal \union {Typed})
        /\ PacketsLast(toRemote')
    <3>1. CASE toRemote' = toRemote
      BY <2>1, <3>1 DEF Core, Travels, Begun
    <3>2. CASE toRemote' = Append(toRemote, Typed)
      <4>1. toRemote \in Seq({Typed}) /\ <<Typed>> \in Seq({Typed})
        BY <2>1 DEF Core, Begun
      <4>2. toRemote' = toRemote \o <<Typed>>
        BY <3>2, <4>1, AppendIsConcat
      <4>. QED
        BY <2>1, <4>1, <4>2, PushInput
    <3>. QED
      BY <2>1, <3>1, <3>2
  <2>. QED
    BY <2>1, <2>2, PopToLocal, CoreStep
      DEF Core, Travels, Begun, Unanswered, ConnectionKnown
<1>2. CASE ReadMagic
  <2>1. PICK n \in 1 .. Len(toLocal) :
          /\ toLocal' = SubSeq(toLocal, n + 1, Len(toLocal)) /\ localState' = "HAND_SHAKE"
          /\ localQueue' = Append(localQueue, Create(localMap))
          /\ UNCHANGED <<remoteState, maps, remoteQueue, toRemote>>
    BY <1>2 DEF ReadMagic, StartHandshaking, Starts
  <2>2. localQueue' \in Seq(FromLocal)
    <3>1. Create(localMap) \in FromLocal
      BY DEF FromLocal
    <3>. QED
      BY <2>1, <3>1, AppendProperties DEF Core, Travels
  <2>. QED
    BY <2>1, <2>2, DropToLocal, CoreStep
      DEF Core, Travels, Begun, Unanswered, ConnectionKnown
<1>3. CASE WriteInput
  <2>1. PICK n \in 0 .. MaxTyped : n <= m_write_buffer /\ PassWrite(n)
    BY <1>3 DEF WriteInput
  <2> DEFINE s == [i \in 1 .. n |-> Typed]
  <2>2. s \in Seq({Typed})
    <3>1. n \in Nat /\ s \in [1 .. n -> {Typed}]
      BY HandshakeAssumption
    <3>. QED
      BY <3>1
  <2>3. /\ toRemote' = toRemote \o s /\ localState = "PASS_THROUGH"
        /\ UNCHANGED <<localState, remoteState, maps, localQueue, remoteQueue, toLocal>>
    BY <2>1 DEF PassWrite
  <2> HIDE DEF s
  <2>. QED
    BY <2>2, <2>3, PushInput, CoreStep
      DEF Core, Travels, Begun, Unanswered, ConnectionKnown
<1>4. CASE WriteOutput
  <2>1. UNCHANGED <<localState, remoteState, maps, localQueue, remoteQueue, toRemote, toLocal>>
    BY <1>4 DEF WriteOutput, PassStdout, ConnectedStdout, Shows, tunnel
  <2>. QED
    BY <2>1, CoreStep DEF Core, Travels, Begun, Unanswered, ConnectionKnown
<1>. QED
  BY <1>1, <1>2, <1>3, <1>4

\* A packet joins the local queue.
LEMMA PushLocal ==
  ASSUME Core, NEW c \in Known
  PROVE  Append(localQueue, Connection(c)) \in Seq(FromLocal)
<1>1. Connection(c) \in FromLocal
  BY DEF FromLocal
<1>. QED
  BY <1>1, AppendProperties DEF Core, Travels

\* The local process once the handshake has begun, its listeners and its end.
LEMMA LocalCore ==
  ASSUME Core, Scalars,
         LocalWrite \/ LocalRead \/ LocalExits \/ \E c \in Conns : LocalAccept(c)
  PROVE  Core'
<1>1. CASE LocalWrite
  <2>1. /\ localQueue # <<>> /\ localQueue' = Tail(localQueue)
        /\ toRemote' = Append(toRemote, Head(localQueue)) /\ localState # "PASS_THROUGH"
        /\ UNCHANGED <<localState, remoteState, maps, remoteQueue, toLocal>>
    BY <1>1 DEF LocalWrite, WritesIn
  <2>2. Head(localQueue) \in FromLocal /\ localQueue' \in Seq(FromLocal)
    BY <2>1, HeadTailProperties DEF Core, Travels
  <2>3. IsPacket(Head(localQueue)) /\ Head(localQueue) \in FromLocal \union {Typed}
    BY <2>2, Kinds
  <2>4. toRemote' \in Seq(FromLocal \union {Typed}) /\ PacketsLast(toRemote')
    BY <2>1, <2>3, AppendProperties, AppendLast DEF Core, Travels, Begun
  <2>5. remoteState = "CONNECTED" => toRemote' \in Seq(FromLocal)
    BY <2>1, <2>2, AppendProperties DEF Core, Begun
  <2>. QED
    BY <2>1, <2>2, <2>4, <2>5, CoreStep
      DEF Core, Travels, Begun, Unanswered, ConnectionKnown
<1>2. CASE LocalRead
  <2> DEFINE x == Head(toLocal)
  <2>1. /\ toLocal # <<>> /\ toLocal' = Tail(toLocal)
        /\ localState \in {"HAND_SHAKE", "CONNECTED"}
        /\ UNCHANGED <<remoteState, maps, remoteQueue, toRemote>>
    BY <1>2 DEF LocalRead, LocalReadText, LocalError, LocalCreate, LocalConnection, LocalReads
  <2>2. /\ toLocal' \in Seq(FromRemote \union Output) /\ x \in FromRemote \union Output
        /\ toLocal \in Seq(Output) => toLocal' \in Seq(Output) /\ x \in Output
    BY <2>1, PopToLocal
  <2>3. \/ LocalReadText(x) \/ LocalError(x) \/ LocalCreate(x)
        \/ \E c \in Conns, a \in BOOLEAN : LocalConnection(x, c, a)
    BY <1>2 DEF LocalRead
  <2> HIDE DEF x
  <2>4. CASE LocalReadText(x) \/ LocalError(x)
    <3>1. localState' \in {localState, "exited"} /\ UNCHANGED localQueue
      BY <2>4 DEF LocalReadText, LocalError
    <3>. QED
      BY <2>1, <2>2, <3>1, CoreStep DEF Core, Travels, Begun, Unanswered, ConnectionKnown
  <2>5. CASE LocalCreate(x)
    <3>1. localState' = "CONNECTED" /\ UNCHANGED localQueue /\ IsPacket(x)
      BY <2>5 DEF LocalCreate, IsPacket
    <3>2. toLocal \notin Seq(Output)
      BY <2>2, <3>1, Kinds
    <3>. QED
      BY <2>1, <2>2, <3>1, <3>2, CoreStep DEF Core, Travels, Begun, Unanswered, ConnectionKnown
  <2>6. ASSUME NEW c \in Conns, NEW a \in BOOLEAN, LocalConnection(x, c, a)
        PROVE  Core'
    <3>1. /\ x.kind = "CMD_CONNECTION" /\ c \in x.conns /\ IsPacket(x)
          /\ localQueue' = localQueue \/ localQueue' = Append(localQueue, Connection(c))
          /\ localState' = IF c \in localMap THEN localState ELSE "crashed"
      BY <2>6 DEF LocalConnection, IsPacket
    <3>2. c \in Known /\ c \in localMap
      BY <2>2, <3>1, Kinds DEF Known
    <3>3. localQueue' \in Seq(FromLocal) /\ localState' = localState
      BY <3>1, <3>2, PushLocal DEF Core, Travels
    <3>. QED
      BY <2>1, <2>2, <3>3, CoreStep DEF Core, Travels, Begun, Unanswered, ConnectionKnown
  <2>. QED
    BY <2>3, <2>4, <2>5, <2>6
<1>3. CASE LocalExits
  <2>1. /\ localState' = "exited"
        /\ UNCHANGED <<remoteState, maps, localQueue, remoteQueue, toRemote, toLocal>>
    BY <1>3 DEF LocalExits, tunnel
  <2>. QED
    BY <2>1, CoreStep DEF Core, Travels, Begun, Unanswered, ConnectionKnown
<1>4. ASSUME NEW c \in Conns, LocalAccept(c)
      PROVE  Core'
  <2>1. /\ localQueue' = Append(localQueue, Connection(c)) /\ c \in Known
        /\ UNCHANGED <<localState, remoteState, maps, remoteQueue, toRemote, toLocal>>
    BY <1>4 DEF LocalAccept, Known
  <2>2. localQueue' \in Seq(FromLocal)
    BY <2>1, PushLocal
  <2>. QED
    BY <2>1, <2>2, CoreStep DEF Core, Travels, Begun, Unanswered, ConnectionKnown
<1>. QED
  BY <1>1, <1>2, <1>3, <1>4

\* The remote process ends and says why on the terminal.
LEMMA ExitsCore ==
  ASSUME Core, NEW state \in {"exited", "unexpected"}, Exits(state),
         toRemote' \in Seq(FromLocal \union {Typed}), PacketsLast(toRemote'),
         toRemote \in Seq({Typed}) => toRemote' \in Seq({Typed}),
         UNCHANGED <<localState, maps, localQueue, remoteQueue>>
  PROVE  Core'
<1>1. Text \in Output /\ Cut \in Output
  BY DEF Output
<1>2. /\ toLocal' \in Seq(FromRemote \union Output)
      /\ toLocal \in Seq(Output) => toLocal' \in Seq(Output)
  <2>1. CASE toLocal' = Append(toLocal, Text)
    BY <1>1, <2>1, PushOutput
  <2>2. CASE toLocal' = toLocal \o <<Cut, Text>>
    <3>1. <<Cut, Text>> \in Seq(Output) /\ <<Cut, Text>> \in Seq(FromRemote \union Output)
      BY <1>1
    <3>. QED
      BY <2>2, <3>1, ConcatProperties DEF Core, Travels
  <2>. QED
    BY <2>1, <2>2 DEF Exits
<1>3. remoteState' = state
  BY DEF Exits
<1>. QED
  BY <1>1, <1>2, <1>3, CoreStep DEF Core, Travels, Begun, ConnectionKnown

\* CMD_CREATE comes: the one step that changes a map.
LEMMA RemoteCreateCore ==
  ASSUME Core, Scalars, toRemote # <<>>, RemoteCreate(Head(toRemote))
  PROVE  Core'
<1> DEFINE x == Head(toRemote)
<1>1. /\ remoteState = "HANDSHAKING" /\ x.kind = "CMD_CREATE" /\ IsPacket(x)
      /\ remoteMap' \in CreateConnections("remote", x.conns)
      /\ remoteState' = "CONNECTED" /\ remoteQueue' = remoteQueue \o <<Create({})>>
      /\ toRemote' = Tail(toRemote)
      /\ UNCHANGED <<localState, localMap, localQueue, toLocal>>
  BY DEF RemoteCreate, Creates, RemoteReads, IsPacket
<1>2. /\ x \in FromLocal /\ x.conns = localMap
      /\ toRemote' \in Seq(FromLocal) /\ PacketsLast(toRemote')
  <2>1. x \in FromLocal
    BY <1>1, PopToRemote, Kinds
  <2>. QED
    BY <1>1, <2>1, PopToRemote, Kinds, BehindPacket DEF Core, Travels, Begun
<1>3. /\ remoteMap = {} /\ remoteMap' \subseteq localMap
      /\ \A c \in localMap \ remoteMap' : ListenAt[c] = "remote"
      /\ remoteQueue = <<>>
  BY <1>1, <1>2 DEF Core, Unanswered, CreateConnections
<1>4. FromLocal \subseteq FromLocal' /\ FromRemote \subseteq FromRemote'
  BY <1>1, <1>3, KnownGrows
<1>5. remoteQueue' \in Seq(FromRemote')
  <2>1. Create({}) \in FromRemote
    BY DEF FromRemote
  <2>2. <<Create({})>> \in Seq(FromRemote) /\ <<>> \in Seq(FromRemote)
    BY <2>1, EmptySeq
  <2>3. remoteQueue' \in Seq(FromRemote)
    BY <1>1, <1>3, <2>2, ConcatProperties
  <2>. QED
    BY <1>4, <2>3, SeqMono
<1>6. toRemote' \in Seq(FromLocal') /\ localQueue' \in Seq(FromLocal')
  BY <1>1, <1>2, <1>4, SeqMono DEF Core, Travels
<1>7. toRemote' \in Seq(FromLocal' \union {Typed}) /\ toLocal' \in Seq(FromRemote' \union Output)
  <2>1. /\ FromLocal' \subseteq FromLocal' \union {Typed}
        /\ FromRemote \union Output \subseteq FromRemote' \union Output
    BY <1>4
  <2>. QED
    BY <1>1, <1>6, <2>1, SeqMono DEF Core, Travels
<1>8. localState # "PASS_THROUGH"
  <2>1. SUFFICES ASSUME localState = "PASS_THROUGH" PROVE FALSE
    OBVIOUS
  <2>2. x = Typed
    BY <2>1, PopToRemote DEF Core, Begun
  <2>. QED
    BY <1>1, <2>2, Kinds
<1> HIDE DEF x
<1>9. Travels'
  BY <1>5, <1>6, <1>7 DEF Travels, Typed, Output, Text, Magic, Cut
<1>10. PacketsLast(toRemote)'
  BY <1>2 DEF PacketsLast, IsPacket
<1>11. Begun'
  BY <1>1, <1>6, <1>8, <1>10 DEF Begun
<1>12. Unanswered' /\ MapsAgree' /\ ConnectionKnown'
  BY <1>1, <1>3 DEF Core, Unanswered, MapsAgree, ConnectionKnown
<1>. QED
  BY <1>9, <1>11, <1>12 DEF Core

\* The remote process reads: the input of the user, or packets in either state.
LEMMA RemoteReadCore ==
  ASSUME Core, Scalars, RemoteRead
  PROVE  Core'
<1> DEFINE x == Head(toRemote)
<1>1. /\ toRemote # <<>> /\ toRemote' = Tail(toRemote)
      /\ remoteState \in {"HANDSHAKING", "CONNECTED"}
      /\ UNCHANGED <<localState, localMap, localQueue>>
  BY DEF RemoteRead, RemoteReadTyped, RemoteCreate, Creates, RemoteCreateThrows,
         RemoteUnexpected, RemoteConnection, RemoteReads
<1>2. /\ toRemote' \in Seq(FromLocal \union {Typed}) /\ x \in FromLocal \union {Typed}
      /\ PacketsLast(toRemote')
      /\ toRemote \in Seq({Typed}) => toRemote' \in Seq({Typed})
      /\ toRemote \in Seq(FromLocal) => toRemote' \in Seq(FromLocal) /\ x \in FromLocal
  BY <1>1, PopToRemote
<1>3. \/ RemoteReadTyped(x) \/ RemoteCreate(x) \/ RemoteCreateThrows(x) \/ RemoteUnexpected(x)
      \/ \E c \in Conns : \E answer \in Answers(c) : RemoteConnection(x, c, answer)
  BY DEF RemoteRead
<1>4. CASE RemoteCreate(x)
  BY <1>1, <1>4, RemoteCreateCore
<1> HIDE DEF x
<1>5. ASSUME UNCHANGED <<remoteMap, remoteQueue>>, Exits("exited") \/ Exits("unexpected")
      PROVE  Core'
  BY <1>1, <1>2, <1>5, ExitsCore DEF maps
<1>6. CASE RemoteCreateThrows(x) \/ RemoteUnexpected(x)
  BY <1>5, <1>6 DEF RemoteCreateThrows, RemoteUnexpected
<1>7. CASE RemoteReadTyped(x)
  <2>1. CASE Exits("exited")
    BY <1>5, <1>7, <2>1 DEF RemoteReadTyped
  <2>2. CASE remoteState' = "misframed" /\ UNCHANGED toLocal
    <3>1. UNCHANGED <<remoteMap, remoteQueue>> /\ ~IsPacket(x)
      BY <1>7 DEF RemoteReadTyped
    <3>2. remoteState = "HANDSHAKING"
      BY <1>1, <1>2, <3>1, Kinds DEF Core, Begun
    <3>. QED
      BY <1>1, <1>2, <2>2, <3>1, <3>2, CoreStep
        DEF Core, Travels, Begun, Unanswered, ConnectionKnown, maps
  <2>. QED
    BY <1>7, <2>1, <2>2 DEF RemoteReadTyped
<1>8. ASSUME NEW c \in Conns, NEW answer \in Answers(c), RemoteConnection(x, c, answer)
      PROVE  Core'
  <2>1. /\ remoteState = "CONNECTED" /\ x.kind = "CMD_CONNECTION" /\ c \in x.conns
        /\ remoteState' = IF c \in remoteMap THEN remoteState ELSE "crashed"
        /\ remoteQueue' = remoteQueue \o answer
        /\ UNCHANGED <<remoteMap, toLocal>>
    BY <1>8 DEF RemoteConnection
  <2>2. c \in Known
    BY <1>2, <2>1, Kinds DEF Core, Begun
  <2>3. c \in remoteMap
    BY <2>1, <2>2, HandshakeAssumption DEF Known, Core, MapsAgree
  <2>4. answer \in Seq(FromRemote)
    <3>1. Error \in FromRemote /\ Connection(c) \in FromRemote
      BY <2>2 DEF FromRemote
    <3>2. answer \in {<<>>, <<Connection(c)>>, <<Error, Connection(c)>>}
      BY <1>8 DEF Answers
    <3>3. /\ <<>> \in Seq(FromRemote) /\ <<Connection(c)>> \in Seq(FromRemote)
          /\ <<Error, Connection(c)>> \in Seq(FromRemote)
      BY <3>1, EmptySeq
    <3>. QED
      BY <3>2, <3>3
  <2>5. remoteQueue' \in Seq(FromRemote)
    BY <2>1, <2>4, ConcatProperties DEF Core, Travels
  <2>. QED
    BY <1>1, <1>2, <2>1, <2>3, <2>5, CoreStep
      DEF Core, Travels, Begun, Unanswered, ConnectionKnown, maps
<1>. QED
  BY <1>3, <1>4, <1>6, <1>7, <1>8

\* The other steps of the remote process.
LEMMA RemoteCore ==
  ASSUME Core, Scalars,
         RemoteStart \/ RemoteWrite \/ RemoteExits \/ \E c \in Conns : RemoteAccept(c)
  PROVE  Core'
<1>1. CASE RemoteStart
  <2>1. Magic \in Output
    BY DEF Output
  <2>2. /\ remoteState = "absent" /\ remoteState' = "HANDSHAKING"
        /\ toLocal' = Append(toLocal, Magic)
        /\ UNCHANGED <<localState, maps, localQueue, remoteQueue, toRemote>>
    BY <1>1 DEF RemoteStart, tunnel
  <2>. QED
    BY <2>1, <2>2, PushOutput, CoreStep DEF Core, Travels, Begun, Unanswered, ConnectionKnown
<1>2. CASE RemoteWrite
  <2>1. /\ remoteQueue # <<>> /\ remoteQueue' = Tail(remoteQueue)
        /\ toLocal' = Append(toLocal, Head(remoteQueue))
        /\ UNCHANGED <<localState, remoteState, maps, localQueue, toRemote>>
    BY <1>2 DEF RemoteWrite
  <2>2. Head(remoteQueue) \in FromRemote /\ remoteQueue' \in Seq(FromRemote)
    BY <2>1, HeadTailProperties DEF Core, Travels
  <2>3. Head(remoteQueue) \in FromRemote \union Output
    BY <2>2
  <2>4. toLocal' \in Seq(FromRemote \union Output)
    BY <2>1, <2>3, AppendProperties DEF Core, Travels
  <2>. QED
    BY <2>1, <2>2, <2>4, CoreStep DEF Core, Travels, Begun, Unanswered, ConnectionKnown
<1>3. CASE RemoteExits
  <2>1. Exits("exited") /\ UNCHANGED <<localState, maps, localQueue, remoteQueue, toRemote>>
    BY <1>3 DEF RemoteExits, tunnel
  <2>. QED
    BY <2>1, ExitsCore DEF Core, Travels, Begun
<1>4. ASSUME NEW c \in Conns, RemoteAccept(c)
      PROVE  Core'
  <2>1. /\ remoteQueue' = Append(remoteQueue, Connection(c))
        /\ remoteState = "CONNECTED" /\ c \in remoteMap
        /\ UNCHANGED <<localState, remoteState, maps, localQueue, toRemote, toLocal>>
    BY <1>4 DEF RemoteAccept
  <2>2. Connection(c) \in FromRemote
    BY <2>1 DEF FromRemote, Known, Core, MapsAgree
  <2>3. remoteQueue' \in Seq(FromRemote)
    BY <2>1, <2>2, AppendProperties DEF Core, Travels
  <2>. QED
    BY <2>1, <2>3, CoreStep DEF Core, Travels, Begun, Unanswered, ConnectionKnown
<1>. QED
  BY <1>1, <1>2, <1>3, <1>4

-------------------------------------------------------------------------------
(***************************************************************************)
(* Steps and the other variables.                                          *)
(***************************************************************************)
\* Every step keeps the types of what is not a sequence.
LEMMA StepScalars ==
  ASSUME Core, Scalars, Next
  PROVE  Scalars'
<1> USE HandshakeAssumption
<1>1. CASE Prints \/ ShellReads
  BY <1>1 DEF Prints, ShellReads, Scalars, maps, terminal, tunnel, bounds
<1>2. CASE ReadStdin
  BY <1>2 DEF ReadStdin, Scalars, maps
<1>3. ASSUME NEW login \in BOOLEAN, PassRead(login)
      PROVE  Scalars'
  BY <1>3 DEF PassRead, Scalars, maps, tunnel, bounds
<1>4. CASE ReadMagic
  <2>1. PICK n \in 1 .. Len(toLocal) : Starts("HAND_SHAKE", localMap, n)
    BY <1>4 DEF ReadMagic, StartHandshaking
  <2>2. m_read_buffer' \in Nat
    BY <2>1 DEF Starts, Scalars
  <2>. QED
    BY <2>1, <2>2 DEF Starts, Scalars, maps, bounds
<1>5. CASE WriteInput
  <2>1. PICK n \in 0 .. MaxTyped : n <= m_write_buffer /\ PassWrite(n)
    BY <1>5 DEF WriteInput
  <2>. QED
    BY <2>1 DEF PassWrite, Scalars, maps, bounds
<1>6. CASE WriteOutput
  <2>1. PICK n \in 0 .. m_read_buffer : PassStdout(n) \/ ConnectedStdout(n)
    BY <1>6 DEF WriteOutput
  <2>2. m_read_buffer' \in Nat
    BY <2>1 DEF PassStdout, ConnectedStdout, Shows, Scalars
  <2>. QED
    BY <2>1, <2>2 DEF PassStdout, ConnectedStdout, Shows, Scalars, maps, tunnel, bounds
<1>7. CASE LocalWrite \/ LocalExits
  BY <1>7 DEF LocalWrite, WritesIn, LocalExits, Scalars, maps, terminal, tunnel, bounds
<1>8. CASE LocalRead
  <2>1. /\ localState' \in {"HAND_SHAKE", "CONNECTED", "exited", "crashed"}
        /\ localEvents' \in BOOLEAN
        /\ UNCHANGED <<remoteState, maps, terminal, remoteEvents, loggedIn, bounds>>
    BY <1>8 DEF LocalRead, LocalReadText, LocalError, LocalCreate, LocalConnection,
                LocalReads, Scalars
  <2>. QED
    BY <2>1 DEF Scalars, maps, terminal, bounds
<1>9. CASE RemoteStart \/ RemoteWrite \/ RemoteExits
  BY <1>9, ZenonT(40) DEF RemoteStart, RemoteWrite, RemoteExits, Exits, Scalars, maps, terminal, tunnel, bounds
<1>10. CASE RemoteRead
  <2>1. UNCHANGED <<localState, localMap, terminal, localEvents, loggedIn, bounds>>
    BY <1>10 DEF RemoteRead, RemoteReadTyped, RemoteCreate, Creates, RemoteCreateThrows,
                 RemoteUnexpected, RemoteConnection, RemoteReads
  <2>2. /\ remoteState' \in {"CONNECTED", "exited", "crashed", "unexpected", "misframed"}
        /\ remoteEvents' \in BOOLEAN
    BY <1>10 DEF RemoteRead, RemoteReadTyped, RemoteCreate, Creates, RemoteCreateThrows,
                 RemoteUnexpected, RemoteConnection, RemoteReads, Exits, Scalars
  <2>3. remoteMap' \subseteq Conns
    <3>1. Core'
      BY <1>10, RemoteReadCore
    <3>. QED
      BY <2>1, <3>1 DEF Core, MapsAgree, Scalars
  <2>. QED
    BY <2>1, <2>2, <2>3 DEF Scalars, terminal, bounds
<1>11. ASSUME NEW c \in Conns, LocalAccept(c) \/ RemoteAccept(c)
       PROVE  Scalars'
  <2>1. accepted' \in 0 .. MaxAccepts /\ localEvents' \in BOOLEAN /\ remoteEvents' \in BOOLEAN
    <3>1. CASE LocalAccept(c)
      BY <3>1 DEF LocalAccept, Scalars
    <3>2. CASE RemoteAccept(c)
      BY <3>2 DEF RemoteAccept, Scalars
    <3>. QED
      BY <1>11, <3>1, <3>2
  <2>2. UNCHANGED <<localState, remoteState, maps, terminal, loggedIn, typed, printed>>
    BY <1>11 DEF LocalAccept, RemoteAccept
  <2>. QED
    BY <2>1, <2>2 DEF Scalars, maps, terminal
<1>. QED
  BY <1>1, <1>2, <1>3, <1>4, <1>5, <1>6, <1>7, <1>8, <1>9, <1>10, <1>11 DEF Next

-------------------------------------------------------------------------------
(***************************************************************************)
(* The theorems.                                                           *)
(***************************************************************************)
\* The invariant holds in every state.
LEMMA Invariant == Spec => [](Scalars /\ Core)
<1>1. Scalars /\ Core /\ [Next]_vars => (Scalars /\ Core)'
  <2> SUFFICES ASSUME Scalars, Core, [Next]_vars PROVE Scalars' /\ Core'
    OBVIOUS
  <2>1. CASE Next
    <3>1. Core'
      BY <2>1, UserCore, PassCore, LocalCore, RemoteReadCore, RemoteCore DEF Next
    <3>. QED
      BY <2>1, <3>1, StepScalars
  <2>2. CASE UNCHANGED vars
    <3>1. Scalars'
      BY <2>2 DEF vars, Scalars, maps, terminal, tunnel, bounds
    <3>2. UNCHANGED <<localState, remoteState, maps, localQueue, remoteQueue, toRemote, toLocal>>
      BY <2>2 DEF vars, tunnel
    <3>3. Core'
      BY <3>2, CoreStep DEF Core, Travels, Begun, Unanswered, ConnectionKnown
    <3>. QED
      BY <3>1, <3>3
  <2>. QED
    BY <2>1, <2>2
<1>. QED
  BY <1>1, InitIInv, PTL DEF Spec

\* The variables of both processes and the channels keep their types; what input is
\* not yet written never exceeds what was typed.
THEOREM HandshakeTypeCorrect == Spec => []TypeOK
BY Invariant, CoreType, PTL

\* m_connection_map[id] is never asked for a connection the process has not created,
\* whatever listeners could not be initialised on either side.
THEOREM ConnectionKnownCorrect == Spec => []ConnectionKnown
<1>1. Scalars /\ Core => ConnectionKnown
  BY DEF Core
<1>. QED
  BY <1>1, Invariant, PTL

\* The local process is CONNECTED only when the remote one has created its connections.
THEOREM ConnectedAgreeCorrect == Spec => []ConnectedAgree
<1>1. Scalars /\ Core => ConnectedAgree
  BY CoreProperties
<1>. QED
  BY <1>1, Invariant, PTL

\* The user's input never comes behind a packet, and never to a remote process that is
\* CONNECTED.
THEOREM InputBeforePacketsCorrect == Spec => []InputBeforePackets
<1>1. Scalars /\ Core => InputBeforePackets
  BY CoreProperties
<1>. QED
  BY <1>1, Invariant, PTL
===============================================================================
