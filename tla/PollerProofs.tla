----------------------------- MODULE PollerProofs -----------------------------
(***************************************************************************)
(* Proofs about the event loop of Poller, for any set of entries and any   *)
(* sequence of additions and removals by the handlers.                     *)
(***************************************************************************)
EXTENDS Poller, SequenceTheorems, TLAPS

(***************************************************************************)
(* The inductive invariant: besides the properties, no entry is registered *)
(* twice, m_orig_size counts the whole vector while poll() blocks, nothing *)
(* is due outside a pass, and cleanup() has been called for the entries    *)
(* before m_index.                                                         *)
(***************************************************************************)
\* The first position the pass has not come to yet.
From == IF pc = "handler" THEN m_index + 1 ELSE m_index

\* Entry e is ahead of m_index in this pass.
Ahead(e) == \E i \in Nat : From <= i /\ i < m_orig_size /\ m_polled[i + 1] = e

Blocked == pc = "blocked" => m_orig_size = Len(m_polled) /\ m_orig_size <= m_size

DueExactly == InPass => \A e \in Entry : e \in due <=> Ahead(e) /\ e \in revents

NoneDue == pc \in {"loop", "blocked", "callback"} => due = {}

CleanedSoFar ==
  /\ pc \in {"cleanup", "done"} \/ cleaned = {}
  /\ pc = "cleanup" =>
       /\ m_index \in 0 .. Len(m_polled)
       /\ cleaned = {m_polled[i] : i \in 1 .. m_index}
  /\ pc = "done" => cleaned = Elems(m_polled)

IInv ==
  /\ TypeOK
  /\ Distinct(m_polled)
  /\ InBounds
  /\ Blocked
  /\ DueExactly
  /\ NoneDue
  /\ CleanedSoFar

-------------------------------------------------------------------------------
\* erase leaves the entries before position i and moves the others down by one.
LEMMA EraseFacts ==
  ASSUME NEW q \in Seq(Entry), Distinct(q), NEW i \in 0 .. Len(q) - 1
  PROVE  /\ Erase(q, i) \in Seq(Entry)
         /\ Len(Erase(q, i)) = Len(q) - 1
         /\ \A j \in 1 .. Len(q) - 1 : Erase(q, i)[j] = IF j <= i THEN q[j] ELSE q[j + 1]
         /\ Distinct(Erase(q, i))
<1>. DEFINE r == Erase(q, i)
            n == Len(q) - 1
<1>1. n \in Nat /\ Len(q) \in Nat /\ i \in Nat
  OBVIOUS
<1>2. r = [j \in 1 .. n |-> IF j <= i THEN q[j] ELSE q[j + 1]]
  BY DEF Erase
<1>. HIDE DEF r
<1>3. \A j \in 1 .. n : (IF j <= i THEN q[j] ELSE q[j + 1]) \in Entry
  BY <1>1
<1>4. r \in [1 .. n -> Entry]
  BY <1>2, <1>3
<1>5. r \in Seq(Entry) /\ Len(r) = n
  BY <1>1, <1>4
<1>6. \A j \in 1 .. n : r[j] = IF j <= i THEN q[j] ELSE q[j + 1]
  BY <1>2
<1>7. Distinct(r)
  <2>. SUFFICES ASSUME NEW j \in 1 .. n, NEW k \in 1 .. n, r[j] = r[k]
                PROVE  j = k
    BY <1>5 DEF Distinct
  <2>. DEFINE jj == IF j <= i THEN j ELSE j + 1
              kk == IF k <= i THEN k ELSE k + 1
  <2>1. jj \in 1 .. Len(q) /\ kk \in 1 .. Len(q) /\ q[jj] = q[kk]
    BY <1>1, <1>6
  <2>2. jj = kk
    BY <2>1 DEF Distinct
  <2>. QED  BY <1>1, <2>2
<1>. QED  BY <1>5, <1>6, <1>7 DEF r

\* push_back of an entry that is not registered.
LEMMA AddFacts ==
  ASSUME NEW q \in Seq(Entry), Distinct(q), NEW e \in Entry, e \notin Elems(q)
  PROVE  /\ Append(q, e) \in Seq(Entry)
         /\ Len(Append(q, e)) = Len(q) + 1
         /\ \A j \in 1 .. Len(q) : Append(q, e)[j] = q[j]
         /\ Append(q, e)[Len(q) + 1] = e
         /\ Distinct(Append(q, e))
<1>1. /\ Append(q, e) \in Seq(Entry)
      /\ Len(Append(q, e)) = Len(q) + 1
      /\ \A j \in 1 .. Len(q) : Append(q, e)[j] = q[j]
      /\ Append(q, e)[Len(q) + 1] = e
  BY AppendProperties
<1>. DEFINE r == Append(q, e)
<1>. HIDE DEF r
<1>2. ASSUME NEW j \in 1 .. Len(r), NEW k \in 1 .. Len(r), r[j] = r[k]
      PROVE  j = k
  <2>1. \A x \in 1 .. Len(q) : q[x] # e
    BY DEF Elems
  <2>2. j \in 1 .. Len(q) \/ j = Len(q) + 1
    BY <1>1 DEF r
  <2>3. k \in 1 .. Len(q) \/ k = Len(q) + 1
    BY <1>1 DEF r
  <2>. QED  BY <1>1, <1>2, <2>1, <2>2, <2>3 DEF Distinct, r
<1>. QED  BY <1>1, <1>2 DEF Distinct, r

-------------------------------------------------------------------------------
\* The state start() begins with.
LEMMA InvInit == Init => IInv
<1>. SUFFICES ASSUME Init PROVE IInv
  OBVIOUS
<1>1. m_polled \in Seq(Entry) /\ Distinct(m_polled) /\ m_size \in Nat
  BY PollerAssumption DEF Init
<1>2. m_finishing \in BOOLEAN /\ g_signaled \in BOOLEAN
  BY DEF Init
<1>3. TypeOK
  BY <1>1, <1>2 DEF Init, TypeOK
<1>4. InBounds /\ Blocked /\ DueExactly /\ NoneDue /\ CleanedSoFar
  BY DEF Init, InBounds, Blocked, DueExactly, NoneDue, CleanedSoFar, InPass
<1>. QED  BY <1>1, <1>3, <1>4 DEF IInv

\* poll() is called for all entries.
LEMMA InvEnterPoll == IInv /\ EnterPoll => IInv'
<1>. SUFFICES ASSUME IInv, EnterPoll PROVE IInv'
  OBVIOUS
<1>1. m_size' \in Nat /\ Len(m_polled) <= m_size' /\ Len(m_polled) \in Nat
  BY DEF IInv, TypeOK, EnterPoll, Grown
<1>2. TypeOK' /\ Distinct(m_polled)'
  BY <1>1 DEF IInv, TypeOK, EnterPoll, Distinct
<1>3. InBounds' /\ Blocked' /\ DueExactly' /\ NoneDue' /\ CleanedSoFar'
  BY <1>1 DEF IInv, EnterPoll, InBounds, Blocked, DueExactly, NoneDue, CleanedSoFar, InPass
<1>. QED  BY <1>2, <1>3 DEF IInv

\* poll() reports entries: all of them are ahead.
LEMMA InvReady == ASSUME NEW R \in SUBSET Entry, IInv, Ready(R) PROVE IInv'
<1>1. TypeOK' /\ Distinct(m_polled)'
  BY DEF IInv, TypeOK, Ready, Distinct
<1>2. /\ m_orig_size = Len(m_polled) /\ m_orig_size <= m_size /\ Len(m_polled) \in Nat
      /\ pc' = "pass" /\ m_index' = 0 /\ due' = R /\ revents' = R
      /\ UNCHANGED <<m_polled, m_size, m_orig_size, cleaned>>
  BY DEF IInv, TypeOK, Ready, Blocked
<1>3. InBounds' /\ Blocked' /\ NoneDue' /\ CleanedSoFar'
  BY <1>2 DEF IInv, Ready, InBounds, Blocked, NoneDue, CleanedSoFar, InPass
<1>4. ASSUME NEW e \in R
      PROVE  Ahead(e)'
  <2>. e \in Elems(m_polled)
    BY <1>4 DEF Ready
  <2>1. PICK j \in 1 .. Len(m_polled) : m_polled[j] = e
    BY DEF Elems
  <2>2. j - 1 \in Nat /\ 0 <= j - 1 /\ j - 1 < Len(m_polled) /\ m_polled[(j - 1) + 1] = e
    BY <2>1
  <2>. QED  BY <1>2, <2>2 DEF Ahead, From
<1>5. DueExactly'
  BY <1>2, <1>4 DEF DueExactly
<1>. QED  BY <1>1, <1>3, <1>5 DEF IInv

\* The handler of the entry at m_index is called.
LEMMA InvVisit == IInv /\ Visit => IInv'
<1>. SUFFICES ASSUME IInv, Visit PROVE IInv'
  OBVIOUS
<1>1. /\ pc = "pass" /\ pc' = "handler" /\ m_index < m_orig_size
      /\ UNCHANGED <<m_polled, m_size, m_orig_size, m_index, revents, cleaned>>
  BY DEF Visit
<1>2. /\ m_index \in Nat /\ m_orig_size \in Nat /\ Len(m_polled) \in Nat
      /\ m_orig_size <= Len(m_polled) /\ Distinct(m_polled)
  BY <1>1 DEF IInv, TypeOK, InBounds, InPass
<1>. DEFINE x == m_polled[m_index + 1]
<1>3. TypeOK' /\ Distinct(m_polled)'
  BY DEF IInv, TypeOK, Visit, Distinct
<1>4. InBounds' /\ Blocked' /\ NoneDue' /\ CleanedSoFar'
  BY <1>1, <1>2 DEF IInv, InBounds, Blocked, NoneDue, CleanedSoFar, InPass
<1>5. ASSUME NEW e \in Entry
      PROVE  Ahead(e)' <=> Ahead(e) /\ e # x
  <2>1. Ahead(e)' <=> \E i \in Nat : m_index + 1 <= i /\ i < m_orig_size /\ m_polled[i + 1] = e
    BY <1>1 DEF Ahead, From
  <2>2. Ahead(e) <=> \E i \in Nat : m_index <= i /\ i < m_orig_size /\ m_polled[i + 1] = e
    BY <1>1 DEF Ahead, From
  <2>3. ASSUME NEW i \in Nat, m_index <= i, i < m_orig_size
        PROVE  m_polled[i + 1] = x <=> i = m_index
    <3>1. i + 1 \in 1 .. Len(m_polled) /\ m_index + 1 \in 1 .. Len(m_polled)
      BY <1>1, <1>2, <2>3
    <3>. QED  BY <1>2, <3>1 DEF Distinct
  <2>. QED  BY <1>1, <1>2, <2>1, <2>2, <2>3
<1>6. DueExactly'
  BY <1>1, <1>5 DEF IInv, DueExactly, InPass, Visit
<1>. QED  BY <1>3, <1>4, <1>6 DEF IInv

\* An entry that is not ready is passed over.
LEMMA InvSkip == IInv /\ Skip => IInv'
<1>. SUFFICES ASSUME IInv, Skip PROVE IInv'
  OBVIOUS
<1>1. /\ pc = "pass" /\ pc' = "pass" /\ m_index < m_orig_size /\ m_index' = m_index + 1
      /\ m_polled[m_index + 1] \notin revents
      /\ UNCHANGED <<m_polled, m_size, m_orig_size, revents, due, cleaned>>
  BY DEF Skip
<1>2. m_index \in Nat /\ m_orig_size \in Nat
  BY <1>1 DEF IInv, TypeOK, InBounds
<1>3. TypeOK' /\ Distinct(m_polled)'
  BY <1>2 DEF IInv, TypeOK, Skip, Distinct
<1>4. InBounds' /\ Blocked' /\ NoneDue' /\ CleanedSoFar'
  BY <1>1, <1>2 DEF IInv, InBounds, Blocked, NoneDue, CleanedSoFar, InPass
<1>5. ASSUME NEW e \in revents
      PROVE  Ahead(e)' <=> Ahead(e)
  <2>1. Ahead(e)' <=> \E i \in Nat : m_index + 1 <= i /\ i < m_orig_size /\ m_polled[i + 1] = e
    BY <1>1 DEF Ahead, From
  <2>2. Ahead(e) <=> \E i \in Nat : m_index <= i /\ i < m_orig_size /\ m_polled[i + 1] = e
    BY <1>1 DEF Ahead, From
  <2>. QED  BY <1>1, <1>2, <2>1, <2>2
<1>6. DueExactly'
  BY <1>1, <1>5 DEF IInv, DueExactly, InPass
<1>. QED  BY <1>3, <1>4, <1>6 DEF IInv

\* The pass is over: nothing is ahead.
LEMMA InvPassEnds == IInv /\ PassEnds => IInv'
<1>. SUFFICES ASSUME IInv, PassEnds PROVE IInv'
  OBVIOUS
<1>1. /\ pc = "pass" /\ pc' = "callback" /\ m_index >= m_orig_size
      /\ UNCHANGED <<m_polled, m_size, m_orig_size, m_index, revents, due, cleaned>>
  BY DEF PassEnds
<1>2. m_index \in Int /\ m_orig_size \in Nat /\ due \subseteq Entry
  BY DEF IInv, TypeOK
<1>3. \A e \in Entry : ~Ahead(e)
  BY <1>1, <1>2 DEF Ahead, From
<1>4. due = {}
  BY <1>1, <1>2, <1>3 DEF IInv, DueExactly, InPass
<1>5. TypeOK' /\ Distinct(m_polled)'
  BY DEF IInv, TypeOK, PassEnds, Distinct
<1>6. InBounds' /\ Blocked' /\ DueExactly' /\ NoneDue' /\ CleanedSoFar'
  BY <1>1, <1>4 DEF IInv, InBounds, Blocked, DueExactly, NoneDue, CleanedSoFar, InPass
<1>. QED  BY <1>5, <1>6 DEF IInv

\* A handler registers an entry: it is behind the entries of this pass.
LEMMA InvAddPolled == ASSUME NEW x \in Entry, IInv, AddPolled(x) PROVE IInv'
<1>1. /\ pc = "handler" /\ pc' = "handler" /\ x \notin Elems(m_polled)
      /\ m_polled' = Append(m_polled, x) /\ revents' = revents \ {x}
      /\ UNCHANGED <<m_size, m_orig_size, m_index, due, cleaned>>
  BY DEF AddPolled
<1>2. /\ m_polled \in Seq(Entry) /\ Distinct(m_polled) /\ Len(m_polled) \in Nat
      /\ m_orig_size \in Nat /\ m_index \in Int /\ m_size \in Nat
      /\ m_orig_size <= Len(m_polled) /\ m_orig_size <= m_size
      /\ -1 <= m_index /\ m_index <= m_orig_size - 1
  BY <1>1 DEF IInv, TypeOK, InBounds, InPass
<1>3. /\ m_polled' \in Seq(Entry)
      /\ Len(m_polled') = Len(m_polled) + 1
      /\ \A j \in 1 .. Len(m_polled) : m_polled'[j] = m_polled[j]
      /\ Distinct(m_polled')
  BY <1>1, <1>2, AddFacts
<1>4. TypeOK'
  BY <1>3 DEF IInv, TypeOK, AddPolled
<1>5. InBounds' /\ Blocked' /\ NoneDue' /\ CleanedSoFar'
  BY <1>1, <1>2, <1>3 DEF IInv, InBounds, Blocked, NoneDue, CleanedSoFar, InPass
<1>6. ASSUME NEW e \in Entry
      PROVE  Ahead(e)' <=> Ahead(e)
  <2>1. Ahead(e)' <=> \E i \in Nat : m_index + 1 <= i /\ i < m_orig_size /\ m_polled'[i + 1] = e
    BY <1>1 DEF Ahead, From
  <2>2. Ahead(e) <=> \E i \in Nat : m_index + 1 <= i /\ i < m_orig_size /\ m_polled[i + 1] = e
    BY <1>1 DEF Ahead, From
  <2>3. ASSUME NEW i \in Nat, i < m_orig_size
        PROVE  m_polled'[i + 1] = m_polled[i + 1]
    <3>1. i + 1 \in 1 .. Len(m_polled)
      BY <1>2, <2>3
    <3>. QED  BY <1>3, <3>1
  <2>. QED  BY <2>1, <2>2, <2>3
<1>7. ~Ahead(x)
  <2>1. ASSUME NEW i \in Nat, i < m_orig_size
        PROVE  m_polled[i + 1] # x
    <3>1. i + 1 \in 1 .. Len(m_polled)
      BY <1>2, <2>1
    <3>. QED  BY <1>1, <3>1 DEF Elems
  <2>. QED  BY <2>1 DEF Ahead
<1>8. DueExactly'
  BY <1>1, <1>6, <1>7 DEF IInv, DueExactly, InPass
<1>. QED  BY <1>3, <1>4, <1>5, <1>8 DEF IInv

(***************************************************************************)
(* A handler removes the entry at position i, which may be before, at or   *)
(* after m_index, or behind the entries of this pass: the others ahead     *)
(* stay ahead.                                                             *)
(***************************************************************************)
LEMMA InvRemovePolled ==
  ASSUME NEW p \in 0 .. Len(m_polled) - 1, IInv, RemovePolled(p)
  PROVE  IInv'
<1>. DEFINE x == m_polled[p + 1]
<1>1. /\ pc = "handler" /\ pc' = "handler"
      /\ m_orig_size' = IF p < m_orig_size THEN m_orig_size - 1 ELSE m_orig_size
      /\ m_index' = IF p <= m_index THEN m_index - 1 ELSE m_index
      /\ m_polled' = Erase(m_polled, p)
      /\ due' = due \ {x}
      /\ UNCHANGED <<m_size, revents, cleaned>>
  BY DEF RemovePolled
<1>2. /\ m_polled \in Seq(Entry) /\ Distinct(m_polled) /\ Len(m_polled) \in Nat
      /\ m_orig_size \in Nat /\ m_index \in Int /\ m_size \in Nat
      /\ m_orig_size <= Len(m_polled) /\ m_orig_size <= m_size
      /\ -1 <= m_index /\ m_index <= m_orig_size - 1
  BY <1>1 DEF IInv, TypeOK, InBounds, InPass
<1>3. p \in Nat /\ p < Len(m_polled)
  BY <1>2
<1>4. /\ m_polled' \in Seq(Entry)
      /\ Len(m_polled') = Len(m_polled) - 1
      /\ \A j \in 1 .. Len(m_polled) - 1 :
           m_polled'[j] = IF j <= p THEN m_polled[j] ELSE m_polled[j + 1]
      /\ Distinct(m_polled')
  BY <1>1, <1>2, EraseFacts
<1>5. m_orig_size' \in Nat /\ m_index' \in Int
  BY <1>1, <1>2, <1>3
<1>6. TypeOK'
  BY <1>4, <1>5 DEF IInv, TypeOK, RemovePolled
<1>7. InBounds' /\ Blocked' /\ NoneDue' /\ CleanedSoFar'
  BY <1>1, <1>2, <1>3, <1>4, <1>5
  DEF IInv, InBounds, Blocked, NoneDue, CleanedSoFar, InPass
<1>8. ASSUME NEW e \in Entry
      PROVE  Ahead(e)' <=> Ahead(e) /\ e # x
  <2>1. Ahead(e)' <=> \E i \in Nat : m_index' + 1 <= i /\ i < m_orig_size' /\ m_polled'[i + 1] = e
    BY <1>1 DEF Ahead, From
  <2>2. Ahead(e) <=> \E i \in Nat : m_index + 1 <= i /\ i < m_orig_size /\ m_polled[i + 1] = e
    BY <1>1 DEF Ahead, From
  <2>3. ASSUME NEW i \in Nat, m_index' + 1 <= i, i < m_orig_size', m_polled'[i + 1] = e
        PROVE  Ahead(e) /\ e # x
    <3>. DEFINE j == IF i < p THEN i ELSE i + 1
    <3>1. j \in Nat /\ m_index + 1 <= j /\ j < m_orig_size /\ j # p
      BY <1>1, <1>2, <1>3, <2>3
    <3>2. i + 1 \in 1 .. Len(m_polled) - 1
      BY <1>1, <1>2, <1>3, <2>3
    <3>3. m_polled[j + 1] = e
      BY <1>3, <1>4, <2>3, <3>2
    <3>4. j + 1 \in 1 .. Len(m_polled) /\ p + 1 \in 1 .. Len(m_polled) /\ j + 1 # p + 1
      BY <1>2, <1>3, <3>1
    <3>5. e # x
      BY <1>2, <3>3, <3>4 DEF Distinct
    <3>. QED  BY <2>2, <3>1, <3>3, <3>5
  <2>4. ASSUME NEW j \in Nat, m_index + 1 <= j, j < m_orig_size, m_polled[j + 1] = e, e # x
        PROVE  Ahead(e)'
    <3>. DEFINE i == IF j < p THEN j ELSE j - 1
    <3>1. j # p
      BY <2>4
    <3>2. i \in Nat /\ m_index' + 1 <= i /\ i < m_orig_size'
      BY <1>1, <1>2, <1>3, <2>4, <3>1
    <3>3. i + 1 \in 1 .. Len(m_polled) - 1
      BY <1>2, <1>3, <2>4, <3>1
    <3>4. m_polled'[i + 1] = e
      <4>1. CASE j < p
        BY <1>3, <1>4, <2>4, <3>3, <4>1
      <4>2. CASE ~(j < p)
        <5>1. i = j - 1 /\ ~(i + 1 <= p) /\ (i + 1) + 1 = j + 1
          BY <1>3, <3>1, <4>2
        <5>. QED  BY <1>4, <2>4, <3>3, <5>1
      <4>. QED  BY <4>1, <4>2
    <3>. QED  BY <2>1, <3>2, <3>4
  <2>. QED  BY <2>1, <2>2, <2>3, <2>4
<1>9. DueExactly'
  BY <1>1, <1>8 DEF IInv, DueExactly, InPass
<1>. QED  BY <1>4, <1>6, <1>7, <1>9 DEF IInv

\* The handler returns and the loop goes on.
LEMMA InvHandlerReturns == IInv /\ HandlerReturns => IInv'
<1>. SUFFICES ASSUME IInv, HandlerReturns PROVE IInv'
  OBVIOUS
<1>1. /\ pc = "handler" /\ pc' = "pass" /\ m_index' = m_index + 1
      /\ UNCHANGED <<m_polled, m_size, m_orig_size, revents, due, cleaned>>
  BY DEF HandlerReturns
<1>2. m_index \in Int /\ m_orig_size \in Nat
  BY DEF IInv, TypeOK
<1>3. TypeOK' /\ Distinct(m_polled)'
  BY <1>2 DEF IInv, TypeOK, HandlerReturns, Distinct
<1>4. InBounds' /\ Blocked' /\ NoneDue' /\ CleanedSoFar'
  BY <1>1, <1>2 DEF IInv, InBounds, Blocked, NoneDue, CleanedSoFar, InPass
<1>5. \A e \in Entry : Ahead(e)' <=> Ahead(e)
  BY <1>1 DEF Ahead, From
<1>6. DueExactly'
  BY <1>1, <1>5 DEF IInv, DueExactly, InPass
<1>. QED  BY <1>3, <1>4, <1>6 DEF IInv

\* The callback decides between another pass and cleanup.
LEMMA InvPollCallback == IInv /\ PollCallback => IInv'
<1>. SUFFICES ASSUME IInv, PollCallback PROVE IInv'
  OBVIOUS
<1>1. /\ pc = "callback" /\ due = {} /\ cleaned = {}
      /\ UNCHANGED <<m_polled, m_size, m_orig_size, revents, due, cleaned>>
      /\ (pc' = "cleanup" /\ m_index' = 0) \/ (pc' = "loop" /\ UNCHANGED m_index)
  BY DEF PollCallback, IInv, NoneDue, CleanedSoFar
<1>2. m_finishing' \in BOOLEAN /\ g_signaled' \in BOOLEAN
  BY Zenon DEF PollCallback, IInv, TypeOK
<1>3. TypeOK' /\ Distinct(m_polled)'
  BY <1>1, <1>2 DEF IInv, TypeOK, Distinct
<1>4. InBounds' /\ Blocked' /\ NoneDue' /\ DueExactly'
  BY <1>1 DEF IInv, InBounds, Blocked, NoneDue, DueExactly, InPass
<1>5. CleanedSoFar'
  BY <1>1 DEF IInv, TypeOK, CleanedSoFar
<1>. QED  BY <1>3, <1>4, <1>5 DEF IInv

\* One more entry is cleaned up.
LEMMA InvCleanup == IInv /\ Cleanup => IInv'
<1>. SUFFICES ASSUME IInv, Cleanup PROVE IInv'
  OBVIOUS
<1>1. /\ pc = "cleanup" /\ pc' = "cleanup" /\ m_index < Len(m_polled) /\ m_index' = m_index + 1
      /\ cleaned' = cleaned \cup {m_polled[m_index + 1]}
      /\ UNCHANGED <<m_polled, m_size, m_orig_size, revents, due>>
  BY DEF Cleanup
<1>2. /\ m_index \in Nat /\ m_index < Len(m_polled) /\ m_polled \in Seq(Entry)
      /\ cleaned = {m_polled[i] : i \in 1 .. m_index}
  BY <1>1 DEF IInv, TypeOK, CleanedSoFar
<1>3. m_polled[m_index + 1] \in Entry
  BY <1>2
<1>4. TypeOK' /\ Distinct(m_polled)'
  BY <1>1, <1>2, <1>3 DEF IInv, TypeOK, Cleanup, Distinct
<1>5. InBounds' /\ Blocked' /\ NoneDue' /\ DueExactly'
  BY <1>1 DEF IInv, InBounds, Blocked, NoneDue, DueExactly, InPass
<1>6. cleaned' = {m_polled[i] : i \in 1 .. m_index + 1}
  BY <1>1, <1>2
<1>7. CleanedSoFar'
  BY <1>1, <1>2, <1>6 DEF CleanedSoFar
<1>. QED  BY <1>4, <1>5, <1>7 DEF IInv

\* start() returns.
LEMMA InvStartReturns == IInv /\ StartReturns => IInv'
<1>. SUFFICES ASSUME IInv, StartReturns PROVE IInv'
  OBVIOUS
<1>1. /\ pc = "cleanup" /\ pc' = "done" /\ m_index >= Len(m_polled)
      /\ UNCHANGED <<m_polled, m_size, m_orig_size, m_index, revents, due, cleaned>>
  BY DEF StartReturns
<1>2. m_index \in 0 .. Len(m_polled) /\ cleaned = {m_polled[i] : i \in 1 .. m_index}
  BY <1>1 DEF IInv, CleanedSoFar
<1>3. m_index = Len(m_polled)
  BY <1>1, <1>2 DEF IInv, TypeOK
<1>4. TypeOK' /\ Distinct(m_polled)'
  BY DEF IInv, TypeOK, StartReturns, Distinct
<1>5. InBounds' /\ Blocked' /\ NoneDue' /\ DueExactly'
  BY <1>1 DEF IInv, InBounds, Blocked, NoneDue, DueExactly, InPass
<1>6. CleanedSoFar'
  BY <1>1, <1>2, <1>3 DEF CleanedSoFar, Elems
<1>. QED  BY <1>4, <1>5, <1>6 DEF IInv

\* A signal sets the flag, and ends a poll() under way.
LEMMA InvSignal == IInv /\ Signal => IInv'
<1>. SUFFICES ASSUME IInv, Signal PROVE IInv'
  OBVIOUS
<1>1. /\ pc' = (IF pc = "blocked" THEN "callback" ELSE pc)
      /\ UNCHANGED <<m_polled, m_size, m_orig_size, m_index, revents, due, cleaned>>
  BY DEF Signal
<1>2. m_finishing' \in BOOLEAN /\ g_signaled' \in BOOLEAN
  BY Zenon DEF Signal, IInv, TypeOK
<1>3. TypeOK' /\ Distinct(m_polled)'
  BY <1>1, <1>2 DEF IInv, TypeOK, Distinct
<1>4. InBounds' /\ Blocked' /\ NoneDue' /\ CleanedSoFar'
  BY <1>1 DEF IInv, InBounds, Blocked, NoneDue, CleanedSoFar, InPass
<1>5. InPass' => InPass /\ \A e \in Entry : Ahead(e)' <=> Ahead(e)
  BY <1>1 DEF InPass, Ahead, From
<1>6. DueExactly'
  BY <1>1, <1>5 DEF IInv, DueExactly
<1>. QED  BY <1>3, <1>4, <1>6 DEF IInv

\* Steps that change neither the vector nor the position in it.
LEMMA InvStill ==
  ASSUME IInv, RequestFinish \/ HandlerThrows \/ PollThrows \/ UNCHANGED vars
  PROVE  IInv'
<1>1. /\ pc' = pc \/ pc' = "threw"
      /\ UNCHANGED <<m_polled, m_size, m_orig_size, m_index, revents, due, cleaned>>
  BY DEF RequestFinish, HandlerThrows, PollThrows, vars
<1>2. m_finishing' \in BOOLEAN /\ g_signaled' \in BOOLEAN
  BY Zenon DEF RequestFinish, HandlerThrows, PollThrows, vars, IInv, TypeOK
<1>3. TypeOK' /\ Distinct(m_polled)'
  BY <1>1, <1>2 DEF IInv, TypeOK, Distinct
<1>4. InBounds' /\ Blocked' /\ NoneDue'
  BY <1>1 DEF IInv, InBounds, Blocked, NoneDue, InPass
<1>5. InPass' => InPass /\ \A e \in Entry : Ahead(e)' <=> Ahead(e)
  BY <1>1 DEF InPass, Ahead, From
<1>6. DueExactly'
  BY <1>1, <1>5 DEF IInv, DueExactly
<1>7. CleanedSoFar'
  <2>1. CASE pc' = pc
    BY <1>1, <2>1 DEF IInv, CleanedSoFar
  <2>2. CASE pc' = "threw"
    <3>1. pc \notin {"cleanup", "done"} \/ pc' = pc
      BY DEF RequestFinish, HandlerThrows, PollThrows, vars
    <3>. QED  BY <1>1, <2>2, <3>1 DEF IInv, CleanedSoFar
  <2>. QED  BY <1>1, <2>1, <2>2
<1>. QED  BY <1>3, <1>4, <1>6, <1>7 DEF IInv

\* Every step keeps the inductive invariant.
LEMMA InvNext == IInv /\ [Next]_vars => IInv'
BY InvEnterPoll, InvReady, InvVisit, InvSkip, InvPassEnds, InvAddPolled, InvRemovePolled,
   InvHandlerReturns, InvPollCallback, InvCleanup, InvStartReturns, InvSignal, InvStill
DEF Next

\* IInv is an invariant of the event loop.
THEOREM InvCorrect == Spec => []IInv
BY InvInit, InvNext, PTL DEF Spec

\* The state keeps its types.
THEOREM TypeCorrect == Spec => []TypeOK
<1>1. IInv => TypeOK
  BY DEF IInv
<1>. QED  BY <1>1, InvCorrect, PTL

\* The loop stays inside the vector and the array, whatever the handlers add and
\* remove.
THEOREM InBoundsCorrect == Spec => []InBounds
<1>1. IInv => InBounds
  BY DEF IInv
<1>. QED  BY <1>1, InvCorrect, PTL

\* The entries still to be called are the ready ones ahead of m_index.
THEOREM DueAheadCorrect == Spec => []DueAhead
<1>1. IInv => DueAhead
  <2>. SUFFICES ASSUME IInv, InPass
                PROVE  due = {m_polled[i + 1] :
                                i \in {j \in From .. m_orig_size - 1 : m_polled[j + 1] \in revents}}
    BY DEF DueAhead, From, IInv, TypeOK
  <2>1. m_index \in Int /\ m_orig_size \in Nat /\ due \subseteq Entry /\ revents \subseteq Entry
    BY DEF IInv, TypeOK
  <2>2. From \in Nat
    BY <2>1 DEF From, IInv, InBounds, InPass
  <2>3. ASSUME NEW e \in due
        PROVE  \E i \in {j \in From .. m_orig_size - 1 : m_polled[j + 1] \in revents} :
                 m_polled[i + 1] = e
    <3>1. Ahead(e) /\ e \in revents
      BY <2>1, <2>3 DEF IInv, DueExactly
    <3>. QED  BY <2>1, <2>2, <3>1 DEF Ahead
  <2>4. ASSUME NEW i \in From .. m_orig_size - 1, m_polled[i + 1] \in revents
        PROVE  m_polled[i + 1] \in due
    <3>1. Ahead(m_polled[i + 1])
      BY <2>1, <2>2, <2>4 DEF Ahead
    <3>. QED  BY <2>1, <2>4, <3>1 DEF IInv, DueExactly
  <2>. QED  BY <2>3, <2>4
<1>. QED  BY <1>1, InvCorrect, PTL

\* After a pass nothing that was ready has been left out.
THEOREM PassCompleteCorrect == Spec => []PassComplete
<1>1. IInv => PassComplete
  BY DEF IInv, NoneDue, PassComplete
<1>. QED  BY <1>1, InvCorrect, PTL

\* start() cleans up every entry still registered.
THEOREM AllCleanedCorrect == Spec => []AllCleaned
<1>1. IInv => AllCleaned
  BY DEF IInv, CleanedSoFar, AllCleaned
<1>. QED  BY <1>1, InvCorrect, PTL

\* Only entries that are due are called.
THEOREM VisitsDueCorrect == Spec => VisitsDue
<1>1. ASSUME IInv, [Next]_vars
      PROVE  pc = "pass" /\ pc' = "handler" => m_polled[m_index + 1] \in due
  <2>. SUFFICES ASSUME pc = "pass", pc' = "handler"
                PROVE  m_polled[m_index + 1] \in due
    OBVIOUS
  <2>1. Visit
    BY <1>1 DEF Next, vars, EnterPoll, Ready, PollThrows, Skip, PassEnds, AddPolled,
                RemovePolled, RequestFinish, HandlerReturns, HandlerThrows, PollCallback,
                Cleanup, StartReturns, Signal
  <2>2. /\ m_index \in Nat /\ m_index < m_orig_size /\ m_polled[m_index + 1] \in revents
        /\ revents \subseteq Entry
    BY <1>1, <2>1 DEF Visit, IInv, TypeOK, InBounds
  <2>3. Ahead(m_polled[m_index + 1])
    BY <1>1, <2>2 DEF Ahead, From, IInv, TypeOK
  <2>. QED  BY <1>1, <2>2, <2>3 DEF IInv, DueExactly, InPass
<1>2. IInv /\ [Next]_vars => [pc = "pass" /\ pc' = "handler" => m_polled[m_index + 1] \in due]_vars
  BY <1>1
<1>. QED  BY <1>2, InvCorrect, PTL DEF Spec, VisitsDue

===============================================================================
