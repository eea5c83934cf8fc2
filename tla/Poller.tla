-------------------------------- MODULE Poller --------------------------------
(***************************************************************************)
(* The event loop of src/com/antlersoft/net/Poller.cpp: start() polls,     *)
(* calls the handlers of the entries that are ready and then the callback, *)
(* until a handler or a signal asks it to finish.  The handlers run inside *)
(* the traversal of m_polled and change it: a link adds or removes itself  *)
(* and others.  Positions count from 0 as in the code, so that the entry   *)
(* at position i is m_polled[i + 1].                                       *)
(***************************************************************************)
EXTENDS Integers, Sequences

CONSTANTS
  Entry,          \* PolledAndPollfd objects
  First,          \* the entries registered before start()
  INITIAL_SIZE    \* size of the first m_pollfds array

Elems(q) == {q[i] : i \in 1 .. Len(q)}
Distinct(q) == \A i, j \in 1 .. Len(q) : q[i] = q[j] => i = j

ASSUME PollerAssumption ==
  /\ First \in Seq(Entry)
  /\ First # <<>>
  /\ Distinct(First)
  /\ INITIAL_SIZE \in Nat \ {0}

VARIABLES
  pc,           \* "loop": about to call poll(); "blocked": in poll(); "pass": at
                \* the head of the loop over the entries; "handler": in polled();
                \* "callback": pass over; "cleanup"; "done"; "threw"
  m_polled,
  m_size,       \* size of the array m_pollfds
  m_orig_size,  \* entries of this pass still registered
  m_index,
  revents,      \* entries whose m_pollfd.revents is not 0
  m_finishing,
  g_signaled,
  due,          \* history: entries this pass has still to call
  cleaned       \* history: entries whose cleanup() was called

vars == <<pc, m_polled, m_size, m_orig_size, m_index, revents, m_finishing,
          g_signaled, due, cleaned>>

TypeOK ==
  /\ pc \in {"loop", "blocked", "pass", "handler", "callback", "cleanup", "done", "threw"}
  /\ m_polled \in Seq(Entry)
  /\ m_size \in Nat
  /\ m_orig_size \in Nat
  /\ m_index \in Int
  /\ revents \in SUBSET Entry
  /\ m_finishing \in BOOLEAN
  /\ g_signaled \in BOOLEAN
  /\ due \in SUBSET Entry
  /\ cleaned \in SUBSET Entry

\* m_orig_size and m_index are set by the first pass, before they are read.
Init ==
  /\ pc = "loop"
  /\ m_polled = First
  /\ m_size = INITIAL_SIZE
  /\ m_orig_size = 0
  /\ m_index = 0
  /\ revents = {}
  /\ m_finishing = FALSE
  /\ g_signaled = FALSE
  /\ due = {}
  /\ cleaned = {}

-------------------------------------------------------------------------------
(***************************************************************************)
(* pollOnce                                                                *)
(***************************************************************************)
\* What while (m_size < n) m_size *= 2 makes of m_size.
Grown(n) ==
  {x \in m_size .. m_size + 2 * n :
     /\ \E k \in 0 .. n : x = m_size * 2^k
     /\ x >= n /\ (x = m_size \/ x < 2 * n)}

\* The pollfds are copied to the array and poll() is called without a timeout.
EnterPoll ==
  /\ pc = "loop"
  /\ m_orig_size' = Len(m_polled)
  /\ m_size' \in Grown(Len(m_polled))
  /\ pc' = "blocked"
  /\ UNCHANGED <<m_polled, m_index, revents, m_finishing, g_signaled, due, cleaned>>

\* poll() reports the entries R.
Ready(R) ==
  /\ pc = "blocked"
  /\ R # {} /\ R \subseteq Elems(m_polled)
  /\ revents' = R
  /\ due' = R
  /\ m_index' = 0
  /\ pc' = "pass"
  /\ UNCHANGED <<m_polled, m_size, m_orig_size, m_finishing, g_signaled, cleaned>>

\* poll() fails with an error other than EINTR.
PollThrows ==
  /\ pc = "blocked"
  /\ pc' = "threw"
  /\ UNCHANGED <<m_polled, m_size, m_orig_size, m_index, revents, m_finishing,
                 g_signaled, due, cleaned>>

\* The loop over the entries: the handler of a ready one is called ...
Visit ==
  /\ pc = "pass"
  /\ m_index < m_orig_size
  /\ m_polled[m_index + 1] \in revents
  /\ due' = due \ {m_polled[m_index + 1]}
  /\ pc' = "handler"
  /\ UNCHANGED <<m_polled, m_size, m_orig_size, m_index, revents, m_finishing,
                 g_signaled, cleaned>>

\* ... the others are passed over.
Skip ==
  /\ pc = "pass"
  /\ m_index < m_orig_size
  /\ m_polled[m_index + 1] \notin revents
  /\ m_index' = m_index + 1
  /\ UNCHANGED <<pc, m_polled, m_size, m_orig_size, revents, m_finishing,
                 g_signaled, due, cleaned>>

PassEnds ==
  /\ pc = "pass"
  /\ m_index >= m_orig_size
  /\ pc' = "callback"
  /\ UNCHANGED <<m_polled, m_size, m_orig_size, m_index, revents, m_finishing,
                 g_signaled, due, cleaned>>

-------------------------------------------------------------------------------
(***************************************************************************)
(* What a handler does to the poller.                                      *)
(***************************************************************************)
\* A new entry; its pollfd has no revents.
AddPolled(e) ==
  /\ pc = "handler"
  /\ e \notin Elems(m_polled)
  /\ m_polled' = Append(m_polled, e)
  /\ revents' = revents \ {e}
  /\ UNCHANGED <<pc, m_size, m_orig_size, m_index, m_finishing, g_signaled, due,
                 cleaned>>

\* vector::erase at position i
Erase(q, i) == [j \in 1 .. Len(q) - 1 |-> IF j <= i THEN q[j] ELSE q[j + 1]]

\* Variants for testing the properties: m_orig_size counts entries added in this
\* pass; an entry that removes itself does not move m_index; m_index always moves.
RemovePolledAny(i) ==
  /\ pc = "handler"
  /\ m_orig_size' = m_orig_size - 1
  /\ m_index' = IF i <= m_index THEN m_index - 1 ELSE m_index
  /\ m_polled' = Erase(m_polled, i)
  /\ due' = due \ {m_polled[i + 1]}
  /\ UNCHANGED <<pc, m_size, revents, m_finishing, g_signaled, cleaned>>

RemovePolledStrict(i) ==
  /\ pc = "handler"
  /\ m_orig_size' = IF i < m_orig_size THEN m_orig_size - 1 ELSE m_orig_size
  /\ m_index' = IF i < m_index THEN m_index - 1 ELSE m_index
  /\ m_polled' = Erase(m_polled, i)
  /\ due' = due \ {m_polled[i + 1]}
  /\ UNCHANGED <<pc, m_size, revents, m_finishing, g_signaled, cleaned>>

RemovePolledBack(i) ==
  /\ pc = "handler"
  /\ m_orig_size' = IF i < m_orig_size THEN m_orig_size - 1 ELSE m_orig_size
  /\ m_index' = m_index - 1
  /\ m_polled' = Erase(m_polled, i)
  /\ due' = due \ {m_polled[i + 1]}
  /\ UNCHANGED <<pc, m_size, revents, m_finishing, g_signaled, cleaned>>

\* removePolled of the entry that findPolled finds at position i.
RemovePolled(i) ==
  /\ pc = "handler"
  /\ m_orig_size' = IF i < m_orig_size THEN m_orig_size - 1 ELSE m_orig_size
  /\ m_index' = IF i <= m_index THEN m_index - 1 ELSE m_index
  /\ m_polled' = Erase(m_polled, i)
  /\ due' = due \ {m_polled[i + 1]}
  /\ UNCHANGED <<pc, m_size, revents, m_finishing, g_signaled, cleaned>>

RequestFinish ==
  /\ pc = "handler"
  /\ m_finishing' = TRUE
  /\ UNCHANGED <<pc, m_polled, m_size, m_orig_size, m_index, revents, g_signaled,
                 due, cleaned>>

HandlerReturns ==
  /\ pc = "handler"
  /\ m_index' = m_index + 1
  /\ pc' = "pass"
  /\ UNCHANGED <<m_polled, m_size, m_orig_size, revents, m_finishing, g_signaled,
                 due, cleaned>>

\* The exception leaves through pollOnce and start: no cleanup.
HandlerThrows ==
  /\ pc = "handler"
  /\ pc' = "threw"
  /\ UNCHANGED <<m_polled, m_size, m_orig_size, m_index, revents, m_finishing,
                 g_signaled, due, cleaned>>

-------------------------------------------------------------------------------
(***************************************************************************)
(* The loop of start().                                                    *)
(***************************************************************************)
\* Variants: cleanup starts where the pass ended; the callback's answer replaces
\* an earlier request.
PollCallbackKeepsIndex ==
  /\ pc = "callback"
  /\ m_finishing' = (m_finishing \/ g_signaled)
  /\ pc' = IF m_finishing' THEN "cleanup" ELSE "loop"
  /\ UNCHANGED <<m_polled, m_size, m_orig_size, m_index, revents, g_signaled, due,
                 cleaned>>

PollCallbackForgets ==
  /\ pc = "callback"
  /\ m_finishing' = g_signaled
  /\ IF m_finishing' THEN pc' = "cleanup" /\ m_index' = 0
                     ELSE pc' = "loop" /\ UNCHANGED m_index
  /\ UNCHANGED <<m_polled, m_size, m_orig_size, revents, g_signaled, due, cleaned>>

\* StdioTunnel::pollCallback, and the test of the loop.
PollCallback ==
  /\ pc = "callback"
  /\ m_finishing' = (m_finishing \/ g_signaled)
  /\ IF m_finishing' THEN pc' = "cleanup" /\ m_index' = 0
                     ELSE pc' = "loop" /\ UNCHANGED m_index
  /\ UNCHANGED <<m_polled, m_size, m_orig_size, revents, g_signaled, due, cleaned>>

Cleanup ==
  /\ pc = "cleanup"
  /\ m_index < Len(m_polled)
  /\ cleaned' = cleaned \cup {m_polled[m_index + 1]}
  /\ m_index' = m_index + 1
  /\ UNCHANGED <<pc, m_polled, m_size, m_orig_size, revents, m_finishing,
                 g_signaled, due>>

StartReturns ==
  /\ pc = "cleanup"
  /\ m_index >= Len(m_polled)
  /\ pc' = "done"
  /\ UNCHANGED <<m_polled, m_size, m_orig_size, m_index, revents, m_finishing,
                 g_signaled, due, cleaned>>

\* signalHandler runs at any time; it ends a poll() under way with EINTR.
Signal ==
  /\ pc \notin {"done", "threw"}
  /\ g_signaled' = TRUE
  /\ pc' = IF pc = "blocked" THEN "callback" ELSE pc
  /\ UNCHANGED <<m_polled, m_size, m_orig_size, m_index, revents, m_finishing,
                 due, cleaned>>

-------------------------------------------------------------------------------
Next ==
  \/ EnterPoll
  \/ \E R \in SUBSET Entry : Ready(R)
  \/ PollThrows
  \/ Visit \/ Skip \/ PassEnds
  \/ \E e \in Entry : AddPolled(e)
  \/ \E i \in 0 .. Len(m_polled) - 1 : RemovePolled(i)
  \/ RequestFinish \/ HandlerReturns \/ HandlerThrows
  \/ PollCallback \/ Cleanup \/ StartReturns
  \/ Signal

Spec == Init /\ [][Next]_vars

(***************************************************************************)
(* The process runs on, and a handler returns or throws.  Nothing is       *)
(* assumed about when an entry is ready: poll() may block for ever.        *)
(***************************************************************************)
Runs == EnterPoll \/ Visit \/ Skip \/ PassEnds \/ HandlerReturns \/ HandlerThrows
          \/ PollCallback \/ Cleanup \/ StartReturns

FairSpec == Spec /\ WF_vars(Runs)

-------------------------------------------------------------------------------
(***************************************************************************)
(* Properties.                                                             *)
(***************************************************************************)
InPass == pc \in {"pass", "handler"}

(***************************************************************************)
(* The loop stays inside the vector and the array while handlers add and   *)
(* remove entries under it: m_orig_size never exceeds either, and m_index  *)
(* is a position of this pass or just beside it (-1 when the entry at 0    *)
(* has removed itself).                                                    *)
(***************************************************************************)
InBounds ==
  /\ InPass => m_orig_size <= Len(m_polled) /\ m_orig_size <= m_size
  /\ pc = "pass" => m_index \in 0 .. m_orig_size
  /\ pc = "handler" => m_index \in -1 .. m_orig_size - 1

(***************************************************************************)
(* The entries a pass has still to call are exactly the ready ones ahead   *)
(* of m_index, whatever the handlers before them added and removed: none   *)
(* is skipped, none is called twice, and no entry added since poll() or    *)
(* removed since is called.                                                *)
(***************************************************************************)
DueAhead ==
  InPass => due = {m_polled[i + 1] :
                     i \in {j \in m_index + (IF pc = "handler" THEN 1 ELSE 0)
                                   .. m_orig_size - 1 : m_polled[j + 1] \in revents}}

\* When the callback is called, every ready entry has had its turn or is gone.
PassComplete == pc = "callback" => due = {}

\* A handler is called only for an entry that poll() reported in this pass and
\* that has had no turn in it.
VisitsDue == [][pc = "pass" /\ pc' = "handler" => m_polled[m_index + 1] \in due]_vars

\* start() returns after every entry still registered was cleaned up.
AllCleaned == pc = "done" => cleaned = Elems(m_polled)

\* A request to finish ends the loop without waiting for another event.
FinishEnds == m_finishing ~> pc \in {"done", "threw"}

\* "Check for interrupt for clean exit": a signal ends the loop.
SignalEnds == g_signaled ~> pc \in {"done", "threw"}
===============================================================================
