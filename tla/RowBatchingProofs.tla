-------------------------- MODULE RowBatchingProofs --------------------------
(***************************************************************************)
(* The safety of RowBatching for every number of attempts and every size   *)
(* of the buffer.                                                          *)
(*                                                                         *)
(* Tickets: a task the pool still has owns an incomplete ticket or an      *)
(* eviction.  Shutdown remembers running tasks only, so the argument needs *)
(* that no task is queued once the workers are drained (Tickets).          *)
(*                                                                         *)
(* Waiters: whoever waits has a submission, or the release thread is about *)
(* to emit its result.  So the KeyError of a forgotten submission finds    *)
(* nobody waiting (Waiters).                                               *)
(*                                                                         *)
(* The cursor: SkipGaps stops at the least ticket left, which exists       *)
(* because < is well-founded on the naturals.                              *)
(***************************************************************************)
EXTENDS RowBatching, TLAPS, WellFoundedInduction

OrchState ==
    [pc : {"idle", "accept", "wait", "timeout", "evict", "stop", "drain", "join", "closed"},
     at : 0 .. MaxAttempts]
RelState ==
    [pc : {"wait", "untrack", "emit", "ended"}, at : 0 .. MaxAttempts,
     out : {"none", "KeyError"} \cup Results]

\* TypeOK in the parts the steps use; that of head follows from CursorAtOldest.
SetsTyped ==
    /\ submitted \in 0 .. MaxAttempts
    /\ pending \subseteq 1 .. submitted /\ complete \subseteq pending
    /\ evicted \subseteq Attempts /\ submissions \subseteq Attempts /\ raised \subseteq Attempts
    /\ orch.pc = "accept" => submitted < MaxAttempts
MapsTyped ==
    /\ entries \in [Attempts -> {"none", "waiting", "KeyError"} \cup Results]
    /\ worker \in [Attempts -> {"none", "queued", "running", "done", "cancelled"}]
    /\ result \in [Attempts -> {"none"} \cup Results]
    /\ orch \in OrchState /\ rel \in RelState
FlagsTyped ==
    closed \in BOOLEAN /\ failed \in BOOLEAN /\ cancel \in BOOLEAN

\* A task queued or running has an incomplete ticket, or is known as evicted.
Tickets ==
    /\ \A a \in Attempts : worker[a] \in {"queued", "running"} => a \in evicted \/ a \in pending \ complete
    /\ \A a \in complete : worker[a] = "done"
    /\ \A a \in Attempts : worker[a] # "none" => a <= submitted
    /\ orch.pc = "drain" => \A a \in Attempts : worker[a] # "queued"

\* Who waits, and what the release thread has for them.
Waiters ==
    /\ \A a \in Attempts : entries[a] = "waiting" =>
          \/ orch.pc = "accept" /\ a = submitted + 1
          \/ orch.pc = "wait" /\ orch.at = a /\ (a \in submissions \/ (rel.pc = "emit" /\ rel.at = a))
    /\ \A a \in Attempts : entries[a] \notin {"none", "waiting"} => worker[a] = "done"
    /\ orch.pc \in {"wait", "timeout", "evict"} => orch.at \in 1 .. submitted
    /\ rel.pc \in {"untrack", "emit"} => rel.at \in 1 .. submitted /\ worker[rel.at] = "done"
    /\ rel.pc = "emit" =>
          rel.out = result[rel.at] \/ (rel.out = "KeyError" /\ entries[rel.at] # "waiting")

Inv ==
    SetsTyped /\ MapsTyped /\ FlagsTyped /\ Tickets /\ Waiters /\ WaiterGetsOwnResult /\ CursorAtOldest

RowStep == Register \/ Receive \/ TimeOut \/ Forget
TicketStep == Accept \/ Evict \/ ShutdownBuffer
ShutdownStep(c) == Stop(c) \/ DrainWorkers \/ Join
WorkerStep(a, r) == Start(a) \/ Finish(a, r)

--------------------------------------------------------------------------------
\* A set of numbers that is not empty has a least element.
LEMMA Least ==
    ASSUME NEW T \in SUBSET Nat, T # {}
    PROVE  \E n \in T : \A k \in T : n <= k
<1> DEFINE R == OpToRel(<, Nat)
<1>1. IsWellFoundedOn(R, Nat)
  BY NatLessThanWellFounded, Zenon
<1>2. \A x, y \in Nat : y < x => <<y, x>> \in R
  BY DEF OpToRel
<1> HIDE DEF R
<1>3. PICK n \in T : \A k \in T : ~(<<k, n>> \in R)
  BY <1>1, WFMin, Zenon
<1>4. \A k \in T : ~(k < n)
  BY <1>2, <1>3, Zenon
<1> QED
  BY <1>4

\* Where SkipGaps stops: at the least ticket of P from h on, or after the last one.
LEMMA SkipGapsStops ==
    ASSUME submitted \in Nat, NEW h \in 1 .. submitted + 1, NEW P
    PROVE  LET n == SkipGaps(h, P)
           IN  /\ n \in h .. submitted + 1
               /\ n \in P \/ n = submitted + 1
               /\ \A k \in h .. n - 1 : k \notin P
<1> DEFINE T == {n \in h .. submitted + 1 : n \in P \/ n = submitted + 1}
<1>1. T \in SUBSET Nat /\ submitted + 1 \in T
  OBVIOUS
<1>2. PICK n \in T : \A k \in T : n <= k
  <2> HIDE DEF T
  <2> QED
    BY <1>1, Least
<1>3. \A k \in h .. n - 1 : k \notin P
  BY <1>2
<1> QED
  BY <1>2, <1>3 DEF SkipGaps

\* The cursor is at a ticket, or at the next one to be issued.
LEMMA HeadTyped ==
    ASSUME Inv
    PROVE  head \in 1 .. submitted + 1 /\ \A a \in pending : head <= a
<1>1. submitted \in Nat /\ \A a \in pending : a \in 1 .. submitted
  BY RowBatchingAssumption DEF Inv, SetsTyped
<1> QED
  BY <1>1 DEF Inv, CursorAtOldest

\* Moving the cursor over what was taken out leaves it at the oldest ticket.
LEMMA CursorMoves ==
    ASSUME Inv, submitted' = submitted, pending' \subseteq pending,
           NEW h \in 1 .. submitted + 1, \A a \in pending' : h <= a, head' = SkipGaps(h, pending')
    PROVE  CursorAtOldest'
<1>1. submitted \in Nat /\ \A a \in pending' : a \in 1 .. submitted
  BY RowBatchingAssumption DEF Inv, SetsTyped
<1>2. /\ head' \in h .. submitted + 1
      /\ head' \in pending' \/ head' = submitted + 1
      /\ \A k \in h .. head' - 1 : k \notin pending'
  BY <1>1, SkipGapsStops
<1>3. \A a \in pending' : head' <= a /\ a <= submitted
  BY <1>1, <1>2
<1> QED
  BY <1>1, <1>2, <1>3 DEF CursorAtOldest

--------------------------------------------------------------------------------
\* What the orchestrator does between two rows, or to its waiter.
LEMMA RowSteps ==
    ASSUME Inv, RowStep
    PROVE  Inv'
<1> USE RowBatchingAssumption DEF Inv, buffer
<1>1. CASE Register
  <2>1. SetsTyped'
    BY <1>1 DEF Register, Goto, SetsTyped, OrchState, MapsTyped
  <2>2. MapsTyped'
    BY <1>1, Zenon DEF Register, Goto, MapsTyped, OrchState, RelState
  <2>3. FlagsTyped'
    BY <1>1 DEF Register, Goto, FlagsTyped
  <2>4. Tickets'
    BY <1>1 DEF Register, Goto, Tickets, MapsTyped, OrchState
  <2>5. Waiters'
    BY <1>1 DEF Register, Goto, Waiters, MapsTyped, OrchState, RelState, SetsTyped, Attempts
  <2>6. WaiterGetsOwnResult'
    BY <1>1 DEF Register, Goto, WaiterGetsOwnResult, MapsTyped
  <2>7. CursorAtOldest'
    BY <1>1 DEF Register, Goto, CursorAtOldest
  <2> QED
    BY <2>1, <2>2, <2>3, <2>4, <2>5, <2>6, <2>7
<1>2. CASE Receive
  <2>0. orch.at \in Attempts /\ orch' \in OrchState /\ orch'.pc = "idle"
    BY <1>2 DEF Receive, NextRow, Waiters, SetsTyped, Attempts, OrchState
  <2>1. SetsTyped'
    BY <1>2, <2>0 DEF Receive, NextRow, SetsTyped
  <2>2. MapsTyped'
    BY <1>2, <2>0 DEF Receive, MapsTyped
  <2>3. FlagsTyped'
    BY <1>2 DEF Receive, NextRow, FlagsTyped
  <2>4. Tickets'
    BY <1>2 DEF Receive, NextRow, Tickets, MapsTyped, OrchState
  <2>5. Waiters'
    BY <1>2 DEF Receive, NextRow, Waiters, MapsTyped, OrchState, RelState, SetsTyped, Attempts
  <2>6. WaiterGetsOwnResult'
    BY <1>2 DEF Receive, NextRow, WaiterGetsOwnResult, MapsTyped, Waiters
  <2>7. CursorAtOldest'
    BY <1>2 DEF Receive, NextRow, CursorAtOldest
  <2> QED
    BY <2>1, <2>2, <2>3, <2>4, <2>5, <2>6, <2>7
<1>3. CASE TimeOut
  <2>1. SetsTyped'
    BY <1>3 DEF TimeOut, Goto, SetsTyped, OrchState, MapsTyped
  <2>2. MapsTyped'
    BY <1>3, Zenon DEF TimeOut, Goto, MapsTyped, OrchState, RelState
  <2>3. FlagsTyped'
    BY <1>3 DEF TimeOut, Goto, FlagsTyped
  <2>4. Tickets'
    BY <1>3 DEF TimeOut, Goto, Tickets, MapsTyped, OrchState
  <2>5. Waiters'
    BY <1>3 DEF TimeOut, Goto, Waiters, MapsTyped, OrchState, RelState, SetsTyped, Attempts
  <2>6. WaiterGetsOwnResult'
    BY <1>3 DEF TimeOut, Goto, WaiterGetsOwnResult, MapsTyped
  <2>7. CursorAtOldest'
    BY <1>3 DEF TimeOut, Goto, CursorAtOldest
  <2> QED
    BY <2>1, <2>2, <2>3, <2>4, <2>5, <2>6, <2>7
<1>4. CASE Forget
  <2>1. SetsTyped'
    BY <1>4 DEF Forget, Goto, NextRow, SetsTyped, OrchState, MapsTyped
  <2>2. MapsTyped'
    BY <1>4 DEF Forget, Goto, NextRow, MapsTyped, OrchState, RelState
  <2>3. FlagsTyped'
    BY <1>4 DEF Forget, Goto, NextRow, FlagsTyped
  <2>4. Tickets'
    BY <1>4 DEF Forget, Goto, NextRow, Tickets, MapsTyped, OrchState
  <2>5. Waiters'
    BY <1>4 DEF Forget, Goto, NextRow, Waiters, MapsTyped, OrchState, RelState, SetsTyped, Attempts
  <2>6. WaiterGetsOwnResult'
    BY <1>4 DEF Forget, Goto, NextRow, WaiterGetsOwnResult, MapsTyped
  <2>7. CursorAtOldest'
    BY <1>4 DEF Forget, Goto, NextRow, CursorAtOldest
  <2> QED
    BY <2>1, <2>2, <2>3, <2>4, <2>5, <2>6, <2>7
<1> QED
  BY <1>1, <1>2, <1>3, <1>4 DEF RowStep

\* Tickets are issued and taken out.
LEMMA TicketSteps ==
    ASSUME Inv, TicketStep
    PROVE  Inv'
<1> USE RowBatchingAssumption DEF Inv, buffer
<1>1. CASE Accept
  <2>0. /\ submitted + 1 \in Attempts /\ submitted + 1 \notin pending
        /\ orch' \in OrchState /\ orch'.pc = "wait" /\ orch'.at = submitted + 1
    BY <1>1 DEF Accept, SetsTyped, Attempts, OrchState
  <2>1. SetsTyped'
    BY <1>1, <2>0 DEF Accept, SetsTyped, Attempts
  <2>2. MapsTyped'
    BY <1>1, <2>0 DEF Accept, MapsTyped
  <2>3. FlagsTyped'
    BY <1>1 DEF Accept, FlagsTyped
  <2>4. Tickets'
    <3>1. \A a \in Attempts : a # submitted + 1 => worker'[a] = worker[a]
      BY <1>1 DEF Accept, MapsTyped
    <3>2. submitted + 1 \notin complete /\ submitted \in Nat /\ submitted' = submitted + 1
      BY <1>1, <2>0 DEF Accept, SetsTyped
    <3>3. \A a \in complete : a \in Attempts /\ worker'[a] = "done"
      BY <3>1, <3>2 DEF Tickets, SetsTyped, Attempts
    <3>4. \A a \in Attempts : worker'[a] # "none" => a <= submitted'
      BY <3>1, <3>2 DEF Tickets, Attempts
    <3> QED
      BY <1>1, <2>0, <3>1, <3>2, <3>3, <3>4 DEF Accept, Tickets
  <2>5. Waiters'
    <3>1. \A a \in Attempts : entries[a] = "waiting" => a = submitted + 1
      BY <1>1 DEF Accept, Waiters
    <3>2. rel.at \in 1 .. submitted => rel.at \in 1 .. submitted + 1 /\ rel.at # submitted + 1
      BY DEF SetsTyped
    <3>3. submitted + 1 \in 1 .. submitted + 1
      BY DEF SetsTyped
    <3>4. \A a \in Attempts : a # submitted + 1 => worker'[a] = worker[a]
      BY <1>1 DEF Accept, MapsTyped
    <3>5. entries[submitted + 1] \in {"none", "waiting"}
      BY <1>1, <2>0 DEF Accept, Waiters, Tickets, SetsTyped
    <3> QED
      BY <1>1, <2>0, <3>1, <3>2, <3>3, <3>4, <3>5 DEF Accept, Waiters, MapsTyped
  <2>6. WaiterGetsOwnResult'
    BY <1>1 DEF Accept, WaiterGetsOwnResult, MapsTyped
  <2>7. CursorAtOldest'
    <3>1. /\ submitted \in Nat /\ pending \subseteq 1 .. submitted
          /\ submitted' = submitted + 1 /\ head' = head /\ pending' = pending \cup {submitted + 1}
      BY <1>1 DEF Accept, SetsTyped
    <3> QED
      BY <3>1, HeadTyped DEF CursorAtOldest
  <2> QED
    BY <2>1, <2>2, <2>3, <2>4, <2>5, <2>6, <2>7
<1>2. CASE Evict
  <2>0. orch' \in OrchState /\ orch'.pc = "idle" /\ orch.at \in Attempts
    BY <1>2 DEF Evict, NextRow, OrchState, Waiters, SetsTyped, Attempts
  <2>a. pending' \subseteq pending /\ complete' \subseteq pending' /\ evicted' \subseteq Attempts
    BY <1>2, <2>0 DEF Evict, SetsTyped
  <2>1. SetsTyped'
    BY <1>2, <2>0, <2>a DEF Evict, SetsTyped
  <2>2. MapsTyped'
    BY <1>2 DEF Evict, NextRow, MapsTyped, OrchState, RelState
  <2>3. FlagsTyped'
    BY <1>2 DEF Evict, NextRow, FlagsTyped
  <2>4. Tickets'
    BY <1>2 DEF Evict, NextRow, Tickets, MapsTyped, OrchState
  <2>5. Waiters'
    BY <1>2 DEF Evict, NextRow, Waiters, MapsTyped, OrchState, RelState, SetsTyped, Attempts
  <2>6. WaiterGetsOwnResult'
    BY <1>2 DEF Evict, NextRow, WaiterGetsOwnResult, MapsTyped
  <2>7. CursorAtOldest'
    <3>1. CASE orch.at \in pending \ complete
      <4>1. head \in 1 .. submitted + 1 /\ \A a \in pending' : head <= a
        BY <2>a, HeadTyped
      <4> QED
        BY <1>2, <2>a, <3>1, <4>1, CursorMoves DEF Evict
    <3>2. CASE ~(orch.at \in pending \ complete)
      BY <1>2, <3>2 DEF Evict, CursorAtOldest
    <3> QED
      BY <3>1, <3>2
  <2> QED
    BY <2>1, <2>2, <2>3, <2>4, <2>5, <2>6, <2>7
<1>3. CASE ShutdownBuffer
  <2>0. orch' \in OrchState /\ orch'.pc = "join"
    BY <1>3 DEF ShutdownBuffer, Goto, MapsTyped, OrchState
  <2>1. SetsTyped'
    <3>1. pending \subseteq Attempts
      BY DEF SetsTyped, Attempts
    <3> QED
      BY <1>3, <2>0, <3>1, Zenon DEF ShutdownBuffer, SetsTyped
  <2>2. MapsTyped'
    BY <1>3 DEF ShutdownBuffer, Goto, MapsTyped, OrchState, RelState
  <2>3. FlagsTyped'
    BY <1>3 DEF ShutdownBuffer, Goto, FlagsTyped
  <2>4. Tickets'
    BY <1>3 DEF ShutdownBuffer, Goto, Tickets, MapsTyped, OrchState
  <2>5. Waiters'
    BY <1>3 DEF ShutdownBuffer, Goto, Waiters, MapsTyped, OrchState, RelState, SetsTyped, Attempts
  <2>6. WaiterGetsOwnResult'
    BY <1>3 DEF ShutdownBuffer, Goto, WaiterGetsOwnResult, MapsTyped
  <2>7. CursorAtOldest'
    <3>1. head \in 1 .. submitted + 1 /\ \A a \in complete : head <= a
      BY HeadTyped DEF SetsTyped
    <3> QED
      BY <1>3, <3>1, CursorMoves DEF ShutdownBuffer, SetsTyped
  <2> QED
    BY <2>1, <2>2, <2>3, <2>4, <2>5, <2>6, <2>7
<1> QED
  BY <1>1, <1>2, <1>3 DEF TicketStep

\* The orchestrator shuts down.
LEMMA ShutdownSteps ==
    ASSUME Inv, NEW c \in BOOLEAN, ShutdownStep(c)
    PROVE  Inv'
<1> USE RowBatchingAssumption DEF Inv, buffer
<1>1. CASE Stop(c)
  <2>1. SetsTyped'
    BY <1>1 DEF Stop, Goto, SetsTyped, OrchState, MapsTyped
  <2>2. MapsTyped'
    BY <1>1, Zenon DEF Stop, Goto, MapsTyped, OrchState, RelState
  <2>3. FlagsTyped'
    BY <1>1 DEF Stop, Goto, FlagsTyped
  <2>4. Tickets'
    BY <1>1 DEF Stop, Goto, Tickets, MapsTyped, OrchState
  <2>5. Waiters'
    BY <1>1 DEF Stop, Goto, Waiters, MapsTyped, OrchState, RelState, SetsTyped, Attempts
  <2>6. WaiterGetsOwnResult'
    BY <1>1 DEF Stop, Goto, WaiterGetsOwnResult, MapsTyped
  <2>7. CursorAtOldest'
    BY <1>1 DEF Stop, Goto, CursorAtOldest
  <2> QED
    BY <2>1, <2>2, <2>3, <2>4, <2>5, <2>6, <2>7
<1>2. CASE DrainWorkers
  <2>1. SetsTyped'
    BY <1>2 DEF DrainWorkers, Goto, AtWork, SetsTyped, OrchState, MapsTyped
  <2>2. MapsTyped'
    BY <1>2 DEF DrainWorkers, Goto, AtWork, MapsTyped, OrchState, RelState
  <2>3. FlagsTyped'
    BY <1>2 DEF DrainWorkers, Goto, AtWork, FlagsTyped
  <2>4. Tickets'
    <3>1. /\ worker' \in [Attempts -> {"none", "queued", "running", "done", "cancelled"}]
          /\ \A a \in Attempts : worker'[a] # "queued" /\ (worker'[a] = worker[a] \/ worker'[a] = "cancelled")
          /\ \A a \in Attempts : worker[a] = "done" => worker'[a] = "done"
      BY <1>2 DEF DrainWorkers, MapsTyped
    <3>2. complete \subseteq Attempts
      BY DEF SetsTyped, Attempts
    <3> QED
      BY <1>2, <3>1, <3>2 DEF DrainWorkers, Tickets
  <2>5. Waiters'
    BY <1>2 DEF DrainWorkers, Goto, AtWork, Waiters, MapsTyped, OrchState, RelState, SetsTyped, Attempts
  <2>6. WaiterGetsOwnResult'
    BY <1>2 DEF DrainWorkers, Goto, AtWork, WaiterGetsOwnResult, MapsTyped
  <2>7. CursorAtOldest'
    BY <1>2 DEF DrainWorkers, Goto, AtWork, CursorAtOldest
  <2> QED
    BY <2>1, <2>2, <2>3, <2>4, <2>5, <2>6, <2>7
<1>3. CASE Join
  <2>1. SetsTyped'
    BY <1>3 DEF Join, Goto, SetsTyped, OrchState, MapsTyped
  <2>2. MapsTyped'
    BY <1>3 DEF Join, Goto, MapsTyped, OrchState, RelState
  <2>3. FlagsTyped'
    BY <1>3 DEF Join, Goto, FlagsTyped
  <2>4. Tickets'
    BY <1>3 DEF Join, Goto, Tickets, MapsTyped, OrchState
  <2>5. Waiters'
    BY <1>3 DEF Join, Goto, Waiters, MapsTyped, OrchState, RelState, SetsTyped, Attempts
  <2>6. WaiterGetsOwnResult'
    BY <1>3 DEF Join, Goto, WaiterGetsOwnResult, MapsTyped
  <2>7. CursorAtOldest'
    BY <1>3 DEF Join, Goto, CursorAtOldest
  <2> QED
    BY <2>1, <2>2, <2>3, <2>4, <2>5, <2>6, <2>7
<1> QED
  BY <1>1, <1>2, <1>3 DEF ShutdownStep

\* The pool starts a task; a task ends.
LEMMA WorkerSteps ==
    ASSUME Inv, NEW a \in Attempts, NEW r \in Results, WorkerStep(a, r)
    PROVE  Inv'
<1> USE RowBatchingAssumption DEF Inv, buffer
<1>1. CASE Start(a)
  <2>1. SetsTyped'
    BY <1>1 DEF Start, SetsTyped
  <2>2. MapsTyped'
    BY <1>1 DEF Start, MapsTyped, OrchState, RelState
  <2>3. FlagsTyped'
    BY <1>1 DEF Start, FlagsTyped
  <2>4. Tickets'
    BY <1>1 DEF Start, Tickets, MapsTyped, OrchState
  <2>5. Waiters'
    BY <1>1 DEF Start, Waiters, MapsTyped, OrchState, RelState, SetsTyped, Attempts
  <2>6. WaiterGetsOwnResult'
    BY <1>1 DEF Start, WaiterGetsOwnResult, MapsTyped
  <2>7. CursorAtOldest'
    BY <1>1 DEF Start, CursorAtOldest
  <2> QED
    BY <2>1, <2>2, <2>3, <2>4, <2>5, <2>6, <2>7
<1>2. CASE Finish(a, r)
  <2>1. SetsTyped'
    <3>1. complete' \subseteq pending /\ evicted' \subseteq evicted
      <4>1. a \in evicted \/ a \in pending
        BY <1>2 DEF Finish, Tickets
      <4> QED
        BY <1>2, <4>1, Zenon DEF Finish, SetsTyped
    <3> QED
      BY <1>2, <3>1 DEF Finish, SetsTyped
  <2>2. MapsTyped'
    BY <1>2 DEF Finish, MapsTyped, OrchState, RelState
  <2>3. FlagsTyped'
    BY <1>2, Zenon DEF Finish, FlagsTyped
  <2>4. Tickets'
    BY <1>2 DEF Finish, Tickets, MapsTyped, OrchState
  <2>5. Waiters'
    BY <1>2 DEF Finish, Waiters, MapsTyped, OrchState, RelState, SetsTyped, Attempts
  <2>6. WaiterGetsOwnResult'
    BY <1>2 DEF Finish, WaiterGetsOwnResult, MapsTyped, Waiters
  <2>7. CursorAtOldest'
    BY <1>2 DEF Finish, CursorAtOldest
  <2> QED
    BY <2>1, <2>2, <2>3, <2>4, <2>5, <2>6, <2>7
<1> QED
  BY <1>1, <1>2 DEF WorkerStep

\* The release thread.
LEMMA ReleaseSteps ==
    ASSUME Inv, ReleaseThread
    PROVE  Inv'
<1> USE RowBatchingAssumption DEF Inv, buffer
<1>1. CASE Release
  <2>a. head \in 1 .. submitted /\ head \in Attempts /\ worker[head] = "done"
    BY <1>1 DEF Release, SetsTyped, Tickets, Attempts
  <2>0. rel' \in RelState /\ rel'.pc = "untrack" /\ rel'.at = head
    <3>1. head \in 0 .. MaxAttempts
      BY <2>a DEF Attempts
    <3> QED
      BY <1>1, <3>1, Zenon DEF Release, MapsTyped, RelState
  <2>1. SetsTyped'
    BY <1>1 DEF Release, SetsTyped
  <2>2. MapsTyped'
    BY <1>1, <2>0 DEF Release, MapsTyped
  <2>3. FlagsTyped'
    BY <1>1 DEF Release, FlagsTyped
  <2>4. Tickets'
    BY <1>1 DEF Release, Tickets, MapsTyped, OrchState
  <2>5. Waiters'
    BY <1>1, <2>0, <2>a DEF Release, Waiters
  <2>6. WaiterGetsOwnResult'
    BY <1>1 DEF Release, WaiterGetsOwnResult, MapsTyped
  <2>7. CursorAtOldest'
    <3>1. head + 1 \in 1 .. submitted + 1 /\ \A a \in pending' : head + 1 <= a
      <4>1. \A a \in pending : a \in 1 .. submitted /\ head <= a
        BY HeadTyped DEF SetsTyped
      <4> QED
        BY <1>1, <2>a, <4>1 DEF Release, SetsTyped
    <3> QED
      BY <1>1, <3>1, CursorMoves DEF Release
  <2> QED
    BY <2>1, <2>2, <2>3, <2>4, <2>5, <2>6, <2>7
<1>2. CASE Untrack
  <2>1. SetsTyped'
    BY <1>2 DEF Untrack, SetsTyped
  <2>2. MapsTyped'
    <3>1. rel.at \in Attempts
      BY <1>2 DEF Untrack, Waiters, SetsTyped, Attempts
    <3>2. result[rel.at] \in {"none"} \cup Results
      BY <3>1 DEF MapsTyped
    <3>3. rel' \in RelState
      BY <1>2, <3>2, Zenon DEF Untrack, MapsTyped, RelState
    <3> QED
      BY <1>2, <3>3 DEF Untrack, MapsTyped
  <2>3. FlagsTyped'
    BY <1>2 DEF Untrack, FlagsTyped
  <2>4. Tickets'
    BY <1>2 DEF Untrack, Tickets, MapsTyped, OrchState
  <2>5. Waiters'
    BY <1>2 DEF Untrack, Waiters, MapsTyped, OrchState, RelState, SetsTyped, Attempts
  <2>6. WaiterGetsOwnResult'
    BY <1>2 DEF Untrack, WaiterGetsOwnResult, MapsTyped
  <2>7. CursorAtOldest'
    BY <1>2 DEF Untrack, CursorAtOldest
  <2> QED
    BY <2>1, <2>2, <2>3, <2>4, <2>5, <2>6, <2>7
<1>3. CASE Emit
  <2>0. /\ rel.at \in Attempts /\ worker[rel.at] = "done" /\ rel' \in RelState /\ rel'.pc = "wait"
        /\ entries[rel.at] = "waiting" => rel.out = result[rel.at]
    BY <1>3 DEF Emit, Waiters, SetsTyped, Attempts, RelState
  <2>a. result[rel.at] \in {"none"} \cup Results
    BY <2>0 DEF MapsTyped
  <2>1. SetsTyped'
    BY <1>3 DEF Emit, SetsTyped
  <2>2. MapsTyped'
    BY <1>3, <2>0, <2>a DEF Emit, MapsTyped
  <2>3. FlagsTyped'
    BY <1>3 DEF Emit, FlagsTyped
  <2>4. Tickets'
    BY <1>3 DEF Emit, Tickets, MapsTyped, OrchState
  <2>5. Waiters'
    <3>1. \A a \in Attempts : entries'[a] = "waiting" => entries[a] = "waiting" /\ a # rel.at
      BY <1>3, <2>0, <2>a DEF Emit, MapsTyped, Results
    <3>2. \A a \in Attempts : entries'[a] \notin {"none", "waiting"} => worker[a] = "done"
      BY <1>3, <2>0 DEF Emit, MapsTyped, Waiters
    <3> QED
      BY <1>3, <2>0, <3>1, <3>2 DEF Emit, Waiters
  <2>6. WaiterGetsOwnResult'
    BY <1>3 DEF Emit, WaiterGetsOwnResult, MapsTyped, Waiters
  <2>7. CursorAtOldest'
    BY <1>3 DEF Emit, CursorAtOldest
  <2> QED
    BY <2>1, <2>2, <2>3, <2>4, <2>5, <2>6, <2>7
<1>4. CASE EndRelease
  <2>1. SetsTyped'
    BY <1>4 DEF EndRelease, SetsTyped
  <2>2. MapsTyped'
    BY <1>4 DEF EndRelease, MapsTyped, OrchState, RelState
  <2>3. FlagsTyped'
    BY <1>4 DEF EndRelease, FlagsTyped
  <2>4. Tickets'
    BY <1>4 DEF EndRelease, Tickets, MapsTyped, OrchState
  <2>5. Waiters'
    BY <1>4 DEF EndRelease, Waiters, MapsTyped, OrchState, RelState, SetsTyped, Attempts
  <2>6. WaiterGetsOwnResult'
    BY <1>4 DEF EndRelease, WaiterGetsOwnResult, MapsTyped
  <2>7. CursorAtOldest'
    BY <1>4 DEF EndRelease, CursorAtOldest
  <2> QED
    BY <2>1, <2>2, <2>3, <2>4, <2>5, <2>6, <2>7
<1> QED
  BY <1>1, <1>2, <1>3, <1>4 DEF ReleaseThread

--------------------------------------------------------------------------------
\* The strengthened invariant holds in every reachable state.
THEOREM BatchingInvariance == Spec => []Inv
<1>1. Init => Inv
  <2> SUFFICES ASSUME Init PROVE Inv
    OBVIOUS
  <2> USE RowBatchingAssumption DEF Init
  <2>1. SetsTyped
    BY DEF SetsTyped
  <2>2. MapsTyped
    BY DEF MapsTyped, OrchState, RelState
  <2>3. FlagsTyped
    BY Zenon DEF FlagsTyped
  <2>4. Tickets
    BY DEF Tickets
  <2>5. Waiters
    BY DEF Waiters
  <2>6. WaiterGetsOwnResult /\ CursorAtOldest
    BY DEF WaiterGetsOwnResult, CursorAtOldest
  <2> QED
    BY <2>1, <2>2, <2>3, <2>4, <2>5, <2>6 DEF Inv
<1>2. Inv /\ UNCHANGED vars => Inv'
  BY DEF Inv, SetsTyped, MapsTyped, FlagsTyped, Tickets, Waiters, WaiterGetsOwnResult, CursorAtOldest,
         vars, buffer
<1>3. Inv /\ Next => Inv'
  <2> SUFFICES ASSUME Inv, Next PROVE Inv'
    OBVIOUS
  <2>1. CASE Orchestrator \/ TimeOut \/ \E c \in BOOLEAN : Stop(c)
    BY <2>1, RowSteps, TicketSteps, ShutdownSteps, Zenon DEF Orchestrator, RowStep, TicketStep, ShutdownStep
  <2>2. CASE (\E a \in Attempts : Start(a)) \/ (\E a \in Attempts, r \in Results : Finish(a, r))
    BY <2>2, WorkerSteps DEF WorkerStep, Results
  <2>3. CASE ReleaseThread
    BY <2>3, ReleaseSteps
  <2> QED
    BY <2>1, <2>2, <2>3 DEF Next
<1> QED
  BY <1>1, <1>2, <1>3, PTL DEF Spec

\* The variables keep their types.
THEOREM BatchingTypes == Spec => []TypeOK
<1>1. Inv => TypeOK
  <2> SUFFICES ASSUME Inv PROVE TypeOK
    OBVIOUS
  <2>1. head \in 1 .. MaxAttempts + 1 /\ pending \subseteq Attempts
    BY RowBatchingAssumption, HeadTyped DEF Inv, SetsTyped, Attempts
  <2> QED
    BY <2>1 DEF Inv, TypeOK, SetsTyped, MapsTyped, FlagsTyped, OrchState, RelState
<1> QED
  BY BatchingInvariance, <1>1, PTL

\* However many rows are submitted, timed out, evicted and shut down, a worker that
\* finishes its row finds its ticket or its eviction.
THEOREM NoUnknownTicket == Spec => []RunningHasTicket
<1>1. Inv => RunningHasTicket
  BY DEF Inv, Tickets, RunningHasTicket
<1> QED
  BY BatchingInvariance, <1>1, PTL

\* No waiter ever receives another attempt's result, or the KeyError of a submission
\* forgotten while its result was being released.
THEOREM OwnResultsOnly == Spec => []WaiterGetsOwnResult
<1>1. Inv => WaiterGetsOwnResult
  BY DEF Inv
<1> QED
  BY BatchingInvariance, <1>1, PTL

\* Results are released in submission order: the cursor is always at the oldest
\* ticket, for any number of tickets.
THEOREM ReleasedInOrder == Spec => []CursorAtOldest
<1>1. Inv => CursorAtOldest
  BY DEF Inv
<1> QED
  BY BatchingInvariance, <1>1, PTL
================================================================================
