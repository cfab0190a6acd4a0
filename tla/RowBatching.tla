------------------------------ MODULE RowBatching ------------------------------
(***************************************************************************)
(* A transform that processes rows in worker threads and hands the results *)
(* back in submission order: RowReorderBuffer, the BatchTransformMixin     *)
(* around it, and the SharedBatchAdapter through which the orchestrator    *)
(* waits.                                                                  *)
(*                                                                         *)
(* The orchestrator is one thread and waits for each row before it submits *)
(* another, but a row it stopped waiting for may still be at work.  Every  *)
(* call is an attempt with its own state_id, so the attempts are numbered  *)
(* as the buffer's sequence numbers are, from 1, and the number stands for *)
(* the ticket and for the key (token_id, state_id) too.                    *)
(*                                                                         *)
(* Each action is what one thread does under one lock.                     *)
(***************************************************************************)
EXTENDS Integers, FiniteSets

CONSTANTS
    MaxAttempts,  \* bound: number of rows and retries submitted
    MaxPending    \* max_pending: rows in the buffer, and worker threads

ASSUME RowBatchingAssumption == MaxAttempts \in Nat /\ MaxPending \in Nat \ {0}

Attempts == 1 .. MaxAttempts

VARIABLES
    submitted,    \* _next_submit_seq: attempts 1 .. submitted have a ticket
    head,         \* _next_release_seq
    pending,      \* _pending: tickets in the buffer
    complete,     \* those of them that are complete
    evicted,      \* _evicted
    closed,       \* the buffer's _shutdown
    submissions,  \* _batch_submissions
    entries,      \* the adapter's waiters: "none", "waiting" or the result delivered
    worker,       \* the pool's task of each attempt
    result,       \* what its processor returned: a row result or an exception
    failed,       \* _batch_worker_failure is set
    orch,         \* the orchestrator: step, and the attempt it is about
    cancel,       \* it shuts down without waiting for workers
    raised,       \* attempts whose exception the orchestrator has met
    rel           \* the release thread: step, attempt, and what it emits

buffer == <<submitted, head, pending, complete, evicted, closed>>
vars == <<buffer, submissions, entries, worker, result, failed, orch, cancel, raised, rel>>

Results == {"row", "exception"}

TypeOK ==
    /\ submitted \in 0 .. MaxAttempts /\ head \in 1 .. MaxAttempts + 1
    /\ pending \subseteq Attempts /\ complete \subseteq pending
    /\ evicted \subseteq Attempts /\ closed \in BOOLEAN
    /\ submissions \subseteq Attempts
    /\ entries \in [Attempts -> {"none", "waiting", "KeyError"} \cup Results]
    /\ worker \in [Attempts -> {"none", "queued", "running", "done", "cancelled"}]
    /\ result \in [Attempts -> {"none"} \cup Results]
    /\ failed \in BOOLEAN /\ cancel \in BOOLEAN /\ raised \subseteq Attempts
    /\ orch \in [pc : {"idle", "accept", "wait", "timeout", "evict", "stop", "drain", "join", "closed"},
                 at : 0 .. MaxAttempts]
    /\ rel \in [pc : {"wait", "untrack", "emit", "ended"}, at : 0 .. MaxAttempts,
                out : {"none", "KeyError"} \cup Results]

Init ==
    /\ submitted = 0 /\ head = 1 /\ pending = {} /\ complete = {} /\ evicted = {} /\ closed = FALSE
    /\ submissions = {}
    /\ entries = [a \in Attempts |-> "none"]
    /\ worker = [a \in Attempts |-> "none"]
    /\ result = [a \in Attempts |-> "none"]
    /\ failed = FALSE /\ cancel = FALSE /\ raised = {}
    /\ orch = [pc |-> "idle", at |-> 0]
    /\ rel = [pc |-> "wait", at |-> 0, out |-> "none"]

Goto(pc) == orch' = [orch EXCEPT !.pc = pc]

NextRow == orch' = [pc |-> "idle", at |-> 0]

\* The cursor passes tickets that are gone, up to the next one to be issued.
SkipGaps(h, P) ==
    CHOOSE n \in h .. submitted + 1 :
        /\ n \in P \/ n = submitted + 1
        /\ \A k \in h .. n - 1 : k \notin P

--------------------------------------------------------------------------------
(* The orchestrator: _invoke_transform and the handler of its exceptions.  *)

\* accept_row first meets a failure that a worker left behind.
Register ==
    /\ orch.pc = "idle" /\ submitted < MaxAttempts /\ ~failed
    /\ entries' = [entries EXCEPT ![submitted + 1] = "waiting"]
    /\ Goto("accept")
    /\ UNCHANGED <<buffer, submissions, worker, result, failed, cancel, raised, rel>>

\* The buffer's backpressure: submit blocks while it is full.
Accept ==
    /\ orch.pc = "accept" /\ Cardinality(pending) < MaxPending
    /\ submitted' = submitted + 1
    /\ pending' = pending \cup {submitted + 1}
    /\ submissions' = submissions \cup {submitted + 1}
    /\ worker' = [worker EXCEPT ![submitted + 1] = "queued"]
    /\ orch' = [pc |-> "wait", at |-> submitted + 1]
    /\ UNCHANGED <<head, complete, evicted, closed, entries, result, failed, cancel, raised, rel>>

\* The waiter's event is set: the result is returned, or its exception raised.
Receive ==
    /\ orch.pc = "wait" /\ entries[orch.at] # "waiting"
    /\ entries' = [entries EXCEPT ![orch.at] = "none"]
    /\ raised' = IF entries[orch.at] = "row" THEN raised ELSE raised \cup {orch.at}
    /\ NextRow
    /\ UNCHANGED <<buffer, submissions, worker, result, failed, cancel, rel>>

\* Faulty: the waiter is left in the adapter.
TimeOutKeepingWaiter ==
    /\ orch.pc = "wait"
    /\ Goto("timeout")
    /\ UNCHANGED <<buffer, submissions, entries, worker, result, failed, cancel, raised, rel>>

\* The deadline passes; a result delivered since the last look is dropped with
\* the waiter.
TimeOut ==
    /\ orch.pc = "wait"
    /\ entries' = [entries EXCEPT ![orch.at] = "none"]
    /\ Goto("timeout")
    /\ UNCHANGED <<buffer, submissions, worker, result, failed, cancel, raised, rel>>

\* evict_submission: the key is forgotten, then the buffer is asked.
Forget ==
    /\ orch.pc = "timeout"
    /\ submissions' = submissions \ {orch.at}
    /\ IF orch.at \in submissions THEN Goto("evict") ELSE NextRow
    /\ UNCHANGED <<buffer, entries, worker, result, failed, cancel, raised, rel>>

\* Faulty: the cursor stays at the ticket taken out.
EvictInPlace ==
    /\ orch.pc = "evict"
    /\ IF orch.at \in pending \ complete
       THEN /\ evicted' = evicted \cup {orch.at}
            /\ pending' = pending \ {orch.at}
       ELSE UNCHANGED <<evicted, pending>>
    /\ NextRow
    /\ UNCHANGED <<submitted, head, complete, closed, submissions, entries, worker, result, failed,
                   cancel, raised, rel>>

Evict ==
    /\ orch.pc = "evict"
    /\ IF orch.at \in pending \ complete
       THEN /\ evicted' = evicted \cup {orch.at}
            /\ pending' = pending \ {orch.at}
            /\ head' = SkipGaps(head, pending')
       ELSE UNCHANGED <<evicted, pending, head>>
    /\ NextRow
    /\ UNCHANGED <<submitted, complete, closed, submissions, entries, worker, result, failed,
                   cancel, raised, rel>>

\* The rows end, a recorded failure or an audit error stops them, or the run is
\* cancelled, which ends a wait and leaves the submission in place.
Stop(cancelling) ==
    /\ orch.pc \in {"idle", "timeout"} \/ (cancelling /\ orch.pc = "wait")
    /\ entries' = IF orch.pc = "wait" THEN [entries EXCEPT ![orch.at] = "none"] ELSE entries
    /\ cancel' = cancelling
    /\ Goto("stop")
    /\ UNCHANGED <<buffer, submissions, worker, result, failed, raised, rel>>

--------------------------------------------------------------------------------
(* shutdown_batch_processing. *)

AtWork == {a \in Attempts : worker[a] \in {"queued", "running"}}

\* Faulty: cancellation waits for the calls in progress as well.
DrainAlways ==
    /\ orch.pc = "stop"
    /\ AtWork = {}
    /\ worker' = worker
    /\ Goto("drain")
    /\ UNCHANGED <<buffer, submissions, entries, result, failed, cancel, raised, rel>>

\* The pool finishes its tasks, queued ones included; cancelled, it drops those.
DrainWorkers ==
    /\ orch.pc = "stop"
    /\ cancel \/ AtWork = {}
    /\ worker' = [a \in Attempts |-> IF worker[a] = "queued" THEN "cancelled" ELSE worker[a]]
    /\ Goto("drain")
    /\ UNCHANGED <<buffer, submissions, entries, result, failed, cancel, raised, rel>>

\* Faulty: a worker still at its row is not remembered.
ShutdownForgetting ==
    /\ orch.pc = "drain"
    /\ closed' = TRUE
    /\ pending' = complete
    /\ head' = SkipGaps(head, complete)
    /\ Goto("join")
    /\ UNCHANGED <<submitted, complete, evicted, submissions, entries, worker, result, failed, cancel,
                   raised, rel>>

\* Incomplete tickets are dropped; a worker that still holds one is remembered.
ShutdownBuffer ==
    /\ orch.pc = "drain"
    /\ closed' = TRUE
    /\ evicted' = evicted \cup {a \in pending \ complete : worker[a] = "running"}
    /\ pending' = complete
    /\ head' = SkipGaps(head, complete)
    /\ Goto("join")
    /\ UNCHANGED <<submitted, complete, submissions, entries, worker, result, failed, cancel, raised, rel>>

\* The release thread has ended; a recorded failure is raised here at the latest.
Join ==
    /\ orch.pc = "join" /\ rel.pc = "ended"
    /\ submissions' = {}
    /\ Goto("closed")
    /\ UNCHANGED <<buffer, entries, worker, result, failed, cancel, raised, rel>>

--------------------------------------------------------------------------------
(* Worker threads. *)

\* The pool starts its tasks in order, on as many threads as max_pending.
Start(a) ==
    /\ worker[a] = "queued"
    /\ \A b \in 1 .. a - 1 : worker[b] # "queued"
    /\ Cardinality({b \in Attempts : worker[b] = "running"}) < MaxPending
    /\ worker' = [worker EXCEPT ![a] = "running"]
    /\ UNCHANGED <<buffer, submissions, entries, result, failed, orch, cancel, raised, rel>>

\* The processor returns or raises and the ticket is completed.  A late exception
\* leaves the worker and is recorded, a late row is discarded.
Finish(a, r) ==
    /\ worker[a] = "running"
    /\ worker' = [worker EXCEPT ![a] = "done"]
    /\ result' = [result EXCEPT ![a] = r]
    /\ IF a \in evicted
       THEN /\ evicted' = evicted \ {a}
            /\ failed' = (failed \/ r = "exception")
            /\ UNCHANGED complete
       ELSE /\ complete' = complete \cup {a}
            /\ UNCHANGED <<evicted, failed>>
    /\ UNCHANGED <<submitted, head, pending, closed, submissions, entries, orch, cancel, raised, rel>>

--------------------------------------------------------------------------------
(* The release thread. *)

\* wait_for_next_release: a complete head is taken, shut down or not.
Release ==
    /\ rel.pc = "wait" /\ head \in complete
    /\ pending' = pending \ {head}
    /\ complete' = complete \ {head}
    /\ head' = SkipGaps(head + 1, pending')
    /\ rel' = [rel EXCEPT !.pc = "untrack", !.at = head]
    /\ UNCHANGED <<submitted, evicted, closed, submissions, entries, worker, result, failed, orch,
                   cancel, raised>>

\* A submission that was forgotten meanwhile makes the result a KeyError.
Untrack ==
    /\ rel.pc = "untrack"
    /\ submissions' = submissions \ {rel.at}
    /\ rel' = [rel EXCEPT !.pc = "emit",
                          !.out = IF rel.at \in submissions THEN result[rel.at] ELSE "KeyError"]
    /\ UNCHANGED <<buffer, entries, worker, result, failed, orch, cancel, raised>>

\* The adapter hands it to the waiter of this attempt, if there is one.
Emit ==
    /\ rel.pc = "emit"
    /\ entries' = IF entries[rel.at] = "waiting" THEN [entries EXCEPT ![rel.at] = rel.out] ELSE entries
    /\ rel' = [pc |-> "wait", at |-> 0, out |-> "none"]
    /\ UNCHANGED <<buffer, submissions, worker, result, failed, orch, cancel, raised>>

EndRelease ==
    /\ rel.pc = "wait" /\ head \notin complete /\ closed
    /\ rel' = [rel EXCEPT !.pc = "ended"]
    /\ UNCHANGED <<buffer, submissions, entries, worker, result, failed, orch, cancel, raised>>

--------------------------------------------------------------------------------
Orchestrator ==
    Register \/ Accept \/ Receive \/ Forget \/ Evict \/ DrainWorkers \/ ShutdownBuffer \/ Join

ReleaseThread == Release \/ Untrack \/ Emit \/ EndRelease

Next ==
    \/ Orchestrator
    \/ TimeOut
    \/ \E cancelling \in BOOLEAN : Stop(cancelling)
    \/ \E a \in Attempts : Start(a)
    \/ \E a \in Attempts, r \in Results : Finish(a, r)
    \/ ReleaseThread

Spec == Init /\ [][Next]_vars

--------------------------------------------------------------------------------
(* Safety. *)

\* "Results are released in exact submission order": the release cursor is at the
\* oldest ticket in the buffer, over any order of completions and evictions, so no
\* ticket is passed and no gap is waited for.
CursorAtOldest ==
    /\ \A a \in pending : head <= a /\ a <= submitted
    /\ head \in pending \/ (pending = {} /\ head = submitted + 1)

\* A worker that finishes finds its ticket, incomplete or evicted, whatever was
\* evicted or shut down while it worked: complete() raises neither "never
\* submitted" nor "already completed".
RunningHasTicket ==
    \A a \in Attempts : worker[a] = "running" => a \in evicted \/ a \in pending \ complete

\* A waiter is given the result of its own attempt.  The KeyError of a submission
\* forgotten between completion and release reaches nobody.
WaiterGetsOwnResult ==
    \A a \in Attempts : entries[a] \in {"none", "waiting", result[a]}

--------------------------------------------------------------------------------
(* Liveness.  Threads run; a processor may hang, and nothing makes a wait time *)
(* out or the rows end.                                                        *)

FairSpec == Spec /\ WF_vars(Orchestrator) /\ WF_vars(ReleaseThread)

\* A row that is done reaches the orchestrator that waits for it, although calls it
\* gave up on before may hang for ever.
DoneIsDelivered ==
    \A a \in Attempts :
        (orch = [pc |-> "wait", at |-> a] /\ worker[a] = "done") ~> orch # [pc |-> "wait", at |-> a]

\* Shutdown ends if no task is left in the pool, and on cancellation even while
\* calls hang.
ShutdownEnds == (orch.pc = "stop" /\ (cancel \/ AtWork = {})) ~> (orch.pc = "closed")
================================================================================
