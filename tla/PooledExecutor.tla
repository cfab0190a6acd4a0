---------------------------- MODULE PooledExecutor ----------------------------
(***************************************************************************)
(* PooledExecutor.execute_batch: callers, one at a time, put the rows of a *)
(* batch on a pool of threads and collect the results in submission order. *)
(* A row whose call meets a capacity error gives up its permit, sleeps and *)
(* tries again until its retry budget is used up; an unexpected error of   *)
(* one row cancels its siblings and fails the batch; shutdown and the      *)
(* cancellation of the run may come at any time.                           *)
(*                                                                         *)
(* Time is abstract: a row's budget expires at some point, and sleeps and  *)
(* the dispatch gate take any time.                                        *)
(***************************************************************************)
EXTENDS Integers, Sequences, FiniteSets

CONSTANTS
    Batches,   \* callers of execute_batch, one batch each
    Rows,      \* rows of a batch
    PoolSize   \* threads of the pool, and permits of the semaphore

ASSUME PoolAssumption ==
    /\ Batches \subseteq Nat \ {0} /\ IsFiniteSet(Batches)
    /\ Rows \in Nat \ {0} /\ PoolSize \in Nat \ {0}

Tasks == Batches \X (1 .. Rows)

VARIABLES
    caller,    \* each caller's step
    lock,      \* the caller that holds _batch_lock; 0 when it is free
    queue,     \* tasks the pool has accepted and no thread has started
    task,      \* each task: step, result, whether it retries, has used its budget, has a permit
    permits,   \* the semaphore
    slots,     \* the reorder buffer: the task of each index
    complete,  \* indices of it that are complete
    out,       \* each caller's entries, in the order collected
    cancelled, \* callers whose batch_cancel_event is set
    stop,      \* the executor's shutdown event, or the run's, is set
    closed     \* the thread pool takes no more tasks

vars == <<caller, lock, queue, task, permits, slots, complete, out, cancelled, stop, closed>>
batch == <<caller, lock, slots, complete, out, cancelled>>

\* An answer of the call; an error for a time-out or an interruption; an exception.
Results == {"none", "answer", "stopped", "raise"}

TypeOK ==
    /\ caller \in [Batches -> {"idle", "submit", "collect", "drain", "returned", "raised"}]
    /\ lock \in Batches \cup {0}
    /\ queue \in Seq(Tasks)
    /\ task \in [Tasks -> [pc : {"new", "queued", "acquire", "gate", "call", "sleep", "done",
                                 "cancelled", "collected"},
                           result : Results, retry : BOOLEAN, expired : BOOLEAN, permit : BOOLEAN]]
    /\ permits \in 0 .. PoolSize
    /\ slots \in Seq(Tasks) /\ complete \subseteq 1 .. Len(slots)
    /\ out \in [Batches -> Seq(Tasks)]
    /\ cancelled \subseteq Batches /\ stop \in BOOLEAN /\ closed \in BOOLEAN

Init ==
    /\ caller = [b \in Batches |-> "idle"] /\ lock = 0
    /\ queue = <<>>
    /\ task = [t \in Tasks |-> [pc |-> "new", result |-> "none", retry |-> FALSE,
                                expired |-> FALSE, permit |-> FALSE]]
    /\ permits = PoolSize
    /\ slots = <<>> /\ complete = {}
    /\ out = [b \in Batches |-> <<>>]
    /\ cancelled = {} /\ stop = FALSE /\ closed = FALSE

Running(t) == task[t].pc \in {"acquire", "gate", "call", "sleep"}

Step(t, pc) == task' = [task EXCEPT ![t] = [@ EXCEPT !.pc = pc]]

--------------------------------------------------------------------------------
(* The caller: execute_batch. *)

Begin(b) ==
    /\ caller[b] = "idle" /\ lock = 0
    /\ lock' = b
    /\ slots' = <<>> /\ complete' = {}
    /\ caller' = [caller EXCEPT ![b] = "submit"]
    /\ UNCHANGED <<queue, task, permits, out, cancelled, stop, closed>>

\* Faulty: the caller takes the permit of a row that no thread has started.
SubmitAcquiring(b) ==
    /\ caller[b] = "submit" /\ ~closed /\ permits > 0
    /\ LET n == Len(slots) + 1
       IN  /\ slots' = Append(slots, <<b, n>>)
           /\ queue' = Append(queue, <<b, n>>)
           /\ Step(<<b, n>>, "queued")
           /\ caller' = [caller EXCEPT ![b] = IF n = Rows THEN "collect" ELSE "submit"]
    /\ permits' = permits - 1
    /\ UNCHANGED <<lock, complete, out, cancelled, stop, closed>>

\* The next row gets an index and goes to the pool.  A pool that was shut down takes
\* none: this row and the rest complete with an error.
Submit(b) ==
    /\ caller[b] = "submit"
    /\ LET n == Len(slots) + 1
       IN  \/ /\ ~closed
              /\ slots' = Append(slots, <<b, n>>)
              /\ queue' = Append(queue, <<b, n>>)
              /\ Step(<<b, n>>, "queued")
              /\ caller' = [caller EXCEPT ![b] = IF n = Rows THEN "collect" ELSE "submit"]
              /\ UNCHANGED complete
           \/ /\ closed
              /\ slots' = [i \in 1 .. Rows |-> <<b, i>>]
              /\ complete' = complete \cup (n .. Rows)
              /\ task' = [t \in Tasks |-> IF t[1] = b /\ t[2] >= n
                                          THEN [task[t] EXCEPT !.pc = "collected", !.result = "stopped"]
                                          ELSE task[t]]
              /\ caller' = [caller EXCEPT ![b] = "collect"]
              /\ UNCHANGED queue
    /\ UNCHANGED <<lock, permits, out, cancelled, stop, closed>>

\* Indices get_ready_results emits: complete, and so are all before them.
Ready(done, sofar) ==
    {i \in done : i > Len(sofar) /\ \A j \in Len(sofar) + 1 .. i : j \in done}

\* Entries with these indices appended, lowest first.
Emit(sofar, ready) ==
    LET later(i) == Cardinality({j \in ready : j < i}) + 1
        at(k) == CHOOSE i \in ready : later(i) = k
    IN  sofar \o [k \in 1 .. Cardinality(ready) |-> slots[at(k)]]

\* A finished future: its result completes its index and what is ready is collected.
Collect(b, i) ==
    /\ caller[b] = "collect"
    /\ task[<<b, i>>].pc = "done" /\ task[<<b, i>>].result # "raise"
    /\ complete' = complete \cup {i}
    /\ out' = [out EXCEPT ![b] = Emit(@, Ready(complete', @))]
    /\ Step(<<b, i>>, "collected")
    /\ UNCHANGED <<caller, lock, queue, permits, slots, cancelled, stop, closed>>

\* Faulty: the exception of a row is left in its future.
FailCollecting(b, i) ==
    /\ caller[b] = "collect"
    /\ task[<<b, i>>].pc = "done" /\ task[<<b, i>>].result = "raise"
    /\ complete' = complete \cup {i}
    /\ out' = [out EXCEPT ![b] = Emit(@, Ready(complete', @))]
    /\ Step(<<b, i>>, "collected")
    /\ UNCHANGED <<caller, lock, queue, permits, slots, cancelled, stop, closed>>

\* _drain_failed_batch_futures: the siblings are told to stop.
Fail(b, i) ==
    /\ caller[b] = "collect"
    /\ task[<<b, i>>].pc = "done" /\ task[<<b, i>>].result = "raise"
    /\ cancelled' = cancelled \cup {b}
    /\ caller' = [caller EXCEPT ![b] = "drain"]
    /\ UNCHANGED <<lock, queue, task, permits, slots, complete, out, stop, closed>>

Cancel(b, i) ==
    /\ caller[b] = "drain" /\ task[<<b, i>>].pc = "queued"
    /\ \E k \in 1 .. Len(queue) :
          queue[k] = <<b, i>> /\ queue' = SubSeq(queue, 1, k - 1) \o SubSeq(queue, k + 1, Len(queue))
    /\ Step(<<b, i>>, "cancelled")
    /\ UNCHANGED <<batch, permits, stop, closed>>

\* Faulty: the batch fails while siblings run.
RaiseAtOnce(b) ==
    /\ caller[b] = "drain"
    /\ slots' = <<>> /\ complete' = {}
    /\ caller' = [caller EXCEPT ![b] = "raised"]
    /\ lock' = 0
    /\ UNCHANGED <<queue, task, permits, out, cancelled, stop, closed>>

\* Every future is done or cancelled: the exception is raised, the buffer replaced.
Raise(b) ==
    /\ caller[b] = "drain"
    /\ \A i \in 1 .. Rows : task[<<b, i>>].pc \in {"done", "cancelled", "collected"}
    /\ slots' = <<>> /\ complete' = {}
    /\ caller' = [caller EXCEPT ![b] = "raised"]
    /\ lock' = 0
    /\ UNCHANGED <<queue, task, permits, out, cancelled, stop, closed>>

\* The final drain; a batch with entries missing is an error.
Return(b) ==
    /\ caller[b] = "collect"
    /\ \A i \in 1 .. Rows : task[<<b, i>>].pc = "collected"
    /\ out' = [out EXCEPT ![b] = Emit(@, Ready(complete, @))]
    /\ caller' = [caller EXCEPT ![b] = IF Len(out'[b]) = Rows THEN "returned" ELSE "raised"]
    /\ lock' = 0
    /\ UNCHANGED <<queue, task, permits, slots, complete, cancelled, stop, closed>>

--------------------------------------------------------------------------------
(* A pool thread: _execute_single. *)

Interrupted(t) == stop \/ t[1] \in cancelled

\* The result, and the permit given back if it is held.
Finish(t, result) ==
    /\ task' = [task EXCEPT ![t] = [pc |-> "done", result |-> result, retry |-> FALSE,
                                        expired |-> FALSE, permit |-> FALSE]]
    /\ permits' = IF task[t].permit THEN permits + 1 ELSE permits

Start(t) ==
    /\ queue # <<>> /\ t = Head(queue)
    /\ Cardinality({u \in Tasks : Running(u)}) < PoolSize
    /\ queue' = Tail(queue)
    /\ Step(t, "acquire")
    /\ UNCHANGED <<batch, permits, stop, closed>>

\* _acquire_worker_slot, for the first attempt and for every retry.
Acquire(t) ==
    /\ task[t].pc = "acquire"
    /\ \/ /\ Interrupted(t)
          /\ Finish(t, "stopped")
       \/ /\ ~Interrupted(t) /\ permits > 0
          /\ permits' = permits - 1
          /\ task' = [task EXCEPT ![t] = [@ EXCEPT !.pc = "gate", !.permit = TRUE]]
    /\ UNCHANGED <<batch, queue, stop, closed>>

\* The checks on both sides of the dispatch gate, whose wait ends in between.
Gate(t) ==
    /\ task[t].pc = "gate"
    /\ \/ task[t].retry /\ task[t].expired /\ Finish(t, "stopped")
       \/ Interrupted(t) /\ Finish(t, "stopped")
       \/ ~(task[t].retry /\ task[t].expired) /\ ~Interrupted(t) /\ Step(t, "call") /\ UNCHANGED permits
    /\ UNCHANGED <<batch, queue, stop, closed>>

\* process_fn returns, reports a permanent error, or raises an unexpected one.
Answer(t) ==
    /\ task[t].pc = "call"
    /\ \E result \in {"answer", "raise"} : Finish(t, result)
    /\ UNCHANGED <<batch, queue, stop, closed>>

\* The permit is given up before the sleep.
Yield(t) ==
    /\ task' = [task EXCEPT ![t] = [@ EXCEPT !.pc = "sleep", !.retry = TRUE, !.permit = FALSE]]
    /\ permits' = permits + 1

\* A capacity error, or any error that may be retried.
Capacity(t) ==
    /\ task[t].pc = "call"
    /\ \/ task[t].expired /\ Finish(t, "stopped")
       \/ ~task[t].expired /\ Interrupted(t) /\ Finish(t, "stopped")
       \/ ~task[t].expired /\ ~Interrupted(t) /\ Yield(t)
    /\ UNCHANGED <<batch, queue, stop, closed>>

Wake(t) ==
    /\ task[t].pc = "sleep"
    /\ \/ Interrupted(t) /\ Finish(t, "stopped")
       \/ task[t].expired /\ Finish(t, "stopped")
       \/ ~task[t].expired /\ Step(t, "acquire") /\ UNCHANGED permits
    /\ UNCHANGED <<batch, queue, stop, closed>>

\* max_capacity_retry_seconds have passed since the row started.
Expire(t) ==
    /\ Running(t) /\ ~task[t].expired
    /\ task' = [task EXCEPT ![t] = [@ EXCEPT !.expired = TRUE]]
    /\ UNCHANGED <<batch, queue, permits, stop, closed>>

--------------------------------------------------------------------------------
(* Shutdown of the executor, which then closes its pool; or the end of the run. *)

Shutdown ==
    /\ ~stop /\ stop' = TRUE
    /\ UNCHANGED <<batch, queue, task, permits, closed>>

ClosePool ==
    /\ stop /\ ~closed /\ closed' = TRUE
    /\ UNCHANGED <<batch, queue, task, permits, stop>>

--------------------------------------------------------------------------------
Work(t) == Start(t) \/ Acquire(t) \/ Gate(t) \/ Answer(t) \/ Capacity(t) \/ Wake(t)

Call(b) ==
    \/ Submit(b) \/ Raise(b) \/ Return(b)
    \/ \E i \in 1 .. Rows : Collect(b, i) \/ Fail(b, i) \/ Cancel(b, i)

Next ==
    \/ \E b \in Batches : Begin(b) \/ Call(b)
    \/ \E t \in Tasks : Work(t) \/ Expire(t)
    \/ Shutdown \/ ClosePool

Spec == Init /\ [][Next]_vars

--------------------------------------------------------------------------------
(* Safety. *)

\* "ensures we only release what we hold": over retries, time-outs, cancellations and
\* unexpected errors the permits and their holders add up to the pool's size.
PermitsAreConserved ==
    permits + Cardinality({t \in Tasks : task[t].permit}) = PoolSize

\* "Drain/cancel outstanding futures before propagating": when execute_batch has
\* returned or raised, none of its rows is queued or running, so no late call is made
\* and no late result can meet the buffer of the next batch.
NoStragglers ==
    \A t \in Tasks : caller[t[1]] \in {"returned", "raised"} =>
        ~Running(t) /\ \A k \in 1 .. Len(queue) : queue[k] # t

\* An unexpected error of a row is never swallowed: its batch does not return.
FatalIsRaised ==
    \A t \in Tasks : caller[t[1]] = "returned" => task[t].result # "raise"

--------------------------------------------------------------------------------
(* Liveness: threads run, calls of the service return, and time passes; nothing *)
(* says that a capacity error ever goes away.                                   *)

FairSpec ==
    /\ Spec
    /\ \A b \in Batches : WF_vars(Call(b))
    /\ \A t \in Tasks : WF_vars(Work(t)) /\ WF_vars(Expire(t))

\* execute_batch ends, although its rows give up and take back permits, meet
\* capacity errors for ever, or are cancelled.
BatchEnds == \A b \in Batches : (caller[b] = "submit") ~> (caller[b] \in {"returned", "raised"})
================================================================================
