------------------------- MODULE PooledExecutorProofs -------------------------
(***************************************************************************)
(* NoStragglers, FatalIsRaised and PermitsAreConserved for every number of *)
(* callers, rows and threads.                                              *)
(*                                                                         *)
(* A pool thread starts whatever is at the queue's head, so the rows of a  *)
(* batch stay ended only because the queue holds nothing but tasks that    *)
(* are still queued, each of them once (QueueOK); and a caller that begins *)
(* finds all its rows new only because one caller at a time has the lock   *)
(* (CallersOK).  The permits add up because a task has one exactly between *)
(* its acquire and the end of its call (TasksOK).                          *)
(***************************************************************************)
EXTENDS PooledExecutor, FiniteSetTheorems, SequenceTheorems, TLAPS

State ==
    [pc : {"new", "queued", "acquire", "gate", "call", "sleep", "done", "cancelled", "collected"},
     result : Results, retry : BOOLEAN, expired : BOOLEAN, permit : BOOLEAN]

Ended == {"done", "cancelled", "collected"}

Typed ==
    /\ caller \in [Batches -> {"idle", "submit", "collect", "drain", "returned", "raised"}]
    /\ task \in [Tasks -> State]
    /\ queue \in Seq(Tasks)

\* A task in the queue is queued, and is there once.
QueueOK ==
    /\ \A k \in 1 .. Len(queue) : task[queue[k]].pc = "queued"
    /\ \A j, k \in 1 .. Len(queue) : queue[j] = queue[k] => j = k

\* The caller at work has the lock; its rows are submitted in order; a batch ends
\* when all its rows have.
CallerOK(b) ==
    /\ caller[b] \in {"submit", "collect", "drain"} <=> lock = b
    /\ caller[b] = "idle" => \A i \in 1 .. Rows : task[<<b, i>>].pc = "new"
    /\ caller[b] = "submit" =>
          /\ slots \in Seq(Tasks) /\ Len(slots) < Rows
          /\ \A i \in 1 .. Rows : i > Len(slots) => task[<<b, i>>].pc = "new"
    /\ caller[b] = "returned" => \A i \in 1 .. Rows : task[<<b, i>>].pc = "collected"
    /\ caller[b] = "raised" => \A i \in 1 .. Rows : task[<<b, i>>].pc \in Ended

CallersOK == \A b \in Batches : CallerOK(b)

\* A permit is held at the gate and during the call; no exception is collected.
TasksOK ==
    \A t \in Tasks :
        /\ task[t].permit = TRUE <=> task[t].pc \in {"gate", "call"}
        /\ task[t].pc = "collected" => task[t].result # "raise"

Holders == {t \in Tasks : task[t].permit}

Inv == Typed /\ QueueOK /\ CallersOK /\ TasksOK

Permits == permits \in Nat /\ PermitsAreConserved

\* 0 stands for a free lock.
LEMMA NoCallerIsZero == 0 \notin Batches
BY PoolAssumption

\* There are finitely many tasks.
LEMMA FiniteTasks == IsFiniteSet(Tasks)
<1>1. IsFiniteSet(1 .. Rows)
  BY PoolAssumption, FS_Interval
<1> QED
  BY <1>1, PoolAssumption, FS_Product DEF Tasks

\* A task of the pool takes a step and stays in it, or ends.
LEMMA ThreadStep ==
    ASSUME Inv, NEW t \in Tasks, Running(t), NEW r \in State,
           task' = [task EXCEPT ![t] = r], UNCHANGED <<batch, queue>>,
           r.pc \in {"acquire", "gate", "call", "sleep", "done"},
           r.permit = TRUE <=> r.pc \in {"gate", "call"}
    PROVE  Inv' /\ Holders' = IF r.permit THEN Holders \cup {t} ELSE Holders \ {t}
<1> USE DEF Inv
<1>0. task'[t] = r /\ \A u \in Tasks : u # t => task'[u] = task[u]
  BY DEF Typed
<1>1. Typed'
  BY DEF Typed, batch
<1>2. QueueOK'
  BY <1>0 DEF QueueOK, Running, Typed
<1>3. CallersOK'
  <2>1. \A b \in Batches, i \in 1 .. Rows :
           <<b, i>> \in Tasks /\ (task[<<b, i>>].pc \in Ended \cup {"new"} => task'[<<b, i>>] = task[<<b, i>>])
    BY <1>0 DEF Tasks, Running, Ended
  <2>2. UNCHANGED <<caller, lock, slots>>
    BY DEF batch
  <2> QED
    BY <2>1, <2>2 DEF CallersOK, CallerOK, Ended
<1>4. TasksOK'
  BY <1>0 DEF TasksOK
<1>5. Holders' = IF r.permit THEN Holders \cup {t} ELSE Holders \ {t}
  BY <1>0 DEF Holders
<1> QED
  BY <1>1, <1>2, <1>3, <1>4, <1>5

\* The permits when the holders change by one task, or not at all.
LEMMA PermitStep ==
    ASSUME Permits, NEW t \in Tasks,
           \/ Holders' = Holders /\ permits' = permits
           \/ t \notin Holders /\ Holders' = Holders \cup {t} /\ permits > 0 /\ permits' = permits - 1
           \/ t \in Holders /\ Holders' = Holders \ {t} /\ permits' = permits + 1
    PROVE  Permits'
<1>1. IsFiniteSet(Holders) /\ Cardinality(Holders) \in Nat
  BY FiniteTasks, FS_Subset, FS_CardinalityType DEF Holders
<1>2. Cardinality(Holders \cup {t}) = IF t \in Holders THEN Cardinality(Holders) ELSE Cardinality(Holders) + 1
  BY <1>1, FS_AddElement
<1>3. Cardinality(Holders \ {t}) = IF t \in Holders THEN Cardinality(Holders) - 1 ELSE Cardinality(Holders)
  BY <1>1, FS_RemoveElement, Zenon
<1>4. permits + Cardinality(Holders) = PoolSize
  BY DEF Permits, PermitsAreConserved, Holders
<1>5. permits' \in Nat /\ permits' + Cardinality(Holders') = PoolSize
  <2>0. permits \in Nat /\ PoolSize \in Nat
    BY PoolAssumption DEF Permits
  <2>1. CASE Holders' = Holders /\ permits' = permits
    BY <1>4, <2>0, <2>1
  <2>2. CASE t \notin Holders /\ Holders' = Holders \cup {t} /\ permits > 0 /\ permits' = permits - 1
    <3>1. Cardinality(Holders') = Cardinality(Holders) + 1
      BY <1>2, <2>2
    <3> QED
      BY <1>1, <1>4, <2>0, <2>2, <3>1
  <2>3. CASE t \in Holders /\ Holders' = Holders \ {t} /\ permits' = permits + 1
    <3>1. Cardinality(Holders') = Cardinality(Holders) - 1
      BY <1>3, <2>3
    <3> QED
      BY <1>1, <1>4, <2>0, <2>3, <3>1
  <2> QED
    BY <2>1, <2>2, <2>3
<1> QED
  BY <1>5 DEF Permits, PermitsAreConserved, Holders

\* Finish gives the permit back exactly when it is held.
LEMMA FinishStep ==
    ASSUME Inv, Permits, NEW t \in Tasks, Running(t), NEW result \in Results,
           Finish(t, result), UNCHANGED <<batch, queue>>
    PROVE  Inv' /\ Permits'
<1> DEFINE r == [pc |-> "done", result |-> result, retry |-> FALSE, expired |-> FALSE, permit |-> FALSE]
<1>1. r \in State /\ r.pc = "done" /\ r.permit = FALSE
  BY DEF State
<1>2. task' = [task EXCEPT ![t] = r]
  BY DEF Finish
<1> HIDE DEF r
<1>3. Inv' /\ Holders' = Holders \ {t}
  BY <1>1, <1>2, ThreadStep, Zenon
<1>4. t \in Holders <=> task[t].permit
  BY DEF Holders
<1>5. permits' = IF t \in Holders THEN permits + 1 ELSE permits
  BY <1>4 DEF Finish
<1> QED
  BY <1>3, <1>5, PermitStep

\* Every step of a pool thread after it has started a task.
LEMMA WorkSteps ==
    ASSUME Inv, Permits, NEW t \in Tasks, Acquire(t) \/ Gate(t) \/ Answer(t) \/ Capacity(t) \/ Wake(t) \/ Expire(t)
    PROVE  Inv' /\ Permits'
<1>0. task[t] \in State /\ (task[t].permit = TRUE <=> task[t].pc \in {"gate", "call"})
  BY DEF Inv, Typed, TasksOK
<1>1. Running(t) /\ UNCHANGED <<batch, queue>>
  BY DEF Acquire, Gate, Answer, Capacity, Wake, Expire, Running
<1>2. CASE \E result \in Results : Finish(t, result)
  BY <1>1, <1>2, FinishStep
<1>3. CASE permits > 0 /\ permits' = permits - 1 /\ task[t].pc = "acquire"
           /\ task' = [task EXCEPT ![t] = [task[t] EXCEPT !.pc = "gate", !.permit = TRUE]]
  <2> DEFINE r == [task[t] EXCEPT !.pc = "gate", !.permit = TRUE]
  <2>1. r \in State /\ r.pc = "gate" /\ r.permit = TRUE
    BY <1>0, Zenon DEF State
  <2>2. task' = [task EXCEPT ![t] = r]
    BY <1>3
  <2> HIDE DEF r
  <2>3. Inv' /\ Holders' = Holders \cup {t}
    BY <1>1, <2>1, <2>2, ThreadStep, Zenon
  <2>4. t \notin Holders
    BY <1>0, <1>3 DEF Holders
  <2> QED
    BY <1>3, <2>3, <2>4, PermitStep
<1>4. CASE task[t].pc = "call" /\ Yield(t)
  <2> DEFINE r == [task[t] EXCEPT !.pc = "sleep", !.retry = TRUE, !.permit = FALSE]
  <2>1. r \in State /\ r.pc = "sleep" /\ r.permit = FALSE
    BY <1>0, Zenon DEF State
  <2>2. task' = [task EXCEPT ![t] = r] /\ permits' = permits + 1
    BY <1>4 DEF Yield
  <2> HIDE DEF r
  <2>3. Inv' /\ Holders' = Holders \ {t}
    BY <1>1, <2>1, <2>2, ThreadStep, Zenon
  <2>4. t \in Holders
    BY <1>0, <1>4 DEF Holders
  <2> QED
    BY <2>2, <2>3, <2>4, PermitStep
<1>5. CASE permits' = permits /\ (\/ task[t].pc = "gate" /\ Step(t, "call")
                                  \/ task[t].pc = "sleep" /\ Step(t, "acquire"))
  <2> DEFINE r == [task[t] EXCEPT !.pc = IF task[t].pc = "gate" THEN "call" ELSE "acquire"]
  <2>1. r \in State /\ r.pc \in {"call", "acquire"} /\ r.permit = task[t].permit
        /\ (r.pc = "call" <=> task[t].pc = "gate")
    BY <1>0 DEF State
  <2>2. task' = [task EXCEPT ![t] = r]
    BY <1>5 DEF Step
  <2> HIDE DEF r
  <2>3. Inv' /\ Holders' = IF r.permit THEN Holders \cup {t} ELSE Holders \ {t}
    BY <1>0, <1>5, <1>1, <2>1, <2>2, ThreadStep, Zenon
  <2>4. t \in Holders <=> task[t].permit
    BY DEF Holders
  <2>5. Holders' = Holders
    BY <2>1, <2>3, <2>4
  <2> QED
    BY <1>5, <2>3, <2>5, PermitStep
<1>6. CASE Expire(t)
  <2> DEFINE r == [task[t] EXCEPT !.expired = TRUE]
  <2>1. r \in State /\ r.pc = task[t].pc /\ r.permit = task[t].permit
    BY <1>0, Zenon DEF State
  <2>2. task' = [task EXCEPT ![t] = r] /\ permits' = permits
    BY <1>6 DEF Expire
  <2> HIDE DEF r
  <2>3. Inv' /\ Holders' = IF r.permit THEN Holders \cup {t} ELSE Holders \ {t}
    BY <1>0, <1>1, <2>1, <2>2, ThreadStep, Zenon DEF Running
  <2>4. t \in Holders <=> task[t].permit
    BY DEF Holders
  <2>5. Holders' = Holders
    BY <2>1, <2>3, <2>4
  <2> QED
    BY <2>2, <2>3, <2>5, PermitStep
<1> QED
  BY <1>2, <1>3, <1>4, <1>5, <1>6 DEF Acquire, Gate, Answer, Capacity, Wake, Results

\* A step that moves no task to or from the gate and the call, and no permit.
LEMMA PermitsKept ==
    ASSUME Inv, Inv', Permits, permits' = permits,
           \A t \in Tasks : task'[t].pc \in {"gate", "call"} <=> task[t].pc \in {"gate", "call"}
    PROVE  Permits'
<1>1. \A t \in Tasks : task'[t].permit \in BOOLEAN /\ task[t].permit \in BOOLEAN
  BY DEF Inv, Typed, State
<1>2. \A t \in Tasks : task'[t].permit <=> task[t].permit
  BY <1>1 DEF Inv, TasksOK
<1>3. Holders' = Holders
  BY <1>2 DEF Holders
<1> QED
  BY <1>3, Zenon DEF Permits, PermitsAreConserved, Holders

\* What Step does to the tasks, and that they keep their types.
LEMMA StepFrame ==
    ASSUME Inv, NEW t \in Tasks, NEW pc \in {"queued", "acquire", "cancelled", "collected"}, Step(t, pc)
    PROVE  /\ task' \in [Tasks -> State]
           /\ task'[t].pc = pc /\ task'[t].permit = task[t].permit /\ task'[t].result = task[t].result
           /\ \A u \in Tasks : u # t => task'[u] = task[u]
<1> DEFINE r == [task[t] EXCEPT !.pc = pc]
<1>1. task \in [Tasks -> State] /\ task[t] \in State
  BY DEF Inv, Typed
<1>2. r \in State /\ r.pc = pc /\ r.permit = task[t].permit /\ r.result = task[t].result
  BY <1>1 DEF State
<1>3. task' = [task EXCEPT ![t] = r]
  BY DEF Step
<1> HIDE DEF r
<1> QED
  BY <1>1, <1>2, <1>3

\* A thread takes the task at the queue's head.
LEMMA StartStep ==
    ASSUME Inv, Permits, NEW t \in Tasks, Start(t)
    PROVE  Inv' /\ Permits'
<1>1. queue \in Seq(Tasks) /\ queue # <<>> /\ t = queue[1] /\ queue' = Tail(queue)
  BY DEF Start, Inv, Typed
<1>2. /\ Len(queue) \in Nat \ {0} /\ queue' \in Seq(Tasks) /\ Len(queue') = Len(queue) - 1
      /\ \A k \in 1 .. Len(queue') : k + 1 \in 1 .. Len(queue) /\ k + 1 # 1 /\ queue'[k] = queue[k + 1]
  BY <1>1
<1>3. 1 \in 1 .. Len(queue)
  BY <1>2
<1>4. task[t].pc = "queued"
  BY <1>1, <1>3 DEF Inv, QueueOK
<1>5. /\ task' \in [Tasks -> State]
      /\ task'[t].pc = "acquire" /\ task'[t].permit = task[t].permit /\ task'[t].result = task[t].result
      /\ \A u \in Tasks : u # t => task'[u] = task[u]
  BY StepFrame DEF Start
<1>6. UNCHANGED <<caller, lock, slots, permits>>
  BY DEF Start, batch
<1>7. Typed'
  BY <1>2, <1>5, <1>6 DEF Inv, Typed
<1>8. QueueOK'
  <2>1. \A k \in 1 .. Len(queue') : queue'[k] # t /\ queue'[k] \in Tasks
    BY <1>1, <1>2, <1>3 DEF Inv, QueueOK
  <2>2. \A k \in 1 .. Len(queue') : task[queue'[k]].pc = "queued"
    BY <1>2 DEF Inv, QueueOK
  <2>3. \A k \in 1 .. Len(queue') : task'[queue'[k]].pc = "queued"
    BY <1>5, <2>1, <2>2
  <2>4. \A j, k \in 1 .. Len(queue') : queue'[j] = queue'[k] => j + 1 = k + 1
    BY <1>2 DEF Inv, QueueOK
  <2>5. \A j, k \in 1 .. Len(queue') : j + 1 = k + 1 => j = k
    OBVIOUS
  <2> QED
    BY <2>3, <2>4, <2>5 DEF QueueOK
<1>9. CallersOK'
  <2>1. \A b \in Batches, i \in 1 .. Rows :
           <<b, i>> \in Tasks /\ (task[<<b, i>>].pc \in Ended \cup {"new"} => task'[<<b, i>>] = task[<<b, i>>])
    BY <1>4, <1>5 DEF Tasks, Ended
  <2> QED
    BY <1>6, <2>1 DEF Inv, CallersOK, CallerOK, Ended
<1>10. TasksOK'
  BY <1>4, <1>5 DEF Inv, TasksOK
<1>11. Inv'
  BY <1>7, <1>8, <1>9, <1>10 DEF Inv
<1> QED
  BY <1>4, <1>5, <1>6, <1>11, PermitsKept

\* A step of one caller leaves the others as they are.
LEMMA OtherCallers ==
    ASSUME Inv, NEW b \in Batches, lock \in {0, b}, lock' \in {0, b}, CallerOK(b)',
           \A c \in Batches : c # b => /\ caller'[c] = caller[c]
                                       /\ \A i \in 1 .. Rows : task'[<<c, i>>] = task[<<c, i>>]
    PROVE  CallersOK'
<1> SUFFICES ASSUME NEW c \in Batches, c # b PROVE CallerOK(c)'
  BY DEF CallersOK
<1>1. CallerOK(c) /\ c # 0
  BY NoCallerIsZero DEF Inv, CallersOK
<1>2. lock # c /\ lock' # c
  BY <1>1
<1>3. caller[c] \notin {"submit", "collect", "drain"} /\ caller'[c] = caller[c]
  BY <1>1, <1>2 DEF CallerOK
<1> QED
  BY <1>1, <1>2, <1>3 DEF CallerOK

\* The caller takes the lock.
LEMMA BeginStep ==
    ASSUME Inv, Permits, NEW b \in Batches, Begin(b)
    PROVE  Inv' /\ Permits'
<1>0. /\ caller[b] = "idle" /\ lock = 0 /\ lock' = b /\ slots' = <<>>
      /\ caller' = [caller EXCEPT ![b] = "submit"] /\ UNCHANGED <<queue, task, permits>>
  BY DEF Begin
<1>1. caller'[b] = "submit" /\ \A c \in Batches : c # b => caller'[c] = caller[c]
  BY <1>0 DEF Inv, Typed
<1>2. Typed'
  BY <1>0 DEF Inv, Typed
<1>3. QueueOK' /\ TasksOK'
  BY <1>0 DEF Inv, QueueOK, TasksOK
<1>4. slots' \in Seq(Tasks) /\ Len(slots') = 0 /\ 0 < Rows
  BY <1>0, PoolAssumption
<1>5. \A i \in 1 .. Rows : task'[<<b, i>>].pc = "new"
  BY <1>0 DEF Inv, CallersOK, CallerOK
<1>6. CallerOK(b)'
  BY <1>0, <1>1, <1>4, <1>5 DEF CallerOK
<1>7. CallersOK'
  BY <1>0, <1>1, <1>6, OtherCallers
<1>8. Inv'
  BY <1>2, <1>3, <1>7 DEF Inv
<1> QED
  BY <1>0, <1>8, PermitsKept

\* A row goes to the pool.
LEMMA SubmitOpen ==
    ASSUME Inv, Permits, NEW b \in Batches, Submit(b), ~closed
    PROVE  Inv' /\ Permits'
<1> DEFINE n == Len(slots) + 1
           t == <<b, n>>
<1>0. /\ caller[b] = "submit" /\ slots' = Append(slots, t) /\ queue' = Append(queue, t)
      /\ Step(t, "queued") /\ caller' = [caller EXCEPT ![b] = IF n = Rows THEN "collect" ELSE "submit"]
      /\ UNCHANGED <<lock, permits>>
  BY Zenon DEF Submit
<1>1. CallerOK(b) /\ lock = b
  BY <1>0 DEF Inv, CallersOK, CallerOK
<1>2. slots \in Seq(Tasks) /\ queue \in Seq(Tasks) /\ Len(slots) \in Nat /\ Len(queue) \in Nat /\ Rows \in Nat
  BY <1>0, <1>1, PoolAssumption DEF Inv, Typed, CallerOK
<1>3. n \in 1 .. Rows /\ Len(slots) < Rows
  BY <1>0, <1>1, <1>2 DEF CallerOK
<1>4. t \in Tasks /\ task[t].pc = "new"
  BY <1>0, <1>1, <1>2, <1>3 DEF CallerOK, Tasks
<1>5. /\ task' \in [Tasks -> State]
      /\ task'[t].pc = "queued" /\ task'[t].permit = task[t].permit /\ task'[t].result = task[t].result
      /\ \A u \in Tasks : u # t => task'[u] = task[u]
  BY <1>0, <1>4, StepFrame
<1>6. /\ caller'[b] = IF n = Rows THEN "collect" ELSE "submit"
      /\ \A c \in Batches : c # b => caller'[c] = caller[c]
      /\ caller' \in [Batches -> {"idle", "submit", "collect", "drain", "returned", "raised"}]
  BY <1>0 DEF Inv, Typed
<1>7. slots' \in Seq(Tasks) /\ Len(slots') = n /\ queue' \in Seq(Tasks) /\ Len(queue') = Len(queue) + 1
      /\ \A k \in 1 .. Len(queue') : queue'[k] = IF k = Len(queue) + 1 THEN t ELSE queue[k]
  BY <1>0, <1>2, <1>4
<1> HIDE DEF t
<1>8. Typed'
  BY <1>5, <1>6, <1>7 DEF Typed
<1>9. QueueOK'
  <2>1. \A k \in 1 .. Len(queue') : k # Len(queue) + 1 => k \in 1 .. Len(queue) /\ queue'[k] = queue[k]
    BY <1>2, <1>7
  <2>2. \A k \in 1 .. Len(queue) : queue[k] \in Tasks /\ queue[k] # t /\ task[queue[k]].pc = "queued"
    BY <1>2, <1>4 DEF Inv, QueueOK
  <2>3. \A k \in 1 .. Len(queue') : task'[queue'[k]].pc = "queued"
    BY <1>5, <1>7, <2>1, <2>2
  <2>4. \A j, k \in 1 .. Len(queue') : queue'[j] = queue'[k] => j = k
    BY <1>7, <2>1, <2>2 DEF Inv, QueueOK
  <2> QED
    BY <2>3, <2>4 DEF QueueOK
<1>10. TasksOK'
  BY <1>4, <1>5 DEF Inv, TasksOK
<1>11. \A c \in Batches, i \in 1 .. Rows :
          (c # b \/ i > n) => task'[<<c, i>>] = task[<<c, i>>]
  BY <1>2, <1>5 DEF Tasks, t
<1>12. CallerOK(b)'
  <2>1. n # Rows => Len(slots') < Rows
    BY <1>2, <1>3, <1>7
  <2>2. \A i \in 1 .. Rows : i > Len(slots') => task'[<<b, i>>].pc = "new"
    <3> TAKE i \in 1 .. Rows
    <3> HAVE i > Len(slots')
    <3>1. i > n /\ i > Len(slots)
      BY <1>2, <1>7
    <3> QED
      BY <1>0, <1>1, <1>11, <3>1 DEF CallerOK
  <2> QED
    BY <1>0, <1>1, <1>6, <1>7, <2>1, <2>2 DEF CallerOK
<1>13. CallersOK'
  BY <1>0, <1>1, <1>6, <1>11, <1>12, OtherCallers
<1>14. Inv'
  BY <1>8, <1>9, <1>10, <1>13 DEF Inv
<1>15. \A u \in Tasks : task'[u].pc \in {"gate", "call"} <=> task[u].pc \in {"gate", "call"}
  BY <1>4, <1>5
<1> QED
  BY <1>0, <1>14, <1>15, PermitsKept

\* The rows of a batch that have not been submitted.
Rest(b, t) == t[1] = b /\ t[2] > Len(slots)

\* What Submit does to the tasks when the pool is closed.
LEMMA ClosedTasks ==
    ASSUME Inv, NEW b \in Batches, Submit(b), closed
    PROVE  /\ task' \in [Tasks -> State]
           /\ \A t \in Tasks : Rest(b, t) => /\ task'[t].pc = "collected" /\ task'[t].result = "stopped"
                                             /\ task'[t].permit = task[t].permit
           /\ \A t \in Tasks : ~Rest(b, t) => task'[t] = task[t]
<1>1. caller[b] = "submit"
  BY Zenon DEF Submit
<1>2. slots \in Seq(Tasks)
  BY <1>1 DEF Inv, CallersOK, CallerOK
<1>3. Len(slots) \in Nat
  BY <1>2
<1>4. \A t \in Tasks : Rest(b, t) <=> (t[1] = b /\ t[2] >= Len(slots) + 1)
  BY <1>3 DEF Rest, Tasks
<1>5. task' = [t \in Tasks |-> IF t[1] = b /\ t[2] >= Len(slots) + 1
                               THEN [task[t] EXCEPT !.pc = "collected", !.result = "stopped"] ELSE task[t]]
  BY Zenon DEF Submit
<1>6. \A t \in Tasks : task'[t] = IF Rest(b, t) THEN [task[t] EXCEPT !.pc = "collected", !.result = "stopped"]
                                  ELSE task[t]
  BY <1>4, <1>5, Zenon
<1>7. DOMAIN task' = Tasks /\ task' = [t \in Tasks |-> task'[t]]
  BY <1>5, Zenon
<1>8. ASSUME NEW t \in Tasks
      PROVE  /\ task'[t] \in State
             /\ Rest(b, t) => /\ task'[t].pc = "collected" /\ task'[t].result = "stopped"
                              /\ task'[t].permit = task[t].permit
             /\ ~Rest(b, t) => task'[t] = task[t]
  <2>1. task[t] \in State
    BY DEF Inv, Typed
  <2>2. CASE Rest(b, t)
    <3>1. task'[t] = [task[t] EXCEPT !.pc = "collected", !.result = "stopped"]
      BY <1>6, <2>2, Zenon
    <3> QED
      BY <2>1, <2>2, <3>1, Zenon DEF State, Results
  <2>3. CASE ~Rest(b, t)
    BY <1>6, <2>1, <2>3, Zenon
  <2> QED
    BY <2>2, <2>3
<1> QED
  BY <1>7, <1>8

\* They were new, so none of them is queued or holds a permit.
LEMMA RestIsNew ==
    ASSUME Inv, NEW b \in Batches, caller[b] = "submit", NEW t \in Tasks, Rest(b, t)
    PROVE  task[t].pc = "new" /\ task[t].permit = FALSE
<1>1. t = <<b, t[2]>> /\ t[2] \in 1 .. Rows /\ t[2] > Len(slots)
  BY DEF Tasks, Rest
<1>2. task[t].pc = "new"
  BY <1>1 DEF Inv, CallersOK, CallerOK
<1>3. task[t].permit \in BOOLEAN
  BY DEF Inv, Typed, State
<1> QED
  BY <1>2, <1>3 DEF Inv, TasksOK

\* The pool is closed: the rows that are left complete with an error.
LEMMA SubmitClosed ==
    ASSUME Inv, Permits, NEW b \in Batches, Submit(b), closed
    PROVE  Inv' /\ Permits'
<1>0. /\ caller[b] = "submit" /\ caller' = [caller EXCEPT ![b] = "collect"]
      /\ lock' = lock /\ queue' = queue /\ permits' = permits
  BY Zenon DEF Submit
<1>1. lock = b
  BY <1>0 DEF Inv, CallersOK, CallerOK
<1>2. \A t \in Tasks : Rest(b, t) => task[t].pc = "new" /\ task[t].permit = FALSE
  BY <1>0, RestIsNew, Zenon
<1>3. /\ task' \in [Tasks -> State]
      /\ \A t \in Tasks : Rest(b, t) => /\ task'[t].pc = "collected" /\ task'[t].result = "stopped"
                                        /\ task'[t].permit = task[t].permit
      /\ \A t \in Tasks : ~Rest(b, t) => task'[t] = task[t]
  BY ClosedTasks
<1>4. caller'[b] = "collect" /\ \A c \in Batches : c # b => caller'[c] = caller[c]
  BY <1>0 DEF Inv, Typed
<1>5. Typed'
  BY <1>0, <1>3 DEF Inv, Typed
<1>6. \A c \in Batches : c # b => \A i \in 1 .. Rows : task'[<<c, i>>] = task[<<c, i>>]
  BY <1>3 DEF Tasks, Rest
<1>7. QueueOK'
  <2>1. \A k \in 1 .. Len(queue) : queue[k] \in Tasks
    BY DEF Inv, Typed
  <2>2. \A u \in Tasks : task[u].pc = "queued" => task'[u] = task[u]
    BY <1>2, <1>3
  <2> QED
    BY <1>0, <2>1, <2>2 DEF Inv, QueueOK
<1>8. TasksOK'
  BY <1>2, <1>3 DEF Inv, TasksOK
<1>9. CallerOK(b)'
  BY <1>0, <1>1, <1>4 DEF CallerOK
<1>10. CallersOK'
  BY <1>0, <1>1, <1>4, <1>6, <1>9, OtherCallers
<1>11. Inv'
  BY <1>5, <1>7, <1>8, <1>10 DEF Inv
<1>12. \A u \in Tasks : task'[u].pc \in {"gate", "call"} <=> task[u].pc \in {"gate", "call"}
  BY <1>2, <1>3
<1> QED
  BY <1>0, <1>11, <1>12, PermitsKept

\* A finished row is collected.
LEMMA CollectStep ==
    ASSUME Inv, Permits, NEW b \in Batches, NEW i \in 1 .. Rows, Collect(b, i)
    PROVE  Inv' /\ Permits'
<1> DEFINE t == <<b, i>>
<1>0. /\ caller[b] = "collect" /\ task[t].pc = "done" /\ task[t].result # "raise" /\ Step(t, "collected")
      /\ UNCHANGED <<caller, lock, queue, permits, slots>>
  BY DEF Collect
<1>1. t \in Tasks /\ lock = b
  BY <1>0 DEF Tasks, Inv, CallersOK, CallerOK
<1>2. /\ task' \in [Tasks -> State]
      /\ task'[t].pc = "collected" /\ task'[t].permit = task[t].permit /\ task'[t].result = task[t].result
      /\ \A u \in Tasks : u # t => task'[u] = task[u]
  BY <1>0, <1>1, StepFrame
<1>3. \A c \in Batches : c # b => \A j \in 1 .. Rows : task'[<<c, j>>] = task[<<c, j>>]
  BY <1>2 DEF Tasks
<1> HIDE DEF t
<1>4. Typed'
  BY <1>0, <1>2 DEF Inv, Typed
<1>5. QueueOK'
  BY <1>0, <1>2 DEF Inv, QueueOK, Typed
<1>6. TasksOK'
  BY <1>0, <1>1, <1>2 DEF Inv, TasksOK
<1>7. CallerOK(b)'
  BY <1>0, <1>1 DEF CallerOK
<1>8. CallersOK'
  BY <1>0, <1>1, <1>3, <1>7, OtherCallers
<1>9. Inv'
  BY <1>4, <1>5, <1>6, <1>8 DEF Inv
<1>10. \A u \in Tasks : task'[u].pc \in {"gate", "call"} <=> task[u].pc \in {"gate", "call"}
  BY <1>0, <1>1, <1>2
<1> QED
  BY <1>0, <1>9, <1>10, PermitsKept

\* A queued row of a failed batch is cancelled and leaves the queue.
LEMMA CancelStep ==
    ASSUME Inv, Permits, NEW b \in Batches, NEW i \in 1 .. Rows, Cancel(b, i)
    PROVE  Inv' /\ Permits'
<1> DEFINE t == <<b, i>>
<1>0. /\ caller[b] = "drain" /\ task[t].pc = "queued" /\ Step(t, "cancelled")
      /\ UNCHANGED <<caller, lock, permits, slots>>
  BY DEF Cancel, batch
<1>1. t \in Tasks /\ lock = b
  BY <1>0 DEF Tasks, Inv, CallersOK, CallerOK
<1>2. /\ task' \in [Tasks -> State]
      /\ task'[t].pc = "cancelled" /\ task'[t].permit = task[t].permit /\ task'[t].result = task[t].result
      /\ \A u \in Tasks : u # t => task'[u] = task[u]
  BY <1>0, <1>1, StepFrame
<1>3. \A c \in Batches : c # b => \A j \in 1 .. Rows : task'[<<c, j>>] = task[<<c, j>>]
  BY <1>2 DEF Tasks
<1>4. PICK k \in 1 .. Len(queue) :
         queue[k] = t /\ queue' = SubSeq(queue, 1, k - 1) \o SubSeq(queue, k + 1, Len(queue))
  BY Zenon DEF Cancel
<1>5. queue \in Seq(Tasks) /\ Len(queue) \in Nat
  BY DEF Inv, Typed
<1> DEFINE from(j) == IF j < k THEN j ELSE j + 1
<1>6. /\ queue' \in Seq(Tasks) /\ Len(queue') = Len(queue) - 1
      /\ \A j \in 1 .. Len(queue') : queue'[j] = queue[from(j)]
  <2> DEFINE before == SubSeq(queue, 1, k - 1)
             after == SubSeq(queue, k + 1, Len(queue))
  <2>0. k \in Nat /\ k >= 1 /\ k <= Len(queue) /\ \A j \in 1 .. Len(queue) : queue[j] \in Tasks
    BY <1>5
  <2>1. before \in Seq(Tasks) /\ Len(before) = k - 1 /\ \A j \in 1 .. k - 1 : before[j] = queue[j]
    BY <1>5, <2>0
  <2>2. /\ after \in Seq(Tasks) /\ Len(after) = Len(queue) - k
        /\ \A j \in 1 .. Len(queue) - k : after[j] = queue[j + k]
    BY <1>5, <2>0
  <2> HIDE DEF before, after
  <2>3. /\ before \o after \in Seq(Tasks)
        /\ Len(before \o after) = Len(before) + Len(after)
        /\ \A j \in 1 .. Len(before) + Len(after) :
              (before \o after)[j] = IF j <= Len(before) THEN before[j] ELSE after[j - Len(before)]
    BY <2>1, <2>2, ConcatProperties, Zenon
  <2>4. queue' = before \o after
    BY <1>4 DEF before, after
  <2>5. queue' \in Seq(Tasks) /\ Len(queue') = Len(queue) - 1
    BY <1>5, <2>0, <2>1, <2>2, <2>3, <2>4
  <2>6. ASSUME NEW j \in 1 .. Len(queue') PROVE queue'[j] = queue[from(j)]
    <3>1. CASE j < k
      BY <1>5, <2>0, <2>1, <2>2, <2>3, <2>4, <2>5, <3>1
    <3>2. CASE ~(j < k)
      <4>1. j - Len(before) \in 1 .. Len(queue) - k /\ (j - Len(before)) + k = j + 1
        BY <1>5, <2>0, <2>1, <2>5, <3>2
      <4>2. queue'[j] = after[j - Len(before)]
        BY <1>5, <2>0, <2>1, <2>2, <2>3, <2>4, <2>5, <3>2
      <4> QED
        BY <2>2, <3>2, <4>1, <4>2, Zenon
    <3> QED
      BY <3>1, <3>2
  <2> QED
    BY <2>5, <2>6
<1>7. /\ \A j \in 1 .. Len(queue') : from(j) \in 1 .. Len(queue) /\ from(j) # k
      /\ \A j, l \in 1 .. Len(queue') : from(j) = from(l) => j = l
  BY <1>5, <1>6
<1> HIDE DEF t, from
<1>8. Typed'
  BY <1>0, <1>2, <1>6 DEF Inv, Typed
<1>9. QueueOK'
  <2>1. \A j \in 1 .. Len(queue) : queue[j] \in Tasks /\ task[queue[j]].pc = "queued" /\ (j # k => queue[j] # t)
    BY <1>4, <1>5 DEF Inv, QueueOK
  <2>2. \A j \in 1 .. Len(queue') : task'[queue'[j]].pc = "queued"
    BY <1>2, <1>6, <1>7, <2>1
  <2>3. \A j, l \in 1 .. Len(queue') : queue'[j] = queue'[l] => from(j) = from(l)
    BY <1>6, <1>7 DEF Inv, QueueOK
  <2> QED
    BY <1>7, <2>2, <2>3 DEF QueueOK
<1>10. TasksOK'
  BY <1>0, <1>1, <1>2 DEF Inv, TasksOK
<1>11. CallerOK(b)'
  BY <1>0, <1>1 DEF CallerOK
<1>12. CallersOK'
  BY <1>0, <1>1, <1>3, <1>11, OtherCallers
<1>13. Inv'
  BY <1>8, <1>9, <1>10, <1>12 DEF Inv
<1>14. \A u \in Tasks : task'[u].pc \in {"gate", "call"} <=> task[u].pc \in {"gate", "call"}
  BY <1>0, <1>1, <1>2
<1> QED
  BY <1>0, <1>13, <1>14, PermitsKept

\* The steps of a caller that leave the tasks alone.
LEMMA CallerSteps ==
    ASSUME Inv, Permits, NEW b \in Batches,
           (\E i \in 1 .. Rows : Fail(b, i)) \/ Raise(b) \/ Return(b)
    PROVE  Inv' /\ Permits'
<1>0. /\ caller[b] \in {"collect", "drain"} /\ UNCHANGED <<queue, task, permits>>
      /\ \E s \in {"drain", "raised", "returned"} :
            /\ caller' = [caller EXCEPT ![b] = s]
            /\ lock' = IF s = "drain" THEN lock ELSE 0
            /\ s = "raised" => \A i \in 1 .. Rows : task[<<b, i>>].pc \in Ended
            /\ s = "returned" => \A i \in 1 .. Rows : task[<<b, i>>].pc = "collected"
  BY Zenon DEF Fail, Raise, Return, Ended
<1>1. PICK s \in {"drain", "raised", "returned"} :
            /\ caller' = [caller EXCEPT ![b] = s]
            /\ lock' = IF s = "drain" THEN lock ELSE 0
            /\ s = "raised" => \A i \in 1 .. Rows : task[<<b, i>>].pc \in Ended
            /\ s = "returned" => \A i \in 1 .. Rows : task[<<b, i>>].pc = "collected"
  BY <1>0, Zenon
<1>2. caller'[b] = s /\ \A c \in Batches : c # b => caller'[c] = caller[c]
  BY <1>1 DEF Inv, Typed
<1>3. lock = b /\ b # 0
  BY <1>0, NoCallerIsZero DEF Inv, CallersOK, CallerOK
<1>4. Typed'
  BY <1>0, <1>1 DEF Inv, Typed
<1>5. QueueOK' /\ TasksOK'
  BY <1>0 DEF Inv, QueueOK, TasksOK
<1>6. CallerOK(b)'
  BY <1>0, <1>1, <1>2, <1>3 DEF CallerOK
<1>7. CallersOK'
  BY <1>0, <1>1, <1>2, <1>3, <1>6, OtherCallers
<1>8. Inv'
  BY <1>4, <1>5, <1>7 DEF Inv
<1> QED
  BY <1>0, <1>8, PermitsKept

\* The invariant, and the permits, hold at the start and after every step.
THEOREM PoolInvariance == Spec => [](Inv /\ Permits)
<1>1. Init => Inv /\ Permits
  <2> SUFFICES ASSUME Init PROVE Inv /\ Permits
    OBVIOUS
  <2> DEFINE r == [pc |-> "new", result |-> "none", retry |-> FALSE, expired |-> FALSE, permit |-> FALSE]
  <2>1. r \in State /\ r.pc = "new" /\ r.permit = FALSE
    BY DEF State, Results
  <2>2. task = [t \in Tasks |-> r]
    BY DEF Init
  <2> HIDE DEF r
  <2>3. Typed /\ QueueOK /\ TasksOK
    <3>1. caller = [b \in Batches |-> "idle"] /\ queue = <<>>
      BY DEF Init
    <3>2. \A t \in Tasks : task[t] = r
      BY <2>2
    <3>3. Typed
      BY <2>1, <2>2, <3>1 DEF Typed
    <3>4. QueueOK
      BY <3>1 DEF QueueOK
    <3>5. TasksOK
      BY <2>1, <3>2 DEF TasksOK
    <3> QED
      BY <3>3, <3>4, <3>5
  <2>4. \A b \in Batches, i \in 1 .. Rows : task[<<b, i>>].pc = "new"
    BY <2>1, <2>2 DEF Tasks
  <2>5. CallersOK
    BY <2>4, NoCallerIsZero, Zenon DEF Init, CallersOK, CallerOK
  <2>6. {t \in Tasks : task[t].permit} = {}
    BY <2>1, <2>2
  <2>7. PermitsAreConserved
    <3>1. permits = PoolSize /\ PoolSize \in Nat /\ Cardinality({}) = 0
      BY FS_EmptySet, PoolAssumption DEF Init
    <3> QED
      BY <2>6, <3>1 DEF PermitsAreConserved
  <2> QED
    BY <2>3, <2>5, <2>7, PoolAssumption DEF Inv, Permits, Init
<1>2. Inv /\ Permits /\ [Next]_vars => (Inv /\ Permits)'
  <2> SUFFICES ASSUME Inv, Permits, [Next]_vars PROVE Inv' /\ Permits'
    OBVIOUS
  <2>1. ASSUME NEW b \in Batches, Begin(b) PROVE Inv' /\ Permits'
    BY <2>1, BeginStep
  <2>2. ASSUME NEW b \in Batches, Submit(b) PROVE Inv' /\ Permits'
    BY <2>2, SubmitOpen, SubmitClosed
  <2>3. ASSUME NEW b \in Batches, NEW i \in 1 .. Rows, Collect(b, i) PROVE Inv' /\ Permits'
    BY <2>3, CollectStep
  <2>4. ASSUME NEW b \in Batches, NEW i \in 1 .. Rows, Cancel(b, i) PROVE Inv' /\ Permits'
    BY <2>4, CancelStep
  <2>5. ASSUME NEW b \in Batches, (\E i \in 1 .. Rows : Fail(b, i)) \/ Raise(b) \/ Return(b)
        PROVE  Inv' /\ Permits'
    BY <2>5, CallerSteps
  <2>6. ASSUME NEW t \in Tasks, Start(t) PROVE Inv' /\ Permits'
    BY <2>6, StartStep
  <2>7. ASSUME NEW t \in Tasks, Acquire(t) \/ Gate(t) \/ Answer(t) \/ Capacity(t) \/ Wake(t) \/ Expire(t)
        PROVE  Inv' /\ Permits'
    BY <2>7, WorkSteps
  <2>8. CASE UNCHANGED <<caller, lock, slots, queue, task, permits>>
    <3>1. Typed' /\ QueueOK' /\ TasksOK'
      BY <2>8 DEF Inv, Typed, QueueOK, TasksOK
    <3>2. CallersOK'
      BY <2>8 DEF Inv, CallersOK, CallerOK
    <3> QED
      BY <2>8, <3>1, <3>2 DEF Inv, Permits, PermitsAreConserved
  <2>9. CASE Shutdown \/ ClosePool \/ UNCHANGED vars
    BY <2>8, <2>9 DEF Shutdown, ClosePool, vars, batch
  <2> QED
    BY <2>1, <2>2, <2>3, <2>4, <2>5, <2>6, <2>7, <2>9 DEF Next, Call, Work
<1> QED
  BY <1>1, <1>2, PTL DEF Spec

\* A batch that has returned or raised has no row in the queue or on a thread, so no
\* late call is made and no late result meets the next batch's buffer.
THEOREM NothingLeftBehind == Spec => []NoStragglers
<1>1. Inv => NoStragglers
  <2> SUFFICES ASSUME Inv, NEW t \in Tasks, caller[t[1]] \in {"returned", "raised"}
               PROVE  ~Running(t) /\ \A k \in 1 .. Len(queue) : queue[k] # t
    BY DEF NoStragglers
  <2>1. t[1] \in Batches /\ t[2] \in 1 .. Rows /\ t = <<t[1], t[2]>>
    BY DEF Tasks
  <2>2. task[t].pc \in Ended
    BY <2>1 DEF Inv, CallersOK, CallerOK, Ended
  <2> QED
    BY <2>2 DEF Inv, QueueOK, Running, Ended
<1> QED
  BY <1>1, PoolInvariance, PTL

\* No batch returns with a row whose call raised an unexpected error.
THEOREM NoErrorSwallowed == Spec => []FatalIsRaised
<1>1. Inv => FatalIsRaised
  <2> SUFFICES ASSUME Inv, NEW t \in Tasks, caller[t[1]] = "returned" PROVE task[t].result # "raise"
    BY DEF FatalIsRaised
  <2>1. t[1] \in Batches /\ t[2] \in 1 .. Rows /\ t = <<t[1], t[2]>>
    BY DEF Tasks
  <2>2. task[t].pc = "collected"
    BY <2>1 DEF Inv, CallersOK, CallerOK
  <2> QED
    BY <2>2 DEF Inv, TasksOK
<1> QED
  BY <1>1, PoolInvariance, PTL

\* Over retries, time-outs, cancellations and errors the permits and the tasks that
\* hold one add up to the pool's size.
THEOREM NoPermitLost == Spec => []PermitsAreConserved
<1>1. Permits => PermitsAreConserved
  BY DEF Permits
<1> QED
  BY <1>1, PoolInvariance, PTL
================================================================================
