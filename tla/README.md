# Elspeth: TLA+ verification of the run engine

Elspeth executes a pipeline (sources, transforms, gates, barriers, sinks) as a *run*. Several
processes may work on one run: one leader and any number of followers. All that they share is
the Landscape database. This directory models that shared state and how the processes change
it, the barriers and sink effects built on it, and the three places where one process runs
several threads. TLC checks the models and TLAPS proves part of what it checks. Source paths below are relative to
`src/src/elspeth/`.

## Inventory

| Part | State | Operations that change it | Where |
|---|---|---|---|
| Run coordination | leader seat with its epoch and deadline, worker registry, tokens held by value | acquire, release, heartbeat, admit, depart, evict, fenced write | `core/landscape/run_coordination_repository.py` |
| Run lifecycle | run status, resume point | begin, complete, abandonment sweep, resume | `core/landscape/run_lifecycle_repository.py`, `engine/orchestrator/` |
| Token scheduler | `token_work_items`: status, owner, lease, attempt | ingest, claim, renew, dispose, recover, requeue | `core/landscape/scheduler/`, `engine/scheduler_drain.py` |
| Token outcomes | tokens, parents, `token_outcomes` | fork, mint, record, abandon | `core/landscape/data_flow/` |
| Barriers | BLOCKED rows; groups and triggers in memory | adopt, fire, time out, lose a branch, restore | `engine/barrier_coordination.py`, `engine/coalesce_executor.py`, `engine/triggers.py`, `engine/journal_restore.py` |
| Sink effects | effects, members, attempts, leases, stream heads | reserve, plan, attempt, reconcile, take over, finalize | `engine/executors/sink_effects.py`, `core/landscape/execution/sink_effect_*.py` |
| Row batching, pooling | reorder buffers, permits, delay | submit, complete, evict, release, shut down | `plugins/infrastructure/batching/`, `plugins/infrastructure/pooling/` |
| Telemetry | bounded queue, breaker per exporter | enqueue, export, flush, close | `telemetry/` |
| Run start | admission row | prepare, reset, mark executing | `core/landscape/run_start_admission.py` |
| Front ends, plugins, configuration | none shared with the engine's protocols | | `cli.py`, `web/`, `mcp/`, `plugins/`, `core/dag/` |

What is hard here: a suspended process that wakes after it was replaced; leases and seats that
expire on a clock nobody stops; a crash between two transactions that belong together; work
requeued by recovery while its former owner goes on; finalization while others are in the middle
of something; threads that meet at a buffer, a queue or a semaphore while one of them gives up.
`PROJECT.json` lists these hazards at their lines.

## Modules

| Module | Models |
|---|---|
| `FencedSeat` | abstract: one holder, a fresh epoch per grant, no identity returns |
| `RunCoordination` | the seat, the registry, the run's status and the tokens, one action per transaction |
| `TokenLedger` | abstract: each token is admitted once and gets one final fate |
| `TokenScheduler` | the work journal; extends `RunCoordination` |
| `SinkDelivery` | abstract: the leader in charge publishes a token at most once, and before its outcome says so |
| `SinkEffects` | publication to a sink: effects, leases, attempts, requests on the wire, the target |
| `CoalescePolicy` | `decide_coalesce`, the verdict of the four policies, as operators |
| `Coalesce` | the coalesce barrier: arrivals, losses, verdicts, their transactions, crash and restore |
| `AggregationTrigger` | when a batch is flushed: count, timeout, condition, poll, end of input, restore |
| `Aggregation` | what a flush does to its batch, transaction by transaction, and the recovery of a resume |
| `RowBatching` | worker threads behind a transform, its reorder buffer and its release thread |
| `PooledExecutor` | a batch on a thread pool with permits, retries, cancellation and shutdown |
| `TelemetryQueue` | the bounded event queue, the export thread, flush and close |
| `MCTokenScheduler`, `MCSinkEffects`, `MCAggregationTrigger`, `MCAggregation` | constants of instances for TLC |
| `RunCoordinationProofs` | theorems about `RunCoordination` |
| `TokenSchedulerProofs` | the journal's inductive invariant and theorems about `TokenScheduler` |
| `SinkEffectsInvariant`, `SinkEffectsProofs` | the inductive invariant of `SinkEffects`, and the theorems that follow from it |
| `AggregationProofs` | theorems about `Aggregation` |
| `RowBatchingProofs`, `PooledExecutorProofs`, `TelemetryQueueProofs` | theorems about the three modules with threads |

How they fit together: a token's work item (`TokenScheduler`) is claimed, traversed and disposed of.
If the disposition is a barrier hold, `Coalesce` or `Aggregation` says what the leader makes of it;
if it is a sink handoff, `SinkEffects` says how it reaches the target. `RowBatching` and
`PooledExecutor` are what a transform may do inside one traversal. Only `RunCoordination` and
`TokenScheduler` are composed in one state space; the barrier and sink modules see the seat as the
epoch they run under (a change of leader is one action of theirs), and say in their header what
that rests on.

**Granularity.** Every write verb runs in one transaction that takes the database's write lock
first, so it is one action. A transaction whose fence or compare-and-set misses rolls back: the
action is not enabled. Between transactions a process keeps only what it holds by value: its
token (`token`), the claim it is traversing (`claim`), and what it is doing (`mode`).

In `Coalesce` and `Aggregation` the leader is one thread that has several transactions to make for
one decision. They stand on its `agenda`; one action takes the first, and a crash may come between
any two. In the three modules with threads an action is what one thread does under one lock, or one
atomic call of `queue.Queue`, a semaphore or an executor.

**Time.** In the coordination and scheduler modules deadlines are compared with the database clock only. A deadline is the time left until
it, and `Tick` lowers all of them together. Below `-Horizon` times are not told apart; `Horizon`
exceeds every grace and budget the code subtracts. `AggregationTrigger` has a clock, since latches
record instants. Elsewhere a timeout is an action that may come at any time.

**Composition.** `CompleteRun` and `EvictWorker` ask the journal a question (is it quiescent, does
the follower hold an unexpired lease). `RunCoordination` alone allows both answers;
`TokenScheduler` passes `Quiescent` and `LiveLease`. `CompositionTheorem` proves that the composed
system implements the component, so the component's theorems carry over.

**Stopping.** In these two modules a process that is suspended or killed is one that takes no more steps, which every
safety run already allows. `MayCrash` matters for liveness only, where a process must really stop.

### Correspondence with the code

`PROJECT.json` maps each definition to its lines. The points that need a word:

- `HoldsSeat` is `verify_and_extend_leader_fence`: it compares run, worker and epoch and never the
  deadline. A leader whose seat has lapsed, and that nobody replaced, still passes.
- `WorkerHeartbeat` renews the seat by identity alone. `SeatMatchesRegistry` is why that is safe.
- `MarkPendingSinkTerminal` asks for recorded outcomes, which the verb itself does not check: the sink flush
  calls it after the outcomes are durable (`engine/orchestrator/sink_flush.py:85`).
- `HoldsClaim` is the compare-and-set of a disposition. The work item's id contains the attempt,
  hence the comparison of attempts.
- `Reapable` and `OwnerDead` are the conditions in `_rotate_expired_leases`; the caller's own leases
  are left out, as there.
- `FailClaim` is the drain's exception arm, `AbandonClaim` the arms that leave the row alone.
- `resumable` stands for what resume checks before it takes the seat: all sources complete and a
  checkpoint saved. `complete_run` uses the same test to decide on the abandonment sweep.
- `SinkEffects.Land` is external: a request that was sent reaches the target at any later time, even
  after its sender was deposed. The safety properties hold also if it never does. `started_at` of an attempt is its process's clock, so it
  carries `Skew[epoch]`.
- `SinkEffects.CloseAbandoned` is one transaction per open attempt in the code. There is never more than one:
  a coordinator closes what it finds before it begins another.
- `Coalesce.restore_from_journal` rebuilds the groups from the journal and the node states only, as
  `engine/journal_restore.py` does: a group that left no trace there is forgotten.
- `Coalesce.Unmergeable` fails a group that its policy would merge: `select` is the branch a select merge
  needs, and `clash` picks in `Init` the groups whose branches a union cannot merge. `MergeRaises` is any
  other exception of the merge.
- In `AggregationTrigger` a condition is the set of (count, age) pairs for which it is true, and
  the checkpoint keeps the fire offsets of the latest graceful stop.
- `Aggregation.handle_incomplete_batches` and `rebuild_batch` are the two halves of a resume: batches
  that were executing or failed are retried in the database first, memory is rebuilt from the held
  rows afterwards.
- `RowBatching` numbers attempts as the buffer numbers tickets. A retry of a row is a new attempt, as
  every call has its own state id.
- `PooledExecutor.Gate` has the checks on both sides of the dispatch gate in one step: nothing that
  others can see happens in between, and the wait may be of any length.
- `TelemetryQueue` models `_dropped_lock` where it spans several queue calls. What exporters answer to
  an event (delivered, failed, an exception that is no transport error) is a free choice.
- A definition marked `Faulty` is a plausible bug. It is used by nothing; substituted for the
  definition after it, it must break a property.

## Runs

| Run | Instance | Distinct states | Shows |
|---|---|---|---|
| `coordination` | 3 workers that may crash, 3 grants, window 1, grace 1 | 68,377 | epochs are exclusive; deposed leaders stay refused; implements `FencedSeat`; a dead leader's seat lapses |
| `scheduler` | 3 workers, a row and its product, 2 grants, 2 attempts | 281,266 | claims are exclusive; success is complete; stopped runs are closed; finished rows stay; implements `TokenLedger` |
| `scheduler_liveness` | 2 workers, one may crash | 91,587 | a dead worker's lease is recovered |
| `mint_window` | 2 workers, a row and its product | violation | see Findings |
| `sink_effects` | 2 tokens, 3 leaders, 2 effects, group and member commits | 114,352 | one publication in charge; reconcile before republish; implements `SinkDelivery`; an undisturbed leader settles everything |
| `row_batching` | 4 attempts, buffer of 2 | 60,584 | workers keep their tickets; waiters get their own result; done rows are delivered; shutdown ends |
| `telemetry_queue` | 3 producers, queue of 2, 5 events, both modes | 204,379 | `join` counts open work; the export thread ends after close; flush returns |
| `pooled_executor` | 2 callers with 2 rows each, 2 threads | 40,533 | no straggler, no swallowed error, every batch ends |
| `coalesce` | a group of 3 branches, 4 policies, union and select merges, 2 crashes | 213,457 | merges are entitled; nothing is settled twice; committed merges are published; every token leaves |
| `merged_row_lost` | a group of 3 branches, `best_effort`, straight to a sink | violation | see Findings |
| `aggregation_trigger` | 3 rows, 3 settings, 4 instants, 2 stops; 4 rows, count only, 2 instants, 3 stops | 173,945 | the first trigger wins; expired batches are flushed; every row is flushed in the end |
| `aggregation` | 3 tokens, both output modes, batches that raise twice, 2 crashes | 573,554 | the plugin's answer is final; members leave with their output; resumes agree; every token leaves |

**Bounds.** Every bound is a constant.

- Three workers are a deposed leader, its successor and a follower; a third grant is a takeover after a
  takeover. Two attempts are the one a stale claimant holds and the one its replacement holds. A row
  with one product has forks, barrier products and the window between minting and emitting.
  `StallBudget = 0` lets every expired lease be taken, whether or not its owner is alive: more recoveries
  than with a budget, in fewer states. Both scheduler runs also pass with `StallBudget = 1` and `Horizon = 2`,
  where the owner's liveness decides (742,978 and 229,529 states, three to four minutes each);
  `mint_window` runs with these. Window and lease time are 0 in the
  scheduler runs: a deadline lapses at the next tick. The proofs show that none of these
  bounds matters for the properties they cover.
- Three leaders of `sink_effects` are one that loses an answer, one that reconciles and is replaced, and
  one that is left alone. Two tokens make a group that is refused in part and two effects in a row.
- Four attempts over a buffer of two fill it with an abandoned row and leave two to run after it.
- Five events, three producers and a queue of two have one producer making room while another waits
  for the lock and a third passed the shutdown check; the sentinel meets a full queue.
- Two rows on two threads are the one that raises and its sibling; two callers contend for the lock and
  the reorder buffer.
- Three branches and a quorum of two tell all policies apart. One group is enough for what happens to
  a group, and never evicts from the cache of closed groups (size 2). Two crashes put one inside the
  recovery from the other; the same holds in `aggregation` and, for stops, in `aggregation_trigger`. There,
  four rows and three stops are what it takes for offsets to outlive their batch: a batch restored full, a
  shutdown that saves its offset, the flush, and a crash over the next, smaller batch.
- `MaxFailed` ends the exceptions of the plugin, so that liveness asks for progress once they end. With 3 a
  batch and its retry may both raise. No step of `Aggregation` depends on both the output mode and `on_error`,
  so the run pairs them.

**Symmetry** is used over worker identities in the safety runs of the scheduler; all of them are treated
alike there.

**Deadlock** is not checked where the system may stop: all rows are through, the executor is closed, or
the leader is down for good with the bound on crashes reached.

**Fairness.** What the code's scheduling justifies, and no more:

- `RunCoordination.FairSpec` assumes only that the clock advances. `SchedFairSpec` adds that a traversal ends
  (weak; plugin calls return or raise) and that a leader which is again and again free of a claim runs
  lease recovery (strong): the drain runs maintenance every 64 iterations and while it waits for peers.
  `DeadWorkersLeaseIsRecovered` stops asking once the bound on attempts is reached or no leader drives
  the run.
- `SinkEffects`: the coordinator in charge goes on, leases expire, requests on the wire land. No leader is
  ever forced to come. `EventuallySettled` is asked of the last leader, and gives way where a target
  could not tell what it had applied: the code stops there for an operator.
- `RowBatching`: the orchestrator and the release thread run. Workers are not fair: a processor may hang.
- `PooledExecutor`: threads run, calls of the service return, a retry budget runs out. Nothing says that a
  capacity error ever goes away.
- `TelemetryQueue`: all threads run and exporters return. `FlushReturns` gives way to the death of the export
  thread; see the other disagreements below.
- `Coalesce`, `Aggregation`, `AggregationTrigger`: the leader's thread goes on, a stopped run is resumed, rows
  that were sent arrive, the clock advances. The source may stay idle. The liveness of `Coalesce` is asked
  of `require_all` and `quorum`; why not of the others is below.

## Findings

`mint_window` checks what the comment of `verify_resume_coverage` says
(`core/landscape/scheduler/leases.py:1020-1022`): a token with no work item has a producer whose work
is still open. TLC finds a state without one: a traversal commits its fork, then raises before its
item completes. The exception arm (`engine/scheduler_drain.py:707`) marks the item FAILED. The parent is
decided, so resume does not requeue it; the children have no item; the coverage check refuses every
later resume. Lines 889-891 of the same file say that crash timing must not change a row's outcome;
a hard kill at the same point is re-driven, an exception is not. In `engine/executors/gate.py` the
routing record is a write of its own right after the fork, so there is a step that can raise. That was
read from the code and model-checked; it was not reproduced by running the program.

`merged_row_lost` checks what `engine/processor.py:4768-4769` says: a crash after the branches are consumed
can no longer lose the merged output. When a branch lost in the leader's own claim completes a
`best_effort` group and no transform follows the coalesce, `engine/processor.py:3935` passes neither a merged
item nor a merged sink result to the release. The members are consumed and the merged token gets no
journal row. The intake path of the same merge passes the sink result
(`engine/barrier_coordination.py:1124`).

### Other disagreements met while modelling

These are corners where a comment or a document promises more than the code does. Each follows from
the model as it stands. A passing property excludes the corner by name where it would otherwise fail,
and its comment says so. None was reproduced by running the program.

- *Clocks of two leaders* (`engine/executors/sink_effects.py:1774`). A reconciliation is believed if its
  `started_at` is later than the lost commit's, and these are clocks of two processes.
  `docs/runbooks/sink-effect-recovery.md:80-83` warns that this order can invert. `sink_effects` runs with clocks that
  agree; with `Skew <- FastFirst` TLC reports `ReconcileBeforeRepublish` violated.
- *Late failures* (`plugins/infrastructure/batching/mixin.py:496`). A row that completes with an exception between
  the waiter's timeout and its eviction reaches nobody; lines 271 and 315-316 say that it is kept.
- *Flush after a programming error* (`telemetry/manager.py:255`). The export thread leaves its loop with
  events queued, and a flush waits for them for ever. `FlushReturns` excludes a dead export thread.
- *Uncounted events* (`telemetry/manager.py:765`). Events taken out for the sentinel, or held by a producer that
  finds the thread dead, are in no loss counter.
- *Groups that fail on losses alone* (`engine/coalesce_executor.py:1154`) leave no record. Once the cache entry is
  gone a late branch opens the group anew, although lines 792-793 call eviction harmless.
- *A late branch at a crash* (`engine/journal_restore.py:241`). Its hold was opened and not yet failed; the
  restore makes a pending group of it, which merges again. `Restorable` excludes `best_effort`, and a quorum of one, for it.
- *A complete group at a crash* (`engine/coalesce_executor.py:1484`). Nothing evaluates a restored group until its
  timeout or the flush, where `require_all` fails it; under `first` the policy raises
  (`engine/coalesce_policy.py:162`). `Restorable` excludes `first`.
- *A released row without outcome* (`engine/barrier_coordination.py:2377`). After a crash between the FAILED node
  state and the outcome, the restore releases the row and writes no outcome.
- *A batch restored full*. Its count trigger is dated to the first accept (`engine/triggers.py:425`) and the poll
  leaves it to the next adoption (`engine/orchestrator/aggregation.py:148`). `FirstToFireWins` and
  `ExpiredBatchFlushes` exclude restored batches to that extent.
- *Stale offsets* (`engine/triggers.py:395`). A count offset saved for an earlier batch makes the restore of a
  smaller one raise, on every resume. `ExpiredBatchFlushes` and `EveryRowIsFlushed` exclude a refused resume,
  and the run reaches it.
- *A violation recorded in part* (`engine/executors/batch_violation_outcomes.py:76`). A crash after the first of
  several outcomes leaves a batch that no resume accepts. `RefusedOnlyPartway` says that nothing else does, and
  `EveryTokenLeaves` gives way where resumes are refused for ever.

## Proofs

All theorems hold for every value of the constants that meets the named assumptions
(`WorkersAssumption`, `TimeAssumption`, `EpochAssumption`, `TokensAssumption`, `LeaseAssumption`,
`SkewAssumption`, `ResultsAreKnown`, `RowBatchingAssumption`, `PoolAssumption`, `QueueAssumption`): any number
of workers, tokens, grants and attempts, and any times; any number of effects, batches, crashes and retries;
any number of rows, callers, producers and threads, and any buffer size. Three theorems about sink effects
also assume `ClocksAgree`, in their statement.

**RunCoordination.** The inductive invariant joins the type invariant with the agreement of seat and
registry, exclusive epochs, the two clocks, the absence of followers on a terminal run and the purpose
of the token that leads. They need each other: a takeover evicts the prior leader *by identity*, which
clears every other leader row only because the registry had none. The action properties and the
refinement of `FencedSeat` follow from it, one case per action.

**TokenScheduler.** `SInv` joins that invariant with a *journal part* (rows follow tokens, forks are
whole, TERMINAL is decided, claim steps are recorded, claims are not ahead of their row, attempts are
exclusive) and a *control part* (a process that closed the run stays closed, the sweep is total,
unresumable runs are closed, success is complete, an absent run is empty). The argument has two halves.
Every step satisfies `Moves`, which says how outcome, row and claim of one token may move; the journal
part follows from `Moves` alone, so the many actions are looked at once. The control part is kept
because claimant and environment steps do not touch it, because a leader verb by a process that drives
implies a RUNNING run with nothing abandoned (`LeaderDrives`), and by cases over the entry points.
`SInv` was model-checked before it was proved. `LedgerTheorem` maps each step to a ledger step or a
stutter.

`LInv` adds to `SInv` that only a leased row has a deadline. `LeaseMove` says what a step may do to one
row's lease, and `EvictionStep` how a follower comes to be evicted. The passing of time leaves a finished row
alone because its deadline is already at the floor (`FinishedTheorem`). Only an active member gains a
lease, in a step that leaves the registry alone, and a takeover evicts a leader and never a follower
(`EvictedLeaseTheorem`).

**RowBatching.** The invariant joins the types with `CursorAtOldest`, the two properties it is for, and who
may still touch a ticket. A worker finds its ticket because release takes complete ones only, and an
evicted one is remembered until its worker is done. `SkipGapsStops` says where the cursor stops after an
eviction: at the least remaining ticket. That needs the least-element principle, taken from the
well-foundedness of the naturals. `ReleasedInOrder` states it for any number of tickets.

**PooledExecutor.** A pool thread starts whatever is at the queue's head, so a batch stays ended only
because the queue holds nothing but queued tasks, each once (`QueueOK`). A caller finds its rows new only
because one caller at a time has the lock (`CallersOK`). A permit is held exactly at the gate and during
the call (`TasksOK`), so the permits and the set of their holders change together (`PermitStep`). The
thread steps share one lemma, `ThreadStep`; the caller steps share `OtherCallers`. `NothingLeftBehind`,
`NoErrorSwallowed` and `NoPermitLost` follow.

**TelemetryQueue.** `JoinIsExact`: the count `join` waits on is that of the queued events, the one the
export thread has, and those the producer in charge of making room has taken out. It needs that only
the holder of the lock has taken anything out (`OnlyOwnerHolds`).

**SinkEffects.** `SinkInv` says what the coordinator knows at each of its steps, and that a result recorded of
an attempt is true of the target from then on; it needs nothing of the clocks. `FinalizedTheorem` follows
from it and two more facts, that a member adapter's reconciliation names no refused row (`Reconciled`) and
that a member diverted after the plan was refused there (`DivertedIsRefused`). That a unit is published once by a leader in charge is another matter. The code
believes NOT_APPLIED only of a reconciliation whose `started_at` is later than every lost commit's, and
those times may come from two hosts. `ClocksAgree` says that no later leader's clock is behind an earlier
one's. Then attempts are dated in the order they were begun (`InOrder`), a published unit has a commit later
than every such report (`HeldIsLater`), and the coordinator never commits a published unit (`CommitOnce`);
together with the property they are `OrderInv`, inductive relative to `SinkInv`. `OneHeldTheorem`,
`ReconcileTheorem` and the refinement `DeliveryTheorem` rest on it. The instance of `sink_effects` meets
`ClocksAgree`; nothing in the code enforces it.

**Aggregation.** A flush that died is retried by a new batch with the same members, so a token may be in many
batches and `AnsweredOnce` is far from inductive. `AggInv` is about the *ends* of the retry chains: they
share no member (`ChainInv`), a batch with a verdict is an end, at most one end without a verdict has
members that have not failed, and a leader that is up has that one in hand (`OpenInv`). `LeaderInv` ties the
agenda to the batch it is about. `LeftInv` compares each answered batch's row with where its members are.
That there is an end at all needs the greatest-element principle, again from well-foundedness.

**Only model-checked.** `Coalesce`, `CoalescePolicy` and `AggregationTrigger` have no proofs; nor have the
properties of the other modules that the theorems above do not name.
All liveness properties rest on TLC, since fairness and `ENABLED` are out of the prover's reach.

## What is not modelled

Within the modelled parts:

- *Scheduler*: a token that continues at a later node as a second row (it is a product here); the order in
  which READY rows are claimed; children emitted together with a park or a failure; the restart of a
  prepared run; the event logs, which no verb reads; the export status of a run.
- *Sink effects*: the inspection before a plan, failsink linkage, audit-export snapshots, the limit of 256
  effects in the predecessor walk.
- *Coalesce*: merged payloads and contracts, and groups nested in groups.
- *Aggregation*: several nodes, the window's metadata, the expression language of conditions.
- *Row batching and pooling*: the delays of the AIMD throttle and of the dispatch gate (waits of any length
  here), statistics, `flush_batch_processing`, which nothing calls.
- *Telemetry*: circuit breakers, batching exporters and their counters; granularity filters.

Not composed: barriers and sink effects with the journal of several workers. The product of the state
spaces is beyond TLC, and the modules meet at transactions that the leader's fence makes atomic.

Other parts have no module. They are in `PROJECT.json` with the reason: run start admission, row union and
collectors, checkpoints' sequence numbers, source iteration, rate limiting, exports and retention, DAG
construction, the web application, plugins and front ends. Most are sequential code over data, or
wrappers of I/O, where a state machine adds nothing to a test.

By lines the mapped code is between two and three percent of the repository. Its bulk is the web application,
vendor plugins, validation and tests; the protocols by which processes and threads share state, which
are what model checking is for, are a small part of it, and that part is what this project covers.
