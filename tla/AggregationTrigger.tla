-------------------------- MODULE AggregationTrigger --------------------------
(***************************************************************************)
(* The trigger of one aggregation node (engine/triggers.py) and the leader *)
(* that drives it: journal-first intake of the rows that workers blocked   *)
(* at the node, the poll before every source row and while the source is   *)
(* idle, the flush at end of input, and the rebuilding of the evaluator    *)
(* from the journal and the checkpoint when a run is resumed.              *)
(*                                                                         *)
(* Durable state: when a row was blocked (barrier_blocked_at), whether it  *)
(* is adopted, and the fire offsets of the latest checkpoint.  Memory: the *)
(* evaluator, the intake pass and the flag that the adoption just made     *)
(* still has its trigger check to come.  What a flush does to the batch is *)
(* the subject of Aggregation.                                             *)
(*                                                                         *)
(* A condition is the set of <<batch_count, batch_age>> for which it is    *)
(* true; a trigger that is not configured is one that cannot fire (a count *)
(* above the number of rows, a timeout above the horizon, the empty        *)
(* condition).  A row is its ingest sequence number.                       *)
(***************************************************************************)
EXTENDS Integers, Sequences, FiniteSets, SequencesExt, FiniteSetsExt

CONSTANTS
    Settings,      \* trigger settings: records [count, timeout, condition]
    Bounds,        \* per setting: the number of rows bound for the node, the
                   \* clock's horizon, how often the leader's process may stop
    Graceful       \* the ways it stops: TRUE a shutdown, FALSE a crash

ASSUME BoundsAreGiven ==
    /\ Bounds \in [Settings -> [rows : Nat, time : Nat, stops : Nat]]
    /\ Graceful \subseteq BOOLEAN

VARIABLES
    config,        \* the node's trigger settings
    now,           \* the clock; monotonic and database time share a scale
    blockedAt,     \* barrier_blocked_at of every row, None before
    status,        \* "source" | "blocked" | "adopted" | "flushed"
    scalars,       \* the latest checkpoint's fire offsets
    evaluator,     \* the leader's TriggerEvaluator
    pass,          \* rows the current intake pass has still to adopt
    due,           \* the last adoption still has its trigger check to come
    leader,        \* "up" | "down" | "refused" (a resume that raised)
    stops,
    restored,      \* ghost: the batch in memory came from a restore
    flush          \* ghost: the latest flush

journal == <<blockedAt, status, scalars>>
memory  == <<evaluator, pass, due, restored>>
vars    == <<config, now, journal, memory, leader, stops, flush>>

Rows     == DOMAIN status
MaxTime  == Bounds[config].time
MaxStops == Bounds[config].stops

None      == -1
NoOffsets == [count |-> None, condition |-> None]
held      == {r \in Rows : status[r] = "adopted"}
pending   == {r \in Rows : status[r] = "blocked"}

Fresh == [count |-> 0, first |-> None, times |-> <<>>,
          countAt |-> None, conditionAt |-> None, observed |-> FALSE]

\* The durable instant at which a condition first holds over the members in
\* arrival order, each prefix seen with its own count and age.
replay_condition_over_members(times) ==
    LET true == {k \in 1..Len(times) :
                    <<k, times[k] - times[1]>> \in config.condition}
    IN  IF true = {} THEN None ELSE times[Min(true)]

first_accept(e, t) == IF e.first = None \/ t < e.first THEN t ELSE e.first

\* Faulty: the latch is the instant of the accept that filled the batch.
count_latched_once(e, times, t) ==
    IF e.count + 1 < config.count \/ e.countAt # None THEN e.countAt ELSE t

count_latch(e, times, t) ==
    IF e.count + 1 < config.count THEN e.countAt
    ELSE IF Len(times) = e.count + 1 THEN times[config.count]
    ELSE IF e.countAt = None THEN t
    ELSE e.countAt

condition_latch(e, times, at, t) ==
    IF e.observed THEN e.conditionAt
    ELSE IF Len(times) = e.count + 1 /\ at < Len(times)
         THEN replay_condition_over_members(times)
    ELSE IF e.conditionAt # None THEN e.conditionAt
    ELSE IF <<e.count + 1, t - first_accept(e, t)>> \in config.condition THEN t
    ELSE None

record_accept(e, t) ==
    LET at    == 1 + Cardinality({i \in DOMAIN e.times : e.times[i] < t})
        times == InsertAt(e.times, at, t)
    IN  [e EXCEPT !.count = e.count + 1,
                  !.first = first_accept(e, t),
                  !.times = times,
                  !.countAt = count_latch(e, times, t),
                  !.conditionAt = condition_latch(e, times, at, t)]

\* An evaluation that sees the condition true for the first time latches it.
Sampled(e) ==
    IF /\ e.first # None /\ e.conditionAt = None
       /\ <<e.count, now - e.first>> \in config.condition
    THEN [e EXCEPT !.conditionAt = now, !.observed = TRUE]
    ELSE e

Candidates(e) ==
    [timeout   |-> IF e.first # None /\ now >= e.first + config.timeout
                   THEN e.first + config.timeout ELSE None,
     count     |-> e.countAt,
     condition |-> e.conditionAt]

\* Earliest fire time first; the order of the list breaks ties.
Earliest(fire) ==
    LET order == <<"timeout", "count", "condition">>
        fired == {i \in 1..3 : fire[order[i]] # None}
        wins  == {i \in fired : \A j \in fired :
                     \/ fire[order[i]] < fire[order[j]]
                     \/ fire[order[i]] = fire[order[j]] /\ i <= j}
    IN  IF fired = {} THEN "none" ELSE order[CHOOSE i \in wins : TRUE]

which_triggered(e) == Earliest(Candidates(e))

\* The offsets a checkpoint keeps of the evaluator.
get_barrier_scalars(e) ==
    [count     |-> IF e.countAt = None THEN None ELSE e.countAt - e.first,
     condition |-> IF e.conditionAt = None THEN None ELSE e.conditionAt - e.first]

\* Offsets that contradict the batch they are restored to raise.
OffsetsFit(n, elapsed) ==
    /\ scalars.count # None => scalars.count <= elapsed /\ n >= config.count
    /\ scalars.condition # None => scalars.condition <= elapsed

\* now - (now - oldest barrier_blocked_at)
restored_anchor(times) == Min(times)

restore_from_checkpoint(times, n) ==
    LET first == restored_anchor(times)
    IN  [count       |-> n,
         first       |-> first,
         times       |-> <<>>,
         countAt     |-> IF scalars.count # None THEN first + scalars.count
                         ELSE IF n >= config.count THEN first ELSE None,
         conditionAt |-> IF scalars.condition # None
                         THEN first + scalars.condition ELSE None,
         observed    |-> scalars.condition # None]

-------------------------------------------------------------------------------
Init ==
    /\ config \in Settings
    /\ now = 0
    /\ status = [r \in 1..Bounds[config].rows |-> "source"]
    /\ blockedAt = [r \in Rows |-> None]
    /\ scalars = NoOffsets
    /\ evaluator = Fresh /\ pass = <<>> /\ due = FALSE /\ restored = FALSE
    /\ leader = "up" /\ stops = 0
    /\ flush = [trigger |-> "none", rows |-> {}, at |-> 0, restored |-> FALSE]

Tick ==
    /\ now < MaxTime
    /\ now' = now + 1
    /\ UNCHANGED <<config, journal, memory, leader, stops, flush>>

\* Any worker brings a row to the barrier; a follower outlives its leader.
mark_blocked(r) ==
    /\ status[r] = "source"
    /\ status' = [status EXCEPT ![r] = "blocked"]
    /\ blockedAt' = [blockedAt EXCEPT ![r] = now]
    /\ UNCHANGED <<config, now, scalars, memory, leader, stops, flush>>

run_intake_pass ==
    /\ leader = "up" /\ pass = <<>> /\ ~due /\ pending # {}
    /\ pass' = SetToSortSeq(pending, <)
    /\ UNCHANGED <<config, now, journal, evaluator, due, restored, leader, stops, flush>>

adopt_aggregation_row ==
    /\ leader = "up" /\ pass # <<>> /\ ~due
    /\ status' = [status EXCEPT ![Head(pass)] = "adopted"]
    /\ evaluator' = record_accept(evaluator, blockedAt[Head(pass)])
    /\ pass' = Tail(pass)
    /\ due' = TRUE
    /\ UNCHANGED <<config, now, blockedAt, scalars, restored, leader, stops, flush>>

\* The batch leaves; its evaluator starts over.
FlushBatch(trigger) ==
    /\ status' = [r \in Rows |-> IF r \in held THEN "flushed" ELSE status[r]]
    /\ flush' = [trigger |-> trigger, rows |-> held, at |-> now,
                 restored |-> restored]
    /\ evaluator' = Fresh
    /\ restored' = FALSE

KeepBatch(e) ==
    /\ evaluator' = e
    /\ UNCHANGED <<status, flush, restored>>

\* The check that follows an adoption flushes for whatever trigger fired.
check_flush_status ==
    /\ leader = "up" /\ due
    /\ LET e == Sampled(evaluator)
       IN  IF which_triggered(e) = "none" THEN KeepBatch(e)
           ELSE FlushBatch(which_triggered(e))
    /\ due' = FALSE
    /\ UNCHANGED <<config, now, blockedAt, scalars, pass, leader, stops>>

\* Faulty: the poll acts on conditions only.
poll_conditions ==
    /\ leader = "up" /\ pass = <<>> /\ ~due
    /\ LET e == Sampled(evaluator)
       IN  IF which_triggered(e) = "condition" /\ held # {}
           THEN FlushBatch("condition")
           ELSE KeepBatch(e)
    /\ UNCHANGED <<config, now, blockedAt, scalars, pass, due, leader, stops>>

\* The poll before a row and while idle leaves a count trigger alone.
check_aggregation_timeouts ==
    /\ leader = "up" /\ pass = <<>> /\ ~due
    /\ LET e == Sampled(evaluator)
       IN  IF which_triggered(e) \in {"timeout", "condition"} /\ held # {}
           THEN FlushBatch(which_triggered(e))
           ELSE KeepBatch(e)
    /\ UNCHANGED <<config, now, blockedAt, scalars, pass, due, leader, stops>>

\* Faulty: the end of input flushes only a batch that has triggered.
flush_triggered_buffers ==
    /\ leader = "up" /\ pass = <<>> /\ ~due
    /\ held # {} /\ which_triggered(evaluator) # "none"
    /\ \A r \in Rows : status[r] \notin {"source", "blocked"}
    /\ FlushBatch("end_of_source")
    /\ UNCHANGED <<config, now, blockedAt, scalars, pass, due, leader, stops>>

flush_remaining_aggregation_buffers ==
    /\ leader = "up" /\ pass = <<>> /\ ~due
    /\ held # {}
    /\ \A r \in Rows : status[r] \notin {"source", "blocked"}
    /\ FlushBatch("end_of_source")
    /\ UNCHANGED <<config, now, blockedAt, scalars, pass, due, leader, stops>>

\* A crash stops the process anywhere.  A graceful shutdown stops it between
\* rows, and the checkpoint it writes keeps the evaluator's offsets.
Stop(graceful) ==
    /\ leader = "up" /\ stops < MaxStops
    /\ graceful => pass = <<>> /\ ~due
    /\ leader' = "down" /\ stops' = stops + 1
    /\ scalars' = IF graceful THEN get_barrier_scalars(evaluator) ELSE scalars
    /\ evaluator' = Fresh /\ pass' = <<>> /\ due' = FALSE /\ restored' = FALSE
    /\ UNCHANGED <<config, now, blockedAt, status, flush>>

restore_from_journal ==
    /\ leader = "down"
    /\ LET times == {blockedAt[r] : r \in held}
       IN  IF held = {}
           THEN leader' = "up" /\ evaluator' = Fresh /\ restored' = FALSE
           ELSE IF OffsetsFit(Cardinality(held), now - Min(times))
           THEN /\ leader' = "up" /\ restored' = TRUE
                /\ evaluator' = restore_from_checkpoint(times, Cardinality(held))
           ELSE leader' = "refused" /\ UNCHANGED <<evaluator, restored>>
    /\ UNCHANGED <<config, now, journal, pass, due, stops, flush>>

Next ==
    \/ Tick
    \/ \E r \in Rows : mark_blocked(r)
    \/ run_intake_pass
    \/ adopt_aggregation_row
    \/ check_flush_status
    \/ check_aggregation_timeouts
    \/ flush_remaining_aggregation_buffers
    \/ \E g \in Graceful : Stop(g)
    \/ restore_from_journal

Spec == Init /\ [][Next]_vars
\* The leader's single thread keeps going, a stopped run is resumed and the
\* clock advances; the source may stay idle for ever.
Progress ==
    /\ WF_vars(Tick)
    /\ WF_vars(run_intake_pass \/ adopt_aggregation_row \/ check_flush_status
                  \/ check_aggregation_timeouts \/ flush_remaining_aggregation_buffers)
    /\ WF_vars(restore_from_journal)

FairSpec == Spec /\ Progress

-------------------------------------------------------------------------------
\* Types.
TypeOK ==
    /\ config \in Settings /\ now \in 0..MaxTime /\ stops \in 0..MaxStops
    /\ blockedAt \in [Rows -> {None} \cup 0..MaxTime]
    /\ status \in [1..Bounds[config].rows -> {"source", "blocked", "adopted", "flushed"}]
    /\ leader \in {"up", "down", "refused"} /\ due \in BOOLEAN
    /\ evaluator.count \in 0..Cardinality(Rows)
    /\ {evaluator.first, evaluator.countAt, evaluator.conditionAt} \subseteq {None} \cup 0..MaxTime
    /\ flush.trigger \in {"none", "timeout", "count", "condition", "end_of_source"}

\* The trigger a set of members with their arrival times calls for at one
\* instant, computed from scratch.
ReferenceTrigger(rows, at) ==
    LET times == SortSeq(SetToSeq({<<blockedAt[r], r>> : r \in rows}),
                         LAMBDA a, b : a[1] < b[1])
        n     == Cardinality(rows)
        true  == {k \in 1..n : <<k, times[k][1] - times[1][1]>> \in config.condition}
    IN  Earliest([timeout   |-> IF at >= times[1][1] + config.timeout
                                THEN times[1][1] + config.timeout ELSE None,
                  count     |-> IF n >= config.count THEN times[config.count][1]
                                ELSE None,
                  condition |-> IF true # {} THEN times[Min(true)][1]
                                ELSE IF <<n, at - times[1][1]>> \in config.condition
                                THEN at ELSE None])

Triggered == flush.trigger \in {"timeout", "count", "condition"}

\* The trigger type recorded for a batch is the one that fired first by the
\* members' durable arrival times, not by the order of adoption or of the
\* checks ("first one to fire wins"), as long as one leader held the batch.
FirstToFireWins ==
    Triggered /\ ~flush.restored =>
        flush.trigger = ReferenceTrigger(flush.rows, flush.at)

\* "polling while source iteration waits lets timeout batches flush even when
\* no additional row arrives": a batch past its timeout is flushed although
\* the source stays idle, whatever stopped the leader before.  There are two
\* exceptions: a batch restored full, whose count counts as the first trigger,
\* which the poll leaves to the next adoption; and a resume that raises because
\* the offsets of the latest checkpoint describe an earlier, fuller batch.
ExpiredBatchFlushes ==
    (\E r \in held : now >= blockedAt[r] + config.timeout)
        ~> \/ held = {}
           \/ restored /\ evaluator.countAt # None
           \/ leader = "refused"

\* Once the source has ended every row leaves the node, through crashes,
\* shutdowns and resumes, whether or not its batch ever triggered, unless a
\* resume raises over the offsets of an earlier batch.
EveryRowIsFlushed ==
    (\A r \in Rows : status[r] # "source")
        ~> (leader = "refused" \/ \A r \in Rows : status[r] = "flushed")
===============================================================================
