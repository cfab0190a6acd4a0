---------------------------- MODULE TelemetryQueue ----------------------------
(***************************************************************************)
(* The bounded queue between the threads that emit telemetry events and    *)
(* the export thread, with its flush and its shutdown (TelemetryManager).  *)
(* What the exporters do with one event is a free choice of outcomes.      *)
(*                                                                         *)
(* put, get and task_done of queue.Queue are atomic and are one action     *)
(* each.  _dropped_lock is held over several of them when a full queue is  *)
(* being made room in, and is modelled; over a single update it is not.    *)
(***************************************************************************)
EXTENDS Integers, Sequences, FiniteSets

CONSTANTS
    Producers,  \* threads that emit events
    Size,       \* the queue's maxsize
    MaxEvents   \* bound: number of events attempted

ASSUME QueueAssumption == Producers \subseteq Nat \ {0} /\ Size \in Nat \ {0} /\ MaxEvents \in Nat

VARIABLES
    mode,        \* backpressure_mode
    queue,       \* events and the shutdown sentinel
    unfinished,  \* the queue's unfinished_tasks
    attempted,   \* _events_attempted
    delivered,   \* _events_delivered
    dropped,     \* _events_dropped
    disabled,    \* _disabled
    stored,      \* _stored_exception is set
    shutdown,    \* _shutdown_event
    lock,        \* the producer that holds _dropped_lock; 0 when it is free
    producer,    \* each producer: step, had_evicted and pending_task_done
    exporter,    \* the export thread
    main         \* the thread that flushes and closes

counters == <<attempted, delivered, dropped>>
vars == <<mode, queue, unfinished, counters, disabled, stored, shutdown, lock, producer, exporter, main>>

TypeOK ==
    /\ mode \in {"BLOCK", "DROP"}
    /\ queue \in Seq({"event", "stop"}) /\ Len(queue) <= Size
    /\ unfinished \in Nat /\ attempted \in 0 .. MaxEvents /\ delivered \in Nat /\ dropped \in Nat
    /\ disabled \in BOOLEAN /\ stored \in BOOLEAN /\ shutdown \in BOOLEAN
    /\ lock \in Producers \cup {0}
    /\ producer \in [Producers ->
          [pc : {"idle", "check", "put", "full", "requeue", "displace", "enqueue", "account"},
           had : BOOLEAN, pend : Nat]]
    /\ exporter \in {"get", "busy", "ended"}
    /\ main \in {"running", "flush", "close", "drain", "join", "closed"}

Init ==
    /\ mode \in {"BLOCK", "DROP"}
    /\ queue = <<>> /\ unfinished = 0
    /\ attempted = 0 /\ delivered = 0 /\ dropped = 0
    /\ disabled = FALSE /\ stored = FALSE /\ shutdown = FALSE /\ lock = 0
    /\ producer = [p \in Producers |-> [pc |-> "idle", had |-> FALSE, pend |-> 0]]
    /\ exporter = "get" /\ main = "running"

Full == Len(queue) = Size

Put(x) == queue' = Append(queue, x) /\ unfinished' = unfinished + 1

Goto(p, pc) == producer' = [producer EXCEPT ![p] = [@ EXCEPT !.pc = pc]]

Evict(p, pc) ==
    /\ queue' = Tail(queue)
    /\ producer' = [producer EXCEPT ![p] = [@ EXCEPT !.pc = pc, !.had = TRUE]]

Finish(p) == producer' = [producer EXCEPT ![p] = [pc |-> "idle", had |-> FALSE, pend |-> 0]]

--------------------------------------------------------------------------------
(* Producers: handle_event. *)

\* Shutdown and the disabling are looked at, once.
Enter(p) ==
    /\ producer[p].pc = "idle" /\ attempted < MaxEvents
    /\ ~shutdown /\ ~disabled
    /\ attempted' = attempted + 1
    /\ Goto(p, "check")
    /\ UNCHANGED <<mode, queue, unfinished, delivered, dropped, disabled, stored, shutdown, lock,
                   exporter, main>>

\* A dead export thread disables telemetry.
CheckThread(p) ==
    /\ producer[p].pc = "check"
    /\ Goto(p, IF exporter = "ended" THEN "idle" ELSE "put")
    /\ disabled' = (disabled \/ exporter = "ended")
    /\ UNCHANGED <<mode, queue, unfinished, counters, stored, shutdown, lock, exporter, main>>

Enqueue(p) ==
    /\ producer[p].pc = "put" /\ ~Full
    /\ Put("event")
    /\ Finish(p)
    /\ UNCHANGED <<mode, counters, disabled, stored, shutdown, lock, exporter, main>>

\* BLOCK: the put times out and the event is dropped.  DROP: the lock is next.
Overflow(p) ==
    /\ producer[p].pc = "put" /\ Full
    /\ \/ /\ mode = "BLOCK" /\ lock = 0
          /\ dropped' = dropped + 1
          /\ Finish(p)
       \/ /\ mode = "DROP"
          /\ Goto(p, "full")
          /\ UNCHANGED dropped
    /\ UNCHANGED <<mode, queue, unfinished, attempted, delivered, disabled, stored, shutdown, lock,
                   exporter, main>>

\* Faulty: a sentinel taken out is treated as an event.
EvictAnything(p) ==
    /\ producer[p].pc = "full" /\ lock = 0
    /\ lock' = p
    /\ \/ /\ queue = <<>>
          /\ Goto(p, "enqueue")
          /\ UNCHANGED <<queue, dropped>>
       \/ /\ queue # <<>>
          /\ Evict(p, "enqueue")
          /\ dropped' = dropped + 1
    /\ UNCHANGED <<mode, unfinished, attempted, delivered, disabled, stored, shutdown, exporter, main>>

\* _drop_oldest_and_enqueue_newest: under the lock, the oldest item is taken out.
EvictOldest(p) ==
    /\ producer[p].pc = "full" /\ lock = 0
    /\ lock' = p
    /\ \/ /\ queue = <<>>
          /\ Goto(p, "enqueue")
          /\ UNCHANGED <<queue, dropped>>
       \/ /\ queue # <<>> /\ Head(queue) = "event"
          /\ Evict(p, "enqueue")
          /\ dropped' = dropped + 1
       \/ /\ queue # <<>> /\ Head(queue) = "stop"
          /\ Evict(p, "requeue")
          /\ UNCHANGED dropped
    /\ UNCHANGED <<mode, unfinished, attempted, delivered, disabled, stored, shutdown, exporter, main>>

\* _requeue_shutdown_sentinel.  Its retries are bounded by the queue's size and
\* ten: more than the producers that passed the shutdown check can refill.
RequeueSentinel(p) ==
    /\ producer[p].pc = "requeue"
    /\ \/ /\ ~Full
          /\ queue' = Append(queue, "stop")
          /\ unfinished' = unfinished + 1 - producer[p].pend
          /\ producer' = [producer EXCEPT ![p] = [@ EXCEPT !.pc = "enqueue", !.pend = 0]]
       \/ /\ Full
          /\ Goto(p, "displace")
          /\ UNCHANGED <<queue, unfinished>>
    /\ UNCHANGED <<mode, counters, disabled, stored, shutdown, lock, exporter, main>>

Displace(p) ==
    /\ producer[p].pc = "displace"
    /\ \/ /\ queue = <<>>
          /\ Goto(p, "requeue")
          /\ UNCHANGED <<queue, dropped>>
       \/ /\ queue # <<>>
          /\ queue' = Tail(queue)
          /\ producer' = [producer EXCEPT ![p] = [pc |-> "requeue", had |-> @.had, pend |-> @.pend + 1]]
          /\ dropped' = IF Head(queue) = "event" THEN dropped + 1 ELSE dropped
    /\ UNCHANGED <<mode, unfinished, attempted, delivered, disabled, stored, shutdown, lock, exporter, main>>

EnqueueNewest(p) ==
    /\ producer[p].pc = "enqueue"
    /\ \/ /\ ~Full
          /\ Put("event")
          /\ UNCHANGED dropped
       \/ /\ Full
          /\ dropped' = dropped + 1
          /\ UNCHANGED <<queue, unfinished>>
    /\ Goto(p, "account")
    /\ UNCHANGED <<mode, attempted, delivered, disabled, stored, shutdown, lock, exporter, main>>

\* task_done for what was taken out, after the newest was queued; the lock is freed.
Account(p) ==
    /\ producer[p].pc = "account"
    /\ unfinished' = IF producer[p].had THEN unfinished - 1 ELSE unfinished
    /\ lock' = 0
    /\ Finish(p)
    /\ UNCHANGED <<mode, queue, counters, disabled, stored, shutdown, exporter, main>>

--------------------------------------------------------------------------------
(* The export thread: _export_loop. *)

Get ==
    /\ exporter = "get" /\ queue # <<>> /\ Head(queue) = "event"
    /\ queue' = Tail(queue)
    /\ exporter' = "busy"
    /\ UNCHANGED <<mode, unfinished, counters, disabled, stored, shutdown, lock, producer, main>>

GetSentinel ==
    /\ exporter = "get" /\ queue # <<>> /\ Head(queue) = "stop"
    /\ queue' = Tail(queue)
    /\ unfinished' = unfinished - 1
    /\ exporter' = "ended"
    /\ UNCHANGED <<mode, counters, disabled, stored, shutdown, lock, producer, main>>

Deliver ==
    /\ exporter = "busy"
    /\ delivered' = delivered + 1
    /\ unfinished' = unfinished - 1
    /\ exporter' = "get"
    /\ UNCHANGED <<mode, queue, attempted, dropped, disabled, stored, shutdown, lock, producer, main>>

\* Faulty: a lost event is not reported to the queue.
DropWithoutDone ==
    /\ exporter = "busy" /\ lock = 0
    /\ dropped' = dropped + 1
    /\ exporter' = "get"
    /\ UNCHANGED <<mode, queue, unfinished, attempted, delivered, disabled, stored, shutdown, lock,
                   producer, main>>

\* No exporter takes the event.  When that happened too often in a row, telemetry
\* is disabled or an error is kept for flush.
Drop ==
    /\ exporter = "busy" /\ lock = 0
    /\ dropped' = dropped + 1
    /\ \/ UNCHANGED <<disabled, stored>>
       \/ disabled' = TRUE /\ UNCHANGED stored
       \/ stored' = TRUE /\ UNCHANGED disabled
    /\ unfinished' = unfinished - 1
    /\ exporter' = "get"
    /\ UNCHANGED <<mode, queue, attempted, delivered, shutdown, lock, producer, main>>

\* Any other exception of an exporter ends the thread.
Crash ==
    /\ exporter = "busy"
    /\ stored' = TRUE
    /\ unfinished' = unfinished - 1
    /\ exporter' = "ended"
    /\ UNCHANGED <<mode, queue, counters, disabled, shutdown, lock, producer, main>>

--------------------------------------------------------------------------------
(* flush and close. *)

BeginFlush ==
    /\ main = "running"
    /\ main' = "flush"
    /\ UNCHANGED <<mode, queue, unfinished, counters, disabled, stored, shutdown, lock, producer, exporter>>

\* queue.join returns; a kept exception is raised and forgotten.
Flushed ==
    /\ main = "flush" /\ unfinished = 0
    /\ stored' = FALSE
    /\ main' = "running"
    /\ UNCHANGED <<mode, queue, unfinished, counters, disabled, shutdown, lock, producer, exporter>>

BeginClose ==
    /\ main = "running"
    /\ shutdown' = TRUE
    /\ main' = "close"
    /\ UNCHANGED <<mode, queue, unfinished, counters, disabled, stored, lock, producer, exporter>>

\* The sentinel goes in, unless the queue stays full until the put times out.
SendSentinel ==
    /\ main = "close"
    /\ \/ /\ ~Full
          /\ Put("stop")
          /\ main' = "join"
       \/ /\ Full
          /\ main' = "drain"
          /\ UNCHANGED <<queue, unfinished>>
    /\ UNCHANGED <<mode, counters, disabled, stored, shutdown, lock, producer, exporter>>

\* Whatever is oldest by then is taken out and the put is tried again.
Drain ==
    /\ main = "drain"
    /\ main' = "close"
    /\ \/ queue = <<>> /\ UNCHANGED <<queue, unfinished>>
       \/ queue # <<>> /\ queue' = Tail(queue) /\ unfinished' = unfinished - 1
    /\ UNCHANGED <<mode, counters, disabled, stored, shutdown, lock, producer, exporter>>

\* The thread has ended, or the join has timed out on a slow exporter.
Closed ==
    /\ main = "join"
    /\ main' = "closed"
    /\ UNCHANGED <<mode, queue, unfinished, counters, disabled, stored, shutdown, lock, producer, exporter>>

--------------------------------------------------------------------------------
Produce(p) ==
    \/ CheckThread(p) \/ Enqueue(p) \/ Overflow(p) \/ EvictOldest(p) \/ RequeueSentinel(p)
    \/ Displace(p) \/ EnqueueNewest(p) \/ Account(p)

Export == Get \/ GetSentinel \/ Deliver \/ Drop

Main == Flushed \/ SendSentinel \/ Drain \/ Closed

Next ==
    \/ \E p \in Producers : Enter(p) \/ Produce(p)
    \/ Export
    \/ Crash
    \/ BeginFlush
    \/ BeginClose
    \/ Main

Spec == Init /\ [][Next]_vars

--------------------------------------------------------------------------------
(* Safety. *)

\* Items the producer that makes room has taken out and not reported.
Held ==
    IF lock = 0 THEN 0 ELSE producer[lock].pend + (IF producer[lock].had THEN 1 ELSE 0)

Busy == IF exporter = "busy" THEN 1 ELSE 0

\* "This prevents queue.join() from observing a transient zero while the
\* replacement event is being queued", and "ALWAYS call task_done()": the count
\* join waits on is that of the items queued, exported, or taken out by a producer
\* that has not yet queued its own.
JoinCountsOpenWork ==
    unfinished = Len(queue) + Busy + Held

--------------------------------------------------------------------------------
(* Liveness: exporters return and all threads run; nothing makes the pipeline *)
(* emit, flush or close.                                                      *)

FairSpec ==
    /\ Spec
    /\ \A p \in Producers : WF_vars(Produce(p))
    /\ WF_vars(Export)
    /\ WF_vars(Main)

\* The export thread ends after close, although producers make room for late events
\* at the queue's head.
ThreadEndsAfterClose == (main = "close") ~> (exporter = "ended")

\* "Background thread can't raise to main thread directly", so an error is stored
\* "for re-raise on flush()": a flush returns whatever the exporters answer and the
\* producers displace; only the death of the export thread keeps it waiting.
FlushReturns == (main = "flush") ~> (main # "flush" \/ exporter = "ended")
================================================================================
