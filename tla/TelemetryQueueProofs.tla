------------------------- MODULE TelemetryQueueProofs -------------------------
(***************************************************************************)
(* JoinCountsOpenWork for every number of producers and events and every   *)
(* size of the queue.  It is not inductive by itself: an item counts as    *)
(* held only through the owner of _dropped_lock, so one has to know that   *)
(* nobody else has taken anything out, and that what the owner displaced   *)
(* was reported before it queues its own event (OnlyOwnerHolds).           *)
(***************************************************************************)
EXTENDS TelemetryQueue, TLAPS

Items == {"event", "stop"}
State ==
    [pc : {"idle", "check", "put", "full", "requeue", "displace", "enqueue", "account"},
     had : BOOLEAN, pend : Nat]
MakingRoom == {"requeue", "displace", "enqueue", "account"}

\* TypeOK in the parts the steps use; that unfinished is a number follows from the
\* count itself.
QueueTyped == queue \in Seq(Items) /\ Len(queue) <= Size
ProducersTyped == producer \in [Producers -> State]
FlagsTyped ==
    /\ mode \in {"BLOCK", "DROP"}
    /\ attempted \in 0 .. MaxEvents /\ delivered \in Nat /\ dropped \in Nat
    /\ disabled \in BOOLEAN /\ stored \in BOOLEAN /\ shutdown \in BOOLEAN
    /\ lock \in Producers \cup {0}
    /\ exporter \in {"get", "busy", "ended"}
    /\ main \in {"running", "flush", "close", "drain", "join", "closed"}

\* A producer that makes room owns the lock; no other has items to report, and
\* displaced items are reported with the sentinel.
OnlyOwnerHolds ==
    \A p \in Producers :
        /\ producer[p].pc \in MakingRoom <=> lock = p
        /\ lock # p => producer[p].had = FALSE /\ producer[p].pend = 0
        /\ producer[p].pc \in {"enqueue", "account"} => producer[p].pend = 0
        /\ producer[p].pc \in {"requeue", "displace"} => producer[p].had = TRUE

EmitStep(p) == Enter(p) \/ CheckThread(p) \/ Enqueue(p) \/ Overflow(p)
RoomStep(p) == EvictOldest(p) \/ RequeueSentinel(p) \/ Displace(p) \/ EnqueueNewest(p) \/ Account(p)
ExportStep == Export \/ Crash
MainStep == BeginFlush \/ BeginClose \/ Main

Inv == QueueTyped /\ ProducersTyped /\ FlagsTyped /\ OnlyOwnerHolds /\ JoinCountsOpenWork

\* Producers are numbered from 1; 0 stands for a free lock.
LEMMA NoProducerIsZero == 0 \notin Producers
BY QueueAssumption

\* What is held, exported or queued is a number of items.
LEMMA Counted ==
    ASSUME Inv
    PROVE  Held \in Nat /\ Busy \in Nat /\ Len(queue) \in Nat
<1>1. Held \in Nat
  BY DEF Inv, ProducersTyped, State, FlagsTyped, Held
<1> QED
  BY <1>1 DEF Inv, QueueTyped, Busy

\* What put does to the queue.
LEMMA PutStep ==
    ASSUME QueueTyped, ~Full, NEW x \in Items, queue' = Append(queue, x)
    PROVE  QueueTyped' /\ Len(queue) \in Nat /\ Len(queue') = Len(queue) + 1
BY QueueAssumption DEF QueueTyped, Full

\* What get does to the queue.
LEMMA GetStep ==
    ASSUME QueueTyped, queue # <<>>, queue' = Tail(queue)
    PROVE  QueueTyped' /\ Len(queue) \in Nat /\ Len(queue') = Len(queue) - 1
BY QueueAssumption DEF QueueTyped

Out(r) == r.pend + (IF r.had THEN 1 ELSE 0)

\* A step of a producer without the lock.
LEMMA OtherStep ==
    ASSUME Inv, NEW p \in Producers, NEW pc \in {"idle", "check", "put", "full"},
           producer[p].pc \notin MakingRoom, lock' = lock,
           producer' = [producer EXCEPT ![p] = [producer[p] EXCEPT !.pc = pc]]
    PROVE  ProducersTyped' /\ OnlyOwnerHolds' /\ Held' = Held
BY NoProducerIsZero DEF Inv, ProducersTyped, State, OnlyOwnerHolds, MakingRoom, FlagsTyped, Held

\* A producer that never took the lock is through with its event.
LEMMA Finished ==
    ASSUME Inv, NEW p \in Producers, producer[p].pc \notin MakingRoom, lock' = lock, Finish(p)
    PROVE  ProducersTyped' /\ OnlyOwnerHolds' /\ Held' = Held
BY NoProducerIsZero DEF Inv, ProducersTyped, State, OnlyOwnerHolds, MakingRoom, FlagsTyped, Held, Finish

\* A step of the producer that has the lock, or takes it.
LEMMA OwnerStep ==
    ASSUME Inv, NEW p \in Producers, NEW r \in State, lock \in {0, p}, lock' = p,
           producer' = [producer EXCEPT ![p] = r], r.pc \in MakingRoom,
           r.pc \in {"enqueue", "account"} => r.pend = 0,
           r.pc \in {"requeue", "displace"} => r.had = TRUE
    PROVE  ProducersTyped' /\ OnlyOwnerHolds' /\ Held = Out(producer[p]) /\ Held' = Out(r)
<1> USE DEF Inv
<1>1. ProducersTyped' /\ producer'[p] = r /\ \A q \in Producers \ {p} : producer'[q] = producer[q]
  BY DEF ProducersTyped
<1>2. OnlyOwnerHolds'
  <2>1. \A q \in Producers \ {p} : producer[q].pc \notin MakingRoom /\ lock # q
    BY NoProducerIsZero DEF OnlyOwnerHolds
  <2> QED
    BY <1>1, <2>1 DEF OnlyOwnerHolds, MakingRoom
<1>3. Held = Out(producer[p])
  BY NoProducerIsZero DEF Held, Out, OnlyOwnerHolds
<1>4. Held' = Out(r)
  BY <1>1, NoProducerIsZero DEF Held, Out
<1> QED
  BY <1>1, <1>2, <1>3, <1>4

\* Steps of a producer before it takes the lock: none of them takes anything out.
LEMMA EmitSteps ==
    ASSUME Inv, NEW p \in Producers, EmitStep(p)
    PROVE  Inv'
<1> USE DEF Inv
<1>1. CASE Enter(p)
  <2>1. ProducersTyped' /\ OnlyOwnerHolds' /\ Held' = Held
    BY <1>1, OtherStep, Zenon DEF Enter, Goto, MakingRoom
  <2>2. FlagsTyped'
    BY <1>1, QueueAssumption DEF Enter, FlagsTyped
  <2> QED
    BY <1>1, <2>1, <2>2 DEF Enter, QueueTyped, JoinCountsOpenWork, Busy
<1>2. CASE CheckThread(p)
  <2>1. ProducersTyped' /\ OnlyOwnerHolds' /\ Held' = Held
    BY <1>2, OtherStep, Zenon DEF CheckThread, Goto, MakingRoom
  <2>2. FlagsTyped'
    BY <1>2 DEF CheckThread, FlagsTyped, counters
  <2> QED
    BY <1>2, <2>1, <2>2 DEF CheckThread, QueueTyped, JoinCountsOpenWork, Busy
<1>3. CASE Enqueue(p)
  <2>1. ProducersTyped' /\ OnlyOwnerHolds' /\ Held' = Held
    BY <1>3, Finished DEF Enqueue, MakingRoom
  <2>2. QueueTyped' /\ Len(queue) \in Nat /\ Len(queue') = Len(queue) + 1
    BY <1>3, PutStep DEF Enqueue, Put, Items
  <2>3. FlagsTyped'
    BY <1>3 DEF Enqueue, FlagsTyped, counters
  <2>4. unfinished' = unfinished + 1 /\ Busy' = Busy
    BY <1>3 DEF Enqueue, Put, Busy
  <2>5. JoinCountsOpenWork'
    BY <2>1, <2>2, <2>4, Counted DEF JoinCountsOpenWork
  <2> QED
    BY <2>1, <2>2, <2>3, <2>5
<1>4. CASE Overflow(p)
  <2>1. ProducersTyped' /\ OnlyOwnerHolds' /\ Held' = Held
    BY <1>4, Finished, OtherStep DEF Overflow, Goto, MakingRoom
  <2>2. FlagsTyped'
    BY <1>4 DEF Overflow, FlagsTyped
  <2> QED
    BY <1>4, <2>1, <2>2 DEF Overflow, QueueTyped, JoinCountsOpenWork, Busy
<1> QED
  BY <1>1, <1>2, <1>3, <1>4 DEF EmitStep

\* Steps under the lock: every item taken out is held by the owner until task_done.
LEMMA RoomSteps ==
    ASSUME Inv, NEW p \in Producers, RoomStep(p)
    PROVE  Inv'
<1> USE DEF Inv
<1>0. producer[p] \in State /\ producer[p].pend \in Nat
  BY DEF ProducersTyped, State
<1>1. CASE EvictOldest(p)
  <2>0. lock = 0 /\ lock' = p /\ Held = 0 /\ producer[p].had = FALSE /\ producer[p].pend = 0
    BY <1>0, <1>1, NoProducerIsZero DEF EvictOldest, OnlyOwnerHolds, Held
  <2>1. FlagsTyped'
    BY <1>1 DEF EvictOldest, FlagsTyped, counters
  <2>2. unfinished' = unfinished /\ Busy' = Busy
    BY <1>1 DEF EvictOldest, Busy
  <2>3. CASE queue = <<>>
    <3> DEFINE r == [producer[p] EXCEPT !.pc = "enqueue"]
    <3>1. producer' = [producer EXCEPT ![p] = r]
      BY <1>1, <2>3 DEF EvictOldest, Goto
    <3>2. r \in State /\ r.pc = "enqueue" /\ r.had = FALSE /\ r.pend = 0
      BY <1>0, <2>0 DEF State
    <3> HIDE DEF r
    <3>3. ProducersTyped' /\ OnlyOwnerHolds' /\ Held' = Out(r)
      BY <2>0, <3>1, <3>2, OwnerStep, Zenon DEF MakingRoom
    <3>4. Out(r) = 0
      BY <1>0, <3>2 DEF Out, State
    <3>5. QueueTyped' /\ Len(queue') = Len(queue)
      BY <1>1, <2>3 DEF EvictOldest, QueueTyped
    <3>6. JoinCountsOpenWork'
      BY <2>0, <2>2, <1>0, <3>3, <3>4, <3>5, Counted DEF JoinCountsOpenWork
    <3> QED
      BY <2>1, <3>3, <3>5, <3>6
  <2>4. CASE queue # <<>> /\ Head(queue) = "event"
    <3> DEFINE r == [producer[p] EXCEPT !.pc = "enqueue", !.had = TRUE]
    <3>1. producer' = [producer EXCEPT ![p] = r]
      BY <1>1, <2>4 DEF EvictOldest, Evict
    <3>2. r \in State /\ r.pc = "enqueue" /\ r.had = TRUE /\ r.pend = 0
      BY <1>0, <2>0, Zenon DEF State
    <3> HIDE DEF r
    <3>3. ProducersTyped' /\ OnlyOwnerHolds' /\ Held' = Out(r)
      BY <2>0, <3>1, <3>2, OwnerStep, Zenon DEF MakingRoom
    <3>4. Out(r) = 1
      BY <1>0, <3>2 DEF Out, State
    <3>5. QueueTyped' /\ Len(queue') = Len(queue) - 1
      BY <1>1, <2>4, GetStep DEF EvictOldest, Evict
    <3>6. JoinCountsOpenWork'
      BY <2>0, <2>2, <1>0, <3>3, <3>4, <3>5, Counted DEF JoinCountsOpenWork
    <3> QED
      BY <2>1, <3>3, <3>5, <3>6
  <2>5. CASE queue # <<>> /\ Head(queue) = "stop"
    <3> DEFINE r == [producer[p] EXCEPT !.pc = "requeue", !.had = TRUE]
    <3>1. producer' = [producer EXCEPT ![p] = r]
      BY <1>1, <2>5 DEF EvictOldest, Evict
    <3>2. r \in State /\ r.pc = "requeue" /\ r.had = TRUE /\ r.pend = 0
      BY <1>0, <2>0, Zenon DEF State
    <3> HIDE DEF r
    <3>3. ProducersTyped' /\ OnlyOwnerHolds' /\ Held' = Out(r)
      BY <2>0, <3>1, <3>2, OwnerStep, Zenon DEF MakingRoom
    <3>4. Out(r) = 1
      BY <1>0, <3>2 DEF Out, State
    <3>5. QueueTyped' /\ Len(queue') = Len(queue) - 1
      BY <1>1, <2>5, GetStep DEF EvictOldest, Evict
    <3>6. JoinCountsOpenWork'
      BY <2>0, <2>2, <1>0, <3>3, <3>4, <3>5, Counted DEF JoinCountsOpenWork
    <3> QED
      BY <2>1, <3>3, <3>5, <3>6
  <2> QED
    BY <1>1, <2>3, <2>4, <2>5 DEF EvictOldest
<1>2. CASE RequeueSentinel(p)
  <2>0. lock = p /\ lock' = p /\ Held = producer[p].pend + 1 /\ producer[p].had = TRUE
    BY <1>0, <1>2, NoProducerIsZero DEF RequeueSentinel, OnlyOwnerHolds, MakingRoom, Held, State
  <2>1. FlagsTyped'
    BY <1>2 DEF RequeueSentinel, FlagsTyped, counters
  <2>2. Busy' = Busy
    BY <1>2 DEF RequeueSentinel, Busy
  <2>3. CASE /\ ~Full /\ queue' = Append(queue, "stop") /\ unfinished' = unfinished + 1 - producer[p].pend
             /\ producer' = [producer EXCEPT ![p] = [producer[p] EXCEPT !.pc = "enqueue", !.pend = 0]]
    <3> DEFINE r == [producer[p] EXCEPT !.pc = "enqueue", !.pend = 0]
    <3>1. producer' = [producer EXCEPT ![p] = r]
      BY <1>2, <2>3 DEF RequeueSentinel
    <3>2. r \in State /\ r.pc = "enqueue" /\ r.had = TRUE /\ r.pend = 0
      BY <1>0, <2>0, Zenon DEF State
    <3> HIDE DEF r
    <3>3. ProducersTyped' /\ OnlyOwnerHolds' /\ Held' = Out(r)
      BY <2>0, <3>1, <3>2, OwnerStep, Zenon DEF MakingRoom
    <3>4. Out(r) = 1
      BY <1>0, <3>2 DEF Out, State
    <3>5. QueueTyped' /\ Len(queue') = Len(queue) + 1
      BY <1>2, <2>3, PutStep DEF Items
    <3>6. JoinCountsOpenWork'
      BY <2>0, <2>2, <2>3, <1>0, <3>3, <3>4, <3>5, Counted DEF JoinCountsOpenWork
    <3> QED
      BY <2>1, <3>3, <3>5, <3>6
  <2>4. CASE unfinished' = unfinished /\ queue' = queue /\ Goto(p, "displace")
    <3> DEFINE r == [producer[p] EXCEPT !.pc = "displace"]
    <3>1. producer' = [producer EXCEPT ![p] = r]
      BY <1>2, <2>4 DEF Goto
    <3>2. r \in State /\ r.pc = "displace" /\ r.had = TRUE /\ r.pend = producer[p].pend
      BY <1>0, <2>0 DEF State
    <3> HIDE DEF r
    <3>3. ProducersTyped' /\ OnlyOwnerHolds' /\ Held' = Out(r)
      BY <2>0, <3>1, <3>2, OwnerStep, Zenon DEF MakingRoom
    <3>4. Out(r) = producer[p].pend + 1
      BY <1>0, <3>2 DEF Out, State
    <3>5. QueueTyped' /\ Len(queue') = Len(queue)
      BY <1>2, <2>4 DEF QueueTyped
    <3>6. JoinCountsOpenWork'
      BY <2>0, <2>2, <2>4, <1>0, <3>3, <3>4, <3>5, Counted DEF JoinCountsOpenWork
    <3> QED
      BY <2>1, <3>3, <3>5, <3>6
  <2> QED
    BY <1>2, <2>3, <2>4 DEF RequeueSentinel
<1>3. CASE Displace(p)
  <2>0. lock = p /\ lock' = p /\ Held = producer[p].pend + 1 /\ producer[p].had = TRUE
    BY <1>0, <1>3, NoProducerIsZero DEF Displace, OnlyOwnerHolds, MakingRoom, Held, State
  <2>1. FlagsTyped'
    BY <1>3 DEF Displace, FlagsTyped, counters
  <2>2. unfinished' = unfinished /\ Busy' = Busy
    BY <1>3 DEF Displace, Busy
  <2>3. CASE queue = <<>>
    <3> DEFINE r == [producer[p] EXCEPT !.pc = "requeue"]
    <3>1. producer' = [producer EXCEPT ![p] = r]
      BY <1>3, <2>3 DEF Displace, Goto
    <3>2. r \in State /\ r.pc = "requeue" /\ r.had = TRUE /\ r.pend = producer[p].pend
      BY <1>0, <2>0 DEF State
    <3> HIDE DEF r
    <3>3. ProducersTyped' /\ OnlyOwnerHolds' /\ Held' = Out(r)
      BY <2>0, <3>1, <3>2, OwnerStep, Zenon DEF MakingRoom
    <3>4. Out(r) = producer[p].pend + 1
      BY <1>0, <3>2 DEF Out, State
    <3>5. QueueTyped' /\ Len(queue') = Len(queue)
      BY <1>3, <2>3 DEF Displace, QueueTyped
    <3>6. JoinCountsOpenWork'
      BY <2>0, <2>2, <1>0, <3>3, <3>4, <3>5, Counted DEF JoinCountsOpenWork
    <3> QED
      BY <2>1, <3>3, <3>5, <3>6
  <2>4. CASE queue # <<>>
    <3> DEFINE r == [pc |-> "requeue", had |-> producer[p].had, pend |-> producer[p].pend + 1]
    <3>1. producer' = [producer EXCEPT ![p] = r]
      BY <1>3, <2>4 DEF Displace
    <3>2. r \in State /\ r.pc = "requeue" /\ r.had = TRUE /\ r.pend = producer[p].pend + 1
      BY <1>0, <2>0 DEF State
    <3> HIDE DEF r
    <3>3. ProducersTyped' /\ OnlyOwnerHolds' /\ Held' = Out(r)
      BY <2>0, <3>1, <3>2, OwnerStep, Zenon DEF MakingRoom
    <3>4. Out(r) = producer[p].pend + 2
      BY <1>0, <3>2 DEF Out, State
    <3>5. QueueTyped' /\ Len(queue') = Len(queue) - 1
      BY <1>3, <2>4, GetStep DEF Displace
    <3>6. JoinCountsOpenWork'
      <4>1. Held' = Held + 1
        BY <2>0, <1>0, <3>3, <3>4
      <4> QED
        BY <2>2, <3>5, <4>1, Counted DEF JoinCountsOpenWork
    <3> QED
      BY <2>1, <3>3, <3>5, <3>6
  <2> QED
    BY <2>3, <2>4
<1>4. CASE EnqueueNewest(p)
  <2>0. lock = p /\ lock' = p /\ Held = Out(producer[p]) /\ producer[p].pend = 0
    BY <1>0, <1>4, NoProducerIsZero DEF EnqueueNewest, OnlyOwnerHolds, MakingRoom, Held, Out
  <2>1. FlagsTyped'
    BY <1>4 DEF EnqueueNewest, FlagsTyped, counters
  <2>2. Busy' = Busy
    BY <1>4 DEF EnqueueNewest, Busy
  <2>3. CASE ~Full /\ Put("event")
    <3> DEFINE r == [producer[p] EXCEPT !.pc = "account"]
    <3>1. producer' = [producer EXCEPT ![p] = r]
      BY <1>4, <2>3 DEF EnqueueNewest, Goto
    <3>2. r \in State /\ r.pc = "account" /\ r.had = producer[p].had /\ r.pend = 0
      BY <1>0, <2>0 DEF State
    <3> HIDE DEF r
    <3>3. ProducersTyped' /\ OnlyOwnerHolds' /\ Held' = Out(r)
      BY <2>0, <3>1, <3>2, OwnerStep, Zenon DEF MakingRoom
    <3>4. Out(r) = Out(producer[p])
      BY <2>0, <3>2 DEF Out
    <3>5. QueueTyped' /\ Len(queue') = Len(queue) + 1 /\ unfinished' = unfinished + 1
      BY <1>4, <2>3, PutStep DEF Put, Items
    <3>6. JoinCountsOpenWork'
      BY <2>0, <2>2, <1>0, <3>3, <3>4, <3>5, Counted DEF JoinCountsOpenWork
    <3> QED
      BY <2>1, <3>3, <3>5, <3>6
  <2>4. CASE queue' = queue /\ unfinished' = unfinished
    <3> DEFINE r == [producer[p] EXCEPT !.pc = "account"]
    <3>1. producer' = [producer EXCEPT ![p] = r]
      BY <1>4, <2>4 DEF EnqueueNewest, Goto
    <3>2. r \in State /\ r.pc = "account" /\ r.had = producer[p].had /\ r.pend = 0
      BY <1>0, <2>0 DEF State
    <3> HIDE DEF r
    <3>3. ProducersTyped' /\ OnlyOwnerHolds' /\ Held' = Out(r)
      BY <2>0, <3>1, <3>2, OwnerStep, Zenon DEF MakingRoom
    <3>4. Out(r) = Out(producer[p])
      BY <2>0, <3>2 DEF Out
    <3>5. QueueTyped' /\ Len(queue') = Len(queue) /\ unfinished' = unfinished
      BY <1>4, <2>4 DEF QueueTyped
    <3>6. JoinCountsOpenWork'
      BY <2>0, <2>2, <1>0, <3>3, <3>4, <3>5, Counted DEF JoinCountsOpenWork
    <3> QED
      BY <2>1, <3>3, <3>5, <3>6
  <2> QED
    BY <1>4, <2>3, <2>4 DEF EnqueueNewest
<1>5. CASE Account(p)
  <2>0. lock = p /\ lock' = 0 /\ Held = (IF producer[p].had THEN 1 ELSE 0) /\ Held' = 0
    BY <1>5, NoProducerIsZero DEF Account, OnlyOwnerHolds, MakingRoom, Held
  <2>1. FlagsTyped'
    BY <1>5 DEF Account, FlagsTyped, counters
  <2>2. QueueTyped' /\ Len(queue') = Len(queue) /\ Busy' = Busy
    BY <1>5 DEF Account, QueueTyped, Busy
  <2>3. ProducersTyped'
    BY <1>5 DEF Account, Finish, ProducersTyped, State
  <2>4. OnlyOwnerHolds'
    BY <1>5, <2>0, NoProducerIsZero DEF Account, Finish, ProducersTyped, OnlyOwnerHolds, MakingRoom
  <2>5. unfinished' = unfinished - Held
    BY <1>5, <2>0, Counted DEF Account, JoinCountsOpenWork
  <2>6. JoinCountsOpenWork'
    BY <2>0, <2>2, <2>5, Counted DEF JoinCountsOpenWork
  <2> QED
    BY <2>1, <2>2, <2>3, <2>4, <2>6
<1> QED
  BY <1>1, <1>2, <1>3, <1>4, <1>5 DEF RoomStep

\* The export thread reports every event it took, in whatever way it ends.
LEMMA ExportSteps ==
    ASSUME Inv, ExportStep
    PROVE  Inv'
<1> USE DEF Inv
<1>1. ASSUME producer' = producer, lock' = lock
      PROVE  ProducersTyped' /\ OnlyOwnerHolds' /\ Held' = Held
  BY <1>1 DEF ProducersTyped, OnlyOwnerHolds, Held
<1>2. CASE Get
  <2>1. ProducersTyped' /\ OnlyOwnerHolds' /\ Held' = Held
    BY <1>1, <1>2 DEF Get
  <2>2. FlagsTyped'
    BY <1>2 DEF Get, FlagsTyped, counters
  <2>3. QueueTyped' /\ Len(queue') = Len(queue) - 1
    BY <1>2, GetStep DEF Get
  <2>4. unfinished' = unfinished /\ Busy = 0 /\ Busy' = 1
    BY <1>2 DEF Get, Busy
  <2>5. JoinCountsOpenWork'
    BY <2>1, <2>3, <2>4, Counted DEF JoinCountsOpenWork
  <2> QED
    BY <2>1, <2>2, <2>3, <2>5
<1>3. CASE GetSentinel
  <2>1. ProducersTyped' /\ OnlyOwnerHolds' /\ Held' = Held
    BY <1>1, <1>3 DEF GetSentinel
  <2>2. FlagsTyped'
    BY <1>3 DEF GetSentinel, FlagsTyped, counters
  <2>3. QueueTyped' /\ Len(queue') = Len(queue) - 1
    BY <1>3, GetStep DEF GetSentinel
  <2>4. unfinished' = unfinished - 1 /\ Busy = 0 /\ Busy' = 0
    BY <1>3 DEF GetSentinel, Busy
  <2>5. JoinCountsOpenWork'
    BY <2>1, <2>3, <2>4, Counted DEF JoinCountsOpenWork
  <2> QED
    BY <2>1, <2>2, <2>3, <2>5
<1>4. CASE Deliver \/ Drop \/ Crash
  <2>1. ProducersTyped' /\ OnlyOwnerHolds' /\ Held' = Held
    BY <1>1, <1>4 DEF Deliver, Drop, Crash
  <2>2. FlagsTyped'
    <3>1. CASE Deliver
      BY <3>1 DEF Deliver, FlagsTyped
    <3>2. CASE Drop
      <4>1. disabled' \in BOOLEAN /\ stored' \in BOOLEAN
        BY <3>2, Zenon DEF Drop, FlagsTyped
      <4> QED
        BY <3>2, <4>1 DEF Drop, FlagsTyped
    <3>3. CASE Crash
      BY <3>3 DEF Crash, FlagsTyped, counters
    <3> QED
      BY <1>4, <3>1, <3>2, <3>3
  <2>3. QueueTyped' /\ Len(queue') = Len(queue)
    BY <1>4 DEF Deliver, Drop, Crash, QueueTyped
  <2>4. unfinished' = unfinished - 1 /\ Busy = 1 /\ Busy' = 0
    BY <1>4 DEF Deliver, Drop, Crash, Busy
  <2>5. JoinCountsOpenWork'
    BY <2>1, <2>3, <2>4, Counted DEF JoinCountsOpenWork
  <2> QED
    BY <2>1, <2>2, <2>3, <2>5
<1> QED
  BY <1>2, <1>3, <1>4 DEF ExportStep, Export

\* flush and close put in the sentinel and report what they take out for it.
LEMMA MainSteps ==
    ASSUME Inv, MainStep
    PROVE  Inv'
<1> USE DEF Inv
<1>1. ProducersTyped' /\ OnlyOwnerHolds' /\ Held' = Held /\ Busy' = Busy
  BY DEF MainStep, Main, BeginFlush, BeginClose, Flushed, SendSentinel, Drain, Closed,
         ProducersTyped, OnlyOwnerHolds, Held, Busy
<1>2. FlagsTyped'
  <2>1. CASE BeginFlush \/ BeginClose \/ Flushed
    BY <2>1, Zenon DEF BeginFlush, BeginClose, Flushed, FlagsTyped, counters
  <2>2. CASE SendSentinel \/ Drain \/ Closed
    BY <2>2 DEF SendSentinel, Drain, Closed, FlagsTyped, counters
  <2> QED
    BY <2>1, <2>2 DEF MainStep, Main
<1>3. /\ QueueTyped' /\ Len(queue') \in Nat /\ unfinished' \in Int
      /\ unfinished' - Len(queue') = unfinished - Len(queue)
  <2>0. unfinished \in Nat
    BY Counted DEF JoinCountsOpenWork
  <2>1. CASE queue' = queue /\ unfinished' = unfinished
    <3>1. QueueTyped' /\ Len(queue') = Len(queue)
      BY <2>1 DEF QueueTyped
    <3> QED
      BY <2>0, <2>1, <3>1, Counted
  <2>2. CASE ~Full /\ Put("stop")
    <3>1. QueueTyped' /\ Len(queue') = Len(queue) + 1 /\ unfinished' = unfinished + 1
      BY <2>2, PutStep DEF Put, Items
    <3> QED
      BY <2>0, <3>1, Counted
  <2>3. CASE queue # <<>> /\ queue' = Tail(queue) /\ unfinished' = unfinished - 1
    <3>1. QueueTyped' /\ Len(queue') = Len(queue) - 1 /\ Len(queue') \in Nat
      BY <2>3, GetStep DEF QueueTyped
    <3> QED
      BY <2>0, <2>3, <3>1, Counted
  <2> QED
    BY <2>1, <2>2, <2>3 DEF MainStep, Main, BeginFlush, BeginClose, Flushed, SendSentinel, Drain, Closed
<1>4. JoinCountsOpenWork'
  <2>1. unfinished - Len(queue) = Busy + Held
    BY Counted DEF JoinCountsOpenWork
  <2>2. unfinished' = Len(queue') + Busy + Held
    BY <1>3, <2>1, Counted
  <2> QED
    BY <1>1, <2>2 DEF JoinCountsOpenWork
<1> QED
  BY <1>1, <1>2, <1>3, <1>4

\* The strengthened invariant holds in every reachable state.
THEOREM QueueInvariance == Spec => []Inv
<1>1. Init => Inv
  <2> SUFFICES ASSUME Init PROVE Inv
    OBVIOUS
  <2>1. QueueTyped
    BY QueueAssumption DEF Init, QueueTyped, Items
  <2>2. ProducersTyped
    BY DEF Init, ProducersTyped, State
  <2>3. FlagsTyped
    <3>1. attempted \in 0 .. MaxEvents /\ delivered \in Nat /\ dropped \in Nat
      BY QueueAssumption DEF Init
    <3> QED
      BY <3>1, Zenon DEF Init, FlagsTyped
  <2>4. OnlyOwnerHolds
    BY NoProducerIsZero DEF Init, OnlyOwnerHolds, MakingRoom
  <2>5. JoinCountsOpenWork
    BY DEF Init, JoinCountsOpenWork, Held, Busy
  <2> QED
    BY <2>1, <2>2, <2>3, <2>4, <2>5 DEF Inv
<1>2. Inv /\ UNCHANGED vars => Inv'
  BY DEF Inv, QueueTyped, ProducersTyped, FlagsTyped, OnlyOwnerHolds, JoinCountsOpenWork, Held, Busy,
         vars, counters
<1>3. Inv /\ Next => Inv'
  BY EmitSteps, RoomSteps, ExportSteps, MainSteps
     DEF Next, Produce, EmitStep, RoomStep, ExportStep, MainStep
<1> QED
  BY <1>1, <1>2, <1>3, PTL DEF Spec

\* The variables keep their types; the queue never holds more than its maxsize.
THEOREM QueueTypes == Spec => []TypeOK
<1>1. Inv => TypeOK
  <2> SUFFICES ASSUME Inv PROVE TypeOK
    OBVIOUS
  <2>1. unfinished \in Nat
    BY Counted DEF Inv, JoinCountsOpenWork
  <2> QED
    BY <2>1 DEF Inv, TypeOK, QueueTyped, ProducersTyped, FlagsTyped, Items, State
<1> QED
  BY QueueInvariance, <1>1, PTL

\* queue.join waits for exactly the work that is open: the count it waits on is that
\* of the items queued, exported, or taken out by the producer that makes room.
THEOREM JoinIsExact == Spec => []JoinCountsOpenWork
<1>1. Inv => JoinCountsOpenWork
  BY DEF Inv
<1> QED
  BY QueueInvariance, <1>1, PTL
================================================================================
