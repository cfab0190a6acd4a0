------------------------------ MODULE SinkEffects ------------------------------
(***************************************************************************)
(* Publication of a run's tokens to one external sink through durable sink *)
(* effects: reservation, preparation, leases, commit and reconcile         *)
(* attempts, finalization.  The effects of a run on one target form a      *)
(* stream, numbered in reservation order; each waits for its predecessor.  *)
(*                                                                         *)
(* Every verb is one leader-fenced transaction, so only the coordinator of *)
(* the current seat epoch changes the ledger, and a sink write that fails  *)
(* ends that coordinator: the run fails and is resumed under a new epoch   *)
(* and a fresh worker identity.  The epoch therefore names the lease owner *)
(* too, and co is the state of its coordinator alone.  A crash, a shutdown *)
(* and a deposition are all NewLeader.  What an earlier coordinator can    *)
(* still do is land a commit request it had sent: wire holds those.        *)
(*                                                                         *)
(* A lease deadline is decided on the database clock and is modelled by    *)
(* live; started_at of an attempt is the process clock of its worker, off  *)
(* by Skew[epoch] from the order in which the attempts were begun.         *)
(***************************************************************************)
EXTENDS Integers, Sequences, FiniteSets

CONSTANTS
    Tokens,         \* tokens bound for the sink, numbered in ordinal order
    MaxEpoch,       \* bound: number of seat grants explored
    MaxEffects,     \* bound: number of effects; every one binds a new token
    Groups,         \* Groups[k]: the groups of tokens epoch k may flush together
    Adapters,       \* the kinds of sink explored: see perMember
    Skew            \* Skew[k]: offset of the process clock of epoch k

ASSUME TokensAssumption == Tokens \subseteq Nat \ {0} /\ Adapters \subseteq BOOLEAN
ASSUME SkewAssumption ==
    /\ MaxEpoch \in Nat \ {0} /\ MaxEffects \in Nat
    /\ Skew \in [1 .. MaxEpoch -> Nat]
    /\ Groups \in [1 .. MaxEpoch -> SUBSET (SUBSET Tokens)]

VARIABLES
    perMember, \* the sink commits member by member, not the group at once
    effect,    \* sink_effects and sink_effect_members rows, by stream sequence
    tail,      \* sequence of the stream's tail effect; 0 when it has none
    attempts,  \* sink_effect_attempts rows of each effect, oldest first
    epoch,     \* leader_epoch of the run's seat
    co,        \* the coordinator of that epoch
    wire,      \* commit requests sent and not yet landed
    target     \* what the external target has applied

vars == <<perMember, effect, tail, attempts, epoch, co, wire, target>>

Effects == 1 .. MaxEffects

\* member_ordinal of an attempt: a token of a member adapter, or 0 for the whole group.
Units == IF perMember THEN Tokens ELSE {0}

NoEffect == [state |-> "NONE", members |-> {}, owner |-> 0, gen |-> 0, live |-> FALSE,
             publishes |-> FALSE, planned |-> {}, diverted |-> {}, done |-> {}]

Idle == [pc |-> "idle", asked |-> {}, queue |-> {}, gen |-> 0, att |-> 0, unit |-> 0, div |-> {}]

Attempt == [unit : Units, act : {"COMMIT", "RECONCILE"}, gen : Nat, at : Nat,
            st : {"INTENT", "RETURNED", "RESPONSE_LOST"},
            res : {"NONE", "COMMITTED", "APPLIED", "NOT_APPLIED", "UNKNOWN"},
            div : SUBSET Tokens]

TypeOK ==
    /\ effect \in [Effects ->
          [state : {"NONE", "RESERVED", "PREPARED", "IN_FLIGHT", "FINALIZED"},
           members : SUBSET Tokens, owner : 0 .. MaxEpoch, gen : Nat, live : BOOLEAN,
           publishes : BOOLEAN, planned : SUBSET Tokens, diverted : SUBSET Tokens,
           done : SUBSET Tokens]]
    /\ tail \in 0 .. MaxEffects
    /\ attempts \in [Effects -> Seq(Attempt)]
    /\ epoch \in 1 .. MaxEpoch
    /\ co \in [pc : {"idle", "effect", "claimed", "leased", "unit", "reconciling", "answer",
                     "committing", "committed", "stopped"},
               asked : SUBSET Tokens, queue : SUBSET Effects, gen : Nat, att : Nat,
               unit : Units \cup {0}, div : SUBSET Tokens]
    /\ wire \subseteq [effect : Effects, unit : Units, att : Nat \ {0}]
    /\ target \in [Effects -> [Units -> [held : Nat, late : BOOLEAN, div : SUBSET Tokens]]]

Init ==
    /\ perMember \in Adapters
    /\ effect = [e \in Effects |-> NoEffect]
    /\ tail = 0
    /\ attempts = [e \in Effects |-> <<>>]
    /\ epoch = 1
    /\ co = Idle
    /\ wire = {}
    /\ target = [e \in Effects |-> [u \in Units |-> [held |-> 0, late |-> FALSE, div |-> {}]]]

--------------------------------------------------------------------------------
(* The coordinator and its authority. *)

\* The coordinator is at step pc of effect e: its queue is worked in stream order.
At(pc, e) == co.pc = pc /\ e \in co.queue /\ \A f \in co.queue : e <= f

Update(e, r) == effect' = [effect EXCEPT ![e] = r]

\* An exception leaves the write, and with it the run.
Stopped == [Idle EXCEPT !.pc = "stopped"]

\* Owner, generation and deadline, as heartbeat_lease and the strict verbs compare them.
HoldsLease(e) ==
    /\ effect[e].state = "IN_FLIGHT" /\ effect[e].owner = epoch
    /\ effect[e].gen = co.gen /\ effect[e].live

\* _require_predecessor_finalized, and the same walk over the whole chain.
PredecessorsFinalized(e) == \A p \in 1 .. e - 1 : effect[p].state = "FINALIZED"

--------------------------------------------------------------------------------
(* Reservation: tokens not yet bound become one new effect at the stream's *)
(* tail; a bound token stays in the effect it is in, however it is batched *)
(* now.                                                                    *)

Unbound(T) == {t \in T : \A e \in Effects : t \notin effect[e].members}

Reserve(T) ==
    /\ co.pc = "idle" /\ T # {}
    /\ LET fresh == Unbound(T)
           open  == {e \in Effects : effect[e].members \cap T # {} /\ effect[e].state # "FINALIZED"}
       IN  \/ /\ fresh = {}
              /\ co' = [Idle EXCEPT !.pc = "effect", !.asked = T, !.queue = open]
              /\ UNCHANGED <<effect, tail>>
           \/ /\ fresh # {} /\ tail < MaxEffects
              /\ co' = [Idle EXCEPT !.pc = "effect", !.asked = T, !.queue = open \cup {tail + 1}]
              /\ tail' = tail + 1
              /\ Update(tail + 1, [NoEffect EXCEPT !.state = "RESERVED", !.members = fresh])
    /\ UNCHANGED <<perMember, attempts, epoch, wire, target>>

\* Every effect of the group is finalized: the write returns.
Return ==
    /\ co.pc = "effect" /\ co.queue = {}
    /\ co' = Idle
    /\ UNCHANGED <<perMember, effect, tail, attempts, epoch, wire, target>>

\* An open effect needs all of its members in the caller's group and all of its
\* predecessors finalized; only this coordinator could finalize those, so the
\* bounded wait for them ends in the same refusal.
MayExecute(e) == effect[e].members \subseteq co.asked /\ PredecessorsFinalized(e)

Refuse(e) ==
    /\ At("effect", e) /\ ~MayExecute(e)
    /\ co' = Stopped
    /\ UNCHANGED <<perMember, effect, tail, attempts, epoch, wire, target>>

--------------------------------------------------------------------------------
(* Preparation and leases.  A live lease of an earlier epoch is waited for. *)

\* Faulty: an expired claim of an earlier worker is respected for ever.
ClaimUnclaimed(e) ==
    /\ At("effect", e) /\ MayExecute(e)
    /\ effect[e].state = "RESERVED" /\ effect[e].owner \in {0, epoch}
    /\ Update(e, [effect[e] EXCEPT !.owner = epoch, !.gen = @ + 1, !.live = TRUE])
    /\ co' = [co EXCEPT !.pc = "claimed", !.gen = effect[e].gen + 1]
    /\ UNCHANGED <<perMember, tail, attempts, epoch, wire, target>>

ClaimPreparation(e) ==
    /\ At("effect", e) /\ MayExecute(e)
    /\ effect[e].state = "RESERVED"
    /\ effect[e].owner \in {0, epoch} \/ ~effect[e].live
    /\ Update(e, [effect[e] EXCEPT !.owner = epoch, !.gen = @ + 1, !.live = TRUE])
    /\ co' = [co EXCEPT !.pc = "claimed", !.gen = effect[e].gen + 1]
    /\ UNCHANGED <<perMember, tail, attempts, epoch, wire, target>>

\* heartbeat_lease revives an expired claim nobody took; an expired lease it refuses.
ReviveClaim(e) ==
    /\ At("claimed", e) /\ effect[e].state = "RESERVED"
    /\ effect[e].owner = epoch /\ effect[e].gen = co.gen /\ ~effect[e].live
    /\ Update(e, [effect[e] EXCEPT !.live = TRUE])
    /\ UNCHANGED <<perMember, tail, attempts, epoch, co, wire, target>>

\* The plan diverts some members and may need no publication; it must need none
\* when it diverts all of them.
CompletePlan(e, D, publishes) ==
    /\ At("claimed", e) /\ effect[e].state = "RESERVED"
    /\ effect[e].owner = epoch /\ effect[e].gen = co.gen
    /\ PredecessorsFinalized(e)
    /\ D \subseteq effect[e].members /\ (publishes => D # effect[e].members)
    /\ Update(e, [effect[e] EXCEPT !.state = "PREPARED", !.owner = 0, !.live = FALSE,
                                   !.publishes = publishes, !.planned = D, !.diverted = D])
    /\ co' = [co EXCEPT !.pc = "effect"]
    /\ UNCHANGED <<perMember, tail, attempts, epoch, wire, target>>

FinalizeNoPublication(e) ==
    /\ At("effect", e) /\ MayExecute(e)
    /\ effect[e].state = "PREPARED" /\ ~effect[e].publishes
    /\ attempts[e] = <<>>
    /\ Update(e, [effect[e] EXCEPT !.state = "FINALIZED", !.done = effect[e].members])
    /\ co' = [co EXCEPT !.queue = @ \ {e}]
    /\ UNCHANGED <<perMember, tail, attempts, epoch, wire, target>>

\* acquire_lease from PREPARED, takeover_expired from IN_FLIGHT.
Lease(e) ==
    /\ At("effect", e) /\ MayExecute(e)
    /\ effect[e].publishes
    /\ effect[e].state = "PREPARED" \/ (effect[e].state = "IN_FLIGHT" /\ ~effect[e].live)
    /\ Update(e, [effect[e] EXCEPT !.state = "IN_FLIGHT", !.owner = epoch, !.gen = @ + 1,
                                   !.live = TRUE])
    /\ co' = [co EXCEPT !.pc = "leased", !.gen = effect[e].gen + 1]
    /\ UNCHANGED <<perMember, tail, attempts, epoch, wire, target>>

--------------------------------------------------------------------------------
(* Attempts. *)

Begin(e, u, act) ==
    attempts' = [attempts EXCEPT ![e] = Append(@,
        [unit |-> u, act |-> act, gen |-> co.gen, st |-> "INTENT", res |-> "NONE", div |-> {},
         at |-> Len(@) + 1 + Skew[epoch]])]

Close(e, i, st, res, D) ==
    attempts' = [attempts EXCEPT ![e][i] =
        [attempts[e][i] EXCEPT !.st = st, !.res = res, !.div = D]]

Of(e, u, act, st) ==
    {i \in DOMAIN attempts[e] : /\ attempts[e][i].unit = u /\ attempts[e][i].act = act
                                /\ attempts[e][i].st = st}

\* Faulty: any returned reconciliation is believed.
EveryReconcile(e, u) == Of(e, u, "RECONCILE", "RETURNED")

\* A returned reconciliation is believed if it started after every lost commit, by
\* the clocks of the workers that began them.
FreshReconcile(e, u) ==
    {i \in Of(e, u, "RECONCILE", "RETURNED") :
        \A j \in Of(e, u, "COMMIT", "RESPONSE_LOST") : attempts[e][i].at > attempts[e][j].at}

\* What the next step of a unit may rest on: a returned commit before any
\* reconciliation.
Evidence(e, u) ==
    IF Of(e, u, "COMMIT", "RETURNED") # {} THEN Of(e, u, "COMMIT", "RETURNED")
    ELSE FreshReconcile(e, u)

\* Faulty: attempts left open by a lost worker are passed by.
KeepAbandoned(e) ==
    /\ At("leased", e) /\ HoldsLease(e)
    /\ co' = [co EXCEPT !.pc = "unit"]
    /\ UNCHANGED <<perMember, effect, tail, attempts, epoch, wire, target>>

\* _close_abandoned_attempts under the recovery lease: one transaction per attempt
\* left open, of which there is at most one, as every coordinator closes what it
\* finds before it begins another.
CloseAbandoned(e) ==
    /\ At("leased", e) /\ HoldsLease(e)
    /\ attempts' = [attempts EXCEPT ![e] = [i \in DOMAIN @ |->
          IF @[i].st = "INTENT" THEN [@[i] EXCEPT !.st = "RESPONSE_LOST"] ELSE @[i]]]
    /\ co' = [co EXCEPT !.pc = "unit"]
    /\ UNCHANGED <<perMember, effect, tail, epoch, wire, target>>

\* Members already finalized, or diverted by the plan, are passed by.
Remaining(e) ==
    IF perMember THEN effect[e].members \ (effect[e].done \cup effect[e].diverted) ELSE {0}

AtUnit(e, u) == At("unit", e) /\ u \in Remaining(e) /\ \A v \in Remaining(e) : u <= v

Reuse(e, u) ==
    /\ AtUnit(e, u)
    /\ \E i \in Evidence(e, u) : co' = [co EXCEPT !.pc = "answer", !.unit = u, !.att = i]
    /\ UNCHANGED <<perMember, effect, tail, attempts, epoch, wire, target>>

\* begin_attempt compares state and generation, not the deadline.
MayBegin(e) == effect[e].state = "IN_FLIGHT" /\ effect[e].gen = co.gen

BeginReconcile(e, u) ==
    /\ AtUnit(e, u) /\ Evidence(e, u) = {} /\ MayBegin(e)
    /\ Begin(e, u, "RECONCILE")
    /\ co' = [co EXCEPT !.pc = "reconciling", !.unit = u, !.att = Len(attempts[e]) + 1]
    /\ UNCHANGED <<perMember, effect, tail, epoch, wire, target>>

Applied(e, u) == target[e][u].held > 0 \/ target[e][u].late

\* The adapter reports what the target shows, or that it cannot tell; the answer
\* is recorded only by a coordinator that still holds the lease.
Reconcile(e, known) ==
    /\ At("reconciling", e) /\ HoldsLease(e)
    /\ LET u == co.unit
       IN  Close(e, co.att, "RETURNED",
                 IF ~known THEN "UNKNOWN" ELSE IF Applied(e, u) THEN "APPLIED" ELSE "NOT_APPLIED",
                 IF known THEN target[e][u].div ELSE {})
    /\ co' = [co EXCEPT !.pc = "answer"]
    /\ UNCHANGED <<perMember, effect, tail, epoch, wire, target>>

\* The call raises, or the lease was found lost after it: mark_response_lost.
LoseResponse(e) ==
    /\ epoch < MaxEpoch
    /\ At("reconciling", e) \/ At("committing", e) \/ At("committed", e)
    /\ Close(e, co.att, "RESPONSE_LOST", "NONE", {})
    /\ co' = Stopped
    /\ UNCHANGED <<perMember, effect, tail, epoch, wire, target>>

--------------------------------------------------------------------------------
(* What an answer leads to.  A member adapter first persists the member's  *)
(* result, which needs the lease.                                          *)

Answer(e, results) ==
    /\ At("answer", e) /\ attempts[e][co.att].res \in results
    /\ perMember => HoldsLease(e)

\* UNKNOWN: the effect stays as it is and the write fails.
Block(e) ==
    /\ Answer(e, {"UNKNOWN"})
    /\ co' = Stopped
    /\ UNCHANGED <<perMember, effect, tail, attempts, epoch, wire, target>>

\* Faulty: a refused member counts as accepted.
SettleAsAccepted(e) ==
    /\ perMember /\ Answer(e, {"APPLIED", "COMMITTED"})
    /\ Update(e, [effect[e] EXCEPT !.done = @ \cup {co.unit}])
    /\ co' = [co EXCEPT !.pc = "unit"]
    /\ UNCHANGED <<perMember, tail, attempts, epoch, wire, target>>

SettleMember(e) ==
    /\ perMember /\ Answer(e, {"APPLIED", "COMMITTED"})
    /\ Update(e, [effect[e] EXCEPT !.done = @ \cup {co.unit},
                                   !.diverted = @ \cup attempts[e][co.att].div])
    /\ co' = [co EXCEPT !.pc = "unit"]
    /\ UNCHANGED <<perMember, tail, attempts, epoch, wire, target>>

Committable == {"NOT_APPLIED"}

BeginCommit(e) ==
    /\ Answer(e, Committable) /\ MayBegin(e)
    /\ Begin(e, co.unit, "COMMIT")
    /\ wire' = wire \cup {[effect |-> e, unit |-> co.unit, att |-> Len(attempts[e]) + 1]}
    /\ co' = [co EXCEPT !.pc = "committing", !.att = Len(attempts[e]) + 1]
    /\ UNCHANGED <<perMember, effect, tail, epoch, target>>

\* The rows the target refuses: a member adapter's request applies its row or not;
\* a group's request applies the others.
Refusals(r) ==
    IF perMember THEN {{}, {r.unit}}
    ELSE IF Applied(r.effect, r.unit) THEN {target[r.effect][r.unit].div}
    ELSE SUBSET (effect[r.effect].members \ effect[r.effect].diverted)

Awaited(r) == At("committing", r.effect) /\ co.unit = r.unit /\ co.att = r.att

\* A request reaches the target, now or after its sender gave up on it.
Land(r, D) ==
    /\ wire' = wire \ {r}
    /\ IF perMember /\ D # {} THEN UNCHANGED target
       ELSE LET shown == target[r.effect][r.unit]
            IN  target' = [target EXCEPT ![r.effect][r.unit] =
                    IF Awaited(r) THEN [shown EXCEPT !.held = shown.held + 1, !.div = D]
                    ELSE [shown EXCEPT !.late = TRUE, !.div = D]]
    /\ co' = IF Awaited(r) THEN [co EXCEPT !.pc = "committed", !.div = D] ELSE co
    /\ UNCHANGED <<perMember, effect, tail, attempts, epoch>>

RecordCommit(e) ==
    /\ At("committed", e) /\ HoldsLease(e)
    /\ Close(e, co.att, "RETURNED", "COMMITTED", co.div)
    /\ co' = [co EXCEPT !.pc = "answer", !.div = {}]
    /\ UNCHANGED <<perMember, effect, tail, epoch, wire, target>>

\* Faulty: the partition of the plan is recorded, not that of the result.
FinalizeAsPlanned(e) ==
    /\ HoldsLease(e) /\ PredecessorsFinalized(e)
    /\ IF perMember THEN At("unit", e) /\ Remaining(e) = {}
       ELSE Answer(e, {"APPLIED", "COMMITTED"})
    /\ Update(e, [effect[e] EXCEPT !.state = "FINALIZED", !.owner = 0, !.live = FALSE,
                                   !.done = effect[e].members])
    /\ co' = [co EXCEPT !.pc = "effect", !.queue = @ \ {e}]
    /\ UNCHANGED <<perMember, tail, attempts, epoch, wire, target>>

\* Every unit has an exact result: artifact, outcomes, members and effect in one
\* transaction.
Finalize(e) ==
    /\ HoldsLease(e) /\ PredecessorsFinalized(e)
    /\ IF perMember THEN At("unit", e) /\ Remaining(e) = {}
       ELSE Answer(e, {"APPLIED", "COMMITTED"})
    /\ Update(e, [effect[e] EXCEPT !.state = "FINALIZED", !.owner = 0, !.live = FALSE,
                    !.done = effect[e].members,
                    !.diverted = @ \cup (IF perMember THEN {} ELSE attempts[e][co.att].div)])
    /\ co' = [co EXCEPT !.pc = "effect", !.queue = @ \ {e}]
    /\ UNCHANGED <<perMember, tail, attempts, epoch, wire, target>>

--------------------------------------------------------------------------------
(* Faults: the last epoch explored meets none. *)

\* The run is resumed, or its seat taken over, wherever the coordinator was.
NewLeader ==
    /\ epoch < MaxEpoch
    /\ epoch' = epoch + 1
    /\ co' = Idle
    /\ UNCHANGED <<perMember, effect, tail, attempts, wire, target>>

\* A claim or lease runs out, its holder gone or stalled past its heartbeats.
Expire(e) ==
    /\ effect[e].live /\ (effect[e].owner # epoch \/ epoch < MaxEpoch)
    /\ Update(e, [effect[e] EXCEPT !.live = FALSE])
    /\ UNCHANGED <<perMember, tail, attempts, epoch, co, wire, target>>

--------------------------------------------------------------------------------
Prepare(e) ==
    \/ Refuse(e)
    \/ ClaimPreparation(e)
    \/ ReviveClaim(e)
    \/ \E D \in SUBSET effect[e].members, publishes \in BOOLEAN : CompletePlan(e, D, publishes)
    \/ FinalizeNoPublication(e)
    \/ Lease(e)

Execute(e) ==
    \/ CloseAbandoned(e)
    \/ \E u \in Units : Reuse(e, u)
    \/ \E u \in Units : BeginReconcile(e, u)
    \/ \E known \in BOOLEAN : Reconcile(e, known)
    \/ LoseResponse(e)
    \/ Block(e)
    \/ SettleMember(e)
    \/ BeginCommit(e)
    \/ RecordCommit(e)
    \/ Finalize(e)

Next ==
    \/ \E T \in Groups[epoch] : Reserve(T)
    \/ Return
    \/ \E e \in Effects : Prepare(e) \/ Execute(e) \/ Expire(e)
    \/ \E r \in wire : \E D \in Refusals(r) : Land(r, D)
    \/ NewLeader

Spec == Init /\ [][Next]_vars

--------------------------------------------------------------------------------
(* Safety. *)

UnitOf(t) == IF perMember THEN t ELSE 0

\* "NOT_APPLIED: ... The coordinator may commit once": over any number of crashes,
\* lost answers and takeovers, at most one commit of a unit lands while the
\* coordinator that sent it is still leading and waiting for it.
OneHeldPublication == \A e \in Effects, u \in Units : target[e][u].held <= 1

\* The target refused the row: a member adapter's in the answer to its commit, a
\* group's in what the target shows of the group.
Refused(e, t) ==
    IF perMember THEN \E i \in Of(e, t, "COMMIT", "RETURNED") : t \in attempts[e][i].div
    ELSE Applied(e, 0) /\ t \in target[e][0].div

\* A member that a finalized publishing effect records as accepted did reach the
\* target, and one it records as diverted after the plan was refused by it.
FinalizedIsPublished ==
    \A e \in Effects : effect[e].state = "FINALIZED" /\ effect[e].publishes =>
        /\ \A t \in effect[e].members \ effect[e].diverted :
              Applied(e, UnitOf(t)) /\ t \notin target[e][UnitOf(t)].div
        /\ \A t \in effect[e].diverted \ effect[e].planned : Refused(e, t)

CommitsOf(e, u) == {i \in DOMAIN attempts[e] : attempts[e][i].unit = u /\ attempts[e][i].act = "COMMIT"}

NewCommit(e, u) == CommitsOf(e, u)' # CommitsOf(e, u)

\* "Lease takeover is ... not permission to guess. The new owner must ... reconcile
\* before it can publish": when a unit is committed again, every earlier commit
\* is closed as lost and a reconciliation begun after all of them reported NOT_APPLIED.
ReconcileBeforeRepublish ==
    [][\A e \in Effects, u \in Units : NewCommit(e, u) =>
          \E i \in Of(e, u, "RECONCILE", "RETURNED") :
              /\ attempts[e][i].res = "NOT_APPLIED"
              /\ \A j \in CommitsOf(e, u) : attempts[e][j].st = "RESPONSE_LOST" /\ j < i]_vars

\* The last word on a unit is that its state cannot be told.
Uncertain(e, u) ==
    \E i \in FreshReconcile(e, u) : attempts[e][i].res = "UNKNOWN"

\* A request that reached the target carried the row of t, and it was not refused.
Carried(e, t) ==
    /\ t \in effect[e].members /\ t \notin target[e][UnitOf(t)].div
    /\ perMember \/ t \notin effect[e].diverted

OutcomeOf(t) ==
    LET final == {e \in Effects : t \in effect[e].members /\ effect[e].state = "FINALIZED"}
    IN  IF final = {} THEN "open"
        ELSE IF \E e \in final : t \in effect[e].diverted THEN "diverted"
        ELSE IF \E e \in final : effect[e].publishes THEN "accepted" ELSE "covered"

\* How often the leader in charge has published each token.
Publications == [t \in Tokens |->
    IF \E e \in Effects : Carried(e, t)
    THEN target[CHOOSE e \in Effects : Carried(e, t)][UnitOf(t)].held ELSE 0]

Strays == {t \in Tokens : \E e \in Effects : Carried(e, t) /\ target[e][UnitOf(t)].late}

Delivery == INSTANCE SinkDelivery WITH
    published <- Publications, stray <- Strays, outcome <- [t \in Tokens |-> OutcomeOf(t)]

\* The coordinator, with its leases, attempts and takeovers, delivers each token as
\* SinkDelivery promises: published at most once by the leader in charge, and
\* before its outcome says so.
ImplementsSinkDelivery == Delivery!Spec

--------------------------------------------------------------------------------
(* Liveness. *)

Blocked(e) == \E f \in 1 .. e, u \in Units : Uncertain(f, u)

Fairness ==
    /\ WF_vars(Return \/ \E e \in Effects : Prepare(e) \/ Execute(e))
    /\ WF_vars(\E e \in Effects : Expire(e))
    /\ WF_vars(\E T \in Groups[epoch] : Reserve(T))
    /\ WF_vars(\E r \in wire : \E D \in Refusals(r) : Land(r, D))

FairSpec == Spec /\ Fairness

\* Whatever crashes and lost answers came before, a leader that is no longer
\* disturbed and flushes every token gets each of them finalized, unless a target
\* could not tell what it had applied.
EventuallySettled ==
    (epoch = MaxEpoch) ~>
        \A t \in UNION Groups[MaxEpoch] : \E e \in Effects :
            t \in effect[e].members /\ (effect[e].state = "FINALIZED" \/ Blocked(e))
================================================================================
