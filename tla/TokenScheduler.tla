---------------------------- MODULE TokenScheduler -----------------------------
(***************************************************************************)
(* The token work journal of one run (token_work_items, token_outcomes) on *)
(* top of its coordination plane: ingest, claims, heartbeats, forks,       *)
(* dispositions, lease recovery, barrier release, sink handoff, resume and *)
(* finalization.  Every action is one write transaction, or one step of a  *)
(* process between two of them.                                            *)
(*                                                                         *)
(* Each token has one journal row.  A token that continues at a later node *)
(* after a barrier is one of the barrier's products here.                  *)
(***************************************************************************)
EXTENDS RunCoordination

CONSTANTS
    Tokens,       \* tokens the run may create
    Nil,          \* no parent; no claim
    Parent,       \* producer of each token: a fork parent or a barrier member
    LeaseTime,    \* scheduler_lease_seconds
    StallBudget,  \* how long a live owner's expired lease is left alone
    MaxAttempt    \* bound: attempts explored per token

ASSUME TokensAssumption ==
    Nil \notin Tokens /\ Parent \in [Tokens -> Tokens \cup {Nil}]
ASSUME LeaseAssumption ==
    /\ LeaseTime \in Nat /\ StallBudget \in Nat /\ MaxAttempt \in Nat
    /\ StallBudget < Horizon

VARIABLES
    item,         \* the token_work_items row of each token
    outcome,      \* the token row and its completed or ABANDONED outcome
    claim,        \* the transform claim each process is traversing
    mode,         \* what each process is doing
    resumable     \* the sources are complete and a checkpoint exists

workVars == <<item, outcome, claim, mode, resumable>>
vars == <<coordVars, workVars>>

Statuses == {"NONE", "READY", "LEASED", "BLOCKED", "PENDING_SINK", "TERMINAL", "FAILED"}
Open     == {"READY", "LEASED", "BLOCKED", "PENDING_SINK"}
LeaseLeft == -Horizon .. LeaseTime

Items  == [status : Statuses, attempt : Nat, owner : Workers \cup {NoWorker},
           left : LeaseLeft, sink : BOOLEAN]
Claims == [token : Tokens \cup {Nil}, attempt : Nat,
           step : {"none", "working", "forked", "settled"}]

NoItem  == [status |-> "NONE", attempt |-> 0, owner |-> NoWorker, left |-> -Horizon, sink |-> FALSE]
NoClaim == [token |-> Nil, attempt |-> 0, step |-> "none"]

Fresh(status, owner) ==
    [status |-> status, attempt |-> 1, owner |-> owner,
     left |-> IF status = "LEASED" THEN LeaseTime ELSE -Horizon,
     sink |-> status = "PENDING_SINK"]

Decided(t)   == outcome[t] \in {"forked", "settled"}
Undecided(t) == outcome[t] = "none"
Children(t)  == {c \in Tokens : Parent[c] = t}
Forked(t)    == outcome[t] = "forked"
Roots        == {t \in Tokens : Parent[t] = Nil}

SchedTypeOK ==
    /\ TypeOK
    /\ item \in [Tokens -> Items]
    /\ outcome \in [Tokens -> {"absent", "none", "forked", "settled", "abandoned"}]
    /\ claim \in [Workers -> Claims]
    /\ mode \in [Workers -> {"idle", "driving", "requeueing", "checking", "closing"}]
    /\ resumable \in BOOLEAN

Init ==
    /\ CoordInit
    /\ item = [t \in Tokens |-> NoItem]
    /\ outcome = [t \in Tokens |-> "absent"]
    /\ claim = [w \in Workers |-> NoClaim]
    /\ mode = [w \in Workers |-> "idle"]
    /\ resumable = FALSE

--------------------------------------------------------------------------------
(* Fences and helpers. *)

SetMode(w, m) == mode' = [mode EXCEPT ![w] = m]
DropClaim(w)  == claim' = [claim EXCEPT ![w] = NoClaim]
Claim(t, n)   == [token |-> t, attempt |-> n, step |-> "working"]
Stepped(w, s) == [token |-> claim[w].token, attempt |-> claim[w].attempt, step |-> s]

\* A leader verb of the running pipeline: epoch fence first, seat renewed.
Leads(w) == LeaderWrite(w) /\ mode[w] = "driving"

\* The compare-and-set of a disposition: work_item_id (which names the
\* attempt), LEASED, transform subtype, owner; the deadline is not compared.
HoldsClaim(w) ==
    LET t == claim[w].token
    IN  /\ t # Nil
        /\ item[t].status = "LEASED" /\ ~ item[t].sink
        /\ item[t].owner = w /\ item[t].attempt = claim[w].attempt

\* A verb of the claimant: membership fence and the claim's compare-and-set.
Works(w) == MemberFence(w) /\ mode[w] = "driving" /\ HoldsClaim(w) /\ UNCHANGED coordVars

\* The row's next contents: without an owner, leased to w, or parked by w.
Released(t, status) ==
    [status |-> status, attempt |-> item[t].attempt, owner |-> NoWorker, left |-> -Horizon,
     sink |-> item[t].sink]
Leased(t, w) ==
    [status |-> "LEASED", attempt |-> item[t].attempt, owner |-> w, left |-> LeaseTime,
     sink |-> item[t].sink]
Parked(t, w) ==
    [status |-> "PENDING_SINK", attempt |-> item[t].attempt, owner |-> w, left |-> -Horizon,
     sink |-> TRUE]

--------------------------------------------------------------------------------
(* Entry points: the coordination verbs and the process they start or end. *)

StartRun(w) == mode[w] = "idle" /\ BeginRun(w) /\ SetMode(w, "driving") /\ UNCHANGED <<item, outcome, claim, resumable>>

Join(w) == mode[w] = "idle" /\ AdmitFollower(w) /\ SetMode(w, "driving") /\ UNCHANGED <<item, outcome, claim, resumable>>

\* resume refuses a run with no checkpoint or an incomplete source before it
\* takes the seat.
Resume(w) ==
    /\ mode[w] = "idle" /\ resumable
    /\ AcquireRunLeadership(w)
    /\ SetMode(w, "requeueing")
    /\ UNCHANGED <<item, outcome, claim, resumable>>

\* elspeth abandon, the web orphan finaliser, admission refusal and durable
\* cancellation: take the seat only to finalize.
Abandon(w) ==
    /\ mode[w] = "idle"
    /\ AcquireRunLeadership(w)
    /\ SetMode(w, "closing")
    /\ UNCHANGED <<item, outcome, claim, resumable>>

LeadTerminal(w) ==
    /\ mode[w] = "idle"
    /\ AcquireTerminalLeadership(w)
    /\ SetMode(w, "closing")
    /\ UNCHANGED <<item, outcome, claim, resumable>>

Leave(w) ==
    /\ claim[w] = NoClaim
    /\ ReleaseSeat(w) \/ DepartWorker(w)
    /\ SetMode(w, "closing")
    /\ UNCHANGED <<item, outcome, claim, resumable>>

Heartbeat(w) == WorkerHeartbeat(w) /\ UNCHANGED workVars

\* A refused verb or an unhandled error ends the process's work; shutdown too.
StopWork(w) ==
    /\ Running(w) /\ mode[w] \in {"driving", "requeueing", "checking"} /\ claim[w] = NoClaim
    /\ SetMode(w, "closing")
    /\ UNCHANGED <<coordVars, item, outcome, claim, resumable>>

\* The sources are exhausted and a checkpoint is saved.
SaveResumePoint(w) ==
    /\ Leads(w) /\ ~ resumable
    /\ resumable' = TRUE
    /\ UNCHANGED <<item, outcome, claim, mode>>

\* Faulty: a row that a peer is still traversing is not residual work.
ResidualUnleased == \E t \in Tokens : item[t].status \in Open \ {"LEASED"}

Residual == \E t \in Tokens : item[t].status \in Open

\* Faulty: no open row is taken for every token decided.
QuiescentRows == ~ Residual

Quiescent == ~ Residual /\ \A t \in Tokens : outcome[t] # "none" /\ outcome[t] # "abandoned"

\* Faulty: the undecided tokens of an unresumable run are left without a record.
FinalizeUnswept(w, status) ==
    /\ claim[w] = NoClaim
    /\ mode[w] \in (IF status \in Success THEN {"driving"} ELSE {"closing"})
    /\ CompleteRun(w, status, Quiescent)
    /\ SetMode(w, "closing")
    /\ UNCHANGED <<item, outcome, claim, resumable>>

\* complete_run: a success needs a quiescent journal with every token decided; a
\* failed or interrupted run that resume would refuse abandons its undecided tokens.
Finalize(w, status) ==
    /\ claim[w] = NoClaim
    /\ mode[w] \in (IF status \in Success THEN {"driving"} ELSE {"closing"})
    /\ CompleteRun(w, status, Quiescent)
    /\ SetMode(w, "closing")
    /\ outcome' = IF status \in Resumable /\ ~ resumable
                  THEN [t \in Tokens |-> IF Undecided(t) THEN "abandoned" ELSE outcome[t]]
                  ELSE outcome
    /\ UNCHANGED <<item, claim, resumable>>

--------------------------------------------------------------------------------
(* Ingest and claims. *)

\* ingest_row_with_initial_claim: the row's token, its journal row and the
\* leader's claim on it, together.
Ingest(w, t) ==
    /\ Leads(w) /\ claim[w] = NoClaim
    /\ t \in Roots /\ outcome[t] = "absent"
    /\ outcome' = [outcome EXCEPT ![t] = "none"]
    /\ item' = [item EXCEPT ![t] = Fresh("LEASED", w)]
    /\ claim' = [claim EXCEPT ![w] = Claim(t, 1)]
    /\ UNCHANGED <<mode, resumable>>

\* ingest_quarantine_row_with_pending_sink: born parked for its quarantine sink.
IngestQuarantine(w, t) ==
    /\ Leads(w) /\ claim[w] = NoClaim
    /\ t \in Roots /\ outcome[t] = "absent"
    /\ outcome' = [outcome EXCEPT ![t] = "none"]
    /\ item' = [item EXCEPT ![t] = Fresh("PENDING_SINK", w)]
    /\ UNCHANGED <<claim, mode, resumable>>

ClaimReady(w, t) ==
    /\ MemberFence(w) /\ mode[w] = "driving" /\ claim[w] = NoClaim
    /\ item[t].status = "READY"
    /\ item' = [item EXCEPT ![t] = Leased(t, w)]
    /\ claim' = [claim EXCEPT ![w] = Claim(t, item[t].attempt)]
    /\ UNCHANGED <<coordVars, outcome, mode, resumable>>

\* Faulty: the renewal checks the row and not the membership.
HeartbeatLeaseUnfenced(w) ==
    /\ Running(w) /\ mode[w] = "driving" /\ HoldsClaim(w) /\ UNCHANGED coordVars
    /\ item' = [item EXCEPT ![claim[w].token] = Leased(claim[w].token, w)]
    /\ UNCHANGED <<outcome, claim, mode, resumable>>

\* heartbeat_lease renews an expired lease too, as long as it was not rotated.
HeartbeatLease(w) ==
    /\ Works(w)
    /\ item' = [item EXCEPT ![claim[w].token] = Leased(claim[w].token, w)]
    /\ UNCHANGED <<outcome, claim, mode, resumable>>

\* A heartbeat that finds the row rotated abandons the result; the drain goes on.
LoseClaim(w) ==
    /\ MemberFence(w) /\ claim[w] # NoClaim /\ ~ HoldsClaim(w)
    /\ DropClaim(w)
    /\ UNCHANGED <<coordVars, item, outcome, mode, resumable>>

\* A lost membership, a disposition that misses, a renewal refused for want of
\* time or an interrupt leaves the row as it is and ends the process's work.
AbandonClaim(w) ==
    /\ Running(w) /\ claim[w] # NoClaim
    /\ DropClaim(w)
    /\ SetMode(w, "closing")
    /\ UNCHANGED <<coordVars, item, outcome, resumable>>

--------------------------------------------------------------------------------
(* The claimant's traversal and its disposition. *)

\* record_token_outcome under the item fence: at most one completed outcome, and
\* none over an ABANDONED record.
RecordOutcome(w) ==
    LET t == claim[w].token IN
    /\ Works(w) /\ claim[w].step = "working"
    /\ Undecided(t)
    /\ outcome' = [outcome EXCEPT ![t] = "settled"]
    /\ claim' = [claim EXCEPT ![w] = Stepped(w, "settled")]
    /\ UNCHANGED <<item, mode, resumable>>

\* fork_token: the children's tokens and the parent's outcome in one
\* transaction; a replay of a committed fork finds them and writes nothing.
Fork(w) ==
    LET t == claim[w].token IN
    /\ Works(w) /\ claim[w].step = "working"
    /\ Children(t) # {}
    /\ outcome[t] \in {"none", "forked"}
    /\ outcome' = [c \in Tokens |->
                     IF c = t THEN "forked"
                     ELSE IF c \in Children(t) /\ outcome[c] = "absent" THEN "none" ELSE outcome[c]]
    /\ claim' = [claim EXCEPT ![w] = Stepped(w, "forked")]
    /\ UNCHANGED <<item, mode, resumable>>

\* mark_terminal and mark_failed of a decided token; a fork's children become
\* READY in the same transaction.
Dispose(w, status) ==
    LET t == claim[w].token IN
    /\ Works(w)
    /\ \/ status = "TERMINAL" /\ claim[w].step \in {"settled", "forked"}
       \/ status = "FAILED" /\ claim[w].step = "settled"
    /\ item' = [c \in Tokens |->
                  IF c = t THEN Released(t, status)
                  ELSE IF claim[w].step = "forked" /\ c \in Children(t) /\ item[c].status = "NONE"
                       THEN Fresh("READY", NoWorker) ELSE item[c]]
    /\ DropClaim(w)
    /\ UNCHANGED <<outcome, mode, resumable>>

\* mark_blocked: a barrier arrival or a queue hold.
MarkBlocked(w) ==
    LET t == claim[w].token IN
    /\ Works(w) /\ claim[w].step = "working"
    /\ item' = [item EXCEPT ![t] = Released(t, "BLOCKED")]
    /\ DropClaim(w)
    /\ UNCHANGED <<outcome, mode, resumable>>

\* mark_pending_sink: parked with its bundle; the owner stays, the deadline goes.
MarkPendingSink(w) ==
    LET t == claim[w].token IN
    /\ Works(w) /\ claim[w].step = "working"
    /\ item' = [item EXCEPT ![t] = Parked(t, w)]
    /\ DropClaim(w)
    /\ UNCHANGED <<outcome, mode, resumable>>

\* The drain's exception arm: the item is FAILED whatever was recorded, and the
\* worker stops.
FailClaim(w) ==
    LET t == claim[w].token IN
    /\ Works(w)
    /\ item' = [item EXCEPT ![t] = Released(t, "FAILED")]
    /\ DropClaim(w)
    /\ SetMode(w, "closing")
    /\ UNCHANGED <<outcome, resumable>>

--------------------------------------------------------------------------------
(* Leader maintenance and resume. *)

OwnerDead(t) ==
    item[t].owner \notin {w \in Workers : member[w].status = "active" /\ member[w].left >= -Grace}

\* Faulty: only an owner that left the registry is dead, and there is no stall arm.
ReapableDeparted(w, t) ==
    /\ item[t].status = "LEASED" /\ item[t].left < 0 /\ item[t].owner # w
    /\ member[item[t].owner].status # "active"

\* An expired lease of another worker whose owner is dead, or whose live owner
\* has let it go past the stall budget.
Reapable(w, t) ==
    /\ item[t].status = "LEASED" /\ item[t].left < 0 /\ item[t].owner # w
    /\ OwnerDead(t) \/ item[t].left < -StallBudget

\* Faulty: the recovered row keeps its attempt.
RecoveredSameAttempt(t) ==
    IF item[t].sink THEN Released(t, "PENDING_SINK") ELSE Released(t, "READY")

\* Back to READY as a new attempt.
Retried(t) ==
    [status |-> "READY", attempt |-> item[t].attempt + 1, owner |-> NoWorker, left |-> -Horizon,
     sink |-> item[t].sink]

\* A transform lease is retried; a sink redrive returns to PENDING_SINK
\* ownerless, with its identity and attempt.
Recovered(t) == IF item[t].sink THEN Released(t, "PENDING_SINK") ELSE Retried(t)

\* recover_expired_leases: the whole sweep in one transaction.
RecoverExpiredLeases(w) ==
    /\ Leads(w)
    /\ \E t \in Tokens : Reapable(w, t)
    /\ \A t \in Tokens : Reapable(w, t) => item[t].attempt < MaxAttempt
    /\ item' = [t \in Tokens |-> IF Reapable(w, t) THEN Recovered(t) ELSE item[t]]
    /\ UNCHANGED <<outcome, claim, mode, resumable>>

LiveLease(v) == \E t \in Tokens : item[t].status = "LEASED" /\ item[t].owner = v /\ item[t].left >= 0

Evict(w, v) ==
    /\ mode[w] = "driving"
    /\ EvictWorker(w, v, LiveLease(v))
    /\ UNCHANGED workVars

\* Faulty: resume requeues every FAILED row.
RequeueFailed(w) ==
    /\ LeaderWrite(w) /\ mode[w] = "requeueing"
    /\ \A t \in Tokens : item[t].status = "FAILED" => item[t].attempt < MaxAttempt
    /\ item' = [t \in Tokens |-> IF item[t].status = "FAILED" THEN Retried(t) ELSE item[t]]
    /\ SetMode(w, "checking")
    /\ UNCHANGED <<outcome, claim, resumable>>

\* requeue_undecided_failed_work, resume only.
RequeueUndecidedFailed(w) ==
    /\ LeaderWrite(w) /\ mode[w] = "requeueing"
    /\ \A t \in Tokens : item[t].status = "FAILED" /\ ~ Decided(t) => item[t].attempt < MaxAttempt
    /\ item' = [t \in Tokens |-> IF item[t].status = "FAILED" /\ ~ Decided(t) THEN Retried(t) ELSE item[t]]
    /\ SetMode(w, "checking")
    /\ UNCHANGED <<outcome, claim, resumable>>

\* A token resume can account for: decided or abandoned, open work of its own,
\* or a producer whose work is still to be done.
Covered(t) ==
    \/ outcome[t] # "none"
    \/ item[t].status \in Open
    \/ Parent[t] # Nil /\ item[Parent[t]].status \in {"READY", "LEASED", "BLOCKED"}

\* verify_resume_coverage: drive on, or refuse and finalize as failed.
VerifyResumeCoverage(w) ==
    /\ LeaderWrite(w) /\ mode[w] = "checking"
    /\ SetMode(w, IF \A t \in Tokens : Covered(t) THEN "driving" ELSE "closing")
    /\ UNCHANGED <<item, outcome, claim, resumable>>

--------------------------------------------------------------------------------
(* Barriers and sinks: leader verbs. *)

\* The intake pass also runs while the leader holds the claim its ingest gave it.

\* coalesce, collect and aggregation flush mint a held token's products and may
\* decide the member in the same transaction.
MintProducts(w, t) ==
    /\ Leads(w)
    /\ item[t].status = "BLOCKED" /\ Children(t) # {}
    /\ \A c \in Children(t) : outcome[c] = "absent"
    /\ \E o \in IF Undecided(t) THEN {"none", "settled"} ELSE {outcome[t]} :
          outcome' = [c \in Tokens |-> IF c = t THEN o ELSE IF c \in Children(t) THEN "none" ELSE outcome[c]]
    /\ UNCHANGED <<item, claim, mode, resumable>>

\* record_token_outcome_leader for a held token.
DecideHeld(w, t) ==
    /\ Leads(w)
    /\ item[t].status = "BLOCKED" /\ Undecided(t)
    /\ outcome' = [outcome EXCEPT ![t] = "settled"]
    /\ UNCHANGED <<item, claim, mode, resumable>>

Held == {t \in Tokens : item[t].status = "BLOCKED"}

\* complete_barrier over the firing group the leader adopted: each member is
\* consumed (decided before or here) or handed to its sink, itself and not a
\* product of it; the group's products become READY or are parked for a sink.  Later arrivals stay BLOCKED.
CompleteBarrier(w, consumed, passed, lane) ==
    /\ Leads(w)
    /\ consumed \cap passed = {} /\ consumed \cup passed # {}
    /\ \A t \in passed : Forked(t) \/ \A c \in Children(t) : outcome[c] = "absent"
    /\ outcome' = [t \in Tokens |-> IF t \in consumed /\ Undecided(t) THEN "settled" ELSE outcome[t]]
    /\ item' = [t \in Tokens |->
                  IF t \in consumed THEN Released(t, "TERMINAL")
                  ELSE IF t \in passed THEN Parked(t, w)
                  ELSE IF /\ Parent[t] \in consumed /\ ~ Forked(Parent[t])
                          /\ outcome[t] = "none" /\ item[t].status = "NONE"
                       THEN Fresh(lane, IF lane = "READY" THEN NoWorker ELSE w)
                  ELSE item[t]]
    /\ UNCHANGED <<claim, mode, resumable>>

\* claim_pending_sink: the redrive keeps identity, attempt and bundle.
ClaimPendingSink(w, t) ==
    /\ Leads(w) /\ member[w].status = "active" /\ claim[w] = NoClaim
    /\ item[t].status = "PENDING_SINK" /\ item[t].sink
    /\ item' = [item EXCEPT ![t] = Leased(t, w)]
    /\ UNCHANGED <<outcome, claim, mode, resumable>>

SinkBound(t) == item[t].sink /\ item[t].status \in {"PENDING_SINK", "LEASED"}

\* The sink effect's finalization records the token's outcome.
FinalizeSink(w, t) ==
    /\ Leads(w) /\ claim[w] = NoClaim
    /\ SinkBound(t) /\ item[t].owner = w /\ Undecided(t)
    /\ outcome' = [outcome EXCEPT ![t] = "settled"]
    /\ UNCHANGED <<item, claim, mode, resumable>>

\* mark_pending_sink_terminal[_many] of sink-bound rows, by the parking owner. The
\* verb does not look at outcomes; its caller, the sink flush, has them recorded
\* before it calls.
MarkPendingSinkTerminal(w, T) ==
    /\ Leads(w) /\ claim[w] = NoClaim /\ T # {}
    /\ \A t \in T : item[t].owner = w /\ Decided(t)
    /\ item' = [t \in Tokens |-> IF t \in T THEN Released(t, "TERMINAL") ELSE item[t]]
    /\ UNCHANGED <<outcome, claim, mode, resumable>>

\* terminalize_pending_sinks_with_terminal_outcomes: owner-blind crash repair.
RepairDecidedSinks(w) ==
    LET decided == {t \in Tokens : item[t].status = "PENDING_SINK" /\ item[t].sink /\ Decided(t)} IN
    /\ Leads(w) /\ claim[w] = NoClaim /\ decided # {}
    /\ item' = [t \in Tokens |-> IF t \in decided THEN Released(t, "TERMINAL") ELSE item[t]]
    /\ UNCHANGED <<outcome, claim, mode, resumable>>

--------------------------------------------------------------------------------
(* The environment. *)

Tick ==
    /\ CoordTick
    /\ item' = [t \in Tokens |-> [item[t] EXCEPT !.left = Aged(@)]]
    /\ UNCHANGED <<outcome, claim, mode, resumable>>

Die(w) == Crash(w) /\ UNCHANGED workVars

ProcessStep(w) ==
    \/ StartRun(w) \/ Join(w) \/ Resume(w) \/ Abandon(w) \/ LeadTerminal(w)
    \/ Leave(w) \/ Heartbeat(w) \/ StopWork(w) \/ SaveResumePoint(w)
    \/ \E status \in Terminal : Finalize(w, status)

ClaimantStep(w) ==
    \/ \E t \in Tokens : ClaimReady(w, t)
    \/ HeartbeatLease(w) \/ LoseClaim(w) \/ AbandonClaim(w)
    \/ RecordOutcome(w) \/ Fork(w)
    \/ \E status \in {"TERMINAL", "FAILED"} : Dispose(w, status)
    \/ MarkBlocked(w) \/ MarkPendingSink(w) \/ FailClaim(w)

LeaderStep(w) ==
    \/ \E t \in Tokens :
        \/ Ingest(w, t) \/ IngestQuarantine(w, t)
        \/ MintProducts(w, t) \/ DecideHeld(w, t)
        \/ ClaimPendingSink(w, t) \/ FinalizeSink(w, t)
    \/ RecoverExpiredLeases(w)
    \/ \E v \in Workers : Evict(w, v)
    \/ RequeueUndecidedFailed(w) \/ VerifyResumeCoverage(w)
    \/ \E consumed, passed \in SUBSET Held, lane \in {"READY", "PENDING_SINK"} :
          CompleteBarrier(w, consumed, passed, lane)
    \/ \E T \in SUBSET {t \in Tokens : SinkBound(t)} : MarkPendingSinkTerminal(w, T)
    \/ RepairDecidedSinks(w)

SchedNext ==
    \/ \E w \in Workers : ProcessStep(w) \/ ClaimantStep(w) \/ LeaderStep(w)
    \/ \E w \in MayCrash : Die(w)
    \/ Tick

SchedSpec == Init /\ [][SchedNext]_vars

\* A traversal ends: plugin calls return or raise.
EndClaim(w) ==
    \/ LoseClaim(w) \/ AbandonClaim(w) \/ MarkBlocked(w) \/ MarkPendingSink(w) \/ FailClaim(w)
    \/ \E status \in {"TERMINAL", "FAILED"} : Dispose(w, status)

\* The clock advances; a leader that keeps coming back from its claims keeps
\* running maintenance (every 64 iterations, and while it waits for peers).
SchedFairSpec ==
    /\ SchedSpec
    /\ WF_vars(Tick)
    /\ \A w \in Workers : /\ WF_vars(EndClaim(w))
                          /\ SF_vars(claim[w] = NoClaim /\ RecoverExpiredLeases(w))

--------------------------------------------------------------------------------
(* Properties. *)

\* No two processes, a suspended or dead one included, ever hold a claim on the
\* same attempt of the same token, so the compare-and-set on the work item's
\* identity refuses every stale one (claim_ready, _rotate_expired_leases).
AttemptsAreExclusive ==
    \A v, w \in Workers :
        v # w /\ claim[v].token # Nil /\ claim[v].token = claim[w].token
            => claim[v].attempt # claim[w].attempt

\* A TERMINAL row's token has a completed outcome, whichever of the four verbs
\* terminalized it (mark_terminal, complete_barrier, mark_pending_sink_terminal,
\* the decided-sink repair).
TerminalIsDecided == \A t \in Tokens : item[t].status = "TERMINAL" => Decided(t)

\* complete_run: a run that succeeded has no open work and no undecided or
\* abandoned token, then and at any later time.
SuccessIsComplete ==
    run \in Success =>
        \A t \in Tokens : item[t].status \notin Open /\ (outcome[t] = "absent" \/ Decided(t))

\* A run that stopped and that resume would refuse leaves no undecided token
\* behind: each is decided or carries an ABANDONED record (ADR-038).
UnresumableIsClosed ==
    run \in Resumable /\ ~ resumable => \A t \in Tokens : ~ Undecided(t)

\* An evicted follower holds no unexpired lease: eviction looks at the leases,
\* and after it the membership fence keeps the follower from renewing one.
EvictedFollowerHasNoLiveLease ==
    \A v \in Workers : member[v].role = "follower" /\ member[v].status = "evicted" => ~ LiveLease(v)

\* While a run is terminal no row changes hands or status and no token is
\* admitted or decided, whatever its former followers were in the middle of.
TerminalRunIsFrozen ==
    [][(run \in Terminal /\ run' \in Terminal) =>
         /\ outcome' = outcome
         /\ \A t \in Tokens : /\ item'[t].status = item[t].status
                              /\ item'[t].owner = item[t].owner]_vars

\* A decided row that reached TERMINAL or FAILED is never touched again: lease
\* recovery, requeue on resume and crash repair all pass it by.
FinishedRowsStay ==
    [][\A t \in Tokens : (Decided(t) /\ item[t].status \in {"TERMINAL", "FAILED"})
                            => item'[t] = item[t]]_vars

\* The lease of a dead worker is recovered as long as a leader drives the run
\* (within the explored attempts).
DeadWorkersLeaseIsRecovered ==
    \A t \in Tokens, v \in Workers :
        (item[t].status = "LEASED" /\ item[t].owner = v /\ v \in crashed)
          ~> \/ item[t].owner # v
             \/ ~ \E w \in Workers : LeaderFence(w) /\ mode[w] = "driving"
             \/ \E u \in Tokens : item[u].attempt = MaxAttempt

\* verify_resume_coverage: "a crash between the two commits leaves products with
\* no item of their own while their producer is still open work".
ItemlessProductsHaveOpenProducers ==
    \A t \in Tokens : Undecided(t) /\ item[t].status = "NONE" =>
        item[Parent[t]].status \in {"READY", "LEASED", "BLOCKED"}

\* The journal implements the token ledger.
Fate(t) == CASE outcome[t] = "absent" -> "absent"
             [] outcome[t] = "none" -> "pending"
             [] outcome[t] = "abandoned" -> "abandoned"
             [] OTHER -> "decided"

LedgerState == CASE run = "ABSENT" -> "closed"
                 [] run = "RUNNING" -> "open"
                 [] run \in Success -> "succeeded"
                 [] OTHER -> "stopped"

Ledger == INSTANCE TokenLedger WITH fate <- [t \in Tokens |-> Fate(t)], state <- LedgerState

\* Whatever claims, forks, barriers, sinks, takeovers and resumes do to the
\* journal, each of their transactions is one step of the ledger or none.
ImplementsTokenLedger == Ledger!Spec
================================================================================
