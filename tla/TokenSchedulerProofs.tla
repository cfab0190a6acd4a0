------------------------- MODULE TokenSchedulerProofs --------------------------
(*****************************************************************************)
(* Theorems about the work journal for every set of workers and tokens: the  *)
(* inductive invariant and its typing, what one step may do to a token, its  *)
(* row and the claims on it, what the run's status and the seat say about    *)
(* the journal, and the theorems.                                            *)
(*****************************************************************************)
EXTENDS TokenScheduler, RunCoordinationProofs

\* The prover of a step that names none.
USE Zenon

\* An active registry row has a role.
ActiveHasRole ==
    \A w \in Workers : member[w].status = "active" => member[w].role \in {"leader", "follower"}

SomeAbandoned == \E t \in Tokens : outcome[t] = "abandoned"

\* The occupant of a terminal or given-up run's seat no longer drives it.
ClosedSeat ==
    run \in Terminal \/ SomeAbandoned => \A w \in Workers : seat.leader = w => mode[w] = "closing"

\* The sweep that abandons tokens leaves none undecided, and resume refuses them.
SweepIsTotal == SomeAbandoned => ~ resumable /\ \A t \in Tokens : ~ Undecided(t)

\* A run that has not begun has no tokens.
AbsentRunIsEmpty == run = "ABSENT" => \A t \in Tokens : outcome[t] = "absent"

\* Rows follow tokens, and a row that was never written has no attempt.
RowsFollowTokens ==
    \A t \in Tokens : /\ outcome[t] = "absent" => item[t].status = "NONE"
                      /\ item[t].status = "NONE" <=> item[t].attempt = 0

\* A forked token's children all exist.
ForksAreWhole ==
    \A t \in Tokens : Forked(t) => \A c \in Children(t) : outcome[c] # "absent"

\* What a claimant believes it recorded is recorded.
ClaimStepsAreRecorded ==
    \A w \in Workers :
        claim[w].step \in {"settled", "forked"} =>
            /\ claim[w].token \in Tokens /\ Decided(claim[w].token)
            /\ claim[w].step = "forked" => Forked(claim[w].token)

\* A claim never runs ahead of its row, and a READY row is ahead of every claim.
ClaimsAreBehind ==
    \A w \in Workers, t \in Tokens :
        claim[w].token = t =>
            /\ 1 <= claim[w].attempt /\ claim[w].attempt <= item[t].attempt
            /\ item[t].status = "READY" => claim[w].attempt < item[t].attempt

\* The inductive invariant of the composed system.
SInv ==
    /\ IInv /\ SchedTypeOK /\ ActiveHasRole
    /\ ClosedSeat /\ SweepIsTotal /\ UnresumableIsClosed /\ SuccessIsComplete /\ AbsentRunIsEmpty
    /\ RowsFollowTokens /\ ForksAreWhole /\ TerminalIsDecided
    /\ ClaimStepsAreRecorded /\ ClaimsAreBehind /\ AttemptsAreExclusive

\* Each step of the composed system is a step of the coordination plane or
\* leaves it alone.
LEMMA CoordStep == [SchedNext]_vars => [Next]_coordVars
  <1> SUFFICES ASSUME [SchedNext]_vars PROVE [Next]_coordVars
    OBVIOUS
  <1>1. CASE UNCHANGED vars
    BY <1>1 DEF vars
  <1>2. ASSUME NEW w \in Workers, ProcessStep(w) PROVE [Next]_coordVars
    <2>1. Quiescent \in BOOLEAN
      BY DEF Quiescent
    <2>2. QED
      BY <1>2, <2>1 DEF ProcessStep, StartRun, Join, Resume, Abandon, LeadTerminal, Leave, Heartbeat,
         StopWork, SaveResumePoint, Leads, Finalize, Next
  <1>3. ASSUME NEW w \in Workers, ClaimantStep(w) PROVE [Next]_coordVars
    BY <1>3 DEF ClaimantStep, ClaimReady, HeartbeatLease, LoseClaim, AbandonClaim, RecordOutcome, Fork,
       Dispose, MarkBlocked, MarkPendingSink, FailClaim, Works
  <1>4. ASSUME NEW w \in Workers, LeaderStep(w) PROVE [Next]_coordVars
    <2>1. ASSUME NEW v \in Workers, Evict(w, v) PROVE Next
      <3>1. LiveLease(v) \in BOOLEAN
        BY DEF LiveLease
      <3>2. QED
        BY <2>1, <3>1 DEF Evict, Next
    <2>2. LeaderWrite(w) => Next
      BY DEF Next
    <2>3. QED
      BY <1>4, <2>1, <2>2 DEF LeaderStep, Ingest, IngestQuarantine, MintProducts, DecideHeld,
         ClaimPendingSink, FinalizeSink, RecoverExpiredLeases, RequeueUndecidedFailed,
         VerifyResumeCoverage, CompleteBarrier, MarkPendingSinkTerminal, RepairDecidedSinks, Leads
  <1>5. ASSUME NEW w \in MayCrash, Die(w) PROVE [Next]_coordVars
    BY <1>5 DEF Die, Next
  <1>6. CASE Tick
    BY <1>6 DEF Tick, Next
  <1>7. QED
    BY <1>1, <1>2, <1>3, <1>4, <1>5, <1>6 DEF SchedNext

\* The composed system is a coordination plane: what is proved of RunCoordination
\* holds with the journal deciding quiescence and live leases.
THEOREM CompositionTheorem == SchedSpec => Spec
  <1>1. Init => CoordInit
    BY DEF Init
  <1>2. QED
    BY <1>1, CoordStep, PTL DEF SchedSpec, Spec

--------------------------------------------------------------------------------
(* Typing. *)

\* The rows the verbs write are journal rows.
LEMMA RowTypes ==
  ASSUME SchedTypeOK, NEW w \in Workers
  PROVE  /\ \A t \in Tokens :
              /\ \A s \in Statuses : Released(t, s) \in Items
              /\ Leased(t, w) \in Items /\ Parked(t, w) \in Items
              /\ Retried(t) \in Items /\ Recovered(t) \in Items
         /\ \A s \in Statuses, o \in Workers \cup {NoWorker} : Fresh(s, o) \in Items
         /\ NoClaim \in Claims
         /\ \A t \in Tokens, n \in Nat : Claim(t, n) \in Claims
         /\ \A s \in {"working", "forked", "settled"} : Stepped(w, s) \in Claims
  <1> USE TimeAssumption, LeaseAssumption, TokensAssumption, WorkersAssumption
      DEF SchedTypeOK, Items, Claims, Statuses, LeaseLeft
  <1>1. ASSUME NEW t \in Tokens
        PROVE  /\ \A s \in Statuses : Released(t, s) \in Items
               /\ Leased(t, w) \in Items /\ Parked(t, w) \in Items
               /\ Retried(t) \in Items
    BY SMT DEF Released, Leased, Parked, Retried
  <1>2. ASSUME NEW t \in Tokens PROVE Recovered(t) \in Items
    BY <1>1 DEF Recovered
  <1>3. \A s \in Statuses, o \in Workers \cup {NoWorker} : Fresh(s, o) \in Items
    BY SMT DEF Fresh
  <1>4. /\ NoClaim \in Claims
        /\ \A t \in Tokens, n \in Nat : Claim(t, n) \in Claims
        /\ \A s \in {"working", "forked", "settled"} : Stepped(w, s) \in Claims
    BY DEF NoClaim, Claim, Stepped
  <1>5. QED
    BY <1>1, <1>2, <1>3, <1>4

\* A process step changes no journal row.
LEMMA ProcessType ==
  ASSUME SchedTypeOK, TypeOK', NEW w \in Workers, ProcessStep(w) PROVE SchedTypeOK'
  <1> USE DEF SchedTypeOK, SetMode
  <1>1. CASE StartRun(w) \/ Join(w) \/ Resume(w) \/ Abandon(w) \/ LeadTerminal(w) \/ Leave(w)
    BY <1>1 DEF StartRun, Join, Resume, Abandon, LeadTerminal, Leave
  <1>2. CASE Heartbeat(w) \/ StopWork(w) \/ SaveResumePoint(w)
    BY <1>2 DEF Heartbeat, StopWork, SaveResumePoint, workVars
  <1>3. CASE \E status \in Terminal : Finalize(w, status)
    BY <1>3 DEF Finalize
  <1>4. QED
    BY <1>1, <1>2, <1>3 DEF ProcessStep

\* A claimant's step writes journal rows and claims.
LEMMA ClaimantType ==
  ASSUME SchedTypeOK, TypeOK', NEW w \in Workers, ClaimantStep(w) PROVE SchedTypeOK'
  <1> USE RowTypes DEF SchedTypeOK, SetMode, DropClaim
  <1>1. claim[w].token \in Tokens \cup {Nil} /\ \A t \in Tokens : item[t].attempt \in Nat
    BY DEF Claims, Items
  <1>2. \A s \in {"READY", "LEASED", "BLOCKED", "PENDING_SINK", "TERMINAL", "FAILED"} : s \in Statuses
    BY DEF Statuses
  <1>3. ASSUME NEW t \in Tokens, ClaimReady(w, t) PROVE SchedTypeOK'
    BY <1>1, <1>3 DEF ClaimReady
  <1>4. CASE HeartbeatLease(w) \/ LoseClaim(w) \/ AbandonClaim(w)
    BY <1>1, <1>4 DEF HeartbeatLease, LoseClaim, AbandonClaim, Works, HoldsClaim
  <1>5. CASE RecordOutcome(w) \/ Fork(w)
    BY <1>1, <1>5, SMT DEF RecordOutcome, Fork, Works, HoldsClaim
  <1>6. ASSUME NEW status \in {"TERMINAL", "FAILED"}, Dispose(w, status) PROVE SchedTypeOK'
    BY <1>1, <1>2, <1>6 DEF Dispose, Works, HoldsClaim
  <1>7. CASE MarkBlocked(w) \/ MarkPendingSink(w) \/ FailClaim(w)
    BY <1>1, <1>2, <1>7, SMT DEF MarkBlocked, MarkPendingSink, FailClaim, Works, HoldsClaim
  <1>8. QED
    BY <1>3, <1>4, <1>5, <1>6, <1>7 DEF ClaimantStep

\* A leader's step writes journal rows and outcomes.
LEMMA LeaderType ==
  ASSUME SchedTypeOK, TypeOK', NEW w \in Workers, LeaderStep(w) PROVE SchedTypeOK'
  <1> USE RowTypes DEF SchedTypeOK, SetMode
  <1>1. \A s \in {"READY", "LEASED", "BLOCKED", "PENDING_SINK", "TERMINAL", "FAILED"} : s \in Statuses
    BY DEF Statuses
  <1>2. ASSUME NEW t \in Tokens, Ingest(w, t) \/ IngestQuarantine(w, t) PROVE SchedTypeOK'
    BY <1>1, <1>2, SMT DEF Ingest, IngestQuarantine
  <1>3. ASSUME NEW t \in Tokens, MintProducts(w, t) \/ DecideHeld(w, t) \/ FinalizeSink(w, t) PROVE SchedTypeOK'
    BY <1>3 DEF MintProducts, DecideHeld, FinalizeSink
  <1>4. ASSUME NEW t \in Tokens, ClaimPendingSink(w, t) PROVE SchedTypeOK'
    BY <1>4 DEF ClaimPendingSink
  <1>5. CASE RecoverExpiredLeases(w) \/ RequeueUndecidedFailed(w)
    BY <1>5, SMT DEF RecoverExpiredLeases, RequeueUndecidedFailed
  <1>6. CASE (\E v \in Workers : Evict(w, v)) \/ VerifyResumeCoverage(w)
    BY <1>6 DEF Evict, VerifyResumeCoverage, workVars
  <1>7. ASSUME NEW consumed, NEW passed, NEW lane \in {"READY", "PENDING_SINK"},
               CompleteBarrier(w, consumed, passed, lane)
        PROVE  SchedTypeOK'
    BY <1>1, <1>7 DEF CompleteBarrier
  <1>8. CASE (\E T \in SUBSET {t \in Tokens : SinkBound(t)} : MarkPendingSinkTerminal(w, T)) \/ RepairDecidedSinks(w)
    BY <1>1, <1>8, SMT DEF MarkPendingSinkTerminal, RepairDecidedSinks
  <1>9. QED
    BY <1>2, <1>3, <1>4, <1>5, <1>6, <1>7, <1>8 DEF LeaderStep

\* Every step keeps the types.
LEMMA TypeStep ==
  ASSUME SchedTypeOK, TypeOK', [SchedNext]_vars PROVE SchedTypeOK'
  <1>1. CASE UNCHANGED vars
    BY <1>1 DEF SchedTypeOK, vars, workVars
  <1>2. ASSUME NEW w \in Workers, ProcessStep(w) \/ ClaimantStep(w) \/ LeaderStep(w) PROVE SchedTypeOK'
    BY <1>2, ProcessType, ClaimantType, LeaderType
  <1>3. ASSUME NEW w \in MayCrash, Die(w) PROVE SchedTypeOK'
    BY <1>3 DEF Die, SchedTypeOK, workVars
  <1>4. CASE Tick
    <2>1. \A r \in Items : [r EXCEPT !.left = Aged(@)] \in Items
      BY TimeAssumption, LeaseAssumption, SMT DEF Items, LeaseLeft, Aged
    <2> HIDE DEF Items
    <2>2. QED
      BY <1>4, <2>1 DEF Tick, SchedTypeOK
  <1>5. QED
    BY <1>1, <1>2, <1>3, <1>4 DEF SchedNext

--------------------------------------------------------------------------------
(* Who may still change the journal. *)

\* Registration always gives a role, and no step changes one.
LEMMA ActiveRoleStep ==
  ASSUME TypeOK, ActiveHasRole, [Next]_coordVars PROVE ActiveHasRole'
  <1> USE DEF TypeOK, ActiveHasRole
  <1>1. CASE UNCHANGED coordVars
    BY <1>1 DEF coordVars
  <1>2. ASSUME NEW w \in Workers, BeginRun(w) \/ AdmitFollower(w) PROVE ActiveHasRole'
    BY <1>2, SMT DEF BeginRun, AdmitFollower, Registered
  <1>3. ASSUME NEW w \in Workers, NEW purpose, TakeSeat(w, purpose) PROVE ActiveHasRole'
    BY <1>3 DEF TakeSeat, Registered, SetStatus
  <1>4. ASSUME NEW w \in Workers,
               \/ ReleaseSeat(w) \/ DepartWorker(w)
               \/ \E s \in Terminal, q \in BOOLEAN : CompleteRun(w, s, q)
               \/ \E target \in Workers, holds \in BOOLEAN : EvictWorker(w, target, holds)
        PROVE  ActiveHasRole'
    BY <1>4, SMT DEF ReleaseSeat, DepartWorker, CompleteRun, EvictWorker, SetStatus
  <1>5. ASSUME NEW w \in Workers, LeaderWrite(w) \/ WorkerHeartbeat(w) PROVE ActiveHasRole'
    <2>1. \A v \in Workers : member'[v].status = member[v].status /\ member'[v].role = member[v].role
      BY <1>5, SMT DEF LeaderWrite, WorkerHeartbeat, MemberRows
    <2>2. QED
      BY <2>1
  <1>6. CASE CoordTick \/ \E w \in MayCrash : Crash(w)
    BY <1>6, SMT DEF CoordTick, Crash, MemberRows
  <1>7. QED
    BY <1>1, <1>2, <1>3, <1>4, <1>5, <1>6 DEF Next, AcquireRunLeadership, AcquireTerminalLeadership

\* A leader verb of a process that still works is a verb on a running run that
\* has abandoned nothing.
LEMMA LeaderDrives ==
  ASSUME SInv, NEW w \in Workers, LeaderFence(w), mode[w] # "closing"
  PROVE  run = "RUNNING" /\ ~ SomeAbandoned
  <1>1. seat.leader = w /\ member[w].status = "active"
    BY DEF SInv, IInv, SeatAgrees, LeaderFence, HoldsSeat
  <1>2. run # "ABSENT"
    BY <1>1 DEF SInv, IInv, TokensFollowRows
  <1>3. QED
    BY <1>1, <1>2 DEF SInv, IInv, TypeOK, ClosedSeat

\* A member verb of a process that still works is a verb on a running run.
LEMMA MemberDrives ==
  ASSUME SInv, NEW w \in Workers, MemberFence(w), mode[w] = "driving"
  PROVE  run = "RUNNING"
  <1>1. member[w].status = "active" /\ member[w].role \in {"leader", "follower"}
    BY DEF SInv, ActiveHasRole, MemberFence
  <1>2. run # "ABSENT"
    BY <1>1 DEF SInv, IInv, TokensFollowRows
  <1>3. CASE member[w].role = "leader"
    BY <1>1, <1>2, <1>3 DEF SInv, IInv, TypeOK, SeatAgrees, ClosedSeat
  <1>4. CASE member[w].role = "follower"
    BY <1>1, <1>2, <1>4 DEF SInv, IInv, TypeOK, NoFollowerOnTerminalRun, ActiveFollowers
  <1>5. QED
    BY <1>1, <1>3, <1>4

--------------------------------------------------------------------------------
\* What one step may do to a token, its row and the claims on it, and why the
\* journal part of the invariant survives every such move.

\* An outcome moves from absent to none and from none to a final one.
OutcomeMove(t) ==
    /\ \/ outcome'[t] = outcome[t]
       \/ outcome[t] = "absent" /\ outcome'[t] = "none"
       \/ outcome[t] = "none" /\ outcome'[t] \in {"settled", "forked", "abandoned"}
    /\ Forked(t)' => Forked(t) \/ \A c \in Children(t) : outcome'[c] # "absent"

\* A row keeps its status and attempt, is written for the first time, moves on in
\* the same attempt, or returns to READY in the next one.
RowMove(t) ==
    \/ item'[t].status = item[t].status /\ item'[t].attempt = item[t].attempt
    \/ /\ item[t].status = "NONE" /\ item'[t].status \in {"LEASED", "READY", "PENDING_SINK"}
       /\ item'[t].attempt = 1 /\ outcome'[t] # "absent"
    \/ /\ item[t].status # "NONE" /\ item'[t].status \notin {"NONE", "READY"}
       /\ item'[t].attempt = item[t].attempt
       /\ item'[t].status = "TERMINAL" => Decided(t)'
    \/ /\ item[t].status # "NONE" /\ item'[t].status = "READY"
       /\ item'[t].attempt = item[t].attempt + 1

\* A claim stays, goes, records what it did, or is new on a row nobody had.
ClaimMove(w) ==
    \/ claim'[w] = claim[w]
    \/ claim'[w] = NoClaim
    \/ /\ claim[w].token \in Tokens
       /\ \/ claim'[w] = Stepped(w, "settled") /\ outcome'[claim[w].token] = "settled"
          \/ claim'[w] = Stepped(w, "forked") /\ outcome'[claim[w].token] = "forked"
    \/ \E t \in Tokens :
         /\ claim'[w] = Claim(t, item'[t].attempt)
         /\ item[t].status \in {"NONE", "READY"} /\ item'[t].status = "LEASED"
         /\ \A v \in Workers \ {w} : claim'[v] = claim[v]

Moves ==
    /\ \A t \in Tokens : OutcomeMove(t) /\ RowMove(t)
    /\ \A w \in Workers : ClaimMove(w)

\* Steps of the entry points: only finalization touches the journal, and only its
\* undecided outcomes.
LEMMA ProcessMoves ==
  ASSUME SInv, NEW w \in Workers, ProcessStep(w) PROVE Moves
  <1>1. outcome \in [Tokens -> {"absent", "none", "forked", "settled", "abandoned"}]
    BY DEF SInv, SchedTypeOK
  <1>2. ASSUME UNCHANGED <<item, outcome, claim>> PROVE Moves
    BY <1>2 DEF Moves, OutcomeMove, RowMove, ClaimMove, Forked
  <1>3. CASE StartRun(w) \/ Join(w) \/ Resume(w) \/ Abandon(w) \/ LeadTerminal(w) \/ Leave(w)
    BY <1>2, <1>3 DEF StartRun, Join, Resume, Abandon, LeadTerminal, Leave
  <1>4. CASE Heartbeat(w) \/ StopWork(w) \/ SaveResumePoint(w)
    BY <1>2, <1>4 DEF Heartbeat, StopWork, SaveResumePoint, workVars
  <1>5. ASSUME NEW status \in Terminal, Finalize(w, status) PROVE Moves
    <2>1. UNCHANGED <<item, claim>>
      BY <1>5 DEF Finalize
    <2>2. \A t \in Tokens : outcome'[t] = outcome[t] \/ (outcome[t] = "none" /\ outcome'[t] = "abandoned")
      BY <1>1, <1>5 DEF Finalize, Undecided
    <2>3. \A t \in Tokens : OutcomeMove(t)
      BY <1>1, <2>2 DEF OutcomeMove, Forked
    <2>4. QED
      BY <2>1, <2>3 DEF Moves, RowMove, ClaimMove
  <1>6. QED
    BY <1>3, <1>4, <1>5 DEF ProcessStep

\* A claimant's verbs act on the row its claim names.
LEMMA ClaimantMoves ==
  ASSUME SInv, NEW w \in Workers, ClaimantStep(w) PROVE Moves
  <1> USE DEF Moves
  <1>1. /\ item \in [Tokens -> Items] /\ claim \in [Workers -> Claims] /\ DOMAIN outcome = Tokens
        /\ outcome \in [Tokens -> {"absent", "none", "forked", "settled", "abandoned"}]
    BY DEF SInv, SchedTypeOK
  <1>2. claim[w].token \in Tokens \cup {Nil} /\ \A t \in Tokens : item[t].attempt \in Nat
    BY <1>1 DEF Claims, Items
  <1>3. ASSUME NEW t \in Tokens, ClaimReady(w, t) PROVE Moves
    BY <1>1, <1>2, <1>3 DEF ClaimReady, Leased, Claim, OutcomeMove, RowMove, ClaimMove, Forked
  <1>4. CASE HeartbeatLease(w) \/ LoseClaim(w) \/ AbandonClaim(w)
    BY <1>1, <1>2, <1>4, SMT DEF HeartbeatLease, LoseClaim, AbandonClaim, Works, HoldsClaim, Leased, DropClaim,
       OutcomeMove, RowMove, ClaimMove, Forked
  <1>5. CASE RecordOutcome(w)
    <2>1. claim[w].token \in Tokens /\ outcome[claim[w].token] = "none"
      BY <1>2, <1>5 DEF RecordOutcome, Works, HoldsClaim, Undecided
    <2>2. \A t \in Tokens : OutcomeMove(t)
      BY <1>1, <1>5, <2>1 DEF RecordOutcome, OutcomeMove, Forked
    <2>3. \A t \in Tokens : RowMove(t)
      BY <1>5 DEF RecordOutcome, RowMove
    <2>4. outcome'[claim[w].token] = "settled"
      BY <1>1, <1>5, <2>1 DEF RecordOutcome
    <2>5. \A v \in Workers : ClaimMove(v)
      BY <1>1, <1>5, <2>1, <2>4 DEF RecordOutcome, ClaimMove
    <2>6. QED
      BY <2>2, <2>3, <2>5
  <1>6. CASE Fork(w)
    <2>1. claim[w].token \in Tokens /\ outcome[claim[w].token] \in {"none", "forked"}
      BY <1>2, <1>6 DEF Fork, Works, HoldsClaim
    <2>2. \A t \in Tokens : OutcomeMove(t)
      BY <1>1, <1>6, <2>1, SMT DEF Fork, OutcomeMove, Forked, Children
    <2>3. \A t \in Tokens : RowMove(t)
      BY <1>6 DEF Fork, RowMove
    <2>4. outcome'[claim[w].token] = "forked"
      BY <1>1, <1>6, <2>1 DEF Fork
    <2>5. \A v \in Workers : ClaimMove(v)
      BY <1>1, <1>6, <2>1, <2>4 DEF Fork, ClaimMove
    <2>6. QED
      BY <2>2, <2>3, <2>5
  <1>7. ASSUME NEW status \in {"TERMINAL", "FAILED"}, Dispose(w, status) PROVE Moves
    <2>1. claim[w].token \in Tokens /\ item[claim[w].token].status = "LEASED"
      BY <1>2, <1>7 DEF Dispose, Works, HoldsClaim
    <2>2. status = "TERMINAL" => Decided(claim[w].token)
      BY <1>7 DEF Dispose, SInv, ClaimStepsAreRecorded
    <2>3. claim[w].step = "forked" => \A c \in Children(claim[w].token) : outcome[c] # "absent"
      BY <2>1 DEF SInv, ClaimStepsAreRecorded, ForksAreWhole
    <2>4. QED
      BY <1>1, <1>2, <1>7, <2>1, <2>2, <2>3
      DEF Dispose, Released, Fresh, DropClaim, Decided, OutcomeMove, RowMove, ClaimMove, Forked
  <1>8. CASE MarkBlocked(w) \/ MarkPendingSink(w) \/ FailClaim(w)
    <2>1. claim[w].token \in Tokens /\ item[claim[w].token].status = "LEASED" /\ outcome' = outcome
      BY <1>2, <1>8 DEF MarkBlocked, MarkPendingSink, FailClaim, Works, HoldsClaim
    <2>2. claim' = [claim EXCEPT ![w] = NoClaim]
      BY <1>8 DEF MarkBlocked, MarkPendingSink, FailClaim, DropClaim
    <2>3. PICK row \in {Released(claim[w].token, "BLOCKED"), Released(claim[w].token, "FAILED"),
                        Parked(claim[w].token, w)} :
            item' = [item EXCEPT ![claim[w].token] = row]
      BY <1>8 DEF MarkBlocked, MarkPendingSink, FailClaim
    <2>4. /\ row.status \in {"BLOCKED", "FAILED", "PENDING_SINK"}
          /\ row.attempt = item[claim[w].token].attempt
      BY <2>3, SMT DEF Released, Parked
    <2>5. \A t \in Tokens : OutcomeMove(t)
      BY <1>1, <2>1 DEF OutcomeMove, Forked
    <2>6. \A t \in Tokens : RowMove(t)
      BY <1>1, <2>1, <2>3, <2>4 DEF RowMove
    <2>7. \A v \in Workers : ClaimMove(v)
      BY <1>1, <2>2 DEF ClaimMove
    <2>8. QED
      BY <2>5, <2>6, <2>7
  <1>9. QED
    BY <1>3, <1>4, <1>5, <1>6, <1>7, <1>8 DEF ClaimantStep

\* A leader's verbs: ingest, barriers, sinks, recovery and requeue.
LEMMA LeaderMoves ==
  ASSUME SInv, NEW w \in Workers, LeaderStep(w) PROVE Moves
  <1> USE DEF Moves
  <1>1. /\ item \in [Tokens -> Items] /\ claim \in [Workers -> Claims]
        /\ outcome \in [Tokens -> {"absent", "none", "forked", "settled", "abandoned"}]
        /\ \A t \in Tokens : item[t].attempt \in Nat
    BY DEF SInv, SchedTypeOK, Items
  <1>2. Leads(w) => ~ SomeAbandoned
    BY LeaderDrives DEF Leads, LeaderWrite
  <1>3. \A t \in Tokens : outcome[t] = "absent" => item[t].status = "NONE"
    BY DEF SInv, RowsFollowTokens
  <1>4. ASSUME NEW t \in Tokens, Ingest(w, t) \/ IngestQuarantine(w, t) PROVE Moves
    <2>1. item[t].status = "NONE" /\ outcome[t] = "absent" /\ outcome' = [outcome EXCEPT ![t] = "none"]
      BY <1>3, <1>4 DEF Ingest, IngestQuarantine
    <2>2. \A u \in Tokens : OutcomeMove(u)
      BY <1>1, <2>1 DEF OutcomeMove, Forked
    <2>3. \A u \in Tokens : RowMove(u)
      BY <1>1, <1>4, <2>1, SMT DEF Ingest, IngestQuarantine, Fresh, RowMove
    <2>4. CASE Ingest(w, t)
      <3>1. item'[t].attempt = 1 /\ item'[t].status = "LEASED"
        BY <1>1, <2>4 DEF Ingest, Fresh
      <3>2. claim' = [claim EXCEPT ![w] = Claim(t, item'[t].attempt)]
        BY <2>4, <3>1 DEF Ingest
      <3>3. \A v \in Workers : ClaimMove(v)
        BY <1>1, <2>1, <3>1, <3>2 DEF ClaimMove
      <3>4. QED
        BY <2>2, <2>3, <3>3
    <2>5. CASE IngestQuarantine(w, t)
      BY <2>2, <2>3, <2>5 DEF IngestQuarantine, ClaimMove
    <2>6. QED
      BY <1>4, <2>4, <2>5
  <1>5. ASSUME NEW t \in Tokens, MintProducts(w, t) \/ DecideHeld(w, t) \/ FinalizeSink(w, t) PROVE Moves
    <2>1. UNCHANGED <<item, claim>>
      BY <1>5 DEF MintProducts, DecideHeld, FinalizeSink
    <2>2. ASSUME MintProducts(w, t) PROVE \A u \in Tokens : OutcomeMove(u)
      <3>1. \A u \in Tokens : \/ outcome'[u] = outcome[u]
                              \/ outcome[u] = "absent" /\ outcome'[u] = "none"
                              \/ outcome[u] = "none" /\ outcome'[u] = "settled"
        BY <1>1, <2>2 DEF MintProducts, Undecided
      <3>2. QED
        BY <1>1, <3>1 DEF OutcomeMove, Forked
    <2>3. ASSUME DecideHeld(w, t) \/ FinalizeSink(w, t) PROVE \A u \in Tokens : OutcomeMove(u)
      BY <1>1, <2>3 DEF DecideHeld, FinalizeSink, Undecided, OutcomeMove, Forked
    <2>4. \A u \in Tokens : OutcomeMove(u)
      BY <1>5, <2>2, <2>3
    <2>5. QED
      BY <2>1, <2>4 DEF RowMove, ClaimMove
  <1>6. ASSUME NEW t \in Tokens, ClaimPendingSink(w, t) PROVE Moves
    BY <1>1, <1>6 DEF ClaimPendingSink, Leased, OutcomeMove, RowMove, ClaimMove, Forked
  <1>7. CASE RecoverExpiredLeases(w)
    BY <1>1, <1>7 DEF RecoverExpiredLeases, Reapable, Recovered, Released, Retried, OutcomeMove, RowMove, ClaimMove, Forked
  <1>8. CASE RequeueUndecidedFailed(w)
    BY <1>1, <1>8 DEF RequeueUndecidedFailed, Retried, OutcomeMove, RowMove, ClaimMove, Forked
  <1>9. CASE (\E v \in Workers : Evict(w, v)) \/ VerifyResumeCoverage(w)
    BY <1>9 DEF Evict, VerifyResumeCoverage, workVars, OutcomeMove, RowMove, ClaimMove, Forked
  <1>10. ASSUME NEW consumed \in SUBSET Held, NEW passed \in SUBSET Held, NEW lane \in {"READY", "PENDING_SINK"},
                CompleteBarrier(w, consumed, passed, lane)
         PROVE  Moves
    <2>1. \A t \in consumed : outcome[t] \in {"none", "forked", "settled"} /\ item[t].status = "BLOCKED"
      BY <1>1, <1>2, <1>3, <1>10 DEF CompleteBarrier, SomeAbandoned, Held
    <2>2. \A t \in Tokens : OutcomeMove(t)
      BY <1>1, <1>10 DEF CompleteBarrier, Undecided, OutcomeMove, Forked
    <2>3. \A t \in Tokens : RowMove(t)
      BY <1>1, <1>10, <2>1 DEF CompleteBarrier, Held, Undecided, Decided, Released, Parked, Fresh, RowMove
    <2>4. \A v \in Workers : ClaimMove(v)
      BY <1>10 DEF CompleteBarrier, ClaimMove
    <2>5. QED
      BY <2>2, <2>3, <2>4
  <1>11. ASSUME NEW T \in SUBSET {t \in Tokens : SinkBound(t)}, MarkPendingSinkTerminal(w, T) PROVE Moves
    BY <1>1, <1>11 DEF MarkPendingSinkTerminal, SinkBound, Decided, Released, OutcomeMove, RowMove, ClaimMove, Forked
  <1>12. CASE RepairDecidedSinks(w)
    BY <1>1, <1>12 DEF RepairDecidedSinks, Decided, Released, OutcomeMove, RowMove, ClaimMove, Forked
  <1>13. QED
    BY <1>4, <1>5, <1>6, <1>7, <1>8, <1>9, <1>10, <1>11, <1>12 DEF LeaderStep

\* Every step moves outcomes, rows and claims in these ways only.
LEMMA StepMoves == ASSUME SInv, [SchedNext]_vars PROVE Moves
  <1>1. CASE UNCHANGED vars
    BY <1>1 DEF vars, workVars, Moves, OutcomeMove, RowMove, ClaimMove, Forked
  <1>2. ASSUME NEW w \in Workers, ProcessStep(w) \/ ClaimantStep(w) \/ LeaderStep(w) PROVE Moves
    BY <1>2, ProcessMoves, ClaimantMoves, LeaderMoves
  <1>3. ASSUME NEW w \in MayCrash, Die(w) PROVE Moves
    BY <1>3 DEF Die, workVars, Moves, OutcomeMove, RowMove, ClaimMove, Forked
  <1>4. CASE Tick
    BY <1>4 DEF Tick, SInv, SchedTypeOK, Items, Moves, OutcomeMove, RowMove, ClaimMove, Forked
  <1>5. QED
    BY <1>1, <1>2, <1>3, <1>4 DEF SchedNext

--------------------------------------------------------------------------------
(* What the moves keep. *)

\* Rows and outcomes.
LEMMA RowsKeep ==
  ASSUME SInv, SchedTypeOK', Moves
  PROVE  RowsFollowTokens' /\ ForksAreWhole' /\ TerminalIsDecided'
  <1>1. \A t \in Tokens : item[t].attempt \in Nat
    BY DEF SInv, SchedTypeOK, Items
  <1>2. RowsFollowTokens'
    BY <1>1, SMT DEF SInv, RowsFollowTokens, Moves, OutcomeMove, RowMove
  <1>3. ForksAreWhole'
    BY DEF SInv, ForksAreWhole, Moves, OutcomeMove, Forked, Children
  <1>4. TerminalIsDecided'
    BY DEF SInv, TerminalIsDecided, Moves, OutcomeMove, RowMove, Decided
  <1>5. QED
    BY <1>2, <1>3, <1>4

\* A claimant's record stays true: a final outcome never changes.
LEMMA RecordsKeep ==
  ASSUME SInv, Moves PROVE ClaimStepsAreRecorded'
  <1> SUFFICES ASSUME NEW w \in Workers, claim'[w].step \in {"settled", "forked"}
               PROVE  /\ claim'[w].token \in Tokens /\ Decided(claim[w].token)'
                      /\ claim'[w].step = "forked" => Forked(claim[w].token)'
    BY DEF ClaimStepsAreRecorded
  <1>1. ClaimMove(w) /\ \A t \in Tokens : OutcomeMove(t)
    BY DEF Moves
  <1>2. CASE claim'[w] = claim[w]
    BY <1>1, <1>2 DEF SInv, ClaimStepsAreRecorded, Decided, Forked, OutcomeMove
  <1>3. CASE claim'[w] = NoClaim
    BY <1>3, SMT DEF NoClaim
  <1>4. CASE /\ claim[w].token \in Tokens
             /\ \/ claim'[w] = Stepped(w, "settled") /\ outcome'[claim[w].token] = "settled"
                \/ claim'[w] = Stepped(w, "forked") /\ outcome'[claim[w].token] = "forked"
    BY <1>4, SMT DEF Stepped, Decided, Forked
  <1>5. CASE \E t \in Tokens : claim'[w] = Claim(t, item'[t].attempt)
    BY <1>5, SMT DEF Claim
  <1>6. QED
    BY <1>1, <1>2, <1>3, <1>4, <1>5 DEF ClaimMove

\* A claim stays behind its row, because a row's attempt never goes back and a
\* row comes to READY only with a new attempt.
LEMMA ClaimsKeep ==
  ASSUME SInv, SchedTypeOK', Moves PROVE ClaimsAreBehind'
  <1> SUFFICES ASSUME NEW w \in Workers, NEW t \in Tokens, claim'[w].token = t
               PROVE  /\ 1 <= claim'[w].attempt /\ claim'[w].attempt <= item'[t].attempt
                      /\ item'[t].status = "READY" => claim'[w].attempt < item'[t].attempt
    BY DEF ClaimsAreBehind
  <1>1. ClaimMove(w) /\ RowMove(t)
    BY DEF Moves
  <1>2. item[t].attempt \in Nat /\ item'[t].attempt \in Nat /\ claim[w].attempt \in Nat /\ claim'[w].attempt \in Nat
    BY DEF SInv, SchedTypeOK, Items, Claims
  <1>3. ASSUME claim[w].token = t, claim'[w].attempt = claim[w].attempt
        PROVE  /\ 1 <= claim'[w].attempt /\ claim'[w].attempt <= item'[t].attempt
               /\ item'[t].status = "READY" => claim'[w].attempt < item'[t].attempt
    <2>1. /\ 1 <= claim[w].attempt /\ claim[w].attempt <= item[t].attempt
          /\ item[t].status = "READY" => claim[w].attempt < item[t].attempt
      BY <1>3 DEF SInv, ClaimsAreBehind
    <2>2. item[t].status # "NONE"
      BY <1>2, <2>1, SMT DEF SInv, RowsFollowTokens
    <2>3. QED
      BY <1>1, <1>2, <1>3, <2>1, <2>2, SMT DEF RowMove
  <1>4. CASE claim'[w] = claim[w]
    BY <1>3, <1>4
  <1>5. CASE claim'[w] = NoClaim
    BY <1>5, TokensAssumption, SMT DEF NoClaim
  <1>6. CASE claim'[w] = Stepped(w, "settled") \/ claim'[w] = Stepped(w, "forked")
    BY <1>3, <1>6, SMT DEF Stepped
  <1>7. CASE \E u \in Tokens : /\ claim'[w] = Claim(u, item'[u].attempt)
                               /\ item[u].status \in {"NONE", "READY"} /\ item'[u].status = "LEASED"
    <2>1. /\ claim'[w].attempt = item'[t].attempt
          /\ item[t].status \in {"NONE", "READY"} /\ item'[t].status = "LEASED"
      BY <1>7, SMT DEF Claim
    <2>2. item[t].status = "READY" => item[t].attempt # 0
      BY DEF SInv, RowsFollowTokens
    <2>3. QED
      BY <1>1, <1>2, <2>1, <2>2, SMT DEF RowMove
  <1>8. QED
    BY <1>1, <1>4, <1>5, <1>6, <1>7 DEF ClaimMove

\* A new claim is on an attempt that no other claim has reached.
LEMMA ExclusionKeeps ==
  ASSUME SInv, Moves PROVE AttemptsAreExclusive'
  <1> SUFFICES ASSUME NEW v \in Workers, NEW w \in Workers, v # w,
                      claim'[v].token # Nil, claim'[v].token = claim'[w].token,
                      claim'[v].attempt = claim'[w].attempt
               PROVE  FALSE
    BY DEF AttemptsAreExclusive
  <1> DEFINE Keeps(u) == claim'[u].token = claim[u].token /\ claim'[u].attempt = claim[u].attempt
             Fresher(u) == \E t \in Tokens : /\ claim'[u] = Claim(t, item'[t].attempt)
                                            /\ item[t].status \in {"NONE", "READY"} /\ item'[t].status = "LEASED"
                                            /\ \A x \in Workers \ {u} : claim'[x] = claim[x]
  <1>1. ASSUME NEW u \in Workers, claim'[u].token # Nil PROVE Keeps(u) \/ Fresher(u)
    <2>1. claim'[u] # NoClaim /\ ClaimMove(u)
      BY <1>1, SMT DEF NoClaim, Moves
    <2>2. CASE claim'[u] = claim[u]
      BY <2>2
    <2>3. CASE claim'[u] = Stepped(u, "settled") \/ claim'[u] = Stepped(u, "forked")
      BY <2>3, SMT DEF Stepped
    <2>4. QED
      BY <2>1, <2>2, <2>3 DEF ClaimMove
  <1>2. CASE Keeps(v) /\ Keeps(w)
    BY <1>2 DEF SInv, AttemptsAreExclusive
  <1>3. ASSUME NEW a \in Workers, NEW b \in Workers, a # b, Fresher(a),
               claim'[a].token = claim'[b].token, claim'[a].attempt = claim'[b].attempt
        PROVE  FALSE
    <2>1. PICK t \in Tokens : /\ claim'[a] = Claim(t, item'[t].attempt)
                              /\ item[t].status \in {"NONE", "READY"} /\ item'[t].status = "LEASED"
                              /\ \A x \in Workers \ {a} : claim'[x] = claim[x]
      BY <1>3
    <2>2. claim[b].token = t /\ claim[b].attempt = item'[t].attempt
      BY <1>3, <2>1, SMT DEF Claim
    <2>3. /\ 1 <= claim[b].attempt /\ claim[b].attempt <= item[t].attempt
          /\ item[t].status = "READY" => claim[b].attempt < item[t].attempt
      BY <2>2 DEF SInv, ClaimsAreBehind
    <2>4. item[t].attempt \in Nat /\ claim[b].attempt \in Nat /\ RowMove(t)
      BY DEF SInv, SchedTypeOK, Items, Claims, Moves
    <2>5. item[t].status = "READY"
      BY <2>1, <2>3, <2>4, SMT DEF SInv, RowsFollowTokens
    <2>6. QED
      BY <2>1, <2>2, <2>3, <2>4, <2>5, SMT DEF RowMove
  <1>4. QED
    BY <1>1, <1>2, <1>3

--------------------------------------------------------------------------------
\* What the run's status and the seat say about the journal, and why every step
\* keeps it.

ControlInv == ClosedSeat /\ SweepIsTotal /\ UnresumableIsClosed /\ SuccessIsComplete /\ AbsentRunIsEmpty

\* A step that neither changes hands nor status of the run, and that touches the
\* journal only while the run is RUNNING and has abandoned nothing.
QuietStep ==
    /\ run' = run /\ seat'.leader = seat.leader /\ resumable' = resumable
    /\ \A v \in Workers : mode'[v] \in {mode[v], "closing"}
    /\ run # "RUNNING" => outcome' = outcome /\ \A t \in Tokens : /\ item'[t].status = item[t].status
                                                                /\ item'[t].owner = item[t].owner
    /\ SomeAbandoned => outcome' = outcome
    /\ SomeAbandoned' => SomeAbandoned

\* A claimant's step is quiet: a process that is no longer a member, or whose run
\* is over, fails the membership fence.
LEMMA ClaimantIsQuiet ==
  ASSUME SInv, NEW w \in Workers, ClaimantStep(w) PROVE QuietStep
  <1>1. /\ mode \in [Workers -> {"idle", "driving", "requeueing", "checking", "closing"}]
        /\ outcome \in [Tokens -> {"absent", "none", "forked", "settled", "abandoned"}]
        /\ claim[w].token \in Tokens \cup {Nil}
    BY DEF SInv, SchedTypeOK, Claims
  <1>2. MemberFence(w) /\ mode[w] = "driving" => run = "RUNNING"
    BY MemberDrives
  <1>3. SomeAbandoned => \A t \in Tokens : ~ Undecided(t)
    BY DEF SInv, SweepIsTotal
  <1>4. ASSUME NEW t \in Tokens, ClaimReady(w, t) PROVE QuietStep
    BY <1>2, <1>4 DEF ClaimReady, QuietStep, SomeAbandoned, coordVars
  <1>5. CASE HeartbeatLease(w)
    BY <1>2, <1>5 DEF HeartbeatLease, Works, QuietStep, SomeAbandoned, coordVars
  <1>6. CASE LoseClaim(w) \/ AbandonClaim(w)
    BY <1>1, <1>6 DEF LoseClaim, AbandonClaim, SetMode, QuietStep, SomeAbandoned, coordVars
  <1>7. CASE RecordOutcome(w)
    <2>1. claim[w].token \in Tokens /\ Undecided(claim[w].token)
      BY <1>1, <1>7 DEF RecordOutcome, Works, HoldsClaim
    <2>2. ~ SomeAbandoned /\ ~ SomeAbandoned'
      BY <1>1, <1>3, <1>7, <2>1 DEF RecordOutcome, SomeAbandoned
    <2>3. QED
      BY <1>2, <1>7, <2>2 DEF RecordOutcome, Works, QuietStep, coordVars
  <1>8. CASE Fork(w)
    <2>1. claim[w].token \in Tokens /\ outcome[claim[w].token] \in {"none", "forked"}
      BY <1>1, <1>8 DEF Fork, Works, HoldsClaim
    <2>2. SomeAbandoned' => SomeAbandoned
      BY <1>1, <1>8, <2>1 DEF Fork, SomeAbandoned
    <2>3. ASSUME SomeAbandoned PROVE outcome' = outcome
      <3>1. Forked(claim[w].token)
        BY <1>3, <2>1, <2>3 DEF Undecided, Forked
      <3>2. \A c \in Children(claim[w].token) : outcome[c] # "absent"
        BY <2>1, <3>1 DEF SInv, ForksAreWhole
      <3>3. \A c \in Tokens : outcome'[c] = outcome[c]
        BY <1>1, <1>8, <3>1, <3>2 DEF Fork, Forked
      <3>4. outcome' = [c \in Tokens |-> outcome'[c]]
        BY <1>8 DEF Fork
      <3>5. QED
        BY <1>1, <3>3, <3>4
    <2>4. QED
      BY <1>2, <1>8, <2>2, <2>3 DEF Fork, Works, QuietStep, coordVars
  <1>9. CASE \E status \in {"TERMINAL", "FAILED"} : Dispose(w, status)
    BY <1>2, <1>9 DEF Dispose, Works, QuietStep, SomeAbandoned, coordVars
  <1>10. CASE MarkBlocked(w) \/ MarkPendingSink(w) \/ FailClaim(w)
    BY <1>1, <1>2, <1>10 DEF MarkBlocked, MarkPendingSink, FailClaim, Works, SetMode, QuietStep, SomeAbandoned, coordVars
  <1>11. QED
    BY <1>4, <1>5, <1>6, <1>7, <1>8, <1>9, <1>10 DEF ClaimantStep

\* Heartbeats, stopping, time and crashes.
EnvironmentStep ==
    \/ \E w \in Workers : Heartbeat(w) \/ StopWork(w)
    \/ Tick \/ (\E w \in MayCrash : Die(w)) \/ UNCHANGED vars

\* They are quiet.
LEMMA EnvironmentIsQuiet ==
  ASSUME SInv, EnvironmentStep PROVE QuietStep
  <1>1. /\ mode \in [Workers -> {"idle", "driving", "requeueing", "checking", "closing"}]
        /\ seat \in [leader : Workers \cup {NoWorker}, epoch : Nat, left : Deadlines]
        /\ item \in [Tokens -> Items]
    BY DEF SInv, SchedTypeOK, TypeOK
  <1>2. ASSUME NEW w \in Workers, Heartbeat(w) PROVE QuietStep
    BY <1>1, <1>2 DEF Heartbeat, QuietStep, SomeAbandoned, WorkerHeartbeat, ExtendSeat, workVars
  <1>3. ASSUME NEW w \in Workers, StopWork(w) PROVE QuietStep
    BY <1>1, <1>3 DEF StopWork, QuietStep, SomeAbandoned, SetMode, coordVars
  <1>4. CASE Tick
    BY <1>1, <1>4 DEF Tick, QuietStep, SomeAbandoned, CoordTick, Items
  <1>5. CASE (\E w \in MayCrash : Die(w)) \/ UNCHANGED vars
    BY <1>5 DEF Die, QuietStep, SomeAbandoned, Crash, vars, coordVars, workVars
  <1>6. QED
    BY <1>2, <1>3, <1>4, <1>5 DEF EnvironmentStep

\* A quiet step keeps what the run's status promises.
LEMMA QuietKeeps == ASSUME SInv, QuietStep PROVE ControlInv'
  <1>1. run' = run /\ seat'.leader = seat.leader /\ resumable' = resumable
    BY DEF QuietStep
  <1>2. run # "RUNNING" => outcome' = outcome /\ \A t \in Tokens : item'[t].status = item[t].status
    BY DEF QuietStep
  <1>3. SomeAbandoned => outcome' = outcome
    BY DEF QuietStep
  <1>4. SomeAbandoned' => SomeAbandoned
    BY DEF QuietStep
  <1>5. ClosedSeat'
    <2>1. ClosedSeat /\ \A v \in Workers : mode'[v] \in {mode[v], "closing"}
      BY DEF SInv, QuietStep
    <2>2. QED
      BY <1>1, <1>4, <2>1 DEF ClosedSeat
  <1>6. SweepIsTotal'
    <2>1. SweepIsTotal
      BY DEF SInv
    <2>2. QED
      BY <1>1, <1>3, <1>4, <2>1 DEF SweepIsTotal, Undecided
  <1>7. UnresumableIsClosed'
    <2>1. UnresumableIsClosed
      BY DEF SInv
    <2>2. QED
      BY <1>1, <1>2, <2>1 DEF UnresumableIsClosed, Undecided, Resumable
  <1>8. SuccessIsComplete'
    <2>1. SuccessIsComplete
      BY DEF SInv
    <2>2. QED
      BY <1>1, <1>2, <2>1 DEF SuccessIsComplete, Decided, Success
  <1>9. AbsentRunIsEmpty'
    <2>1. AbsentRunIsEmpty
      BY DEF SInv
    <2>2. QED
      BY <1>1, <1>2, <2>1 DEF AbsentRunIsEmpty
  <1>10. QED
    BY <1>5, <1>6, <1>7, <1>8, <1>9 DEF ControlInv

\* The verbs of the leader.
LeaderVerbStep(w) == LeaderStep(w) \/ SaveResumePoint(w)

\* A leader verb is fenced, made by a process that still works, and leaves the
\* run's status alone.
LEMMA LeaderVerb ==
  ASSUME NEW w \in Workers, LeaderVerbStep(w)
  PROVE  LeaderFence(w) /\ mode[w] # "closing" /\ run' = run
  BY DEF LeaderVerbStep, LeaderStep, SaveResumePoint, Ingest, IngestQuarantine, MintProducts, DecideHeld,
     ClaimPendingSink, FinalizeSink, RecoverExpiredLeases, RequeueUndecidedFailed, Evict, EvictWorker,
     VerifyResumeCoverage, CompleteBarrier, MarkPendingSinkTerminal, RepairDecidedSinks, Leads, LeaderWrite

\* It finds nothing abandoned and abandons nothing.
LEMMA LeaderAbandonsNothing ==
  ASSUME SInv, NEW w \in Workers, LeaderVerbStep(w) PROVE ~ SomeAbandoned'
  <1>1. ~ SomeAbandoned
    BY LeaderVerb, LeaderDrives
  <1>2. outcome \in [Tokens -> {"absent", "none", "forked", "settled", "abandoned"}]
    BY DEF SInv, SchedTypeOK
  <1>3. ASSUME NEW t \in Tokens,
               \/ Ingest(w, t) \/ IngestQuarantine(w, t) \/ MintProducts(w, t) \/ DecideHeld(w, t)
               \/ ClaimPendingSink(w, t) \/ FinalizeSink(w, t)
        PROVE  ~ SomeAbandoned'
    BY <1>1, <1>2, <1>3 DEF Ingest, IngestQuarantine, MintProducts, DecideHeld, ClaimPendingSink, FinalizeSink, SomeAbandoned
  <1>4. CASE \/ RecoverExpiredLeases(w) \/ (\E v \in Workers : Evict(w, v)) \/ RequeueUndecidedFailed(w)
             \/ VerifyResumeCoverage(w) \/ RepairDecidedSinks(w) \/ SaveResumePoint(w)
             \/ \E T \in SUBSET {t \in Tokens : SinkBound(t)} : MarkPendingSinkTerminal(w, T)
    BY <1>1, <1>4 DEF RecoverExpiredLeases, Evict, RequeueUndecidedFailed, VerifyResumeCoverage,
       RepairDecidedSinks, SaveResumePoint, MarkPendingSinkTerminal, workVars, SomeAbandoned
  <1>5. ASSUME NEW consumed, NEW passed, NEW lane, CompleteBarrier(w, consumed, passed, lane)
        PROVE  ~ SomeAbandoned'
    BY <1>1, <1>2, <1>5 DEF CompleteBarrier, SomeAbandoned
  <1>6. QED
    BY <1>3, <1>4, <1>5 DEF LeaderVerbStep, LeaderStep

\* A leader verb finds the run RUNNING with nothing abandoned, and leaves it so.
LEMMA LeaderKeeps ==
  ASSUME SInv, NEW w \in Workers, LeaderVerbStep(w) PROVE ControlInv'
  <1>1. run' = "RUNNING" /\ ~ SomeAbandoned'
    BY LeaderVerb, LeaderDrives, LeaderAbandonsNothing
  <1>2. QED
    BY <1>1 DEF ControlInv, ClosedSeat, SweepIsTotal, UnresumableIsClosed, SuccessIsComplete,
       AbsentRunIsEmpty, Terminal, Success, Resumable

\* Taking, leaving and finalizing the run.
EntryStep(w) ==
    \/ StartRun(w) \/ Join(w) \/ Resume(w) \/ Abandon(w) \/ LeadTerminal(w) \/ Leave(w)
    \/ \E status \in Terminal : Finalize(w, status)

\* A run that is RUNNING and has abandoned nothing owes nothing yet.
LEMMA RunningIsFine == ASSUME run' = "RUNNING", ~ SomeAbandoned' PROVE ControlInv'
  <1>1. run' \notin Terminal /\ run' \notin Resumable /\ run' \notin Success /\ run' # "ABSENT"
    BY DEF Terminal, Success, Resumable
  <1>2. ClosedSeat' /\ SweepIsTotal'
    BY <1>1 DEF ClosedSeat, SweepIsTotal
  <1>3. UnresumableIsClosed' /\ SuccessIsComplete' /\ AbsentRunIsEmpty'
    BY <1>1 DEF UnresumableIsClosed, SuccessIsComplete, AbsentRunIsEmpty
  <1>4. QED
    BY <1>2, <1>3 DEF ControlInv

\* A step that leaves the journal alone, and the status of the run too unless it
\* returns it to RUNNING, owes what it owed; only the seat is to be looked at.
LEMMA UntouchedKeeps ==
  ASSUME SInv, UNCHANGED <<item, outcome, resumable>>, run' = "RUNNING" \/ run' = run,
         run # "ABSENT" \/ run' = run, ClosedSeat'
  PROVE  ControlInv'
  <1>1. SomeAbandoned' <=> SomeAbandoned
    BY DEF SomeAbandoned
  <1>2. \A t \in Tokens : (Undecided(t)' <=> Undecided(t)) /\ (Decided(t)' <=> Decided(t))
    BY DEF Undecided, Decided
  <1>3. SweepIsTotal'
    <2>1. SweepIsTotal
      BY DEF SInv
    <2>2. QED
      BY <1>1, <1>2, <2>1 DEF SweepIsTotal
  <1>4. CASE run' = run
    <2>1. UnresumableIsClosed /\ SuccessIsComplete /\ AbsentRunIsEmpty
      BY DEF SInv
    <2>2. UnresumableIsClosed'
      BY <1>2, <1>4, <2>1 DEF UnresumableIsClosed
    <2>3. SuccessIsComplete'
      BY <1>2, <1>4, <2>1 DEF SuccessIsComplete
    <2>4. AbsentRunIsEmpty'
      BY <1>4, <2>1 DEF AbsentRunIsEmpty
    <2>5. QED
      BY <1>3, <2>2, <2>3, <2>4 DEF ControlInv
  <1>5. CASE run' = "RUNNING"
    <2>1. run' \notin Resumable /\ run' \notin Success /\ run' # "ABSENT"
      BY <1>5 DEF Success, Resumable
    <2>2. UnresumableIsClosed' /\ SuccessIsComplete' /\ AbsentRunIsEmpty'
      BY <2>1 DEF UnresumableIsClosed, SuccessIsComplete, AbsentRunIsEmpty
    <2>3. QED
      BY <1>3, <2>2 DEF ControlInv
  <1>6. QED
    BY <1>4, <1>5

\* Finalization succeeds only over a quiescent journal, and leaves nothing
\* undecided in a run that cannot be resumed.
LEMMA FinalizeKeeps ==
  ASSUME SInv, NEW w \in Workers, NEW status \in Terminal, Finalize(w, status) PROVE ControlInv'
  <1>1. /\ mode \in [Workers -> {"idle", "driving", "requeueing", "checking", "closing"}]
        /\ outcome \in [Tokens -> {"absent", "none", "forked", "settled", "abandoned"}]
    BY DEF SInv, SchedTypeOK
  <1>2. seat \in [leader : Workers \cup {NoWorker}, epoch : Nat, left : Deadlines]
    BY DEF SInv, SchedTypeOK, TypeOK
  <1>3. UNCHANGED <<item, resumable>> /\ mode' = [mode EXCEPT ![w] = "closing"]
    BY DEF Finalize, SetMode
  <1>4. run' = status /\ LeaderFence(w) /\ ExtendSeat /\ (status \in Success => Quiescent)
    BY DEF Finalize, CompleteRun
  <1>5. seat'.leader = w
    <2>1. seat.leader = w
      BY <1>4 DEF SInv, IInv, SeatAgrees, LeaderFence, HoldsSeat
    <2>2. QED
      BY <1>2, <1>4, <2>1 DEF ExtendSeat
  <1>6. ClosedSeat' /\ AbsentRunIsEmpty'
    <2>1. status # "ABSENT"
      BY DEF Terminal, Success, Resumable
    <2>2. mode'[w] = "closing"
      BY <1>1, <1>3
    <2>3. QED
      BY <1>4, <1>5, <2>1, <2>2 DEF ClosedSeat, AbsentRunIsEmpty
  <1>7. CASE status \in Resumable /\ ~ resumable
    <2>1. \A t \in Tokens : ~ Undecided(t)'
      BY <1>1, <1>7 DEF Finalize, Undecided
    <2>2. SweepIsTotal' /\ UnresumableIsClosed'
      BY <1>3, <1>7, <2>1 DEF SweepIsTotal, UnresumableIsClosed
    <2>3. status \notin Success
      BY <1>7 DEF Success, Resumable
    <2>4. SuccessIsComplete'
      BY <1>4, <2>3 DEF SuccessIsComplete
    <2>5. QED
      BY <1>6, <2>2, <2>4 DEF ControlInv
  <1>8. CASE ~ (status \in Resumable /\ ~ resumable)
    <2>1. outcome' = outcome
      BY <1>8 DEF Finalize
    <2>2. SweepIsTotal
      BY DEF SInv
    <2>3. SweepIsTotal'
      BY <1>3, <2>1, <2>2 DEF SweepIsTotal, SomeAbandoned, Undecided
    <2>4. UnresumableIsClosed'
      BY <1>3, <1>4, <1>8 DEF UnresumableIsClosed
    <2>5. SuccessIsComplete'
      BY <1>1, <1>3, <1>4, <2>1 DEF SuccessIsComplete, Quiescent, Residual, Decided
    <2>6. QED
      BY <1>6, <2>3, <2>4, <2>5 DEF ControlInv
  <1>9. QED
    BY <1>7, <1>8

\* Every entry point and the finalization keep the control part.
LEMMA EntryKeeps == ASSUME SInv, NEW w \in Workers, EntryStep(w) PROVE ControlInv'
  <1>1. /\ mode \in [Workers -> {"idle", "driving", "requeueing", "checking", "closing"}]
        /\ run \in Terminal \cup {"ABSENT", "RUNNING"}
        /\ outcome \in [Tokens -> {"absent", "none", "forked", "settled", "abandoned"}]
    BY DEF SInv, SchedTypeOK, TypeOK
  <1>2. seat \in [leader : Workers \cup {NoWorker}, epoch : Nat, left : Deadlines]
    BY DEF SInv, SchedTypeOK, TypeOK
  <1>3. CASE StartRun(w)
    <2>1. run = "ABSENT" /\ run' = "RUNNING" /\ outcome' = outcome
      BY <1>3 DEF StartRun, BeginRun
    <2>2. AbsentRunIsEmpty
      BY DEF SInv
    <2>3. ~ SomeAbandoned'
      BY <2>1, <2>2 DEF SomeAbandoned, AbsentRunIsEmpty
    <2>4. QED
      BY <2>1, <2>3, RunningIsFine
  <1>4. CASE Join(w)
    <2>1. /\ run = "RUNNING" /\ run' = run /\ seat' = seat /\ UNCHANGED <<item, outcome, resumable>>
          /\ member[w].status = "absent" /\ mode' = [mode EXCEPT ![w] = "driving"]
      BY <1>4 DEF Join, AdmitFollower, Unregistered, SetMode
    <2>2. seat.leader # w /\ ClosedSeat
      BY <2>1 DEF SInv, IInv, SeatAgrees
    <2>3. ClosedSeat'
      BY <1>1, <2>1, <2>2 DEF ClosedSeat, SomeAbandoned
    <2>4. QED
      BY <2>1, <2>3, UntouchedKeeps
  <1>5. CASE Resume(w)
    <2>1. run' = "RUNNING" /\ outcome' = outcome /\ resumable
      BY <1>5 DEF Resume, AcquireRunLeadership
    <2>2. SweepIsTotal
      BY DEF SInv
    <2>3. ~ SomeAbandoned'
      BY <2>1, <2>2 DEF SweepIsTotal, SomeAbandoned
    <2>4. QED
      BY <2>1, <2>3, RunningIsFine
  <1>6. CASE Abandon(w)
    <2>1. UNCHANGED <<item, outcome, resumable>> /\ mode' = [mode EXCEPT ![w] = "closing"]
      BY <1>6 DEF Abandon, SetMode
    <2>2. run' = "RUNNING" /\ run # "ABSENT" /\ seat'.leader = w
      BY <1>6 DEF Abandon, AcquireRunLeadership, TakeSeat, Resumable
    <2>3. ClosedSeat'
      BY <1>1, <2>1, <2>2 DEF ClosedSeat
    <2>4. QED
      BY <2>1, <2>2, <2>3, UntouchedKeeps
  <1>7. CASE LeadTerminal(w)
    <2>1. UNCHANGED <<item, outcome, resumable>> /\ mode' = [mode EXCEPT ![w] = "closing"]
      BY <1>7 DEF LeadTerminal, SetMode
    <2>2. run' = run /\ seat'.leader = w
      BY <1>7 DEF LeadTerminal, AcquireTerminalLeadership, TakeSeat
    <2>3. ClosedSeat'
      BY <1>1, <2>1, <2>2 DEF ClosedSeat
    <2>4. QED
      BY <2>1, <2>2, <2>3, UntouchedKeeps
  <1>8. CASE Leave(w)
    <2>1. UNCHANGED <<run, item, outcome, resumable>> /\ mode' = [mode EXCEPT ![w] = "closing"]
      BY <1>8 DEF Leave, ReleaseSeat, DepartWorker, SetMode
    <2>2. seat' = VacantSeat(seat.epoch) \/ seat' = seat
      BY <1>8 DEF Leave, ReleaseSeat, DepartWorker
    <2>3. seat'.leader \in {NoWorker, seat.leader}
      BY <2>2, SMT DEF VacantSeat
    <2>4. \A v \in Workers : mode'[v] \in {mode[v], "closing"}
      BY <1>1, <2>1
    <2>5. ClosedSeat
      BY DEF SInv
    <2>6. ClosedSeat'
      BY <2>1, <2>3, <2>4, <2>5, WorkersAssumption DEF ClosedSeat, SomeAbandoned
    <2>7. QED
      BY <2>1, <2>6, UntouchedKeeps
  <1>9. ASSUME NEW status \in Terminal, Finalize(w, status) PROVE ControlInv'
    BY <1>9, FinalizeKeeps
  <1>10. QED
    BY <1>3, <1>4, <1>5, <1>6, <1>7, <1>8, <1>9 DEF EntryStep

--------------------------------------------------------------------------------
\* Every step preserves the invariant, and what follows.

\* The invariant holds at the start.
LEMMA InitSInv == Init => SInv
  <1> SUFFICES ASSUME Init PROVE SInv
    OBVIOUS
  <1>1. IInv /\ TypeOK
    BY InitIInv DEF Init, IInv
  <1>2. SchedTypeOK
    <2>1. NoItem \in Items
      BY TimeAssumption, LeaseAssumption, SMT DEF Items, NoItem, Statuses, LeaseLeft
    <2>2. NoClaim \in Claims
      BY DEF Claims, NoClaim
    <2>3. QED
      BY <1>1, <2>1, <2>2 DEF Init, SchedTypeOK
  <1>3. ActiveHasRole
    BY DEF Init, CoordInit, NoMember, ActiveHasRole
  <1>4. ControlInv
    BY DEF Init, CoordInit, ControlInv, ClosedSeat, SweepIsTotal, SomeAbandoned, UnresumableIsClosed, SuccessIsComplete,
       AbsentRunIsEmpty, Terminal, Success, Resumable
  <1>5. RowsFollowTokens /\ ForksAreWhole /\ TerminalIsDecided
    BY DEF Init, NoItem, RowsFollowTokens, ForksAreWhole, TerminalIsDecided, Forked
  <1>6. ClaimStepsAreRecorded /\ ClaimsAreBehind /\ AttemptsAreExclusive
    BY TokensAssumption DEF Init, NoClaim, ClaimStepsAreRecorded, ClaimsAreBehind, AttemptsAreExclusive
  <1>7. QED
    BY <1>1, <1>2, <1>3, <1>4, <1>5, <1>6 DEF SInv, ControlInv

\* Every step keeps the invariant.
LEMMA NextSInv == SInv /\ [SchedNext]_vars => SInv'
  <1> SUFFICES ASSUME SInv, [SchedNext]_vars PROVE SInv'
    OBVIOUS
  <1>1. IInv' /\ TypeOK'
    BY CoordStep, NextIInv DEF SInv, IInv
  <1>2. SchedTypeOK'
    BY <1>1, TypeStep DEF SInv
  <1>3. ActiveHasRole'
    BY CoordStep, ActiveRoleStep DEF SInv, IInv
  <1>4. Moves
    BY StepMoves
  <1>5. RowsFollowTokens' /\ ForksAreWhole' /\ TerminalIsDecided'
    BY <1>2, <1>4, RowsKeep
  <1>6. ClaimStepsAreRecorded' /\ ClaimsAreBehind' /\ AttemptsAreExclusive'
    BY <1>2, <1>4, RecordsKeep, ClaimsKeep, ExclusionKeeps
  <1>7. ControlInv'
    BY ClaimantIsQuiet, EnvironmentIsQuiet, QuietKeeps, LeaderKeeps, EntryKeeps DEF SchedNext, ProcessStep, LeaderVerbStep, EntryStep, EnvironmentStep
  <1>8. QED
    BY <1>1, <1>2, <1>3, <1>5, <1>6, <1>7 DEF SInv, ControlInv

\* The inductive invariant holds of every behaviour.
THEOREM SchedInvariance == SchedSpec => []SInv
  BY InitSInv, NextSInv, PTL DEF SchedSpec

\* The journal's types.
THEOREM SchedTypeCorrect == SchedSpec => []SchedTypeOK
  <1>1. SInv => SchedTypeOK
    BY DEF SInv
  <1>2. QED
    BY <1>1, SchedInvariance, PTL

\* No two processes ever hold a claim on the same attempt, for any number of
\* workers, tokens, recoveries and takeovers.
THEOREM ExclusionTheorem == SchedSpec => []AttemptsAreExclusive
  <1>1. SInv => AttemptsAreExclusive
    BY DEF SInv
  <1>2. QED
    BY <1>1, SchedInvariance, PTL

\* A TERMINAL row's token is decided.
THEOREM TerminalTheorem == SchedSpec => []TerminalIsDecided
  <1>1. SInv => TerminalIsDecided
    BY DEF SInv
  <1>2. QED
    BY <1>1, SchedInvariance, PTL

\* A run that succeeded is complete, then and later.
THEOREM SuccessTheorem == SchedSpec => []SuccessIsComplete
  <1>1. SInv => SuccessIsComplete
    BY DEF SInv
  <1>2. QED
    BY <1>1, SchedInvariance, PTL

\* A stopped run that cannot be resumed leaves no token undecided.
THEOREM ClosureTheorem == SchedSpec => []UnresumableIsClosed
  <1>1. SInv => UnresumableIsClosed
    BY DEF SInv
  <1>2. QED
    BY <1>1, SchedInvariance, PTL

\* A step over a terminal run leaves the journal alone.
LEMMA FrozenStep ==
  ASSUME SInv, [SchedNext]_vars, run \in Terminal, run' \in Terminal
  PROVE  /\ outcome' = outcome
         /\ \A t \in Tokens : item'[t].status = item[t].status /\ item'[t].owner = item[t].owner
  <1>1. run # "RUNNING" /\ run # "ABSENT" /\ run' # "RUNNING"
    BY DEF Terminal, Success, Resumable
  <1>2. ASSUME NEW w \in Workers, LeaderVerbStep(w) PROVE FALSE
    BY <1>1, <1>2, LeaderVerb, LeaderDrives
  <1>3. CASE QuietStep
    BY <1>1, <1>3 DEF QuietStep
  <1>4. ASSUME NEW w \in Workers,
               StartRun(w) \/ Join(w) \/ Resume(w) \/ Abandon(w) \/ LeadTerminal(w) \/ Leave(w)
        PROVE  item' = item /\ outcome' = outcome
    BY <1>4 DEF StartRun, Join, Resume, Abandon, LeadTerminal, Leave
  <1>5. ASSUME NEW w \in Workers, NEW status \in Terminal, Finalize(w, status) PROVE FALSE
    BY <1>5 DEF Finalize, CompleteRun
  <1>6. QED
    BY <1>2, <1>3, <1>4, <1>5, ClaimantIsQuiet, EnvironmentIsQuiet DEF SchedNext, ProcessStep, LeaderVerbStep, EnvironmentStep

\* The journal of a terminal run is frozen.
THEOREM FrozenTheorem == SchedSpec => TerminalRunIsFrozen
  <1>1. SInv /\ [SchedNext]_vars =>
          [(run \in Terminal /\ run' \in Terminal) =>
             /\ outcome' = outcome
             /\ \A t \in Tokens : /\ item'[t].status = item[t].status
                                  /\ item'[t].owner = item[t].owner]_vars
    BY FrozenStep
  <1>2. QED
    BY <1>1, SchedInvariance, PTL DEF SchedSpec, TerminalRunIsFrozen

--------------------------------------------------------------------------------
(* Leases: who may gain one, and which rows no step touches. *)

Finished(t) == Decided(t) /\ item[t].status \in {"TERMINAL", "FAILED"}

HasLiveLease(v, t) == item[t].status = "LEASED" /\ item[t].owner = v /\ item[t].left >= 0

\* Only a leased row has a deadline.
OnlyLeasesRun == \A t \in Tokens : item[t].status # "LEASED" => item[t].left = -Horizon

LInv == SInv /\ OnlyLeasesRun /\ EvictedFollowerHasNoLiveLease

\* A finished row stays as it is, a row that is not leased has no deadline, and
\* only an active member gains a lease, in a step that leaves the registry alone.
LeaseMove(t) ==
    /\ Finished(t) => item'[t] = item[t]
    /\ item'[t].status # "LEASED" => item'[t].left = -Horizon
    /\ \A v \in Workers : HasLiveLease(v, t)' =>
          HasLiveLease(v, t) \/ (member[v].status = "active" /\ member' = member)

\* A row that a step leaves alone.
LEMMA SameRow == ASSUME OnlyLeasesRun, NEW t \in Tokens, item'[t] = item[t] PROVE LeaseMove(t)
  BY DEF OnlyLeasesRun, LeaseMove, HasLiveLease

\* A row that is given up, parked or retried.
LEMMA RestingRow ==
  ASSUME NEW t \in Tokens, ~ Finished(t), item'[t].status # "LEASED", item'[t].left = -Horizon PROVE LeaseMove(t)
  BY DEF LeaseMove, HasLiveLease

\* A row that an active member leases.
LEMMA LeasedRow ==
  ASSUME NEW t \in Tokens, NEW w \in Workers, ~ Finished(t), member[w].status = "active", member' = member,
         item'[t].status = "LEASED", item'[t].owner = w
  PROVE  LeaseMove(t)
  BY DEF LeaseMove, HasLiveLease

\* The entry points change no row.
LEMMA ProcessLeases ==
  ASSUME OnlyLeasesRun, NEW w \in Workers, ProcessStep(w) PROVE \A t \in Tokens : LeaseMove(t)
  <1>1. item' = item
    BY DEF ProcessStep, StartRun, Join, Resume, Abandon, LeadTerminal, Leave, Heartbeat, StopWork, SaveResumePoint,
       Finalize, workVars
  <1>2. QED
    BY <1>1, SameRow

\* A claimant acts as an active member on a LEASED or READY row.
LEMMA ClaimantLeases ==
  ASSUME SInv, OnlyLeasesRun, NEW w \in Workers, ClaimantStep(w) PROVE \A t \in Tokens : LeaseMove(t)
  <1>1. item \in [Tokens -> Items] /\ claim[w].token \in Tokens \cup {Nil}
    BY DEF SInv, SchedTypeOK, Claims
  <1>2. ASSUME item' = item PROVE \A t \in Tokens : LeaseMove(t)
    BY <1>2, SameRow
  <1>3. ASSUME NEW u \in Tokens, ClaimReady(w, u) PROVE \A t \in Tokens : LeaseMove(t)
    <2>1. item' = [item EXCEPT ![u] = Leased(u, w)] /\ member[w].status = "active" /\ member' = member /\ ~ Finished(u)
      BY <1>3 DEF ClaimReady, MemberFence, coordVars, Finished
    <2>2. LeaseMove(u)
      BY <1>1, <2>1, LeasedRow DEF Leased
    <2>3. \A t \in Tokens \ {u} : item'[t] = item[t]
      BY <1>1, <2>1
    <2>4. QED
      BY <2>2, <2>3, SameRow
  <1>4. CASE HeartbeatLease(w)
    <2>1. claim[w].token \in Tokens /\ item' = [item EXCEPT ![claim[w].token] = Leased(claim[w].token, w)]
      BY <1>1, <1>4 DEF HeartbeatLease, Works, HoldsClaim
    <2>2. member[w].status = "active" /\ member' = member /\ ~ Finished(claim[w].token)
      BY <1>4 DEF HeartbeatLease, Works, HoldsClaim, MemberFence, coordVars, Finished
    <2>3. LeaseMove(claim[w].token)
      BY <1>1, <2>1, <2>2, LeasedRow DEF Leased
    <2>4. \A t \in Tokens \ {claim[w].token} : item'[t] = item[t]
      BY <1>1, <2>1
    <2>5. QED
      BY <2>3, <2>4, SameRow
  <1>5. CASE LoseClaim(w) \/ AbandonClaim(w) \/ RecordOutcome(w) \/ Fork(w)
    BY <1>2, <1>5 DEF LoseClaim, AbandonClaim, RecordOutcome, Fork
  <1>6. ASSUME NEW status \in {"TERMINAL", "FAILED"}, Dispose(w, status) PROVE \A t \in Tokens : LeaseMove(t)
    <2> SUFFICES ASSUME NEW t \in Tokens PROVE LeaseMove(t)
      OBVIOUS
    <2>1. CASE item'[t] = item[t]
      BY <2>1, SameRow
    <2>2. CASE item'[t] # item[t]
      <3>1. item[t].status \in {"LEASED", "NONE"}
        BY <1>1, <1>6, <2>2 DEF Dispose, Works, HoldsClaim
      <3>2. item'[t].status \in {"TERMINAL", "FAILED", "READY"} /\ item'[t].left = -Horizon
        BY <1>1, <1>6, <2>2 DEF Dispose, Released, Fresh
      <3>3. QED
        BY <3>1, <3>2, RestingRow DEF Finished
    <2>3. QED
      BY <2>1, <2>2
  <1>7. CASE MarkBlocked(w) \/ MarkPendingSink(w) \/ FailClaim(w)
    <2>1. claim[w].token \in Tokens /\ ~ Finished(claim[w].token)
      BY <1>1, <1>7 DEF MarkBlocked, MarkPendingSink, FailClaim, Works, HoldsClaim, Finished
    <2>2. PICK row \in {Released(claim[w].token, "BLOCKED"), Released(claim[w].token, "FAILED"),
                        Parked(claim[w].token, w)} :
            item' = [item EXCEPT ![claim[w].token] = row]
      BY <1>7 DEF MarkBlocked, MarkPendingSink, FailClaim
    <2>3. row.status # "LEASED" /\ row.left = -Horizon
      BY <2>2, SMT DEF Released, Parked
    <2>4. LeaseMove(claim[w].token)
      BY <1>1, <2>1, <2>2, <2>3, RestingRow
    <2>5. \A t \in Tokens \ {claim[w].token} : item'[t] = item[t]
      BY <1>1, <2>2
    <2>6. QED
      BY <2>4, <2>5, SameRow
  <1>8. QED
    BY <1>3, <1>4, <1>5, <1>6, <1>7 DEF ClaimantStep

\* A leader leases only new rows and parked ones, and passes a finished row by.
LEMMA LeaderLeases ==
  ASSUME SInv, OnlyLeasesRun, NEW w \in Workers, LeaderStep(w) PROVE \A t \in Tokens : LeaseMove(t)
  <1>1. item \in [Tokens -> Items] /\ \A t \in Tokens : outcome[t] = "absent" => item[t].status = "NONE"
    BY DEF SInv, SchedTypeOK, RowsFollowTokens
  <1>2. ASSUME item' = item PROVE \A t \in Tokens : LeaseMove(t)
    BY <1>2, SameRow
  <1>3. ASSUME NEW u \in Tokens, NEW row, item' = [item EXCEPT ![u] = row], ~ Finished(u),
               \/ row.status # "LEASED" /\ row.left = -Horizon
               \/ row.status = "LEASED" /\ row.owner = w /\ LeaderWrite(w)
        PROVE  \A t \in Tokens : LeaseMove(t)
    <2>1. item'[u] = row /\ \A t \in Tokens \ {u} : item'[t] = item[t]
      BY <1>1, <1>3
    <2>2. LeaderWrite(w) => member[w].status = "active" /\ member' = member
      BY DEF LeaderWrite, LeaderFence, HoldsSeat, SInv, IInv, SeatAgrees
    <2>3. LeaseMove(u)
      BY <1>3, <2>1, <2>2, RestingRow, LeasedRow
    <2>4. QED
      BY <2>1, <2>3, SameRow
  <1>4. ASSUME NEW u \in Tokens, Ingest(w, u) \/ IngestQuarantine(w, u) PROVE \A t \in Tokens : LeaseMove(t)
    <2>1. ~ Finished(u) /\ LeaderWrite(w)
      BY <1>4 DEF Ingest, IngestQuarantine, Finished, Decided, Leads
    <2>2. CASE item' = [item EXCEPT ![u] = Fresh("LEASED", w)]
      <3>1. Fresh("LEASED", w).status = "LEASED" /\ Fresh("LEASED", w).owner = w
        BY DEF Fresh
      <3>2. QED
        BY <1>3, <2>1, <2>2, <3>1
    <2>3. CASE item' = [item EXCEPT ![u] = Fresh("PENDING_SINK", w)]
      <3>1. Fresh("PENDING_SINK", w).status # "LEASED" /\ Fresh("PENDING_SINK", w).left = -Horizon
        BY DEF Fresh
      <3>2. QED
        BY <1>3, <2>1, <2>3, <3>1
    <2>4. QED
      BY <1>4, <2>2, <2>3 DEF Ingest, IngestQuarantine
  <1>5. ASSUME NEW u \in Tokens, ClaimPendingSink(w, u) PROVE \A t \in Tokens : LeaseMove(t)
    <2>1. ~ Finished(u) /\ LeaderWrite(w) /\ item' = [item EXCEPT ![u] = Leased(u, w)]
      BY <1>5 DEF ClaimPendingSink, Finished, Leads
    <2>2. Leased(u, w).status = "LEASED" /\ Leased(u, w).owner = w
      BY DEF Leased
    <2>3. QED
      BY <1>3, <2>1, <2>2
  <1>6. ASSUME NEW u \in Tokens, MintProducts(w, u) \/ DecideHeld(w, u) \/ FinalizeSink(w, u)
        PROVE  \A t \in Tokens : LeaseMove(t)
    BY <1>2, <1>6 DEF MintProducts, DecideHeld, FinalizeSink
  <1>7. CASE (\E v \in Workers : Evict(w, v)) \/ VerifyResumeCoverage(w)
    BY <1>2, <1>7 DEF Evict, VerifyResumeCoverage, workVars
  <1>8. ASSUME NEW T \in SUBSET Tokens, \A t \in T : ~ Finished(t),
               \A t \in T : item'[t].status # "LEASED" /\ item'[t].left = -Horizon,
               \A t \in Tokens \ T : item'[t] = item[t]
        PROVE  \A t \in Tokens : LeaseMove(t)
    BY <1>8, SameRow, RestingRow
  <1>9. CASE RecoverExpiredLeases(w)
    <2> DEFINE T == {t \in Tokens : Reapable(w, t)}
    <2>1. \A t \in T : ~ Finished(t)
      BY DEF Reapable, Finished
    <2>2. \A t \in T : item'[t].status # "LEASED" /\ item'[t].left = -Horizon
      BY <1>9 DEF RecoverExpiredLeases, Recovered, Released, Retried
    <2>3. \A t \in Tokens \ T : item'[t] = item[t]
      BY <1>9 DEF RecoverExpiredLeases
    <2>4. QED
      BY <1>8, <2>1, <2>2, <2>3
  <1>10. CASE RequeueUndecidedFailed(w)
    <2> DEFINE T == {t \in Tokens : item[t].status = "FAILED" /\ ~ Decided(t)}
    <2>1. \A t \in T : ~ Finished(t)
      BY DEF Finished
    <2>2. \A t \in T : item'[t].status # "LEASED" /\ item'[t].left = -Horizon
      BY <1>10 DEF RequeueUndecidedFailed, Retried
    <2>3. \A t \in Tokens \ T : item'[t] = item[t]
      BY <1>10 DEF RequeueUndecidedFailed
    <2>4. QED
      BY <1>8, <2>1, <2>2, <2>3
  <1>11. ASSUME NEW consumed \in SUBSET Held, NEW passed \in SUBSET Held, NEW lane \in {"READY", "PENDING_SINK"},
                CompleteBarrier(w, consumed, passed, lane)
         PROVE  \A t \in Tokens : LeaseMove(t)
    <2> SUFFICES ASSUME NEW t \in Tokens PROVE LeaseMove(t)
      OBVIOUS
    <2>1. CASE item'[t] = item[t]
      BY <2>1, SameRow
    <2>2. CASE item'[t] # item[t]
      <3>1. item[t].status \in {"BLOCKED", "NONE"}
        BY <1>11, <2>2 DEF CompleteBarrier, Held
      <3>2. item'[t].status # "LEASED" /\ item'[t].left = -Horizon
        BY <1>11, <2>2 DEF CompleteBarrier, Released, Parked, Fresh
      <3>3. QED
        BY <3>1, <3>2, RestingRow DEF Finished
    <2>3. QED
      BY <2>1, <2>2
  <1>12. ASSUME NEW T \in SUBSET {t \in Tokens : SinkBound(t)}, MarkPendingSinkTerminal(w, T)
         PROVE  \A t \in Tokens : LeaseMove(t)
    <2>1. \A t \in T : ~ Finished(t)
      BY DEF SinkBound, Finished
    <2>2. \A t \in T : item'[t].status # "LEASED" /\ item'[t].left = -Horizon
      BY <1>12 DEF MarkPendingSinkTerminal, Released
    <2>3. \A t \in Tokens \ T : item'[t] = item[t]
      BY <1>12 DEF MarkPendingSinkTerminal
    <2>4. QED
      BY <1>8, <2>1, <2>2, <2>3
  <1>13. CASE RepairDecidedSinks(w)
    <2> DEFINE T == {t \in Tokens : item[t].status = "PENDING_SINK" /\ item[t].sink /\ Decided(t)}
    <2>1. \A t \in T : ~ Finished(t)
      BY DEF Finished
    <2>2. \A t \in T : item'[t].status # "LEASED" /\ item'[t].left = -Horizon
      BY <1>13 DEF RepairDecidedSinks, Released
    <2>3. \A t \in Tokens \ T : item'[t] = item[t]
      BY <1>13 DEF RepairDecidedSinks
    <2>4. QED
      BY <1>8, <2>1, <2>2, <2>3
  <1>14. QED
    BY <1>4, <1>5, <1>6, <1>7, <1>9, <1>10, <1>11, <1>12, <1>13 DEF LeaderStep

\* Every step moves the leases in these ways only.
LEMMA StepLeases == ASSUME SInv, OnlyLeasesRun, [SchedNext]_vars PROVE \A t \in Tokens : LeaseMove(t)
  <1>1. CASE UNCHANGED vars \/ \E w \in MayCrash : Die(w)
    BY <1>1, SameRow DEF vars, workVars, Die
  <1>2. CASE Tick
    <2> SUFFICES ASSUME NEW t \in Tokens PROVE LeaseMove(t)
      OBVIOUS
    <2>1. item[t] \in Items /\ item'[t] = [item[t] EXCEPT !.left = Aged(@)]
      BY <1>2 DEF Tick, SInv, SchedTypeOK
    <2>2. CASE item[t].status = "LEASED"
      BY <2>1, <2>2, TimeAssumption, LeaseAssumption, SMT DEF Items, LeaseLeft, Aged, LeaseMove, HasLiveLease, Finished
    <2>3. CASE item[t].status # "LEASED"
      <3>1. item[t].left = -Horizon
        BY <2>3 DEF OnlyLeasesRun
      <3>2. item'[t] = item[t]
        BY <2>1, <3>1, TimeAssumption, SMT DEF Items, Aged
      <3>3. QED
        BY <3>2, SameRow
    <2>4. QED
      BY <2>2, <2>3
  <1>3. ASSUME NEW w \in Workers, ProcessStep(w) \/ ClaimantStep(w) \/ LeaderStep(w)
        PROVE  \A t \in Tokens : LeaseMove(t)
    BY <1>3, ProcessLeases, ClaimantLeases, LeaderLeases
  <1>4. QED
    BY <1>1, <1>2, <1>3 DEF SchedNext

\* A follower becomes evicted only by an eviction that found no live lease: a
\* takeover evicts the prior leader, which is no follower.
LEMMA EvictionStep ==
  ASSUME SInv, [SchedNext]_vars, NEW v \in Workers,
         member'[v].role = "follower", member'[v].status = "evicted"
  PROVE  \/ member[v].role = "follower" /\ member[v].status = "evicted"
         \/ item' = item /\ ~ LiveLease(v)
  <1> USE DEF SInv, IInv, TypeOK
  <1>1. CASE member' = member
    BY <1>1
  <1>2. ASSUME NEW w \in Workers, StartRun(w) \/ Join(w)
        PROVE  member[v].role = "follower" /\ member[v].status = "evicted"
    BY <1>2, SMT DEF StartRun, Join, BeginRun, AdmitFollower, Registered
  <1>3. ASSUME NEW w \in Workers, Resume(w) \/ Abandon(w) \/ LeadTerminal(w)
        PROVE  member[v].role = "follower" /\ member[v].status = "evicted"
    <2>1. \/ member'[v] = member[v]
          \/ member'[v].role = "leader"
          \/ v \in Deposed /\ member'[v].role = member[v].role
      <3>1. member' = [SetStatus(Deposed, "evicted") EXCEPT ![w] = Registered("leader")]
        BY <1>3 DEF Resume, Abandon, LeadTerminal, AcquireRunLeadership, AcquireTerminalLeadership, TakeSeat
      <3>2. QED
        BY <3>1 DEF SetStatus, Registered
    <2>2. v \in Deposed => member[v].role = "leader"
      BY DEF Deposed, SeatAgrees
    <2>3. QED
      BY <2>1, <2>2
  <1>4. ASSUME NEW w \in Workers, Leave(w) \/ \E status \in Terminal : Finalize(w, status)
        PROVE  member[v].role = "follower" /\ member[v].status = "evicted"
    BY <1>4, SMT DEF Leave, ReleaseSeat, DepartWorker, Finalize, CompleteRun, SetStatus
  <1>5. ASSUME NEW w \in Workers, Heartbeat(w)
        PROVE  member[v].role = "follower" /\ member[v].status = "evicted"
    BY <1>5 DEF Heartbeat, WorkerHeartbeat, MemberRows
  <1>6. ASSUME NEW w \in Workers, NEW u \in Workers, Evict(w, u)
        PROVE  \/ member[v].role = "follower" /\ member[v].status = "evicted"
               \/ item' = item /\ ~ LiveLease(v)
    <2>1. item' = item /\ ~ LiveLease(u) /\ member' = SetStatus({u}, "evicted")
      BY <1>6 DEF Evict, EvictWorker, workVars
    <2>2. v # u => member'[v] = member[v]
      BY <2>1 DEF SetStatus
    <2>3. QED
      BY <2>1, <2>2
  <1>7. CASE Tick
    BY <1>7 DEF Tick, CoordTick, MemberRows
  <1>8. ASSUME NEW w \in Workers, StopWork(w) \/ SaveResumePoint(w) \/ ClaimantStep(w) PROVE member' = member
    BY <1>8 DEF StopWork, SaveResumePoint, Leads, LeaderWrite, ClaimantStep, ClaimReady, HeartbeatLease, LoseClaim,
       AbandonClaim, RecordOutcome, Fork, Dispose, MarkBlocked, MarkPendingSink, FailClaim, Works, coordVars
  <1>9. ASSUME NEW w \in Workers, LeaderStep(w) PROVE member' = member \/ \E u \in Workers : Evict(w, u)
    BY <1>9 DEF LeaderStep, Ingest, IngestQuarantine, MintProducts, DecideHeld, ClaimPendingSink, FinalizeSink,
       RecoverExpiredLeases, RequeueUndecidedFailed, VerifyResumeCoverage, CompleteBarrier, MarkPendingSinkTerminal,
       RepairDecidedSinks, Leads, LeaderWrite
  <1>10. CASE UNCHANGED vars \/ \E w \in MayCrash : Die(w)
    BY <1>1, <1>10 DEF vars, coordVars, Die, Crash
  <1>11. QED
    BY <1>1, <1>2, <1>3, <1>4, <1>5, <1>6, <1>7, <1>8, <1>9, <1>10 DEF SchedNext, ProcessStep

\* Every step keeps the deadlines and the leases of evicted followers in order.
LEMMA NextLInv == LInv /\ [SchedNext]_vars => LInv'
  <1> SUFFICES ASSUME LInv, [SchedNext]_vars PROVE LInv'
    OBVIOUS
  <1>1. SInv /\ OnlyLeasesRun /\ EvictedFollowerHasNoLiveLease /\ SInv'
    BY NextSInv DEF LInv
  <1>2. \A t \in Tokens : LeaseMove(t)
    BY <1>1, StepLeases
  <1>3. OnlyLeasesRun'
    BY <1>2 DEF OnlyLeasesRun, LeaseMove
  <1>4. ASSUME NEW v \in Workers, member'[v].role = "follower", member'[v].status = "evicted",
               NEW t \in Tokens, HasLiveLease(v, t)'
        PROVE  FALSE
    <2>1. CASE member[v].role = "follower" /\ member[v].status = "evicted"
      <3>1. ~ HasLiveLease(v, t)
        BY <1>1, <2>1 DEF EvictedFollowerHasNoLiveLease, LiveLease, HasLiveLease
      <3>2. QED
        BY <1>2, <1>4, <2>1, <3>1 DEF LeaseMove
    <2>2. CASE item' = item /\ ~ LiveLease(v)
      BY <1>4, <2>2 DEF LiveLease, HasLiveLease
    <2>3. QED
      BY <1>1, <1>4, <2>1, <2>2, EvictionStep
  <1>5. EvictedFollowerHasNoLiveLease'
    BY <1>4 DEF EvictedFollowerHasNoLiveLease, LiveLease, HasLiveLease
  <1>6. QED
    BY <1>1, <1>3, <1>5 DEF LInv

\* The lease invariant holds of every behaviour.
THEOREM LeaseInvariance == SchedSpec => []LInv
  <1>1. Init => LInv
    <2>1. Init => OnlyLeasesRun /\ EvictedFollowerHasNoLiveLease
      BY SMT DEF Init, CoordInit, NoMember, NoItem, OnlyLeasesRun, EvictedFollowerHasNoLiveLease
    <2>2. QED
      BY <2>1, InitSInv DEF LInv
  <1>2. QED
    BY <1>1, NextLInv, PTL DEF SchedSpec

\* A follower that evict_worker expelled holds no unexpired lease, then or later.
THEOREM EvictedLeaseTheorem == SchedSpec => []EvictedFollowerHasNoLiveLease
  <1>1. LInv => EvictedFollowerHasNoLiveLease
    BY DEF LInv
  <1>2. QED
    BY <1>1, LeaseInvariance, PTL

\* No verb and no passing of time touches a decided TERMINAL or FAILED row.
THEOREM FinishedTheorem == SchedSpec => FinishedRowsStay
  <1>1. LInv /\ [SchedNext]_vars =>
          [\A t \in Tokens : (Decided(t) /\ item[t].status \in {"TERMINAL", "FAILED"}) => item'[t] = item[t]]_vars
    BY StepLeases DEF LInv, LeaseMove, Finished
  <1>2. QED
    BY <1>1, LeaseInvariance, PTL DEF SchedSpec, FinishedRowsStay

--------------------------------------------------------------------------------
(* The journal implements the token ledger. *)

\* Fates and ledger states, in this state and the next.
LEMMA FateFacts ==
  ASSUME SchedTypeOK, SchedTypeOK'
  PROVE  /\ \A t \in Tokens :
              /\ outcome[t] = "absent" => Fate(t) = "absent"
              /\ outcome[t] = "none" => Fate(t) = "pending"
              /\ outcome[t] = "abandoned" => Fate(t) = "abandoned"
              /\ outcome[t] \in {"forked", "settled"} => Fate(t) = "decided"
         /\ \A t \in Tokens :
              /\ outcome'[t] = "absent" => Fate(t)' = "absent"
              /\ outcome'[t] = "none" => Fate(t)' = "pending"
              /\ outcome'[t] = "abandoned" => Fate(t)' = "abandoned"
              /\ outcome'[t] \in {"forked", "settled"} => Fate(t)' = "decided"
         /\ run = "ABSENT" => LedgerState = "closed"
         /\ run = "RUNNING" => LedgerState = "open"
         /\ run \in Success => LedgerState = "succeeded"
         /\ run \in Resumable => LedgerState = "stopped"
         /\ run' = "RUNNING" => LedgerState' = "open"
         /\ run' \in Success => LedgerState' = "succeeded"
         /\ run' \in Resumable => LedgerState' = "stopped"
         /\ run' = run => LedgerState' = LedgerState
  BY DEF Fate, LedgerState, Success, Resumable

\* A step of a running run that has abandoned nothing is ledger progress.
LEMMA DrivingIsProgress ==
  ASSUME SInv, SchedTypeOK', Moves, run = "RUNNING", run' = run, ~ SomeAbandoned, ~ SomeAbandoned'
  PROVE  Ledger!Progress
  <1>1. LedgerState = "open" /\ LedgerState' = LedgerState
    BY FateFacts DEF SInv
  <1>2. \A t \in Tokens : /\ outcome[t] \in {"absent", "none", "forked", "settled"}
                          /\ outcome'[t] \in {"absent", "none", "forked", "settled"}
    BY DEF SInv, SchedTypeOK, SomeAbandoned
  <1>3. \A t \in Tokens : Fate(t) # "abandoned" /\ Fate(t)' \in {"absent", "pending", "decided"}
    BY <1>2, FateFacts DEF SInv
  <1>4. ASSUME NEW t \in Tokens
        PROVE  <<Fate(t), Fate(t)'>> \in
                  {<<"absent", "absent">>, <<"absent", "pending">>, <<"pending", "pending">>,
                   <<"pending", "decided">>, <<"decided", "decided">>}
    <2>1. \/ outcome'[t] = outcome[t]
          \/ outcome[t] = "absent" /\ outcome'[t] = "none"
          \/ outcome[t] = "none" /\ outcome'[t] \in {"forked", "settled"}
      BY <1>2 DEF Moves, OutcomeMove
    <2>2. QED
      BY <1>2, <2>1, FateFacts DEF SInv
  <1>5. QED
    BY <1>1, <1>3, <1>4 DEF Ledger!Progress, Ledger!With

\* Every step of the composed system is a ledger step or none.
LEMMA LedgerStep ==
  ASSUME SInv, SInv', [SchedNext]_vars PROVE [Ledger!Next]_(Ledger!ledgerVars)
  <1> USE DEF Ledger!ledgerVars
  <1>1. SchedTypeOK /\ SchedTypeOK' /\ Moves
    BY StepMoves DEF SInv
  <1>2. ASSUME run' = run, outcome' = outcome PROVE UNCHANGED Ledger!ledgerVars
    BY <1>1, <1>2 DEF Fate, LedgerState
  <1>3. CASE QuietStep
    <2>1. CASE run = "RUNNING" /\ ~ SomeAbandoned
      BY <1>1, <1>3, <2>1, DrivingIsProgress DEF QuietStep, Ledger!Next
    <2>2. CASE run # "RUNNING" \/ SomeAbandoned
      BY <1>2, <1>3, <2>2 DEF QuietStep
    <2>3. QED
      BY <2>1, <2>2
  <1>4. ASSUME NEW w \in Workers, LeaderVerbStep(w) PROVE Ledger!Progress
    <2>1. LeaderFence(w) /\ mode[w] # "closing" /\ run' = run
      BY <1>4, LeaderVerb
    <2>2. run = "RUNNING" /\ ~ SomeAbandoned
      BY <2>1, LeaderDrives
    <2>3. ~ SomeAbandoned'
      BY <1>4, LeaderAbandonsNothing
    <2>4. QED
      BY <1>1, <2>1, <2>2, <2>3, DrivingIsProgress
  <1>5. ASSUME NEW w \in Workers, StartRun(w) \/ Resume(w) \/ Abandon(w)
        PROVE  Ledger!Open \/ UNCHANGED Ledger!ledgerVars
    <2>1. outcome' = outcome /\ run' = "RUNNING" /\ run \in {"ABSENT", "RUNNING"} \cup Resumable
      BY <1>5 DEF StartRun, BeginRun, Resume, Abandon, AcquireRunLeadership
    <2>2. CASE run = "RUNNING"
      BY <1>2, <2>1, <2>2
    <2>3. CASE run # "RUNNING"
      <3>1. LedgerState \in {"closed", "stopped"} /\ LedgerState' = "open"
        BY <1>1, <2>1, <2>3, FateFacts
      <3>2. [t \in Tokens |-> Fate(t)]' = [t \in Tokens |-> Fate(t)]
        BY <2>1 DEF Fate
      <3>3. QED
        BY <3>1, <3>2 DEF Ledger!Open
    <2>4. QED
      BY <2>2, <2>3
  <1>6. ASSUME NEW w \in Workers, Join(w) \/ LeadTerminal(w) \/ Leave(w) PROVE UNCHANGED Ledger!ledgerVars
    BY <1>2, <1>6 DEF Join, LeadTerminal, Leave, AdmitFollower, AcquireTerminalLeadership, ReleaseSeat, DepartWorker
  <1>7. ASSUME NEW w \in Workers, NEW status \in Terminal, Finalize(w, status) PROVE Ledger!Succeed \/ Ledger!Stop
    <2>1. run = "RUNNING" /\ run' = status
      BY <1>1, <1>7 DEF Finalize, CompleteRun, LeaderFence, HoldsSeat, SInv, IInv, SeatAgrees, TokensFollowRows, SchedTypeOK, TypeOK
    <2>2. LedgerState = "open"
      BY <1>1, <2>1, FateFacts
    <2>3. CASE status \in Success
      <3>1. outcome' = outcome /\ \A t \in Tokens : outcome[t] \in {"absent", "forked", "settled"}
        BY <1>1, <1>7, <2>3 DEF Finalize, CompleteRun, Quiescent, Success, Resumable, SchedTypeOK
      <3>2. \A t \in Tokens : Fate(t) \in {"absent", "decided"}
        BY <1>1, <3>1, FateFacts
      <3>3. LedgerState' = "succeeded"
        BY <1>1, <2>1, <2>3, FateFacts
      <3>4. [t \in Tokens |-> Fate(t)]' = [t \in Tokens |-> Fate(t)]
        BY <3>1 DEF Fate
      <3>5. QED
        BY <2>2, <3>2, <3>3, <3>4 DEF Ledger!Succeed, Ledger!With
    <2>4. CASE status \in Resumable
      <3>1. LedgerState' = "stopped"
        BY <1>1, <2>1, <2>4, FateFacts
      <3>2. CASE outcome' = outcome
        <4>1. [t \in Tokens |-> Fate(t)]' = [t \in Tokens |-> Fate(t)]
          BY <3>2 DEF Fate
        <4>2. QED
          BY <2>2, <3>1, <4>1 DEF Ledger!Stop
      <3>3. CASE outcome' = [t \in Tokens |-> IF Undecided(t) THEN "abandoned" ELSE outcome[t]]
        <4>1. ASSUME NEW t \in Tokens
              PROVE  Fate(t)' = IF Fate(t) = "pending" THEN "abandoned" ELSE Fate(t)
          <5>1. /\ outcome[t] = "none" => outcome'[t] = "abandoned"
                /\ outcome[t] # "none" => outcome'[t] = outcome[t]
            BY <3>3 DEF Undecided
          <5>2. outcome[t] \in {"absent", "none", "forked", "settled", "abandoned"}
            BY <1>1 DEF SchedTypeOK
          <5>3. QED
            BY <1>1, <5>1, <5>2, FateFacts
        <4>2. QED
          BY <2>2, <3>1, <4>1 DEF Ledger!Stop
      <3>4. QED
        BY <1>7, <3>2, <3>3 DEF Finalize
    <2>5. QED
      BY <2>3, <2>4 DEF Terminal
  <1>8. QED
    BY <1>3, <1>4, <1>5, <1>6, <1>7, ClaimantIsQuiet, EnvironmentIsQuiet DEF SchedNext, ProcessStep, LeaderVerbStep, EnvironmentStep, Ledger!Next

\* The work journal implements the token ledger: whatever claims, forks, barriers,
\* sinks, takeovers and resumes do, each token gets one final fate.
THEOREM LedgerTheorem == SchedSpec => ImplementsTokenLedger
  <1>1. ASSUME Init PROVE Ledger!Init
    <2>1. LedgerState = "closed"
      BY <1>1 DEF Init, CoordInit, LedgerState, Success
    <2>2. \A t \in Tokens : Fate(t) = "absent"
      BY <1>1 DEF Init, Fate
    <2>3. QED
      BY <2>1, <2>2 DEF Ledger!Init
  <1>2. SInv /\ SInv' /\ [SchedNext]_vars => [Ledger!Next]_(Ledger!ledgerVars)
    BY LedgerStep
  <1>3. QED
    BY <1>1, <1>2, SchedInvariance, PTL DEF SchedSpec, ImplementsTokenLedger, Ledger!Spec

================================================================================
