---------------------------- MODULE RunCoordination ----------------------------
(***************************************************************************)
(* The coordination plane of one run: the leader seat                      *)
(* (run_coordination), the worker registry (run_workers), the run's status *)
(* and the CoordinationTokens that processes hold by value.  Every action  *)
(* is one write transaction of the Landscape database; a transaction whose *)
(* fence or compare-and-set misses rolls back and changes nothing.         *)
(*                                                                         *)
(* A deadline column is modelled by the time left until it, so that        *)
(* "expires_at < now" is "left < 0".  Deadlines are compared with now and  *)
(* with now minus a grace only, so the time left is not tracked below      *)
(* -Horizon.                                                               *)
(***************************************************************************)
EXTENDS Integers, FiniteSets

CONSTANTS
    Workers,      \* worker identities; mint_worker_id never repeats one
    NoWorker,     \* NULL in leader_worker_id
    MayCrash,     \* the processes that may stop for good
    Window,       \* liveness window granted by a heartbeat or a fence
    Grace,        \* extra time before a silent member counts as dead
    Horizon,      \* times left below -Horizon are not told apart
    MaxEpoch      \* bound: number of seat grants explored

ASSUME WorkersAssumption == NoWorker \notin Workers /\ MayCrash \subseteq Workers
ASSUME TimeAssumption ==
    /\ Window \in Nat /\ Grace \in Nat /\ Horizon \in Nat
    /\ Grace < Horizon
ASSUME EpochAssumption == MaxEpoch \in Nat

VARIABLES
    run,          \* runs.status; COMPLETED stands for the three success statuses
    seat,         \* the run_coordination row
    member,       \* the run_workers rows
    token,        \* the CoordinationToken each process holds, by value
    crashed       \* processes that have stopped for good

coordVars == <<run, seat, member, token, crashed>>

Success    == {"COMPLETED"}
Resumable  == {"FAILED", "INTERRUPTED"}
Terminal   == Success \cup Resumable
Deadlines  == -Horizon .. Window

MemberRows == [status : {"absent", "active", "departed", "evicted"},
               role : {"none", "leader", "follower"},
               left : Deadlines]

NoToken    == [epoch |-> 0, purpose |-> "none"]
NoMember   == [status |-> "absent", role |-> "none", left |-> -Horizon]
\* Faulty: the vacated seat forgets its epoch.
VacantSeatReset(e) == [leader |-> NoWorker, epoch |-> 0, left |-> -Horizon]

VacantSeat(e) == [leader |-> NoWorker, epoch |-> e, left |-> -Horizon]

TypeOK ==
    /\ run \in Terminal \cup {"ABSENT", "RUNNING"}
    /\ seat \in [leader : Workers \cup {NoWorker}, epoch : Nat, left : Deadlines]
    /\ member \in [Workers -> MemberRows]
    /\ token \in [Workers -> [epoch : Nat, purpose : {"none", "run", "terminal"}]]
    /\ crashed \subseteq Workers

CoordInit ==
    /\ run = "ABSENT"
    /\ seat = VacantSeat(0)
    /\ member = [w \in Workers |-> NoMember]
    /\ token = [w \in Workers |-> NoToken]
    /\ crashed = {}

--------------------------------------------------------------------------------
(* Fences. *)

Running(w) == w \notin crashed

\* verify_and_extend_leader_fence: compare (run, worker, epoch), never the deadline.
HoldsSeat(w) == seat.leader = w /\ seat.epoch = token[w].epoch

LeaderFence(w) == Running(w) /\ HoldsSeat(w)

\* Every leader-fenced transaction renews the seat before and after its body.
ExtendSeat == seat' = [seat EXCEPT !.left = Window]

\* verify_membership_fence: the registry row is active; no deadline is read or moved.
MemberFence(w) == Running(w) /\ member[w].status = "active"

SeatLive == seat.leader # NoWorker /\ seat.left >= 0

SeatClaimable == seat.leader = NoWorker \/ seat.left < 0

\* Faulty: an identity that left may register again.
UnregisteredOrLeft(w) == Running(w) /\ member[w].status # "active"

Unregistered(w) == Running(w) /\ member[w].status = "absent"

Registered(role) == [status |-> "active", role |-> role, left |-> Window]

\* The deadline of a row that is no longer active is never read again.
SetStatus(ws, s) ==
    [w \in Workers |-> IF w \in ws
                       THEN [role |-> member[w].role, status |-> s, left |-> -Horizon]
                       ELSE member[w]]

ActiveFollowers == {w \in Workers : member[w].status = "active" /\ member[w].role = "follower"}

--------------------------------------------------------------------------------
(* Leadership. *)

\* begin_run: the run row, the seat at epoch 1 and its leader's row, together.
BeginRun(w) ==
    /\ run = "ABSENT"
    /\ Unregistered(w)
    /\ run' = "RUNNING"
    /\ seat' = [leader |-> w, epoch |-> 1, left |-> Window]
    /\ member' = [member EXCEPT ![w] = Registered("leader")]
    /\ token' = [token EXCEPT ![w] = [epoch |-> 1, purpose |-> "run"]]
    /\ UNCHANGED crashed

\* Faulty: a takeover evicts every active member.
DeposedEveryone == {w \in Workers : member[w].status = "active"}

Deposed == {w \in Workers : w = seat.leader /\ member[w].status = "active"}

\* Faulty: the epoch moves only when a leader is deposed.
TakeSeatKeepingEpoch(w, purpose) ==
    /\ Unregistered(w)
    /\ SeatClaimable
    /\ seat.epoch < MaxEpoch
    /\ seat' = [leader |-> w, left |-> Window,
                epoch |-> IF seat.leader = NoWorker THEN seat.epoch ELSE seat.epoch + 1]
    /\ member' = [SetStatus(Deposed, "evicted") EXCEPT ![w] = Registered("leader")]
    /\ token' = [token EXCEPT ![w] = [epoch |-> seat'.epoch, purpose |-> purpose]]
    /\ UNCHANGED crashed

\* The takeover compare-and-set shared by the two acquisitions: a vacant or
\* lapsed seat, epoch + 1, the prior leader evicted by identity.
TakeSeat(w, purpose) ==
    /\ Unregistered(w)
    /\ SeatClaimable
    /\ seat.epoch < MaxEpoch
    /\ seat' = [leader |-> w, epoch |-> seat.epoch + 1, left |-> Window]
    /\ member' = [SetStatus(Deposed, "evicted") EXCEPT ![w] = Registered("leader")]
    /\ token' = [token EXCEPT ![w] = [epoch |-> seat.epoch + 1, purpose |-> purpose]]
    /\ UNCHANGED crashed

\* Resume, abandon, orphan finalization: refused over a successful run; the
\* winner returns a failed or interrupted run to RUNNING.
AcquireRunLeadership(w) ==
    /\ run \in Resumable \cup {"RUNNING"}
    /\ TakeSeat(w, "run")
    /\ run' = "RUNNING"

\* Faulty: the terminal status is not checked under the seat's lock.
AcquireTerminalUnchecked(w) ==
    /\ run # "ABSENT"
    /\ TakeSeat(w, "terminal")
    /\ UNCHANGED run

\* Export and reconciliation: only over a terminal run, whose status stays.
AcquireTerminalLeadership(w) ==
    /\ run \in Terminal
    /\ TakeSeat(w, "terminal")
    /\ UNCHANGED run

\* The vacated seat keeps its epoch, so the next grant exceeds it.
ReleaseSeat(w) ==
    /\ LeaderFence(w)
    /\ member[w].status = "active"
    /\ seat' = VacantSeat(seat.epoch)
    /\ member' = SetStatus({w}, "departed")
    /\ UNCHANGED <<run, token, crashed>>

\* complete_run.  A success needs a quiescent journal with every token decided;
\* the terminal stamp departs the active followers and leaves the seat occupied.
CompleteRun(w, status, quiescent) ==
    /\ LeaderFence(w)
    /\ run \notin Terminal
    /\ status \in Success => quiescent
    /\ run' = status
    /\ ExtendSeat
    /\ member' = SetStatus(ActiveFollowers, "departed")
    /\ UNCHANGED <<token, crashed>>

\* Any other leader-fenced transaction: its body writes outside this component.
LeaderWrite(w) == LeaderFence(w) /\ ExtendSeat /\ UNCHANGED <<run, member, token, crashed>>

--------------------------------------------------------------------------------
(* Membership. *)

\* Faulty: any member's beat renews the seat.
WorkerHeartbeatAnySeat(w) ==
    /\ MemberFence(w)
    /\ member' = [member EXCEPT ![w].left = Window]
    /\ IF seat.leader # NoWorker THEN ExtendSeat ELSE UNCHANGED seat
    /\ UNCHANGED <<run, token, crashed>>

\* worker_heartbeat: the worker's row and, for the leader role, the seat it is
\* still named in; no epoch is compared.
WorkerHeartbeat(w) ==
    /\ MemberFence(w)
    /\ member' = [member EXCEPT ![w].left = Window]
    /\ IF member[w].role = "leader" /\ seat.leader = w THEN ExtendSeat ELSE UNCHANGED seat
    /\ UNCHANGED <<run, token, crashed>>

AdmitFollower(w) ==
    /\ Unregistered(w)
    /\ run = "RUNNING"
    /\ SeatLive
    /\ member' = [member EXCEPT ![w] = Registered("follower")]
    /\ UNCHANGED <<run, seat, token, crashed>>

\* Only a follower departs by itself; a leader departs by releasing its seat.
DepartWorker(w) ==
    /\ MemberFence(w)
    /\ member[w].role = "follower"
    /\ member' = SetStatus({w}, "departed")
    /\ UNCHANGED <<run, seat, token, crashed>>

\* evict_worker: a follower past its grace that holds no unexpired lease.
EvictWorker(w, target, holdsLiveLease) ==
    /\ LeaderFence(w)
    /\ member[target].role = "follower" /\ target # w
    /\ ~ holdsLiveLease
    /\ member[target].status = "active"
    /\ member[target].left < -Grace
    /\ member' = SetStatus({target}, "evicted")
    /\ ExtendSeat
    /\ UNCHANGED <<run, token, crashed>>

--------------------------------------------------------------------------------
(* The environment: time passes and processes stop. *)

Aged(d) == IF d > -Horizon THEN d - 1 ELSE d

CoordTick ==
    /\ seat' = [seat EXCEPT !.left = Aged(@)]
    /\ member' = [w \in Workers |-> [member[w] EXCEPT !.left = Aged(@)]]
    /\ UNCHANGED <<run, token, crashed>>

Crash(w) ==
    /\ Running(w) /\ member[w].status # "absent"
    /\ crashed' = crashed \cup {w}
    /\ UNCHANGED <<run, seat, member, token>>

--------------------------------------------------------------------------------
(* The component on its own: the scheduler journal that decides quiescence and *)
(* the leases that hold off an eviction may be in any state.                   *)

Next ==
    \/ \E w \in Workers :
        \/ BeginRun(w)
        \/ AcquireRunLeadership(w)
        \/ AcquireTerminalLeadership(w)
        \/ ReleaseSeat(w)
        \/ LeaderWrite(w)
        \/ WorkerHeartbeat(w)
        \/ AdmitFollower(w)
        \/ DepartWorker(w)
        \/ \E status \in Terminal, quiescent \in BOOLEAN : CompleteRun(w, status, quiescent)
        \/ \E target \in Workers, holds \in BOOLEAN : EvictWorker(w, target, holds)
    \/ \E w \in MayCrash : Crash(w)
    \/ CoordTick

Spec == CoordInit /\ [][Next]_coordVars

\* The database clock advances whatever the processes do.
FairSpec == Spec /\ WF_coordVars(CoordTick)

--------------------------------------------------------------------------------
(* Properties. *)

\* The registry and the seat never disagree: the active leader-role rows are
\* exactly the row of the seat's occupant, and that occupant holds the current
\* epoch (which is why worker_heartbeat may renew the seat by identity alone).
SeatMatchesRegistry ==
    /\ {w \in Workers : member[w].status = "active" /\ member[w].role = "leader"}
           = {seat.leader} \ {NoWorker}
    /\ seat.leader # NoWorker => token[seat.leader].epoch = seat.epoch

\* No two processes ever hold tokens of the same epoch, and none holds an epoch
\* the seat has not granted: a leader-fenced write is attributable to one process.
EpochsAreExclusive ==
    /\ \A v, w \in Workers :
          v # w /\ token[v].epoch = token[w].epoch => token[v].epoch = 0
    /\ \A w \in Workers : token[w].epoch <= seat.epoch

\* worker_heartbeat: "the two liveness clocks can never skew in the dangerous
\* worker-fresher-than-seat direction" for the leader, whichever of heartbeats,
\* fenced writes and acquisitions moved the two deadlines last.
SeatOutlivesItsLeaderRow ==
    seat.leader # NoWorker => seat.left >= member[seat.leader].left

\* Finalization and admission agree: a terminal run has no active follower, so
\* no follower can still claim or dispose of its work.
NoFollowerOnTerminalRun == run \in Terminal => ActiveFollowers = {}

\* A process that took the seat to export or reconcile a terminal run never
\* leads it once a resume has returned it to RUNNING.
TerminalTokenNeverLeadsRunning ==
    \A w \in Workers : run = "RUNNING" /\ HoldsSeat(w) => token[w].purpose = "run"

\* A token that stopped passing the leader fence never passes it again: a
\* suspended leader that wakes after a takeover, or after any number of
\* releases and takeovers, stays refused.
DeposedForever ==
    [][\A w \in Workers : token[w].epoch > 0 /\ ~ HoldsSeat(w) => ~ HoldsSeat(w)']_coordVars

\* A successful run is immutable, whoever takes its seat afterwards.
SuccessIsImmutable == [][(run \in Success) => run' = run]_coordVars

\* A follower is evicted only after its heartbeat has been silent past the
\* grace; in particular a takeover evicts the deposed leader and no follower.
FreshFollowerNeverEvicted ==
    [][\A w \in ActiveFollowers : member'[w].status = "evicted" => member[w].left < -Grace]_coordVars

\* A dead leader's seat becomes claimable: nobody else's heartbeats or writes
\* keep it alive.
DeadSeatLapses ==
    \A w \in Workers : (seat.leader = w /\ w \in crashed) ~> (seat.leader # w \/ seat.left < 0)

\* The seat implements the abstract fenced seat.
RetiredLeaders == {w \in Workers : member[w].role = "leader" /\ member[w].status # "active"}

Fenced == INSTANCE FencedSeat WITH holder <- seat.leader, epoch <- seat.epoch, retired <- RetiredLeaders

\* Every seat transition of acquisition, release, finalization and heartbeat is a
\* grant with a fresh epoch to a fresh identity, a vacation, or no seat change.
ImplementsFencedSeat == Fenced!Spec
================================================================================
