------------------------- MODULE RunCoordinationProofs -------------------------
(***************************************************************************)
(* Proofs, for every set of workers, window, grace and horizon, that the   *)
(* coordination plane keeps its invariants.                                *)
(***************************************************************************)
EXTENDS RunCoordination, TLAPS

\* The registry and the seat agree, worker by worker.
SeatAgrees ==
    /\ \A w \in Workers : (member[w].status = "active" /\ member[w].role = "leader")
                              <=> seat.leader = w
    /\ seat.leader # NoWorker => token[seat.leader].epoch = seat.epoch

\* A process gets a token only together with its registry row, and nothing is
\* registered before the run exists.
TokensFollowRows ==
    /\ \A w \in Workers : member[w].status = "absent" => token[w] = NoToken /\ member[w].role = "none"
    /\ run = "ABSENT" => /\ seat.epoch = 0
                         /\ \A w \in Workers : member[w].status = "absent"

\* The inductive invariant.
IInv ==
    /\ TypeOK
    /\ SeatAgrees
    /\ TokensFollowRows
    /\ EpochsAreExclusive
    /\ SeatOutlivesItsLeaderRow
    /\ NoFollowerOnTerminalRun
    /\ TerminalTokenNeverLeadsRunning

USE DEF Terminal, Success, Resumable, Deadlines, MemberRows

\* Changing the status of some registry rows yields registry rows that differ
\* from the old ones in those rows only, and there keep the role.
LEMMA SetStatusRows ==
  ASSUME TypeOK, NEW ws, NEW s \in {"departed", "evicted"}
  PROVE  /\ SetStatus(ws, s) \in [Workers -> MemberRows]
         /\ \A w \in Workers :
              /\ SetStatus(ws, s)[w].role = member[w].role
              /\ SetStatus(ws, s)[w].status = IF w \in ws THEN s ELSE member[w].status
  BY TimeAssumption DEF TypeOK, SetStatus, MemberRows

\* The initial state has no run, no seat holder and no worker.
LEMMA InitIInv == CoordInit => IInv
  BY WorkersAssumption, TimeAssumption
  DEF CoordInit, IInv, TypeOK, SeatAgrees, TokensFollowRows, EpochsAreExclusive,
      SeatOutlivesItsLeaderRow, NoFollowerOnTerminalRun, TerminalTokenNeverLeadsRunning,
      ActiveFollowers, HoldsSeat, NoMember, NoToken, VacantSeat

\* begin_run keeps the invariant: it is the first registration of the run.
LEMMA BeginRunIInv ==
  ASSUME IInv, NEW w \in Workers, BeginRun(w) PROVE IInv'
  <1> USE WorkersAssumption, TimeAssumption DEF BeginRun, Unregistered, Running, Registered
  <1>1. TypeOK'
    BY DEF IInv, TypeOK
  <1>2. SeatAgrees'
    BY DEF IInv, TypeOK, SeatAgrees, TokensFollowRows
  <1>3. TokensFollowRows'
    BY DEF IInv, TypeOK, TokensFollowRows
  <1>4. EpochsAreExclusive'
    BY DEF IInv, TypeOK, TokensFollowRows, EpochsAreExclusive, NoToken
  <1>5. SeatOutlivesItsLeaderRow'
    BY DEF IInv, TypeOK, SeatOutlivesItsLeaderRow
  <1>6. NoFollowerOnTerminalRun'
    BY DEF IInv, TypeOK, NoFollowerOnTerminalRun
  <1>7. TerminalTokenNeverLeadsRunning'
    BY DEF IInv, TypeOK, TerminalTokenNeverLeadsRunning, HoldsSeat
  <1>8. QED
    BY <1>1, <1>2, <1>3, <1>4, <1>5, <1>6, <1>7 DEF IInv

\* The takeover compare-and-set keeps the registry, the seat and the tokens in
\* agreement, whichever purpose the seat is taken for.
LEMMA TakeSeatKeeps ==
  ASSUME IInv, NEW w \in Workers, NEW purpose \in {"run", "terminal"}, run # "ABSENT",
         TakeSeat(w, purpose), run' \in Terminal \cup {"RUNNING"}
  PROVE  /\ TypeOK' /\ SeatAgrees' /\ TokensFollowRows' /\ EpochsAreExclusive'
         /\ SeatOutlivesItsLeaderRow' /\ ActiveFollowers' = ActiveFollowers
  <1> USE WorkersAssumption, TimeAssumption
      DEF TakeSeat, Unregistered, Running, Registered, SetStatus, Deposed
  <1>1. TypeOK'
    <2>1. member' \in [Workers -> MemberRows]
      <3>1. SetStatus(Deposed, "evicted") \in [Workers -> MemberRows]
        <4> HIDE DEF SetStatus, MemberRows, Deposed
        <4> QED
          BY SetStatusRows DEF IInv
      <3>2. Registered("leader") \in MemberRows
        BY DEF MemberRows
      <3>3. QED
        BY <3>1, <3>2 DEF TakeSeat
    <2>2. QED
      BY <2>1 DEF IInv, TypeOK
  <1>2. SeatAgrees'
    BY DEF IInv, TypeOK, SeatAgrees
  <1>3. TokensFollowRows'
    BY DEF IInv, TypeOK, TokensFollowRows
  <1>4. EpochsAreExclusive'
    BY DEF IInv, TypeOK, EpochsAreExclusive
  <1>5. SeatOutlivesItsLeaderRow'
    BY DEF IInv, TypeOK, SeatOutlivesItsLeaderRow
  <1>6. ActiveFollowers' = ActiveFollowers
    BY DEF IInv, TypeOK, SeatAgrees, ActiveFollowers
  <1>7. QED
    BY <1>1, <1>2, <1>3, <1>4, <1>5, <1>6

\* Resume and abandon keep the invariant.
LEMMA AcquireRunIInv ==
  ASSUME IInv, NEW w \in Workers, AcquireRunLeadership(w) PROVE IInv'
  <1>1. /\ TypeOK' /\ SeatAgrees' /\ TokensFollowRows' /\ EpochsAreExclusive'
        /\ SeatOutlivesItsLeaderRow'
    BY TakeSeatKeeps DEF AcquireRunLeadership
  <1>2. NoFollowerOnTerminalRun'
    BY DEF AcquireRunLeadership, NoFollowerOnTerminalRun
  <1>3. TerminalTokenNeverLeadsRunning'
    BY WorkersAssumption DEF IInv, TypeOK, AcquireRunLeadership, TakeSeat, TerminalTokenNeverLeadsRunning, HoldsSeat
  <1>4. QED
    BY <1>1, <1>2, <1>3 DEF IInv

\* Export and reconciliation keep the invariant: they never touch a running run.
LEMMA AcquireTerminalIInv ==
  ASSUME IInv, NEW w \in Workers, AcquireTerminalLeadership(w) PROVE IInv'
  <1>1. /\ TypeOK' /\ SeatAgrees' /\ TokensFollowRows' /\ EpochsAreExclusive'
        /\ SeatOutlivesItsLeaderRow' /\ ActiveFollowers' = ActiveFollowers
    BY TakeSeatKeeps DEF AcquireTerminalLeadership
  <1>2. NoFollowerOnTerminalRun'
    BY <1>1 DEF IInv, AcquireTerminalLeadership, NoFollowerOnTerminalRun
  <1>3. TerminalTokenNeverLeadsRunning'
    BY DEF AcquireTerminalLeadership, TerminalTokenNeverLeadsRunning
  <1>4. QED
    BY <1>1, <1>2, <1>3 DEF IInv

\* release_seat departs the occupant and vacates the seat together.
LEMMA ReleaseSeatIInv ==
  ASSUME IInv, NEW w \in Workers, ReleaseSeat(w) PROVE IInv'
  <1> USE WorkersAssumption, TimeAssumption
      DEF ReleaseSeat, LeaderFence, HoldsSeat, Running, VacantSeat, SetStatus
  <1>1. TypeOK'
    BY DEF IInv, TypeOK
  <1>2. SeatAgrees'
    BY DEF IInv, TypeOK, SeatAgrees
  <1>3. TokensFollowRows'
    BY DEF IInv, TypeOK, TokensFollowRows
  <1>4. EpochsAreExclusive'
    BY DEF IInv, TypeOK, EpochsAreExclusive
  <1>5. SeatOutlivesItsLeaderRow'
    BY DEF SeatOutlivesItsLeaderRow
  <1>6. NoFollowerOnTerminalRun'
    BY DEF IInv, TypeOK, NoFollowerOnTerminalRun, ActiveFollowers
  <1>7. TerminalTokenNeverLeadsRunning'
    BY DEF TerminalTokenNeverLeadsRunning
  <1>8. QED
    BY <1>1, <1>2, <1>3, <1>4, <1>5, <1>6, <1>7 DEF IInv

\* complete_run departs every follower with the terminal stamp.
LEMMA CompleteRunIInv ==
  ASSUME IInv, NEW w \in Workers, NEW status \in Terminal, NEW quiescent \in BOOLEAN,
         CompleteRun(w, status, quiescent)
  PROVE  IInv'
  <1> USE WorkersAssumption, TimeAssumption
      DEF CompleteRun, LeaderFence, HoldsSeat, Running, ExtendSeat, SetStatus, ActiveFollowers
  <1>1. TypeOK'
    <2>1. member' \in [Workers -> MemberRows]
      <3> HIDE DEF SetStatus, MemberRows
      <3> QED
        BY SetStatusRows DEF IInv
    <2>2. QED
      BY <2>1 DEF IInv, TypeOK
  <1>2. SeatAgrees'
    BY DEF IInv, TypeOK, SeatAgrees
  <1>3. TokensFollowRows'
    BY DEF IInv, TypeOK, TokensFollowRows
  <1>4. EpochsAreExclusive'
    BY DEF IInv, TypeOK, EpochsAreExclusive
  <1>5. SeatOutlivesItsLeaderRow'
    BY DEF IInv, TypeOK, SeatOutlivesItsLeaderRow
  <1>6. NoFollowerOnTerminalRun'
    BY DEF IInv, TypeOK, NoFollowerOnTerminalRun
  <1>7. TerminalTokenNeverLeadsRunning'
    BY DEF TerminalTokenNeverLeadsRunning
  <1>8. QED
    BY <1>1, <1>2, <1>3, <1>4, <1>5, <1>6, <1>7 DEF IInv

\* A heartbeat moves deadlines only, the leader's pair of deadlines together.
LEMMA WorkerHeartbeatIInv ==
  ASSUME IInv, NEW w \in Workers, WorkerHeartbeat(w) PROVE IInv'
  <1> USE WorkersAssumption, TimeAssumption DEF WorkerHeartbeat, MemberFence, Running, ExtendSeat
  <1>1. TypeOK'
    BY DEF IInv, TypeOK
  <1>2. SeatAgrees'
    BY DEF IInv, TypeOK, SeatAgrees
  <1>3. TokensFollowRows'
    BY DEF IInv, TypeOK, TokensFollowRows
  <1>4. EpochsAreExclusive'
    BY DEF IInv, TypeOK, EpochsAreExclusive
  <1>5. SeatOutlivesItsLeaderRow'
    BY DEF IInv, TypeOK, SeatAgrees, SeatOutlivesItsLeaderRow
  <1>6. NoFollowerOnTerminalRun'
    BY DEF IInv, TypeOK, NoFollowerOnTerminalRun, ActiveFollowers
  <1>7. TerminalTokenNeverLeadsRunning'
    BY DEF IInv, TypeOK, TerminalTokenNeverLeadsRunning, HoldsSeat
  <1>8. QED
    BY <1>1, <1>2, <1>3, <1>4, <1>5, <1>6, <1>7 DEF IInv

\* A leader-fenced write moves the seat's deadline only.
LEMMA LeaderWriteIInv ==
  ASSUME IInv, NEW w \in Workers, LeaderWrite(w) PROVE IInv'
  <1> USE WorkersAssumption, TimeAssumption DEF LeaderWrite, ExtendSeat
  <1>1. TypeOK'
    BY DEF IInv, TypeOK
  <1>2. SeatAgrees' /\ TokensFollowRows' /\ EpochsAreExclusive'
    BY DEF IInv, TypeOK, SeatAgrees, TokensFollowRows, EpochsAreExclusive
  <1>3. SeatOutlivesItsLeaderRow'
    BY DEF IInv, TypeOK, SeatOutlivesItsLeaderRow
  <1>4. NoFollowerOnTerminalRun' /\ TerminalTokenNeverLeadsRunning'
    BY DEF IInv, TypeOK, NoFollowerOnTerminalRun, ActiveFollowers, TerminalTokenNeverLeadsRunning, HoldsSeat
  <1>5. QED
    BY <1>1, <1>2, <1>3, <1>4 DEF IInv

\* Steps that change registry rows of followers only, and at most renew the seat.
LEMMA FollowerStepIInv ==
  ASSUME IInv, NEW w \in Workers,
         \/ AdmitFollower(w)
         \/ DepartWorker(w)
         \/ \E target \in Workers, holds \in BOOLEAN : EvictWorker(w, target, holds)
  PROVE  IInv'
  <1> USE WorkersAssumption, TimeAssumption
      DEF AdmitFollower, DepartWorker, EvictWorker, LeaderFence, HoldsSeat, MemberFence,
          Unregistered, Registered, Running, ExtendSeat, SetStatus
  <1>1. TypeOK'
    <2>1. member' \in [Workers -> MemberRows]
      <3>1. Registered("follower") \in MemberRows
        OBVIOUS
      <3> HIDE DEF SetStatus, MemberRows, Registered
      <3>2. CASE AdmitFollower(w)
        BY <3>1, <3>2 DEF IInv, TypeOK
      <3>3. CASE DepartWorker(w)
        BY <3>3, SetStatusRows DEF IInv
      <3>4. CASE \E target \in Workers, holds \in BOOLEAN : EvictWorker(w, target, holds)
        BY <3>4, SetStatusRows DEF IInv
      <3>5. QED
        BY <3>2, <3>3, <3>4
    <2>2. QED
      BY <2>1 DEF IInv, TypeOK
  <1>2. SeatAgrees'
    <2>1. CASE AdmitFollower(w)
      BY <2>1 DEF IInv, TypeOK, SeatAgrees
    <2>2. CASE DepartWorker(w)
      BY <2>2 DEF IInv, TypeOK, SeatAgrees
    <2>3. CASE \E target \in Workers, holds \in BOOLEAN : EvictWorker(w, target, holds)
      BY <2>3 DEF IInv, TypeOK, SeatAgrees
    <2>4. QED
      BY <2>1, <2>2, <2>3
  <1>3. TokensFollowRows'
    BY DEF IInv, TypeOK, TokensFollowRows
  <1>4. EpochsAreExclusive'
    BY DEF IInv, TypeOK, EpochsAreExclusive
  <1>5. SeatOutlivesItsLeaderRow'
    BY DEF IInv, TypeOK, SeatAgrees, SeatOutlivesItsLeaderRow
  <1>6. NoFollowerOnTerminalRun'
    BY DEF IInv, TypeOK, NoFollowerOnTerminalRun, ActiveFollowers
  <1>7. TerminalTokenNeverLeadsRunning'
    BY DEF IInv, TypeOK, TerminalTokenNeverLeadsRunning
  <1>8. QED
    BY <1>1, <1>2, <1>3, <1>4, <1>5, <1>6, <1>7 DEF IInv

\* Time shortens every deadline alike; a crash changes no row.
LEMMA EnvironmentIInv ==
  ASSUME IInv, CoordTick \/ (\E w \in MayCrash : Crash(w)) PROVE IInv'
  <1> USE WorkersAssumption, TimeAssumption DEF CoordTick, Crash, Aged, Running
  <1>1. TypeOK'
    <2>1. \A d \in Deadlines : Aged(d) \in Deadlines
      OBVIOUS
    <2>2. CASE CoordTick
      <3>1. member' \in [Workers -> MemberRows]
        <4>1. \A r \in MemberRows : [r EXCEPT !.left = Aged(@)] \in MemberRows
          BY <2>1
        <4> HIDE DEF MemberRows, Aged
        <4>2. QED
          BY <2>2, <4>1 DEF IInv, TypeOK
      <3>2. QED
        BY <2>1, <2>2, <3>1 DEF IInv, TypeOK
    <2>3. CASE \E w \in MayCrash : Crash(w)
      BY <2>3 DEF IInv, TypeOK
    <2>4. QED
      BY <2>2, <2>3
  <1>2. SeatAgrees'
    BY DEF IInv, TypeOK, SeatAgrees
  <1>3. TokensFollowRows'
    BY DEF IInv, TypeOK, TokensFollowRows
  <1>4. EpochsAreExclusive'
    BY DEF IInv, TypeOK, EpochsAreExclusive
  <1>5. SeatOutlivesItsLeaderRow'
    BY DEF IInv, TypeOK, SeatOutlivesItsLeaderRow
  <1>6. NoFollowerOnTerminalRun'
    BY DEF IInv, TypeOK, NoFollowerOnTerminalRun, ActiveFollowers
  <1>7. TerminalTokenNeverLeadsRunning'
    BY DEF IInv, TypeOK, TerminalTokenNeverLeadsRunning, HoldsSeat
  <1>8. QED
    BY <1>1, <1>2, <1>3, <1>4, <1>5, <1>6, <1>7 DEF IInv

\* Every step of the coordination plane keeps the inductive invariant.
LEMMA NextIInv == IInv /\ [Next]_coordVars => IInv'
  <1> SUFFICES ASSUME IInv, [Next]_coordVars PROVE IInv'
    OBVIOUS
  <1>1. CASE UNCHANGED coordVars
    BY <1>1 DEF coordVars, IInv, TypeOK, SeatAgrees, TokensFollowRows, EpochsAreExclusive,
       SeatOutlivesItsLeaderRow, NoFollowerOnTerminalRun, TerminalTokenNeverLeadsRunning,
       ActiveFollowers, HoldsSeat
  <1>2. ASSUME NEW w \in Workers, BeginRun(w) PROVE IInv'
    BY <1>2, BeginRunIInv
  <1>3. ASSUME NEW w \in Workers, AcquireRunLeadership(w) PROVE IInv'
    BY <1>3, AcquireRunIInv
  <1>4. ASSUME NEW w \in Workers, AcquireTerminalLeadership(w) PROVE IInv'
    BY <1>4, AcquireTerminalIInv
  <1>5. ASSUME NEW w \in Workers, ReleaseSeat(w) PROVE IInv'
    BY <1>5, ReleaseSeatIInv
  <1>6. ASSUME NEW w \in Workers, NEW status \in Terminal, NEW q \in BOOLEAN,
               CompleteRun(w, status, q)
        PROVE  IInv'
    BY <1>6, CompleteRunIInv
  <1>7. ASSUME NEW w \in Workers, WorkerHeartbeat(w) PROVE IInv'
    BY <1>7, WorkerHeartbeatIInv
  <1>8. ASSUME NEW w \in Workers,
               \/ AdmitFollower(w)
               \/ DepartWorker(w)
               \/ \E target \in Workers, holds \in BOOLEAN : EvictWorker(w, target, holds)
        PROVE  IInv'
    BY <1>8, FollowerStepIInv
  <1>9. CASE CoordTick \/ \E w \in MayCrash : Crash(w)
    BY <1>9, EnvironmentIInv
  <1>10. ASSUME NEW w \in Workers, LeaderWrite(w) PROVE IInv'
    BY <1>10, LeaderWriteIInv
  <1>11. QED
    BY <1>1, <1>2, <1>3, <1>4, <1>5, <1>6, <1>7, <1>8, <1>9, <1>10 DEF Next

\* The inductive invariant holds in every reachable state.
THEOREM Invariance == Spec => []IInv
  BY InitIInv, NextIInv, PTL DEF Spec

\* Every variable keeps its type in every reachable state.
THEOREM TypeCorrect == Spec => []TypeOK
  <1>1. IInv => TypeOK
    BY DEF IInv
  <1>2. QED
    BY <1>1, Invariance, PTL

\* The active leader row is always the seat occupant's, and the occupant always
\* holds the current epoch: heartbeat renewal by identity is as strong as the
\* epoch fence.
THEOREM RegistryTheorem == Spec => []SeatMatchesRegistry
  <1>1. IInv => SeatMatchesRegistry
    BY WorkersAssumption DEF IInv, TypeOK, SeatAgrees, SeatMatchesRegistry
  <1>2. QED
    BY <1>1, Invariance, PTL

\* No two processes hold the same epoch, and none holds an epoch not yet granted.
THEOREM EpochTheorem == Spec => []EpochsAreExclusive
  <1>1. IInv => EpochsAreExclusive
    BY DEF IInv
  <1>2. QED
    BY <1>1, Invariance, PTL

\* The leader's registry deadline is never later than its seat's.
THEOREM LivenessClockTheorem == Spec => []SeatOutlivesItsLeaderRow
  <1>1. IInv => SeatOutlivesItsLeaderRow
    BY DEF IInv
  <1>2. QED
    BY <1>1, Invariance, PTL

\* A terminal run has no active follower.
THEOREM FinalizeTheorem == Spec => []NoFollowerOnTerminalRun
  <1>1. IInv => NoFollowerOnTerminalRun
    BY DEF IInv
  <1>2. QED
    BY <1>1, Invariance, PTL

\* An export or reconciliation token never leads a running run.
THEOREM PurposeTheorem == Spec => []TerminalTokenNeverLeadsRunning
  <1>1. IInv => TerminalTokenNeverLeadsRunning
    BY DEF IInv
  <1>2. QED
    BY <1>1, Invariance, PTL

\* What one step may do to the seat and the tokens: leave both, vacate the seat,
\* or grant it with the next epoch to an identity that was never registered.
LEMMA SeatStep ==
  ASSUME IInv, [Next]_coordVars
  PROVE  \/ seat'.leader = seat.leader /\ seat'.epoch = seat.epoch /\ token' = token
         \/ seat'.leader = NoWorker /\ seat'.epoch = seat.epoch /\ token' = token
         \/ \E w \in Workers :
              /\ member[w].status = "absent"
              /\ seat'.leader = w /\ seat'.epoch = seat.epoch + 1
              /\ \E t : token' = [token EXCEPT ![w] = t]
  <1> USE DEF IInv, TypeOK
  <1>1. CASE UNCHANGED coordVars
    BY <1>1 DEF coordVars
  <1>2. ASSUME NEW w \in Workers, BeginRun(w)
        PROVE  /\ member[w].status = "absent"
               /\ seat'.leader = w /\ seat'.epoch = seat.epoch + 1
               /\ \E t : token' = [token EXCEPT ![w] = t]
    <2>1. seat.epoch = 0 /\ member[w].status = "absent"
      BY <1>2 DEF BeginRun, Unregistered, TokensFollowRows
    <2>2. seat'.leader = w /\ seat'.epoch = 1
      BY <1>2 DEF BeginRun
    <2>3. \E t : token' = [token EXCEPT ![w] = t]
      BY <1>2 DEF BeginRun
    <2>4. seat'.epoch = seat.epoch + 1
      BY <2>1, <2>2
    <2>5. QED
      BY <2>1, <2>2, <2>3, <2>4, Zenon
  <1>3. ASSUME NEW w \in Workers, AcquireRunLeadership(w) \/ AcquireTerminalLeadership(w)
        PROVE  /\ member[w].status = "absent"
               /\ seat'.leader = w /\ seat'.epoch = seat.epoch + 1
               /\ \E t : token' = [token EXCEPT ![w] = t]
    BY <1>3 DEF AcquireRunLeadership, AcquireTerminalLeadership, TakeSeat, Unregistered
  <1>4. ASSUME NEW w \in Workers, ReleaseSeat(w)
        PROVE  seat'.leader = NoWorker /\ seat'.epoch = seat.epoch /\ token' = token
    BY <1>4 DEF ReleaseSeat, VacantSeat
  <1>5. ASSUME NEW w \in Workers,
               \/ WorkerHeartbeat(w)
               \/ LeaderWrite(w)
               \/ AdmitFollower(w)
               \/ DepartWorker(w)
               \/ \E s \in Terminal, q \in BOOLEAN : CompleteRun(w, s, q)
               \/ \E target \in Workers, holds \in BOOLEAN : EvictWorker(w, target, holds)
        PROVE  seat'.leader = seat.leader /\ seat'.epoch = seat.epoch /\ token' = token
    BY <1>5 DEF WorkerHeartbeat, LeaderWrite, AdmitFollower, DepartWorker, CompleteRun, EvictWorker, ExtendSeat
  <1>6. CASE CoordTick \/ \E w \in MayCrash : Crash(w)
    BY <1>6 DEF CoordTick, Crash
  <1>7. QED
    BY <1>1, <1>2, <1>3, <1>4, <1>5, <1>6 DEF Next

\* A token that stopped passing the leader fence never passes it again.
THEOREM DeposedTheorem == Spec => DeposedForever
  <1>1. ASSUME IInv, [Next]_coordVars, NEW w \in Workers, token[w].epoch > 0, ~ HoldsSeat(w)
        PROVE  ~ HoldsSeat(w)'
    <2>1. member[w].status # "absent"
      BY <1>1 DEF IInv, TypeOK, TokensFollowRows, NoToken
    <2>2. QED
      BY <1>1, <2>1, SeatStep, WorkersAssumption DEF HoldsSeat, IInv, TypeOK
  <1>2. IInv /\ [Next]_coordVars
          => [\A w \in Workers : token[w].epoch > 0 /\ ~ HoldsSeat(w) => ~ HoldsSeat(w)']_coordVars
    BY <1>1
  <1>3. QED
    BY <1>2, Invariance, PTL DEF Spec, DeposedForever

\* A successful run keeps its status in every step, takeovers included.
THEOREM ImmutabilityTheorem == Spec => SuccessIsImmutable
  <1>1. [Next]_coordVars => [(run \in Success) => run' = run]_coordVars
    BY DEF Next, coordVars, BeginRun, AcquireRunLeadership, AcquireTerminalLeadership, ReleaseSeat,
       LeaderWrite, WorkerHeartbeat, AdmitFollower, DepartWorker, CompleteRun, EvictWorker, CoordTick, Crash
  <1>2. QED
    BY <1>1, PTL DEF Spec, SuccessIsImmutable

\* A takeover evicts the deposed leader and nobody else, so a follower is evicted
\* only past its grace.
THEOREM EvictionTheorem == Spec => FreshFollowerNeverEvicted
  <1>1. ASSUME IInv, [Next]_coordVars, NEW v \in ActiveFollowers, member'[v].status = "evicted"
        PROVE  member[v].left < -Grace
    <2> USE <1>1 DEF IInv, TypeOK, ActiveFollowers
    <2>1. CASE UNCHANGED coordVars
      BY <2>1 DEF coordVars
    <2>2. ASSUME NEW w \in Workers, NEW purpose, TakeSeat(w, purpose) PROVE FALSE
      BY <2>2 DEF TakeSeat, Unregistered, Registered, SetStatus, Deposed, SeatAgrees
    <2>3. ASSUME NEW w \in Workers, NEW target \in Workers, NEW holds \in BOOLEAN, EvictWorker(w, target, holds)
          PROVE  member[v].left < -Grace
      BY <2>3 DEF EvictWorker, SetStatus
    <2>4. ASSUME NEW w \in Workers,
                 ReleaseSeat(w) \/ DepartWorker(w) \/ \E s \in Terminal, q \in BOOLEAN : CompleteRun(w, s, q)
          PROVE  FALSE
      BY <2>4 DEF ReleaseSeat, DepartWorker, CompleteRun, SetStatus
    <2>5. ASSUME NEW w \in Workers, BeginRun(w) \/ AdmitFollower(w) PROVE FALSE
      BY <2>5 DEF BeginRun, AdmitFollower, Registered, Unregistered
    <2>6. ASSUME NEW w \in Workers, LeaderWrite(w) \/ WorkerHeartbeat(w) PROVE FALSE
      BY <2>6 DEF LeaderWrite, WorkerHeartbeat
    <2>7. CASE CoordTick \/ \E w \in MayCrash : Crash(w)
      BY <2>7 DEF CoordTick, Crash
    <2>8. QED
      BY <2>1, <2>2, <2>3, <2>4, <2>5, <2>6, <2>7 DEF Next, AcquireRunLeadership, AcquireTerminalLeadership
  <1>2. IInv /\ [Next]_coordVars
          => [\A w \in ActiveFollowers : member'[w].status = "evicted" => member[w].left < -Grace]_coordVars
    BY <1>1
  <1>3. QED
    BY <1>2, Invariance, PTL DEF Spec, FreshFollowerNeverEvicted

\* What one step may do to the retired leaders: grants and vacations retire the
\* former occupant, other steps retire nobody.
LEMMA FencedStep ==
  ASSUME IInv, [Next]_coordVars
  PROVE  [Fenced!Next]_<<seat.leader, seat.epoch, RetiredLeaders>>
  <1> USE DEF IInv, TypeOK
  <1>1. ASSUME seat'.leader = seat.leader, seat'.epoch = seat.epoch,
               \A w \in Workers : member[w].role = "leader" \/ member'[w].role = "leader"
                                   => member'[w].role = member[w].role /\ member'[w].status = member[w].status
        PROVE  UNCHANGED <<seat.leader, seat.epoch, RetiredLeaders>>
    BY <1>1 DEF RetiredLeaders
  <1>2. CASE UNCHANGED coordVars
    BY <1>1, <1>2 DEF coordVars
  <1>3. ASSUME NEW w \in Workers, BeginRun(w) PROVE Fenced!Grant(w)
    <2>1. RetiredLeaders = {} /\ RetiredLeaders' = {} /\ seat.leader = NoWorker /\ seat.epoch = 0
      BY <1>3 DEF BeginRun, Registered, TokensFollowRows, SeatAgrees, RetiredLeaders
    <2>2. seat'.leader = w /\ seat'.epoch = 1
      BY <1>3 DEF BeginRun
    <2>3. QED
      BY <2>1, <2>2, WorkersAssumption DEF Fenced!Grant, Fenced!FormerHolder
  <1>4. ASSUME NEW w \in Workers, NEW purpose \in {"run", "terminal"}, TakeSeat(w, purpose)
        PROVE  Fenced!Grant(w)
    <2>1. w \notin RetiredLeaders \cup {seat.leader}
      BY <1>4 DEF TakeSeat, Unregistered, TokensFollowRows, SeatAgrees, RetiredLeaders
    <2>2. RetiredLeaders' = RetiredLeaders \cup ({seat.leader} \ {NoWorker})
      <3>1. ASSUME NEW v \in Workers
            PROVE  v \in RetiredLeaders' <=> v \in RetiredLeaders \/ v = seat.leader
        BY <1>4, <3>1 DEF TakeSeat, Unregistered, Registered, SetStatus, Deposed, SeatAgrees,
           TokensFollowRows, RetiredLeaders
      <3>2. RetiredLeaders \subseteq Workers /\ RetiredLeaders' \subseteq Workers
        BY DEF RetiredLeaders
      <3>3. QED
        BY <3>1, <3>2, WorkersAssumption
    <2>3. QED
      BY <1>4, <2>1, <2>2 DEF TakeSeat, Fenced!Grant, Fenced!FormerHolder
  <1>5. ASSUME NEW w \in Workers, ReleaseSeat(w) PROVE Fenced!Vacate
    <2>1. seat.leader = w /\ member[w].role = "leader"
      BY <1>5 DEF ReleaseSeat, LeaderFence, HoldsSeat, SeatAgrees
    <2>2. RetiredLeaders' = RetiredLeaders \cup ({seat.leader} \ {NoWorker})
      <3>1. ASSUME NEW v \in Workers
            PROVE  v \in RetiredLeaders' <=> v \in RetiredLeaders \/ v = w
        BY <1>5, <2>1, <3>1 DEF ReleaseSeat, SetStatus, RetiredLeaders
      <3>2. RetiredLeaders \subseteq Workers /\ RetiredLeaders' \subseteq Workers
        BY DEF RetiredLeaders
      <3>3. QED
        BY <2>1, <3>1, <3>2, WorkersAssumption
    <2>3. QED
      BY <1>5, <2>1, <2>2, WorkersAssumption DEF ReleaseSeat, VacantSeat, Fenced!Vacate, Fenced!FormerHolder
  <1>6. ASSUME NEW w \in Workers,
               \/ WorkerHeartbeat(w)
               \/ LeaderWrite(w)
               \/ AdmitFollower(w)
               \/ DepartWorker(w)
               \/ \E s \in Terminal, q \in BOOLEAN : CompleteRun(w, s, q)
               \/ \E target \in Workers, holds \in BOOLEAN : EvictWorker(w, target, holds)
        PROVE  UNCHANGED <<seat.leader, seat.epoch, RetiredLeaders>>
    <2>1. seat'.leader = seat.leader /\ seat'.epoch = seat.epoch
      BY <1>6 DEF WorkerHeartbeat, LeaderWrite, AdmitFollower, DepartWorker, CompleteRun, EvictWorker, ExtendSeat
    <2>2. \A v \in Workers : member[v].role = "leader" \/ member'[v].role = "leader"
                              => member'[v].role = member[v].role /\ member'[v].status = member[v].status
      BY <1>6 DEF WorkerHeartbeat, LeaderWrite, AdmitFollower, DepartWorker, CompleteRun, EvictWorker, Unregistered,
         Registered, SetStatus, ActiveFollowers, TokensFollowRows
    <2>3. QED
      BY <1>1, <2>1, <2>2
  <1>7. CASE CoordTick \/ \E w \in MayCrash : Crash(w)
    <2>1. seat'.leader = seat.leader /\ seat'.epoch = seat.epoch
      BY <1>7 DEF CoordTick, Crash
    <2>2. \A v \in Workers : member'[v].role = member[v].role /\ member'[v].status = member[v].status
      BY <1>7 DEF CoordTick, Crash
    <2>3. QED
      BY <1>1, <2>1, <2>2
  <1>8. QED
    BY <1>2, <1>3, <1>4, <1>5, <1>6, <1>7
    DEF Next, AcquireRunLeadership, AcquireTerminalLeadership, Fenced!Next

\* The coordination plane implements the fenced seat: one holder, a fresh epoch
\* for every grant, and no identity in the seat twice.
THEOREM FencedSeatTheorem == Spec => ImplementsFencedSeat
  <1>1. CoordInit => Fenced!Init
    BY DEF CoordInit, VacantSeat, NoMember, RetiredLeaders, Fenced!Init
  <1>2. IInv /\ [Next]_coordVars => [Fenced!Next]_Fenced!seatVars
    BY FencedStep DEF Fenced!seatVars
  <1>3. QED
    BY <1>1, <1>2, Invariance, PTL DEF Spec, ImplementsFencedSeat, Fenced!Spec
================================================================================
