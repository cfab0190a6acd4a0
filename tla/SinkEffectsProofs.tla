--------------------------- MODULE SinkEffectsProofs ---------------------------
(*****************************************************************************)
(* What follows from the invariant of sink effects when the clocks agree.    *)
(*                                                                           *)
(* That a unit is published at most once rests on believing NOT_APPLIED only *)
(* from a reconciliation begun after every lost commit.  The code compares   *)
(* started_at of two workers, so that is what the clocks make of it: with    *)
(* ClocksAgree attempts are dated in the order they were begun (InOrder), a  *)
(* published unit has a commit later than every such report (HeldIsLater),   *)
(* and so the coordinator never commits a published unit (CommitOnce).       *)
(*                                                                           *)
(* The steps are then mapped to those of SinkDelivery, token by token.       *)
(*****************************************************************************)
EXTENDS SinkEffectsInvariant

\* The prover of a step that names none.
USE Zenon

\* The process clocks of later leaders are not behind those of earlier ones.
ClocksAgree == \A j, k \in 1 .. MaxEpoch : j <= k => Skew[j] <= Skew[k]

\* Attempts are dated in the order in which they were begun.
InOrder ==
    \A e \in Effects : \A i \in DOMAIN attempts[e] :
        /\ attempts[e][i].at <= i + Skew[epoch]
        /\ \A j \in DOMAIN attempts[e] : i <= j => attempts[e][i].at <= attempts[e][j].at

\* A unit published by a leader in charge has a commit later than every report
\* that it was not applied.
HeldIsLater ==
    \A e \in Effects, u \in Units : target[e][u].held > 0 =>
        \E j \in CommitsOf(e, u) : \A i \in Of(e, u, "RECONCILE", "RETURNED") :
            attempts[e][i].res = "NOT_APPLIED" => i < j

\* A report that the coordinator commits on is later than every commit, and while
\* it waits for a commit nothing of the unit has been published.
CommitOnce ==
    \A e \in Effects : Current(e) =>
        /\ co.pc = "answer" /\ attempts[e][co.att].res = "NOT_APPLIED" =>
              \A j \in CommitsOf(e, co.unit) : j < co.att
        /\ co.pc = "committing" => target[e][co.unit].held = 0

OrderInv == InOrder /\ HeldIsLater /\ CommitOnce /\ OneHeldPublication

--------------------------------------------------------------------------------
(* Publication at most once by a leader in charge, where the clocks agree. *)

\* No dates change, and no later leader's clock is behind.
LEMMA OrderKept ==
    ASSUME ClocksAgree, Types, Types', InOrder, epoch <= epoch',
           \A e \in Effects :
               /\ DOMAIN attempts'[e] = DOMAIN attempts[e]
               /\ \A i \in DOMAIN attempts[e] : attempts'[e][i].at = attempts[e][i].at
    PROVE  InOrder'
<1>1. Skew[epoch] <= Skew[epoch'] /\ Skew[epoch] \in Nat /\ Skew[epoch'] \in Nat
  BY SkewAssumption DEF ClocksAgree, Types, TypeOK
<1>2. \A e \in Effects : \A i \in DOMAIN attempts[e] : i \in Nat /\ attempts[e][i].at \in Nat
  <2>1. \A e \in Effects : attempts[e] \in Seq(Attempt)
    BY DEF Types, TypeOK
  <2>2. \A e \in Effects : \A i \in DOMAIN attempts[e] : i \in Nat /\ attempts[e][i] \in Attempt
    BY <2>1, SMT
  <2> QED
    BY <2>2 DEF Attempt
<1> QED
  BY <1>1, <1>2, SMT DEF InOrder

\* An attempt is dated after all that were begun before it.
LEMMA OrderBegin ==
    ASSUME Types, InOrder, epoch' = epoch,
           NEW e \in Effects, NEW u \in Units, NEW act \in {"COMMIT", "RECONCILE"}, Begin(e, u, act)
    PROVE  InOrder'
<1> DEFINE n == Len(attempts[e]) + 1
<1>1. /\ \A f \in Effects : f # e => attempts'[f] = attempts[f]
      /\ Len(attempts[e]) \in Nat /\ DOMAIN attempts[e] = 1 .. Len(attempts[e])
      /\ DOMAIN attempts'[e] = 1 .. n
      /\ \A i \in DOMAIN attempts[e] : attempts'[e][i] = attempts[e][i]
      /\ attempts'[e][n].at = n + Skew[epoch]
  BY BeginStep, SMT
<1>2. Skew[epoch] \in Nat
  BY SkewAssumption DEF Types, TypeOK
<1>3. \A i \in DOMAIN attempts[e] : i \in Nat /\ attempts[e][i].at \in Nat
  <2>2. \A i \in DOMAIN attempts[e] : i \in Nat /\ attempts[e][i] \in Attempt
    BY SMT DEF Types, TypeOK
  <2> QED
    BY <2>2 DEF Attempt
<1>4. \A i \in 1 .. n : i = n \/ (i \in DOMAIN attempts[e] /\ i < n)
  BY <1>1, SMT
<1> HIDE DEF n
<1>5. n \in Nat
  BY <1>1, SMT DEF n
<1>6. ASSUME NEW i \in 1 .. n
      PROVE  /\ attempts'[e][i].at <= i + Skew[epoch]
             /\ \A j \in 1 .. n : i <= j => attempts'[e][i].at <= attempts'[e][j].at
  <2>1. attempts'[e][i].at <= i + Skew[epoch] /\ attempts'[e][i].at \in Nat
    <3>1. CASE i = n
      BY <1>1, <1>2, <1>5, <3>1, SMT
    <3>2. CASE i # n
      <4>1. i \in DOMAIN attempts[e]
        BY <1>4, <3>2
      <4> QED
        BY <1>1, <1>3, <4>1 DEF InOrder
    <3> QED
      BY <3>1, <3>2
  <2>2. \A j \in 1 .. n : i <= j => attempts'[e][i].at <= attempts'[e][j].at
    <3> TAKE j \in 1 .. n
    <3> HAVE i <= j
    <3>1. CASE j = n
      BY <1>1, <1>2, <1>5, <2>1, <3>1, SMT
    <3>2. CASE j # n
      <4>1. i \in DOMAIN attempts[e] /\ j \in DOMAIN attempts[e]
        BY <1>4, <1>5, <3>2, SMT
      <4> QED
        BY <1>1, <4>1 DEF InOrder
    <3> QED
      BY <3>1, <3>2
  <2> QED
    BY <2>1, <2>2
<1>7. \A i \in DOMAIN attempts'[e] :
          /\ attempts'[e][i].at <= i + Skew[epoch']
          /\ \A j \in DOMAIN attempts'[e] : i <= j => attempts'[e][i].at <= attempts'[e][j].at
  BY <1>1, <1>6
<1>8. \A f \in Effects : f # e => \A i \in DOMAIN attempts'[f] :
          /\ attempts'[f][i].at <= i + Skew[epoch']
          /\ \A j \in DOMAIN attempts'[f] : i <= j => attempts'[f][i].at <= attempts'[f][j].at
  BY <1>1 DEF InOrder
<1> QED
  BY <1>7, <1>8 DEF InOrder

\* How a step changes the attempts: one is begun, or one is closed, or those left
\* open are.
LEMMA AttemptMoves ==
    ASSUME SinkInv, [Next]_vars
    PROVE  \/ attempts' = attempts
           \/ \E e \in Effects, u \in Units, act \in {"COMMIT", "RECONCILE"} :
                 /\ Begin(e, u, act) /\ UNCHANGED <<target, epoch>>
                 /\ act = "COMMIT" => BeginCommit(e) /\ u = co.unit
           \/ \E e \in Effects : CloseAbandoned(e)
           \/ \E e \in Effects, known \in BOOLEAN : Reconcile(e, known)
           \/ \E e \in Effects : LoseResponse(e) \/ RecordCommit(e)
<1>1. CASE UNCHANGED vars \/ Return \/ NewLeader \/ \E T \in Groups[epoch] : Reserve(T)
  BY <1>1 DEF vars, Return, NewLeader, Reserve
<1>2. CASE \E r \in wire : \E D \in Refusals(r) : Land(r, D)
  BY <1>2 DEF Land
<1>3. ASSUME NEW e \in Effects, Prepare(e) \/ Expire(e) PROVE attempts' = attempts
  BY <1>3 DEF Prepare, Refuse, ClaimPreparation, ReviveClaim, CompletePlan,
                  FinalizeNoPublication, Lease, Expire
<1>4. ASSUME NEW e \in Effects, Block(e) \/ SettleMember(e) \/ Finalize(e) \/ \E u \in Units : Reuse(e, u)
      PROVE  attempts' = attempts
  BY <1>4 DEF Block, SettleMember, Finalize, Reuse
<1>5. ASSUME NEW e \in Effects, NEW u \in Units, BeginReconcile(e, u)
      PROVE  Begin(e, u, "RECONCILE") /\ UNCHANGED <<target, epoch>>
  BY <1>5 DEF BeginReconcile
<1>6. ASSUME NEW e \in Effects, BeginCommit(e)
      PROVE  Begin(e, co.unit, "COMMIT") /\ UNCHANGED <<target, epoch>> /\ co.unit \in Units
  BY <1>6 DEF BeginCommit, Answer, At, SinkInv, CoordinatorInv, Known, Current
<1> QED
  BY <1>1, <1>2, <1>3, <1>4, <1>5, <1>6 DEF Next, Execute

\* What the coordinator closes is its own attempt.
LEMMA CloseMoves ==
    ASSUME SinkInv, NEW e \in Effects,
           LoseResponse(e) \/ RecordCommit(e) \/ \E known \in BOOLEAN : Reconcile(e, known)
    PROVE  /\ co.att \in DOMAIN attempts[e] /\ attempts[e][co.att].unit = co.unit
           /\ \A f \in Effects : f # e => attempts'[f] = attempts[f]
           /\ DOMAIN attempts'[e] = DOMAIN attempts[e]
           /\ \A j \in DOMAIN attempts[e] : j # co.att => attempts'[e][j] = attempts[e][j]
           /\ attempts'[e][co.att].unit = attempts[e][co.att].unit
           /\ attempts'[e][co.att].act = attempts[e][co.att].act
           /\ attempts'[e][co.att].at = attempts[e][co.att].at
           /\ attempts'[e][co.att].res = "NOT_APPLIED" =>
                 target[e][co.unit].held = 0 /\ target' = target
           /\ target' = target /\ epoch' = epoch
<1>1. co.att \in DOMAIN attempts[e] /\ attempts[e][co.att].unit = co.unit /\ co.unit \in Units
  BY DEF LoseResponse, RecordCommit, Reconcile, At, SinkInv, CoordinatorInv, Known, Current
<1>2. target[e][co.unit] \in [held : Nat, late : BOOLEAN, div : SUBSET Tokens] /\ co.div \in SUBSET Tokens
  BY <1>1, SMT DEF SinkInv, Types, TypeOK
<1>3. PICK st \in {"RETURNED", "RESPONSE_LOST"},
           res \in {"NONE", "COMMITTED", "APPLIED", "NOT_APPLIED", "UNKNOWN"},
           D \in SUBSET Tokens :
             Close(e, co.att, st, res, D) /\ (res = "NOT_APPLIED" => target[e][co.unit].held = 0)
  <2>1. CASE LoseResponse(e)
    BY <2>1, SMT DEF LoseResponse
  <2>2. CASE RecordCommit(e)
    BY <1>2, <2>2 DEF RecordCommit
  <2>3. CASE \E known \in BOOLEAN : Reconcile(e, known)
    <3>1. PICK known \in BOOLEAN : Reconcile(e, known)
      BY <2>3
    <3> DEFINE res == IF ~known THEN "UNKNOWN"
                      ELSE IF Applied(e, co.unit) THEN "APPLIED" ELSE "NOT_APPLIED"
               D == IF known THEN target[e][co.unit].div ELSE {}
    <3>2. Close(e, co.att, "RETURNED", res, D)
      BY <3>1 DEF Reconcile
    <3>3. /\ D \in SUBSET Tokens
          /\ res = "NOT_APPLIED" => target[e][co.unit].held = 0
          /\ res \in {"NONE", "COMMITTED", "APPLIED", "NOT_APPLIED", "UNKNOWN"}
      BY <1>2, SMT DEF Applied
    <3> HIDE DEF res, D
    <3> QED
      BY <3>2, <3>3
  <2> QED
    BY <2>1, <2>2, <2>3
<1>4. target' = target /\ epoch' = epoch
  BY DEF LoseResponse, RecordCommit, Reconcile
<1>5. Types
  BY DEF SinkInv
<1> QED
  BY <1>1, <1>3, <1>4, <1>5, CloseStep, SMT

\* The dates of the attempts stay in order.
LEMMA InOrderStep ==
    ASSUME ClocksAgree, SinkInv, SinkInv', InOrder, [Next]_vars
    PROVE  InOrder'
<1> USE DEF SinkInv
<1>0. epoch <= epoch' /\ epoch \in Nat
  <2>1. epoch' = epoch \/ epoch' = epoch + 1
    BY ZenonT(60) DEF Next, vars, Reserve, Return, Prepare, Refuse, ClaimPreparation, ReviveClaim, CompletePlan,
           FinalizeNoPublication, Lease, Expire, Execute, CloseAbandoned, Reuse, BeginReconcile,
           Reconcile, LoseResponse, Block, SettleMember, BeginCommit, RecordCommit, Finalize, Land,
           NewLeader
  <2> QED
    BY <2>1, SMT DEF Types, TypeOK
<1>1. CASE attempts' = attempts
  BY <1>0, <1>1, OrderKept
<1>2. CASE \E e \in Effects, u \in Units, act \in {"COMMIT", "RECONCILE"} :
              Begin(e, u, act) /\ UNCHANGED <<target, epoch>>
  BY <1>2, OrderBegin
<1>3. CASE \E e \in Effects : CloseAbandoned(e)
  <2>1. PICK e \in Effects : CloseAbandoned(e)
    BY <1>3
  <2>2. /\ \A f \in Effects : f # e => attempts'[f] = attempts[f]
        /\ DOMAIN attempts'[e] = DOMAIN attempts[e]
        /\ \A i \in DOMAIN attempts[e] : attempts'[e][i].at = attempts[e][i].at
    BY <2>1, AbandonStep
  <2>3. \A f \in Effects :
            /\ DOMAIN attempts'[f] = DOMAIN attempts[f]
            /\ \A i \in DOMAIN attempts[f] : attempts'[f][i].at = attempts[f][i].at
    BY <2>2
  <2> QED
    BY <1>0, <2>3, OrderKept
<1>4. CASE \E e \in Effects : \/ LoseResponse(e) \/ RecordCommit(e)
                              \/ \E known \in BOOLEAN : Reconcile(e, known)
  <2>1. PICK e \in Effects : \/ LoseResponse(e) \/ RecordCommit(e)
                             \/ \E known \in BOOLEAN : Reconcile(e, known)
    BY <1>4
  <2>2. \A f \in Effects :
            /\ DOMAIN attempts'[f] = DOMAIN attempts[f]
            /\ \A i \in DOMAIN attempts[f] : attempts'[f][i].at = attempts[f][i].at
    BY <2>1, CloseMoves
  <2> QED
    BY <1>0, <2>2, OrderKept
<1> QED
  BY <1>1, <1>2, <1>3, <1>4, AttemptMoves

\* A step that publishes nothing and takes back no commit, and after which no
\* published unit is newly reported as not applied.
LEMMA HeldKept ==
    ASSUME HeldIsLater, UNCHANGED <<perMember, target>>,
           \A e \in Effects : \A i \in DOMAIN attempts[e] :
               /\ i \in DOMAIN attempts'[e]
               /\ attempts'[e][i].unit = attempts[e][i].unit
               /\ attempts'[e][i].act = attempts[e][i].act,
           \A e \in Effects : \A i \in DOMAIN attempts'[e] :
               attempts'[e][i].res = "NOT_APPLIED" =>
                   \/ i \in DOMAIN attempts[e] /\ attempts'[e][i] = attempts[e][i]
                   \/ target[e][attempts'[e][i].unit].held = 0
    PROVE  HeldIsLater'
<1> SUFFICES ASSUME NEW e \in Effects, NEW u \in Units', target'[e][u].held > 0
             PROVE  \E j \in CommitsOf(e, u)' : \A i \in Of(e, u, "RECONCILE", "RETURNED")' :
                        attempts'[e][i].res = "NOT_APPLIED" => i < j
  BY DEF HeldIsLater
<1>1. u \in Units /\ target[e][u].held > 0
  BY DEF Units
<1>2. PICK j \in CommitsOf(e, u) : \A i \in Of(e, u, "RECONCILE", "RETURNED") :
          attempts[e][i].res = "NOT_APPLIED" => i < j
  BY <1>1 DEF HeldIsLater
<1>3. j \in CommitsOf(e, u)'
  BY <1>2 DEF CommitsOf
<1>4. ASSUME NEW i \in Of(e, u, "RECONCILE", "RETURNED")', attempts'[e][i].res = "NOT_APPLIED"
      PROVE  i < j
  <2>1. i \in DOMAIN attempts'[e] /\ attempts'[e][i].unit = u
    BY DEF Of
  <2>2. i \in DOMAIN attempts[e] /\ attempts'[e][i] = attempts[e][i]
    BY <1>1, <1>4, <2>1, SMT
  <2>3. i \in Of(e, u, "RECONCILE", "RETURNED") /\ attempts[e][i].res = "NOT_APPLIED"
    BY <1>4, <2>2 DEF Of
  <2> QED
    BY <1>2, <2>3
<1> QED
  BY <1>3, <1>4

\* A sink does not change its kind.
LEMMA SamePerMember ==
    ASSUME [Next]_vars
    PROVE  perMember' = perMember
BY ZenonT(60) DEF Next, vars, Reserve, Return, Prepare, Refuse, ClaimPreparation, ReviveClaim, CompletePlan,
       FinalizeNoPublication, Lease, Expire, Execute, CloseAbandoned, Reuse, BeginReconcile,
       Reconcile, LoseResponse, Block, SettleMember, BeginCommit, RecordCommit, Finalize, Land,
       NewLeader

\* The steps of the environment, the coordinator and the target, once more by what
\* they do to the target.
LEMMA TargetMoves ==
    ASSUME [Next]_vars
    PROVE  target' = target \/ \E r \in wire : \E D \in Refusals(r) : Land(r, D)
BY ZenonT(60) DEF Next, vars, Reserve, Return, Prepare, Refuse, ClaimPreparation, ReviveClaim, CompletePlan,
       FinalizeNoPublication, Lease, Expire, Execute, CloseAbandoned, Reuse, BeginReconcile,
       Reconcile, LoseResponse, Block, SettleMember, BeginCommit, RecordCommit, Finalize, NewLeader

\* A landing counts as held only where the coordinator is waiting for it.
LEMMA HeldMoves ==
    ASSUME Types, NEW r \in wire, NEW D \in Refusals(r), Land(r, D),
           NEW e \in Effects, NEW u \in Units
    PROVE  /\ target[e][u].held \in Nat /\ target'[e][u].held \in Nat
           /\ \/ target'[e][u].held = target[e][u].held
              \/ /\ Awaited(r) /\ e = r.effect /\ u = r.unit
                 /\ target'[e][u].held = target[e][u].held + 1
<1>1. target[e][u] \in [held : Nat, late : BOOLEAN, div : SUBSET Tokens]
  BY SMT DEF Types, TypeOK
<1>2. CASE <<e, u>> # <<r.effect, r.unit>>
  <2>1. \A f \in Effects, v \in Units :
            <<f, v>> # <<r.effect, r.unit>> => target'[f][v] = target[f][v]
    BY LandStep
  <2>2. target'[e][u] = target[e][u]
    BY <1>2, <2>1
  <2> QED
    BY <1>1, <2>2
<1>4. CASE perMember /\ D # {}
  <2>1. target' = target
    BY <1>4, LandStep
  <2> QED
    BY <1>1, <2>1
<1>3. CASE e = r.effect /\ u = r.unit /\ ~(perMember /\ D # {})
  <2>1. target'[e][u] = IF Awaited(r) THEN [target[e][u] EXCEPT !.held = target[e][u].held + 1, !.div = D]
                        ELSE [target[e][u] EXCEPT !.late = TRUE, !.div = D]
    BY <1>3, LandStep
  <2>2. CASE Awaited(r)
    BY <1>1, <1>3, <2>1, <2>2, SMT
  <2>3. CASE ~Awaited(r)
    BY <1>1, <2>1, <2>3
  <2> QED
    BY <2>2, <2>3
<1> QED
  BY <1>2, <1>3, <1>4

\* A published unit keeps a commit later than every report that it was not applied.
LEMMA HeldIsLaterStep ==
    ASSUME SinkInv, HeldIsLater, [Next]_vars
    PROVE  HeldIsLater'
<1> USE DEF SinkInv
<1>0. perMember' = perMember
  BY SamePerMember
<1>1. CASE \E r \in wire : \E D \in Refusals(r) : Land(r, D)
  <2>1. PICK r \in wire : \E D \in Refusals(r) : Land(r, D)
    BY <1>1
  <2>2. PICK D \in Refusals(r) : Land(r, D)
    BY <2>1
  <2>3. attempts' = attempts /\ Units' = Units
    BY <1>0, <2>2, SMT DEF Land, Units
  <2>4. ASSUME NEW e \in Effects, NEW u \in Units, target'[e][u].held > 0
        PROVE  \E j \in CommitsOf(e, u) : \A i \in Of(e, u, "RECONCILE", "RETURNED") :
                   attempts[e][i].res = "NOT_APPLIED" => i < j
    <3>1. CASE target'[e][u].held = target[e][u].held
      BY <2>4, <3>1 DEF HeldIsLater
    <3>2. CASE Awaited(r) /\ e = r.effect /\ u = r.unit
      <4>1. /\ co.att \in CommitsOf(e, u) /\ co.att = Len(attempts[e])
            /\ attempts[e][co.att].act = "COMMIT"
        BY <3>2 DEF Awaited, At, CoordinatorInv, Known, Current, CommitsOf
      <4>2. attempts[e] \in Seq(Attempt)
        BY DEF Types, TypeOK
      <4>3. Len(attempts[e]) \in Nat /\ \A i \in DOMAIN attempts[e] : i \in Nat /\ i <= Len(attempts[e])
        BY <4>2, SMT
      <4>4. \A i \in Of(e, u, "RECONCILE", "RETURNED") : i < co.att
        BY <4>1, <4>2, <4>3, SMT DEF Of
      <4> QED
        BY <4>1, <4>4
    <3> QED
      BY <2>2, <3>1, <3>2, HeldMoves
  <2> QED
    BY <2>3, <2>4, SMT DEF HeldIsLater, CommitsOf, Of
<1>2. CASE attempts' = attempts /\ target' = target
  BY <1>0, <1>2, SMT DEF HeldIsLater, Units, CommitsOf, Of
<1>3. CASE \E e \in Effects, u \in Units, act \in {"COMMIT", "RECONCILE"} :
              Begin(e, u, act) /\ UNCHANGED <<target, epoch>>
  <2>1. PICK e \in Effects, u \in Units, act \in {"COMMIT", "RECONCILE"} :
              Begin(e, u, act) /\ UNCHANGED <<target, epoch>>
    BY <1>3
  <2> DEFINE n == Len(attempts[e]) + 1
  <2>2. /\ \A f \in Effects : f # e => attempts'[f] = attempts[f]
        /\ \A i \in DOMAIN attempts'[e] : i = n \/ i \in DOMAIN attempts[e]
        /\ \A i \in DOMAIN attempts[e] : i \in DOMAIN attempts'[e] /\ attempts'[e][i] = attempts[e][i]
        /\ attempts'[e][n].res = "NONE"
    BY <2>1, BeginStep, SMT
  <2> HIDE DEF n
  <2>3. \A f \in Effects : \A i \in DOMAIN attempts[f] :
            i \in DOMAIN attempts'[f] /\ attempts'[f][i] = attempts[f][i]
    BY <2>2
  <2>4. \A f \in Effects : \A i \in DOMAIN attempts'[f] : attempts'[f][i].res = "NOT_APPLIED" =>
            i \in DOMAIN attempts[f] /\ attempts'[f][i] = attempts[f][i]
    BY <2>2
  <2> QED
    BY <1>0, <2>1, <2>3, <2>4, HeldKept
<1>4. CASE \E e \in Effects : CloseAbandoned(e)
  <2>1. PICK e \in Effects : CloseAbandoned(e)
    BY <1>4
  <2>2. /\ \A f \in Effects : f # e => attempts'[f] = attempts[f]
        /\ DOMAIN attempts'[e] = DOMAIN attempts[e]
        /\ \A i \in DOMAIN attempts[e] :
              /\ attempts'[e][i].unit = attempts[e][i].unit
              /\ attempts'[e][i].act = attempts[e][i].act
              /\ attempts'[e][i].res = attempts[e][i].res
              /\ attempts[e][i].st # "INTENT" => attempts'[e][i] = attempts[e][i]
    BY <2>1, AbandonStep
  <2>3. \A i \in DOMAIN attempts[e] : attempts[e][i].res = "NOT_APPLIED" => attempts[e][i].st # "INTENT"
    BY DEF AttemptsInv, Truthful
  <2>4. \A f \in Effects : \A i \in DOMAIN attempts'[f] : attempts'[f][i].res = "NOT_APPLIED" =>
            i \in DOMAIN attempts[f] /\ attempts'[f][i] = attempts[f][i]
    BY <2>2, <2>3
  <2>5. target' = target
    BY <2>1 DEF CloseAbandoned
  <2>6. \A f \in Effects : \A i \in DOMAIN attempts[f] :
               /\ i \in DOMAIN attempts'[f]
               /\ attempts'[f][i].unit = attempts[f][i].unit
               /\ attempts'[f][i].act = attempts[f][i].act
    BY <2>2
  <2> QED
    BY <1>0, <2>4, <2>5, <2>6, HeldKept
<1>5. CASE \E e \in Effects : \/ LoseResponse(e) \/ RecordCommit(e)
                              \/ \E known \in BOOLEAN : Reconcile(e, known)
  <2>1. PICK e \in Effects : \/ LoseResponse(e) \/ RecordCommit(e)
                             \/ \E known \in BOOLEAN : Reconcile(e, known)
    BY <1>5
  <2>2. /\ co.att \in DOMAIN attempts[e] /\ attempts[e][co.att].unit = co.unit
        /\ \A f \in Effects : f # e => attempts'[f] = attempts[f]
        /\ DOMAIN attempts'[e] = DOMAIN attempts[e]
        /\ \A j \in DOMAIN attempts[e] : j # co.att => attempts'[e][j] = attempts[e][j]
        /\ attempts'[e][co.att].unit = attempts[e][co.att].unit
        /\ attempts'[e][co.att].act = attempts[e][co.att].act
        /\ attempts'[e][co.att].res = "NOT_APPLIED" => target[e][co.unit].held = 0
        /\ target' = target
    BY <2>1, CloseMoves
  <2>3. \A f \in Effects : \A i \in DOMAIN attempts[f] :
               /\ i \in DOMAIN attempts'[f]
               /\ attempts'[f][i].unit = attempts[f][i].unit
               /\ attempts'[f][i].act = attempts[f][i].act
    BY <2>2
  <2>4. \A f \in Effects : \A i \in DOMAIN attempts'[f] :
               attempts'[f][i].res = "NOT_APPLIED" =>
                   \/ i \in DOMAIN attempts[f] /\ attempts'[f][i] = attempts[f][i]
                   \/ target[f][attempts'[f][i].unit].held = 0
    BY <2>2
  <2> QED
    BY <1>0, <2>2, <2>3, <2>4, HeldKept
<1> QED
  BY <1>1, <1>2, <1>3, <1>4, <1>5, AttemptMoves, TargetMoves

\* A report that the coordinator commits on leaves nothing published before it.
LEMMA NothingHeld ==
    ASSUME SinkInv, OrderInv, NEW e \in Effects, BeginCommit(e)
    PROVE  /\ Current(e) /\ co.pc = "answer" /\ co.unit \in Units
           /\ co.att \in Of(e, co.unit, "RECONCILE", "RETURNED")
           /\ attempts[e][co.att].res = "NOT_APPLIED"
           /\ \A j \in CommitsOf(e, co.unit) : attempts[e][j].st = "RESPONSE_LOST" /\ j < co.att
           /\ target[e][co.unit].held = 0
<1> USE DEF SinkInv
<1>1. /\ Current(e) /\ co.pc = "answer" /\ attempts[e][co.att].res = "NOT_APPLIED"
  BY DEF BeginCommit, Answer, At, Current, Committable
<1>2. Known(e)
  BY <1>1 DEF CoordinatorInv
<1>3. /\ co.unit \in Units /\ co.att \in DOMAIN attempts[e] /\ attempts[e][co.att].unit = co.unit
      /\ attempts[e][co.att].st = "RETURNED" /\ AllLost(e, co.unit)
  BY <1>1, <1>2 DEF Known
<1>4. co.att \in Of(e, co.unit, "RECONCILE", "RETURNED")
  BY <1>1, <1>3 DEF AttemptsInv, Truthful, Of
<1>5. \A j \in CommitsOf(e, co.unit) : attempts[e][j].st = "RESPONSE_LOST" /\ j < co.att
  BY <1>1, <1>3 DEF AllLost, OrderInv, CommitOnce
<1>6. target[e][co.unit].held = 0
  <2>1. target[e][co.unit].held \in Nat
    BY <1>3 DEF Types, TypeOK
  <2>2. \A j \in CommitsOf(e, co.unit) : j \in Nat
    <3>1. attempts[e] \in Seq(Attempt)
      BY DEF Types, TypeOK
    <3> QED
      BY <3>1, SMT DEF CommitsOf
  <2>3. co.att \in Nat
    BY DEF Types, TypeOK
  <2>4. ~(target[e][co.unit].held > 0)
    BY <1>1, <1>3, <1>4, <1>5, <2>2, <2>3, SMT DEF OrderInv, HeldIsLater
  <2> QED
    BY <2>1, <2>4, SMT
<1> QED
  BY <1>1, <1>3, <1>4, <1>5, <1>6

\* How the coordinator gets to an answer or to a commit.
LEMMA CoMoves ==
    ASSUME SinkInv, [Next]_vars
    PROVE  \/ co'.pc \notin {"answer", "committing"}
           \/ co' = co /\ attempts' = attempts
           \/ \E e \in Effects, u \in Units : Reuse(e, u)
           \/ \E e \in Effects, known \in BOOLEAN : Reconcile(e, known)
           \/ \E e \in Effects : RecordCommit(e) \/ BeginCommit(e)
<1>0. co \in CoStates
  BY DEF SinkInv, Types, TypeOK, CoStates
<1>1. CASE UNCHANGED vars \/ Return \/ NewLeader
  BY <1>1, SMT DEF vars, Return, NewLeader, Idle
<1>2. CASE \E T \in Groups[epoch] : Reserve(T)
  <2>1. PICK T \in Groups[epoch] : Reserve(T)
    BY <1>2
  <2>2. PICK q : co' = [Idle EXCEPT !.pc = "effect", !.asked = T, !.queue = q]
    BY <2>1 DEF Reserve
  <2> QED
    BY <2>2 DEF Idle
<1>3. CASE \E r \in wire : \E D \in Refusals(r) : Land(r, D)
  BY <1>0, <1>3 DEF Land, CoStates
<1>4. ASSUME NEW e \in Effects, Prepare(e) \/ Expire(e)
      PROVE  co'.pc \notin {"answer", "committing"} \/ (co' = co /\ attempts' = attempts)
  BY <1>0, <1>4 DEF Prepare, Refuse, ClaimPreparation, ReviveClaim, CompletePlan,
                  FinalizeNoPublication, Lease, Expire, Stopped, Idle, CoStates, At
<1>5. ASSUME NEW e \in Effects,
             \/ Block(e) \/ SettleMember(e) \/ Finalize(e) \/ CloseAbandoned(e) \/ LoseResponse(e)
             \/ \E u \in Units : BeginReconcile(e, u)
      PROVE  co'.pc \notin {"answer", "committing"}
  BY <1>0, <1>5 DEF Block, SettleMember, Finalize, CloseAbandoned, LoseResponse, BeginReconcile,
                    Stopped, Idle, CoStates
<1> QED
  BY <1>1, <1>2, <1>3, <1>4, <1>5 DEF Next, Execute

\* The coordinator commits only where nothing was published.
LEMMA CommitOnceStep ==
    ASSUME SinkInv, SinkInv', OrderInv, [Next]_vars
    PROVE  CommitOnce'
<1> USE DEF SinkInv
<1>1. CASE co'.pc \notin {"answer", "committing"}
  BY <1>1 DEF CommitOnce
<1>2. CASE co' = co /\ attempts' = attempts
  <2>0. \A e : Current(e)' = Current(e)
    BY <1>2 DEF Current
  <2>1. \A e \in Effects : Current(e) /\ co.pc = "committing" => target'[e][co.unit].held = 0
    <3> SUFFICES ASSUME NEW e \in Effects, Current(e), co.pc = "committing"
                 PROVE  target'[e][co.unit].held = 0
      OBVIOUS
    <3>1. target[e][co.unit].held = 0 /\ co.unit \in Units
      BY DEF OrderInv, CommitOnce, CoordinatorInv, Known
    <3>2. ASSUME NEW r \in wire, NEW D \in Refusals(r), Land(r, D)
          PROVE  target'[e][co.unit].held = 0
      <4>1. ~Awaited(r)
        <5> SUFFICES ASSUME Awaited(r) PROVE FALSE
          OBVIOUS
        <5>1. co'.pc = "committed"
          BY <3>2 DEF Land, Types, TypeOK
        <5> QED
          BY <1>2, <5>1
      <4> QED
        BY <3>1, <3>2, <4>1, HeldMoves
    <3> QED
      BY <3>1, <3>2, TargetMoves
  <2> QED
    BY <1>2, <2>0, <2>1 DEF OrderInv, CommitOnce, CommitsOf
<1>3. CASE \E e \in Effects, u \in Units : Reuse(e, u)
  <2>1. PICK e \in Effects, u \in Units : Reuse(e, u)
    BY <1>3
  <2>2. PICK i \in Evidence(e, u) : co' = [co EXCEPT !.pc = "answer", !.unit = u, !.att = i]
    BY <2>1 DEF Reuse
  <2>3. /\ co'.pc = "answer" /\ co'.unit = u /\ co'.att = i /\ co'.queue = co.queue
        /\ Current(e) /\ attempts' = attempts
    BY <2>1, <2>2 DEF Types, TypeOK, Reuse, AtUnit, At, Current
  <2>4. \A f \in Effects : Current(f)' => f = e
    BY <2>3, SkewAssumption, SMT DEF Current, Effects
  <2>5. ASSUME attempts[e][i].res = "NOT_APPLIED", NEW j \in CommitsOf(e, u)
        PROVE  j < i
    <3>1. i \in DOMAIN attempts[e] /\ attempts[e][i].st = "RETURNED" /\ j \in DOMAIN attempts[e]
      BY <2>2 DEF Evidence, FreshReconcile, Of, CommitsOf
    <3>2. attempts[e][i].act # "COMMIT"
      BY <2>5, <3>1 DEF AttemptsInv, Truthful
    <3>3. i \in FreshReconcile(e, u)
      BY <2>2, <3>2 DEF Evidence, Of
    <3>4. Current(e)' /\ attempts'[e][co'.att].res = "NOT_APPLIED"
      BY <2>3, <2>5 DEF Current
    <3>5. AllLost(e, u)
      BY <2>3, <3>4, SMT DEF CoordinatorInv, Known, AllLost, CommitsOf
    <3>6. attempts[e][j].st = "RESPONSE_LOST"
      BY <3>5 DEF AllLost
    <3>7. attempts[e][i].at > attempts[e][j].at
      BY <3>3, <3>6 DEF FreshReconcile, Of, CommitsOf
    <3>8. attempts[e] \in Seq(Attempt)
      BY DEF Types, TypeOK
    <3>9. i \in Nat /\ j \in Nat /\ attempts[e][i] \in Attempt /\ attempts[e][j] \in Attempt
      BY <3>1, <3>8, SMT
    <3>10. attempts[e][i].at \in Nat /\ attempts[e][j].at \in Nat
      BY <3>9 DEF Attempt
    <3>11. i <= j => attempts[e][i].at <= attempts[e][j].at
      BY <3>1 DEF OrderInv, InOrder
    <3> QED
      BY <3>7, <3>9, <3>10, <3>11, SMT
  <2> QED
    BY <2>3, <2>4, <2>5 DEF CommitOnce, CommitsOf
<1>4. CASE \E e \in Effects, known \in BOOLEAN : Reconcile(e, known)
  <2>1. PICK e \in Effects, known \in BOOLEAN : Reconcile(e, known)
    BY <1>4
  <2>2. /\ co'.pc = "answer" /\ co'.unit = co.unit /\ co'.att = co.att /\ co'.queue = co.queue
        /\ Current(e) /\ co.pc = "reconciling"
    BY <2>1 DEF Types, TypeOK, Reconcile, At, Current
  <2>3. \A f \in Effects : Current(f)' => f = e
    BY <2>2, SkewAssumption, SMT DEF Current, Effects
  <2>4. /\ DOMAIN attempts'[e] = DOMAIN attempts[e]
        /\ attempts'[e][co.att].act = attempts[e][co.att].act
    BY <2>1, CloseMoves
  <2>5. co.att = Len(attempts[e]) /\ attempts[e][co.att].act = "RECONCILE"
    BY <2>2 DEF CoordinatorInv, Known
  <2>6. attempts[e] \in Seq(Attempt)
    BY DEF Types, TypeOK
  <2>7. Len(attempts[e]) \in Nat /\ \A j \in DOMAIN attempts[e] : j \in Nat /\ j <= Len(attempts[e])
    BY <2>6, SMT
  <2>8. \A j \in CommitsOf(e, co.unit)' : j < co.att
    BY <2>4, <2>5, <2>7, SMT DEF CommitsOf
  <2> QED
    BY <2>2, <2>3, <2>8 DEF CommitOnce
<1>5. CASE \E e \in Effects : RecordCommit(e)
  <2>1. PICK e \in Effects : RecordCommit(e)
    BY <1>5
  <2>2. /\ co'.pc = "answer" /\ co'.att = co.att /\ co'.queue = co.queue
        /\ Current(e) /\ co.pc = "committed"
    BY <2>1 DEF Types, TypeOK, RecordCommit, At, Current
  <2>3. \A f \in Effects : Current(f)' => f = e
    BY <2>2, SkewAssumption, SMT DEF Current, Effects
  <2>4. attempts'[e][co.att].act = "COMMIT" /\ co.att \in DOMAIN attempts'[e]
    <3>1. attempts[e][co.att].act = "COMMIT"
      BY <2>2 DEF CoordinatorInv, Known
    <3> QED
      BY <2>1, <3>1, CloseMoves
  <2>5. attempts'[e][co.att].res # "NOT_APPLIED"
    BY <2>4 DEF AttemptsInv, Truthful
  <2> QED
    BY <2>2, <2>3, <2>5 DEF CommitOnce
<1>6. CASE \E e \in Effects : BeginCommit(e)
  <2>1. PICK e \in Effects : BeginCommit(e)
    BY <1>6
  <2>2. /\ co'.pc = "committing" /\ co'.unit = co.unit /\ co'.queue = co.queue
        /\ Current(e) /\ target' = target
    BY <2>1 DEF Types, TypeOK, BeginCommit, Answer, At, Current
  <2>3. \A f \in Effects : Current(f)' => f = e
    BY <2>2, SkewAssumption, SMT DEF Current, Effects
  <2>4. target[e][co.unit].held = 0
    BY <2>1, NothingHeld
  <2> QED
    BY <2>2, <2>3, <2>4 DEF CommitOnce
<1> QED
  BY <1>1, <1>2, <1>3, <1>4, <1>5, <1>6, CoMoves

\* A unit is published once.
LEMMA OneHeldStep ==
    ASSUME SinkInv, OrderInv, [Next]_vars
    PROVE  OneHeldPublication'
<1> USE DEF SinkInv
<1>0. Units' = Units
  BY SamePerMember, SMT DEF Units
<1> SUFFICES ASSUME NEW e \in Effects, NEW u \in Units PROVE target'[e][u].held <= 1
  BY <1>0 DEF OneHeldPublication
<1>1. target[e][u].held <= 1
  BY DEF OrderInv, OneHeldPublication
<1>2. CASE target' = target
  BY <1>1, <1>2
<1>3. ASSUME NEW r \in wire, NEW D \in Refusals(r), Land(r, D)
      PROVE  target'[e][u].held <= 1
  <2>1. CASE target'[e][u].held = target[e][u].held
    BY <1>1, <2>1
  <2>2. CASE /\ Awaited(r) /\ e = r.effect /\ u = r.unit
             /\ target'[e][u].held = target[e][u].held + 1
    <3>1. target[e][u].held = 0
      BY <2>2 DEF Awaited, At, Current, OrderInv, CommitOnce
    <3> QED
      BY <2>2, <3>1, SMT
  <2> QED
    BY <1>3, <2>1, <2>2, HeldMoves
<1> QED
  BY <1>2, <1>3, TargetMoves

\* Nothing was attempted initially.
LEMMA OrderInit == Init => OrderInv
<1> SUFFICES ASSUME Init PROVE OrderInv
  OBVIOUS
<1>1. \A e \in Effects : DOMAIN attempts[e] = {}
  BY SMT DEF Init
<1>2. \A e \in Effects, u \in Units : target[e][u].held = 0
  BY DEF Init
<1>3. InOrder
  BY <1>1 DEF InOrder
<1>4. CommitOnce
  BY DEF Init, Idle, CommitOnce
<1> QED
  BY <1>2, <1>3, <1>4, SMT DEF OrderInv, HeldIsLater, OneHeldPublication

\* The inductive invariant of publication at most once.
LEMMA OrderTheorem ==
    ASSUME ClocksAgree
    PROVE  Spec => [](SinkInv /\ OrderInv)
<1>1. Init => SinkInv /\ OrderInv
  BY SinkInit, OrderInit
<1>2. SinkInv /\ OrderInv /\ [Next]_vars => (SinkInv /\ OrderInv)'
  <2> SUFFICES ASSUME SinkInv, OrderInv, [Next]_vars PROVE SinkInv' /\ OrderInv'
    OBVIOUS
  <2>1. SinkInv'
    BY SinkStep
  <2>2. InOrder'
    BY <2>1, InOrderStep DEF OrderInv
  <2>3. HeldIsLater'
    BY HeldIsLaterStep DEF OrderInv
  <2> QED
    BY <2>1, <2>2, <2>3, CommitOnceStep, OneHeldStep DEF OrderInv
<1> QED
  BY <1>1, <1>2, PTL DEF Spec

\* OneHeldPublication: if no later leader's clock is behind an earlier one's, a
\* unit is published at most once by a leader in charge, over any number of
\* crashes, lost answers and takeovers.
THEOREM OneHeldTheorem ==
    ASSUME ClocksAgree
    PROVE  Spec => []OneHeldPublication
<1>1. SinkInv /\ OrderInv => OneHeldPublication
  BY DEF OrderInv
<1> QED
  BY <1>1, OrderTheorem, PTL

\* A commit is new only when begin_attempt adds it.
LEMMA NewCommitMoves ==
    ASSUME SinkInv, [Next]_vars, NEW e \in Effects, NEW u \in Units, NewCommit(e, u)
    PROVE  BeginCommit(e) /\ u = co.unit
<1> USE DEF SinkInv
<1>1. CASE attempts' = attempts
  BY <1>1 DEF NewCommit, CommitsOf
<1>2. ASSUME NEW f \in Effects, NEW v \in Units, NEW act \in {"COMMIT", "RECONCILE"},
             Begin(f, v, act), act = "COMMIT" => BeginCommit(f) /\ v = co.unit
      PROVE  BeginCommit(e) /\ u = co.unit
  <2> DEFINE n == Len(attempts[f]) + 1
  <2>1. /\ \A g \in Effects : g # f => attempts'[g] = attempts[g]
        /\ \A i \in DOMAIN attempts'[f] : i = n \/ i \in DOMAIN attempts[f]
        /\ \A i \in DOMAIN attempts[f] : i \in DOMAIN attempts'[f] /\ attempts'[f][i] = attempts[f][i]
        /\ attempts'[f][n].act = act /\ attempts'[f][n].unit = v
    BY <1>2, BeginStep, SMT
  <2> HIDE DEF n
  <2>2. e = f
    BY <2>1 DEF NewCommit, CommitsOf
  <2>3. CommitsOf(e, u) \subseteq CommitsOf(e, u)'
    BY <2>1, <2>2 DEF CommitsOf
  <2>4. PICK i \in CommitsOf(e, u)' : i \notin CommitsOf(e, u)
    BY <2>3 DEF NewCommit
  <2>5. i = n
    BY <2>1, <2>2, <2>4 DEF CommitsOf
  <2>6. act = "COMMIT" /\ v = u
    BY <2>1, <2>2, <2>4, <2>5 DEF CommitsOf
  <2> QED
    BY <1>2, <2>2, <2>6
<1>3. ASSUME NEW f \in Effects, CloseAbandoned(f)
      PROVE  BeginCommit(e) /\ u = co.unit
  <2>1. /\ \A g \in Effects : g # f => attempts'[g] = attempts[g]
        /\ DOMAIN attempts'[f] = DOMAIN attempts[f]
        /\ \A i \in DOMAIN attempts[f] :
              /\ attempts'[f][i].unit = attempts[f][i].unit
              /\ attempts'[f][i].act = attempts[f][i].act
    BY <1>3, AbandonStep
  <2>2. \/ attempts'[e] = attempts[e]
        \/ /\ DOMAIN attempts'[e] = DOMAIN attempts[e]
           /\ \A i \in DOMAIN attempts[e] :
              /\ attempts'[e][i].unit = attempts[e][i].unit
              /\ attempts'[e][i].act = attempts[e][i].act
    BY <2>1
  <2> QED
    BY <2>2 DEF NewCommit, CommitsOf
<1>4. ASSUME NEW f \in Effects,
             LoseResponse(f) \/ RecordCommit(f) \/ \E known \in BOOLEAN : Reconcile(f, known)
      PROVE  BeginCommit(e) /\ u = co.unit
  <2>1. /\ \A g \in Effects : g # f => attempts'[g] = attempts[g]
        /\ DOMAIN attempts'[f] = DOMAIN attempts[f]
        /\ \A j \in DOMAIN attempts[f] : j # co.att => attempts'[f][j] = attempts[f][j]
        /\ attempts'[f][co.att].unit = attempts[f][co.att].unit
        /\ attempts'[f][co.att].act = attempts[f][co.att].act
    BY <1>4, CloseMoves
  <2>2. \/ attempts'[e] = attempts[e]
        \/ /\ DOMAIN attempts'[e] = DOMAIN attempts[e]
           /\ \A i \in DOMAIN attempts[e] :
              /\ attempts'[e][i].unit = attempts[e][i].unit
              /\ attempts'[e][i].act = attempts[e][i].act
    BY <2>1
  <2> QED
    BY <2>2 DEF NewCommit, CommitsOf
<1> QED
  BY <1>1, <1>2, <1>3, <1>4, AttemptMoves

\* ReconcileBeforeRepublish: with such clocks a unit is committed again only after
\* every earlier commit was closed as lost and a reconciliation begun after all
\* of them has reported that it was not applied.
THEOREM ReconcileTheorem ==
    ASSUME ClocksAgree
    PROVE  Spec => ReconcileBeforeRepublish
<1>1. ASSUME SinkInv, OrderInv, [Next]_vars, NEW e \in Effects, NEW u \in Units, NewCommit(e, u)
      PROVE  \E i \in Of(e, u, "RECONCILE", "RETURNED") :
                /\ attempts[e][i].res = "NOT_APPLIED"
                /\ \A j \in CommitsOf(e, u) : attempts[e][j].st = "RESPONSE_LOST" /\ j < i
  <2>1. BeginCommit(e) /\ u = co.unit
    BY <1>1, NewCommitMoves
  <2> QED
    BY <1>1, <2>1, NothingHeld
<1>2. SinkInv /\ OrderInv /\ [Next]_vars =>
          [\A e \in Effects, u \in Units : NewCommit(e, u) =>
              \E i \in Of(e, u, "RECONCILE", "RETURNED") :
                 /\ attempts[e][i].res = "NOT_APPLIED"
                 /\ \A j \in CommitsOf(e, u) : attempts[e][j].st = "RESPONSE_LOST" /\ j < i]_vars
  BY <1>1
<1> QED
  BY <1>2, OrderTheorem, PTL DEF Spec, ReconcileBeforeRepublish

--------------------------------------------------------------------------------
(* The coordinator implements SinkDelivery. *)

\* How often effect f shows token t, and whether it shows it from a stray request.
Value(f, t) == IF Carried(f, t) THEN target[f][UnitOf(t)].held ELSE 0
Late(f, t) == Carried(f, t) /\ target[f][UnitOf(t)].late

Outcomes == [t \in Tokens |-> OutcomeOf(t)]

\* A token is carried by one effect.
LEMMA CarriedOnce ==
    ASSUME StreamInv, NEW t \in Tokens, NEW e \in Effects, NEW f \in Effects,
           t \in effect[e].members, t \in effect[f].members
    PROVE  e = f
BY DEF StreamInv

\* The effect that carries a token says how often it is published.
LEMMA PublicationValue ==
    ASSUME StreamInv, NEW t \in Tokens
    PROVE  /\ \A e \in Effects : Carried(e, t) => Publications[t] = Value(e, t)
           /\ (\A e \in Effects : ~Carried(e, t)) => Publications[t] = 0
<1>1. ASSUME NEW e \in Effects, Carried(e, t)
      PROVE  Publications[t] = Value(e, t)
  <2> DEFINE c == CHOOSE f \in Effects : Carried(f, t)
  <2>1. c \in Effects /\ Carried(c, t)
    BY <1>1
  <2>2. c = e
    BY <1>1, <2>1, CarriedOnce DEF Carried
  <2>3. Publications[t] = target[c][UnitOf(t)].held
    BY <1>1 DEF Publications
  <2> HIDE DEF c
  <2> QED
    BY <1>1, <2>2, <2>3 DEF Value
<1>2. ASSUME \A e \in Effects : ~Carried(e, t)
      PROVE  Publications[t] = 0
  BY <1>2 DEF Publications
<1> QED
  BY <1>1, <1>2

PublicationFact ==
    StreamInv => \A t \in Tokens :
        /\ \A e \in Effects : Carried(e, t) => Publications[t] = Value(e, t)
        /\ (\A e \in Effects : ~Carried(e, t)) => Publications[t] = 0

\* The same of the next state.
LEMMA NextPublicationFact == PublicationFact'
<1>1. PublicationFact
  BY PublicationValue DEF PublicationFact
<1> QED
  BY <1>1, PTL

\* An effect of which t is a member says how often t is published.
LEMMA MemberValue ==
    ASSUME StreamInv, NEW t \in Tokens, NEW e \in Effects, t \in effect[e].members
    PROVE  Publications[t] = Value(e, t)
<1>1. CASE Carried(e, t)
  BY <1>1, PublicationValue
<1>2. CASE ~Carried(e, t)
  <2>1. \A f \in Effects : ~Carried(f, t)
    BY <1>2, CarriedOnce DEF Carried
  <2> QED
    BY <1>2, <2>1, PublicationValue DEF Value
<1> QED
  BY <1>1, <1>2

\* A token is published as often as before if every effect shows it as often.
LEMMA PublicationKept ==
    ASSUME StreamInv, StreamInv', NEW t \in Tokens, \A f \in Effects : Value(f, t)' = Value(f, t)
    PROVE  Publications'[t] = Publications[t]
<1>a. /\ \A e \in Effects : Carried(e, t)' => Publications'[t] = Value(e, t)'
      /\ (\A e \in Effects : ~Carried(e, t)') => Publications'[t] = 0
  BY NextPublicationFact DEF PublicationFact
<1>1. CASE \E e \in Effects : Carried(e, t)'
  <2>1. PICK e \in Effects : Carried(e, t)'
    BY <1>1
  <2>2. Publications'[t] = Value(e, t)
    BY <1>a, <2>1
  <2>3. CASE Carried(e, t)
    BY <2>2, <2>3, PublicationValue
  <2>4. CASE ~Carried(e, t)
    <3>1. Value(e, t) = 0
      BY <2>4 DEF Value
    <3>2. ASSUME NEW f \in Effects, Carried(f, t) PROVE Publications[t] = 0
      <4>1. f # e
        BY <2>4, <3>2
      <4>2. t \in effect'[e].members
        BY <2>1 DEF Carried
      <4>3. t \notin effect'[f].members
        BY <4>1, <4>2 DEF StreamInv
      <4>4. Value(f, t)' = 0
        BY <4>3 DEF Value, Carried
      <4>5. Publications[t] = Value(f, t)
        BY <3>2, PublicationValue
      <4> QED
        BY <4>4, <4>5
    <3> QED
      BY <2>2, <3>1, <3>2, PublicationValue
  <2> QED
    BY <2>3, <2>4
<1>2. CASE \A e \in Effects : ~Carried(e, t)'
  <2>1. Publications'[t] = 0
    BY <1>a, <1>2
  <2>2. ASSUME NEW f \in Effects, Carried(f, t) PROVE Publications[t] = 0
    <3>1. Value(f, t)' = 0
      BY <1>2 DEF Value
    <3> QED
      BY <2>2, <3>1, PublicationValue
  <2> QED
    BY <2>1, <2>2, PublicationValue
<1> QED
  BY <1>1, <1>2

\* Functions on the tokens are equal when their values are.
LEMMA SamePublications ==
    ASSUME \A t \in Tokens : Publications'[t] = Publications[t]
    PROVE  Publications' = Publications
BY DEF Publications

\* The same for the outcomes.
LEMMA SameOutcomes ==
    ASSUME \A t \in Tokens : OutcomeOf(t)' = OutcomeOf(t)
    PROVE  Outcomes' = Outcomes
BY DEF Outcomes

\* The outcome of a token is that of the effect it is a member of.
Settled(e, t) ==
    IF t \in effect[e].diverted THEN "diverted"
    ELSE IF effect[e].publishes THEN "accepted" ELSE "covered"

\* The effect of a token decides its outcome;
LEMMA OutcomeIs ==
    ASSUME StreamInv, NEW t \in Tokens, NEW e \in Effects, t \in effect[e].members
    PROVE  OutcomeOf(t) = IF effect[e].state = "FINALIZED" THEN Settled(e, t) ELSE "open"
<1> DEFINE final == {f \in Effects : t \in effect[f].members /\ effect[f].state = "FINALIZED"}
<1>1. final = IF effect[e].state = "FINALIZED" THEN {e} ELSE {}
  BY CarriedOnce
<1>2. OutcomeOf(t) = IF final = {} THEN "open"
                     ELSE IF \E f \in final : t \in effect[f].diverted THEN "diverted"
                     ELSE IF \E f \in final : effect[f].publishes THEN "accepted" ELSE "covered"
  BY DEF OutcomeOf
<1> HIDE DEF final
<1> QED
  BY <1>1, <1>2 DEF Settled

\* a token in no effect has none.
LEMMA OutcomeOpen ==
    ASSUME NEW t \in Tokens, \A e \in Effects : t \notin effect[e].members
    PROVE  OutcomeOf(t) = "open"
BY DEF OutcomeOf

\* Outcomes depend on the rows alone, and an open row gives none.
LEMMA OutcomeKept ==
    ASSUME NEW t \in Tokens,
           \A e \in Effects :
               \/ effect'[e] = effect[e]
               \/ ~(t \in effect[e].members /\ effect[e].state = "FINALIZED")
                  /\ ~(t \in effect'[e].members /\ effect'[e].state = "FINALIZED")
    PROVE  OutcomeOf(t)' = OutcomeOf(t)
<1> DEFINE final == {f \in Effects : t \in effect[f].members /\ effect[f].state = "FINALIZED"}
           finalN == {f \in Effects : t \in effect'[f].members /\ effect'[f].state = "FINALIZED"}
<1>1. final = finalN /\ \A e \in final : effect'[e] = effect[e]
  OBVIOUS
<1>2. OutcomeOf(t) = IF final = {} THEN "open"
                     ELSE IF \E f \in final : t \in effect[f].diverted THEN "diverted"
                     ELSE IF \E f \in final : effect[f].publishes THEN "accepted" ELSE "covered"
  BY DEF OutcomeOf
<1>3. OutcomeOf(t)' = IF finalN = {} THEN "open"
                     ELSE IF \E f \in finalN : t \in effect'[f].diverted THEN "diverted"
                     ELSE IF \E f \in finalN : effect'[f].publishes THEN "accepted" ELSE "covered"
  BY DEF OutcomeOf
<1> HIDE DEF final, finalN
<1> QED
  BY <1>1, <1>2, <1>3, SMT

\* The three kinds of step of SinkDelivery, token by token.
LEMMA DoPublish ==
    ASSUME NEW S \in SUBSET Tokens,
           \A t \in S : Publications[t] = 0 /\ OutcomeOf(t) = "open",
           \A t \in Tokens : Publications'[t] = IF t \in S THEN 1 ELSE Publications[t],
           Strays' = Strays, \A t \in Tokens : OutcomeOf(t)' = OutcomeOf(t)
    PROVE  Delivery!Next
<1>1. Publications' = [t \in Tokens |-> IF t \in S THEN 1 ELSE Publications[t]]
  BY DEF Publications
<1>2. Outcomes' = Outcomes /\ \A t \in Tokens : Outcomes[t] = OutcomeOf(t)
  BY SameOutcomes DEF Outcomes
<1>3. Delivery!Publish(S)
  BY <1>1, <1>2 DEF Delivery!Publish, Outcomes
<1> QED
  BY <1>3 DEF Delivery!Next

\* Stray publication.
LEMMA DoStray ==
    ASSUME NEW S \in SUBSET Tokens, Strays' = Strays \cup S,
           \A t \in Tokens : Publications'[t] = Publications[t],
           \A t \in Tokens : OutcomeOf(t)' = OutcomeOf(t)
    PROVE  Delivery!Next
<1>1. Publications' = Publications /\ Outcomes' = Outcomes
  BY SamePublications, SameOutcomes
<1>2. Delivery!Stray(S)
  BY <1>1 DEF Delivery!Stray, Outcomes
<1> QED
  BY <1>2 DEF Delivery!Next

\* The tokens of an effect are decided.
LEMMA DoDecide ==
    ASSUME NEW S \in SUBSET Tokens,
           \A t \in S : OutcomeOf(t) = "open" /\ OutcomeOf(t)' \in {"accepted", "diverted", "covered"},
           \A t \in Tokens : t \notin S => OutcomeOf(t)' = OutcomeOf(t),
           \A t \in S : OutcomeOf(t)' = "accepted" => Publications[t] = 1 \/ t \in Strays,
           \A t \in Tokens : Publications'[t] = Publications[t],
           Strays' = Strays
    PROVE  Delivery!Next
<1>1. Publications' = Publications
  BY SamePublications
<1>2. /\ \A t \in Tokens : Outcomes[t] = OutcomeOf(t) /\ Outcomes'[t] = OutcomeOf(t)'
      /\ \A t \in Tokens : OutcomeOf(t) \in {"open", "accepted", "diverted", "covered"}
  BY DEF Outcomes, OutcomeOf
<1>3. Outcomes' \in [Tokens -> {"open", "accepted", "diverted", "covered"}]
  <2>1. \A t \in Tokens : OutcomeOf(t)' \in {"open", "accepted", "diverted", "covered"}
    BY <1>2
  <2> QED
    BY <2>1 DEF Outcomes
<1>4. Delivery!Decide(S)
  BY <1>1, <1>2, <1>3 DEF Delivery!Decide, Outcomes
<1> QED
  BY <1>4 DEF Delivery!Next

\* No step of SinkDelivery.
LEMMA DoNothing ==
    ASSUME Strays' = Strays,
           \A t \in Tokens : Publications'[t] = Publications[t],
           \A t \in Tokens : OutcomeOf(t)' = OutcomeOf(t)
    PROVE  UNCHANGED Delivery!deliveryVars
<1>1. Publications' = Publications /\ Outcomes' = Outcomes
  BY SamePublications, SameOutcomes
<1> QED
  BY <1>1 DEF Delivery!deliveryVars, Outcomes

OutcomeFact ==
    StreamInv => \A t \in Tokens : \A e \in Effects : t \in effect[e].members =>
        OutcomeOf(t) = IF effect[e].state = "FINALIZED" THEN Settled(e, t) ELSE "open"

\* The same of the next state.
LEMMA NextOutcomeFact == OutcomeFact'
<1>1. OutcomeFact
  BY OutcomeIs DEF OutcomeFact
<1> QED
  BY <1>1, PTL

\* Steps that leave rows and target alone are invisible.
LEMMA InvisibleStep ==
    ASSUME UNCHANGED <<perMember, effect, target>>
    PROVE  UNCHANGED Delivery!deliveryVars
<1>1. \A e, t : Carried(e, t)' = Carried(e, t) /\ UnitOf(t)' = UnitOf(t)
  BY DEF Carried, UnitOf
<1>2. Strays' = Strays
  BY <1>1, SMT DEF Strays
<1>3. Publications' = Publications
  BY <1>1 DEF Publications
<1>4. \A t \in Tokens : OutcomeOf(t)' = OutcomeOf(t)
  BY DEF OutcomeOf
<1> QED
  BY <1>2, <1>3, <1>4, DoNothing

\* A row is updated: what it shows depends on its members, its plan and the target.
LEMMA RowShows ==
    ASSUME Types, StreamInv, StreamInv', UNCHANGED <<perMember, target>>,
           NEW e \in Effects, \A f \in Effects : f # e => effect'[f] = effect[f],
           \/ /\ effect'[e].members = effect[e].members
              /\ \/ perMember
                 \/ effect'[e].diverted = effect[e].diverted
                 \/ effect'[e].diverted = effect[e].diverted \cup target[e][0].div
           \/ \A u \in Units : target[e][u] = Untouched
    PROVE  /\ Strays' = Strays
           /\ \A t \in Tokens : Publications'[t] = Publications[t]
<1>0. \A t \in Tokens : UnitOf(t)' = UnitOf(t) /\ UnitOf(t) \in Units
  BY UnitFacts DEF UnitOf
<1>1. ASSUME NEW f \in Effects, NEW t \in Tokens
      PROVE  Value(f, t)' = Value(f, t) /\ Late(f, t)' = Late(f, t)
  <2>1. CASE f # e
    BY <1>0, <2>1 DEF Value, Late, Carried
  <2>2. CASE f = e /\ \A u \in Units : target[e][u] = Untouched
    <3>1. target[e][UnitOf(t)].held = 0 /\ target[e][UnitOf(t)].late = FALSE
      BY <1>0, <2>2, SMT DEF Untouched
    <3>2. target'[e][UnitOf(t)'].held = 0 /\ target'[e][UnitOf(t)'].late = FALSE
      BY <1>0, <3>1
    <3> QED
      BY <2>2, <3>1, <3>2 DEF Value, Late
  <2>3. CASE /\ f = e /\ effect'[e].members = effect[e].members
             /\ \/ perMember
                \/ effect'[e].diverted = effect[e].diverted
                \/ effect'[e].diverted = effect[e].diverted \cup target[e][0].div
    <3>1. Carried(e, t)' = Carried(e, t)
      <4>1. CASE perMember
        BY <1>0, <2>3, <4>1 DEF Carried
      <4>2. CASE ~perMember
        <5>1. UnitOf(t) = 0
          BY <4>2 DEF UnitOf
        <5> QED
          BY <1>0, <2>3, <4>2, <5>1 DEF Carried
      <4> QED
        BY <4>1, <4>2
    <3> QED
      BY <1>0, <2>3, <3>1 DEF Value, Late
  <2> QED
    BY <2>1, <2>2, <2>3
<1>2. \A t \in Tokens : Publications'[t] = Publications[t]
  BY <1>1, PublicationKept
<1>3. Strays' = Strays
  <2>1. Strays = {t \in Tokens : \E f \in Effects : Late(f, t)}
    BY DEF Strays, Late
  <2>2. Strays' = {t \in Tokens : \E f \in Effects : Late(f, t)'}
    BY DEF Strays, Late
  <2> QED
    BY <1>1, <2>1, <2>2
<1> QED
  BY <1>2, <1>3

\* Rows that do not become final: the outcomes stay.
LEMMA OpenRow ==
    ASSUME Types, StreamInv, StreamInv', UNCHANGED <<perMember, target>>,
           NEW e \in Effects, \A f \in Effects : f # e => effect'[f] = effect[f],
           \/ /\ effect'[e].members = effect[e].members
              /\ perMember \/ effect'[e].diverted = effect[e].diverted
           \/ \A u \in Units : target[e][u] = Untouched,
           \/ effect[e].state # "FINALIZED" /\ effect'[e].state # "FINALIZED"
           \/ /\ effect'[e].state = effect[e].state /\ effect'[e].members = effect[e].members
              /\ effect'[e].diverted = effect[e].diverted /\ effect'[e].publishes = effect[e].publishes
    PROVE  UNCHANGED Delivery!deliveryVars
<1>1. Strays' = Strays /\ \A t \in Tokens : Publications'[t] = Publications[t]
  BY RowShows
<1>2. ASSUME NEW t \in Tokens PROVE OutcomeOf(t)' = OutcomeOf(t)
  <2>1. CASE effect[e].state # "FINALIZED" /\ effect'[e].state # "FINALIZED"
    BY <2>1, OutcomeKept
  <2>2. CASE /\ effect'[e].state = effect[e].state /\ effect'[e].members = effect[e].members
             /\ effect'[e].diverted = effect[e].diverted /\ effect'[e].publishes = effect[e].publishes
    <3>1. \A f \in Effects : /\ effect'[f].state = effect[f].state /\ effect'[f].members = effect[f].members
             /\ effect'[f].diverted = effect[f].diverted /\ effect'[f].publishes = effect[f].publishes
      BY <2>2
    <3> QED
      BY <3>1 DEF OutcomeOf
  <2> QED
    BY <2>1, <2>2
<1> QED
  BY <1>1, <1>2, DoNothing

\* A row becomes final: the outcomes of its members are decided.
LEMMA FinalRow ==
    ASSUME Types, StreamInv, StreamInv', UNCHANGED <<perMember, target>>, OneHeldPublication,
           NEW e \in Effects, \A f \in Effects : f # e => effect'[f] = effect[f],
           effect[e].members \subseteq Tokens,
           effect'[e].members = effect[e].members,
           effect'[e].diverted = effect[e].diverted
             \/ (~perMember /\ effect'[e].diverted = effect[e].diverted \cup target[e][0].div),
           effect[e].state # "FINALIZED", effect'[e].state = "FINALIZED",
           effect'[e].publishes => \A t \in effect[e].members \ effect'[e].diverted :
               Applied(e, UnitOf(t)) /\ t \notin target[e][UnitOf(t)].div
    PROVE  Delivery!Next
<1> DEFINE S == effect[e].members
<1>0. \A t \in S : OutcomeOf(t) = "open"
  BY OutcomeIs
<1>1. \A t \in S : OutcomeOf(t)' = Settled(e, t)'
  BY NextOutcomeFact DEF OutcomeFact
<1>2. \A t \in S : OutcomeOf(t)' \in {"accepted", "diverted", "covered"}
  BY <1>1 DEF Settled
<1>3. \A t \in Tokens : t \notin S => OutcomeOf(t)' = OutcomeOf(t)
  BY OutcomeKept
<1>4. Strays' = Strays /\ \A t \in Tokens : Publications'[t] = Publications[t]
  BY RowShows
<1>5. ASSUME NEW t \in S, OutcomeOf(t)' = "accepted"
      PROVE  Publications[t] = 1 \/ t \in Strays
  <2>1. t \notin effect'[e].diverted /\ effect'[e].publishes
    BY <1>1, <1>5 DEF Settled
  <2>2. Applied(e, UnitOf(t)) /\ t \notin target[e][UnitOf(t)].div
    BY <2>1
  <2>3. Carried(e, t)
    BY <2>1, <2>2 DEF Carried
  <2>4. target[e][UnitOf(t)].held \in Nat /\ target[e][UnitOf(t)].held <= 1
    <3>1. UnitOf(t) \in Units
      BY UnitFacts
    <3> QED
      BY <3>1, SMT DEF OneHeldPublication, Types, TypeOK
  <2>5. CASE target[e][UnitOf(t)].late
    BY <2>3, <2>5 DEF Strays
  <2>6. CASE target[e][UnitOf(t)].held > 0
    <3>1. target[e][UnitOf(t)].held = 1
      BY <2>4, <2>6, SMT
    <3>2. Publications[t] = Value(e, t)
      BY MemberValue
    <3> QED
      BY <2>3, <3>1, <3>2 DEF Value
  <2> QED
    BY <2>2, <2>5, <2>6 DEF Applied
<1> QED
  BY <1>0, <1>2, <1>3, <1>4, <1>5, DoDecide

\* A landing publishes the rows it carries, or strays.
LEMMA LandDelivers ==
    ASSUME SinkInv, SinkInv', OrderInv, NEW r \in wire, NEW D \in Refusals(r), Land(r, D)
    PROVE  Delivery!Next \/ UNCHANGED Delivery!deliveryVars
<1> USE DEF SinkInv
<1> DEFINE e == r.effect
           u == r.unit
           S == {t \in Tokens : UnitOf(t) = u /\ Carried(e, t)'}
<1>0. /\ e \in Effects /\ u \in Units /\ D \in SUBSET Tokens
      /\ \A f \in Effects, v \in Units : <<f, v>> # <<e, u>> => target'[f][v] = target[f][v]
  BY LandStep
<1>1. /\ \A t \in Tokens : UnitOf(t)' = UnitOf(t) /\ UnitOf(t) \in Units
      /\ effect' = effect /\ perMember' = perMember
  BY UnitFacts DEF UnitOf, Land
<1>2. \A t \in Tokens : OutcomeOf(t)' = OutcomeOf(t)
  BY <1>1 DEF OutcomeOf
<1>3. CASE perMember /\ D # {}
  <2>1. target' = target
    BY <1>3, LandStep
  <2> QED
    BY <1>1, <2>1, InvisibleStep
<1>4. CASE ~(perMember /\ D # {})
  <2>a. target \in [Effects -> [Units -> [held : Nat, late : BOOLEAN, div : SUBSET Tokens]]]
    BY DEF Types, TypeOK
  <2>0. target[e][u] \in [held : Nat, late : BOOLEAN, div : SUBSET Tokens]
    BY <1>0, <2>a
  <2>1. target'[e][u] = IF Awaited(r) THEN [target[e][u] EXCEPT !.held = target[e][u].held + 1, !.div = D]
                        ELSE [target[e][u] EXCEPT !.late = TRUE, !.div = D]
    BY <1>4, LandStep
  <2>2. ASSUME NEW f \in Effects, NEW t \in Tokens, f # e \/ UnitOf(t) # u
        PROVE  Value(f, t)' = Value(f, t) /\ Late(f, t)' = Late(f, t)
    <3>1. target'[f][UnitOf(t)] = target[f][UnitOf(t)]
      BY <1>0, <1>1, <2>2
    <3>2. Carried(f, t)' = Carried(f, t)
      BY <1>1, <3>1 DEF Carried
    <3> QED
      BY <1>1, <3>1, <3>2 DEF Value, Late
  <2>3. ASSUME Applied(e, u), NEW t \in Tokens, UnitOf(t) = u
        PROVE  Carried(e, t)' = Carried(e, t)
    <3>1. target'[e][u].div = target[e][u].div
      <4>1. CASE perMember
        <5>1. target'[e][u].div = {}
          BY <1>0, <4>1, AppliedStays
        <5>2. target[e][u].div = {}
          BY <1>0, <4>1 DEF TargetInv
        <5> QED
          BY <5>1, <5>2
      <4>2. CASE ~perMember
        BY <1>0, <2>3, <4>2, AppliedStays
      <4> QED
        BY <4>1, <4>2
    <3> QED
      BY <1>1, <2>3, <3>1 DEF Carried
  <2>4. S \in SUBSET Tokens
    OBVIOUS
  <2> HIDE DEF S
  <2>5. \A t : t \in S <=> t \in Tokens /\ UnitOf(t) = u /\ Carried(e, t)'
    BY DEF S
  <2>6. CASE Awaited(r)
    <3>1. /\ Current(e) /\ co.pc = "committing" /\ co.unit = u
      BY <2>6 DEF Awaited, At, Current
    <3>2. target[e][u].held = 0 /\ effect[e].state = "IN_FLIGHT"
      BY <1>0, <3>1 DEF OrderInv, CommitOnce, CoordinatorInv, Known, Leasing
    <3>3. target'[e][u].held = 1 /\ target'[e][u].late = target[e][u].late
      BY <2>0, <2>1, <2>6, <3>2, SMT
    <3>4. ASSUME NEW t \in S
          PROVE  Publications[t] = 0 /\ OutcomeOf(t) = "open" /\ Publications'[t] = 1
      <4>1. t \in Tokens /\ UnitOf(t) = u /\ Carried(e, t)' /\ t \in effect[e].members
        BY <1>1, <2>5 DEF Carried
      <4>2. Publications[t] = 0
        BY <1>0, <3>2, <4>1, MemberValue DEF Value
      <4>3. OutcomeOf(t) = "open"
        BY <1>0, <3>2, <4>1, OutcomeIs
      <4>4. Publications'[t] = Value(e, t)'
        BY <1>0, <4>1, NextPublicationFact DEF PublicationFact
      <4> QED
        BY <1>1, <3>3, <4>1, <4>2, <4>3, <4>4 DEF Value
    <3>5. ASSUME NEW t \in Tokens, t \notin S
          PROVE  Publications'[t] = Publications[t]
      <4>1. ASSUME NEW f \in Effects PROVE Value(f, t)' = Value(f, t)
        <5>1. CASE f # e \/ UnitOf(t) # u
          BY <2>2, <5>1
        <5>2. CASE f = e /\ UnitOf(t) = u
          <6>1. ~Carried(e, t)'
            BY <2>5, <3>5, <5>2
          <6> QED
            BY <3>2, <5>2, <6>1 DEF Value
        <5> QED
          BY <5>1, <5>2
      <4> QED
        BY <4>1, PublicationKept
    <3>6. Strays' = Strays
      <4>1. ASSUME NEW f \in Effects, NEW t \in Tokens PROVE Late(f, t)' = Late(f, t)
        <5>1. CASE f # e \/ UnitOf(t) # u
          BY <2>2, <5>1
        <5>2. CASE f = e /\ UnitOf(t) = u
          <6>1. CASE target[e][u].late
            <7>1. Carried(e, t)' = Carried(e, t)
              BY <2>3, <5>2, <6>1 DEF Applied
            <7> QED
              BY <1>1, <3>3, <5>2, <7>1 DEF Late
          <6>2. CASE ~target[e][u].late
            BY <1>1, <3>3, <5>2, <6>2 DEF Late
          <6> QED
            BY <6>1, <6>2
        <5> QED
          BY <5>1, <5>2
      <4>2. Strays = {t \in Tokens : \E f \in Effects : Late(f, t)}
        BY DEF Strays, Late
      <4>3. Strays' = {t \in Tokens : \E f \in Effects : Late(f, t)'}
        BY DEF Strays, Late
      <4> QED
        BY <4>1, <4>2, <4>3
    <3> QED
      BY <1>2, <2>4, <3>4, <3>5, <3>6, DoPublish
  <2>7. CASE ~Awaited(r)
    <3>1. target'[e][u].held = target[e][u].held /\ target'[e][u].late = TRUE
      BY <2>0, <2>1, <2>7
    <3>2. ASSUME NEW t \in Tokens PROVE Publications'[t] = Publications[t]
      <4>1. ASSUME NEW f \in Effects PROVE Value(f, t)' = Value(f, t)
        <5>1. CASE f # e \/ UnitOf(t) # u
          BY <2>2, <5>1
        <5>2. CASE f = e /\ UnitOf(t) = u
          <6>1. CASE target[e][u].held = 0
            BY <1>1, <3>1, <5>2, <6>1 DEF Value
          <6>2. CASE target[e][u].held # 0
            <7>1. Applied(e, u)
              BY <2>0, <6>2, SMT DEF Applied
            <7>2. Carried(e, t)' = Carried(e, t)
              BY <2>3, <5>2, <7>1
            <7> QED
              BY <1>1, <3>1, <5>2, <7>2 DEF Value
          <6> QED
            BY <6>1, <6>2
        <5> QED
          BY <5>1, <5>2
      <4> QED
        BY <4>1, PublicationKept
    <3>3. Strays' = Strays \cup S
      <4>1. \A t \in Tokens : t \in S => Late(e, t)'
        BY <1>1, <2>5, <3>1 DEF Late
      <4>2. ASSUME NEW t \in Tokens, NEW f \in Effects, Late(f, t)
            PROVE  Late(f, t)'
        <5>1. CASE f # e \/ UnitOf(t) # u
          BY <2>2, <4>2, <5>1
        <5>2. CASE f = e /\ UnitOf(t) = u
          <6>1. Carried(e, t)' = Carried(e, t)
            BY <2>3, <4>2, <5>2 DEF Applied, Late
          <6> QED
            BY <1>1, <3>1, <4>2, <5>2, <6>1 DEF Late
        <5> QED
          BY <5>1, <5>2
      <4>3. ASSUME NEW t \in Tokens, NEW f \in Effects, Late(f, t)', t \notin S
            PROVE  Late(f, t)
        <5>1. f # e \/ UnitOf(t) # u
          BY <2>5, <4>3 DEF Late
        <5> QED
          BY <2>2, <4>3, <5>1
      <4>4. Strays = {t \in Tokens : \E f \in Effects : Late(f, t)}
        BY DEF Strays, Late
      <4>5. Strays' = {t \in Tokens : \E f \in Effects : Late(f, t)'}
        BY DEF Strays, Late
      <4> QED
        BY <1>0, <2>4, <4>1, <4>2, <4>3, <4>4, <4>5
    <3> QED
      BY <1>2, <2>4, <3>2, <3>3, DoStray
  <2> QED
    BY <2>6, <2>7
<1> QED
  BY <1>3, <1>4

\* Every step of the coordinator, the target and the environment is a step of
\* SinkDelivery or invisible to it.
LEMMA DeliveryStep ==
    ASSUME SinkInv, SinkInv', OrderInv, [Next]_vars
    PROVE  Delivery!Next \/ UNCHANGED Delivery!deliveryVars
<1> USE DEF SinkInv
<1>1. CASE UNCHANGED vars \/ Return \/ NewLeader
  BY <1>1, InvisibleStep DEF vars, Return, NewLeader
<1>2. CASE \E T \in Groups[epoch] : Reserve(T)
  <2>1. PICK T \in Groups[epoch] : Reserve(T)
    BY <1>2
  <2>2. CASE effect' = effect
    BY <2>1, <2>2, InvisibleStep DEF Reserve
  <2>3. CASE tail < MaxEffects /\ effect' # effect
    <3> DEFINE n == [NoEffect EXCEPT !.state = "RESERVED", !.members = Unbound(T)]
    <3>1. Update(tail + 1, n) /\ UNCHANGED <<perMember, target>>
      BY <2>1, <2>3 DEF Reserve
    <3>2. tail + 1 \in Effects /\ tail \in Nat
      BY <2>3, SkewAssumption, SMT DEF Types, TypeOK, Effects
    <3>3. n.state = "RESERVED"
      BY DEF NoEffect
    <3>4. effect'[tail + 1].state = "RESERVED" /\ \A f \in Effects : f # tail + 1 => effect'[f] = effect[f]
      BY <3>1, <3>2, <3>3 DEF Types, TypeOK, Update
    <3>5. effect[tail + 1].state = "NONE"
      BY <3>2, SMT DEF StreamInv
    <3>6. \A u \in Units : target[tail + 1][u] = Untouched
      BY <3>2, <3>5 DEF StreamInv
    <3> QED
      BY <3>1, <3>2, <3>4, <3>5, <3>6, OpenRow
  <2> QED
    BY <2>1, <2>2, <2>3 DEF Reserve
<1>3. ASSUME NEW e \in Effects, Prepare(e) \/ Expire(e)
      PROVE  Delivery!Next \/ UNCHANGED Delivery!deliveryVars
  <2>0. effect[e] \in Rows /\ effect \in [Effects -> Rows] /\ UNCHANGED <<perMember, target>>
    BY <1>3 DEF Types, TypeOK, Rows, Owners, Prepare, Refuse, ClaimPreparation, ReviveClaim, CompletePlan,
                  FinalizeNoPublication, Lease, Expire
  <2>1. CASE Refuse(e)
    BY <2>1, InvisibleStep DEF Refuse
  <2>2. CASE ClaimPreparation(e) \/ ReviveClaim(e) \/ Lease(e) \/ Expire(e)
    <3>1. /\ \A f \in Effects : f # e => effect'[f] = effect[f]
          /\ effect'[e].members = effect[e].members /\ effect'[e].diverted = effect[e].diverted
          /\ effect'[e].publishes = effect[e].publishes
          /\ \/ effect'[e].state = effect[e].state
             \/ effect[e].state # "FINALIZED" /\ effect'[e].state # "FINALIZED"
      <4> DEFINE r == effect'[e]
      <4>1. CASE ClaimPreparation(e)
        BY <2>0, <4>1 DEF ClaimPreparation, Update, Rows
      <4>2. CASE ReviveClaim(e)
        BY <2>0, <4>2 DEF ReviveClaim, Update, Rows
      <4>3. CASE Lease(e)
        BY <2>0, <4>3 DEF Lease, Update, Rows
      <4>4. CASE Expire(e)
        BY <2>0, <4>4 DEF Expire, Update, Rows
      <4> QED
        BY <2>2, <4>1, <4>2, <4>3, <4>4
    <3> QED
      BY <2>0, <3>1, OpenRow
  <2>3. CASE \E D \in SUBSET effect[e].members, publishes \in BOOLEAN : CompletePlan(e, D, publishes)
    <3>1. PICK D \in SUBSET effect[e].members, publishes \in BOOLEAN : CompletePlan(e, D, publishes)
      BY <2>3
    <3>2. /\ \A f \in Effects : f # e => effect'[f] = effect[f]
          /\ effect'[e].state = "PREPARED"
      BY <2>0, <3>1 DEF CompletePlan, Update, Rows
    <3>3. effect[e].state = "RESERVED" /\ \A u \in Units : target[e][u] = Untouched
      BY <3>1 DEF CompletePlan, StreamInv
    <3> QED
      BY <2>0, <3>2, <3>3, OpenRow
  <2>4. CASE FinalizeNoPublication(e)
    <3>1. /\ \A f \in Effects : f # e => effect'[f] = effect[f]
          /\ effect'[e].state = "FINALIZED" /\ effect'[e].members = effect[e].members
          /\ effect'[e].diverted = effect[e].diverted /\ effect'[e].publishes = effect[e].publishes
      BY <2>0, <2>4 DEF FinalizeNoPublication, Update, Rows
    <3>2. effect[e].state = "PREPARED" /\ ~effect[e].publishes
      BY <2>4 DEF FinalizeNoPublication
    <3>3. effect[e].members \subseteq Tokens /\ OneHeldPublication
      BY <2>0 DEF Rows, OrderInv
    <3> QED
      BY <2>0, <3>1, <3>2, <3>3, FinalRow
  <2> QED
    BY <1>3, <2>1, <2>2, <2>3, <2>4 DEF Prepare
<1>4. ASSUME NEW e \in Effects, Execute(e)
      PROVE  Delivery!Next \/ UNCHANGED Delivery!deliveryVars
  <2>0. effect[e] \in Rows /\ effect \in [Effects -> Rows]
    BY DEF Types, TypeOK, Rows, Owners
  <2>1. CASE \/ CloseAbandoned(e) \/ LoseResponse(e) \/ Block(e) \/ RecordCommit(e) \/ BeginCommit(e)
             \/ \E u \in Units : Reuse(e, u) \/ BeginReconcile(e, u)
             \/ \E known \in BOOLEAN : Reconcile(e, known)
    BY <2>1, InvisibleStep DEF CloseAbandoned, LoseResponse, Block, RecordCommit, BeginCommit, Reuse,
                  BeginReconcile, Reconcile
  <2>2. CASE SettleMember(e)
    <3>1. /\ \A f \in Effects : f # e => effect'[f] = effect[f]
          /\ effect'[e].state = effect[e].state /\ effect'[e].members = effect[e].members
      BY <2>0, <2>2 DEF SettleMember, Update, Rows
    <3>2. effect[e].state = "IN_FLIGHT" /\ perMember /\ UNCHANGED <<perMember, target>>
      BY <2>2 DEF SettleMember, Answer, HoldsLease
    <3> QED
      BY <3>1, <3>2, OpenRow
  <2>3. CASE Finalize(e)
    <3>1. /\ \A f \in Effects : f # e => effect'[f] = effect[f]
          /\ effect'[e].state = "FINALIZED" /\ effect'[e].members = effect[e].members
          /\ effect'[e].diverted = effect[e].diverted \cup (IF perMember THEN {} ELSE attempts[e][co.att].div)
          /\ effect'[e].publishes = effect[e].publishes
      BY <2>0, <2>3 DEF Finalize, Update, Rows
    <3>2. effect[e].state = "IN_FLIGHT" /\ UNCHANGED <<perMember, target>>
      BY <2>3 DEF Finalize, HoldsLease
    <3>3. effect[e].members \subseteq Tokens /\ OneHeldPublication
      BY <2>0 DEF Rows, OrderInv
    <3>4. effect'[e].publishes => \A t \in effect[e].members \ effect'[e].diverted :
               Applied(e, UnitOf(t)) /\ t \notin target[e][UnitOf(t)].div
      BY <3>1, <3>2 DEF TargetInv, AcceptedIsPublished, Applied, UnitOf
    <3>5. ~perMember => attempts[e][co.att].div = target[e][0].div
      <4> SUFFICES ASSUME ~perMember PROVE attempts[e][co.att].div = target[e][0].div
        OBVIOUS
      <4>1. /\ co.att \in DOMAIN attempts[e] /\ attempts[e][co.att].unit = co.unit
            /\ attempts[e][co.att].res \in {"APPLIED", "COMMITTED"} /\ co.unit \in Units
        BY <2>3 DEF Finalize, Answer, At, CoordinatorInv, Known, Current
      <4>2. Shown(e, co.unit, attempts[e][co.att].div) /\ co.unit = 0
        BY <4>1, UnitFacts DEF AttemptsInv, Truthful
      <4> QED
        BY <4>2 DEF Shown
    <3>6. \/ effect'[e].diverted = effect[e].diverted
          \/ ~perMember /\ effect'[e].diverted = effect[e].diverted \cup target[e][0].div
      BY <3>1, <3>5
    <3> QED
      BY <3>1, <3>2, <3>3, <3>4, <3>6, FinalRow
  <2> QED
    BY <1>4, <2>1, <2>2, <2>3 DEF Execute
<1>5. CASE \E r \in wire : \E D \in Refusals(r) : Land(r, D)
  BY <1>5, LandDelivers
<1> QED
  BY <1>1, <1>2, <1>3, <1>4, <1>5 DEF Next

\* ImplementsSinkDelivery: with such clocks the coordinator delivers each token as
\* SinkDelivery promises.  The mapping reads what a token's effect shows at the
\* target, and the audit trail's outcome.
THEOREM DeliveryTheorem ==
    ASSUME ClocksAgree
    PROVE  Spec => ImplementsSinkDelivery
<1>1. Init => Delivery!Init
  <2> SUFFICES ASSUME Init PROVE Delivery!Init
    OBVIOUS
  <2>1. \A e \in Effects : effect[e].members = {}
    BY DEF Init, NoEffect
  <2>2. \A e \in Effects, t \in Tokens : ~Carried(e, t)
    BY <2>1 DEF Carried
  <2>3. Publications = [t \in Tokens |-> 0] /\ Strays = {}
    BY <2>2 DEF Publications, Strays
  <2>4. \A t \in Tokens : OutcomeOf(t) = "open"
    BY <2>1, OutcomeOpen
  <2> QED
    BY <2>3, <2>4 DEF Delivery!Init
<1>2. SinkInv /\ OrderInv /\ [Next]_vars => [Delivery!Next]_(Delivery!deliveryVars)
  BY SinkStep, DeliveryStep
<1> QED
  BY <1>1, <1>2, OrderTheorem, PTL DEF Spec, ImplementsSinkDelivery, Delivery!Spec

--------------------------------------------------------------------------------
(* What finalize records as diverted. *)

\* A member adapter's reconciliation names no refused row.
Reconciled ==
    perMember => \A e \in Effects : \A i \in DOMAIN attempts[e] :
        attempts[e][i].act = "RECONCILE" => attempts[e][i].div = {}

\* A member diverted after the plan was refused by the target.
DivertedIsRefused ==
    \A e \in Effects : \A t \in effect[e].diverted \ effect[e].planned : Refused(e, t)

\* An answered attempt is not changed again.
LEMMA ReturnedStays ==
    ASSUME SinkInv, [Next]_vars, NEW e \in Effects, NEW i \in DOMAIN attempts[e],
           attempts[e][i].st = "RETURNED"
    PROVE  i \in DOMAIN attempts'[e] /\ attempts'[e][i] = attempts[e][i]
<1>0. Types
  BY DEF SinkInv
<1>1. CASE attempts' = attempts
  BY <1>1
<1>2. ASSUME NEW f \in Effects, NEW u \in Units, NEW act \in {"COMMIT", "RECONCILE"}, Begin(f, u, act)
      PROVE  i \in DOMAIN attempts'[e] /\ attempts'[e][i] = attempts[e][i]
  <2>1. /\ \A g \in Effects : g # f => attempts'[g] = attempts[g]
        /\ \A k \in DOMAIN attempts[f] : k \in DOMAIN attempts'[f] /\ attempts'[f][k] = attempts[f][k]
    BY <1>0, <1>2, BeginStep, SMT
  <2> QED
    BY <2>1
<1>3. ASSUME NEW f \in Effects, CloseAbandoned(f)
      PROVE  i \in DOMAIN attempts'[e] /\ attempts'[e][i] = attempts[e][i]
  <2>1. /\ \A g \in Effects : g # f => attempts'[g] = attempts[g]
        /\ DOMAIN attempts'[f] = DOMAIN attempts[f]
        /\ \A k \in DOMAIN attempts[f] : attempts[f][k].st # "INTENT" => attempts'[f][k] = attempts[f][k]
    BY <1>0, <1>3, AbandonStep
  <2> QED
    BY <2>1
<1>4. ASSUME NEW f \in Effects,
             LoseResponse(f) \/ RecordCommit(f) \/ \E known \in BOOLEAN : Reconcile(f, known)
      PROVE  i \in DOMAIN attempts'[e] /\ attempts'[e][i] = attempts[e][i]
  <2>1. /\ \A g \in Effects : g # f => attempts'[g] = attempts[g]
        /\ DOMAIN attempts'[f] = DOMAIN attempts[f]
        /\ \A k \in DOMAIN attempts[f] : k # co.att => attempts'[f][k] = attempts[f][k]
    BY <1>4, CloseMoves
  <2>2. attempts[f][co.att].st = "INTENT"
    BY <1>4 DEF LoseResponse, RecordCommit, Reconcile, At, SinkInv, CoordinatorInv, Known, Current
  <2> QED
    BY <2>1, <2>2
<1> QED
  BY <1>1, <1>2, <1>3, <1>4, AttemptMoves

\* The only refusals a reconciliation reports are those of a group.
LEMMA ReconciledStep ==
    ASSUME SinkInv, Reconciled, [Next]_vars
    PROVE  Reconciled'
<1>0. Types /\ perMember' = perMember
  BY SamePerMember DEF SinkInv
<1> SUFFICES ASSUME perMember, NEW e \in Effects, NEW i \in DOMAIN attempts'[e],
                    attempts'[e][i].act = "RECONCILE"
             PROVE  attempts'[e][i].div = {}
  BY <1>0 DEF Reconciled
<1>a. \A f \in Effects : \A j \in DOMAIN attempts[f] :
          attempts[f][j].act = "RECONCILE" => attempts[f][j].div = {}
  BY DEF Reconciled
<1>1. CASE attempts' = attempts
  BY <1>1, <1>a
<1>2. ASSUME NEW f \in Effects, NEW u \in Units, NEW act \in {"COMMIT", "RECONCILE"}, Begin(f, u, act)
      PROVE  attempts'[e][i].div = {}
  <2>1. /\ \A g \in Effects : g # f => attempts'[g] = attempts[g]
        /\ \A k \in DOMAIN attempts'[f] : k = Len(attempts[f]) + 1 \/ k \in DOMAIN attempts[f]
        /\ \A k \in DOMAIN attempts[f] : attempts'[f][k] = attempts[f][k]
        /\ attempts'[f][Len(attempts[f]) + 1].div = {}
    BY <1>0, <1>2, BeginStep, SMT
  <2> QED
    BY <1>a, <2>1
<1>3. ASSUME NEW f \in Effects, CloseAbandoned(f) PROVE attempts'[e][i].div = {}
  <2>1. /\ \A g \in Effects : g # f => attempts'[g] = attempts[g]
        /\ DOMAIN attempts'[f] = DOMAIN attempts[f]
        /\ \A k \in DOMAIN attempts[f] : /\ attempts'[f][k].act = attempts[f][k].act
                                         /\ attempts'[f][k].div = attempts[f][k].div
    BY <1>0, <1>3, AbandonStep
  <2>2. CASE e = f
    BY <1>a, <2>1, <2>2, SMT
  <2>3. CASE e # f
    BY <1>a, <2>1, <2>3
  <2> QED
    BY <2>2, <2>3
<1>4. ASSUME NEW f \in Effects,
             LoseResponse(f) \/ RecordCommit(f) \/ \E known \in BOOLEAN : Reconcile(f, known)
      PROVE  attempts'[e][i].div = {}
  <2>1. /\ \A g \in Effects : g # f => attempts'[g] = attempts[g]
        /\ DOMAIN attempts'[f] = DOMAIN attempts[f]
        /\ \A k \in DOMAIN attempts[f] : k # co.att => attempts'[f][k] = attempts[f][k]
        /\ co.att \in DOMAIN attempts[f]
        /\ attempts'[f][co.att].act = attempts[f][co.att].act
    BY <1>4, CloseMoves
  <2>2. attempts[f][co.att].act = "RECONCILE" => attempts'[f][co.att].div = {}
    <3>0. {} \in SUBSET Tokens
      OBVIOUS
    <3>1. CASE LoseResponse(f)
      <4>1. Close(f, co.att, "RESPONSE_LOST", "NONE", {})
        BY <3>1 DEF LoseResponse
      <4> QED
        BY <1>0, <2>1, <3>0, <4>1, CloseStep, SMT
    <3>2. CASE RecordCommit(f)
      <4>1. attempts[f][co.att].act = "COMMIT"
        BY <3>2 DEF RecordCommit, At, SinkInv, CoordinatorInv, Known, Current
      <4> QED
        BY <4>1
    <3>3. CASE \E known \in BOOLEAN : Reconcile(f, known)
      <4>1. PICK known \in BOOLEAN : Reconcile(f, known)
        BY <3>3
      <4>2. co.unit \in Units
        BY <4>1 DEF Reconcile, At, SinkInv, CoordinatorInv, Known, Current
      <4>3. target[f][co.unit].div = {}
        BY <4>2 DEF SinkInv, TargetInv
      <4> DEFINE res == IF ~known THEN "UNKNOWN"
                        ELSE IF Applied(f, co.unit) THEN "APPLIED" ELSE "NOT_APPLIED"
      <4>4. Close(f, co.att, "RETURNED", res, {})
        BY <4>1, <4>3 DEF Reconcile
      <4>5. res \in {"NONE", "COMMITTED", "APPLIED", "NOT_APPLIED", "UNKNOWN"}
        OBVIOUS
      <4> HIDE DEF res
      <4> QED
        BY <1>0, <2>1, <3>0, <4>4, <4>5, CloseStep, SMT
    <3> QED
      BY <1>4, <3>1, <3>2, <3>3
  <2>3. CASE e = f /\ i = co.att
    BY <2>1, <2>2, <2>3
  <2>4. CASE e = f /\ i # co.att
    BY <1>a, <2>1, <2>4
  <2>5. CASE e # f
    BY <1>a, <2>1, <2>5
  <2> QED
    BY <2>3, <2>4, <2>5
<1> QED
  BY <1>1, <1>2, <1>3, <1>4, AttemptMoves

\* What the target refused stays refused.
LEMMA RefusedStays ==
    ASSUME SinkInv, [Next]_vars, NEW e \in Effects, NEW t, Refused(e, t)
    PROVE  Refused(e, t)'
<1>0. perMember' = perMember /\ Types /\ TargetInv
  BY SamePerMember DEF SinkInv
<1>1. CASE perMember
  <2>1. PICK i \in DOMAIN attempts[e] : /\ attempts[e][i].unit = t /\ attempts[e][i].act = "COMMIT"
                                        /\ attempts[e][i].st = "RETURNED" /\ t \in attempts[e][i].div
    BY <1>1 DEF Refused, Of
  <2>2. i \in DOMAIN attempts'[e] /\ attempts'[e][i] = attempts[e][i]
    BY <2>1, ReturnedStays
  <2> QED
    BY <1>0, <1>1, <2>1, <2>2 DEF Refused, Of
<1>2. CASE ~perMember
  <2>0. Applied(e, 0) /\ t \in target[e][0].div /\ 0 \in Units
    BY <1>0, <1>2, UnitFacts DEF Refused
  <2>1. CASE target' = target
    BY <1>0, <1>2, <2>0, <2>1 DEF Refused, Applied
  <2>2. ASSUME NEW r \in wire, NEW D \in Refusals(r), Land(r, D) PROVE Refused(e, t)'
    <3>1. Applied(e, 0)' /\ target'[e][0].div = target[e][0].div
      BY <1>0, <1>2, <2>0, <2>2, AppliedStays
    <3> QED
      BY <1>0, <1>2, <2>0, <3>1 DEF Refused
  <2> QED
    BY <2>1, <2>2, TargetMoves
<1> QED
  BY <1>1, <1>2

\* A row is diverted beyond the plan by what an answer says.
LEMMA DivertedMoves ==
    ASSUME SinkInv, [Next]_vars, NEW e \in Effects, NEW t \in effect'[e].diverted \ effect'[e].planned
    PROVE  \/ t \in effect[e].diverted \ effect[e].planned
           \/ /\ (perMember /\ SettleMember(e)) \/ (~perMember /\ Finalize(e))
              /\ t \in attempts[e][co.att].div
<1>0. Types /\ \A f \in Effects : effect[f] \in Rows
  BY DEF SinkInv, Types, TypeOK, Rows, Owners
<1>1. CASE effect' = effect
  BY <1>1
<1>2. ASSUME NEW f \in Effects, NEW r, Update(f, r),
             r.diverted \ r.planned \subseteq effect[f].diverted \ effect[f].planned
      PROVE  t \in effect[e].diverted \ effect[e].planned
  BY <1>0, <1>2 DEF Update, Types, TypeOK
<1>3. CASE \E T \in Groups[epoch] : Reserve(T)
  <2>1. PICK T \in Groups[epoch] : Reserve(T)
    BY <1>3
  <2> DEFINE n == [NoEffect EXCEPT !.state = "RESERVED", !.members = Unbound(T)]
  <2>2. CASE tail < MaxEffects /\ Update(tail + 1, n)
    <3>1. tail + 1 \in Effects
      BY <1>0, <2>2, SkewAssumption, SMT DEF Types, TypeOK, Effects
    <3>2. n.diverted = {}
      BY DEF NoEffect
    <3> HIDE DEF n
    <3> QED
      BY <1>2, <2>2, <3>1, <3>2
  <2> QED
    BY <1>1, <2>1, <2>2 DEF Reserve
<1>4. ASSUME NEW f \in Effects, Prepare(f) \/ Expire(f)
      PROVE  t \in effect[e].diverted \ effect[e].planned
  <2>0. effect[f] \in Rows
    BY <1>0
  <2>1. CASE Refuse(f)
    BY <1>1, <2>1 DEF Refuse
  <2>2. CASE ClaimPreparation(f)
    <3> DEFINE r == [effect[f] EXCEPT !.owner = epoch, !.gen = @ + 1, !.live = TRUE]
    <3>1. r.diverted = effect[f].diverted /\ r.planned = effect[f].planned
      BY <2>0 DEF Rows
    <3>2. Update(f, r)
      BY <2>2 DEF ClaimPreparation
    <3> HIDE DEF r
    <3> QED
      BY <1>2, <3>1, <3>2
  <2>3. CASE ReviveClaim(f) \/ Expire(f)
    <3> DEFINE v == CHOOSE x \in BOOLEAN : Update(f, [effect[f] EXCEPT !.live = x])
               r == [effect[f] EXCEPT !.live = v]
    <3>1. r.diverted = effect[f].diverted /\ r.planned = effect[f].planned
      BY <2>0 DEF Rows
    <3>2. Update(f, r)
      BY <2>3 DEF ReviveClaim, Expire
    <3> HIDE DEF r
    <3> QED
      BY <1>2, <3>1, <3>2
  <2>4. CASE \E D \in SUBSET effect[f].members, publishes \in BOOLEAN : CompletePlan(f, D, publishes)
    <3>1. PICK D \in SUBSET effect[f].members, publishes \in BOOLEAN : CompletePlan(f, D, publishes)
      BY <2>4
    <3> DEFINE r == [effect[f] EXCEPT !.state = "PREPARED", !.owner = 0, !.live = FALSE,
                                      !.publishes = publishes, !.planned = D, !.diverted = D]
    <3>2. r.diverted = D /\ r.planned = D
      BY <2>0 DEF Rows
    <3>3. Update(f, r)
      BY <3>1 DEF CompletePlan
    <3> HIDE DEF r
    <3> QED
      BY <1>2, <3>2, <3>3
  <2>5. CASE FinalizeNoPublication(f)
    <3> DEFINE r == [effect[f] EXCEPT !.state = "FINALIZED", !.done = effect[f].members]
    <3>1. r.diverted = effect[f].diverted /\ r.planned = effect[f].planned
      BY <2>0 DEF Rows
    <3>2. Update(f, r)
      BY <2>5 DEF FinalizeNoPublication
    <3> HIDE DEF r
    <3> QED
      BY <1>2, <3>1, <3>2
  <2>6. CASE Lease(f)
    <3> DEFINE r == [effect[f] EXCEPT !.state = "IN_FLIGHT", !.owner = epoch, !.gen = @ + 1,
                                      !.live = TRUE]
    <3>1. r.diverted = effect[f].diverted /\ r.planned = effect[f].planned
      BY <2>0 DEF Rows
    <3>2. Update(f, r)
      BY <2>6 DEF Lease
    <3> HIDE DEF r
    <3> QED
      BY <1>2, <3>1, <3>2
  <2> QED
    BY <1>4, <2>1, <2>2, <2>3, <2>4, <2>5, <2>6 DEF Prepare
<1>5. ASSUME NEW f \in Effects, SettleMember(f)
      PROVE  \/ t \in effect[e].diverted \ effect[e].planned
             \/ e = f /\ perMember /\ t \in attempts[e][co.att].div
  <2> DEFINE r == [effect[f] EXCEPT !.done = @ \cup {co.unit},
                                    !.diverted = @ \cup attempts[f][co.att].div]
  <2>1. r.diverted = effect[f].diverted \cup attempts[f][co.att].div /\ r.planned = effect[f].planned
    BY <1>0 DEF Rows
  <2>2. Update(f, r) /\ perMember
    BY <1>5 DEF SettleMember
  <2> HIDE DEF r
  <2> QED
    BY <1>0, <2>1, <2>2 DEF Update, Types, TypeOK
<1>6. ASSUME NEW f \in Effects, Finalize(f)
      PROVE  \/ t \in effect[e].diverted \ effect[e].planned
             \/ e = f /\ ~perMember /\ t \in attempts[e][co.att].div
  <2> DEFINE X == IF perMember THEN {} ELSE attempts[f][co.att].div
             r == [effect[f] EXCEPT !.state = "FINALIZED", !.owner = 0, !.live = FALSE,
                    !.done = effect[f].members, !.diverted = @ \cup X]
  <2>1. r.diverted = effect[f].diverted \cup X /\ r.planned = effect[f].planned
    BY <1>0 DEF Rows
  <2>2. Update(f, r)
    BY <1>6 DEF Finalize
  <2> HIDE DEF r
  <2> QED
    BY <1>0, <2>1, <2>2 DEF Update, Types, TypeOK
<1>7. ASSUME NEW f \in Effects, Execute(f), ~SettleMember(f), ~Finalize(f)
      PROVE  effect' = effect
  BY <1>7 DEF Execute, CloseAbandoned, Reuse, BeginReconcile, Reconcile, LoseResponse, Block,
              BeginCommit, RecordCommit
<1>8. UNCHANGED vars \/ Return \/ NewLeader \/ (\E r \in wire : \E D \in Refusals(r) : Land(r, D))
          => effect' = effect
  BY DEF vars, Return, NewLeader, Land
<1> QED
  BY <1>1, <1>3, <1>4, <1>5, <1>6, <1>7, <1>8 DEF Next

\* Every diversion after the plan is one the target made.
LEMMA DivertedStep ==
    ASSUME SinkInv, Reconciled, DivertedIsRefused, [Next]_vars
    PROVE  DivertedIsRefused'
<1> SUFFICES ASSUME NEW e \in Effects, NEW t \in effect'[e].diverted \ effect'[e].planned
             PROVE  Refused(e, t)'
  BY DEF DivertedIsRefused
<1>1. CASE t \in effect[e].diverted \ effect[e].planned
  BY <1>1, RefusedStays DEF DivertedIsRefused
<1>2. CASE /\ (perMember /\ SettleMember(e)) \/ (~perMember /\ Finalize(e))
           /\ t \in attempts[e][co.att].div
  <2> DEFINE a == attempts[e][co.att]
  <2>1. /\ Current(e) /\ co.pc = "answer" /\ co.att \in DOMAIN attempts[e] /\ co.unit \in Units
        /\ a.unit = co.unit /\ a.st = "RETURNED" /\ a.res \in {"APPLIED", "COMMITTED"}
    BY <1>2 DEF SettleMember, Finalize, Answer, At, SinkInv, CoordinatorInv, Known, Current
  <2>2. Shown(e, co.unit, a.div)
    BY <2>1 DEF SinkInv, AttemptsInv, Truthful
  <2>3. Refused(e, t)
    <3>1. CASE perMember
      <4>1. a \in Attempt
        BY <2>1, SMT DEF SinkInv, Types, TypeOK
      <4>2. a.act = "COMMIT" /\ t = co.unit
        BY <1>2, <2>1, <2>2, <3>1, <4>1 DEF Reconciled, Shown, Attempt
      <4> QED
        BY <1>2, <2>1, <3>1, <4>2 DEF Refused, Of
    <3>2. CASE ~perMember
      <4>1. co.unit = 0
        BY <2>1, <3>2, UnitFacts DEF SinkInv
      <4> QED
        BY <1>2, <2>2, <3>2, <4>1 DEF Refused, Shown
    <3> QED
      BY <3>1, <3>2
  <2> QED
    BY <2>3, RefusedStays
<1> QED
  BY <1>1, <1>2, DivertedMoves

\* FinalizedIsPublished: a member that finalize records as accepted reached the
\* target and was not refused by it, and one diverted after the plan was refused
\* by it, for every number of leaders and effects, and whatever the workers'
\* clocks show.
THEOREM FinalizedTheorem == Spec => []FinalizedIsPublished
<1>1. Init => Reconciled /\ DivertedIsRefused
  BY SMT DEF Init, NoEffect, Reconciled, DivertedIsRefused
<1>2. SinkInv /\ Reconciled /\ DivertedIsRefused /\ [Next]_vars => (Reconciled /\ DivertedIsRefused)'
  BY ReconciledStep, DivertedStep
<1>3. SinkInv /\ DivertedIsRefused => FinalizedIsPublished
  BY DEF SinkInv, TargetInv, AcceptedIsPublished, DivertedIsRefused, FinalizedIsPublished
<1> QED
  BY <1>1, <1>2, <1>3, SinkInvTheorem, PTL DEF Spec

================================================================================
