------------------------- MODULE SinkEffectsInvariant -------------------------
(*****************************************************************************)
(* The inductive invariant of publication through sink effects, for every    *)
(* set of tokens, every grouping, any number of leaders, effects and         *)
(* attempts, and whatever the workers' clocks show.                          *)
(*                                                                           *)
(* SinkInv says what the coordinator knows at each of its steps, and that a  *)
(* result recorded of an attempt is true of the target from then on.         *)
(* One half of FinalizedIsPublished, what is accepted, is a conjunct.        *)
(*****************************************************************************)
EXTENDS SinkEffects, TLAPS

\* The prover of a step that names none.
USE Zenon

Types == perMember \in BOOLEAN /\ TypeOK

Untouched == [held |-> 0, late |-> FALSE, div |-> {}]

\* The stream is reserved in order, a token is in one effect, and an effect that
\* was never leased has left no trace outside its row.
StreamInv ==
    /\ \A e \in Effects : effect[e].state = "NONE" <=> tail < e
    /\ \A e, f \in Effects : e # f => effect[e].members \cap effect[f].members = {}
    /\ \A e \in Effects :
          /\ effect[e].state = "NONE" => effect[e].members = {}
          /\ effect[e].state \in {"NONE", "RESERVED"} => effect[e].done = {}
          /\ effect[e].state = "IN_FLIGHT" => effect[e].publishes
          /\ effect[e].state \in {"NONE", "RESERVED", "PREPARED"} =>
                /\ \A u \in Units : target[e][u] = Untouched
                /\ \A r \in wire : r.effect # e

\* The coordinator's current effect.
Current(e) == e \in co.queue /\ \A f \in co.queue : e <= f

Leasing == {"leased", "unit", "reconciling", "answer", "committing", "committed"}

\* Every commit of a unit was answered with silence.
AllLost(e, u) == \A j \in CommitsOf(e, u) : attempts[e][j].st = "RESPONSE_LOST"

\* What the coordinator knows at each of its steps of effect e.
Known(e) ==
    /\ co.pc \in Leasing => effect[e].state = "IN_FLIGHT"
    /\ co.pc \in {"unit", "reconciling", "answer"} =>
          \A i \in DOMAIN attempts[e] :
              attempts[e][i].act = "COMMIT" => attempts[e][i].st # "INTENT"
    /\ co.pc \in {"reconciling", "answer", "committing", "committed"} =>
          /\ co.unit \in Units
          /\ co.att \in DOMAIN attempts[e] /\ attempts[e][co.att].unit = co.unit
    /\ co.pc = "reconciling" =>
          /\ co.att = Len(attempts[e]) /\ AllLost(e, co.unit)
          /\ attempts[e][co.att].act = "RECONCILE" /\ attempts[e][co.att].st = "INTENT"
    /\ co.pc = "answer" => attempts[e][co.att].st = "RETURNED"
    /\ co.pc = "answer" /\ attempts[e][co.att].res = "NOT_APPLIED" => AllLost(e, co.unit)
    /\ co.pc \in {"committing", "committed"} =>
          /\ co.att = Len(attempts[e])
          /\ attempts[e][co.att].act = "COMMIT" /\ attempts[e][co.att].st = "INTENT"
          /\ \A i \in DOMAIN attempts[e] : i # co.att =>
                (attempts[e][i].act = "COMMIT" => attempts[e][i].st # "INTENT")

CoordinatorInv == \A e \in Effects : Current(e) => Known(e)

\* What a recorded result says of the target.
Shown(e, u, D) ==
    IF perMember THEN D \subseteq {u} /\ (D = {} => Applied(e, u))
    ELSE Applied(e, u) /\ D = target[e][u].div

\* A result is recorded only for an answered attempt, and it is true.
Truthful(e, i) ==
    LET a == attempts[e][i] IN
    /\ a.st # "RETURNED" => a.res = "NONE"
    /\ a.act = "COMMIT" /\ a.st = "RETURNED" => a.res = "COMMITTED"
    /\ a.res \in {"APPLIED", "NOT_APPLIED"} => a.act = "RECONCILE"
    /\ a.res \in {"APPLIED", "COMMITTED"} => Shown(e, a.unit, a.div)

AttemptsInv == \A e \in Effects : \A i \in DOMAIN attempts[e] : Truthful(e, i)

\* A member recorded as accepted reached the target and was not refused by it.
AcceptedIsPublished ==
    \A e \in Effects : effect[e].state = "FINALIZED" /\ effect[e].publishes =>
        \A t \in effect[e].members \ effect[e].diverted :
            Applied(e, UnitOf(t)) /\ t \notin target[e][UnitOf(t)].div

\* What the target shows agrees with what the ledger has recorded of it.
TargetInv ==
    /\ \A e \in Effects : Current(e) /\ co.pc = "committed" => Shown(e, co.unit, co.div)
    /\ perMember => \A e \in Effects : \A u \in Units : target[e][u].div = {}
    /\ perMember => \A e \in Effects : effect[e].publishes =>
          \A t \in effect[e].done \ effect[e].diverted : Applied(e, t)
    /\ AcceptedIsPublished

SinkInv == Types /\ StreamInv /\ CoordinatorInv /\ AttemptsInv /\ TargetInv

--------------------------------------------------------------------------------
(* Types, and what the ledger's verbs do to the attempts of an effect. *)

Owners == 0 .. MaxEpoch
Rows ==
    [state : {"NONE", "RESERVED", "PREPARED", "IN_FLIGHT", "FINALIZED"},
     members : SUBSET Tokens, owner : Owners, gen : Nat, live : BOOLEAN,
     publishes : BOOLEAN, planned : SUBSET Tokens, diverted : SUBSET Tokens,
     done : SUBSET Tokens]

\* Updating one row leaves the others.
LEMMA RowStep ==
    ASSUME Types, NEW e \in Effects, NEW r \in Rows, Update(e, r)
    PROVE  /\ effect' \in [Effects -> Rows] /\ effect'[e] = r
           /\ \A f \in Effects : f # e => effect'[f] = effect[f]
BY DEF Types, TypeOK, Update, Rows, Owners

\* begin_attempt adds an attempt at the end and leaves the earlier ones.
LEMMA BeginStep ==
    ASSUME Types, NEW e \in Effects, NEW u \in Units, NEW act \in {"COMMIT", "RECONCILE"},
           Begin(e, u, act)
    PROVE  /\ attempts' \in [Effects -> Seq(Attempt)]
           /\ \A f \in Effects : f # e => attempts'[f] = attempts[f]
           /\ Len(attempts[e]) \in Nat /\ Len(attempts'[e]) = Len(attempts[e]) + 1
           /\ DOMAIN attempts[e] = 1 .. Len(attempts[e])
           /\ DOMAIN attempts'[e] = 1 .. Len(attempts[e]) + 1
           /\ \A i \in DOMAIN attempts[e] : attempts'[e][i] = attempts[e][i]
           /\ attempts'[e][Len(attempts[e]) + 1].unit = u
           /\ attempts'[e][Len(attempts[e]) + 1].act = act
           /\ attempts'[e][Len(attempts[e]) + 1].st = "INTENT"
           /\ attempts'[e][Len(attempts[e]) + 1].res = "NONE"
           /\ attempts'[e][Len(attempts[e]) + 1].div = {}
           /\ attempts'[e][Len(attempts[e]) + 1].at = Len(attempts[e]) + 1 + Skew[epoch]
<1> DEFINE r == [unit |-> u, act |-> act, gen |-> co.gen, st |-> "INTENT", res |-> "NONE",
                 div |-> {}, at |-> Len(attempts[e]) + 1 + Skew[epoch]]
<1>1. attempts[e] \in Seq(Attempt) /\ Len(attempts[e]) \in Nat
  BY SMT DEF Types, TypeOK
<1>2. Skew[epoch] \in Nat /\ co.gen \in Nat
  BY SkewAssumption DEF Types, TypeOK
<1>3. r \in Attempt
  BY <1>1, <1>2, SMT DEF Attempt
<1>4. attempts' = [attempts EXCEPT ![e] = Append(attempts[e], r)]
  BY DEF Begin
<1> HIDE DEF r
<1>5. attempts'[e] = Append(attempts[e], r) /\ attempts' \in [Effects -> Seq(Attempt)]
  BY <1>1, <1>3, <1>4, SMT DEF Types, TypeOK
<1>6. \A f \in Effects : f # e => attempts'[f] = attempts[f]
  BY <1>4 DEF Types, TypeOK
<1>7. /\ Len(attempts'[e]) = Len(attempts[e]) + 1
      /\ DOMAIN attempts[e] = 1 .. Len(attempts[e])
      /\ DOMAIN attempts'[e] = 1 .. Len(attempts[e]) + 1
      /\ \A i \in DOMAIN attempts[e] : attempts'[e][i] = attempts[e][i]
      /\ attempts'[e][Len(attempts[e]) + 1] = r
  BY <1>1, <1>3, <1>5, SMT
<1> QED
  BY <1>1, <1>5, <1>6, <1>7, SMT DEF r

\* Replacing an entry of a sequence.
LEMMA EntrySet ==
    ASSUME NEW S, NEW seq \in Seq(S), NEW i \in 1 .. Len(seq), NEW x \in S
    PROVE  /\ [seq EXCEPT ![i] = x] \in Seq(S)
           /\ Len([seq EXCEPT ![i] = x]) = Len(seq)
           /\ \A j \in 1 .. Len(seq) : [seq EXCEPT ![i] = x][j] = IF j = i THEN x ELSE seq[j]
  BY SMT

\* complete_attempt and mark_response_lost change one attempt.
LEMMA CloseStep ==
    ASSUME Types, NEW e \in Effects, NEW i \in DOMAIN attempts[e],
           NEW st \in {"RETURNED", "RESPONSE_LOST"},
           NEW res \in {"NONE", "COMMITTED", "APPLIED", "NOT_APPLIED", "UNKNOWN"},
           NEW D \in SUBSET Tokens,
           Close(e, i, st, res, D)
    PROVE  /\ attempts' \in [Effects -> Seq(Attempt)]
           /\ \A f \in Effects : f # e => attempts'[f] = attempts[f]
           /\ Len(attempts'[e]) = Len(attempts[e])
           /\ DOMAIN attempts'[e] = DOMAIN attempts[e]
           /\ \A j \in DOMAIN attempts[e] : j # i => attempts'[e][j] = attempts[e][j]
           /\ attempts'[e][i].unit = attempts[e][i].unit
           /\ attempts'[e][i].act = attempts[e][i].act
           /\ attempts'[e][i].at = attempts[e][i].at
           /\ attempts'[e][i].st = st /\ attempts'[e][i].res = res /\ attempts'[e][i].div = D
<1> DEFINE r == [attempts[e][i] EXCEPT !.st = st, !.res = res, !.div = D]
<1>1. attempts[e] \in Seq(Attempt) /\ attempts[e][i] \in Attempt
  BY SMT DEF Types, TypeOK
<1>2. r \in Attempt
  BY <1>1 DEF Attempt
<1>3. attempts' = [attempts EXCEPT ![e] = [attempts[e] EXCEPT ![i] = r]]
  BY DEF Close
<1> HIDE DEF r
<1>4. [attempts[e] EXCEPT ![i] = r] \in Seq(Attempt)
  BY <1>1, <1>2, EntrySet, SMT
<1>5. attempts'[e] = [attempts[e] EXCEPT ![i] = r] /\ attempts' \in [Effects -> Seq(Attempt)]
  BY <1>3, <1>4 DEF Types, TypeOK
<1>6. \A f \in Effects : f # e => attempts'[f] = attempts[f]
  BY <1>3 DEF Types, TypeOK
<1>7. /\ Len(attempts'[e]) = Len(attempts[e])
      /\ DOMAIN attempts'[e] = DOMAIN attempts[e]
      /\ \A j \in DOMAIN attempts[e] : j # i => attempts'[e][j] = attempts[e][j]
      /\ attempts'[e][i] = r
  BY <1>1, <1>2, <1>5, EntrySet, SMT
<1>8. /\ r.unit = attempts[e][i].unit /\ r.act = attempts[e][i].act /\ r.at = attempts[e][i].at
      /\ r.st = st /\ r.res = res /\ r.div = D
  BY <1>1 DEF r, Attempt
<1> QED
  BY <1>5, <1>6, <1>7, <1>8

\* _close_abandoned_attempts closes every attempt that was left open.
LEMMA AbandonStep ==
    ASSUME Types, NEW e \in Effects, CloseAbandoned(e)
    PROVE  /\ attempts' \in [Effects -> Seq(Attempt)]
           /\ \A f \in Effects : f # e => attempts'[f] = attempts[f]
           /\ Len(attempts'[e]) = Len(attempts[e])
           /\ DOMAIN attempts'[e] = DOMAIN attempts[e]
           /\ \A i \in DOMAIN attempts[e] :
                 /\ attempts[e][i].st # "INTENT" => attempts'[e][i] = attempts[e][i]
                 /\ attempts[e][i].st = "INTENT" => attempts'[e][i].st = "RESPONSE_LOST"
                 /\ attempts'[e][i].unit = attempts[e][i].unit
                 /\ attempts'[e][i].act = attempts[e][i].act
                 /\ attempts'[e][i].at = attempts[e][i].at
                 /\ attempts'[e][i].res = attempts[e][i].res
                 /\ attempts'[e][i].div = attempts[e][i].div
<1> DEFINE A == attempts[e]
           g == [i \in DOMAIN A |-> IF A[i].st = "INTENT" THEN [A[i] EXCEPT !.st = "RESPONSE_LOST"]
                                    ELSE A[i]]
<1>1. A \in Seq(Attempt) /\ DOMAIN A = 1 .. Len(A) /\ Len(A) \in Nat
  BY SMT DEF Types, TypeOK
<1>2. \A i \in DOMAIN A : A[i] \in Attempt
  BY <1>1, SMT
<1>3. \A i \in DOMAIN A : [A[i] EXCEPT !.st = "RESPONSE_LOST"] \in Attempt
  BY <1>2 DEF Attempt
<1>4. g \in [1 .. Len(A) -> Attempt]
  BY <1>1, <1>2, <1>3
<1>5. attempts' = [attempts EXCEPT ![e] = g]
  BY DEF CloseAbandoned
<1>6. \A i \in DOMAIN A : g[i] = IF A[i].st = "INTENT" THEN [A[i] EXCEPT !.st = "RESPONSE_LOST"]
                                 ELSE A[i]
  OBVIOUS
<1> HIDE DEF g
<1>7. g \in Seq(Attempt) /\ Len(g) = Len(A) /\ DOMAIN g = DOMAIN A
  BY <1>1, <1>4, SMT
<1>8. attempts'[e] = g /\ attempts' \in [Effects -> Seq(Attempt)]
      /\ \A f \in Effects : f # e => attempts'[f] = attempts[f]
  BY <1>5, <1>7 DEF Types, TypeOK
<1>9. ASSUME NEW i \in DOMAIN A
      PROVE  /\ A[i].st # "INTENT" => g[i] = A[i]
             /\ A[i].st = "INTENT" => g[i].st = "RESPONSE_LOST"
             /\ g[i].unit = A[i].unit /\ g[i].act = A[i].act /\ g[i].at = A[i].at
             /\ g[i].res = A[i].res /\ g[i].div = A[i].div
  <2>1. CASE A[i].st = "INTENT"
    <3>1. g[i] = [A[i] EXCEPT !.st = "RESPONSE_LOST"] /\ A[i] \in Attempt
      BY <1>2, <1>6, <2>1
    <3> QED
      BY <2>1, <3>1 DEF Attempt
  <2>2. CASE A[i].st # "INTENT"
    BY <1>6, <2>2
  <2> QED
    BY <2>1, <2>2
<1> QED
  BY <1>7, <1>8, <1>9

CoStates ==
    [pc : {"idle", "effect", "claimed", "leased", "unit", "reconciling", "answer",
           "committing", "committed", "stopped"},
     asked : SUBSET Tokens, queue : SUBSET Effects, gen : Nat, att : Nat,
     unit : Units \cup {0}, div : SUBSET Tokens]

\* Units of an effect: its tokens, or the group.
LEMMA UnitFacts ==
    ASSUME Types
    PROVE  /\ \A t \in Tokens : UnitOf(t) \in Units
           /\ perMember => Units = Tokens
           /\ ~perMember => Units = {0}
BY DEF Types, Units, UnitOf

\* Types are kept by the steps before publication.
LEMMA PrepareTypes ==
    ASSUME Types, NEW e \in Effects, Prepare(e) \/ Expire(e)
    PROVE  Types'
<1> SUFFICES effect' \in [Effects -> Rows] /\ co' \in CoStates
  <2>1. UNCHANGED <<perMember, tail, attempts, epoch, wire, target>>
    BY DEF Prepare, Refuse, ClaimPreparation, ReviveClaim, CompletePlan, FinalizeNoPublication, Lease,
           Expire
  <2> QED
    BY <2>1 DEF Types, TypeOK, Rows, Owners, CoStates, Units, Attempt
<1>1. /\ effect \in [Effects -> Rows] /\ effect[e] \in Rows /\ co \in CoStates
      /\ epoch \in Owners /\ 0 \in Owners /\ effect[e].gen + 1 \in Nat
  BY SkewAssumption, SMT DEF Types, TypeOK, Rows, CoStates, Owners
<1>2. CASE Refuse(e)
  BY <1>1, <1>2 DEF Refuse, Stopped, Idle, CoStates
<1>3. CASE ClaimPreparation(e)
  <2>1. [effect[e] EXCEPT !.owner = epoch, !.gen = @ + 1, !.live = TRUE] \in Rows
    BY <1>1 DEF Rows
  <2>2. co' \in CoStates
    BY <1>1, <1>3 DEF ClaimPreparation, CoStates, Rows
  <2> QED
    BY <1>3, <2>1, <2>2, RowStep DEF ClaimPreparation
<1>4. CASE ReviveClaim(e)
  <2>1. [effect[e] EXCEPT !.live = TRUE] \in Rows
    BY <1>1 DEF Rows
  <2> QED
    BY <1>1, <1>4, <2>1, RowStep DEF ReviveClaim
<1>5. CASE \E D \in SUBSET effect[e].members, publishes \in BOOLEAN : CompletePlan(e, D, publishes)
  <2>1. PICK D \in SUBSET effect[e].members, publishes \in BOOLEAN : CompletePlan(e, D, publishes)
    BY <1>5
  <2>2. D \in SUBSET Tokens
    BY <1>1, <2>1 DEF Rows
  <2>3. [effect[e] EXCEPT !.state = "PREPARED", !.owner = 0, !.live = FALSE,
                          !.publishes = publishes, !.planned = D, !.diverted = D] \in Rows
    BY <1>1, <2>2 DEF Rows
  <2>4. co' \in CoStates
    BY <1>1, <2>1 DEF CompletePlan, CoStates
  <2> QED
    BY <2>1, <2>3, <2>4, RowStep DEF CompletePlan
<1>6. CASE FinalizeNoPublication(e)
  <2>1. [effect[e] EXCEPT !.state = "FINALIZED", !.done = effect[e].members] \in Rows
    BY <1>1 DEF Rows
  <2>2. co' \in CoStates
    BY <1>1, <1>6 DEF FinalizeNoPublication, CoStates
  <2> QED
    BY <1>6, <2>1, <2>2, RowStep DEF FinalizeNoPublication
<1>7. CASE Lease(e)
  <2>1. [effect[e] EXCEPT !.state = "IN_FLIGHT", !.owner = epoch, !.gen = @ + 1, !.live = TRUE] \in Rows
    BY <1>1 DEF Rows
  <2>2. co' \in CoStates
    BY <1>1, <1>7 DEF Lease, CoStates, Rows
  <2> QED
    BY <1>7, <2>1, <2>2, RowStep DEF Lease
<1>8. CASE Expire(e)
  <2>1. [effect[e] EXCEPT !.live = FALSE] \in Rows
    BY <1>1 DEF Rows
  <2> QED
    BY <1>1, <1>8, <2>1, RowStep DEF Expire
<1> QED
  BY <1>2, <1>3, <1>4, <1>5, <1>6, <1>7, <1>8 DEF Prepare

\* Types are kept by the steps of a leased effect.
LEMMA ExecuteTypes ==
    ASSUME Types, CoordinatorInv, NEW e \in Effects, Execute(e)
    PROVE  Types'
<1>0. /\ effect \in [Effects -> Rows] /\ effect[e] \in Rows /\ co \in CoStates
      /\ attempts \in [Effects -> Seq(Attempt)] /\ Len(attempts[e]) + 1 \in Nat
      /\ 0 \in Owners
      /\ \A i \in DOMAIN attempts[e] : i \in Nat /\ attempts[e][i] \in Attempt
  BY SkewAssumption, SMT DEF Types, TypeOK, Rows, CoStates, Owners
<1>1. CASE CloseAbandoned(e)
  <2>1. co' \in CoStates
    BY <1>0, <1>1 DEF CloseAbandoned, CoStates
  <2> QED
    BY <1>1, <2>1, AbandonStep DEF CloseAbandoned, Types, TypeOK, CoStates, Units, Attempt
<1>2. CASE \E u \in Units : Reuse(e, u)
  <2>1. PICK u \in Units : Reuse(e, u)
    BY <1>2
  <2>2. PICK i \in Evidence(e, u) : co' = [co EXCEPT !.pc = "answer", !.unit = u, !.att = i]
    BY <2>1 DEF Reuse
  <2>3. i \in DOMAIN attempts[e]
    BY <2>2 DEF Evidence, FreshReconcile, Of
  <2>4. co' \in CoStates
    BY <1>0, <2>2, <2>3 DEF CoStates
  <2> QED
    BY <2>1, <2>4 DEF Reuse, Types, TypeOK, CoStates, Units, Attempt
<1>3. CASE \E u \in Units : BeginReconcile(e, u)
  <2>1. PICK u \in Units : BeginReconcile(e, u)
    BY <1>3
  <2>2. co' \in CoStates
    BY <1>0, <2>1 DEF BeginReconcile, CoStates
  <2>3. attempts' \in [Effects -> Seq(Attempt)]
    BY <2>1, BeginStep DEF BeginReconcile
  <2> QED
    BY <2>1, <2>2, <2>3 DEF BeginReconcile, Types, TypeOK, CoStates, Units, Attempt
<1>4. CASE \E known \in BOOLEAN : Reconcile(e, known)
  <2>1. PICK known \in BOOLEAN : Reconcile(e, known)
    BY <1>4
  <2>2. co.att \in DOMAIN attempts[e] /\ co.unit \in Units
    BY <2>1 DEF Reconcile, At, CoordinatorInv, Known, Current
  <2>3. PICK res \in {"APPLIED", "NOT_APPLIED", "UNKNOWN"}, D \in SUBSET Tokens :
            Close(e, co.att, "RETURNED", res, D)
    <3>1. target[e][co.unit].div \in SUBSET Tokens
      BY <2>2, SMT DEF Types, TypeOK
    <3> QED
      BY <2>1, <3>1 DEF Reconcile
  <2>4. attempts' \in [Effects -> Seq(Attempt)]
    BY <2>2, <2>3, CloseStep
  <2>5. co' \in CoStates
    BY <1>0, <2>1 DEF Reconcile, CoStates
  <2> QED
    BY <2>1, <2>4, <2>5 DEF Reconcile, Types, TypeOK, CoStates, Units, Attempt
<1>5. CASE LoseResponse(e)
  <2>1. co.att \in DOMAIN attempts[e]
    BY <1>5 DEF LoseResponse, At, CoordinatorInv, Known, Current
  <2>2. attempts' \in [Effects -> Seq(Attempt)]
    <3>1. Close(e, co.att, "RESPONSE_LOST", "NONE", {}) /\ {} \in SUBSET Tokens
      BY <1>5 DEF LoseResponse
    <3> QED
      BY <2>1, <3>1, CloseStep
  <2>3. co' \in CoStates
    BY <1>5 DEF LoseResponse, Stopped, Idle, CoStates
  <2> QED
    BY <1>5, <2>2, <2>3 DEF LoseResponse, Types, TypeOK, CoStates, Units, Attempt
<1>6. CASE Block(e)
  BY <1>6 DEF Block, Stopped, Idle, Types, TypeOK, Units, Attempt
<1>7. CASE SettleMember(e)
  <2>1. co.att \in DOMAIN attempts[e] /\ co.unit \in Tokens
    BY <1>7, UnitFacts DEF SettleMember, Answer, At, CoordinatorInv, Known, Current
  <2>2. attempts[e][co.att].div \in SUBSET Tokens
    BY <1>0, <2>1 DEF Attempt
  <2>3. [effect[e] EXCEPT !.done = @ \cup {co.unit}, !.diverted = @ \cup attempts[e][co.att].div] \in Rows
    BY <1>0, <2>1, <2>2 DEF Rows
  <2>4. effect' \in [Effects -> Rows]
    BY <1>7, <2>3, RowStep DEF SettleMember
  <2>5. co' \in CoStates
    BY <1>0, <1>7 DEF SettleMember, CoStates
  <2> QED
    BY <1>7, <2>4, <2>5 DEF SettleMember, Types, TypeOK, CoStates, Rows, Owners, Units, Attempt
<1>8. CASE BeginCommit(e)
  <2>1. co.unit \in Units
    BY <1>8 DEF BeginCommit, Answer, At, CoordinatorInv, Known, Current
  <2>2. co' \in CoStates
    BY <1>0, <1>8 DEF BeginCommit, CoStates
  <2>3. attempts' \in [Effects -> Seq(Attempt)]
    BY <1>8, <2>1, BeginStep DEF BeginCommit
  <2>4. wire' \subseteq [effect : Effects, unit : Units, att : Nat \ {0}]
    BY <1>0, <1>8, <2>1, SMT DEF BeginCommit, Types, TypeOK
  <2> QED
    BY <1>8, <2>2, <2>3, <2>4 DEF BeginCommit, Types, TypeOK, CoStates, Units, Attempt
<1>9. CASE RecordCommit(e)
  <2>1. co.att \in DOMAIN attempts[e]
    BY <1>9 DEF RecordCommit, At, CoordinatorInv, Known, Current
  <2>2. attempts' \in [Effects -> Seq(Attempt)]
    BY <1>0, <1>9, <2>1, CloseStep DEF RecordCommit, CoStates
  <2>3. co' \in CoStates
    BY <1>0, <1>9 DEF RecordCommit, CoStates
  <2> QED
    BY <1>9, <2>2, <2>3 DEF RecordCommit, Types, TypeOK, CoStates, Units, Attempt
<1>10. CASE Finalize(e)
  <2>1. (IF perMember THEN {} ELSE attempts[e][co.att].div) \in SUBSET Tokens
    <3>1. CASE perMember
      BY <3>1
    <3>2. CASE ~perMember
      <4>1. co.att \in DOMAIN attempts[e]
        BY <1>10, <3>2 DEF Finalize, Answer, At, CoordinatorInv, Known, Current
      <4> QED
        BY <1>0, <3>2, <4>1 DEF Attempt
    <3> QED
      BY <3>1, <3>2
  <2>2. [effect[e] EXCEPT !.state = "FINALIZED", !.owner = 0, !.live = FALSE,
                    !.done = effect[e].members,
                    !.diverted = @ \cup (IF perMember THEN {} ELSE attempts[e][co.att].div)] \in Rows
    BY <1>0, <2>1 DEF Rows
  <2>3. effect' \in [Effects -> Rows]
    BY <1>10, <2>2, RowStep DEF Finalize
  <2>4. co' \in CoStates
    BY <1>0, <1>10 DEF Finalize, CoStates
  <2> QED
    BY <1>10, <2>3, <2>4 DEF Finalize, Types, TypeOK, CoStates, Rows, Owners, Units, Attempt
<1> QED
  BY <1>1, <1>2, <1>3, <1>4, <1>5, <1>6, <1>7, <1>8, <1>9, <1>10 DEF Execute

\* A landed request changes what one unit shows, if it is not refused.
LEMMA LandStep ==
    ASSUME Types, NEW r \in wire, NEW D \in Refusals(r), Land(r, D)
    PROVE  /\ r.effect \in Effects /\ r.unit \in Units /\ D \in SUBSET Tokens
           /\ target' \in [Effects -> [Units -> [held : Nat, late : BOOLEAN, div : SUBSET Tokens]]]
           /\ \A e \in Effects, u \in Units : <<e, u>> # <<r.effect, r.unit>> =>
                 target'[e][u] = target[e][u]
           /\ perMember /\ D # {} => target' = target
           /\ ~(perMember /\ D # {}) => target'[r.effect][r.unit] =
                 IF Awaited(r) THEN [target[r.effect][r.unit] EXCEPT
                                        !.held = target[r.effect][r.unit].held + 1, !.div = D]
                 ELSE [target[r.effect][r.unit] EXCEPT !.late = TRUE, !.div = D]
<1> DEFINE Shows == [held : Nat, late : BOOLEAN, div : SUBSET Tokens]
           s == target[r.effect][r.unit]
           n == IF Awaited(r) THEN [s EXCEPT !.held = s.held + 1, !.div = D]
                ELSE [s EXCEPT !.late = TRUE, !.div = D]
<1>1. r.effect \in Effects /\ r.unit \in Units
  BY DEF Types, TypeOK
<1>2. D \in SUBSET Tokens
  <2>1. CASE perMember
    BY <1>1, <2>1 DEF Refusals, Units
  <2>2. CASE ~perMember
    BY <1>1, <2>2, SMT DEF Refusals, Types, TypeOK
  <2> QED
    BY <2>1, <2>2
<1>3. target \in [Effects -> [Units -> Shows]] /\ s \in Shows
  BY <1>1, SMT DEF Types, TypeOK
<1>4. n \in Shows
  <2>1. s.held + 1 \in Nat
    BY <1>3, SMT
  <2>2. [s EXCEPT !.held = s.held + 1, !.div = D] \in Shows
    BY <1>2, <1>3, <2>1
  <2>3. [s EXCEPT !.late = TRUE, !.div = D] \in Shows
    BY <1>2, <1>3
  <2> QED
    BY <2>2, <2>3
<1>5. CASE perMember /\ D # {}
  BY <1>1, <1>2, <1>3, <1>5 DEF Land
<1>6. CASE ~(perMember /\ D # {})
  <2>1. target' = [target EXCEPT ![r.effect][r.unit] = n]
    BY <1>6 DEF Land
  <2> HIDE DEF n, Shows
  <2>2. target' \in [Effects -> [Units -> Shows]]
    BY <1>1, <1>3, <1>4, <2>1
  <2>3. target'[r.effect][r.unit] = n
    BY <1>1, <1>3, <2>1
  <2>4. \A e \in Effects, u \in Units : <<e, u>> # <<r.effect, r.unit>> =>
            target'[e][u] = target[e][u]
    BY <1>1, <1>3, <2>1
  <2> QED
    BY <1>1, <1>2, <1>6, <2>2, <2>3, <2>4 DEF n, Shows
<1> QED
  BY <1>5, <1>6

\* The other steps keep the types.
LEMMA ReserveTypes ==
    ASSUME Types, NEW T \in Groups[epoch], Reserve(T)
    PROVE  Types'
<1>1. T \in SUBSET Tokens /\ tail \in Nat /\ 0 \in Owners
  BY SkewAssumption, SMT DEF Types, TypeOK, Owners
<1> DEFINE fresh == Unbound(T)
           open == {e \in Effects : effect[e].members \cap T # {} /\ effect[e].state # "FINALIZED"}
           n == [NoEffect EXCEPT !.state = "RESERVED", !.members = fresh]
<1>2. open \in SUBSET Effects /\ fresh \in SUBSET Tokens
  BY <1>1 DEF Unbound
<1>3. n \in Rows
  BY <1>1, <1>2 DEF Rows, NoEffect
<1>4. CASE /\ co' = [Idle EXCEPT !.pc = "effect", !.asked = T, !.queue = open]
           /\ UNCHANGED <<effect, tail>>
  <2> HIDE DEF open
  <2>1. co' \in CoStates
    BY <1>1, <1>2, <1>4 DEF CoStates, Idle
  <2> QED
    BY <1>4, <2>1 DEF Reserve, Types, TypeOK, CoStates, Units, Attempt
<1>5. CASE /\ tail < MaxEffects /\ tail' = tail + 1
           /\ co' = [Idle EXCEPT !.pc = "effect", !.asked = T, !.queue = open \cup {tail + 1}]
           /\ Update(tail + 1, n)
  <2> HIDE DEF open, n
  <2>1. tail + 1 \in Effects /\ tail' \in 0 .. MaxEffects
    BY <1>5, SkewAssumption, SMT DEF Types, TypeOK, Effects
  <2>2. co' \in CoStates
    BY <1>1, <1>2, <1>5, <2>1 DEF CoStates, Idle
  <2>3. effect' \in [Effects -> Rows]
    BY <1>3, <1>5, <2>1, RowStep
  <2> QED
    BY <2>1, <2>2, <2>3 DEF Reserve, Types, TypeOK, CoStates, Rows, Owners, Units, Attempt
<1> QED
  BY <1>4, <1>5 DEF Reserve

\* Returning, a landing and a new leader keep the types.
LEMMA OtherTypes ==
    ASSUME Types,
           \/ Return \/ NewLeader \/ UNCHANGED vars
           \/ \E r \in wire : \E D \in Refusals(r) : Land(r, D)
    PROVE  Types'
<1>0. Idle \in CoStates /\ co \in CoStates
  BY DEF Idle, CoStates, Types, TypeOK
<1>1. CASE Return \/ UNCHANGED vars
  <2>1. co' \in CoStates /\ UNCHANGED <<perMember, effect, tail, attempts, epoch, wire, target>>
    BY <1>0, <1>1 DEF Return, vars
  <2> QED
    BY <2>1 DEF CoStates, Types, TypeOK, Units, Attempt
<1>2. CASE NewLeader
  <2>1. /\ co' \in CoStates /\ epoch' \in 1 .. MaxEpoch
        /\ UNCHANGED <<perMember, effect, tail, attempts, wire, target>>
    BY <1>0, <1>2, SkewAssumption, SMT DEF NewLeader, Types, TypeOK
  <2> QED
    BY <2>1 DEF CoStates, Types, TypeOK, Units, Attempt
<1>3. CASE \E r \in wire : \E D \in Refusals(r) : Land(r, D)
  <2>1. PICK r \in wire : \E D \in Refusals(r) : Land(r, D)
    BY <1>3
  <2>2. PICK D \in Refusals(r) : Land(r, D)
    BY <2>1
  <2>3. /\ target' \in [Effects -> [Units -> [held : Nat, late : BOOLEAN, div : SUBSET Tokens]]]
        /\ D \in SUBSET Tokens
    BY <2>2, LandStep
  <2>4. co' \in CoStates
    BY <2>2, <2>3 DEF Land, Types, TypeOK, CoStates
  <2>5. /\ wire' \subseteq wire
        /\ UNCHANGED <<perMember, effect, tail, attempts, epoch>>
    BY <2>2 DEF Land
  <2> QED
    BY <2>3, <2>4, <2>5 DEF Types, TypeOK, CoStates, Units, Attempt
<1> QED
  BY <1>1, <1>2, <1>3

--------------------------------------------------------------------------------
(* The stream. *)

\* An update of a reserved effect's row that keeps its members.
LEMMA StreamRow ==
    ASSUME Types, StreamInv, UNCHANGED <<perMember, tail, wire, target>>,
           NEW e \in Effects, NEW r \in Rows, Update(e, r),
           r.members = effect[e].members, effect[e].state # "NONE", r.state # "NONE",
           r.state = "RESERVED" => r.done = {},
           r.state = "IN_FLIGHT" => r.publishes,
           r.state \in {"RESERVED", "PREPARED"} => effect[e].state \in {"RESERVED", "PREPARED"}
    PROVE  StreamInv'
<1>1. effect'[e] = r /\ \A f \in Effects : f # e => effect'[f] = effect[f]
  BY RowStep
<1>2. Units' = Units
  BY DEF Units
<1>3. \A f \in Effects : effect'[f].members = effect[f].members
  BY <1>1
<1>4. \A f \in Effects : effect'[f].state = "NONE" <=> tail' < f
  BY <1>1, SMT DEF StreamInv
<1>5. \A f, g \in Effects : f # g => effect'[f].members \cap effect'[g].members = {}
  BY <1>3, SMT DEF StreamInv
<1>6. ASSUME NEW f \in Effects
      PROVE  /\ effect'[f].state = "NONE" => effect'[f].members = {}
             /\ effect'[f].state \in {"NONE", "RESERVED"} => effect'[f].done = {}
             /\ effect'[f].state = "IN_FLIGHT" => effect'[f].publishes
             /\ effect'[f].state \in {"NONE", "RESERVED", "PREPARED"} =>
                   /\ \A u \in Units' : target'[f][u] = Untouched
                   /\ \A q \in wire' : q.effect # f
  <2>1. CASE f = e
    BY <1>1, <1>2, <2>1 DEF StreamInv
  <2>2. CASE f # e
    BY <1>1, <1>2, <2>2, SMT DEF StreamInv
  <2> QED
    BY <2>1, <2>2
<1> QED
  BY <1>4, <1>5, <1>6 DEF StreamInv, Untouched

\* A step that does not touch rows, requests or target.
LEMMA StreamFrame ==
    ASSUME StreamInv, UNCHANGED <<perMember, effect, tail, target>>, wire' \subseteq wire
    PROVE  StreamInv'
BY SMT DEF StreamInv, Units, Untouched

\* A new effect takes unbound tokens only.
LEMMA StreamReserve ==
    ASSUME Types, StreamInv, NEW T \in Groups[epoch], Reserve(T)
    PROVE  StreamInv'
<1> DEFINE n == [NoEffect EXCEPT !.state = "RESERVED", !.members = Unbound(T)]
<1>1. CASE UNCHANGED <<effect, tail>>
  BY <1>1, StreamFrame DEF Reserve
<1>2. CASE tail < MaxEffects /\ tail' = tail + 1 /\ Update(tail + 1, n)
  <2>1. tail + 1 \in Effects /\ tail \in Nat /\ MaxEffects \in Nat
    BY <1>2, SkewAssumption, SMT DEF Types, TypeOK, Effects
  <2>2. /\ n.state = "RESERVED" /\ n.members = Unbound(T) /\ n.done = {}
    BY DEF NoEffect
  <2>3. effect'[tail + 1] = n /\ \A f \in Effects : f # tail + 1 => effect'[f] = effect[f]
    BY <1>2, <2>1 DEF Types, TypeOK, Update
  <2>4. Units' = Units /\ target' = target /\ wire' = wire
    BY DEF Reserve, Units
  <2> HIDE DEF n
  <2>5. \A f \in Effects : effect'[f].state = "NONE" <=> tail' < f
    BY <1>2, <2>1, <2>2, <2>3, SMT DEF StreamInv, Effects
  <2>6. \A f, g \in Effects : f # g => effect'[f].members \cap effect'[g].members = {}
    BY <2>2, <2>3, SMT DEF StreamInv, Unbound
  <2>7. effect[tail + 1].state = "NONE"
    BY <2>1, SMT DEF StreamInv
  <2>8. ASSUME NEW f \in Effects
        PROVE  /\ effect'[f].state = "NONE" => effect'[f].members = {}
               /\ effect'[f].state \in {"NONE", "RESERVED"} => effect'[f].done = {}
               /\ effect'[f].state = "IN_FLIGHT" => effect'[f].publishes
               /\ effect'[f].state \in {"NONE", "RESERVED", "PREPARED"} =>
                     /\ \A u \in Units' : target'[f][u] = Untouched
                     /\ \A q \in wire' : q.effect # f
    <3>1. CASE f = tail + 1
      BY <2>2, <2>3, <2>4, <2>7, <3>1 DEF StreamInv
    <3>2. CASE f # tail + 1
      BY <2>3, <2>4, <3>2 DEF StreamInv
    <3> QED
      BY <3>1, <3>2
  <2> QED
    BY <2>5, <2>6, <2>8 DEF StreamInv, Untouched
<1> QED
  BY <1>1, <1>2 DEF Reserve

\* Preparing, leasing and expiring keep the stream.
LEMMA StreamPrepare ==
    ASSUME Types, StreamInv, NEW e \in Effects, Prepare(e) \/ Expire(e)
    PROVE  StreamInv'
<1>0. /\ effect[e] \in Rows /\ epoch \in Owners /\ 0 \in Owners /\ effect[e].gen + 1 \in Nat
  BY SkewAssumption, SMT DEF Types, TypeOK, Rows, Owners
<1>f. /\ effect[e].state \in {"NONE", "RESERVED"} => effect[e].done = {}
      /\ effect[e].state = "IN_FLIGHT" => effect[e].publishes
  BY DEF StreamInv
<1>1. CASE Refuse(e)
  BY <1>1, StreamFrame DEF Refuse
<1>2. CASE ClaimPreparation(e)
  <2> DEFINE r == [effect[e] EXCEPT !.owner = epoch, !.gen = @ + 1, !.live = TRUE]
  <2>1. r \in Rows /\ r.state = effect[e].state /\ r.members = effect[e].members
        /\ r.done = effect[e].done
    BY <1>0 DEF Rows
  <2>2. /\ UNCHANGED <<perMember, tail, wire, target>> /\ Update(e, r)
        /\ effect[e].state = "RESERVED"
    BY <1>2 DEF ClaimPreparation
  <2> HIDE DEF r
  <2> QED
    BY <1>f, <2>1, <2>2, StreamRow
<1>3. CASE ReviveClaim(e)
  <2> DEFINE r == [effect[e] EXCEPT !.live = TRUE]
  <2>1. r \in Rows /\ r.state = effect[e].state /\ r.members = effect[e].members
        /\ r.done = effect[e].done
    BY <1>0 DEF Rows
  <2>2. /\ UNCHANGED <<perMember, tail, wire, target>> /\ Update(e, r)
        /\ effect[e].state = "RESERVED"
    BY <1>3 DEF ReviveClaim
  <2> HIDE DEF r
  <2> QED
    BY <1>f, <2>1, <2>2, StreamRow
<1>4. CASE \E D \in SUBSET effect[e].members, publishes \in BOOLEAN : CompletePlan(e, D, publishes)
  <2>1. PICK D \in SUBSET effect[e].members, publishes \in BOOLEAN : CompletePlan(e, D, publishes)
    BY <1>4
  <2> DEFINE r == [effect[e] EXCEPT !.state = "PREPARED", !.owner = 0, !.live = FALSE,
                                    !.publishes = publishes, !.planned = D, !.diverted = D]
  <2>2. D \in SUBSET Tokens
    BY <1>0, <2>1 DEF Rows
  <2>3. r \in Rows /\ r.state = "PREPARED" /\ r.members = effect[e].members
    BY <1>0, <2>2 DEF Rows
  <2>4. /\ UNCHANGED <<perMember, tail, wire, target>> /\ Update(e, r)
        /\ effect[e].state = "RESERVED"
    BY <2>1 DEF CompletePlan
  <2> HIDE DEF r
  <2> QED
    BY <2>3, <2>4, StreamRow
<1>5. CASE FinalizeNoPublication(e)
  <2> DEFINE r == [effect[e] EXCEPT !.state = "FINALIZED", !.done = effect[e].members]
  <2>1. r \in Rows /\ r.state = "FINALIZED" /\ r.members = effect[e].members
    BY <1>0 DEF Rows
  <2>2. /\ UNCHANGED <<perMember, tail, wire, target>> /\ Update(e, r)
        /\ effect[e].state = "PREPARED"
    BY <1>5 DEF FinalizeNoPublication
  <2> HIDE DEF r
  <2> QED
    BY <2>1, <2>2, StreamRow
<1>6. CASE Lease(e)
  <2> DEFINE r == [effect[e] EXCEPT !.state = "IN_FLIGHT", !.owner = epoch, !.gen = @ + 1,
                                    !.live = TRUE]
  <2>1. r \in Rows /\ r.state = "IN_FLIGHT" /\ r.members = effect[e].members
        /\ r.publishes = effect[e].publishes
    BY <1>0 DEF Rows
  <2>2. /\ UNCHANGED <<perMember, tail, wire, target>> /\ Update(e, r)
        /\ effect[e].state # "NONE" /\ effect[e].publishes
    BY <1>6 DEF Lease
  <2> HIDE DEF r
  <2> QED
    BY <2>1, <2>2, StreamRow
<1>7. CASE Expire(e)
  <2> DEFINE r == [effect[e] EXCEPT !.live = FALSE]
  <2>1. r \in Rows /\ r.state = effect[e].state /\ r.members = effect[e].members
        /\ r.done = effect[e].done /\ r.publishes = effect[e].publishes
    BY <1>0 DEF Rows
  <2>2. UNCHANGED <<perMember, tail, wire, target>> /\ Update(e, r)
    BY <1>7 DEF Expire
  <2>3. CASE effect[e].state # "NONE"
    <3> HIDE DEF r
    <3> QED
      BY <1>f, <2>1, <2>2, <2>3, StreamRow
  <2>4. CASE effect[e].state = "NONE"
    <3>1. effect'[e] = r /\ \A f \in Effects : f # e => effect'[f] = effect[f]
      BY <2>1, <2>2, RowStep
    <3>2. Units' = Units /\ tail' = tail /\ wire' = wire /\ target' = target
      BY <2>2 DEF Units
    <3> HIDE DEF r
    <3>3. \A f \in Effects : /\ effect'[f].state = effect[f].state
                             /\ effect'[f].members = effect[f].members
                             /\ effect'[f].done = effect[f].done
                             /\ effect'[f].publishes = effect[f].publishes
      BY <2>1, <3>1
    <3> QED
      BY <3>2, <3>3, SMT DEF StreamInv, Untouched
  <2> QED
    BY <2>3, <2>4
<1> QED
  BY <1>1, <1>2, <1>3, <1>4, <1>5, <1>6, <1>7 DEF Prepare

\* So does executing: only a leased effect sends requests.
LEMMA StreamExecute ==
    ASSUME Types, StreamInv, CoordinatorInv, Types', NEW e \in Effects, Execute(e)
    PROVE  StreamInv'
<1>0. effect[e] \in Rows
  BY DEF Types, TypeOK, Rows, Owners
<1>1. CASE \/ CloseAbandoned(e) \/ LoseResponse(e) \/ Block(e) \/ RecordCommit(e)
           \/ \E u \in Units : Reuse(e, u) \/ BeginReconcile(e, u)
           \/ \E known \in BOOLEAN : Reconcile(e, known)
  <2>1. UNCHANGED <<perMember, effect, tail, target>> /\ wire' \subseteq wire
    BY <1>1 DEF CloseAbandoned, LoseResponse, Block, RecordCommit, Reuse, BeginReconcile, Reconcile
  <2> QED
    BY <2>1, StreamFrame
<1>2. CASE SettleMember(e)
  <2> DEFINE r == [effect[e] EXCEPT !.done = @ \cup {co.unit},
                                    !.diverted = @ \cup attempts[e][co.att].div]
  <2>1. UNCHANGED <<perMember, tail, wire, target>> /\ Update(e, r)
    BY <1>2 DEF SettleMember
  <2>2. effect[e].state = "IN_FLIGHT" /\ effect[e].publishes
    BY <1>2 DEF SettleMember, Answer, HoldsLease, StreamInv
  <2>3. r.state = effect[e].state /\ r.members = effect[e].members /\ r.publishes = effect[e].publishes
    BY <1>0 DEF Rows
  <2> HIDE DEF r
  <2>4. effect'[e] = r /\ effect' \in [Effects -> Rows]
    BY <2>1 DEF Update, Types, TypeOK, Rows, Owners
  <2>5. r \in Rows
    BY <2>4
  <2> QED
    BY <2>1, <2>2, <2>3, <2>5, StreamRow
<1>3. CASE BeginCommit(e)
  <2>1. effect[e].state = "IN_FLIGHT" /\ UNCHANGED <<perMember, effect, tail, target>>
    BY <1>3 DEF BeginCommit, MayBegin
  <2>2. \A q \in wire' : q \in wire \/ q.effect = e
    BY <1>3, SMT DEF BeginCommit
  <2> QED
    BY <2>1, <2>2, SMT DEF StreamInv, Units, Untouched
<1>4. CASE Finalize(e)
  <2> DEFINE r == [effect[e] EXCEPT !.state = "FINALIZED", !.owner = 0, !.live = FALSE,
                    !.done = effect[e].members,
                    !.diverted = @ \cup (IF perMember THEN {} ELSE attempts[e][co.att].div)]
  <2>1. UNCHANGED <<perMember, tail, wire, target>> /\ Update(e, r)
    BY <1>4 DEF Finalize
  <2>2. effect[e].state = "IN_FLIGHT"
    BY <1>4 DEF Finalize, HoldsLease
  <2>3. r.state = "FINALIZED" /\ r.members = effect[e].members
    BY <1>0 DEF Rows
  <2> HIDE DEF r
  <2>4. effect'[e] = r /\ effect' \in [Effects -> Rows]
    BY <2>1 DEF Update, Types, TypeOK, Rows, Owners
  <2>5. r \in Rows
    BY <2>4
  <2> QED
    BY <2>1, <2>2, <2>3, <2>5, StreamRow
<1> QED
  BY <1>1, <1>2, <1>3, <1>4 DEF Execute

\* A request lands on an effect that was leased.
LEMMA StreamLand ==
    ASSUME Types, StreamInv, NEW r \in wire, NEW D \in Refusals(r), Land(r, D)
    PROVE  StreamInv'
<1>1. /\ r.effect \in Effects /\ r.unit \in Units
      /\ \A e \in Effects, u \in Units : <<e, u>> # <<r.effect, r.unit>> =>
            target'[e][u] = target[e][u]
  BY LandStep
<1>2. effect[r.effect].state \notin {"NONE", "RESERVED", "PREPARED"}
  BY <1>1 DEF StreamInv
<1>3. Units' = Units /\ effect' = effect /\ tail' = tail /\ wire' \subseteq wire
  BY DEF Land, Units
<1>4. \A e \in Effects : e # r.effect => \A u \in Units : target'[e][u] = target[e][u]
  BY <1>1
<1> QED
  BY <1>2, <1>3, <1>4, SMT DEF StreamInv, Untouched

--------------------------------------------------------------------------------
(* The coordinator. *)

\* It works on one effect at a time.
LEMMA OneCurrent ==
    ASSUME NEW e \in Effects, NEW f \in Effects, Current(e), Current(f)
    PROVE  e = f
BY SkewAssumption, SMT DEF Current, Effects

\* Nothing is known between two effects.
LEMMA BetweenEffects ==
    ASSUME co'.pc \in {"idle", "effect", "claimed", "stopped"}
    PROVE  CoordinatorInv'
BY DEF CoordinatorInv, Known, Leasing

\* A step of the coordinator on its current effect.
LEMMA KnownStep ==
    ASSUME NEW e \in Effects, Current(e), co'.queue = co.queue, Known(e)'
    PROVE  CoordinatorInv'
<1>1. \A f \in Effects : Current(f)' => f = e
  BY SkewAssumption, SMT DEF Current, Effects
<1> QED
  BY <1>1 DEF CoordinatorInv

\* Steps that end an effect, or do not start executing it.
LEMMA CoordinatorIdle ==
    ASSUME CoordinatorInv, Types, Types',
           \/ \E T \in Groups[epoch] : Reserve(T)
           \/ Return \/ NewLeader
           \/ \E e \in Effects :
                 \/ Refuse(e) \/ ClaimPreparation(e) \/ ReviveClaim(e) \/ FinalizeNoPublication(e)
                 \/ \E D \in SUBSET effect[e].members, publishes \in BOOLEAN :
                       CompletePlan(e, D, publishes)
                 \/ LoseResponse(e) \/ Block(e) \/ Finalize(e)
    PROVE  CoordinatorInv'
<1>0. co \in CoStates
  BY DEF CoStates, Types, TypeOK
<1>1. co'.pc \in {"idle", "effect", "claimed", "stopped"}
  <2>1. CASE Return \/ NewLeader
    BY <2>1, SMT DEF Return, NewLeader, Idle
  <2>3. CASE \E T \in Groups[epoch] : Reserve(T)
    <3>1. PICK T \in Groups[epoch] : Reserve(T)
      BY <2>3
    <3>2. PICK q : co' = [Idle EXCEPT !.pc = "effect", !.asked = T, !.queue = q]
      BY <3>1 DEF Reserve
    <3> QED
      BY <3>2 DEF Idle
  <2>2. ASSUME NEW e \in Effects,
                 \/ Refuse(e) \/ ClaimPreparation(e) \/ ReviveClaim(e) \/ FinalizeNoPublication(e)
                 \/ \E D \in SUBSET effect[e].members, publishes \in BOOLEAN :
                       CompletePlan(e, D, publishes)
                 \/ LoseResponse(e) \/ Block(e) \/ Finalize(e)
        PROVE  co'.pc \in {"idle", "effect", "claimed", "stopped"}
    BY <1>0, <2>2 DEF Refuse, ClaimPreparation, ReviveClaim, FinalizeNoPublication, CompletePlan,
                LoseResponse, Block, Finalize, Stopped, Idle, At, CoStates
  <2> QED
    BY <2>1, <2>2, <2>3
<1> QED
  BY <1>1, BetweenEffects

\* Leases run out under the coordinator's hands; it finds out when it next writes.
LEMMA CoordinatorExpire ==
    ASSUME Types, CoordinatorInv, NEW f \in Effects, Expire(f)
    PROVE  CoordinatorInv'
<1>1. \A e \in Effects : effect'[e].state = effect[e].state
  BY DEF Expire, Update, Types, TypeOK
<1>2. co' = co /\ attempts' = attempts /\ Units' = Units
  BY DEF Expire, Units
<1> QED
  BY <1>1, <1>2, SMT DEF CoordinatorInv, Known, Current, AllLost, CommitsOf

\* The steps of the coordinator, one by one: a lease is taken,
LEMMA CoordinatorLease ==
    ASSUME Types, NEW e \in Effects, Lease(e)
    PROVE  CoordinatorInv'
<1>1. effect'[e].state = "IN_FLIGHT"
  BY DEF Lease, Update, Types, TypeOK
<1>2. co'.pc = "leased" /\ co'.queue = co.queue /\ Current(e)
  BY DEF Lease, Types, TypeOK, At, Current
<1>3. Known(e)'
  BY <1>1, <1>2 DEF Known
<1> QED
  BY <1>2, <1>3, KnownStep

\* attempts left open are closed,
LEMMA CoordinatorClose ==
    ASSUME Types, NEW e \in Effects, CloseAbandoned(e)
    PROVE  CoordinatorInv'
<1>1. effect'[e].state = "IN_FLIGHT"
  BY DEF CloseAbandoned, HoldsLease
<1>2. co'.pc = "unit" /\ co'.queue = co.queue /\ Current(e)
  BY DEF CloseAbandoned, Types, TypeOK, At, Current
<1>3. \A i \in DOMAIN attempts'[e] : attempts'[e][i].st # "INTENT"
  BY AbandonStep, SMT
<1>4. Known(e)'
  BY <1>1, <1>2, <1>3 DEF Known
<1> QED
  BY <1>2, <1>4, KnownStep

\* a recorded answer is used again,
LEMMA CoordinatorReuse ==
    ASSUME Types, CoordinatorInv, AttemptsInv, NEW e \in Effects, NEW u \in Units, Reuse(e, u)
    PROVE  CoordinatorInv'
<1>1. PICK i \in Evidence(e, u) : co' = [co EXCEPT !.pc = "answer", !.unit = u, !.att = i]
  BY DEF Reuse
<1>2. /\ co'.pc = "answer" /\ co'.unit = u /\ co'.att = i /\ co'.queue = co.queue
      /\ Current(e) /\ co.pc = "unit"
  BY <1>1 DEF Types, TypeOK, Reuse, AtUnit, At, Current
<1>3. /\ i \in DOMAIN attempts[e] /\ attempts[e][i].unit = u /\ attempts[e][i].st = "RETURNED"
      /\ attempts[e][i].act = "COMMIT" \/ Of(e, u, "COMMIT", "RETURNED") = {}
  BY <1>1 DEF Evidence, FreshReconcile, Of
<1>4. attempts' = attempts /\ effect' = effect /\ Units' = Units
  BY DEF Reuse, Units
<1>5. /\ effect[e].state = "IN_FLIGHT"
      /\ \A j \in DOMAIN attempts[e] : attempts[e][j].act = "COMMIT" => attempts[e][j].st # "INTENT"
  BY <1>2 DEF CoordinatorInv, Known, Leasing
<1>6. ASSUME attempts[e][i].res = "NOT_APPLIED" PROVE AllLost(e, u)
  <2>1. attempts[e][i].act # "COMMIT"
    BY <1>3, <1>6 DEF AttemptsInv, Truthful
  <2>2. \A j \in DOMAIN attempts[e] : attempts[e][j] \in Attempt
    BY SMT DEF Types, TypeOK
  <2> QED
    BY <1>3, <1>5, <2>1, <2>2 DEF AllLost, CommitsOf, Of, Attempt
<1>7. Known(e)'
  BY <1>2, <1>3, <1>4, <1>5, <1>6, SMT DEF Known, AllLost, CommitsOf
<1> QED
  BY <1>2, <1>7, KnownStep

\* a reconciliation is begun,
LEMMA CoordinatorReconciles ==
    ASSUME Types, CoordinatorInv, NEW e \in Effects, NEW u \in Units, BeginReconcile(e, u)
    PROVE  CoordinatorInv'
<1> DEFINE n == Len(attempts[e]) + 1
<1>1. /\ co'.pc = "reconciling" /\ co'.unit = u /\ co'.att = n
      /\ co'.queue = co.queue /\ Current(e) /\ co.pc = "unit"
  BY DEF Types, TypeOK, BeginReconcile, AtUnit, At, Current
<1>2. /\ Len(attempts[e]) \in Nat /\ Len(attempts'[e]) = n
      /\ DOMAIN attempts[e] = 1 .. Len(attempts[e]) /\ DOMAIN attempts'[e] = 1 .. n
      /\ \A i \in DOMAIN attempts[e] : attempts'[e][i] = attempts[e][i]
      /\ attempts'[e][n].unit = u /\ attempts'[e][n].act = "RECONCILE" /\ attempts'[e][n].st = "INTENT"
  BY BeginStep DEF BeginReconcile
<1>3. /\ effect[e].state = "IN_FLIGHT"
      /\ \A j \in DOMAIN attempts[e] : attempts[e][j].act = "COMMIT" => attempts[e][j].st # "INTENT"
  BY <1>1 DEF CoordinatorInv, Known, Leasing
<1>4. AllLost(e, u)
  <2>1. \A j \in DOMAIN attempts[e] : attempts[e][j] \in Attempt
    BY SMT DEF Types, TypeOK
  <2>2. Of(e, u, "COMMIT", "RETURNED") = {}
    BY DEF BeginReconcile, Evidence
  <2> QED
    BY <1>3, <2>1, <2>2 DEF AllLost, CommitsOf, Of, Attempt
<1>5. effect' = effect /\ Units' = Units
  BY DEF BeginReconcile, Units
<1> HIDE DEF n
<1>6. \A i \in DOMAIN attempts'[e] : i \in DOMAIN attempts[e] \/ i = n
  BY <1>2, SMT DEF n
<1>7. AllLost(e, u)'
  BY <1>2, <1>4, <1>6 DEF AllLost, CommitsOf
<1>8. n \in DOMAIN attempts'[e]
  BY <1>2, SMT DEF n
<1>9. Known(e)'
  BY <1>1, <1>2, <1>3, <1>5, <1>6, <1>7, <1>8 DEF Known
<1> QED
  BY <1>1, <1>9, KnownStep

\* A closed attempt is no commit of its unit, or the only commit left open.
LEMMA CoordinatorAnswered ==
    ASSUME Types, CoordinatorInv, NEW e \in Effects, NEW known \in BOOLEAN, Reconcile(e, known)
    PROVE  CoordinatorInv'
<1> DEFINE a == co.att
<1>1. /\ co'.pc = "answer" /\ co'.unit = co.unit /\ co'.att = a
      /\ co'.queue = co.queue /\ Current(e) /\ co.pc = "reconciling"
  BY DEF Types, TypeOK, Reconcile, At, Current
<1>2. Known(e)
  BY <1>1 DEF CoordinatorInv
<1>3. PICK res \in {"NONE", "COMMITTED", "APPLIED", "NOT_APPLIED", "UNKNOWN"}, D \in SUBSET Tokens :
          Close(e, a, "RETURNED", res, D)
  <2>1. target[e][co.unit].div \in SUBSET Tokens
    BY <1>1, <1>2, SMT DEF Types, TypeOK, Known
  <2> QED
    BY <2>1 DEF Reconcile
<1>4. a \in DOMAIN attempts[e] /\ attempts[e][a] \in Attempt
  BY <1>1, <1>2, SMT DEF Known, Types, TypeOK
<1>5. /\ DOMAIN attempts'[e] = DOMAIN attempts[e]
      /\ \A j \in DOMAIN attempts[e] : j # a => attempts'[e][j] = attempts[e][j]
      /\ attempts'[e][a].unit = attempts[e][a].unit /\ attempts'[e][a].act = attempts[e][a].act
      /\ attempts'[e][a].st = "RETURNED"
  BY <1>3, <1>4, CloseStep, SMT
<1>7. effect' = effect /\ Units' = Units
  BY DEF Reconcile, Units
<1> HIDE DEF a
<1>8. AllLost(e, co.unit)'
  BY <1>1, <1>2, <1>5, SMT DEF AllLost, CommitsOf, Known, a
<1>9. Known(e)'
  BY <1>1, <1>2, <1>4, <1>5, <1>7, <1>8, SMT DEF Known, Leasing, a
<1> QED
  BY <1>1, <1>9, KnownStep

\* a member is settled,
LEMMA CoordinatorSettles ==
    ASSUME Types, CoordinatorInv, NEW e \in Effects, SettleMember(e)
    PROVE  CoordinatorInv'
<1>1. co'.pc = "unit" /\ co'.queue = co.queue /\ Current(e) /\ co.pc = "answer"
  BY DEF Types, TypeOK, SettleMember, Answer, At, Current
<1>2. Known(e)
  BY <1>1 DEF CoordinatorInv
<1>3. effect'[e].state = "IN_FLIGHT" /\ attempts' = attempts
  BY <1>1, <1>2 DEF SettleMember, Update, Types, TypeOK, Known, Leasing
<1>4. Known(e)'
  BY <1>1, <1>2, <1>3 DEF Known
<1> QED
  BY <1>1, <1>4, KnownStep

\* a commit is begun,
LEMMA CoordinatorCommits ==
    ASSUME Types, CoordinatorInv, NEW e \in Effects, BeginCommit(e)
    PROVE  CoordinatorInv'
<1> DEFINE n == Len(attempts[e]) + 1
<1>1. /\ co'.pc = "committing" /\ co'.unit = co.unit /\ co'.att = n
      /\ co'.queue = co.queue /\ Current(e) /\ co.pc = "answer"
  BY DEF Types, TypeOK, BeginCommit, Answer, At, Current
<1>2. Known(e)
  BY <1>1 DEF CoordinatorInv
<1>3. co.unit \in Units
  BY <1>1, <1>2 DEF Known
<1>4. /\ Len(attempts[e]) \in Nat /\ Len(attempts'[e]) = n /\ DOMAIN attempts'[e] = 1 .. n
      /\ DOMAIN attempts[e] = 1 .. Len(attempts[e])
      /\ \A i \in DOMAIN attempts[e] : attempts'[e][i] = attempts[e][i]
      /\ attempts'[e][n].unit = co.unit /\ attempts'[e][n].act = "COMMIT"
      /\ attempts'[e][n].st = "INTENT"
  BY <1>3, BeginStep DEF BeginCommit
<1>5. n \in DOMAIN attempts'[e] /\ \A i \in DOMAIN attempts'[e] : i = n \/ i \in DOMAIN attempts[e]
  BY <1>4, SMT
<1>6. effect' = effect /\ Units' = Units
  BY DEF BeginCommit, Units
<1> HIDE DEF n
<1>7. Known(e)'
  BY <1>1, <1>2, <1>3, <1>4, <1>5, <1>6 DEF Known, Leasing
<1> QED
  BY <1>1, <1>7, KnownStep

\* it lands, awaited or not,
LEMMA CoordinatorLand ==
    ASSUME Types, CoordinatorInv, NEW r \in wire, NEW D \in Refusals(r), Land(r, D)
    PROVE  CoordinatorInv'
<1>0. attempts' = attempts /\ effect' = effect /\ Units' = Units
  BY DEF Land, Units
<1>1. CASE Awaited(r)
  <2>1. r.effect \in Effects
    BY LandStep
  <2>2. /\ co'.pc = "committed" /\ co'.unit = co.unit /\ co'.att = co.att
        /\ co'.queue = co.queue /\ Current(r.effect) /\ co.pc = "committing"
    BY <1>1 DEF Types, TypeOK, Land, Awaited, At, Current
  <2>3. Known(r.effect)
    BY <2>1, <2>2 DEF CoordinatorInv
  <2>4. Known(r.effect)'
    BY <1>0, <2>2, <2>3 DEF Known, Leasing
  <2> QED
    BY <2>1, <2>2, <2>4, KnownStep
<1>2. CASE ~Awaited(r)
  <2>1. co' = co
    BY <1>2 DEF Land
  <2> QED
    BY <1>0, <2>1, SMT DEF CoordinatorInv, Known, Current, AllLost, CommitsOf
<1> QED
  BY <1>1, <1>2

\* and its answer is recorded.
LEMMA CoordinatorRecords ==
    ASSUME Types, CoordinatorInv, NEW e \in Effects, RecordCommit(e)
    PROVE  CoordinatorInv'
<1> DEFINE a == co.att
<1>1. /\ co'.pc = "answer" /\ co'.unit = co.unit /\ co'.att = a
      /\ co'.queue = co.queue /\ Current(e) /\ co.pc = "committed"
  BY DEF Types, TypeOK, RecordCommit, At, Current
<1>2. Known(e)
  BY <1>1 DEF CoordinatorInv
<1>3. a \in DOMAIN attempts[e] /\ attempts[e][a] \in Attempt /\ co.div \in SUBSET Tokens
  BY <1>1, <1>2, SMT DEF Known, Types, TypeOK
<1>4. Close(e, a, "RETURNED", "COMMITTED", co.div)
  BY DEF RecordCommit
<1>5. /\ DOMAIN attempts'[e] = DOMAIN attempts[e]
      /\ \A j \in DOMAIN attempts[e] : j # a => attempts'[e][j] = attempts[e][j]
      /\ attempts'[e][a].unit = attempts[e][a].unit /\ attempts'[e][a].st = "RETURNED"
      /\ attempts'[e][a].res = "COMMITTED"
  BY <1>3, <1>4, CloseStep, SMT
<1>7. effect' = effect /\ Units' = Units
  BY DEF RecordCommit, Units
<1> HIDE DEF a
<1>8. \A i \in DOMAIN attempts[e] : attempts'[e][i].act = "COMMIT" => attempts'[e][i].st # "INTENT"
  BY <1>1, <1>2, <1>5 DEF a, Known
<1>9. Known(e)'
  BY <1>1, <1>2, <1>3, <1>5, <1>7, <1>8 DEF Known, Leasing, a
<1> QED
  BY <1>1, <1>9, KnownStep

--------------------------------------------------------------------------------
(* Recorded results and the target. *)

\* What the target has applied it goes on showing; a member adapter keeps no
\* refused row, and a group is applied once with the rows it refused then.
LEMMA AppliedStays ==
    ASSUME Types, TargetInv, NEW r \in wire, NEW D \in Refusals(r), Land(r, D),
           NEW e \in Effects, NEW u \in Units
    PROVE  /\ Applied(e, u) => Applied(e, u)'
           /\ ~perMember /\ Applied(e, u) => target'[e][u].div = target[e][u].div
           /\ perMember => target'[e][u].div = {}
<1>0. perMember' = perMember
  BY DEF Land
<1>1. CASE <<e, u>> # <<r.effect, r.unit>>
  <2>1. \A f \in Effects, v \in Units : <<f, v>> # <<r.effect, r.unit>> => target'[f][v] = target[f][v]
    BY LandStep
  <2>2. target'[e][u] = target[e][u]
    BY <1>1, <2>1
  <2> QED
    BY <2>2 DEF Applied, TargetInv
<1>2. CASE perMember /\ D # {}
  <2>1. target' = target
    BY <1>2, LandStep
  <2> QED
    BY <2>1 DEF Applied, TargetInv
<1>3. CASE e = r.effect /\ u = r.unit /\ ~(perMember /\ D # {})
  <2>1. target[e][u] \in [held : Nat, late : BOOLEAN, div : SUBSET Tokens]
    BY SMT DEF Types, TypeOK
  <2>2. target'[e][u] = IF Awaited(r) THEN [target[e][u] EXCEPT !.held = target[e][u].held + 1, !.div = D]
                        ELSE [target[e][u] EXCEPT !.late = TRUE, !.div = D]
    BY <1>3, LandStep
  <2>3. target'[e][u].div = D /\ Applied(e, u)'
    BY <2>1, <2>2, SMT DEF Applied
  <2>4. ~perMember /\ Applied(e, u) => D = target[e][u].div
    BY <1>3 DEF Refusals
  <2> QED
    BY <1>3, <2>3, <2>4
<1> QED
  BY <1>1, <1>2, <1>3

\* A request that the target did not refuse is applied.
LEMMA LandShows ==
    ASSUME Types, TargetInv, NEW r \in wire, NEW D \in Refusals(r), Land(r, D)
    PROVE  Shown(r.effect, r.unit, D)'
<1>0. perMember' = perMember
  BY DEF Land
<1>a. r.effect \in Effects /\ r.unit \in Units
  BY LandStep
<1>1. target[r.effect][r.unit] \in [held : Nat, late : BOOLEAN, div : SUBSET Tokens]
  BY <1>a, SMT DEF Types, TypeOK
<1>2. CASE perMember /\ D # {}
  BY <1>0, <1>2 DEF Refusals, Shown
<1>3. CASE ~(perMember /\ D # {})
  <2>1. target'[r.effect][r.unit] =
            IF Awaited(r) THEN [target[r.effect][r.unit] EXCEPT
                                   !.held = target[r.effect][r.unit].held + 1, !.div = D]
            ELSE [target[r.effect][r.unit] EXCEPT !.late = TRUE, !.div = D]
    BY <1>3, LandStep
  <2>2. target'[r.effect][r.unit].div = D /\ Applied(r.effect, r.unit)'
    BY <1>1, <2>1, SMT DEF Applied
  <2> QED
    BY <1>0, <1>3, <2>2 DEF Shown
<1> QED
  BY <1>2, <1>3

\* A recorded result stays true.
LEMMA ShownStays ==
    ASSUME Types, TargetInv, NEW r \in wire, NEW D \in Refusals(r), Land(r, D),
           NEW e \in Effects, NEW u \in Units, NEW X \in SUBSET Tokens, Shown(e, u, X)
    PROVE  Shown(e, u, X)'
BY AppliedStays DEF Shown, Land

\* Steps that touch neither attempts nor target.
LEMMA AttemptsFrame ==
    ASSUME AttemptsInv, UNCHANGED <<perMember, attempts, target>>
    PROVE  AttemptsInv'
BY SMT DEF AttemptsInv, Truthful, Shown, Applied

\* A landing makes no recorded result false.
LEMMA AttemptsLand ==
    ASSUME Types, AttemptsInv, TargetInv, NEW r \in wire, NEW D \in Refusals(r), Land(r, D)
    PROVE  AttemptsInv'
<1>1. attempts' = attempts
  BY DEF Land
<1>2. ASSUME NEW e \in Effects, NEW i \in DOMAIN attempts[e],
             Shown(e, attempts[e][i].unit, attempts[e][i].div)
      PROVE  Shown(e, attempts[e][i].unit, attempts[e][i].div)'
  <2>0. attempts[e][i] \in Attempt
    BY SMT DEF Types, TypeOK
  <2>1. attempts[e][i].unit \in Units /\ attempts[e][i].div \in SUBSET Tokens
    BY <2>0 DEF Attempt
  <2>2. \A X \in SUBSET Tokens : \A u \in Units : Shown(e, u, X) => Shown(e, u, X)'
    BY ShownStays
  <2> QED
    BY <1>1, <1>2, <2>1, <2>2
<1> QED
  BY <1>1, <1>2 DEF AttemptsInv, Truthful

\* A new attempt has no result.
LEMMA AttemptsBegin ==
    ASSUME Types, AttemptsInv, NEW e \in Effects, NEW u \in Units,
           NEW act \in {"COMMIT", "RECONCILE"}, Begin(e, u, act), UNCHANGED <<perMember, target>>
    PROVE  AttemptsInv'
<1> DEFINE n == Len(attempts[e]) + 1
<1>1. /\ \A f \in Effects : f # e => attempts'[f] = attempts[f]
      /\ \A i \in DOMAIN attempts'[e] : i = n \/ i \in DOMAIN attempts[e]
      /\ \A i \in DOMAIN attempts[e] : attempts'[e][i] = attempts[e][i]
      /\ attempts'[e][n].st = "INTENT" /\ attempts'[e][n].res = "NONE"
  BY BeginStep, SMT
<1> HIDE DEF n
<1>2. \A f \in Effects : \A i \in DOMAIN attempts'[f] :
          (f = e /\ i = n) \/ (i \in DOMAIN attempts[f] /\ attempts'[f][i] = attempts[f][i])
  BY <1>1
<1>3. \A f, v, X : Shown(f, v, X) => Shown(f, v, X)'
  BY DEF Shown, Applied
<1>4. ASSUME NEW f \in Effects, NEW j \in DOMAIN attempts'[f] PROVE Truthful(f, j)'
  <2>1. CASE f = e /\ j = n
    BY <1>1, <2>1 DEF Truthful
  <2>2. CASE j \in DOMAIN attempts[f] /\ attempts'[f][j] = attempts[f][j]
    BY <1>3, <2>2 DEF AttemptsInv, Truthful
  <2> QED
    BY <1>2, <2>1, <2>2
<1> QED
  BY <1>4 DEF AttemptsInv

\* Closing an attempt with a true result.
LEMMA AttemptsClose ==
    ASSUME Types, AttemptsInv, NEW e \in Effects, NEW i \in DOMAIN attempts[e],
           NEW st \in {"RETURNED", "RESPONSE_LOST"},
           NEW res \in {"NONE", "COMMITTED", "APPLIED", "NOT_APPLIED", "UNKNOWN"},
           NEW D \in SUBSET Tokens,
           Close(e, i, st, res, D), UNCHANGED <<perMember, target>>,
           st # "RETURNED" => res = "NONE",
           attempts[e][i].act = "COMMIT" /\ st = "RETURNED" => res = "COMMITTED",
           res \in {"APPLIED", "NOT_APPLIED"} => attempts[e][i].act = "RECONCILE",
           res \in {"APPLIED", "COMMITTED"} => Shown(e, attempts[e][i].unit, D)
    PROVE  AttemptsInv'
<1>1. /\ \A f \in Effects : f # e => attempts'[f] = attempts[f]
      /\ DOMAIN attempts'[e] = DOMAIN attempts[e]
      /\ \A j \in DOMAIN attempts[e] : j # i => attempts'[e][j] = attempts[e][j]
      /\ attempts'[e][i].unit = attempts[e][i].unit
      /\ attempts'[e][i].act = attempts[e][i].act
      /\ attempts'[e][i].st = st /\ attempts'[e][i].res = res /\ attempts'[e][i].div = D
  BY CloseStep, SMT
<1>2. \A f \in Effects : \A j \in DOMAIN attempts'[f] :
          (f = e /\ j = i) \/ (j \in DOMAIN attempts[f] /\ attempts'[f][j] = attempts[f][j])
  BY <1>1
<1>3. \A f, u, X : Shown(f, u, X) => Shown(f, u, X)'
  BY DEF Shown, Applied
<1>4. Truthful(e, i)'
  BY <1>1, <1>3 DEF Truthful
<1>5. ASSUME NEW f \in Effects, NEW j \in DOMAIN attempts'[f] PROVE Truthful(f, j)'
  <2>1. CASE f = e /\ j = i
    BY <1>4, <2>1
  <2>2. CASE j \in DOMAIN attempts[f] /\ attempts'[f][j] = attempts[f][j]
    BY <1>3, <2>2 DEF AttemptsInv, Truthful
  <2> QED
    BY <1>2, <2>1, <2>2
<1> QED
  BY <1>5 DEF AttemptsInv

\* Closing abandoned attempts gives them no result.
LEMMA AttemptsAbandon ==
    ASSUME Types, AttemptsInv, NEW e \in Effects, CloseAbandoned(e)
    PROVE  AttemptsInv'
<1>1. /\ \A f \in Effects : f # e => attempts'[f] = attempts[f]
      /\ DOMAIN attempts'[e] = DOMAIN attempts[e]
      /\ \A i \in DOMAIN attempts[e] :
            /\ attempts[e][i].st # "INTENT" => attempts'[e][i] = attempts[e][i]
            /\ attempts[e][i].st = "INTENT" => attempts'[e][i].st = "RESPONSE_LOST"
            /\ attempts'[e][i].unit = attempts[e][i].unit
            /\ attempts'[e][i].act = attempts[e][i].act
            /\ attempts'[e][i].res = attempts[e][i].res
            /\ attempts'[e][i].div = attempts[e][i].div
  BY AbandonStep
<1>2. \A f, u, X : Shown(f, u, X) => Shown(f, u, X)'
  BY DEF CloseAbandoned, Shown, Applied
<1>3. ASSUME NEW f \in Effects, NEW j \in DOMAIN attempts'[f] PROVE Truthful(f, j)'
  <2>1. CASE f = e
    BY <1>1, <1>2, <2>1, SMT DEF AttemptsInv, Truthful
  <2>2. CASE f # e
    BY <1>1, <1>2, <2>2, SMT DEF AttemptsInv, Truthful
  <2> QED
    BY <2>1, <2>2
<1> QED
  BY <1>3 DEF AttemptsInv, Truthful

\* The answers the coordinator records are those of the target.
LEMMA AttemptsExecute ==
    ASSUME Types, CoordinatorInv, AttemptsInv, TargetInv, NEW e \in Effects, Execute(e)
    PROVE  AttemptsInv'
<1>1. CASE CloseAbandoned(e)
  BY <1>1, AttemptsAbandon
<1>2. CASE Block(e) \/ SettleMember(e) \/ Finalize(e) \/ \E u \in Units : Reuse(e, u)
  BY <1>2, AttemptsFrame DEF Block, SettleMember, Finalize, Reuse
<1>3. CASE \E u \in Units : BeginReconcile(e, u)
  BY <1>3, AttemptsBegin DEF BeginReconcile
<1>4. CASE \E known \in BOOLEAN : Reconcile(e, known)
  <2>1. PICK known \in BOOLEAN : Reconcile(e, known)
    BY <1>4
  <2>2. /\ co.att \in DOMAIN attempts[e] /\ co.unit \in Units
        /\ attempts[e][co.att].unit = co.unit /\ attempts[e][co.att].act = "RECONCILE"
    BY <2>1 DEF Reconcile, At, CoordinatorInv, Known, Current
  <2> DEFINE res == IF ~known THEN "UNKNOWN" ELSE IF Applied(e, co.unit) THEN "APPLIED" ELSE "NOT_APPLIED"
             D == IF known THEN target[e][co.unit].div ELSE {}
  <2>3. Close(e, co.att, "RETURNED", res, D) /\ UNCHANGED <<perMember, target>>
    BY <2>1 DEF Reconcile
  <2>4. D \in SUBSET Tokens /\ res \in {"NONE", "COMMITTED", "APPLIED", "NOT_APPLIED", "UNKNOWN"}
        /\ res # "COMMITTED"
    BY <2>2, SMT DEF Types, TypeOK
  <2>5. res = "APPLIED" => Shown(e, co.unit, D)
    BY <2>2 DEF Shown, TargetInv
  <2> HIDE DEF res, D
  <2> QED
    BY <2>2, <2>3, <2>4, <2>5, AttemptsClose
<1>5. CASE LoseResponse(e)
  <2>1. co.att \in DOMAIN attempts[e]
    BY <1>5 DEF LoseResponse, At, CoordinatorInv, Known, Current
  <2>2. /\ Close(e, co.att, "RESPONSE_LOST", "NONE", {}) /\ UNCHANGED <<perMember, target>>
        /\ {} \in SUBSET Tokens
    BY <1>5 DEF LoseResponse
  <2> QED
    BY <2>1, <2>2, AttemptsClose
<1>6. CASE BeginCommit(e)
  <2>1. co.unit \in Units
    BY <1>6 DEF BeginCommit, Answer, At, CoordinatorInv, Known, Current
  <2> QED
    BY <1>6, <2>1, AttemptsBegin DEF BeginCommit
<1>7. CASE RecordCommit(e)
  <2>1. /\ co.att \in DOMAIN attempts[e] /\ attempts[e][co.att].unit = co.unit
        /\ attempts[e][co.att].act = "COMMIT" /\ co.pc = "committed" /\ Current(e)
    BY <1>7 DEF RecordCommit, At, CoordinatorInv, Known, Current
  <2>2. co.div \in SUBSET Tokens
    BY DEF Types, TypeOK
  <2>3. Close(e, co.att, "RETURNED", "COMMITTED", co.div) /\ UNCHANGED <<perMember, target>>
    BY <1>7 DEF RecordCommit
  <2>4. Shown(e, attempts[e][co.att].unit, co.div)
    BY <2>1 DEF TargetInv
  <2> QED
    BY <2>1, <2>2, <2>3, <2>4, AttemptsClose
<1> QED
  BY <1>1, <1>2, <1>3, <1>4, <1>5, <1>6, <1>7 DEF Execute

\* A landing is the only step that changes what the target shows.
LEMMA TargetLand ==
    ASSUME Types, CoordinatorInv, TargetInv, NEW r \in wire, NEW D \in Refusals(r), Land(r, D)
    PROVE  TargetInv'
<1>0. /\ perMember' = perMember /\ effect' = effect /\ Units' = Units
      /\ \A t : UnitOf(t)' = UnitOf(t)
  BY DEF Land, Units, UnitOf
<1>1. \A e \in Effects : Current(e)' /\ co'.pc = "committed" => Shown(e, co.unit, co.div)'
  <2>1. CASE Awaited(r)
    <3>1. /\ co'.div = D /\ co'.unit = r.unit /\ co'.queue = co.queue /\ Current(r.effect)
          /\ r.effect \in Effects
      BY <2>1, LandStep DEF Land, Awaited, At, Current, Types, TypeOK
    <3>2. \A e \in Effects : Current(e)' => e = r.effect
      BY <3>1, SkewAssumption, SMT DEF Current, Effects
    <3>3. Shown(r.effect, r.unit, D)'
      BY LandShows
    <3> QED
      BY <3>1, <3>2, <3>3
  <2>2. CASE ~Awaited(r)
    <3>1. co' = co
      BY <2>2 DEF Land
    <3>2. ASSUME NEW e \in Effects, Current(e), co.pc = "committed"
          PROVE  Shown(e, co.unit, co.div)'
      <4>1. co.unit \in Units /\ co.div \in SUBSET Tokens /\ Shown(e, co.unit, co.div)
        BY <3>2 DEF CoordinatorInv, Known, TargetInv, Types, TypeOK
      <4>2. \A X \in SUBSET Tokens : \A u \in Units : Shown(e, u, X) => Shown(e, u, X)'
        BY ShownStays
      <4> QED
        BY <3>1, <4>1, <4>2
    <3> QED
      BY <3>1, <3>2 DEF Current
  <2> QED
    BY <2>1, <2>2
<1>2. perMember => \A e \in Effects : \A u \in Units : target'[e][u].div = {}
  BY AppliedStays
<1>3. \A e \in Effects : \A u \in Units : Applied(e, u) => Applied(e, u)'
  BY AppliedStays
<1>4. perMember => \A e \in Effects : effect[e].publishes =>
          \A t \in effect[e].done \ effect[e].diverted : Applied(e, t)'
  BY <1>3, UnitFacts DEF TargetInv, Types, TypeOK
<1>5. ASSUME NEW e \in Effects, effect[e].state = "FINALIZED", effect[e].publishes,
             NEW t \in effect[e].members \ effect[e].diverted
      PROVE  Applied(e, UnitOf(t))' /\ t \notin target'[e][UnitOf(t)].div
  <2>1. UnitOf(t) \in Units
    BY UnitFacts DEF Types, TypeOK
  <2>2. Applied(e, UnitOf(t)) /\ t \notin target[e][UnitOf(t)].div
    BY <1>5 DEF TargetInv, AcceptedIsPublished
  <2>3. perMember \/ target'[e][UnitOf(t)].div = target[e][UnitOf(t)].div
    BY <2>1, <2>2, AppliedStays
  <2>4. Applied(e, UnitOf(t))'
    BY <1>0, <1>3, <2>1, <2>2
  <2> QED
    BY <1>2, <2>1, <2>2, <2>3, <2>4
<1>6. AcceptedIsPublished'
  BY <1>0, <1>5 DEF AcceptedIsPublished
<1>7. (perMember => \A e \in Effects : \A u \in Units : target[e][u].div = {})'
  BY <1>0, <1>2
<1>8. (perMember => \A e \in Effects : effect[e].publishes =>
          \A t \in effect[e].done \ effect[e].diverted : Applied(e, t))'
  BY <1>0, <1>4
<1> QED
  BY <1>1, <1>6, <1>7, <1>8 DEF TargetInv

\* Steps that leave rows and target alone.
LEMMA TargetFrame ==
    ASSUME TargetInv, UNCHANGED <<perMember, effect, target>>, co'.pc # "committed" \/ co' = co
    PROVE  TargetInv'
<1>1. /\ \A e, u : Applied(e, u)' = Applied(e, u) /\ \A t : UnitOf(t)' = UnitOf(t)
      /\ Units' = Units
  BY DEF Applied, UnitOf, Units
<1>2. \A e, u, D : Shown(e, u, D)' = Shown(e, u, D)
  BY <1>1 DEF Shown
<1>3. \A e \in Effects : Current(e)' /\ co'.pc = "committed" => Shown(e, co.unit, co.div)'
  BY <1>2 DEF TargetInv, Current
<1>4. AcceptedIsPublished'
  BY <1>1, SMT DEF TargetInv, AcceptedIsPublished
<1> QED
  BY <1>1, <1>3, <1>4 DEF TargetInv

\* A row is updated in keeping with the target.
LEMMA TargetRow ==
    ASSUME Types, TargetInv, UNCHANGED <<perMember, target>>, co'.pc # "committed" \/ co' = co,
           NEW e \in Effects, NEW r \in Rows, Update(e, r),
           perMember /\ r.publishes => \A t \in r.done \ r.diverted : Applied(e, t),
           r.state = "FINALIZED" /\ r.publishes =>
               \A t \in r.members \ r.diverted :
                   Applied(e, UnitOf(t)) /\ t \notin target[e][UnitOf(t)].div
    PROVE  TargetInv'
<1>0. effect'[e] = r /\ \A f \in Effects : f # e => effect'[f] = effect[f]
  BY RowStep
<1>1. /\ \A f, u : Applied(f, u)' = Applied(f, u) /\ \A t : UnitOf(t)' = UnitOf(t)
      /\ Units' = Units
  BY DEF Applied, UnitOf, Units
<1>2. \A f, u, D : Shown(f, u, D)' = Shown(f, u, D)
  BY <1>1 DEF Shown
<1>3. \A f \in Effects : Current(f)' /\ co'.pc = "committed" => Shown(f, co.unit, co.div)'
  BY <1>2 DEF TargetInv, Current
<1>4. AcceptedIsPublished'
  <2>1. ASSUME NEW f \in Effects, effect'[f].state = "FINALIZED", effect'[f].publishes,
               NEW t \in effect'[f].members \ effect'[f].diverted
        PROVE  Applied(f, UnitOf(t)) /\ t \notin target[f][UnitOf(t)].div
    <3>1. CASE f = e
      BY <1>0, <2>1, <3>1
    <3>2. CASE f # e
      BY <1>0, <2>1, <3>2 DEF TargetInv, AcceptedIsPublished
    <3> QED
      BY <3>1, <3>2
  <2> QED
    BY <1>1, <2>1 DEF AcceptedIsPublished
<1>5. (perMember => \A f \in Effects : effect[f].publishes =>
          \A t \in effect[f].done \ effect[f].diverted : Applied(f, t))'
  <2>1. ASSUME perMember, NEW f \in Effects, effect'[f].publishes,
               NEW t \in effect'[f].done \ effect'[f].diverted
        PROVE  Applied(f, t)
    <3>1. CASE f = e
      BY <1>0, <2>1, <3>1
    <3>2. CASE f # e
      BY <1>0, <2>1, <3>2 DEF TargetInv
    <3> QED
      BY <3>1, <3>2
  <2> QED
    BY <1>1, <2>1
<1> QED
  BY <1>1, <1>3, <1>4, <1>5 DEF TargetInv

\* Preparing, leasing and expiring settle nothing that is to be published.
LEMMA TargetPrepare ==
    ASSUME Types, StreamInv, TargetInv, Types', NEW e \in Effects, Prepare(e) \/ Expire(e)
    PROVE  TargetInv'
<1>0. /\ effect[e] \in Rows /\ effect' \in [Effects -> Rows] /\ co \in CoStates
  BY DEF Types, TypeOK, Rows, CoStates, Owners
<1>1. UNCHANGED <<perMember, target>> /\ (co'.pc # "committed" \/ co' = co)
  BY <1>0 DEF Prepare, Refuse, ClaimPreparation, ReviveClaim, CompletePlan, FinalizeNoPublication, Lease,
           Expire, Stopped, Idle, CoStates, At
<1>2. CASE Refuse(e)
  BY <1>1, <1>2, TargetFrame DEF Refuse
<1> DEFINE old == effect[e]
<1>3. CASE \/ ClaimPreparation(e) \/ ReviveClaim(e) \/ Lease(e) \/ Expire(e)
  <2>1. PICK r : /\ Update(e, r) /\ r.members = old.members /\ r.diverted = old.diverted
                 /\ r.done = old.done /\ r.publishes = old.publishes
                 /\ r.state = "FINALIZED" => old.state = "FINALIZED"
    <3>1. CASE ClaimPreparation(e)
      <4> DEFINE r == [effect[e] EXCEPT !.owner = epoch, !.gen = @ + 1, !.live = TRUE]
      <4>1. /\ r.members = old.members /\ r.diverted = old.diverted
            /\ r.done = old.done /\ r.publishes = old.publishes
            /\ r.state = "FINALIZED" => old.state = "FINALIZED"
        BY <1>0 DEF Rows
      <4>2. Update(e, r)
        BY <3>1 DEF ClaimPreparation
      <4> QED
        BY <4>1, <4>2
    <3>2. CASE ReviveClaim(e)
      BY <1>0, <3>2, SMT DEF ReviveClaim, Rows
    <3>3. CASE Lease(e)
      <4> DEFINE r == [effect[e] EXCEPT !.state = "IN_FLIGHT", !.owner = epoch, !.gen = @ + 1, !.live = TRUE]
      <4>1. /\ r.members = old.members /\ r.diverted = old.diverted
            /\ r.done = old.done /\ r.publishes = old.publishes
            /\ r.state = "FINALIZED" => old.state = "FINALIZED"
        BY <1>0 DEF Rows
      <4>2. Update(e, r)
        BY <3>3 DEF Lease
      <4> QED
        BY <4>1, <4>2
    <3>4. CASE Expire(e)
      BY <1>0, <3>4, SMT DEF Expire, Rows
    <3> QED
      BY <1>3, <3>1, <3>2, <3>3, <3>4
  <2>2. r \in Rows
    BY <1>0, <2>1 DEF Update, Types, TypeOK
  <2>3. perMember /\ r.publishes => \A t \in r.done \ r.diverted : Applied(e, t)
    BY <2>1 DEF TargetInv
  <2>4. r.state = "FINALIZED" /\ r.publishes =>
            \A t \in r.members \ r.diverted : Applied(e, UnitOf(t)) /\ t \notin target[e][UnitOf(t)].div
    BY <2>1 DEF TargetInv, AcceptedIsPublished
  <2> QED
    BY <1>1, <2>1, <2>2, <2>3, <2>4, TargetRow
<1>4. CASE \/ FinalizeNoPublication(e)
           \/ \E D \in SUBSET effect[e].members, publishes \in BOOLEAN : CompletePlan(e, D, publishes)
  <2>1. PICK r : /\ Update(e, r)
                 /\ r.publishes => r.done = {} /\ r.state # "FINALIZED"
    <3>1. CASE FinalizeNoPublication(e)
      <4> DEFINE r == [effect[e] EXCEPT !.state = "FINALIZED", !.done = effect[e].members]
      <4>1. r.publishes = old.publishes
        BY <1>0 DEF Rows
      <4>2. Update(e, r) /\ ~old.publishes
        BY <3>1 DEF FinalizeNoPublication
      <4> QED
        BY <4>1, <4>2
    <3>2. CASE \E D \in SUBSET effect[e].members, publishes \in BOOLEAN : CompletePlan(e, D, publishes)
      <4>1. PICK D \in SUBSET effect[e].members, publishes \in BOOLEAN : CompletePlan(e, D, publishes)
        BY <3>2
      <4>2. effect[e].done = {}
        BY <4>1 DEF CompletePlan, StreamInv
      <4> DEFINE r == [effect[e] EXCEPT !.state = "PREPARED", !.owner = 0, !.live = FALSE,
                                        !.publishes = publishes, !.planned = D, !.diverted = D]
      <4>3. r.done = old.done /\ r.state = "PREPARED"
        BY <1>0 DEF Rows
      <4>4. Update(e, r)
        BY <4>1 DEF CompletePlan
      <4> QED
        BY <4>2, <4>3, <4>4
    <3> QED
      BY <1>4, <3>1, <3>2
  <2>2. r \in Rows
    BY <1>0, <2>1 DEF Update, Types, TypeOK
  <2> QED
    BY <1>1, <2>1, <2>2, TargetRow
<1> QED
  BY <1>2, <1>3, <1>4 DEF Prepare

\* A new effect has settled nothing.
LEMMA TargetReserve ==
    ASSUME Types, StreamInv, TargetInv, Types', NEW T \in Groups[epoch], Reserve(T)
    PROVE  TargetInv'
<1> DEFINE n == [NoEffect EXCEPT !.state = "RESERVED", !.members = Unbound(T)]
<1>1. UNCHANGED <<perMember, target>> /\ co'.pc # "committed"
  <2>1. PICK q : co' = [Idle EXCEPT !.pc = "effect", !.asked = T, !.queue = q]
    BY DEF Reserve
  <2> QED
    BY <2>1 DEF Idle, Reserve
<1>2. CASE UNCHANGED <<effect, tail>>
  BY <1>1, <1>2, TargetFrame
<1>3. CASE tail < MaxEffects /\ tail' = tail + 1 /\ Update(tail + 1, n)
  <2>1. tail + 1 \in Effects
    BY <1>3, SkewAssumption, SMT DEF Types, TypeOK, Effects
  <2>2. n.done = {} /\ n.state = "RESERVED"
    BY DEF NoEffect
  <2> HIDE DEF n
  <2>3. effect'[tail + 1] = n /\ effect' \in [Effects -> Rows]
    BY <1>3, <2>1 DEF Update, Types, TypeOK, Rows, Owners
  <2>4. n \in Rows
    BY <2>1, <2>3
  <2> QED
    BY <1>1, <1>3, <2>1, <2>2, <2>4, TargetRow
<1> QED
  BY <1>2, <1>3 DEF Reserve

\* The row of an effect is settled by what the attempts have shown.
LEMMA TargetExecute ==
    ASSUME Types, StreamInv, CoordinatorInv, AttemptsInv, TargetInv, Types',
           NEW e \in Effects, Execute(e)
    PROVE  TargetInv'
<1>0. /\ effect[e] \in Rows /\ effect' \in [Effects -> Rows] /\ co \in CoStates
  BY DEF Types, TypeOK, Rows, CoStates, Owners
<1>1. CASE \/ CloseAbandoned(e) \/ LoseResponse(e) \/ Block(e) \/ RecordCommit(e) \/ BeginCommit(e)
           \/ \E u \in Units : Reuse(e, u) \/ BeginReconcile(e, u)
           \/ \E known \in BOOLEAN : Reconcile(e, known)
  <2>1. UNCHANGED <<perMember, effect, target>> /\ co'.pc # "committed"
    BY <1>0, <1>1 DEF CloseAbandoned, LoseResponse, Block, RecordCommit, BeginCommit, Reuse,
                BeginReconcile, Reconcile, Stopped, Idle, CoStates
  <2> QED
    BY <2>1, TargetFrame
<1>2. CASE SettleMember(e)
  <2> DEFINE a == attempts[e][co.att]
             r == [effect[e] EXCEPT !.done = @ \cup {co.unit}, !.diverted = @ \cup a.div]
  <2>1. /\ UNCHANGED <<perMember, target>> /\ Update(e, r) /\ perMember
        /\ co'.pc # "committed"
    BY <1>0, <1>2 DEF SettleMember, CoStates
  <2>2. effect[e].state = "IN_FLIGHT" /\ effect[e].publishes
    BY <1>2 DEF SettleMember, Answer, HoldsLease, StreamInv
  <2>3. /\ r.state = effect[e].state /\ r.publishes = effect[e].publishes
        /\ r.done = effect[e].done \cup {co.unit} /\ r.diverted = effect[e].diverted \cup a.div
    BY <1>0 DEF Rows
  <2>4. a.unit = co.unit /\ Shown(e, co.unit, a.div)
    BY <1>2 DEF SettleMember, Answer, At, CoordinatorInv, Known, Current, AttemptsInv, Truthful
  <2>5. Applied(e, co.unit) \/ co.unit \in a.div
    BY <2>1, <2>4 DEF Shown
  <2> HIDE DEF r, a
  <2>6. \A t \in r.done \ r.diverted : Applied(e, t)
    BY <2>1, <2>2, <2>3, <2>5 DEF TargetInv
  <2>7. effect'[e] = r
    BY <2>1 DEF Update, Types, TypeOK
  <2> QED
    BY <1>0, <2>1, <2>2, <2>3, <2>6, <2>7, TargetRow
<1>3. CASE Finalize(e)
  <2> DEFINE a == attempts[e][co.att]
             r == [effect[e] EXCEPT !.state = "FINALIZED", !.owner = 0, !.live = FALSE,
                    !.done = effect[e].members,
                    !.diverted = @ \cup (IF perMember THEN {} ELSE a.div)]
  <2>1. UNCHANGED <<perMember, target>> /\ Update(e, r) /\ co'.pc # "committed"
    BY <1>0, <1>3 DEF Finalize, CoStates
  <2>2. effect[e].publishes
    BY <1>3 DEF Finalize, HoldsLease, StreamInv
  <2>3. /\ r.members = effect[e].members /\ r.done = effect[e].members
        /\ r.diverted = effect[e].diverted \cup (IF perMember THEN {} ELSE a.div)
        /\ effect[e].members \subseteq Tokens
    BY <1>0 DEF Rows
  <2>4. \A t \in r.members \ r.diverted : Applied(e, UnitOf(t)) /\ t \notin target[e][UnitOf(t)].div
    <3>1. CASE perMember
      <4>1. \A t \in effect[e].members \ effect[e].diverted : Applied(e, t)
        BY <1>3, <2>2, <3>1 DEF Finalize, Remaining, TargetInv
      <4>2. \A t \in Tokens : target[e][t].div = {}
        BY <3>1, UnitFacts DEF TargetInv
      <4> HIDE DEF r
      <4> QED
        BY <2>3, <3>1, <4>1, <4>2 DEF UnitOf
    <3>2. CASE ~perMember
      <4>1. /\ co.att \in DOMAIN attempts[e] /\ a.unit = co.unit
            /\ a.res \in {"APPLIED", "COMMITTED"} /\ co.unit \in Units
        BY <1>3, <3>2 DEF Finalize, Answer, At, CoordinatorInv, Known, Current
      <4>2. Shown(e, co.unit, a.div) /\ co.unit = 0
        BY <3>2, <4>1, UnitFacts DEF AttemptsInv, Truthful
      <4>3. Applied(e, 0) /\ target[e][0].div = a.div
        BY <3>2, <4>2 DEF Shown
      <4> HIDE DEF r, a
      <4> QED
        BY <2>3, <3>2, <4>3 DEF UnitOf
    <3> QED
      BY <3>1, <3>2
  <2> HIDE DEF r, a
  <2>5. perMember => \A t \in r.done \ r.diverted : Applied(e, t)
    BY <2>3, <2>4 DEF UnitOf
  <2>6. effect'[e] = r
    BY <2>1 DEF Update, Types, TypeOK
  <2> QED
    BY <1>0, <2>1, <2>4, <2>5, <2>6, TargetRow
<1> QED
  BY <1>1, <1>2, <1>3 DEF Execute

--------------------------------------------------------------------------------
(* The invariant. *)

\* The invariant holds initially,
LEMMA SinkInit == Init => SinkInv
<1> SUFFICES ASSUME Init PROVE SinkInv
  OBVIOUS
<1>1. Types
  <2>1. perMember \in BOOLEAN
    BY TokensAssumption DEF Init
  <2>2. NoEffect \in Rows /\ Idle \in CoStates
    BY SkewAssumption, SMT DEF NoEffect, Rows, Owners, Idle, CoStates
  <2>3. effect \in [Effects -> Rows] /\ co \in CoStates
    BY <2>2 DEF Init
  <2>4. attempts \in [Effects -> Seq(Attempt)]
    BY SMT DEF Init
  <2>5. tail \in 0 .. MaxEffects /\ epoch \in 1 .. MaxEpoch
    BY SkewAssumption, SMT DEF Init
  <2>6. target \in [Effects -> [Units -> [held : Nat, late : BOOLEAN, div : SUBSET Tokens]]]
    BY DEF Init
  <2> QED
    BY <2>1, <2>3, <2>4, <2>5, <2>6 DEF Types, TypeOK, Rows, Owners, CoStates, Init
<1>2. StreamInv
  <2>1. \A e \in Effects : tail < e
    BY SMT DEF Init, Effects
  <2>2. \A e \in Effects : effect[e].state = "NONE" /\ effect[e].members = {} /\ effect[e].done = {}
    BY DEF Init, NoEffect
  <2> QED
    BY <2>1, <2>2 DEF StreamInv, Init, Untouched
<1>3. CoordinatorInv
  BY DEF Init, Idle, CoordinatorInv, Current
<1>4. AttemptsInv
  BY SMT DEF Init, AttemptsInv
<1>5. TargetInv
  <2>1. \A e \in Effects : effect[e].state = "NONE" /\ effect[e].publishes = FALSE
    BY DEF Init, NoEffect
  <2> QED
    BY <2>1 DEF Init, Idle, TargetInv, AcceptedIsPublished
<1> QED
  BY <1>1, <1>2, <1>3, <1>4, <1>5 DEF SinkInv

\* and every step keeps it.
LEMMA SinkStep == SinkInv /\ [Next]_vars => SinkInv'
<1> SUFFICES ASSUME SinkInv, [Next]_vars PROVE SinkInv'
  OBVIOUS
<1> USE DEF SinkInv
<1>1. CASE UNCHANGED vars
  <2>1. Types'
    BY <1>1, OtherTypes
  <2>2. StreamInv'
    BY <1>1, StreamFrame DEF vars
  <2>3. CoordinatorInv'
    BY <1>1, SMT DEF vars, CoordinatorInv, Known, Current, AllLost, CommitsOf, Units
  <2>4. AttemptsInv'
    BY <1>1, AttemptsFrame DEF vars
  <2>5. TargetInv'
    BY <1>1, TargetFrame DEF vars
  <2> QED
    BY <2>1, <2>2, <2>3, <2>4, <2>5
<1>2. CASE \E T \in Groups[epoch] : Reserve(T)
  <2>1. PICK T \in Groups[epoch] : Reserve(T)
    BY <1>2
  <2>2. Types'
    BY <2>1, ReserveTypes
  <2>3. AttemptsInv'
    BY <2>1, AttemptsFrame DEF Reserve
  <2> QED
    BY <1>2, <2>1, <2>2, <2>3, StreamReserve, CoordinatorIdle, TargetReserve
<1>3. CASE Return \/ NewLeader
  <2>1. Types'
    BY <1>3, OtherTypes
  <2>2. /\ UNCHANGED <<perMember, effect, tail, attempts, wire, target>>
        /\ co'.pc # "committed"
    BY <1>3, SMT DEF Return, NewLeader, Idle
  <2> QED
    BY <1>3, <2>1, <2>2, StreamFrame, CoordinatorIdle, AttemptsFrame, TargetFrame
<1>4. CASE \E e \in Effects : Prepare(e) \/ Expire(e)
  <2>1. PICK e \in Effects : Prepare(e) \/ Expire(e)
    BY <1>4
  <2>2. Types'
    BY <2>1, PrepareTypes
  <2>3. AttemptsInv'
    <3>1. UNCHANGED <<perMember, attempts, target>>
      BY <2>1 DEF Prepare, Refuse, ClaimPreparation, ReviveClaim, CompletePlan,
                  FinalizeNoPublication, Lease, Expire
    <3> QED
      BY <3>1, AttemptsFrame
  <2>4. CoordinatorInv'
    BY <2>1, <2>2, CoordinatorIdle, CoordinatorExpire, CoordinatorLease DEF Prepare
  <2> QED
    BY <2>1, <2>2, <2>3, <2>4, StreamPrepare, TargetPrepare
<1>5. CASE \E e \in Effects : Execute(e)
  <2>1. PICK e \in Effects : Execute(e)
    BY <1>5
  <2>2. Types'
    BY <2>1, ExecuteTypes
  <2>3. CoordinatorInv'
    BY <2>1, <2>2, CoordinatorIdle, CoordinatorClose, CoordinatorReuse, CoordinatorReconciles,
       CoordinatorAnswered, CoordinatorSettles, CoordinatorCommits, CoordinatorRecords
       DEF Execute
  <2> QED
    BY <2>1, <2>2, <2>3, StreamExecute, AttemptsExecute, TargetExecute
<1>6. CASE \E r \in wire : \E D \in Refusals(r) : Land(r, D)
  <2>1. PICK r \in wire : \E D \in Refusals(r) : Land(r, D)
    BY <1>6
  <2>2. PICK D \in Refusals(r) : Land(r, D)
    BY <2>1
  <2>3. Types'
    BY <1>6, OtherTypes
  <2> QED
    BY <2>2, <2>3, StreamLand, CoordinatorLand, AttemptsLand, TargetLand
<1> QED
  BY <1>1, <1>2, <1>3, <1>4, <1>5, <1>6 DEF Next

\* The inductive invariant holds throughout, whatever the clocks show.
THEOREM SinkInvTheorem == Spec => []SinkInv
BY SinkInit, SinkStep, PTL DEF Spec

================================================================================
