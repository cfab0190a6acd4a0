------------------------------- MODULE Coalesce -------------------------------
(***************************************************************************)
(* The coalesce barrier: workers carry the branches of forked rows to it,  *)
(* the leader adopts each arrival and each reported loss, decides by       *)
(* CoalescePolicy and writes the verdict down in several transactions. The *)
(* leader's picture of the open groups is memory; after a crash the next   *)
(* leader rebuilds it from the journal and the audit trail.                *)
(*                                                                         *)
(* The leader is one thread: a decision puts the transactions that follow  *)
(* from it on an agenda, one step takes the first of them, and only a      *)
(* crash comes between.                                                    *)
(***************************************************************************)
EXTENDS CoalescePolicy, Sequences, FiniteSets, SequencesExt

CONSTANTS
    Groups,     \* fork groups that meet at the barrier
    Running,    \* policies to explore
    Selects,    \* select_branch of a select merge, 0 for a union: values to explore
    AtSink,     \* whether the merged row goes straight to a sink: values to explore
    CacheSize,  \* max_completed_keys
    MaxCrashes  \* bound: crashes of the leader

ASSUME CoalesceAssumption ==
    /\ Groups \subseteq Nat /\ Running \subseteq Policies /\ AtSink \subseteq BOOLEAN
    /\ Selects \subseteq 0 .. Expected
    /\ CacheSize \in Nat \ {0} /\ MaxCrashes \in Nat

Branches == 1 .. Expected

VARIABLES
    policy, timed,  \* the settings: policy, and whether there is a timeout
    terminal,       \* the merged row goes straight to a sink
    select,         \* the branch whose row a select merge takes, 0 for a union
    clash,          \* groups whose branches a union cannot merge with each other
    journal,        \* the work item of each branch's token
    hold,           \* its node state at the barrier
    outcome,        \* its terminal outcome
    made, merged,   \* member sets of materialized and of completed effects
    published,      \* member sets whose merged token has been scheduled
    up, pending, cache, agenda,  \* the leader, and its memory
    crashes

settings == <<policy, timed, terminal, select, clash>>
audit == <<hold, outcome, made, merged>>
memory == <<pending, cache>>
vars == <<settings, journal, audit, published, up, memory, agenda, crashes>>

Nothing == [on |-> FALSE, arrived |-> {}, lost |-> {}]
Reasons == {"coalesced", "late_arrival_after_merge", "scope_group_failed", "merge_error"}

TypeOK ==
    /\ policy \in Running /\ timed \in BOOLEAN /\ terminal \in AtSink
    /\ select \in Selects /\ clash \subseteq Groups
    /\ journal \in [Groups -> [Branches ->
                      {"working", "blocked", "adopted", "done", "lost", "lost_seen"}]]
    /\ hold \in [Groups -> [Branches -> {"none", "open", "completed", "failed"}]]
    /\ outcome \in [Groups -> [Branches -> Reasons \cup {"none"}]]
    /\ made \in [Groups -> SUBSET SUBSET Branches]
    /\ merged \in [Groups -> SUBSET SUBSET Branches]
    /\ published \in [Groups -> SUBSET SUBSET Branches]
    /\ up \in BOOLEAN /\ crashes \in 0 .. MaxCrashes
    /\ pending \in [Groups -> [on : BOOLEAN, arrived : SUBSET Branches, lost : SUBSET Branches]]
    /\ \A i \in DOMAIN cache : cache[i].g \in Groups /\ cache[i].flavor \in {"merged", "failed", "unknown"}
    /\ Len(cache) <= CacheSize

\* best_effort is refused without a timeout.
Init ==
    /\ policy \in Running /\ timed \in BOOLEAN /\ terminal \in AtSink
    /\ select \in Selects /\ clash \in SUBSET Groups /\ (select # 0 => clash = {})
    /\ policy = "best_effort" => timed
    /\ journal = [g \in Groups |-> [b \in Branches |-> "working"]]
    /\ hold = [g \in Groups |-> [b \in Branches |-> "none"]]
    /\ outcome = [g \in Groups |-> [b \in Branches |-> "none"]]
    /\ made = [g \in Groups |-> {}] /\ merged = made /\ published = made
    /\ up = TRUE /\ pending = [g \in Groups |-> Nothing] /\ cache = <<>> /\ agenda = <<>>
    /\ crashes = 0

-----------------------------------------------------------------------------
(* The cache of closed groups and the lookup behind it.                    *)

\* The oldest entries go when the cache is over its size.
mark_completed(c, g, flavor) ==
    LET i == SelectInSeq(c, LAMBDA e : e.g = g)
        d == IF i = 0 THEN Append(c, [g |-> g, flavor |-> flavor])
             ELSE [c EXCEPT ![i] = [g |-> g, flavor |-> flavor]]
    IN  IF Len(d) > CacheSize THEN Tail(d) ELSE d

has_completed_group(g) == \E b \in Branches : hold[g][b] \in {"completed", "failed"}
has_released_group(g) == \E b \in Branches : hold[g][b] = "completed"

IsClosed(g) == (\E i \in DOMAIN cache : cache[i].g = g) \/ has_completed_group(g)

\* The flavor in the cache where it is known, otherwise the audit trail's.
ClosedByMerge(g) ==
    IF \E i \in DOMAIN cache : cache[i].g = g /\ cache[i].flavor # "unknown"
      THEN \E i \in DOMAIN cache : cache[i] = [g |-> g, flavor |-> "merged"]
      ELSE has_released_group(g)

-----------------------------------------------------------------------------
(* A verdict: the transactions it takes. The first part is the executor's  *)
(* own; the second settles the tokens once the executor has returned.      *)

\* A transaction on the tokens bs of group g, and why.
Step(op, g, bs, why) == [op |-> op, g |-> g, bs |-> bs, why |-> why]
Each(op, g, bs, why) ==
    LET s == SetToSeq(bs) IN [i \in DOMAIN s |-> Step(op, g, {s[i]}, why)]

\* The branches that arrived give no merged row: the selected one is not among
\* them, or a union finds a field of two of them.
Unmergeable(g, p) ==
    IF select # 0 THEN select \notin p.arrived ELSE g \in clash /\ Cardinality(p.arrived) > 1

\* What becomes of group g, with p pending, at an event.
Verdict(g, p, event) ==
    LET d == decide_coalesce(policy, event, Cardinality(p.arrived), Cardinality(p.lost))
    IN  IF d = "MERGE" /\ Unmergeable(g, p) THEN "FAIL" ELSE d

fail_pending(g, p) == Each("close", g, p.arrived, "")
execute_merge(g, p) == <<Step("materialize", g, p.arrived, ""), Step("finalize", g, p.arrived, "")>>

settle_failed_coalesce_group(g, p) ==
    IF p.arrived = {} THEN <<>>
    ELSE Each("outcome", g, p.arrived, "scope_group_failed") \o <<Step("release", g, p.arrived, "")>>

Execute(g, p, event) ==
    LET v == Verdict(g, p, event)
    IN  IF v = "MERGE" THEN execute_merge(g, p)
        ELSE IF v = "FAIL" THEN fail_pending(g, p)
        ELSE IF v = "RAISE" THEN <<Step("abort", g, {}, "")>> ELSE <<>>

Settle(g, p, event) ==
    LET v == Verdict(g, p, event)
    IN  IF v = "MERGE" THEN <<Step("publish", g, p.arrived, "")>>
        ELSE IF v = "FAIL" THEN settle_failed_coalesce_group(g, p) ELSE <<>>

\* A loss in the leader's own claim that merges a group whose row goes to a sink
\* consumes the members and schedules nothing; the row that it returns is refused
\* further on for that reason, and the run aborts.
SettleInClaim(g, p, event) ==
    IF terminal /\ Verdict(g, p, event) = "MERGE"
      THEN <<Step("consume", g, p.arrived, "")>> ELSE Settle(g, p, event)

RefuseInClaim(g, p, event) ==
    IF terminal /\ Verdict(g, p, event) = "MERGE" THEN <<Step("abort", g, {}, "")>> ELSE <<>>

\* Memory after the verdict.
PendingAfter(g, p, event) == IF Verdict(g, p, event) \in {"MERGE", "FAIL"} THEN Nothing ELSE p

CacheAfter(c, g, p, event) ==
    LET v == Verdict(g, p, event)
    IN  IF v = "MERGE" THEN mark_completed(c, g, "merged")
        ELSE IF v = "FAIL" THEN mark_completed(c, g, "failed") ELSE c

-----------------------------------------------------------------------------
(* The workers: a branch's token reaches the barrier or is lost.           *)

Idle == up /\ agenda = <<>>

\* mark_blocked in the claim's disposition.
Reach(g, b) ==
    /\ journal[g][b] = "working"
    /\ journal' = [journal EXCEPT ![g] = [@ EXCEPT ![b] = "blocked"]]
    /\ UNCHANGED <<settings, audit, published, up, memory, agenda, crashes>>

\* Faulty: the loss of a token whose claim the worker no longer has is recorded too.
FollowerLoses_unfenced(g, b) ==
    /\ journal[g][b] \in {"working", "adopted"}
    /\ journal' = [journal EXCEPT ![g] = [@ EXCEPT ![b] = "lost"]]
    /\ UNCHANGED <<settings, audit, published, up, memory, agenda, crashes>>

\* A follower has no executor: its claim's disposition records the loss.
FollowerLoses(g, b) ==
    /\ journal[g][b] = "working"
    /\ journal' = [journal EXCEPT ![g] = [@ EXCEPT ![b] = "lost"]]
    /\ UNCHANGED <<settings, audit, published, up, memory, agenda, crashes>>

-----------------------------------------------------------------------------
(* The leader's decisions.                                                 *)

\* Memory after group g is decided with p pending.
Decide(g, p, event) ==
    /\ pending' = [pending EXCEPT ![g] = PendingAfter(g, p, event)]
    /\ cache' = CacheAfter(cache, g, p, event)

\* The adoption and the accept that follows it. A late token's node state is
\* opened, failed, its outcome recorded and its work item released.
adopt_coalesce_row(g, b) ==
    /\ Idle /\ journal[g][b] = "blocked"
    /\ journal' = [journal EXCEPT ![g] = [@ EXCEPT ![b] = "adopted"]]
    /\ IF IsClosed(g)
         THEN LET why == IF ClosedByMerge(g) THEN "late_arrival_after_merge" ELSE "scope_group_failed"
              IN  /\ agenda' = <<Step("open", g, {b}, ""), Step("late", g, {b}, ""),
                                 Step("outcome", g, {b}, why), Step("release", g, {b}, "")>>
                  /\ cache' = mark_completed(cache, g, IF ClosedByMerge(g) THEN "merged" ELSE "failed")
                  /\ UNCHANGED pending
         ELSE LET p == [pending[g] EXCEPT !.on = TRUE, !.arrived = @ \cup {b}]
              IN  /\ Decide(g, p, "ARRIVAL")
                  /\ agenda' = <<Step("open", g, {b}, "")>> \o Execute(g, p, "ARRIVAL")
                                 \o Settle(g, p, "ARRIVAL")
    /\ UNCHANGED <<settings, audit, published, up, crashes>>

\* notify_branch_lost does nothing for a closed group; the replay skips a loss it has.
notify_ignored(g, b) == b \in pending[g].lost \/ IsClosed(g)

WithLoss(g, b) == [pending[g] EXCEPT !.on = TRUE, !.lost = @ \cup {b}]

notify_branch_lost(g, b) ==
    IF notify_ignored(g, b) THEN UNCHANGED memory
    ELSE Decide(g, WithLoss(g, b), "LOSS")

\* The leader's own claim loses its token: the barrier is told, and settles,
\* before the claim's disposition records the loss.
LeaderLoses(g, b) ==
    /\ Idle /\ journal[g][b] = "working"
    /\ notify_branch_lost(g, b)
    /\ agenda' = LET p == WithLoss(g, b)
                     lose == <<Step("lose", g, {b}, "")>>
                 IN  IF notify_ignored(g, b) THEN lose
                     ELSE Execute(g, p, "LOSS") \o SettleInClaim(g, p, "LOSS") \o lose
                            \o RefuseInClaim(g, p, "LOSS")
    /\ UNCHANGED <<settings, journal, audit, published, up, crashes>>

\* All unadopted losses are marked in one transaction, then replayed one by one.
replay_group_losses ==
    /\ Idle
    /\ \E g \in Groups, b \in Branches : journal[g][b] = "lost"
    /\ journal' = [g \in Groups |-> [b \in Branches |->
                      IF journal[g][b] = "lost" THEN "lost_seen" ELSE journal[g][b]]]
    /\ agenda' = LET s == SetToSeq({x \in Groups \X Branches : journal[x[1]][x[2]] = "lost"})
                 IN  [i \in DOMAIN s |-> Step("notify", s[i][1], {s[i][2]}, "")]
    /\ UNCHANGED <<settings, audit, published, up, memory, crashes>>

\* A sweep decides the groups of s in turn, then settles them in turn.
Sweep(s, event, c) ==
    /\ pending' = [g \in Groups |-> IF g \in Range(s) THEN PendingAfter(g, pending[g], event)
                                    ELSE pending[g]]
    /\ cache' = c
    /\ agenda' = FlattenSeq([i \in DOMAIN s |-> Execute(s[i], pending[s[i]], event)])
                    \o FlattenSeq([i \in DOMAIN s |-> Settle(s[i], pending[s[i]], event)])
    /\ UNCHANGED <<settings, journal, audit, published, up, crashes>>

Pending == {g \in Groups : pending[g].on}

check_timeouts ==
    /\ Idle /\ timed
    /\ \E S \in (SUBSET Pending) \ {{}} : \E s \in SetToSeqs(S) :
         Sweep(s, "TIMEOUT", FoldLeft(LAMBDA c, g : CacheAfter(c, g, pending[g], "TIMEOUT"), cache, s))

\* At the end of the sources, once intake has nothing left; it empties the cache.
flush_pending ==
    /\ Idle /\ Pending # {}
    /\ \A g \in Groups, b \in Branches : journal[g][b] \in {"adopted", "done", "lost_seen"}
    /\ \E s \in SetToSeqs(Pending) : Sweep(s, "FLUSH", <<>>)

-----------------------------------------------------------------------------
(* The transactions of a verdict, in the order of the agenda.              *)

Now(op) == up /\ agenda # <<>> /\ Head(agenda).op = op
Set(f, s, v) == [f EXCEPT ![s.g] = [b \in Branches |-> IF b \in s.bs THEN v ELSE f[s.g][b]]]

begin_node_state ==
    /\ Now("open")
    /\ hold' = Set(hold, Head(agenda), "open")
    /\ agenda' = Tail(agenda)
    /\ UNCHANGED <<settings, journal, outcome, made, merged, published, up, memory, crashes>>

\* A survivor of a failing group ("close") or a late token ("late") fails.
complete_node_state ==
    /\ Now("close") \/ Now("late")
    /\ hold' = Set(hold, Head(agenda), "failed")
    /\ agenda' = Tail(agenda)
    /\ UNCHANGED <<settings, journal, outcome, made, merged, published, up, memory, crashes>>

coalesce_tokens ==
    /\ Now("materialize")
    /\ made' = [made EXCEPT ![Head(agenda).g] = @ \cup {Head(agenda).bs}]
    /\ agenda' = Tail(agenda)
    /\ UNCHANGED <<settings, journal, hold, outcome, merged, published, up, memory, crashes>>

\* States, outcomes and the effect in one transaction.
finalize_coalesce_effect ==
    /\ Now("finalize")
    /\ hold' = Set(hold, Head(agenda), "completed")
    /\ outcome' = Set(outcome, Head(agenda), "coalesced")
    /\ merged' = [merged EXCEPT ![Head(agenda).g] = @ \cup {Head(agenda).bs}]
    /\ agenda' = Tail(agenda)
    /\ UNCHANGED <<settings, journal, made, published, up, memory, crashes>>

\* The members' work items and the merged token's, in one transaction.
complete_coalesce_fire ==
    /\ up /\ agenda # <<>> /\ Head(agenda).op \in {"publish", "consume"}
    /\ journal' = Set(journal, Head(agenda), "done")
    /\ published' = [published EXCEPT ![Head(agenda).g] =
                        IF Head(agenda).op = "publish" THEN @ \cup {Head(agenda).bs} ELSE @]
    /\ agenda' = Tail(agenda)
    /\ UNCHANGED <<settings, audit, up, memory, crashes>>

record_token_outcome ==
    /\ Now("outcome")
    /\ outcome' = Set(outcome, Head(agenda), Head(agenda).why)
    /\ agenda' = Tail(agenda)
    /\ UNCHANGED <<settings, journal, hold, made, merged, published, up, memory, crashes>>

mark_blocked_barrier_terminal ==
    /\ Now("release")
    /\ journal' = Set(journal, Head(agenda), "done")
    /\ agenda' = Tail(agenda)
    /\ UNCHANGED <<settings, audit, published, up, memory, crashes>>

\* The claim's disposition records the loss that the barrier was told of.
CommitLoss ==
    /\ Now("lose")
    /\ journal' = Set(journal, Head(agenda), "lost")
    /\ agenda' = Tail(agenda)
    /\ UNCHANGED <<settings, audit, published, up, memory, crashes>>

\* The next of the losses being replayed.
ReplayLoss ==
    /\ Now("notify")
    /\ \E b \in Head(agenda).bs :
         LET g == Head(agenda).g
             p == WithLoss(g, b)
         IN  /\ notify_branch_lost(g, b)
             /\ agenda' = IF notify_ignored(g, b) THEN Tail(agenda)
                          ELSE Execute(g, p, "LOSS") \o Settle(g, p, "LOSS") \o Tail(agenda)
    /\ UNCHANGED <<settings, journal, audit, published, up, crashes>>

reset_adoption_marker_to_pending ==
    /\ Now("reset")
    /\ journal' = Set(journal, Head(agenda), "blocked")
    /\ agenda' = Tail(agenda)
    /\ UNCHANGED <<settings, audit, published, up, memory, crashes>>

-----------------------------------------------------------------------------
(* Crashes and the restore.                                                *)

Down ==
    /\ up' = FALSE /\ agenda' = <<>> /\ cache' = <<>>
    /\ pending' = [g \in Groups |-> Nothing]
    /\ UNCHANGED <<settings, journal, audit, published>>

Crash == up /\ crashes < MaxCrashes /\ crashes' = crashes + 1 /\ Down

\* The merge raises: the members are failed one by one, with their outcome,
\* and the run aborts.
MergeRaises ==
    /\ Now("materialize") /\ crashes < MaxCrashes
    /\ crashes' = crashes + 1
    /\ LET s == SetToSeq(Head(agenda).bs)
           g == Head(agenda).g
       IN  agenda' = FlattenSeq([i \in DOMAIN s |->
                        <<Step("close", g, {s[i]}, ""), Step("outcome", g, {s[i]}, "merge_error")>>])
                     \o <<Step("abort", g, {}, "")>>
    /\ UNCHANGED <<settings, journal, audit, published, up, memory>>

Abort == Now("abort") /\ Down /\ UNCHANGED crashes

\* What the journal and the audit trail say of group g: members of a completed
\* effect that was not published, rows with a hold, rows without one, losses.
Residual(g) == {b \in UNION merged[g] : journal[g][b] = "adopted"}
Held(g) == {b \in Branches : journal[g][b] = "adopted" /\ hold[g][b] = "open"}
Holdless(g) == {b \in Branches \ Residual(g) : journal[g][b] = "adopted" /\ hold[g][b] # "open"}
Lost(g) == {b \in Branches : journal[g][b] \in {"lost", "lost_seen"}}

\* Faulty: a row without a hold is left as it is.
RestoreReset_forgotten(g) == <<>>

\* A row without a hold whose group is open is given back to intake.
RestoreReset(g) ==
    IF Holdless(g) = {} \/ has_completed_group(g) THEN <<>>
    ELSE <<Step("reset", g, Holdless(g), "")>>

\* Faulty: a row without a hold is given back to intake, whatever became of its group.
RestoreRelease_again(g) ==
    IF Holdless(g) = {} \/ ~ has_completed_group(g) THEN <<>>
    ELSE <<Step("reset", g, Holdless(g), "")>>

\* A row without a hold whose group is closed is released.
RestoreRelease(g) ==
    IF Holdless(g) = {} \/ ~ has_completed_group(g) THEN <<>>
    ELSE Each("release", g, Holdless(g), "")

\* Faulty: a committed merge is not looked for.
RestoreResidual_skipped(g) == <<>>

RestoreResidual(g) == IF Residual(g) = {} THEN <<>> ELSE <<Step("publish", g, Residual(g), "")>>

\* Held rows make a pending group even where the group is closed; a group of
\* losses only does where it is not.
RestorePending(g) ==
    IF Held(g) # {} \/ (Lost(g) # {} /\ ~ has_completed_group(g))
      THEN [on |-> TRUE, arrived |-> Held(g), lost |-> Lost(g)] ELSE Nothing

\* A second completed effect for a group with rows left is refused.
restore_from_journal ==
    /\ ~ up /\ up' = TRUE
    /\ \A g \in Groups : Residual(g) # {} \/ Held(g) # {} \/ Holdless(g) # {}
                           => Cardinality(merged[g]) <= 1
    /\ LET s == SetToSeq(Groups)
       IN  agenda' = FlattenSeq([i \in DOMAIN s |-> RestoreRelease(s[i])])
                     \o FlattenSeq([i \in DOMAIN s |-> RestoreResidual(s[i])])
                     \o FlattenSeq([i \in DOMAIN s |-> RestoreReset(s[i])])
    /\ pending' = [g \in Groups |-> RestorePending(g)]
    /\ \E s \in SetToSeqs({g \in Groups : has_completed_group(g)}) :
         cache' = FoldLeft(LAMBDA c, g : mark_completed(c, g, "unknown"), <<>>, s)
    /\ UNCHANGED <<settings, journal, audit, published, crashes>>

-----------------------------------------------------------------------------
Leader ==
    \/ replay_group_losses \/ flush_pending
    \/ \E g \in Groups, b \in Branches : adopt_coalesce_row(g, b)

Transaction ==
    \/ begin_node_state \/ complete_node_state \/ coalesce_tokens \/ finalize_coalesce_effect
    \/ complete_coalesce_fire \/ record_token_outcome \/ mark_blocked_barrier_terminal
    \/ CommitLoss \/ ReplayLoss \/ reset_adoption_marker_to_pending \/ Abort

Worker(g, b) == Reach(g, b) \/ FollowerLoses(g, b) \/ LeaderLoses(g, b)

Next ==
    \/ Leader \/ Transaction \/ check_timeouts \/ restore_from_journal \/ Crash \/ MergeRaises
    \/ \E g \in Groups, b \in Branches : Worker(g, b)

Spec == Init /\ [][Next]_vars

\* The run loop drains intake and flushes, a crashed leader is replaced, and a
\* token whose lease ends is driven again.
FairSpec ==
    /\ Spec
    /\ WF_vars(Leader) /\ WF_vars(Transaction) /\ WF_vars(restore_from_journal)
    /\ \A g \in Groups, b \in Branches : WF_vars(Reach(g, b) \/ FollowerLoses(g, b))

-----------------------------------------------------------------------------
(* Properties.                                                             *)

\* A group is merged only with the branches its policy asks for, whatever was
\* lost, timed out or restored: all of them under require_all, a quorum under quorum,
\* and with the branch that a select merge takes its row from.
MergeIsEntitled ==
    \A g \in Groups : \A M \in merged[g] :
        /\ M # {}
        /\ policy = "require_all" => M = Branches
        /\ policy = "quorum" => Cardinality(M) >= Quorum
        /\ select # 0 => select \in M

\* No branch is both held at the barrier and lost, in the leader's memory or in
\* what a restore would read: a restore refuses such a group, and the run with it.
ArrivedNotLost ==
    \A g \in Groups :
        /\ pending[g].arrived \cap pending[g].lost = {}
        /\ {b \in Branches : hold[g][b] # "none"} \cap Lost(g) = {}

\* Nothing is settled twice, across crashes and restores: the outcome about to
\* be written is the token's first, and so is the merge that consumes it.
SettledOnce ==
    \A i \in DOMAIN agenda : agenda[i].op \in {"outcome", "finalize"} =>
        \A b \in agenda[i].bs : outcome[agenda[i].g][b] = "none"

\* The members of a merge leave the barrier together with the row merged from
\* them: once they are consumed that row is scheduled, so no crash can lose it.
ConsumedWithTheirMerge ==
    \A g \in Groups : \A M \in merged[g] :
        (\A b \in M : journal[g][b] = "done") => M \in published[g]

\* The policies under which a group that a restore rebuilds is always decided.
\* first raises at a branch that waits, and under best_effort or a quorum of one a
\* late branch whose hold was open at a crash merges its group again, which a
\* restore then refuses.
Restorable == policy = "require_all" \/ (policy = "quorum" /\ Quorum > 1)

\* A merge that was committed is published, whatever crashes came between: its
\* merged token goes on.
CommittedMergeIsPublished ==
    Restorable => \A g \in Groups : []<>(merged[g] = published[g])

\* Every token leaves the barrier: none is left adopted and in no group, over
\* arrivals, losses, verdicts and crashes between any two of their transactions.
EveryTokenLeaves ==
    Restorable =>
        <>[](\A g \in Groups, b \in Branches : journal[g][b] \in {"done", "lost", "lost_seen"})
==============================================================================
