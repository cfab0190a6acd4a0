----------------------------- MODULE Aggregation -----------------------------
(***************************************************************************)
(* The batches of one aggregation node: adoption of blocked rows, the      *)
(* flush with the transactions of its outcome, and the recovery of a       *)
(* resumed leader (engine/executors/aggregation.py, processor.py,          *)
(* barrier_coordination.py, core/landscape/execution/batches.py).          *)
(*                                                                         *)
(* One action is one transaction.  The leader is one thread: what it has   *)
(* begun stands on its agenda, a sequence of transactions of which it      *)
(* takes the first; only a crash comes between.  When a batch is flushed   *)
(* is the subject of AggregationTrigger; here it may be at any time.       *)
(*                                                                         *)
(* A plugin's result: "rows" (a successful flush with output), "empty"     *)
(* (without), "error" (a returned error or a Tier-2 violation, the final   *)
(* verdict), "raises" (any other exception), "violation" (a Tier-1         *)
(* violation: every member is recorded failed, then the run dies).         *)
(***************************************************************************)
EXTENDS Integers, Sequences, FiniteSetsExt, Functions

CONSTANTS
    Tokens,        \* the tokens bound for the node
    Settings,      \* records [transform, discard]: the output mode is
                   \* transform or passthrough, on_error discard or a sink
    Results,       \* what the plugin may answer
    MaxFailed,     \* batches after which the plugin no longer raises
    MaxCrashes

ASSUME ResultsAreKnown ==
    /\ Results \subseteq {"rows", "empty", "error", "raises", "violation"}
    /\ Settings \subseteq [transform : BOOLEAN, discard : BOOLEAN]

VARIABLES
    settings,      \* the node's output mode and on_error
    journal,       \* per token: "source" | "blocked" | "adopted" | "left"
    buffered,      \* batch of the token's BUFFERED outcome, 0 before
    terminal,      \* terminal outcome: "none" | "consumed" | "unrouted" | ...
    batches,       \* [status, members, retryOf, verdict, quarantined,
                   \*  children, published] by id
    batch,         \* memory: the batch in progress, 0 for none
    tokens,        \* memory: the buffered tokens
    agenda,        \* memory: the transactions the leader has still to make
    leader,        \* "up" | "down" | "refused" (down after a resume that raised)
    crashes,
    answered       \* ghost: how often the plugin's verdict on a token came in

landscape == <<journal, buffered, terminal, batches>>
memory    == <<batch, tokens>>
vars      == <<settings, landscape, memory, agenda, leader, crashes, answered>>

Ids == DOMAIN batches
Members(b) == Range(batches[b].members)
adopted == {t \in Tokens : journal[t] = "adopted"}

Draft(members, of) ==
    [status |-> "draft", members |-> members, retryOf |-> of,
     verdict |-> "none", quarantined |-> {}, children |-> 0, published |-> FALSE]

Step(op, b, ts) == [op |-> op, batch |-> b, tokens |-> ts, rows |-> {}]
Rebuild(b, rows) == [op |-> "rebuild", batch |-> b, tokens |-> <<>>, rows |-> rows]
Doing(op) == leader = "up" /\ agenda # <<>> /\ Head(agenda).op = op
Done == agenda' = Tail(agenda)
Idle == leader = "up" /\ agenda = <<>>

Dies ==
    /\ leader' = "down" /\ agenda' = <<>> /\ batch' = 0 /\ tokens' = <<>>

Init ==
    /\ settings \in Settings
    /\ journal = [t \in Tokens |-> "source"]
    /\ buffered = [t \in Tokens |-> 0]
    /\ terminal = [t \in Tokens |-> "none"]
    /\ batches = <<>>
    /\ batch = 0 /\ tokens = <<>> /\ agenda = <<>>
    /\ leader = "up" /\ crashes = 0
    /\ answered = [t \in Tokens |-> 0]

-------------------------------------------------------------------------------
(* Arrival and adoption.                                                   *)

mark_blocked(t) ==
    /\ journal[t] = "source"
    /\ journal' = [journal EXCEPT ![t] = "blocked"]
    /\ UNCHANGED <<settings, buffered, terminal, batches, memory, agenda, leader, crashes, answered>>

open_batch_membership ==
    /\ Idle /\ batch = 0
    /\ \E t \in Tokens : journal[t] = "blocked"
    /\ batches' = Append(batches, Draft(<<>>, 0))
    /\ batch' = Len(batches')
    /\ UNCHANGED <<settings, journal, buffered, terminal, tokens, agenda, leader, crashes, answered>>

adopt_blocked_barrier_item(t) ==
    /\ Idle /\ batch # 0 /\ journal[t] = "blocked"
    /\ journal' = [journal EXCEPT ![t] = "adopted"]
    /\ buffered' = [buffered EXCEPT ![t] = batch]
    /\ batches' = [batches EXCEPT ![batch].members = Append(batches[batch].members, t)]
    /\ tokens' = Append(tokens, t)
    /\ UNCHANGED <<settings, terminal, batch, agenda, leader, crashes, answered>>

-------------------------------------------------------------------------------
(* The flush.                                                              *)

execute_flush ==
    /\ Idle /\ tokens # <<>>
    /\ batches' = [batches EXCEPT ![batch].status = "executing"]
    /\ agenda' = <<Step("plugin", batch, tokens)>>
    /\ UNCHANGED <<settings, journal, buffered, terminal, memory, leader, crashes, answered>>

\* What is still to do for a batch whose result is recorded.
Disposal(b, verdict) ==
    (IF settings.transform /\ verdict = "rows" THEN <<Step("expand", b, <<>>)>> ELSE <<>>)
        \o <<Step("complete", b, <<>>)>>

Answer(b, result, verdict, Q) ==
    /\ batches' = [batches EXCEPT
           ![b].status = IF result = "error" THEN "failed" ELSE "completed",
           ![b].verdict = verdict, ![b].quarantined = Q]
    /\ answered' = [t \in Tokens |->
           IF t \in Members(b) THEN answered[t] + 1 ELSE answered[t]]
    /\ agenda' = Disposal(b, result)
    /\ batch' = 0 /\ tokens' = <<>>
    /\ UNCHANGED <<settings, journal, buffered, terminal, leader, crashes>>

\* Faulty: an error fails the batch, and its verdict is only disposed of.
complete_without_verdict ==
    /\ Doing("plugin")
    /\ \E result \in Results \cap {"rows", "empty", "error"} :
         Answer(Head(agenda).batch, result, IF result = "error" THEN "none" ELSE result, {})

\* The members a successful result of a transform-mode batch may set aside
\* (quarantined_indices): any, but not all of them beside output.
Quarantines(b, result) ==
    IF ~settings.transform \/ result = "error" THEN {{}}
    ELSE {Q \in SUBSET Members(b) : result = "rows" => Q # Members(b)}

\* The plugin answers, and the answer is recorded in one transaction, with
\* the action due for every member.
complete_aggregation_result ==
    /\ Doing("plugin")
    /\ \E result \in Results \cap {"rows", "empty", "error"} :
         \E Q \in Quarantines(Head(agenda).batch, result) :
             Answer(Head(agenda).batch, result, result, Q)

\* Any other exception fails the batch without a verdict and ends the run.
fail_unfinalized_batch ==
    /\ Doing("plugin") /\ "raises" \in Results /\ Len(batches) < MaxFailed
    /\ batches' = [batches EXCEPT ![Head(agenda).batch].status = "failed"]
    /\ Dies
    /\ UNCHANGED <<settings, journal, buffered, terminal, crashes, answered>>

\* A Tier-1 violation: the members fail one transaction at a time.
violate ==
    /\ Doing("plugin") /\ "violation" \in Results /\ Len(batches) < MaxFailed
    /\ agenda' = <<Step("unrouted", Head(agenda).batch, Head(agenda).tokens)>>
    /\ UNCHANGED <<settings, landscape, memory, leader, crashes, answered>>

record_batch_violation_failure ==
    /\ Doing("unrouted")
    /\ LET step == Head(agenda) IN
       /\ terminal' = [terminal EXCEPT ![Head(step.tokens)] = "unrouted"]
       /\ IF Len(step.tokens) = 1 THEN Dies
          ELSE /\ agenda' = <<Step("unrouted", step.batch, Tail(step.tokens))>>
               /\ UNCHANGED <<memory, leader>>
    /\ UNCHANGED <<settings, journal, buffered, batches, crashes, answered>>

\* The children of a transform-mode batch are minted and every member is
\* consumed, or quarantined, in one transaction; the children are scheduled
\* nowhere yet.
expand_token ==
    /\ Doing("expand")
    /\ LET b == Head(agenda).batch IN
       /\ batches[b].children = 0
       /\ batches' = [batches EXCEPT ![b].children = 1]
       /\ terminal' = [t \in Tokens |->
              IF t \notin Members(b) THEN terminal[t]
              ELSE IF t \in batches[b].quarantined THEN "quarantined" ELSE "consumed"]
    /\ Done
    /\ UNCHANGED <<settings, journal, buffered, memory, leader, crashes, answered>>

\* What complete_barrier records of members: a batch sent on to a sink, its
\* on_error sink included, gets its outcome there.
Terminal(b, t) ==
    IF t \in batches[b].quarantined \/ (batches[b].verdict = "error" /\ settings.discard)
    THEN "quarantined"
    ELSE IF batches[b].verdict = "empty" THEN "filtered" ELSE "none"

\* Faulty: the members are released, and the children not scheduled with them.
release_members ==
    /\ Doing("complete")
    /\ journal' = [t \in Tokens |->
           IF t \in Members(Head(agenda).batch) THEN "left" ELSE journal[t]]
    /\ Done
    /\ UNCHANGED <<settings, buffered, terminal, batches, memory, leader, crashes, answered>>

\* One transaction releases the members and schedules what replaces them;
\* the terminals of an empty or discarded batch are written in it.
complete_barrier ==
    /\ Doing("complete")
    /\ LET b == Head(agenda).batch IN
       /\ journal' = [t \in Tokens |-> IF t \in Members(b) THEN "left" ELSE journal[t]]
       /\ terminal' = [t \in Tokens |->
              IF t \in Members(b) /\ terminal[t] = "none"
              THEN Terminal(b, t) ELSE terminal[t]]
       /\ batches' = [batches EXCEPT ![b].published = TRUE]
    /\ Done
    /\ UNCHANGED <<settings, buffered, memory, leader, crashes, answered>>

-------------------------------------------------------------------------------
(* Crash and resume.                                                       *)

Crash ==
    /\ leader = "up" /\ crashes < MaxCrashes
    /\ crashes' = crashes + 1
    /\ Dies
    /\ UNCHANGED <<settings, landscape, answered>>

Retried(b) == \E c \in Ids : batches[c].retryOf = b

\* Batches whose flush has to run again.
Incomplete(b) ==
    \/ batches[b].status = "executing"
    \/ batches[b].status = "failed" /\ batches[b].verdict = "none" /\ ~Retried(b)

\* The next transaction of handle_incomplete_batches, oldest batch first:
\* an interrupted batch is failed, a failed one retried with its members.
handle_incomplete_batches ==
    /\ leader \in {"down", "refused"}
    /\ \E b \in Ids : Incomplete(b)
    /\ LET b == Min({c \in Ids : Incomplete(c)}) IN
       IF batches[b].status = "executing"
       THEN batches' = [batches EXCEPT ![b].status = "failed"]
       ELSE batches' = Append(batches, Draft(batches[b].members, b))
    /\ UNCHANGED <<settings, journal, buffered, terminal, memory, agenda, leader, crashes, answered>>

\* Faulty: one lookup instead of the chain.
resolve_retry_once(b) ==
    IF Retried(b) THEN CHOOSE c \in Ids : batches[c].retryOf = b ELSE b

resolve_retry_chain(b) ==
    LET end[c \in Ids] ==
          IF Retried(c) THEN end[CHOOSE d \in Ids : batches[d].retryOf = c] ELSE c
    IN  end[b]

\* The recorded results whose members are still held.
Residuals == {b \in Ids : batches[b].verdict # "none" /\ Members(b) \cap adopted # {}}

\* Faulty: a committed expansion is expanded again.
ResidualSteps_again(b) == Disposal(b, batches[b].verdict)

ResidualSteps(b) ==
    IF batches[b].children # 0 THEN <<Step("complete", b, <<>>)>>
    ELSE Disposal(b, batches[b].verdict)

\* The recorded results are completed one after the other.
ResidualAgenda ==
    LET upTo[b \in 0..Len(batches)] ==
          IF b = 0 THEN <<>>
          ELSE upTo[b - 1] \o (IF b \in Residuals THEN ResidualSteps(b) ELSE <<>>)
    IN  upTo[Len(batches)]

\* Rows that neither a recorded result nor a recorded failure accounts for
\* go back into the batch their BUFFERED outcomes lead to.
Unsettled ==
    {t \in adopted : terminal[t] # "unrouted" /\ \A b \in Residuals : t \notin Members(b)}

\* The derivations of restore_from_journal: failed members are released,
\* the rest must belong to one batch that can still flush.
restore_from_journal ==
    /\ leader \in {"down", "refused"}
    /\ ~ \E b \in Ids : Incomplete(b)
    /\ journal' = [t \in Tokens |->
           IF /\ t \in adopted /\ terminal[t] = "unrouted"
              /\ \A b \in Residuals : t \notin Members(b)
           THEN "left" ELSE journal[t]]
    /\ LET tips == {resolve_retry_chain(buffered[t]) : t \in Unsettled}
       IN  IF \/ \E b, c \in tips : b # c
              \/ \E b \in tips : batches[b].status \in {"completed", "failed"}
           THEN leader' = "refused" /\ UNCHANGED agenda
           ELSE /\ leader' = "up"
                /\ agenda' = ResidualAgenda \o (IF tips = {} THEN <<>>
                     ELSE <<Rebuild(CHOOSE b \in tips : TRUE, Unsettled)>>)
    /\ UNCHANGED <<settings, buffered, terminal, batches, memory, crashes, answered>>

\* The executor takes the batch over if its members are the rows restored.
rebuild_batch ==
    /\ Doing("rebuild")
    /\ LET step == Head(agenda) IN
       IF step.rows = Members(step.batch)
       THEN batch' = step.batch /\ tokens' = batches[step.batch].members
            /\ Done /\ UNCHANGED leader
       ELSE leader' = "refused" /\ agenda' = <<>> /\ UNCHANGED memory
    /\ UNCHANGED <<settings, landscape, crashes, answered>>

Next ==
    \/ \E t \in Tokens : mark_blocked(t) \/ adopt_blocked_barrier_item(t)
    \/ open_batch_membership \/ execute_flush
    \/ complete_aggregation_result \/ fail_unfinalized_batch
    \/ violate \/ record_batch_violation_failure
    \/ expand_token \/ complete_barrier
    \/ Crash \/ handle_incomplete_batches \/ restore_from_journal \/ rebuild_batch

Spec == Init /\ [][Next]_vars

\* The leader's thread works off its agenda, a resume what it finds.
Proceed ==
    \/ complete_aggregation_result \/ record_batch_violation_failure
    \/ expand_token \/ complete_barrier \/ rebuild_batch

Resume == handle_incomplete_batches \/ restore_from_journal

\* The rows arrive, the leader's thread keeps going, and a run that died is
\* resumed.  A plugin call ends; an exception is possible as long as
\* MaxFailed allows.
LiveSpec ==
    /\ Spec
    /\ \A t \in Tokens : WF_vars(mark_blocked(t)) /\ WF_vars(adopt_blocked_barrier_item(t))
    /\ WF_vars(open_batch_membership) /\ WF_vars(execute_flush)
    /\ WF_vars(Proceed) /\ WF_vars(Resume)

-------------------------------------------------------------------------------
\* Types.
TypeOK ==
    /\ journal \in [Tokens -> {"source", "blocked", "adopted", "left"}]
    /\ buffered \in [Tokens -> 0..Len(batches)]
    /\ terminal \in [Tokens -> {"none", "consumed", "unrouted", "filtered", "quarantined"}]
    /\ batch \in 0..Len(batches)
    /\ leader \in {"up", "down", "refused"}

\* "Crash timing must not change the outcome": once the plugin's answer on a
\* batch is recorded, no resume runs the plugin on its members again.
AnsweredOnce == \A t \in Tokens : answered[t] <= 1

\* The members of a batch leave the journal in the transaction that schedules
\* what replaces them (complete_barrier): none is consumed with the children
\* of its batch lost, and the ones its result quarantined are neither consumed
\* nor dropped, whichever leader disposes of them.
LeftWithTheirOutput ==
    \A b \in Ids : batches[b].verdict # "none" =>
        \A t \in Members(b) :
            /\ journal[t] = "left" <=> batches[b].published
            /\ IF t \in batches[b].quarantined
               THEN terminal[t] = "quarantined" <=> batches[b].children # 0 \/ batches[b].published
               ELSE terminal[t] = "consumed" <=> batches[b].children # 0

\* Some members of a batch have failed in a Tier-1 violation, and others not.
FailedPartway ==
    \E b \in Ids : \E t, u \in Members(b) : terminal[t] = "unrouted" /\ terminal[u] = "none"

\* "resume reconciles the terminally failed members": over any crashes, retries
\* and retries of retries every resume finds the held rows and the batches in
\* agreement.  The one exception is a batch whose members a crash left failed
\* partway, between two transactions of record_batch_violation_failures.
RefusedOnlyPartway == leader = "refused" => FailedPartway

\* Every row that reaches the node leaves it, through exceptions, violations,
\* crashes and resumes at any point between the transactions of a flush, unless
\* every further resume of the run is refused.
EveryTokenLeaves ==
    <>(\A t \in Tokens : journal[t] = "left") \/ []<>(leader = "refused")
===============================================================================
