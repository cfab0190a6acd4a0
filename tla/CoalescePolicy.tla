---------------------------- MODULE CoalescePolicy ----------------------------
(***************************************************************************)
(* decide_coalesce: what a coalesce point does with the group of branches  *)
(* of one forked row when a branch arrives, when one is reported lost,     *)
(* when its timeout passes and when the sources have ended.                *)
(***************************************************************************)
EXTENDS Integers

CONSTANTS
    Expected,  \* branches a group waits for
    Quorum     \* branches the quorum policy asks for

ASSUME PolicyAssumption == Expected \in Nat \ {0} /\ Quorum \in 1 .. Expected

Policies == {"require_all", "first", "quorum", "best_effort"}

\* Faulty: a lost branch counts towards the quorum.
decide_quorum_lost(event, arrived, lost) ==
    IF event = "LOSS" /\ Expected - lost < Quorum THEN "FAIL"
    ELSE IF arrived + lost >= Quorum THEN "MERGE"
    ELSE IF event \in {"TIMEOUT", "FLUSH"} THEN "FAIL" ELSE "WAIT"

decide_quorum(event, arrived, lost) ==
    IF event = "LOSS" /\ Expected - lost < Quorum THEN "FAIL"
    ELSE IF arrived >= Quorum THEN "MERGE"
    ELSE IF event \in {"TIMEOUT", "FLUSH"} THEN "FAIL" ELSE "WAIT"

decide_require_all(event, arrived, lost) ==
    IF event = "ARRIVAL"
      THEN IF arrived = Expected THEN "MERGE" ELSE "WAIT"
      ELSE "FAIL"

\* "RAISE": the policy merges at the first arrival, so a branch that waits is a bug.
decide_first(event, arrived, lost) ==
    IF event = "ARRIVAL" THEN IF arrived >= 1 THEN "MERGE" ELSE "WAIT"
    ELSE IF event = "LOSS" THEN IF arrived = 0 /\ lost >= Expected THEN "FAIL" ELSE "WAIT"
    ELSE IF arrived = 0 THEN "FAIL" ELSE "RAISE"

decide_best_effort(event, arrived, lost) ==
    IF event \in {"ARRIVAL", "LOSS"} /\ arrived + lost < Expected THEN "WAIT"
    ELSE IF arrived > 0 THEN "MERGE" ELSE "FAIL"

decide_coalesce(policy, event, arrived, lost) ==
    IF policy = "require_all" THEN decide_require_all(event, arrived, lost)
    ELSE IF policy = "first" THEN decide_first(event, arrived, lost)
    ELSE IF policy = "quorum" THEN decide_quorum(event, arrived, lost)
    ELSE decide_best_effort(event, arrived, lost)
==============================================================================
