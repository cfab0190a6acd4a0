------------------------------ MODULE TokenLedger ------------------------------
(***************************************************************************)
(* What the work journal promises about the tokens of a run, however many  *)
(* workers, attempts, crashes and takeovers it takes: a token is admitted  *)
(* once and gets one final fate; nothing is admitted or decided unless the *)
(* run is open; a run succeeds only with every token decided; a stopped    *)
(* run gives up all of its undecided tokens or none, and one that gave     *)
(* them up makes no progress and never succeeds, even if it is reopened.   *)
(***************************************************************************)
CONSTANT Tokens

VARIABLES fate, state

ledgerVars == <<fate, state>>

With(f) == {t \in Tokens : fate[t] = f}

Init ==
    /\ fate = [t \in Tokens |-> "absent"]
    /\ state = "closed"

Open ==
    /\ state \in {"closed", "stopped"}
    /\ state' = "open"
    /\ UNCHANGED fate

\* Admit some tokens and decide some pending ones, in one transaction.
Progress ==
    /\ state = "open" /\ With("abandoned") = {} /\ UNCHANGED state
    /\ fate' \in [Tokens -> {"absent", "pending", "decided"}]
    /\ \A t \in Tokens : <<fate[t], fate'[t]>> \in
          {<<"absent", "absent">>, <<"absent", "pending">>, <<"pending", "pending">>,
           <<"pending", "decided">>, <<"decided", "decided">>}

Succeed ==
    /\ state = "open" /\ With("pending") = {} /\ With("abandoned") = {}
    /\ state' = "succeeded"
    /\ UNCHANGED fate

Stop ==
    /\ state = "open"
    /\ state' = "stopped"
    /\ fate' \in {fate, [t \in Tokens |-> IF fate[t] = "pending" THEN "abandoned" ELSE fate[t]]}

Next == Open \/ Progress \/ Succeed \/ Stop

Spec == Init /\ [][Next]_ledgerVars
================================================================================
