----------------------------- MODULE SinkDelivery ------------------------------
(***************************************************************************)
(* What publication through sink effects promises about each token: its    *)
(* outcome is decided once, accepted only if its row reached the target or *)
(* needed no publication; and while it is undecided the leader in charge   *)
(* publishes it at most once.  Requests whose sender was deposed or gave   *)
(* up may still land, at any time: that much duplication is accepted.      *)
(***************************************************************************)
EXTENDS Naturals

CONSTANT Tokens

VARIABLES
    published,  \* how often the leader in charge has published each token
    stray,      \* tokens published by a request nobody waited for any more
    outcome     \* what the audit trail says became of each token

deliveryVars == <<published, stray, outcome>>

Init ==
    /\ published = [t \in Tokens |-> 0]
    /\ stray = {}
    /\ outcome = [t \in Tokens |-> "open"]

Publish(S) ==
    /\ \A t \in S : published[t] = 0 /\ outcome[t] = "open"
    /\ published' = [t \in Tokens |-> IF t \in S THEN 1 ELSE published[t]]
    /\ UNCHANGED <<stray, outcome>>

Stray(S) ==
    /\ stray' = stray \cup S
    /\ UNCHANGED <<published, outcome>>

\* The tokens of one effect are decided together.
Decide(S) ==
    /\ \A t \in S : outcome[t] = "open"
    /\ outcome' \in [Tokens -> {"open", "accepted", "diverted", "covered"}]
    /\ \A t \in Tokens :
          /\ t \notin S => outcome'[t] = outcome[t]
          /\ t \in S => outcome'[t] # "open"
          /\ t \in S /\ outcome'[t] = "accepted" => published[t] = 1 \/ t \in stray
    /\ UNCHANGED <<published, stray>>

Next == \E S \in SUBSET Tokens : Publish(S) \/ Stray(S) \/ Decide(S)

Spec == Init /\ [][Next]_deliveryVars
================================================================================
