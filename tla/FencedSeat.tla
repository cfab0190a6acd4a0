------------------------------ MODULE FencedSeat ------------------------------
(***************************************************************************)
(* What run coordination promises its callers about the leader seat of one *)
(* run, free of clocks, heartbeats and registry rows: the seat has at most *)
(* one holder, every grant carries a fresh epoch, and an identity that     *)
(* lost or gave back the seat never holds it again.  RunCoordination is    *)
(* shown to implement it.                                                  *)
(***************************************************************************)
EXTENDS Naturals

CONSTANTS Workers,    \* worker identities, each minted once
          NoWorker    \* the holder of a vacant seat

VARIABLES holder,     \* the identity in the seat
          epoch,      \* number of grants so far
          retired     \* identities that held the seat and no longer do

seatVars == <<holder, epoch, retired>>

FormerHolder == {holder} \ {NoWorker}

Init == holder = NoWorker /\ epoch = 0 /\ retired = {}

Grant(w) ==
    /\ w \notin retired \cup {holder}
    /\ holder' = w
    /\ epoch' = epoch + 1
    /\ retired' = retired \cup FormerHolder

Vacate ==
    /\ holder # NoWorker
    /\ holder' = NoWorker
    /\ retired' = retired \cup FormerHolder
    /\ UNCHANGED epoch

Next == Vacate \/ \E w \in Workers : Grant(w)

Spec == Init /\ [][Next]_seatVars
===============================================================================
