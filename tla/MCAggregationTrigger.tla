------------------------ MODULE MCAggregationTrigger ------------------------
(***************************************************************************)
(* Trigger settings for small instances of AggregationTrigger.             *)
(***************************************************************************)
EXTENDS AggregationTrigger

CountOrTimeout == [count |-> 2, timeout |-> 2, condition |-> {}]
CountOnly      == [count |-> 2, timeout |-> 9, condition |-> {}]
\* Window conditions: two rows one tick apart; a lone row one tick old.
WindowOrCount  == [count |-> 3, timeout |-> 3, condition |-> {<<2, 1>>}]
AgeOrTimeout   == [count |-> 9, timeout |-> 3, condition |-> {<<1, 1>>, <<2, 2>>}]

Triggers == {CountOnly, CountOrTimeout, WindowOrCount, AgeOrTimeout}

\* Offsets outlive their batch only over four rows and three stops.
Small ==
    [c \in Triggers |->
        IF c = CountOnly THEN [rows |-> 4, time |-> 1, stops |-> 3]
        ELSE [rows |-> 3, time |-> 3, stops |-> 2]]
=============================================================================
