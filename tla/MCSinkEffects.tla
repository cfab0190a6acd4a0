----------------------------- MODULE MCSinkEffects -----------------------------
(* Instances of SinkEffects for TLC. *)
EXTENDS SinkEffects

\* Any group may be flushed, until the last leader flushes all there is.
AnyGroup == [k \in 1 .. MaxEpoch |-> IF k < MaxEpoch THEN SUBSET Tokens ELSE {Tokens}]

TrueClocks == [k \in 1 .. MaxEpoch |-> 0]

\* The first leader's clock runs ahead.
FastFirst == [k \in 1 .. MaxEpoch |-> IF k = 1 THEN 3 ELSE 0]
================================================================================
