---------------------------- MODULE MCAggregation ----------------------------
(***************************************************************************)
(* Settings for small instances of Aggregation.  No step depends on both   *)
(* the output mode and on_error, so one of each suffices.                  *)
(***************************************************************************)
EXTENDS Aggregation

Modes == {[transform |-> TRUE, discard |-> FALSE],
          [transform |-> FALSE, discard |-> TRUE]}
==============================================================================
