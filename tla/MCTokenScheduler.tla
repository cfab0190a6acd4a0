--------------------------- MODULE MCTokenScheduler ----------------------------
(* Small instances of TokenScheduler for TLC. *)
EXTENDS TokenScheduler, TLC

CONSTANTS w1, w2, w3, p, c

WorkerSymmetry == Permutations(Workers)

\* c is p's child: p forks it, or a barrier that holds p produces it.
ForkParent == (p :> Nil) @@ (c :> p)
================================================================================
