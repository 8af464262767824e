----------------------------- MODULE MCMarkDone -----------------------------
(* Two Ps and two workers. *)
EXTENDS MarkDone, TLC

CONSTANTS p1, p2, w1, w2

MCProcs == {p1, p2}
TwoWorkers == {w1, w2}

Symmetry == Permutations(Procs) \cup Permutations(Workers)
=============================================================================
