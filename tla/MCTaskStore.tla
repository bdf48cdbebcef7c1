----------------------------- MODULE MCTaskStore -----------------------------
(* Model values and bounds for checking TaskStore. *)
EXTENDS TaskStore, TLC

CONSTANTS w1, w2

MCWorkers == {w1, w2}
MCMaxRetries == {0, 1}
MCSymmetry == Permutations(MCWorkers)
=============================================================================
