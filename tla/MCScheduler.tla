----------------------------- MODULE MCScheduler -----------------------------
(* Definitions with names of their own. *)
EXTENDS Scheduler

CONSTANTS w1

MCWorkers == {w1}
NoRetry == {0}
OwnNames == [d \in 1 .. MaxId |-> d]
=============================================================================
