----------------------------- MODULE MCWorkerPool -----------------------------
(* Bounds for checking one worker process. *)
EXTENDS WorkerPool

CONSTANTS w1, s1, s2

MCWorkers == {w1}
TwoSlots == {s1, s2}
MCClaims == {1}

\* No step of PoolNext but ReportGone reads reports and none that is fair
\* changes them alone, so what the rest of the state does is independent of
\* them.
WithoutReports == <<life, fetch, jobs, slots, active>>
=============================================================================
