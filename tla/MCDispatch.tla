------------------------------ MODULE MCDispatch ------------------------------
(* Bounds for checking Dispatch. *)
EXTENDS Dispatch, TLC

CONSTANTS w1, w2, s1, s2

OneWorker == {w1}
TwoWorkers == {w1, w2}
OneSlot == {s1}
TwoSlots == {s1, s2}
MCMaxRetries == {0, 1}
NoRetry == {0}
OneRetry == {1}
AnyRetries == [t \in Ids |-> MaxRetries]
FirstRetries == [t \in Ids |-> IF t = 1 THEN {1} ELSE {0}]
AllEnv == {"stop", "restart", "delete", "expire", "lose",
           "sigterm", "crash", "boot", "server restart"}
MCSymmetry == Permutations(TwoWorkers) \cup Permutations(TwoSlots)
LossEnv == {"lose", "server restart"}
ExpireEnv == {"expire"}
StopEnv == {"stop"}
=============================================================================
