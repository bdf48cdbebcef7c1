----------------------------- MODULE MCMemoryLock -----------------------------
(* Four callers of whom two present the same token. *)
EXTENDS MemoryLock, TLC

CONSTANTS p1, p2, p3, p4

FourCallers == {p1, p2, p3, p4}
SharedToken == [p \in FourCallers |-> IF p = p2 THEN p1 ELSE p]
=============================================================================
