------------------------------ MODULE MCPresence ------------------------------
(* Model values and bounds for checking Presence. *)
EXTENDS Presence, TLC

CONSTANTS w1, c1, h1, h2, h3

MCAddress == [w \in Workers |-> c1]     \* the workers of one host share its address
MCSymmetry == Permutations(Handlers)
=============================================================================
