--------------------------- MODULE MCEngineClock ----------------------------
(* A small instance of EngineClock for TLC. *)
EXTENDS EngineClock, TLC

CONSTANTS r1, r2

MCRequests == {r1, r2}
MCClaims == {[boots |-> MaxBoots, time |-> TimeCeiling]}

\* Callers may be exchanged for one another.
Symmetry == Permutations(MCRequests)
=============================================================================
