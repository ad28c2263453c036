-------------------------- MODULE MCSessionHandlers --------------------------
(* Requests of one session for TLC.  Any permutation of them will do.      *)
EXTENDS SessionHandlers, TLC

CONSTANTS r1, r2, r3, r4, u1

FourRequests == {r1, r2, r3, r4}
RequestSymmetry == Permutations(FourRequests)
=============================================================================
