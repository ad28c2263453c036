----------------------- MODULE MCMemorySessionManager -----------------------
(* Three keys, three integers, and a clock long enough for a session to be   *)
(* visited at its last instant, to expire, and for its key to be drawn     *)
(* again.  The keys are random strings: any permutation of them will do.   *)
EXTENDS MemorySessionManager, TLC

CONSTANTS k1, k2, k3

ThreeKeys == {k1, k2, k3}
KeySymmetry == Permutations(ThreeKeys)
=============================================================================
