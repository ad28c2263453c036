-------------------------- MODULE MCRequestSession --------------------------
(* Two clients and four keys, one or more of which the clients may have    *)
(* invented.  Keys, clients and requests are interchangeable.              *)
EXTENDS RequestSession, TLC

CONSTANTS k1, k2, k3, k4, c1, c2, r1, r2, r3

FourKeys == {k1, k2, k3, k4}
TwoClients == {c1, c2}
ThreeRequests == {r1, r2, r3}
Symmetry ==
    Permutations(FourKeys) \cup Permutations(TwoClients) \cup Permutations(ThreeRequests)
=============================================================================
