----------------------- MODULE MCDbConnectionManager -----------------------
(* Three worker threads for the pool.  They are not interchangeable for    *)
(* TLC: a liveness property is checked, which symmetry would spoil.        *)
EXTENDS DbConnectionManager

CONSTANTS w1, w2, w3

ThreeThreads == {w1, w2, w3}
=============================================================================
