---------------------------- MODULE MCUserAccounts ----------------------------
(* Three requests about two names for TLC.                                 *)
EXTENDS UserAccounts

CONSTANTS r1, r2, r3, n1, n2
=============================================================================
