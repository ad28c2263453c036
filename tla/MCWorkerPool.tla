----------------------------- MODULE MCWorkerPool -----------------------------
(* Requests of WebApp for TLC: two that need the database, one that makes  *)
(* a request of its own, a websocket.                                      *)
EXTENDS WorkerPool

CONSTANTS d1, d2, s1, e1, w1, c1

EchoOfOne == [s \in {s1} |-> e1]
=============================================================================
