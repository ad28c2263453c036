---------------------------- MODULE MCHttpServer ----------------------------
(* The HTTP server for TLC: a connection that pipelines three requests, or *)
(* two of a request each that compete for the listener.                    *)
EXTENDS HttpServer

CONSTANTS c1, c2

Peers == {c1, c2}
OneLongOrTwoShort == {[c \in Peers |-> IF c = c1 THEN 3 ELSE 0], [c \in Peers |-> 1]}
OneShort == {[c \in Peers |-> IF c = c1 THEN 1 ELSE 0]}
=============================================================================
