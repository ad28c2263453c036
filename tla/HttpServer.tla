----------------------------- MODULE HttpServer -----------------------------
(***************************************************************************)
(* The listener and the HTTP sessions of the server (bserv/bserv.cpp).     *)
(* Every handler runs on an executor of one io_context; the handlers of a  *)
(* connection never run at the same time, those of different connections   *)
(* interleave.  A completed operation and the run of its handler are two   *)
(* steps: the peer may act between them.                                   *)
(*                                                                         *)
(* ops[c] holds the operations of connection c that are in progress and    *)
(* the handlers that are queued.  Each of them holds a shared_ptr to the   *)
(* session, so a session lives as long as its ops are not empty.           *)
(***************************************************************************)
EXTENDS Naturals, Sequences

CONSTANTS Connections,  \* the connections peers open
          Workloads     \* bounds on the requests of each connection, 0 for none at all

ASSUME ConnectionsAssumption == Connections \cap {"armed", "failed"} = {}
ASSUME WorkloadsAssumption == Workloads \subseteq [Connections -> Nat]

\* What a request asks of the connection: to stay open, to close after the
\* response, to become a websocket, or it cannot be parsed or is too large.
Kinds == {"keep", "close", "upgrade", "bad"}
Outcomes == {"none", "eof", "error", "written"} \cup Kinds
Ops == {"do_read", "read", "on_read", "handle", "write", "on_write", "websocket"}

VARIABLES running,  \* no exception has left ioc_.run()
          backlog,  \* connections the kernel holds for the acceptor
          accept,   \* the async_accept: "armed", "failed", or the new connection
          bound,    \* the one of Workloads that the peers keep to
          peer,     \* the other end: "absent", "open", "finished", "reset"
          kinds,    \* the requests the peer sent, in order
          inbox,    \* those that were not read yet
          ops,      \* see above
          outcome,  \* how the last operation of the connection ended
          taken,    \* the number of requests that were parsed
          res,      \* res_: the request whose response is kept, 0 for none
          answers,  \* the responses the peer received
          timer,    \* the deadline of the stream: "off", "armed", "expired"
          shut      \* do_close was called

listenVars == <<running, backlog, accept>>
peerVars == <<bound, peer, kinds, inbox, answers>>
sessionVars == <<ops, outcome, taken, res, timer, shut>>
vars == <<listenVars, peerVars, sessionVars>>

Init == /\ running = TRUE
        /\ backlog = {}
        /\ accept = "armed"
        /\ bound \in Workloads
        /\ peer = [c \in Connections |-> "absent"]
        /\ kinds = [c \in Connections |-> <<>>]
        /\ inbox = [c \in Connections |-> <<>>]
        /\ ops = [c \in Connections |-> {}]
        /\ outcome = [c \in Connections |-> "none"]
        /\ taken = [c \in Connections |-> 0]
        /\ res = [c \in Connections |-> 0]
        /\ answers = [c \in Connections |-> <<>>]
        /\ timer = [c \in Connections |-> "off"]
        /\ shut = [c \in Connections |-> FALSE]

-----------------------------------------------------------------------------
(* The peer, and the passing of time.                                      *)

Connect(c) == /\ peer[c] = "absent" /\ bound[c] > 0
              /\ peer' = [peer EXCEPT ![c] = "open"]
              /\ backlog' = backlog \cup {c}
              /\ UNCHANGED <<running, accept, bound, kinds, inbox, answers, sessionVars>>

\* Requests may be pipelined: nothing waits for the response.
Send(c, kind) == /\ peer[c] = "open"
                 /\ Len(kinds[c]) < bound[c]
                 /\ kinds' = [kinds EXCEPT ![c] = Append(@, kind)]
                 /\ inbox' = [inbox EXCEPT ![c] = Append(@, kind)]
                 /\ UNCHANGED <<listenVars, bound, peer, answers, sessionVars>>

\* The peer sends no more, but still receives.
Finish(c) == /\ peer[c] = "open"
             /\ peer' = [peer EXCEPT ![c] = "finished"]
             /\ UNCHANGED <<listenVars, bound, kinds, inbox, answers, sessionVars>>

\* The peer resets the connection: what it sent is discarded, and the kernel no
\* longer knows the remote endpoint.
Reset(c) == /\ peer[c] \in {"open", "finished"}
            /\ peer' = [peer EXCEPT ![c] = "reset"]
            /\ inbox' = [inbox EXCEPT ![c] = <<>>]
            /\ UNCHANGED <<listenVars, bound, kinds, answers, sessionVars>>

\* The deadline set by expires_after passes.
Expire(c) == /\ timer[c] = "armed"
             /\ ops[c] # {}
             /\ timer' = [timer EXCEPT ![c] = "expired"]
             /\ UNCHANGED <<listenVars, peerVars, ops, outcome, taken, res, shut>>

-----------------------------------------------------------------------------
(* The listener.                                                           *)

\* get_address calls remote_endpoint, which throws when the peer is gone.
\* Nothing catches what a handler throws: the thread in ioc_.run() ends with
\* the exception, and the process with it.
HasAddress(c) == peer[c] # "reset"

Die == /\ running' = FALSE
       /\ UNCHANGED <<backlog, accept, peerVars, sessionVars>>

AcceptCompletes(c) == /\ running /\ accept = "armed" /\ c \in backlog
                      /\ backlog' = backlog \ {c}
                      /\ accept' = c
                      /\ UNCHANGED <<running, peerVars, sessionVars>>

\* No descriptor is left, for one.
AcceptFails == /\ running /\ accept = "armed"
               /\ accept' = "failed"
               /\ UNCHANGED <<running, backlog, peerVars, sessionVars>>

OnAcceptFailed == /\ running /\ accept = "failed"
                  /\ accept' = "armed"
                  /\ UNCHANGED <<running, backlog, peerVars, sessionVars>>

\* The do_accept at its end forgotten.
OnAcceptWithoutRearm(c) == /\ running /\ accept = c
                           /\ HasAddress(c)
                           /\ ops' = [ops EXCEPT ![c] = @ \cup {"do_read"}]
                           /\ UNCHANGED <<listenVars, peerVars, outcome, taken, res, timer, shut>>

OnAccept(c) == /\ running /\ accept = c
               /\ HasAddress(c)
               /\ ops' = [ops EXCEPT ![c] = @ \cup {"do_read"}]
               /\ accept' = "armed"
               /\ UNCHANGED <<running, backlog, peerVars, outcome, taken, res, timer, shut>>

OnAcceptThrows(c) == /\ running /\ accept = c
                     /\ ~HasAddress(c)
                     /\ Die

-----------------------------------------------------------------------------
(* A session.  Each handler ends its own operation and may begin another.  *)

Becomes(c, from, to) == /\ running
                        /\ from \in ops[c]
                        /\ ops' = [ops EXCEPT ![c] = (@ \ {from}) \cup to]

\* expires_after forgotten.
DoReadWithoutTimeout(c) == /\ Becomes(c, "do_read", {"read"})
                           /\ UNCHANGED <<listenVars, peerVars, outcome, taken, res, timer, shut>>

\* The first read of a session, dispatched by run().
DoRead(c) == /\ Becomes(c, "do_read", {"read"})
             /\ timer' = [timer EXCEPT ![c] = "armed"]
             /\ UNCHANGED <<listenVars, peerVars, outcome, taken, res, shut>>

\* A whole request is there.
ReadRequest(c) == /\ Becomes(c, "read", {"on_read"})
                  /\ inbox[c] # <<>>
                  /\ outcome' = [outcome EXCEPT ![c] = Head(inbox[c])]
                  /\ inbox' = [inbox EXCEPT ![c] = Tail(@)]
                  /\ UNCHANGED <<listenVars, bound, peer, kinds, answers, taken, res, timer, shut>>

ReadEof(c) == /\ Becomes(c, "read", {"on_read"})
              /\ inbox[c] = <<>> /\ peer[c] = "finished"
              /\ outcome' = [outcome EXCEPT ![c] = "eof"]
              /\ UNCHANGED <<listenVars, peerVars, taken, res, timer, shut>>

\* The stream closes itself at its deadline.
ReadFails(c) == /\ Becomes(c, "read", {"on_read"})
                /\ peer[c] = "reset" \/ timer[c] = "expired"
                /\ outcome' = [outcome EXCEPT ![c] = "error"]
                /\ UNCHANGED <<listenVars, peerVars, taken, res, timer, shut>>

\* end_of_stream: the connection is shut down, and the handler returns.
OnReadEof(c) == /\ outcome[c] = "eof"
                /\ Becomes(c, "on_read", {})
                /\ shut' = [shut EXCEPT ![c] = TRUE]
                /\ UNCHANGED <<listenVars, peerVars, outcome, taken, res, timer>>

OnReadError(c) == /\ outcome[c] \in {"error", "bad"}
                  /\ Becomes(c, "on_read", {})
                  /\ UNCHANGED <<listenVars, peerVars, outcome, taken, res, timer, shut>>

\* The request is handed to a coroutine; the deadline of the read stays set.
OnReadRequest(c) == /\ outcome[c] \in {"keep", "close"}
                    /\ Becomes(c, "on_read", {"handle"})
                    /\ taken' = [taken EXCEPT ![c] = @ + 1]
                    /\ UNCHANGED <<listenVars, peerVars, outcome, res, timer, shut>>

\* The socket moves to a websocket session, whose constructor asks for the
\* address again.
OnReadUpgrade(c) == /\ outcome[c] = "upgrade"
                    /\ HasAddress(c)
                    /\ Becomes(c, "on_read", {"websocket"})
                    /\ taken' = [taken EXCEPT ![c] = @ + 1]
                    /\ UNCHANGED <<listenVars, peerVars, outcome, res, timer, shut>>

OnReadUpgradeThrows(c) == /\ running /\ "on_read" \in ops[c]
                          /\ outcome[c] = "upgrade"
                          /\ ~HasAddress(c)
                          /\ Die

\* The exception of a handler leaves the coroutine.
HandleThrows(c) == /\ Becomes(c, "handle", {})
                   /\ UNCHANGED <<listenVars, peerVars, outcome, taken, res, timer, shut>>

\* The coroutine: handle_request returns a response whatever the handler did,
\* and send keeps it in res_ and writes it.
HandleWithoutKeeping(c) ==
    /\ Becomes(c, "handle", {"write"})
    /\ UNCHANGED <<listenVars, peerVars, outcome, taken, res, timer, shut>>

Handle(c) == /\ Becomes(c, "handle", {"write"})
             /\ res' = [res EXCEPT ![c] = taken[c]]
             /\ UNCHANGED <<listenVars, peerVars, outcome, taken, timer, shut>>

Written(c) == /\ Becomes(c, "write", {"on_write"})
              /\ peer[c] # "reset"
              /\ answers' = [answers EXCEPT ![c] = Append(@, res[c])]
              /\ outcome' = [outcome EXCEPT ![c] = "written"]
              /\ UNCHANGED <<listenVars, bound, peer, kinds, inbox, taken, res, timer, shut>>

\* The deadline that do_read set bounds the write as well, the time the handler
\* took included.  A response written as it passes may still get through.
WriteFails(c) == /\ Becomes(c, "write", {"on_write"})
                 /\ peer[c] = "reset" \/ timer[c] = "expired"
                 /\ outcome' = [outcome EXCEPT ![c] = "error"]
                 /\ UNCHANGED <<listenVars, peerVars, taken, res, timer, shut>>

\* need_eof(): the response said that the connection closes.
NeedEof(c) == kinds[c][taken[c]] = "close"

OnWriteError(c) == /\ outcome[c] = "error"
                   /\ Becomes(c, "on_write", {})
                   /\ res' = [res EXCEPT ![c] = 0]
                   /\ UNCHANGED <<listenVars, peerVars, outcome, taken, timer, shut>>

\* The return after do_close forgotten.
OnWriteCloseReadsOn(c) == /\ outcome[c] = "written" /\ NeedEof(c)
                          /\ Becomes(c, "on_write", {"read"})
                          /\ res' = [res EXCEPT ![c] = 0]
                          /\ shut' = [shut EXCEPT ![c] = TRUE]
                          /\ timer' = [timer EXCEPT ![c] = "armed"]
                          /\ UNCHANGED <<listenVars, peerVars, outcome, taken>>

OnWriteClose(c) == /\ outcome[c] = "written" /\ NeedEof(c)
                   /\ Becomes(c, "on_write", {})
                   /\ res' = [res EXCEPT ![c] = 0]
                   /\ shut' = [shut EXCEPT ![c] = TRUE]
                   /\ UNCHANGED <<listenVars, peerVars, outcome, taken, timer>>

\* do_read again: a new parser and a new deadline.
OnWriteKeep(c) == /\ outcome[c] = "written" /\ ~NeedEof(c)
                  /\ Becomes(c, "on_write", {"read"})
                  /\ res' = [res EXCEPT ![c] = 0]
                  /\ timer' = [timer EXCEPT ![c] = "armed"]
                  /\ UNCHANGED <<listenVars, peerVars, outcome, taken, shut>>

-----------------------------------------------------------------------------
Environment(c) == \/ Connect(c) \/ Finish(c) \/ Reset(c)
                  \/ \E kind \in Kinds : Send(c, kind)

Listener(c) == AcceptCompletes(c) \/ OnAccept(c) \/ OnAcceptThrows(c)

Session(c) == \/ DoRead(c)
              \/ ReadRequest(c) \/ ReadEof(c) \/ ReadFails(c)
              \/ OnReadEof(c) \/ OnReadError(c) \/ OnReadRequest(c)
              \/ OnReadUpgrade(c) \/ OnReadUpgradeThrows(c)
              \/ Handle(c) \/ Written(c) \/ WriteFails(c)
              \/ OnWriteError(c) \/ OnWriteClose(c) \/ OnWriteKeep(c)

Next == \/ AcceptFails \/ OnAcceptFailed
        \/ \E c \in Connections : Environment(c) \/ Expire(c) \/ Listener(c) \/ Session(c)

(***************************************************************************)
(* The io_context runs every queued handler, a coroutine ends (its own     *)
(* waits have deadlines), and deadlines pass.  Nothing is assumed of the   *)
(* peers, nor of accept, which may fail again and again.                   *)
(***************************************************************************)
Fairness == /\ WF_vars(OnAcceptFailed)
            /\ \A c \in Connections : /\ WF_vars(Expire(c))
                                      /\ WF_vars(OnAccept(c) \/ OnAcceptThrows(c))
                                      /\ WF_vars(Session(c))

Spec == Init /\ [][Next]_vars /\ Fairness

-----------------------------------------------------------------------------

TypeOK == /\ running \in BOOLEAN
          /\ backlog \subseteq Connections /\ bound \in Workloads
          /\ accept \in Connections \cup {"armed", "failed"}
          /\ peer \in [Connections -> {"absent", "open", "finished", "reset"}]
          /\ kinds \in [Connections -> Seq(Kinds)] /\ inbox \in [Connections -> Seq(Kinds)]
          /\ answers \in [Connections -> Seq(Nat)]
          /\ taken \in [Connections -> Nat] /\ res \in [Connections -> Nat]
          /\ \A c \in Connections : Len(kinds[c]) <= bound[c]
          /\ ops \in [Connections -> SUBSET Ops]
          /\ outcome \in [Connections -> Outcomes]
          /\ timer \in [Connections -> {"off", "armed", "expired"}]
          /\ shut \in [Connections -> BOOLEAN]

(* A session has one operation at a time, the coroutine of a request       *)
(* included: that is why its handlers need no lock although the coroutine  *)
(* is spawned on the io_context and not on the strand of the socket.       *)
OneOperation == \A c \in Connections : \A o, p \in ops[c] : o = p

(* While a response is being written res_ keeps it, and it is the response *)
(* to the request that was read last.                                      *)
ResponseKeptWhileWriting ==
    \A c \in Connections : "write" \in ops[c] => res[c] = taken[c] /\ res[c] # 0

(* A session is in one piece at every point.                               *)
SessionConsistent == TypeOK /\ OneOperation /\ ResponseKeptWhileWriting

(* The peer receives the responses in the order of its requests, none      *)
(* twice and none left out, however it pipelines them.                     *)
AnswersInOrder ==
    \A c \in Connections : \A i \in DOMAIN answers[c] : answers[c][i] = i

(* No request is read after one that closes or upgrades the connection.    *)
LastRequestIsLast ==
    \A c \in Connections : \A i \in 1..(taken[c] - 1) : kinds[c][i] = "keep"

(* After do_close the session has nothing left to do.                      *)
ShutIsTheEnd == \A c \in Connections : shut[c] => ops[c] = {}

(* A connection is one exchange after the other until the request or the   *)
(* shutdown that ends it: nothing is read, handled or written after that.  *)
ExchangesInOrder == AnswersInOrder /\ LastRequestIsLast /\ ShutIsTheEnd

(* A silent peer does not keep a session: every session ends or becomes a  *)
(* websocket, or the process died.                                         *)
SessionsEnd ==
    \A c \in Connections : ops[c] # {} ~> ops[c] \in {{}, {"websocket"}} \/ ~running

(* A session ends without answering a request it read only when the peer  *)
(* went away or the deadline of the read passed, never because the handler *)
(* failed.                                                                 *)
RequestsAnswered ==
    \A c \in Connections :
        ops[c] = {} /\ taken[c] > Len(answers[c]) => peer[c] = "reset" \/ timer[c] = "expired"

(* A connection of a peer is with the kernel, with the acceptor or with a  *)
(* session, or its session began and ended: none is forgotten.             *)
NoConnectionForgotten ==
    \A c \in Connections :
        peer[c] # "absent" /\ ops[c] = {} /\ timer[c] = "off" => c \in backlog \/ accept = c

(* The listener accepts again after every completion, a failed one         *)
(* included, unless the process died.                                      *)
ListenerRearms == accept # "armed" ~> accept = "armed" \/ ~running

(* Whatever order connections and failures come in, the listener hands     *)
(* every connection to a session and waits for the next one.               *)
ListenerServesAll == []NoConnectionForgotten /\ ListenerRearms

(* "accepts incoming connections and launches the sessions" (bserv.cpp,    *)
(* 393): whatever one peer does, the server goes on.                       *)
ServerKeepsRunning == running
=============================================================================
