------------------------------ MODULE WorkerPool ------------------------------
(***************************************************************************)
(* The worker threads of the server (bserv.cpp 467-521): all of them run   *)
(* the handlers of one io_context.  A handler runs in a coroutine, which   *)
(* gives its thread up while it waits for a peer, but a handler that asks  *)
(* for a database connection blocks its thread until there is one.  Here   *)
(* the handlers of WebApp's routes meet the pool (ConnectionPool), the     *)
(* HTTP client (client.cpp), with which /send makes a request of its own   *)
(* server, and SIGTERM.                                                    *)
(***************************************************************************)
EXTENDS Naturals, Sequences, FiniteSets

CONSTANTS Workers,  \* the values of num_threads
          Conns,    \* the connections of the pool
          NoConn,   \* see ConnectionPool
          Db,       \* requests whose handler has a db_connection_ptr
          Send,     \* requests of /send: post to /echo of the same server
          Echo,     \* the requests /send makes; any handler that never waits
          EchoOf,   \* which of them each request of /send makes
          Ws,       \* websockets: the handler waits for its peer again and again
          Signal    \* SIGINT or SIGTERM

Requests == Db \cup Send \cup Echo \cup Ws

ASSUME WorkersAssumption == Workers \subseteq Nat \ {0}
ASSUME FiniteAssumption == IsFiniteSet(Requests)
ASSUME ConnAssumption == NoConn \notin Conns /\ Conns # {}
ASSUME SignalAssumption == Signal \notin Requests
ASSUME KindsAssumption == /\ Db \cap (Send \cup Echo \cup Ws) = {}
                          /\ Send \cap (Echo \cup Ws) = {} /\ Echo \cap Ws = {}
                          /\ EchoOf \in [Send -> Echo]

VARIABLES workers,  \* num_threads
          silent,   \* the requests of /send that meet a server that accepts late, or never, and never answers
          idle, asking, held,  \* the pool
          stage,    \* what the coroutine of each request does
          phase,    \* how far the http_client of a request came
          queue,    \* the handlers that are ready to run, in order
          process,  \* the server: "up", "stopping" after ioc_.stop(), "destroyed"
          exited    \* the threads that returned from ioc_.run()

INSTANCE ConnectionPool WITH Threads <- Requests

setup == <<workers, silent>>
pool == <<idle, asking, held>>
vars == <<setup, pool, stage, phase, queue, process, exited>>

Suspended == {"queued", "waiting", "ready"}
Working == {"asking", "running", "resumed"}

Init == /\ workers \in Workers /\ silent \in SUBSET Send
        /\ PoolInit
        /\ stage = [r \in Requests |-> "new"]
        /\ phase = [r \in Requests |-> "none"]
        /\ queue = <<>>
        /\ process = "up"
        /\ exited = 0

-----------------------------------------------------------------------------
\* The requests that occupy a thread.
OnWorker == {r \in Requests : stage[r] \in Working}

FreeWorker == Cardinality(OnWorker) + exited < workers

\* /send given a connection as well.
NeedsConnAlsoSend(r) == r \in Db \cup Send

\* The routes with a db_connection_ptr: none of their handlers waits.
NeedsConn(r) == r \in Db

Waits(r) == r \in Send \cup Ws

Goes(r, from, to) == /\ stage[r] \in from
                     /\ stage' = [stage EXCEPT ![r] = to]
                     /\ UNCHANGED setup

\* on_read spawns the coroutine of a request.  /echo is asked by /send.
Arrive(r) == /\ process = "up"
             /\ r \in Echo => \E s \in Send \ silent : EchoOf[s] = r /\ stage[s] = "waiting" /\ phase[s] = "exchange"
             /\ Goes(r, {"new"}, "queued")
             /\ queue' = Append(queue, r)
             /\ UNCHANGED <<pool, phase, process, exited>>

\* A free thread takes the next handler.
Dequeue(r) == /\ process = "up" /\ FreeWorker
              /\ queue # <<>> /\ Head(queue) = r
              /\ queue' = Tail(queue)

\* The parameters of the handler are evaluated: get_or_block is called.
StartAsking(r) == /\ Dequeue(r) /\ NeedsConn(r)
                  /\ Goes(r, {"queued"}, "asking")
                  /\ Ask(r)
                  /\ UNCHANGED <<phase, process, exited>>

Start(r) == /\ Dequeue(r) /\ ~NeedsConn(r)
            /\ Goes(r, {"queued"}, "running")
            /\ UNCHANGED <<pool, phase, process, exited>>

\* get_or_block returns.
Granted(r) == /\ Goes(r, {"asking"}, "running")
              /\ Grant(r)
              /\ UNCHANGED <<phase, queue, process, exited>>

\* A websocket waits for its peer, again and again.
Wait(r) == /\ r \in Ws
           /\ Goes(r, {"running", "resumed"}, "waiting")
           /\ UNCHANGED <<pool, phase, queue, process, exited>>

\* The operations of http_client_send, in their order: resolve, connect, then
\* write and read.  The coroutine yields in each; one that failed is the last.
Following == [none |-> "resolve", resolve |-> "connect", connect |-> "exchange"]

WaitClient(r) == /\ r \in Send
                 /\ Goes(r, {"running", "resumed"}, "waiting")
                 /\ phase[r] \in DOMAIN Following
                 /\ phase' = [phase EXCEPT ![r] = Following[phase[r]]]
                 /\ UNCHANGED <<pool, queue, process, exited>>

\* The kernel completes the operation.  After stop() nobody waits for it any more.
Completes(r) == /\ process = "up"
                /\ Goes(r, {"waiting"}, "ready")
                /\ queue' = Append(queue, r)
                /\ UNCHANGED <<pool, process, exited>>

\* The peer of a websocket says something, goes, or is silent for too long; the
\* resolver answers; the other server accepts, a silent one perhaps, and one that is not
\* silent answers once it ran /echo.
Answer(r) == /\ Completes(r)
             /\ r \in silent => phase[r] # "exchange"
             /\ r \in Send /\ phase[r] = "exchange" => stage[EchoOf[r]] = "done"
             /\ UNCHANGED phase

\* expires_after set for the connect only.
HasDeadlineOnConnect(r) == phase[r] = "connect"

\* expires_after: the stream has a deadline, the resolver has not.
HasDeadline(r) == phase[r] \in {"connect", "exchange"}

Fails(r) == Completes(r) /\ r \in Send /\ phase' = [phase EXCEPT ![r] = "failed"]

Expire(r) == Fails(r) /\ HasDeadline(r)

\* The host is not known, or the connection is refused or reset.
Broken(r) == Fails(r) /\ r \notin silent

Resume(r) == /\ Dequeue(r)
             /\ Goes(r, {"ready"}, "resumed")
             /\ UNCHANGED <<pool, phase, process, exited>>

\* The handler ends, and request_resources with it.
Finish(r) == /\ Goes(r, IF Waits(r) THEN {"resumed"} ELSE {"running"}, "done")
             /\ r \in Send => phase[r] \in {"exchange", "failed"}
             /\ IF held[r] = NoConn THEN UNCHANGED pool ELSE GiveBack(r)
             /\ UNCHANGED <<phase, queue, process, exited>>

-----------------------------------------------------------------------------
(* The end of the process.                                                 *)

\* The signal makes the handler of async_wait ready.
Terminate == /\ process = "up"
             /\ \A i \in DOMAIN queue : queue[i] # Signal
             /\ queue' = Append(queue, Signal)
             /\ UNCHANGED <<setup, pool, phase, stage, process, exited>>

\* Stop takes a thread like any other handler.
Stop == /\ Dequeue(Signal)
        /\ process' = "stopping"
        /\ UNCHANGED <<setup, pool, phase, stage, exited>>

\* A thread returns from run() when its handler is done.
Exit == /\ process = "stopping" /\ FreeWorker
        /\ exited' = exited + 1
        /\ UNCHANGED <<setup, pool, phase, stage, queue, process>>

\* The threads that were not joined.
DestroyUnjoined == /\ process = "stopping" /\ exited > 0
                   /\ process' = "destroyed"
                   /\ UNCHANGED <<setup, pool, phase, stage, queue, exited>>

\* All are joined; the members of the server are destroyed, in reverse order: with
\* the routers the last owners of the pool, then the io_context.
Destroy == /\ process = "stopping" /\ exited = workers
           /\ process' = "destroyed"
           /\ UNCHANGED <<setup, pool, phase, stage, queue, exited>>

\* The io_context destroys what is left: suspended coroutines are unwound.  The catch
\* (...) of handle_request keeps an HTTP handler's from going further up, but what the
\* handler had is given back below it, and nothing runs on the io_context any more.
Unwind(r) == /\ process = "destroyed"
             /\ Goes(r, Suspended, "unwound")
             /\ IF held[r] = NoConn THEN UNCHANGED pool ELSE GiveBack(r)
             /\ UNCHANGED <<phase, queue, process, exited>>

Handle(r) == \/ StartAsking(r) \/ Start(r) \/ Resume(r)
             \/ Wait(r) \/ WaitClient(r) \/ Finish(r)

Step(r) == \/ Arrive(r) \/ Granted(r) \/ Handle(r)
           \/ Answer(r) \/ Expire(r) \/ Broken(r) \/ Unwind(r)

Next == Terminate \/ Stop \/ Exit \/ Destroy \/ \E r \in Requests : Step(r)

(***************************************************************************)
(* Threads run what they have, the pool serves somebody, resolvers answer, *)
(* a request of the server itself reaches it and gets its answer.  Of a    *)
(* silent server not even the accept is assumed: what ends each operation  *)
(* with it is the deadline of that operation, which passes.  Nothing is    *)
(* assumed of other peers and deadlines, or of who the pool serves first.  *)
(***************************************************************************)
Fairness == /\ WF_vars(Stop \/ Exit \/ Destroy)
            /\ WF_vars(\E r \in Requests : Granted(r))
            /\ \A r \in Requests :
                  /\ WF_vars(Handle(r))
                  /\ r \in Echo => WF_vars(Arrive(r))
                  /\ r \in Send => /\ WF_vars((r \in silent => phase[r] = "resolve") /\ Answer(r))
                                    /\ WF_vars(r \in silent /\ Expire(r))

Spec == Init /\ [][Next]_vars /\ Fairness

-----------------------------------------------------------------------------

(* The stages of the requests agree with the queue of the io_context.      *)
TypeOK == /\ workers \in Workers /\ silent \subseteq Send
          /\ phase \in [Requests -> {"none", "resolve", "connect", "exchange", "failed"}]
          /\ idle \subseteq Conns
          /\ asking = {r \in Requests : stage[r] = "asking"}
          /\ held \in [Requests -> Conns \cup {NoConn}]
          /\ stage \in [Requests -> {"new", "done", "unwound"} \cup Suspended \cup Working]
          /\ queue \in Seq(Requests \cup {Signal})
          /\ \A r \in Requests : stage[r] \in {"queued", "ready"}
                                  => \E i \in DOMAIN queue : queue[i] = r
          /\ process \in {"up", "stopping", "destroyed"}
          /\ exited \in 0..workers

(* Threads blocked in get_or_block never wait for a handler that itself    *)
(* needs a thread to go on: a connection is idle, or one of those that are *)
(* missing is with a handler on a thread.  However few the threads, they   *)
(* are never all blocked for good.                                         *)
BlockedOnlyByRunning ==
    /\ TypeOK
    /\ asking # {} => idle # {} \/ \E r \in OnWorker : held[r] # NoConn

(* When the pool is destroyed all connections are back: no coroutine that  *)
(* is unwound later, with the io_context, gives one back to a pool that is *)
(* no more.                                                                *)
PoolOutlivesConnections == process = "destroyed" => idle = Conns

(* Every request is served, those that /send makes of its own server on    *)
(* its own threads included, whether or not a deadline passes, and         *)
(* wherever a silent server falls silent: before its accept or after it.   *)
RequestsServed ==
    \A r \in Requests \ Ws : stage[r] = "queued" ~> stage[r] = "done" \/ process # "up"

(* A server told to stop stops, whatever its handlers and websockets do,   *)
(* and however its threads are blocked at that moment.                     *)
ShutdownEnds == (\E i \in DOMAIN queue : queue[i] = Signal) ~> process = "destroyed"
=============================================================================
