# A verification project for bserv

bserv is a C++ HTTP and websocket server library (`src/bserv`) on Boost.Asio and
Beast, with a database connection pool, sessions and a router; `src/WebApp` is an
application built on it. This directory models the parts of it that keep state,
checks the models with TLC on small instances, and proves with TLAPS what matters
most for every instance. Paths below are relative to the repository.

## The system

| Component | State | Operations | Hard behaviour |
|---|---|---|---|
| database connection pool (`bserv/database.cpp`, `database.hpp` 72-112) | `queue_`, two mutexes, the connection each `db_connection` holds | `get_or_block`, `~db_connection` | threads between two locks; a mutex used as a semaphore, unlocked by a thread that did not lock it |
| session manager (`session.cpp`, `session.hpp`) | five containers of sessions, expiries and keys | `get_or_create`, `try_get` | containers kept in step by hand, lazy expiry, boundary instants |
| HTTP server (`bserv.cpp` 219-464) | the acceptor; per connection the stream and its deadline, the parser, `res_` | accept, read, handle, write, close, upgrade | callbacks of many connections, pipelining, resets, deadlines, exceptions with nobody to catch them |
| websocket session (`bserv.cpp` 106-216, `websocket.hpp`) | the stream, the buffer of the message | accept, read, write | peers that close, break the protocol or vanish while others of their messages wait |
| router (`router.hpp`) | the routes; per request its resources | match, evaluate parameters, call the handler | parameters with side effects, evaluated last to first |
| request session (`router.hpp` 157-186) | the cookie, `session_ptr`, Set-Cookie | look a session up or make one | several cookies, a lock taken once per cookie, responses thrown away |
| transactions and conversions (`database.hpp` 116-482) | the transaction, the text of a query | exec, commit, roll back, convert | transactions that overlap, statements that fail; text put together and taken apart |
| HTTP client (`client.cpp`) | the stream | resolve, connect, write, read | deadlines, or none; a server that is this server |
| worker threads and shutdown (`bserv.cpp` 467-521, `server.hpp`) | the threads in `ioc_.run()` | run, stop, join, destroy | threads blocked in the pool, order of destruction |
| handlers of WebApp (`handlers.cpp`) | the shared session object, the table `auth_user` | one per route | one object shared by the requests of a session without a lock; check, then insert |
| utils (`utils.cpp`) | none | parse and encode urls, passwords, files | boundaries of parsers |

How they interact. The io_context runs the handlers of all components on
`num_threads` threads. The listener gives each accepted socket to an
`http_session`, which reads a request and spawns a coroutine for it; the coroutine
calls `handle_request`, which asks the router, which evaluates the parameters of the
handler (a session from the session manager, a connection from the pool, which may
block the thread) and calls it; the response goes back to the `http_session`,
which writes it and reads again. The requests of one session share one
`boost::json::object` through `shared_ptr`s. A `db_connection` returns to the pool
when the last `shared_ptr` to it goes, at the end of the handler. A handler that uses
the HTTP client gives its thread up while it waits; in WebApp that is `/send`, whose request
comes back to the same server. On SIGTERM the io_context is stopped, the threads are joined and the
members of the server are destroyed, the suspended coroutines last.

What makes each component correct:

* pool: no connection shared or lost, no take from an empty queue, no lost wakeup,
  no deadlock of the two locks;
* session manager: the containers agree, a session is reachable for its lifetime
  after its last visit and not after, a call for one key harms no other session;
* HTTP server: one operation per connection at a time, a response for every
  request, in order, kept until written; no session and no connection forgotten;
  the listener goes on whatever happens;
* websocket session: every message is echoed once, in order; the session of a dead peer ends;
* router: one handler per URL, called with all its arguments in their order and one object
  of each kind, or, when something it takes cannot be parsed, not at all;
* request session: a client that keeps its cookie keeps its session, and gets nobody else's;
* handlers: references into the session stay valid while used, counters count; a
  registered name is registered once, a refused one not at all, and lists are true;
* worker threads: some thread can always go on, and the server comes down in order;
* conversions: what was sent is what is found.

## Modules

| Module | Models | Remarks |
|---|---|---|
| `ConnectionPool` | the promise of `get_or_block` (`database.hpp` 108-110) | abstract: `idle`, `asking`, `held` |
| `DbConnectionManager` | `database.cpp` | one action per access to a mutex or to the queue; implements `ConnectionPool` |
| `WorkerPool` | `bserv.cpp` 467-521, `client.cpp`, the routes of WebApp that wait or ask for a connection | uses `ConnectionPool` as its pool: composes threads, coroutines, pool, client and shutdown |
| `SessionStore` | the promise of `session_manager_base` (`session.hpp` 26-46) | abstract: one function from keys to sessions |
| `MemorySessionManager` | `session.cpp` | one action per outcome of a call; implements `SessionStore` |
| `RequestSession` | the session parameter (`router.hpp` 157-186), the end of `handle_request` (`bserv.cpp` 75-104) | extends `SessionStore`: composes requests, clients and sessions |
| `HttpServer` | `listener`, `http_session` (`bserv.cpp` 219-464) | one action per completion and per handler |
| `WebSocketSession` | `websocket_session_server`, `websocket_server`, `ws_echo` | one action per frame read or written |
| `SessionHandlers` | the handlers of `handlers.cpp` that use the session | one action per access to the session object |
| `UserAccounts` | the handlers of `handlers.cpp` that use `auth_user`, `db_transaction` | one action per SQL statement |
| `Pagination` | `redirect_to_users`, `users.html` | the pages, their offsets and links |
| `Router` | `router.hpp`, the paths of `WebApp.cpp` | one action per parameter that is evaluated |
| `DbObjects` | the conversions of `database.hpp`, the handlers of `DBTest.cpp` | values, queries, rows |
| `UrlParams` | `utils.cpp` 113-236 | one action per character read |
| `Password` | `utils.cpp` 35-110 | salts, hashes and their one string |
| `Sequential` | the parts in which no other part runs in between | extends `Pagination`, instances of `WebSocketSession`, `Router`, `DbObjects`, `UrlParams` and `Password`; the assumptions on their constants |
| `...Proofs` | | the theorems of the module they are named after |
| `MC...` | | instances for TLC |

**DbConnectionManager.** `pc[t]` is the statement thread `t` is about to run.
`Call`, `LockCounter`, `LockQueue`, `Pop`, `Notify`, `Return` are the statements of
`get_or_block`; `Release`, `GiveLock`, `Emplace`, `GiveNotify`, `GiveUnlock` those of
the destructor. `queue` is `queue_`, a lock variable names the thread that locked
the mutex. `counter_lock_` may be unlocked by another thread than its owner, which
the C++ standard leaves undefined and the mutexes of the builds allow: the model
does what they do. `front()` of an empty queue is undefined too; the model stops the
thread there, and `PopFindsConnection` says it never gets there. The refinement
mapping to `ConnectionPool` takes `Pop` and `Emplace` as the instants of a call and
of a return. Left out: what a connection does, and `make_shared` failing.

**WorkerPool.** A request is one of four kinds, after what the route's handler has among its
parameters (`WebApp.cpp` 69-136): a connection, the HTTP client (`/send`), neither (`/echo`, which
`/send` asks for), or a websocket. `stage[r]` is what its coroutine does; `Working` stages occupy a thread,
blocked in `get_or_block` (`asking`) or not. `queue` is that of the io_context, in which the signal's
handler stands like any other. `phase[r]` is how far `http_client_send` came: resolve, connect, then
write and read; connect and exchange have a deadline each (`client.cpp` 27, 34), the resolver has none (21). `silent` is a choice of
`/send`s, made once for each behaviour, whose host never answers: it accepts late, or never, and then says nothing, so that
such a request may be left in its connect or in its exchange, and each deadline is the only thing that ends its operation. `Stop`, `Exit`, `Destroy`, `Unwind` are the
end of the server in the order of its members' destructors. `Unwind` gives back what a suspended handler had. In the code the
`catch (...)` of `handle_request` (`bserv.cpp` 94) stops the exception that unwinds the coroutine of an HTTP handler, and the coroutine goes
on to send a 500 on an io_context that no longer runs; the frames below, which own the connection, are gone by then. Routes other than WebApp's could make
a handler wait while it has a connection; then `BlockedOnlyByRunning` does not hold, which is what its mutant does.

**MemorySessionManager.** Each call holds `lock_` throughout, so a call is one
step. `Expired` and the `Kept...` operators are the purging loop at its head: the
queue is sorted by expiry, so the loop removes the entries older than `now`. `Touch`
is the part both calls share for a key in use, `Insert` the making of a session,
under a key and an integer that are not in use. `EraseAtLowerBound` erases the entry
that `lower_bound` finds, which is not assumed to be the one sought. Session
objects are numbered in the order they are made, so that a property can tell one
from another. Left out: the random generators (any free value may be drawn), the
contents of the sessions, and `lower_bound` returning `end()`, whose erasure would
be undefined: `MapsAgree` says that the entry is there. The mapping to
`SessionStore` forgets the sessions that have expired but were not purged yet.

**RequestSession.** A request looks its session up in several calls of the session manager,
which are the actions `Find`, `New` and `Miss` of `SessionStore`; `MemorySessionManager`
implements that module, so what holds here holds over the five containers. `Trying` is the loop
over a cookie name that came several times, `Asked` what `get_or_create` is given. The response under
construction is `told`, the key in its Set-Cookie: `Returns` sends it, `Throws` replaces it by an error
response without it, `Upgraded` drops it, since the handshake of a websocket was answered
before. Clients are external: a jar with the cookie the server sets and one of a longer path, either of
them invented, and responses that arrive or do not; `inFlight`, one of `InFlight`, is how many requests a client
sends side by side. New keys, 32 random characters, are taken never to have
been seen before, which `SessionStore` does not ask for. A Cookie header with an escape that is no number makes `parse_params` throw before any
session is looked for: `CookieFails`. Left out otherwise: the parsing of the header
(`parse_params` keeps the values of a repeated name in order, which `UrlParams` checks).

**HttpServer.** `ops[c]` holds the operations in progress and the queued handlers of
connection `c`, each of which owns a `shared_ptr` to the session. An operation
completes in one step (`ReadRequest`, `ReadEof`, `ReadFails`, `Written`, `WriteFails`)
and its handler runs in another (`OnRead...`, `OnWrite...`), so that the peer
acts in between. A request is one of four kinds: it keeps the connection, closes it,
upgrades it, or cannot be read (malformed, or larger than the limit). A set of
operations rather than a program counter is what lets `OneOperation` fail if a handler
began two. `timer` is the deadline of `expires_after`: `do_read` arms it, nothing
disarms it before the next `do_read`, and it bounds the write too. Exceptions
of `get_address` are actions of their own (`OnAcceptThrows`, `OnReadUpgradeThrows`) and end
the process. `bound`, one of `Workloads`, is how many requests each peer sends. Left out: the bytes and partial reads, what the handler does (it
ends, and `handle_request` turns whatever it throws into a response), and the listener's start-up errors, which exit the process.
The connection after an upgrade is `WebSocketSession`, the signals are in `WorkerPool`.

**WebSocketSession.** Begins where `HttpServer` moved the socket. `asks` is the upgrade request: for `/echo`,
for a URL without a websocket handler, or a handshake that cannot be accepted. The stream is `inbox`, the frames that
arrived; `heard` is what the peer has received, `data` the string the handler reads into and writes
from. A write to a peer that vanished may succeed, since the kernel takes it; a read from one ends by the timeouts
that `websocket_session_server` sets (`bserv.cpp` 161).

**SessionHandlers.** `session` is the shared object with the keys the handlers use,
each missing, null, a user or a number. A step is one access to the object. A handler
keeps a worker thread from its start, or its resumption, to its next wait or its end, so
with one thread handlers interleave only where they wait, and with more
anywhere; `workers`, one of `Workers`, is `thread-num`. `refs` holds the requests whose reference to `user` is valid: `Disturb`,
an insertion, an erasure, invalidates all of them. It may only move the object in an
implementation, which is the outcome a caller has to expect. What racing accesses do
to the inside of the object is not modelled: the model stops at the first harm
that some order of the accesses shows. Left out: the contents of users and answers,
the database (`UserAccounts`), the websocket messages after the first (`WebSocketSession`).

**UserAccounts.** `pc[r]` is the next statement of request `r`, `rows` the committed table, `inserted` the rows
of open transactions; both map names to the requests that inserted them, which tells a row of one registration from another's. A
registration looks for the name and inserts it; a form's answer is the list of users, read in a second
transaction by two statements. The database is external and does what PostgreSQL does by default: statements see committed
rows, an insert waits for an open transaction with the same unique name (`db.sql` 3), a broken connection rolls back, and a commit
whose connection breaks may have taken effect (`CommitInDoubt`). The password of a login is `Password`'s part, the page that
is shown `Pagination`'s: here a page has room for all rows.

**Pagination.** Numbers are the ints of the build: `MaxInt` is their largest value, `Wrap` what a product does
that does not fit, `Refused` the numbers `stoi` throws at and the offsets the database refuses.
`PagesLeft`, `PagesRight`, the ellipses and `Ends` are the loops of `redirect_to_users` and of the template; `Links`
is what a browser can click. Users are added between a page and the click on one of its links.

**Router.** URLs are sequences of tokens; `Class` is what a placeholder's regular expression accepts, and `match`
matches the whole URL as `regex_match` does. `Evaluating(p)` is the turn of a parameter: the first `invoke` takes the last of
the tuple and puts its value in front of those it has. `acquired` records every call that
took a session, a connection, a client or the server's end of a websocket. Three things may fail to parse: the body and the query, for
`json_params` (`JsonFails`), and the Cookie header, for the first session parameter of a request (`SessionFails`; `router.hpp` 162-164 decodes the
whole header, so one bad escape in any cookie is a server error). `Unparsable` is the list of them the properties are stated
with. What the session parameter does step by step is `RequestSession`.

**DbObjects.** A value of a parameter has a kind and a text; `Literal` is the text `db_value` makes of it, `Turn` a turn of `exec`'s loop
over the template, and `Field` the `db_field` conversions, whose text of a null is empty. The handlers of `DBTest.cpp` add, change and find items over these conversions;
`stored` is what the client sent, the reference. The database's part, to take a literal for the value it stands for and to keep the
unique name, is external.

**UrlParams.** `Step` is one turn of the loop of `parse_params`, on the record `parser` of its variables; `decode_url`
and `encode_url` work on character codes, with `stoi` as the standard library defines it: it skips the white space of `isspace` (`White`, 9 to 13 and 32) and takes a sign, so that
`%` and a tab and a digit are an escape too, although the parser itself strips only the blank 32. The reference
(`Pairs`, `Key`, `Value`) is about positions of the whole text: a pair stands at the end of its piece, its key and its value are the characters after an
even and an odd number of `=`.

**Password.** `encode_password` and `check_password` on sequences of characters, over a hash that differs when its inputs do.
`Take` is a turn of the loop that cuts the stored string, with the two strings and which of them the characters go to.

## Runs

| Run | Instance | Shows |
|---|---|---|
| `pool` | 3 threads, 2 connections | all safety properties of the pool, and `PoolSpec`, safety and liveness of the abstract pool |
| `empty_pool` | 3 threads, 0 connections | finding: the first call takes from an empty queue |
| `sessions` | 3 keys, 3 integers, lifetime 2, clock to 6, 4 objects | agreement of the containers, the promise of `SessionStore` |
| `request_session` | 2 clients, 3 requests, 1 or 2 in flight each, 4 keys, lifetime 1, 2 sessions | no session reaches another client, none is made for a client that has one, a client that waits for its responses keeps its session |
| `http` | 1 connection with 3 requests, or 2 with 1 each | one operation per session, order and completeness of responses, the end of every session, the accept loop |
| `peer_reset` | 1 connection, 1 request | finding: one reset ends the process |
| `worker_pool` | 1 or 2 threads, 1 connection; 2 requests for it, one `/send`, silent or not, the `/echo` it asks for, one websocket; a signal | threads are never all blocked for good, requests are served, the server comes down in order |
| `session_handlers` | 4 requests, 1 to 3 threads | on one thread references stay valid, `/send` counts right, and the only harm is the early websocket; on more counts may be lost, never invented |
| `echo_before_send` | 4 requests, 1 thread | finding: a websocket before the first `/send` spoils the session |
| `shared_session` | 4 requests, 2 threads | finding: the reference `hello` calls safe is not |
| `accounts` | 3 requests, 2 names | a name has one owner, answers and lists are true, nobody waits for ever |
| `sequential_parts` | see below | pages, parameters, queries and rows, passwords, routes, echoes |

Why the bounds suffice. *Pool*: with three threads and two connections
a caller waits while the last connection is taken, two callers wait at once, and the
queue empties and fills in every order; the theorems cover all other sizes. *Sessions*:
three keys let one session be visited, one expire and one be made in between,
and a clock of three lifetimes lets a key be drawn again after its session expired; the
fourth object makes one key serve two sessions. *HTTP*: with three pipelined requests
there is a first, a middle and a last; the session of one connection shares nothing with
another's but the listener, for which two connections compete; the theorems cover all other workloads. *Handlers*: an
invalidated reference takes two requests, a lost count two, the spoiled session three
(a websocket, a `/send` and a check in between). *Requests*: two requests of one client and one of another are the
least with which one client's lookups interleave with its own and with another's; one after the other, three requests let a session be
made, lost and made again. *Threads*: one thread that blocks is all threads, and of two one can block while
the other runs; two requests for one connection let one of them wait for the other. *Accounts*: two registrations
of a name race, and a third request sees them; a second name tells its rows from theirs.
`Workloads`, `MaxTime`, `MaxObjects` and `InFlight` bound the requests of a connection, the clock, the
sessions made and a client's open requests; the code has no such limits.

`sequential_parts` runs the parts in which nothing comes between two steps of interest: a behaviour is one part, and the
others stand still, so that the states add up and do not multiply. Its bounds: *pages*, ints of 8 bits,
every number of users up to 105 (eleven pages, so that both ellipses are there at once), every page number that
exists and some beyond, at which offsets wrap; *parameters*, all texts of five characters of an alphabet with every
character that has a meaning, a tab among them, enough for two pairs with an escape or for three with a repeated key; *queries*, all templates of four tokens with
up to two parameters, which have runs of one to four `?`; *rows*, two of them, with every combination of missing, null and
empty fields; *passwords*, two users, salts of two characters, a password with a `$`; *routes*,
those of WebApp, one that takes everything twice and one of websockets, all URLs of four tokens, every kind of body and query, and a Cookie header
that can be parsed or not; *websocket*, one
socket and three messages, of which two may wait while the first is echoed.

With `InFlight = 2` `ClientKeepsSession` is not claimed, and does not hold: two
first requests side by side each make a session, and the response that comes last decides; no line of the
repository promises more.

Symmetry is used only in runs without liveness properties: over the keys, which are
random strings, the clients and the requests.

Fairness. *Pool*: a thread that can go on does (the scheduler of the operating system), and
a handler that has a connection ends. Nothing is assumed of the order in which a mutex
lets its waiters in: a caller may be overtaken for ever, and so the promise is that
some caller is served, not which. *HTTP*: a completed operation's handler is run (the
io_context), coroutines end, deadlines pass. Nothing is assumed of the peers, nor that an
accept ever succeeds. *Threads*: a thread runs what it has taken and takes what is in the queue, the pool
serves somebody, the resolver answers, the server's own connection to itself works. Of a silent host nothing is assumed, not even that it accepts: it is
the deadline of the connect or of the exchange that passes. Every request is served nonetheless only because requests are finitely many: the pool may serve
others first. *Websocket*: operations that completed are handled, and the timeouts of the stream pass; nothing of the
peers. *Accounts*: the database executes statements; connections need not break. *Sessions*, *requests*, *handlers*
and the other sequential parts: safety only.

Deadlock is checked for the pool and for the session manager, the latter because a clock
at its bound still allows `try_get`. It is not checked where the system may stop: the server's
process may die or be told to end, and a finite number of requests is served in the end.

## What the checks found

* `conn-num` of zero or less (`empty_pool`): `get_or_block` promises to block, but
  takes the front of an empty queue (`database.cpp` 17). The theorems that need it say so:
  `NumConn > 0` is their hypothesis, and `WorkerPool` assumes `Conns # {}`.
* A peer that resets its connection (`peer_reset`): `remote_endpoint` throws in
  `on_accept` or in the websocket's constructor, and nothing catches it up to the
  thread (`bserv.cpp` 24, 149, 378, 514).
* A websocket before the first `/send` (`echo_before_send`): a read with `operator[]`
  inserts a null that makes every later `/send` fail (`handlers.cpp` 237, 250).
* Requests of one session on several threads (`shared_session`): the comment in
  `hello` holds for one thread only (`handlers.cpp` 58). `session_handlers` shows it for one.

What was expected to go wrong and does not: handlers that wait while they have a connection (none of WebApp's routes has
both), `/send` on one thread (its coroutine gives the thread up before `/echo` arrives), the lost race of two
registrations (a server error, but no second row), a listing between the two transactions of a form, and the pool
being destroyed before the io_context (every handler that has a connection has ended when the threads are joined).

## Proofs

Proved for all values of the constants, under the assumptions named in the modules
(no element of `Threads` is `NoThread`, times and bounds are natural numbers, requests are finitely many, ...).

*DbConnectionManagerProofs.* `TypeCorrect` needs one strengthening: the thread at a step that
puts a connection back has one (`HolderHasOne`). The lock properties are not inductive
alone. `IInv` adds who owns which mutex: `queue_lock` belongs to exactly the thread
inside its section; a thread between the lock of `counter_lock_` and its decision owns that
mutex, and the queue has a connection for it; an empty queue keeps the mutex locked; and when
the first connection comes back it is locked and no caller is between its locks. That holds
initially only if `NumConn > 0`. From `IInv`
follow `PopNeverEmpty`, `WakeupNeverLost` and `UnlocksMatch`; `QueueOwnerRuns` needs only the part about
`queue_lock` and holds for any configuration. `PInv` says that a connection is somewhere, at most
once in the queue, with at most one thread and not in both, and gives `ConnectionsNeverShared`, for any configuration. `ImplementsPool` is the step simulation
of the abstract pool, with one case per action: `Call` is an `Ask`, `Pop` a `Grant`, `Emplace` a
`GiveBack`, the others stutter.

*WorkerPoolProofs.* The point is `HoldersRun`: a connection is held only by a handler that runs on a thread, and only
one that needs it waits for it. With `NoneLost` (a connection is idle or held) and `Conns # {}` this gives
`NeverAllBlocked`. `Sized` counts the threads: those that run a handler and those that returned are at most all of them,
for which every step that takes a thread must have found one free; so after the join (`JoinedFirst`) no handler runs, none has a
connection, and `PoolIsDestroyedLast` follows.

*MemorySessionManagerProofs.* `TypeOK /\ MapsAgree` is inductive. Its
core, `Good`, is a statement about five containers rather than about the state, so that it can be
stated for those the purging loop leaves (`PurgeKeepsGood`) as well as for the
next state; `LowerBoundIsExact` says that in a good queue `lower_bound` finds the entry
sought and no other. `TouchGood`, `InsertGood`, `NotFoundGood` are the cases of a call. `PurgesAreComplete` and
`ReturnedSessionsStay` add that a call leaves only what has not expired (`Fresh`) and that what it returned stays filed, until the next call, for a
lifetime (`Returned`). `ImplementsStore` is the step simulation of `SessionStore`: a visit is a `Find`, a new session a
`New`, a miss a `Miss`, the clock an `Elapse`, and the purge is invisible, since the mapping forgot what it removes.

*RequestSessionProofs.* The keys that somebody has, in a jar, a request or a response, are `Known`, and a new key is not. So a known key
leads where it led or nowhere (`Later`), and one that was somebody's or led nowhere (`Owned`) stays so: that gives
`SessionsStayPrivate`, and with `Missed`, a cookie that missed misses again, `SessionsAreNeeded`. With one request in flight a request
is the only one of its client (`OneEach`), the jar is as it was sent, and the session it gets is under the key for `/` or under the
one its response brings (`Alone`); so the last session is under the key for `/` (`CInv`), the other cookie
leads nowhere, and `ClientsKeepTheirSessions` follows.

*HttpServerProofs.* No property is inductive: that a response is the one of its request depends on what was read, counted and
answered before. `IInv` says of every connection what is true while its one operation is a certain one (`Phases`): before
a read everything taken is paid for and asked for the connection to stay, from the coroutine to the write exactly the
last answer is owed, and so on. `Numbered` has the answers, `Unread` says that the stream still holds exactly the requests
that were not read, `Placed` where a connection is before its session. There is one lemma for each action of a session; `Frame` carries the
invariant of the connections it does not touch.

*SessionHandlersProofs.* Two arguments. On any number of threads a counter is never larger than the number of requests that
reached their count (`Bounded`), which bounds the values as well (`TypeOK`). On one thread, nobody is on a thread
but the request that takes the step (`Alone`), so what a handler found out about the object is still so at its next access:
`Knows`, for each of its steps. Between requests the counter is the number of answers (`Counted`).

*UserAccountsProofs.* `RowsOK` says whose a row is and that an open transaction has only names that no committed
row has: so rows are never overwritten, and what was registered once stays registered. What requests know or were
told (`Underway`, `Told`, `Shown`) then only has to be true when they learn it; `Frame` carries it over the steps of others.

*SequentialProofs.* One section for each part.

* *Pages*: an arithmetic argument on `TotalPages` (`TotalPagesBounds`, `TotalPagesGrows`): the offset of a page that exists is smaller than the
  number of users and so fits an int (`OffsetFits`), and pages never become fewer. `PagesInv` says that the page shown had these numbers
  when it was made. Both are about pages that exist: a number that is typed may be any other. `PagesAlwaysRight` and `ClicksAreSafe` need `MaxInt >= 10` only.
* *Websockets*: `EchoInv` has, for each socket, a number `read` of messages that were read: the frames that wait are what was said after
  them (`Waiting`), what was heard is the greeting and the echoes of those before them (`Heard`), and `data` is the last of
  them. `EchoesStayInOrder` takes messages to be no close frames and no garbage (`MessageAssumption`), which is what frames are told apart by.
* *Router*: what is evaluated are the parameters from `Behind` on, with an argument for each that is right for it, and
  everything acquired is for one of those and was acquired once, and all of them could be parsed (`Evaluated`); so a request that is refused is refused at the
  last parameter that cannot (`Refusal`), and a handler that is called takes none that cannot (`CalledIsParsed`). `HandlersGetTheirParameters` holds for any routes of the shape `RouteAssumption`
  gives them: parameters are of the kinds the library has, and no handler asks for a group that its path lacks. That at most one
  route matches is a fact about the paths of WebApp: `WebAppIsRouted` has it for every URL, with their list as its hypothesis.
* *Passwords*: the loop is followed character by character, through a salt that has no `$` (`PasswordAssumption`; the characters of
  `internal::chars` are letters and digits), the `$` and a hash without one. So `Cut` gives back the salt and the hash (`CheckedAsEncoded`), for salts of any length.
* *Queries*: `Scanned` is the invariant of `exec`'s loop: what was made is what the reference puts at the places before `i`, and
  the loop stands between two runs of `?` or after an even number of them (`Between`). `ExecOfAnything` concludes it for any template
  and any parameters; `ExecIsRight` is the property of the specification.
* *Items*: `QueriesOfHandlers` applies that to the statements of `DBTest.cpp`, `Cells` follows every kind of value to its cell and back, and
  `RowsOfItems` puts both together: a row is read back as the item it was made of. `DbInv` says that rows and items sent are one to one by name; `ItemsAreFound`
  is then the action property `FoundAsStored`. An int is taken not to be written `null` (`CodeAssumption`).
* *Parameters*: `ParamsInv` says that the two strings of the parser are the characters of the open piece from the first that is no blank on (`Open`), and that the
  pairs behind it are stored (`Kept`): the values of a key are those of its positions in their order. `OpenStep`, `Trimmed`
  and `StoreKeeps` are the steps of the loop, `PairsAreKept` is `EveryPairOnce` for any text. Characters are taken to be bytes and the delimiter `&` or `;`,
  the two that callers of `parse_params` pass (`ParamsAssumption`).
* *The way back*: `decode_url` undoes `encode_url` byte by byte (`EncodedChar`), hence for every string (`DecodeEncode`); what `encode_url` makes has
  no blank, `=`, delimiter or `+` (`EncodeIsPlain`). `ReadPair` follows the parser over one printed pair, `KeyPrinted` over the values of a key, `KeysPrinted` over all keys,
  each from a state between two pairs (`Blank`) to the next. `Stored` says what keeps two results with the same values equal (`SameResult`): one value is in
  `dict_params`, more are in `list_params`, no key is in both. `NoParamIsLost` is `ParamsKept` whole.

What a loop or a recursive function computes for inputs of any length is proved by a least counterexample: `LeastOf`, that a set of naturals which is not empty has
a least element, follows from the well-foundedness of the subsets of a finite set, and stands in for induction; `EveryNat`, `EverySeq` and `EverySeqFront` put it as
induction for sets.

Model-checked only:

* liveness and `ENABLED`, which the prover does not do: the fairness of `PoolSpec`, `SessionsEnd`,
  `ListenerRearms`, `RequestsServed`, `ShutdownEnds`, `DeadPeersAreLeft`, `RequestsAnswered` of `UserAccounts`.

## Not modelled

* Rendering and logging (`rendering.cpp`, `logging.hpp`, `common.hpp`) hand their input to libraries and keep nothing.
* The configuration file and the command line are read once; their unvalidated numbers are constants of the models. Errors at start-up, of a port
  in use for one, end the process before it serves anything.
* PBKDF2, random bytes and the seeding of the generator; files. That salts and session keys are unpredictable is not a property of
  the code's states.
* What `request_for_value` makes of a response that is not JSON: it throws, as other failures do.
* A connection to the database that broke stays in the pool: the next handler that takes it fails too. `UserAccounts` lets any
  statement of any request fail, so its properties do not depend on it, but no liveness claim is made of the answers' contents.
* The order of rows: the pages are selected without `order by`, so that which user is on which page is the database's choice.
* That the resolver answers is assumed; it has no deadline (`client.cpp` 21).
* A session that expires while its handler waits: what the handler writes is lost, and the interface promises no more.

## What could come next

`WebSocketSession` composed with
`HttpServer` and `WorkerPool` in one module, for the order in which websockets of a stopped server end; a database that reorders rows.
