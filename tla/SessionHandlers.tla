--------------------------- MODULE SessionHandlers ---------------------------
(***************************************************************************)
(* The request handlers of WebApp that use the session object              *)
(* (WebApp/handlers.cpp), for requests that carry the same cookie and so   *)
(* share one boost::json::object, which no lock protects.                  *)
(*                                                                         *)
(* A step is one access to the object.  A handler occupies a worker thread *)
(* from its start, or from its resumption after a wait, to its next wait   *)
(* or its end: with one worker nothing comes between its steps, with more  *)
(* anything does.  What racing accesses do to the inside of the object is  *)
(* not modelled: the model goes no further than the first harm visible in  *)
(* a sequential order of the accesses.                                     *)
(***************************************************************************)
EXTENDS Naturals, Sequences, FiniteSets

CONSTANTS Requests,  \* the requests of one session
          Workers,   \* the values of num_threads
          Users,     \* who can log in
          Missing,   \* stands for a key that is not in the object
          Null       \* the value operator[] inserts for a missing key

ASSUME FiniteAssumption == IsFiniteSet(Requests)
ASSUME WorkersAssumption == Workers \subseteq Nat \ {0}
ASSUME ValueAssumption ==
    Missing # Null /\ Missing \notin Users \cup Nat /\ Null \notin Users \cup Nat

Handlers == {"hello", "login", "logout", "send", "ws_echo", "index"}

Counts == 0..Cardinality(Requests)

VARIABLES workers,  \* num_threads of the configuration
          session,  \* the object: its keys user, count, cnt
          pc,       \* the next access of each request
          busy,     \* the requests that occupy a worker
          local,    \* the number a handler read and will write back
          refs,     \* the requests whose reference to user is still valid
          given     \* the values of cnt answered by /send, in order

vars == <<workers, session, pc, busy, local, refs, given>>

Steps == {"hello_check", "hello_init", "hello_zero", "hello_user", "hello_read", "hello_write",
          "hello_answer", "login", "logout_check", "logout_erase", "send_post",
          "send_init", "send_zero", "send_read", "send_write", "send_answer", "ws_echo",
          "index_check", "index_copy"}
Waits == {"send_wait"}
Ends == {"done", "sent", "refused", "failed"}

First == [hello |-> "hello_check", login |-> "login", logout |-> "logout_check",
          send |-> "send_post", ws_echo |-> "ws_echo", index |-> "index_check"]

Init == /\ workers \in Workers
        /\ session = [user |-> Missing, count |-> Missing, cnt |-> Missing]
        /\ pc = [r \in Requests |-> "new"]
        /\ busy = {}
        /\ local = [r \in Requests |-> 0]
        /\ refs = {}
        /\ given = <<>>

-----------------------------------------------------------------------------
\* r goes on at the step to, and keeps its worker unless it waits or ends.
Goto(r, from, to) ==
    /\ pc[r] = from
    /\ pc' = [pc EXCEPT ![r] = to]
    /\ busy' = IF to \in Waits \cup Ends THEN busy \ {r} ELSE busy \cup {r}
    /\ UNCHANGED workers

Start(r) == /\ Cardinality(busy) < workers
            /\ \E h \in Handlers : Goto(r, "new", First[h])
            /\ UNCHANGED <<session, local, refs, given>>

Has(key) == session[key] # Missing
Assign(key, value) == session' = [session EXCEPT ![key] = value]

\* A new key may move the whole object, an erased or replaced value is gone:
\* references into the object are lost.
Disturb(key, value) == Assign(key, value) /\ refs' = {}

-----------------------------------------------------------------------------
(* hello: counts the visits of a user who is logged in.                    *)

\* The check for a user left out.
HelloNoCheck(r) == /\ Goto(r, "hello_check", "hello_init")
                   /\ UNCHANGED <<session, local, refs, given>>

HelloCheck(r) == /\ Goto(r, "hello_check", IF Has("user") THEN "hello_init" ELSE "done")
                 /\ UNCHANGED <<session, local, refs, given>>

HelloInit(r) == /\ Goto(r, "hello_init", IF Has("count") THEN "hello_user" ELSE "hello_zero")
                /\ UNCHANGED <<session, local, refs, given>>

HelloZero(r) == /\ Goto(r, "hello_zero", "hello_user")
                /\ Disturb("count", 0)
                /\ UNCHANGED <<local, given>>

\* count added to the object once user is referenced.
HelloUserLateInit(r) == /\ Goto(r, "hello_user", "hello_read")
                        /\ session.user \in Users
                        /\ Disturb("count", IF Has("count") THEN session.count ELSE 0)
                        /\ UNCHANGED <<local, given>>

\* session["user"].as_object(): throws on null, which a missing key becomes.
HelloUser(r) == \/ /\ session.user \in Users
                   /\ Goto(r, "hello_user", "hello_read")
                   /\ refs' = refs \cup {r}
                   /\ UNCHANGED <<session, local, given>>
                \/ /\ session.user = Null
                   /\ Goto(r, "hello_user", "failed")
                   /\ UNCHANGED <<session, local, refs, given>>
                \/ /\ session.user = Missing
                   /\ Goto(r, "hello_user", "failed")
                   /\ Disturb("user", Null)
                   /\ UNCHANGED <<local, given>>

HelloRead(r) == /\ Goto(r, "hello_read", "hello_write")
                /\ local' = [local EXCEPT ![r] = session.count]
                /\ UNCHANGED <<session, refs, given>>

HelloWrite(r) == /\ Goto(r, "hello_write", "hello_answer")
                 /\ Assign("count", local[r] + 1)
                 /\ UNCHANGED <<local, refs, given>>

\* The answer reads user["username"] through the reference.
HelloAnswer(r) == /\ Goto(r, "hello_answer", "done")
                  /\ refs' = refs \ {r}
                  /\ UNCHANGED <<session, local, given>>

-----------------------------------------------------------------------------
(* user_login, once the password is right, and user_logout.                *)

\* An existing value is replaced where it is; a new key is an insertion.
Login(r) == /\ Goto(r, "login", "done")
            /\ \E u \in Users : IF Has("user") THEN Assign("user", u) /\ UNCHANGED refs
                                             ELSE Disturb("user", u)
            /\ UNCHANGED <<local, given>>

\* Sets the key in place of erasing it.
LogoutNullsUser(r) == /\ Goto(r, "logout_erase", "done")
                      /\ Disturb("user", Null)
                      /\ UNCHANGED <<local, given>>

LogoutCheck(r) == /\ Goto(r, "logout_check", IF Has("user") THEN "logout_erase" ELSE "done")
                  /\ UNCHANGED <<session, local, refs, given>>

LogoutErase(r) == /\ Goto(r, "logout_erase", "done")
                  /\ Disturb("user", Missing)
                  /\ UNCHANGED <<local, given>>

(* index: copies the user into the context of the page.                    *)
IndexCheck(r) == /\ Goto(r, "index_check", IF Has("user") THEN "index_copy" ELSE "done")
                 /\ UNCHANGED <<session, local, refs, given>>

IndexCopy(r) == /\ Goto(r, "index_copy", "done")
                /\ IF Has("user") THEN UNCHANGED <<session, refs>> ELSE Disturb("user", Null)
                /\ UNCHANGED <<local, given>>

-----------------------------------------------------------------------------
(* send_request: waits for another server, then counts.                    *)

SendPost(r) == /\ Goto(r, "send_post", "send_wait")
               /\ UNCHANGED <<session, local, refs, given>>

\* The response comes, or the request fails or times out: request_failed, and
\* nothing was counted.
SendResume(r) == /\ Cardinality(busy) < workers
                 /\ Goto(r, "send_wait", "send_init") \/ Goto(r, "send_wait", "refused")
                 /\ UNCHANGED <<session, local, refs, given>>

\* Sets the counter without looking.
SendInitAlways(r) == /\ Goto(r, "send_init", "send_zero")
                     /\ UNCHANGED <<session, local, refs, given>>

SendInit(r) == /\ Goto(r, "send_init", IF Has("cnt") THEN "send_read" ELSE "send_zero")
               /\ UNCHANGED <<session, local, refs, given>>

SendZero(r) == /\ Goto(r, "send_zero", "send_read")
               /\ Disturb("cnt", 0)
               /\ UNCHANGED <<local, given>>

\* as_int64 throws on null.
SendRead(r) == /\ Goto(r, "send_read", IF session.cnt = Null THEN "failed" ELSE "send_write")
               /\ local' = IF session.cnt = Null THEN local
                           ELSE [local EXCEPT ![r] = session.cnt]
               /\ UNCHANGED <<session, refs, given>>

SendWrite(r) == /\ Goto(r, "send_write", "send_answer")
                /\ Assign("cnt", local[r] + 1)
                /\ UNCHANGED <<local, refs, given>>

SendAnswer(r) == /\ Goto(r, "send_answer", "sent")
                 /\ given' = Append(given, session.cnt)
                 /\ UNCHANGED <<session, local, refs>>

(* ws_echo: sends cnt, with the operator[] that inserts a missing key.     *)
WsEcho(r) == /\ Goto(r, "ws_echo", "done")
             /\ IF Has("cnt") THEN UNCHANGED <<session, refs>> ELSE Disturb("cnt", Null)
             /\ UNCHANGED <<local, given>>

-----------------------------------------------------------------------------
Hello(r) == \/ HelloCheck(r) \/ HelloInit(r) \/ HelloZero(r) \/ HelloUser(r)
            \/ HelloRead(r) \/ HelloWrite(r) \/ HelloAnswer(r)
Send(r) == \/ SendPost(r) \/ SendResume(r) \/ SendInit(r) \/ SendZero(r)
           \/ SendRead(r) \/ SendWrite(r) \/ SendAnswer(r)

Next == \E r \in Requests : \/ Start(r) \/ Hello(r) \/ Send(r) \/ Login(r)
                            \/ LogoutCheck(r) \/ LogoutErase(r)
                            \/ IndexCheck(r) \/ IndexCopy(r) \/ WsEcho(r)

Spec == Init /\ [][Next]_vars

-----------------------------------------------------------------------------

TypeOK == /\ workers \in Workers
          /\ session \in [user : Users \cup {Missing, Null}, count : Counts \cup {Missing},
                          cnt : Counts \cup {Missing, Null}]
          /\ pc \in [Requests -> {"new"} \cup Steps \cup Waits \cup Ends]
          /\ busy = {r \in Requests : pc[r] \in Steps}
          /\ Cardinality(busy) <= workers
          /\ local \in [Requests -> Counts]
          /\ refs \subseteq Requests
          /\ given \in Seq(Counts)

(* "then `user` can be referenced safely" (handlers.cpp, 58): the          *)
(* reference that hello took is valid when the answer is built from it.    *)
ReferenceValid == \A r \in Requests : pc[r] = "hello_answer" => r \in refs

(* So it is on one thread, in whatever order the requests of a session     *)
(* come; on more threads it is not.                                        *)
UserReferenceSafe == workers = 1 => ReferenceValid

(* The i-th answered /send of a session answers cnt = i, and between the   *)
(* requests cnt is the number of answers given, however the waits of       *)
(* several requests overlap (test/scripts/request_test.py, 31-34).         *)
EverySendCounted ==
    /\ \A i \in DOMAIN given : given[i] = i
    /\ busy = {} /\ session.cnt \in Counts => session.cnt = Len(given)

(* Requests of one session on several threads may miss counts of each      *)
(* other, but never count a /send that did not reach its count.            *)
NeverOvercounts ==
    session.cnt \in Counts =>
        session.cnt <= Cardinality({r \in Requests : pc[r] \in {"send_answer", "sent"}})

(* On one thread the requests count each other, on several none too often. *)
SendsCounted == NeverOvercounts /\ (workers = 1 => EverySendCounted)

(* On one thread no handler leaves a null user behind: every later hello   *)
(* would fail.                                                             *)
NoNullUser == workers = 1 => session.user # Null

(* The keys of the object have the types their readers take for granted.   *)
SessionObjectSound == TypeOK /\ NoNullUser

(* On one thread a request fails only when a websocket asked for cnt       *)
(* before the first /send of the session.                                  *)
OnlyEarlyEchoHarms ==
    workers = 1 /\ (\E r \in Requests : pc[r] = "failed") => session.cnt = Null

(* Each /send of the test answers with the next cnt                        *)
(* (test/scripts/request_test.py, 31-34): none ends in a server error.     *)
NoRequestFails == \A r \in Requests : pc[r] # "failed"
=============================================================================
