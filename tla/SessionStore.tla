---------------------------- MODULE SessionStore ----------------------------
(***************************************************************************)
(* What session_manager_base promises the request handlers                 *)
(* (bserv/include/bserv/session.hpp, 26-46): a session lives under its key *)
(* for Lifetime after its last visit, and both calls are visits.  The five *)
(* containers of MemorySessionManager implement it.                        *)
(***************************************************************************)
EXTENDS Integers

CONSTANTS Keys,        \* session ids, the values of the bsessionid cookie
          EmptyKey,    \* the key of a request without a cookie
          NoObject,    \* the null session pointer
          Lifetime,    \* 20 minutes
          MaxTime,     \* bound on the clock
          MaxObjects   \* bound on the sessions ever made

VARIABLES now,         \* steady_clock
          live,        \* key -> [obj, until] of the sessions a request can reach
          made,        \* how many sessions were ever made: names of the objects
          ret          \* what the last call returned: [made, key, obj, at]

storeVars == <<now, live, made, ret>>

Result(isNew, key, obj) == [made |-> isNew, key |-> key, obj |-> obj, at |-> now]

StoreInit == /\ now = 0
             /\ live = [k \in {} |-> NoObject]
             /\ made = 0
             /\ ret = Result(FALSE, EmptyKey, NoObject)

\* Time passes; the sessions not visited for longer than Lifetime are gone.
Elapse == /\ now < MaxTime
          /\ now' = now + 1
          /\ live' = [k \in {j \in DOMAIN live : live[j].until >= now'} |-> live[k]]
          /\ UNCHANGED <<made, ret>>

\* try_get and get_or_create of a key in use.
Find(key) == /\ key \in DOMAIN live
             /\ live' = [live EXCEPT ![key].until = now + Lifetime]
             /\ ret' = Result(FALSE, key, live[key].obj)
             /\ UNCHANGED <<now, made>>

\* get_or_create of a key that is not in use: the id is a new one.
New(key) == /\ key \notin DOMAIN live
            /\ made < MaxObjects
            /\ made' = made + 1
            /\ \E k \in Keys \ DOMAIN live :
                  /\ live' = [j \in DOMAIN live \cup {k} |->
                                 IF j = k THEN [obj |-> made', until |-> now + Lifetime]
                                          ELSE live[j]]
                  /\ ret' = Result(TRUE, k, made')
            /\ UNCHANGED now

\* try_get of a key that is not in use.
Miss(key) == /\ key \notin DOMAIN live
             /\ ret' = Result(FALSE, key, NoObject)
             /\ UNCHANGED <<now, live, made>>

StoreNext == \/ Elapse
             \/ \E key \in Keys \cup {EmptyKey} : Find(key) \/ New(key) \/ Miss(key)

StoreSpec == StoreInit /\ [][StoreNext]_storeVars
=============================================================================
