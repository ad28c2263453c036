------------------------ MODULE MemorySessionManager ------------------------
(***************************************************************************)
(* memory_session_manager (bserv/session.cpp): sessions by key, found      *)
(* through an integer, with a queue ordered by expiry.  Both calls hold    *)
(* lock_ from the first statement to the last, so a call is one step.      *)
(*                                                                         *)
(* Nothing runs when a session expires: the expired sessions stay in the   *)
(* containers until the next call, which removes them first.               *)
(***************************************************************************)
EXTENDS Integers

CONSTANTS Keys,        \* the random strings, and what clients send
          EmptyKey,    \* the empty string
          IntKeys,     \* the random integers
          NoObject,    \* the null session pointer
          Lifetime,    \* 20 minutes
          MaxTime,     \* bound on the clock
          MaxObjects   \* bound on the sessions ever made

ASSUME KeyAssumption == EmptyKey \notin Keys
ASSUME IntKeyAssumption == IntKeys \subseteq Nat
ASSUME LifetimeAssumption == Lifetime \in Nat
ASSUME BoundAssumption == MaxTime \in Nat /\ MaxObjects \in Nat
ASSUME ObjectAssumption == NoObject \notin Nat

VARIABLES now,         \* steady_clock
          str_to_int,  \* key -> integer
          int_to_str,  \* integer -> key
          sessions,    \* integer -> session object
          expiry,      \* integer -> when it expires
          queue,       \* the pairs <<expiry, integer>>, a sorted set
          made,        \* how many objects were made: the names of the objects
          ret          \* what the last call returned: [made, key, obj, at]

containers == <<str_to_int, int_to_str, sessions, expiry, queue>>
vars == <<now, containers, made, ret>>

Objects == 1..MaxObjects

-----------------------------------------------------------------------------
\* m[x] = y and the erasure of the keys xs of a std::map.
Assign(m, x, y) == [z \in DOMAIN m \cup {x} |-> IF z = x THEN y ELSE m[z]]
Erase(m, xs) == [z \in DOMAIN m \ xs |-> m[z]]

\* The order of std::pair, and the erasure at lower_bound(p) of a std::set.
AtMost(p, q) == p[1] < q[1] \/ (p[1] = q[1] /\ p[2] <= q[2])

\* upper_bound in place of lower_bound.
EraseAtUpperBound(s, p) ==
    s \ {q \in s : ~AtMost(q, p) /\ \A r \in s : ~AtMost(r, p) => AtMost(q, r)}

EraseAtLowerBound(s, p) ==
    s \ {q \in s : AtMost(p, q) /\ \A r \in s : AtMost(p, r) => AtMost(q, r)}

-----------------------------------------------------------------------------
\* if in place of while; <= in place of <.
ExpiredFirstOnly == {p[2] : p \in {q \in queue : q[1] < now /\ \A r \in queue : AtMost(q, r)}}
ExpiredEarly == {p[2] : p \in {q \in queue : q[1] <= now}}

\* The sessions the while loop at the head of both calls removes, and the
\* containers it leaves.
Expired == {p[2] : p \in {q \in queue : q[1] < now}}

KeptStrToInt == Erase(str_to_int, {int_to_str[i] : i \in Expired})
KeptIntToStr == Erase(int_to_str, Expired)
KeptSessions == Erase(sessions, Expired)
KeptExpiry == Erase(expiry, Expired)
KeptQueue == {p \in queue : p[2] \notin Expired}

Result(isNew, key, obj) == [made |-> isNew, key |-> key, obj |-> obj, at |-> now]

\* The containers that a visit leaves as the loop left them.
KeepSessions == /\ str_to_int' = KeptStrToInt
                /\ int_to_str' = KeptIntToStr
                /\ sessions' = KeptSessions

\* The expiry and the queue entry forgotten.
TouchWithoutExtending(key) ==
    /\ key \in DOMAIN KeptStrToInt
    /\ KeepSessions
    /\ expiry' = KeptExpiry
    /\ queue' = KeptQueue
    /\ ret' = Result(FALSE, key, KeptSessions[KeptStrToInt[key]])
    /\ UNCHANGED <<now, made>>

\* What both calls do with a key in use: the expiry is extended and the queue
\* entry is replaced.
Touch(key) ==
    /\ key \in DOMAIN KeptStrToInt
    /\ KeepSessions
    /\ LET i == KeptStrToInt[key]
           at == now + Lifetime
       IN  /\ expiry' = Assign(KeptExpiry, i, at)
           /\ queue' = EraseAtLowerBound(KeptQueue, <<KeptExpiry[i], i>>) \cup {<<at, i>>}
           /\ ret' = Result(FALSE, key, KeptSessions[i])
    /\ UNCHANGED <<now, made>>

\* The new session of a call: the key and the integer are drawn until they are
\* not in use.  The key is a new one whatever the client sent.
Insert(obj) ==
    \E k \in Keys \ DOMAIN KeptStrToInt, i \in IntKeys \ DOMAIN KeptIntToStr :
        LET at == now + Lifetime
        IN  /\ str_to_int' = Assign(KeptStrToInt, k, i)
            /\ int_to_str' = Assign(KeptIntToStr, i, k)
            /\ sessions' = Assign(KeptSessions, i, obj)
            /\ expiry' = Assign(KeptExpiry, i, at)
            /\ queue' = KeptQueue \cup {<<at, i>>}
            /\ ret' = Result(TRUE, k, obj)

\* The make_shared of the new session forgotten.
CreateNullObject(key) == /\ key \notin DOMAIN KeptStrToInt
                         /\ made < MaxObjects
                         /\ made' = made + 1
                         /\ Insert(NoObject)
                         /\ UNCHANGED now

Create(key) == /\ key \notin DOMAIN KeptStrToInt
               /\ made < MaxObjects
               /\ made' = made + 1
               /\ Insert(made + 1)
               /\ UNCHANGED now

NotFound(key) == /\ key \notin DOMAIN KeptStrToInt
                 /\ KeepSessions
                 /\ expiry' = KeptExpiry
                 /\ queue' = KeptQueue
                 /\ ret' = Result(FALSE, key, NoObject)
                 /\ UNCHANGED <<now, made>>

get_or_create(key) == Create(key) \/ Touch(key)
try_get(key) == NotFound(key) \/ Touch(key)

Tick == /\ now < MaxTime
        /\ now' = now + 1
        /\ UNCHANGED <<containers, made, ret>>

Empty == [x \in {} |-> NoObject]

Init == /\ now = 0
        /\ str_to_int = Empty /\ int_to_str = Empty
        /\ sessions = Empty /\ expiry = Empty
        /\ queue = {}
        /\ made = 0
        /\ ret = Result(FALSE, EmptyKey, NoObject)

Next == \/ Tick
        \/ \E key \in Keys \cup {EmptyKey} : get_or_create(key) \/ try_get(key)

Spec == Init /\ [][Next]_vars

-----------------------------------------------------------------------------

(* The containers have the types of session.hpp; no session pointer is     *)
(* null.                                                                   *)
TypeOK ==
    /\ now \in 0..MaxTime
    /\ DOMAIN str_to_int \subseteq Keys
    /\ str_to_int \in [DOMAIN str_to_int -> IntKeys]
    /\ DOMAIN int_to_str \subseteq IntKeys
    /\ int_to_str \in [DOMAIN int_to_str -> Keys]
    /\ DOMAIN sessions \subseteq IntKeys
    /\ sessions \in [DOMAIN sessions -> Objects]
    /\ DOMAIN expiry \subseteq IntKeys
    /\ expiry \in [DOMAIN expiry -> Nat]
    /\ queue \subseteq Nat \X IntKeys
    /\ made \in 0..MaxObjects
    /\ ret \in [made : BOOLEAN, key : Keys \cup {EmptyKey},
                obj : Objects \cup {NoObject}, at : 0..MaxTime]

(* The five containers describe the same sessions: keys and integers       *)
(* correspond one to one, every session has one expiry and exactly one     *)
(* queue entry, the one lower_bound will find, and no two keys reach one   *)
(* session object.                                                         *)
MapsAgree ==
    /\ DOMAIN int_to_str = DOMAIN sessions
    /\ DOMAIN expiry = DOMAIN sessions
    /\ queue = {<<expiry[i], i>> : i \in DOMAIN expiry}
    /\ \A k \in DOMAIN str_to_int : /\ str_to_int[k] \in DOMAIN int_to_str
                                    /\ int_to_str[str_to_int[k]] = k
    /\ \A i \in DOMAIN int_to_str : /\ int_to_str[i] \in DOMAIN str_to_int
                                    /\ str_to_int[int_to_str[i]] = i
    /\ \A i, j \in DOMAIN sessions : sessions[i] = sessions[j] => i = j

(* A call leaves no expired session behind: the queue is all the loop      *)
(* looks at, so an entry out of order would keep sessions for ever.        *)
PurgeComplete == ret.at = now => \A i \in DOMAIN sessions : expiry[i] >= now

(* The session a call returned is the one its key reaches until the next   *)
(* call, for Lifetime (session.hpp, 33-35): no container lost it.  What    *)
(* later calls may do to it is StoreSpec's part.                           *)
ReturnedSessionStays ==
    ret.obj # NoObject /\ now <= ret.at + Lifetime =>
        /\ ret.key \in DOMAIN str_to_int
        /\ str_to_int[ret.key] \in DOMAIN sessions
        /\ sessions[str_to_int[ret.key]] = ret.obj
        /\ expiry[str_to_int[ret.key]] >= now

\* The sessions a request can reach.
Live == {k \in DOMAIN str_to_int : expiry[str_to_int[k]] >= now}

-----------------------------------------------------------------------------
(* The containers implement the promise of the interface, the sessions     *)
(* that expired without having been removed yet being the ones it no       *)
(* longer has.                                                             *)
Store == INSTANCE SessionStore
         WITH live <- [k \in Live |-> [obj |-> sessions[str_to_int[k]],
                                       until |-> expiry[str_to_int[k]]]]

StoreSpec == Store!StoreSpec
=============================================================================
