--------------------------- MODULE RequestSession ---------------------------
(***************************************************************************)
(* How a request finds its session, and how the client learns of it: the   *)
(* session parameter of the router (bserv/include/bserv/router.hpp,        *)
(* 157-186) and what handle_request makes of the response (bserv.cpp,      *)
(* 30-104), over the sessions of SessionStore.                             *)
(*                                                                         *)
(* Each call of the session manager is a step: requests interleave between *)
(* the try_get of one cookie and the next, and sessions expire there.      *)
(*                                                                         *)
(* A client keeps two cookies of the name bsessionid: the one the server   *)
(* sets, for the path /, and one of a longer path, which it sends first.   *)
(* The keys of new sessions, 32 random characters, are taken never to have *)
(* been seen before.                                                       *)
(***************************************************************************)
EXTENDS SessionStore, Sequences, FiniteSets

CONSTANTS Clients,
          Requests,
          InFlight   \* bounds on the requests a client has in flight

ASSUME KeyAssumption == EmptyKey \notin Keys
ASSUME ObjectAssumption == NoObject \notin Nat
ASSUME ClientAssumption == EmptyKey \notin Clients
ASSUME TimeAssumption == Lifetime \in Nat /\ MaxTime \in Nat /\ MaxObjects \in Nat
ASSUME RequestAssumption == IsFiniteSet(Requests) /\ InFlight \subseteq Nat

VARIABLES inFlight, \* the one of InFlight that the clients keep to
          jar,    \* the cookies of each client: [other, root]
          pc,     \* where each request is
          who,    \* the client of a request
          sent,   \* the values of bsessionid in a request, in order
          tried,  \* how many of them were given to try_get
          sess,   \* session_ptr: the session of the request
          told,   \* the key in the Set-Cookie of its response
          last,   \* the session of the last request that succeeded, by client
          owner   \* the client a session was made for

requestVars == <<pc, who, sent, tried, sess, told>>
clientVars == <<inFlight, jar, last, owner>>
vars == <<storeVars, requestVars, clientVars>>

NoClient == EmptyKey

\* What the client sends: a cookie it does not have is not in the header.
Cookie(k) == IF k = EmptyKey THEN <<>> ELSE <<k>>
Cookies(j) == Cookie(j.other) \o Cookie(j.root)

\* Clients may come with cookies that no server gave them.
Init == /\ StoreInit /\ inFlight \in InFlight
        /\ jar \in [Clients -> [other : Keys \cup {EmptyKey}, root : Keys \cup {EmptyKey}]]
        /\ pc = [r \in Requests |-> "new"]
        /\ who = [r \in Requests |-> NoClient]
        /\ sent = [r \in Requests |-> <<>>]
        /\ tried = [r \in Requests |-> 0]
        /\ sess = [r \in Requests |-> NoObject]
        /\ told = [r \in Requests |-> EmptyKey]
        /\ last = [c \in Clients |-> NoObject]
        /\ owner = [o \in {} |-> NoClient]

-----------------------------------------------------------------------------
Pending(c) == {r \in Requests : who[r] = c /\ pc[r] \notin {"new", "done"}}

Request(r, c) == /\ pc[r] = "new"
                 /\ Cardinality(Pending(c)) < inFlight
                 /\ pc' = [pc EXCEPT ![r] = "lookup"]
                 /\ who' = [who EXCEPT ![r] = c]
                 /\ sent' = [sent EXCEPT ![r] = Cookies(jar[c])]
                 /\ UNCHANGED <<storeVars, tried, sess, told, clientVars>>

\* The Cookie header has an escape that is no number, in whichever cookie: the
\* request is refused before a session is looked for.
CookieFails(r) == /\ pc[r] = "lookup" /\ tried[r] = 0
                  /\ pc' = [pc EXCEPT ![r] = "refused"]
                  /\ UNCHANGED <<storeVars, who, sent, tried, sess, told, clientVars>>

\* try_get is for a name that came several times.
Trying(r) == pc[r] = "lookup" /\ Len(sent[r]) > 1 /\ tried[r] < Len(sent[r])

Enter(r) == /\ pc' = [pc EXCEPT ![r] = "handler"]
            /\ sess' = [sess EXCEPT ![r] = ret'.obj]

TryFinds(r) == /\ Trying(r)
               /\ Find(sent[r][tried[r] + 1])
               /\ Enter(r)
               /\ UNCHANGED <<who, sent, tried, told, clientVars>>

\* break after the first cookie, found or not.
TryMissesStops(r) == /\ Trying(r)
                     /\ Miss(sent[r][tried[r] + 1])
                     /\ tried' = [tried EXCEPT ![r] = Len(sent[r])]
                     /\ UNCHANGED <<pc, who, sent, sess, told, clientVars>>

TryMisses(r) == /\ Trying(r)
                /\ Miss(sent[r][tried[r] + 1])
                /\ tried' = [tried EXCEPT ![r] = @ + 1]
                /\ UNCHANGED <<pc, who, sent, sess, told, clientVars>>

-----------------------------------------------------------------------------
\* get_or_create is given the cookie that came once, or nothing.
Asked(r) == IF Len(sent[r]) = 1 THEN Head(sent[r]) ELSE EmptyKey
Asking(r) == pc[r] = "lookup" /\ ~Trying(r)

Opens(r) == /\ Asking(r)
            /\ Find(Asked(r))
            /\ Enter(r)
            /\ UNCHANGED <<who, sent, tried, told, clientVars>>

Known == DOMAIN live \cup {told[r] : r \in Requests}
           \cup (UNION {{sent[r][i] : i \in DOMAIN sent[r]} : r \in Requests})
           \cup {jar[c].root : c \in Clients} \cup {jar[c].other : c \in Clients}

Unseen == ret'.key \notin Known

\* The cookie forgotten; the key of the client used for the new session.
CreatesSilently(r) == /\ Asking(r)
                      /\ New(Asked(r)) /\ Unseen
                      /\ Enter(r)
                      /\ owner' = [o \in DOMAIN owner \cup {made'} |->
                                      IF o = made' THEN who[r] ELSE owner[o]]
                      /\ UNCHANGED <<inFlight, who, sent, tried, told, jar, last>>

CreatesAsAsked(r) == /\ Asking(r)
                     /\ New(Asked(r))
                     /\ IF Asked(r) = EmptyKey THEN Unseen ELSE ret'.key = Asked(r)
                     /\ Enter(r)
                     /\ told' = [told EXCEPT ![r] = ret'.key]
                     /\ owner' = [o \in DOMAIN owner \cup {made'} |->
                                     IF o = made' THEN who[r] ELSE owner[o]]
                     /\ UNCHANGED <<inFlight, who, sent, tried, jar, last>>

\* The response being built gets the Set-Cookie.
Creates(r) == /\ Asking(r)
              /\ New(Asked(r)) /\ Unseen
              /\ Enter(r)
              /\ told' = [told EXCEPT ![r] = ret'.key]
              /\ owner' = [o \in DOMAIN owner \cup {made'} |->
                              IF o = made' THEN who[r] ELSE owner[o]]
              /\ UNCHANGED <<inFlight, who, sent, tried, jar, last>>

-----------------------------------------------------------------------------
\* How the handler ends.  An exception is answered by a new response, without
\* the cookie; that of a websocket is dropped: the handshake came before it.
Leaves(r, to) == /\ pc[r] = "handler"
                 /\ pc' = [pc EXCEPT ![r] = to]
                 /\ UNCHANGED <<storeVars, who, sent, tried, sess, clientVars>>

Returns(r) == Leaves(r, "answered") /\ UNCHANGED told

Throws(r) == Leaves(r, "refused") /\ told' = [told EXCEPT ![r] = EmptyKey]

Upgraded(r) == Leaves(r, "done") /\ told' = [told EXCEPT ![r] = EmptyKey]

\* The client gets the response, or the write fails.
Delivered(r) ==
    /\ pc[r] \in {"answered", "refused"}
    /\ pc' = [pc EXCEPT ![r] = "done"]
    /\ jar' = IF told[r] = EmptyKey THEN jar ELSE [jar EXCEPT ![who[r]].root = told[r]]
    /\ last' = IF pc[r] = "answered" THEN [last EXCEPT ![who[r]] = sess[r]] ELSE last
    /\ UNCHANGED <<storeVars, inFlight, who, sent, tried, sess, told, owner>>

Lost(r) == /\ pc[r] \in {"answered", "refused"}
           /\ pc' = [pc EXCEPT ![r] = "done"]
           /\ UNCHANGED <<storeVars, who, sent, tried, sess, told, clientVars>>

TimePasses == Elapse /\ UNCHANGED <<requestVars, clientVars>>

Next == \/ TimePasses
        \/ \E r \in Requests : \/ \E c \in Clients : Request(r, c)
                               \/ CookieFails(r) \/ TryFinds(r) \/ TryMisses(r) \/ Opens(r) \/ Creates(r)
                               \/ Returns(r) \/ Throws(r) \/ Upgraded(r)
                               \/ Delivered(r) \/ Lost(r)

Spec == Init /\ [][Next]_vars

-----------------------------------------------------------------------------

Objects == 1..MaxObjects

TypeOK ==
    /\ inFlight \in InFlight
    /\ jar \in [Clients -> [other : Keys \cup {EmptyKey}, root : Keys \cup {EmptyKey}]]
    /\ pc \in [Requests -> {"new", "lookup", "handler", "answered", "refused", "done"}]
    /\ who \in [Requests -> Clients \cup {NoClient}]
    /\ sent \in [Requests -> Seq(Keys)] /\ tried \in [Requests -> Nat]
    /\ \A r \in Requests : Len(sent[r]) <= 2 /\ tried[r] <= Len(sent[r])
    /\ sess \in [Requests -> Objects \cup {NoObject}]
    /\ \A r \in Requests : pc[r] \in {"handler", "answered"} => sess[r] # NoObject
    /\ told \in [Requests -> Keys \cup {EmptyKey}]
    /\ last \in [Clients -> Objects \cup {NoObject}]
    /\ owner \in [1..made -> Clients]

(* A request that reaches its handler has a session, and never one that    *)
(* was made for another client, whatever cookies the clients invent, two   *)
(* of them the same one included.                                          *)
SessionsAreNotShared ==
    /\ TypeOK
    /\ \A r \in Requests : sess[r] # NoObject => owner[sess[r]] = who[r]

(* No session is made for a request while one of the cookies it sent leads *)
(* to a session that lives, although the cookies are tried one at a time.  *)
NoNeedlessSession ==
    [][\A r \in Requests :
          told'[r] # told[r] /\ told'[r] # EmptyKey =>
              \A i \in DOMAIN sent[r] : sent[r][i] \notin DOMAIN live]_vars

\* Which of the cookies of a client leads its next request to a session.
Leads(c, i) == LET keys == Cookies(jar[c])
               IN  keys[i] \in DOMAIN live /\ \A j \in 1..(i - 1) : keys[j] \notin DOMAIN live

(* A client that sends one request after the other goes on in the session  *)
(* of its last successful request as long as that session lives, whatever  *)
(* failed, was lost or was upgraded in the meantime.                       *)
ClientKeepsSession ==
    \A c \in Clients :
        inFlight = 1 /\ Pending(c) = {} /\ (\E k \in DOMAIN live : live[k].obj = last[c])
            => \E i \in DOMAIN Cookies(jar[c]) : Leads(c, i) /\ live[Cookies(jar[c])[i]].obj = last[c]
=============================================================================
