--------------------------------- MODULE Router ---------------------------------
(***************************************************************************)
(* From a request to the call of its handler (router.hpp 150-456): the     *)
(* paths are tried in their order, then the parameters of the handler are  *)
(* evaluated from the last to the first, each appended in front of those   *)
(* that are there already.  URLs are sequences of tokens: words, digits    *)
(* and signs.                                                              *)
(***************************************************************************)
EXTENDS Naturals, Sequences, Functions

CONSTANTS Routes,    \* the paths of the server: [prefix, group, params]
          Tokens,    \* what URLs are made of
          MaxTokens, \* bound on a URL
          Keys       \* the keys of parameters

VARIABLES url,     \* of the request, up to the '?'
          body,    \* [media, keys]; keys that cannot be parsed are Broken
          query,   \* the keys after the '?', or Broken
          cookie,  \* the Cookie header: "fine", or "broken" by an escape that is no number
          stage,   \* "new", "evaluating", then "called" or the status of an error
          route,   \* the path that matched
          args,    \* the last arguments of the call, those that were evaluated
          objects, \* request_resources: what was acquired for this request
          acquired \* each call that acquired something, in order

vars == <<url, body, query, cookie, stage, route, args, objects, acquired>>

Broken == {"broken"}
None == "none"

Route(prefix, group, params) == [prefix |-> prefix, group |-> group, params |-> params]

\* The paths of WebApp.
WebAppRoutes ==
  << Route(<<"/", "hello">>, None, <<"response", "session">>),
     Route(<<"/", "register">>, None, <<"request", "json", "db">>),
     Route(<<"/", "login">>, None, <<"request", "json", "db", "session">>),
     Route(<<"/", "logout">>, None, <<"session">>),
     Route(<<"/", "find", "/">>, "str", <<"db", "_1">>),
     Route(<<"/", "send">>, None, <<"session", "client", "json">>),
     Route(<<"/", "echo">>, None, <<"json">>),
     Route(<<"/", "statics", "/">>, "path", <<"response", "_1">>),
     Route(<<"/">>, None, <<"session", "response">>),
     Route(<<"/", "form_login">>, None, <<"request", "response", "json", "db", "session">>),
     Route(<<"/", "form_logout">>, None, <<"session", "response">>),
     Route(<<"/", "users">>, None, <<"db", "session", "response", "value">>),
     Route(<<"/", "users", "/">>, "int", <<"db", "session", "response", "_1">>),
     Route(<<"/", "form_add_user">>, None, <<"request", "response", "json", "db", "session">>) >>

-----------------------------------------------------------------------------
\* url_regex_mapping: what a group is made of; none of them is empty.
Digits == {"7"}
Signs == {"/", "%"}
Class(group) == CASE group = "int" -> Digits
                  [] group = "str" -> Tokens \ Signs
                  [] group = "path" -> Tokens \ {"%"}

\* regex_match of the whole URL.
match(r, u) == LET n == Len(r.prefix) IN
  /\ n <= Len(u) /\ SubSeq(u, 1, n) = r.prefix
  /\ IF r.group = None THEN Len(u) = n
     ELSE Len(u) > n /\ \A i \in (n + 1)..Len(u) : u[i] \in Class(r.group)

\* url_params[1]
Group(r, u) == SubSeq(u, Len(r.prefix) + 1, Len(u))

Init == /\ url \in UNION {[1..n -> Tokens] : n \in 1..MaxTokens} /\ url[1] = "/"
        /\ \E media \in {"json", "form", "other"}, keys \in (SUBSET Keys) \cup {Broken} : body = [media |-> media, keys |-> keys]
        /\ query \in (SUBSET Keys) \cup {Broken}
        /\ cookie \in {"fine", "broken"}
        /\ stage = "new" /\ route = 0
        /\ args = <<>>
        /\ objects = [session |-> 0, db |-> 0, client |-> 0, websocket |-> 0]
        /\ acquired = <<>>

Matching == {n \in DOMAIN Routes : match(Routes[n], url)}

\* operator(): the first path that matches.
Dispatch == /\ stage = "new"
            /\ IF Matching = {} THEN stage' = "404" /\ UNCHANGED route
               ELSE /\ stage' = "evaluating"
                    /\ route' = CHOOSE n \in Matching : \A m \in Matching : n <= m
            /\ UNCHANGED <<url, body, query, cookie, args, objects, acquired>>

-----------------------------------------------------------------------------
Params == Routes[route].params
Evaluating(p) == stage = "evaluating" /\ Len(args) < Len(Params) /\ Params[Len(Params) - Len(args)] = p
Passes(arg) == args' = <<arg>> \o args

\* The body's keys, then those of the query that it does not have.
Merged == [k \in body.keys \cup query |-> IF k \in body.keys THEN "body" ELSE "query"]

\* A body of another type is not looked at.
Ignored == body.media = "other"

\* json_params: a body that is no JSON object is the client's fault; an escape
\* that is no number is an exception like any other.
JsonFails == /\ Evaluating("json")
             /\ \/ body.keys = Broken /\ ~Ignored
                \/ query = Broken
             /\ stage' = IF body.keys = Broken /\ body.media = "json" THEN "400" ELSE "500"
             /\ UNCHANGED <<url, body, query, cookie, route, args, objects, acquired>>

Json == /\ Evaluating("json")
        /\ query # Broken /\ (Ignored \/ body.keys # Broken)
        /\ Passes([json |-> IF Ignored THEN [k \in query |-> "query"] ELSE Merged])
        /\ UNCHANGED <<url, body, query, cookie, stage, route, objects, acquired>>

\* The first session parameter parses the Cookie header; the others get the session
\* that is there.
Readable(p) == p = "session" /\ objects.session = 0 => cookie = "fine"

SessionFails == /\ Evaluating("session") /\ ~Readable("session")
                /\ stage' = "500"
                /\ UNCHANGED <<url, body, query, cookie, route, args, objects, acquired>>

\* Not asked whether there is one already.
AcquireAgain(p) == /\ Evaluating(p) /\ Readable(p)
                   /\ acquired' = Append(acquired, p)
                   /\ objects' = [objects EXCEPT ![p] = Len(acquired')]
                   /\ Passes([kind |-> p, object |-> objects'[p]])
                   /\ UNCHANGED <<url, body, query, cookie, stage, route>>

\* A session, a connection, a client or the server's end of a websocket: one per request.
Acquire(p) == /\ Evaluating(p) /\ Readable(p)
              /\ IF objects[p] = 0 THEN acquired' = Append(acquired, p) /\ objects' = [objects EXCEPT ![p] = Len(acquired')]
                                   ELSE UNCHANGED <<acquired, objects>>
              /\ Passes([kind |-> p, object |-> objects'[p]])
              /\ UNCHANGED <<url, body, query, cookie, stage, route>>

\* What is there already.
Given(p) == /\ Evaluating(p)
            /\ Passes(IF p = "_1" THEN [group |-> Group(Routes[route], url)] ELSE [kind |-> p])
            /\ UNCHANGED <<url, body, query, cookie, stage, route, objects, acquired>>

Call == /\ stage = "evaluating" /\ Len(args) = Len(Params)
        /\ stage' = "called"
        /\ UNCHANGED <<url, body, query, cookie, route, args, objects, acquired>>

Next == \/ Dispatch \/ JsonFails \/ Json \/ SessionFails \/ Call
        \/ \E p \in {"session", "db", "client", "websocket"} : Acquire(p)
        \/ \E p \in {"request", "response", "value", "_1"} : Given(p)

Spec == Init /\ [][Next]_vars

-----------------------------------------------------------------------------
(* No URL matches two paths: their order does not matter.                  *)
RoutesAreUnambiguous == \A m, n \in Matching : m = n

(* A handler that is called has all its parameters, in the order of its    *)
(* declaration although they were evaluated backwards; a key of the body   *)
(* hides that of the query; two parameters of a kind are one object, and   *)
(* one session, connection, client or websocket was acquired for them.     *)
ArgumentsInOrder ==
  stage = "called" =>
    /\ Len(args) = Len(Params)
    /\ \A i \in DOMAIN args :
          CASE Params[i] = "json" ->
                 /\ DOMAIN args[i].json = query \cup (IF Ignored THEN {} ELSE body.keys)
                 /\ \A k \in DOMAIN args[i].json : args[i].json[k] = "query" <=> Ignored \/ k \notin body.keys
            [] Params[i] = "_1" -> args[i].group # <<>> /\ Routes[route].prefix \o args[i].group = url
            [] OTHER -> args[i].kind = Params[i]
    /\ \A i, j \in DOMAIN acquired : acquired[i] = acquired[j] => i = j
    /\ \A i \in DOMAIN args : Params[i] \in DOMAIN objects => args[i].object = objects[Params[i]]

\* What a request does not have in a form that can be parsed.
Unparsable(p) == \/ p = "json" /\ (query = Broken \/ (body.keys = Broken /\ ~Ignored))
                 \/ p = "session" /\ cookie = "broken"

\* The parameters behind the one whose turn it is or was.
After == SubSeq(Params, Len(Params) - Len(args) + 1, Len(Params))

(* A request reaches its handler only if everything the handler takes can  *)
(* be parsed: its JSON or form, its query, its cookies.  One that does not *)
(* is refused at the last parameter that cannot, as the client's fault     *)
(* only for JSON, and what was acquired for it is what stands behind that  *)
(* parameter: no session for a request with a broken body or cookie that   *)
(* comes first.                                                            *)
RefusedWithoutHandler ==
  /\ stage = "called" => \A p \in Range(Params) : ~Unparsable(p)
  /\ stage \in {"400", "500"} =>
       LET failed == Params[Len(Params) - Len(args)] IN
         /\ Unparsable(failed) /\ \A p \in Range(After) : ~Unparsable(p)
         /\ stage = "400" <=> failed = "json" /\ body.media = "json" /\ body.keys = Broken
         /\ Range(acquired) = Range(After) \cap DOMAIN objects

(* Every request reaches the handler of its URL with what the handler was  *)
(* declared to take, or none.                                              *)
RequestsReachTheirHandlers == RoutesAreUnambiguous /\ ArgumentsInOrder /\ RefusedWithoutHandler
================================================================================
