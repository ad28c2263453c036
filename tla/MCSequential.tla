----------------------------- MODULE MCSequential -----------------------------
(* The sequential parts in one run: a behaviour is one of them, the others *)
(* stand still.                                                            *)
EXTENDS Sequential

CONSTANTS w1, m1, m2, cnt

VARIABLE part

\* Pages that exist, and their neighbours; then numbers whose offsets wrap, below
\* zero or back to the rows of an existing page, and some beyond the ints.
TypedNumbers == 0..13 \cup {14, 26, 27, 39, 52, 126, 127, 128, 135}

\* Two digits, for %26, a tab, which only stoi skips, and the characters with a meaning.
Characters == {9, 50, 54, 32, 37, 38, 43, 61}

\* The paths of WebApp, one whose handler takes everything twice, and another of a router
\* of websockets.
Paths == INSTANCE Router WITH Routes <- <<>>, Tokens <- {}, MaxTokens <- 0, Keys <- {}
PathsAndTwice == Paths!WebAppRoutes \o
  << Paths!Route(<<"/", "twice">>, "none", <<"db", "session", "json", "session", "db", "json">>),
     Paths!Route(<<"/", "twice", "twice">>, "none", <<"websocket", "session", "websocket", "json">>) >>

-----------------------------------------------------------------------------
paramVars == <<text, parser>>
dbVars == <<table, call, answer, stored>>
pwVars == <<encoded, given, login>>
rtVars == <<url, body, query, cookie, stage, route, args, objects, acquired>>
wsVars == <<asks, peer, said, inbox, heard, pc, data, end>>
allVars == <<part, vars, paramVars, dbVars, pwVars, rtVars, wsVars>>

\* A part that stands still has one state.
AnyPart ==
  /\ part \in {"pages", "params", "db", "password", "router", "websocket"}
  /\ IF part = "pages" THEN Init ELSE users = 0 /\ page = 0 /\ total = 0 /\ offset = 0
  /\ Params!Init /\ Pw!Init
  /\ IF part = "db" THEN Db!Init
     ELSE table = <<>> /\ call = Db!NoCall /\ answer = Db!Says("none") /\ stored = [n \in Names |-> Db!Missing]
  /\ IF part = "router" THEN Rt!Init
     ELSE /\ url = <<>> /\ body = "none" /\ query = {} /\ cookie = "none" /\ stage = "none" /\ route = 0
          /\ args = <<>> /\ objects = <<>> /\ acquired = <<>>
  /\ Ws!Init /\ (part # "websocket" => asks[w1] = "bad")

Pages == part = "pages" /\ UNCHANGED <<part, paramVars, dbVars, pwVars, rtVars, wsVars>>
InParams == part = "params" /\ UNCHANGED <<part, vars, dbVars, pwVars, rtVars, wsVars>>
InDb == part = "db" /\ UNCHANGED <<part, vars, paramVars, pwVars, rtVars, wsVars>>
InPw == part = "password" /\ UNCHANGED <<part, vars, paramVars, dbVars, rtVars, wsVars>>
InRt == part = "router" /\ UNCHANGED <<part, vars, paramVars, dbVars, pwVars, wsVars>>
InWs == part = "websocket" /\ UNCHANGED <<part, vars, paramVars, dbVars, pwVars, rtVars>>

Step == \/ Pages /\ \E p \in Typed : Type(p)
        \/ Pages /\ \E p \in Links(page, total) : Click(p)
        \/ Pages /\ AddUser
        \/ Pages /\ UserAdded
        \/ InParams /\ Params!Next
        \/ InDb /\ \E n \in Names : Db!Find(n)
        \/ InDb /\ \E item \in Db!Items : Db!Add(item)
        \/ InDb /\ \E item \in Db!Items : Db!MissingName(item)
        \/ InDb /\ \E n \in Names, item \in Db!Items : Db!Update(n, item)
        \/ InPw /\ \E u \in Accounts, p \in Passwords : Pw!Register(u, p)
        \/ InPw /\ \E u \in Accounts, p \in Passwords : Pw!Login(u, p)
        \/ InRt /\ Rt!Dispatch
        \/ InRt /\ Rt!JsonFails
        \/ InRt /\ Rt!Json
        \/ InRt /\ Rt!SessionFails
        \/ InRt /\ Rt!Call
        \/ InRt /\ \E p \in {"session", "db", "client", "websocket"} : Rt!Acquire(p)
        \/ InRt /\ \E p \in {"request", "response", "value", "_1"} : Rt!Given(p)
        \/ InWs /\ \E m \in Messages : Ws!Say(w1, m)
        \/ InWs /\ Ws!SayLast(w1)
        \/ InWs /\ Ws!Vanish(w1)
        \/ InWs /\ Ws!Reset(w1)
        \/ InWs /\ Ws!OnAccept(w1)
        \/ InWs /\ Ws!OnAcceptError(w1)
        \/ InWs /\ Ws!NotFound(w1)
        \/ InWs /\ Ws!Echo(w1)
        \/ InWs /\ Ws!Write(w1)
        \/ InWs /\ Ws!WriteFails(w1)
        \/ InWs /\ Ws!Read(w1)
        \/ InWs /\ Ws!ReadClosed(w1)
        \/ InWs /\ Ws!ReadFails(w1)

EachPart == AnyPart /\ [][Step]_allVars /\ WF_allVars(InWs /\ Ws!Session(w1))

=============================================================================
