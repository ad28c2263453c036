------------------------------ MODULE Sequential ------------------------------
(***************************************************************************)
(* The parts of the project that no other part runs in between: the pages  *)
(* of the users' list, and one instance each of the parser of parameters,  *)
(* the conversions from and to SQL, the passwords, the router and the      *)
(* sessions of websockets.  What is checked and what is proved of them is  *)
(* named here.                                                             *)
(***************************************************************************)
EXTENDS Pagination, Sequences

CONSTANTS Alphabet, Delimiter, MaxLength,                            \* UrlParams
          Names, Emails, Codes, MaxRows, MaxTemplate, MaxParameters, \* DbObjects
          Letters, SaltLength, Passwords, Accounts,                  \* Password
          Routes, Tokens, MaxTokens, Keys,                           \* Router
          Sockets, Messages, Cnt, MaxMessages                        \* WebSocketSession

\* The placeholder of a group that a path does not have indexes past its groups.
ASSUME RouteAssumption ==
  /\ Routes \in Seq([prefix : Seq(STRING), group : {"none", "int", "str", "path"},
                     params : Seq({"request", "response", "json", "db", "session", "client", "websocket", "value", "_1"})])
  /\ \A n \in DOMAIN Routes : Routes[n].group = "none" => \A i \in DOMAIN Routes[n].params : Routes[n].params[i] # "_1"

\* The characters of salts are those of internal::chars, which has no '$'.
ASSUME PasswordAssumption == "$" \notin Letters /\ SaltLength \in Nat

\* Characters are bytes, and pairs end with '&' or ';'.
ASSUME ParamsAssumption == Alphabet \subseteq 0..255 /\ Delimiter \in {38, 59}

\* The text of an int is no null.
ASSUME CodeAssumption == "null" \notin Codes

ASSUME TemplateAssumption == MaxTemplate \in Nat /\ MaxParameters \in Nat

ASSUME MessageAssumption == Messages \cap {"close", "garbage"} = {} /\ MaxMessages \in Nat

VARIABLES text, parser,
          table, call, answer, stored,
          encoded, given, login,
          url, body, query, cookie, stage, route, args, objects, acquired,
          asks, peer, said, inbox, heard, pc, data, end

Params == INSTANCE UrlParams
Db == INSTANCE DbObjects WITH MaxTokens <- MaxTemplate, MaxParams <- MaxParameters
Pw == INSTANCE Password WITH Users <- Accounts
Rt == INSTANCE Router
Ws == INSTANCE WebSocketSession

-----------------------------------------------------------------------------
(* See UrlParams.                                                          *)
ParamsKept == Params!ParamsKept

(* See DbObjects.                                                          *)
ExecSubstitutes == Db!ExecSubstitutes

(* See DbObjects.                                                          *)
FoundAsStored == Db!FoundAsStored

(* See Password.                                                           *)
LoginNeedsThePassword == Pw!LoginNeedsThePassword

(* See Router.                                                             *)
RequestsReachTheirHandlers == Rt!RequestsReachTheirHandlers

(* See WebSocketSession.                                                   *)
EchoesInOrder == Ws!TypeOK /\ Ws!EchoesInOrder /\ Ws!EverythingEchoedBeforeClose

(* See WebSocketSession.                                                   *)
DeadPeersAreLeft == Ws!DeadPeersAreLeft
=============================================================================
