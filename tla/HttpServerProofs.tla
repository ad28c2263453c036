--------------------------- MODULE HttpServerProofs ---------------------------
(***************************************************************************)
(* The safety of HttpServer for any number of connections and requests.    *)
(* Every conjunct of the inductive invariant says what the connection is   *)
(* like while its one operation is a certain one; a step of the session    *)
(* ends that operation and so moves from one conjunct to the next.         *)
(***************************************************************************)
EXTENDS HttpServer, TLAPS

(* Requests 1 to n asked for the connection to stay open.                  *)
Kept(c, n) == \A i \in 1..n : kinds[c][i] = "keep"

(* The response of the last request is owed, and the session will say so.  *)
Owes(c) == /\ taken[c] > 0 /\ Len(answers[c]) = taken[c] - 1
           /\ Kept(c, taken[c] - 1)
           /\ kinds[c][taken[c]] \in {"keep", "close"}

Paid(c) == Len(answers[c]) = taken[c] /\ Kept(c, taken[c])

NotBegun(c) == /\ ops[c] \subseteq {"do_read"}
               /\ taken[c] = 0 /\ answers[c] = <<>> /\ ~shut[c]

GoneOrLate(c) == peer[c] = "reset" \/ timer[c] = "expired"

(* What was read of the connection: those taken, and the one on_read holds.*)
Holds(c) == "on_read" \in ops[c] /\ outcome[c] \in Kinds
Consumed(c) == taken[c] + (IF Holds(c) THEN 1 ELSE 0)

Phases(c) ==
    /\ timer[c] = "off" => NotBegun(c)
    /\ "do_read" \in ops[c] => timer[c] = "off"
    /\ "read" \in ops[c] => Paid(c)
    /\ "on_read" \in ops[c] => /\ Paid(c)
                               /\ outcome[c] \in {"eof", "error"} \cup Kinds
                               /\ outcome[c] \in Kinds => /\ taken[c] < Len(kinds[c])
                                                          /\ kinds[c][taken[c] + 1] = outcome[c]
    /\ "handle" \in ops[c] => Owes(c)
    /\ "write" \in ops[c] => Owes(c) /\ res[c] = taken[c]
    /\ "on_write" \in ops[c] =>
          \/ outcome[c] = "error" /\ Owes(c) /\ GoneOrLate(c)
          \/ /\ outcome[c] = "written"
             /\ taken[c] > 0 /\ Len(answers[c]) = taken[c] /\ Kept(c, taken[c] - 1)
             /\ kinds[c][taken[c]] \in {"keep", "close"}
    /\ Kept(c, taken[c] - 1)
    /\ ops[c] = {} => Len(answers[c]) = taken[c] \/ GoneOrLate(c)

Numbered(c) == /\ \A i \in 1..Len(answers[c]) : answers[c][i] = i
               /\ Len(answers[c]) <= taken[c] /\ taken[c] <= Len(kinds[c])
               /\ shut[c] => ops[c] = {}

(* What was not read is the rest of what was sent, unless it is discarded. *)
Unread(c) ==
    /\ peer[c] = "reset" => inbox[c] = <<>>
    /\ (ops[c] # {} \/ timer[c] = "off") /\ peer[c] # "reset" =>
          /\ Consumed(c) + Len(inbox[c]) = Len(kinds[c])
          /\ \A i \in 1..Len(inbox[c]) : inbox[c][i] = kinds[c][Consumed(c) + i]

(* Where a connection is before its session.                               *)
Placed(c) == /\ peer[c] = "absent" => ops[c] = {} /\ timer[c] = "off" /\ c \notin backlog /\ accept # c
             /\ c \in backlog => ops[c] = {} /\ timer[c] = "off" /\ accept # c
             /\ accept = c => ops[c] = {} /\ timer[c] = "off"
             /\ peer[c] # "absent" /\ ops[c] = {} /\ timer[c] = "off" => c \in backlog \/ accept = c

CInv(c) == Phases(c) /\ Numbered(c) /\ Unread(c) /\ Placed(c)

TInv == TypeOK /\ OneOperation

IInv == TInv /\ \A c \in Connections : CInv(c)

-----------------------------------------------------------------------------
USE DEF listenVars, peerVars, sessionVars

LEMMA Initially == Init => IInv
<1> SUFFICES ASSUME Init PROVE IInv
  OBVIOUS
<1> USE ConnectionsAssumption, WorkloadsAssumption DEF Init
<1>1. TypeOK
  <2>1. bound \in [Connections -> Nat]
    OBVIOUS
  <2>2. \A c \in Connections : Len(kinds[c]) = 0 /\ Len(inbox[c]) = 0
    OBVIOUS
  <2>3. QED BY <2>1, <2>2 DEF TypeOK, Outcomes
<1>2. OneOperation
  BY DEF OneOperation
<1>3. ASSUME NEW c \in Connections PROVE CInv(c)
  BY DEF CInv, Phases, Numbered, Unread, Placed, NotBegun, Kept, Consumed, Holds
<1>4. QED BY <1>1, <1>2, <1>3 DEF IInv, TInv

(* A handler ends its operation before it begins the next.                 *)
LEMMA OpsKept ==
    ASSUME TInv, NEW c \in Connections, NEW from \in Ops, NEW to \in SUBSET Ops,
           \A o, p \in to : o = p, Becomes(c, from, to)
    PROVE  ops' \in [Connections -> SUBSET Ops] /\ OneOperation'
<1>1. ops \in [Connections -> SUBSET Ops] /\ ops[c] = {from}
  BY DEF TInv, TypeOK, OneOperation, Becomes
<1>2. ops' = [ops EXCEPT ![c] = to]
  BY <1>1 DEF Becomes
<1>3. QED BY <1>1, <1>2 DEF TInv, OneOperation

(* The types hold after every step, whatever order the steps come in.      *)
LEMMA TypesKept == IInv /\ [Next]_vars => TInv'
<1> SUFFICES ASSUME IInv, [Next]_vars PROVE TInv'
  OBVIOUS
<1> USE DEF IInv, TInv
<1>1. ASSUME NEW c \in Connections, Environment(c) PROVE TInv'
  <2>1. CASE Connect(c)
    BY <2>1 DEF Connect, TypeOK, OneOperation
  <2>2. CASE Finish(c)
    BY <2>2 DEF Finish, TypeOK, OneOperation
  <2>3. CASE Reset(c)
    <3>1. inbox' \in [Connections -> Seq(Kinds)]
      BY <2>3 DEF Reset, TypeOK
    <3>2. QED BY <2>3, <3>1 DEF Reset, TypeOK, OneOperation
  <2>4. ASSUME NEW kind \in Kinds, Send(c, kind) PROVE TInv'
    <3>1. bound[c] \in Nat /\ kinds[c] \in Seq(Kinds) /\ inbox[c] \in Seq(Kinds)
      BY WorkloadsAssumption DEF TypeOK
    <3>2. /\ kinds' \in [Connections -> Seq(Kinds)] /\ inbox' \in [Connections -> Seq(Kinds)]
          /\ kinds'[c] = Append(kinds[c], kind)
          /\ \A d \in Connections \ {c} : kinds'[d] = kinds[d]
      BY <2>4, <3>1 DEF Send, TypeOK
    <3>3. Len(kinds'[c]) <= bound[c]
      BY <2>4, <3>1, <3>2 DEF Send
    <3>4. \A d \in Connections : Len(kinds'[d]) <= bound[d]
      BY <3>2, <3>3 DEF TypeOK
    <3>5. QED BY <2>4, <3>2, <3>4 DEF Send, TypeOK, OneOperation
  <2>5. QED BY <1>1, <2>1, <2>2, <2>3, <2>4 DEF Environment
<1>2. ASSUME NEW c \in Connections, Expire(c) PROVE TInv'
  BY <1>2 DEF Expire, TypeOK, OneOperation
<1>3. ASSUME NEW c \in Connections, Listener(c) PROVE TInv'
  <2>1. CASE AcceptCompletes(c)
    BY <2>1 DEF AcceptCompletes, TypeOK, OneOperation
  <2>2. CASE OnAccept(c)
    <3>1. ops[c] = {}
      BY <2>2 DEF OnAccept, CInv, Placed
    <3>2. ops' \in [Connections -> SUBSET Ops] /\ OneOperation'
      BY <2>2, <3>1 DEF OnAccept, TypeOK, OneOperation, Ops
    <3>3. QED BY <2>2, <3>2 DEF OnAccept, TypeOK
  <2>3. CASE OnAcceptThrows(c)
    BY <2>3 DEF OnAcceptThrows, Die, TypeOK, OneOperation
  <2>4. QED BY <1>3, <2>1, <2>2, <2>3 DEF Listener
<1>4. ASSUME NEW c \in Connections, Session(c) PROVE TInv'
  <2>1. CASE DoRead(c)
    <3>1. ops' \in [Connections -> SUBSET Ops] /\ OneOperation'
      BY <2>1, OpsKept DEF Ops, DoRead
    <3>2. QED BY <2>1, <3>1 DEF DoRead, TypeOK
  <2>2. CASE ReadRequest(c)
    <3>1. ops' \in [Connections -> SUBSET Ops] /\ OneOperation'
      BY <2>2, OpsKept DEF Ops, ReadRequest
    <3>2. inbox[c] \in Seq(Kinds) /\ Head(inbox[c]) \in Kinds /\ Tail(inbox[c]) \in Seq(Kinds)
      BY <2>2 DEF ReadRequest, TypeOK
    <3>3. inbox' \in [Connections -> Seq(Kinds)] /\ outcome' \in [Connections -> Outcomes]
      BY <2>2, <3>2 DEF ReadRequest, TypeOK, Outcomes
    <3>4. QED BY <2>2, <3>1, <3>3 DEF ReadRequest, TypeOK
  <2>3. CASE ReadEof(c)
    <3>1. ops' \in [Connections -> SUBSET Ops] /\ OneOperation'
      BY <2>3, OpsKept DEF Ops, ReadEof
    <3>2. QED BY <2>3, <3>1 DEF ReadEof, TypeOK, Outcomes
  <2>4. CASE ReadFails(c)
    <3>1. ops' \in [Connections -> SUBSET Ops] /\ OneOperation'
      BY <2>4, OpsKept DEF Ops, ReadFails
    <3>2. QED BY <2>4, <3>1 DEF ReadFails, TypeOK, Outcomes
  <2>5. CASE OnReadEof(c)
    <3>1. ops' \in [Connections -> SUBSET Ops] /\ OneOperation'
      BY <2>5, OpsKept DEF Ops, OnReadEof
    <3>2. QED BY <2>5, <3>1 DEF OnReadEof, TypeOK
  <2>6. CASE OnReadError(c)
    <3>1. ops' \in [Connections -> SUBSET Ops] /\ OneOperation'
      BY <2>6, OpsKept DEF Ops, OnReadError
    <3>2. QED BY <2>6, <3>1 DEF OnReadError, TypeOK
  <2>7. CASE OnReadRequest(c)
    <3>1. ops' \in [Connections -> SUBSET Ops] /\ OneOperation'
      BY <2>7, OpsKept DEF Ops, OnReadRequest
    <3>2. taken[c] + 1 \in Nat /\ taken' \in [Connections -> Nat]
      BY <2>7 DEF OnReadRequest, TypeOK
    <3>3. QED BY <2>7, <3>1, <3>2 DEF OnReadRequest, TypeOK
  <2>8. CASE OnReadUpgrade(c)
    <3>1. ops' \in [Connections -> SUBSET Ops] /\ OneOperation'
      BY <2>8, OpsKept DEF Ops, OnReadUpgrade
    <3>2. taken[c] + 1 \in Nat /\ taken' \in [Connections -> Nat]
      BY <2>8 DEF OnReadUpgrade, TypeOK
    <3>3. QED BY <2>8, <3>1, <3>2 DEF OnReadUpgrade, TypeOK
  <2>9. CASE Handle(c)
    <3>1. ops' \in [Connections -> SUBSET Ops] /\ OneOperation'
      BY <2>9, OpsKept DEF Ops, Handle
    <3>2. QED BY <2>9, <3>1 DEF Handle, TypeOK
  <2>10. CASE Written(c)
    <3>1. ops' \in [Connections -> SUBSET Ops] /\ OneOperation'
      BY <2>10, OpsKept DEF Ops, Written
    <3>2. Append(answers[c], res[c]) \in Seq(Nat)
      BY DEF TypeOK
    <3>3. answers' \in [Connections -> Seq(Nat)]
      BY <2>10, <3>2 DEF Written, TypeOK
    <3>4. QED BY <2>10, <3>1, <3>3 DEF Written, TypeOK, Outcomes
  <2>11. CASE WriteFails(c)
    <3>1. ops' \in [Connections -> SUBSET Ops] /\ OneOperation'
      BY <2>11, OpsKept DEF Ops, WriteFails
    <3>2. QED BY <2>11, <3>1 DEF WriteFails, TypeOK, Outcomes
  <2>12. CASE OnWriteError(c)
    <3>1. ops' \in [Connections -> SUBSET Ops] /\ OneOperation'
      BY <2>12, OpsKept DEF Ops, OnWriteError
    <3>2. QED BY <2>12, <3>1 DEF OnWriteError, TypeOK
  <2>13. CASE OnWriteClose(c)
    <3>1. ops' \in [Connections -> SUBSET Ops] /\ OneOperation'
      BY <2>13, OpsKept DEF Ops, OnWriteClose
    <3>2. QED BY <2>13, <3>1 DEF OnWriteClose, TypeOK
  <2>14. CASE OnWriteKeep(c)
    <3>1. ops' \in [Connections -> SUBSET Ops] /\ OneOperation'
      BY <2>14, OpsKept DEF Ops, OnWriteKeep
    <3>2. QED BY <2>14, <3>1 DEF OnWriteKeep, TypeOK
  <2>15. CASE OnReadUpgradeThrows(c)
    BY <2>15 DEF OnReadUpgradeThrows, Die, TypeOK, OneOperation
  <2>16. QED
    BY <1>4, <2>1, <2>2, <2>3, <2>4, <2>5, <2>6, <2>7, <2>8, <2>9, <2>10, <2>11, <2>12, <2>13, <2>14, <2>15 DEF Session
<1>5. ASSUME AcceptFails \/ OnAcceptFailed PROVE TInv'
  BY <1>5 DEF AcceptFails, OnAcceptFailed, TypeOK, OneOperation
<1>6. CASE UNCHANGED vars
  BY <1>6 DEF vars, TypeOK, OneOperation
<1>7. QED BY <1>1, <1>2, <1>3, <1>4, <1>5, <1>6 DEF Next

(* A connection that a step does not concern stays as it is.               *)
LEMMA Frame ==
    ASSUME NEW d \in Connections, CInv(d),
           peer'[d] = peer[d], kinds'[d] = kinds[d], inbox'[d] = inbox[d], answers'[d] = answers[d],
           ops'[d] = ops[d], outcome'[d] = outcome[d], taken'[d] = taken[d], res'[d] = res[d],
           timer'[d] = timer[d], shut'[d] = shut[d],
           d \in backlog' <=> d \in backlog, accept' = d <=> accept = d
    PROVE  CInv(d)'
BY DEF CInv, Phases, Numbered, Unread, Placed, NotBegun, Kept, Consumed, Holds, Owes, Paid, GoneOrLate

LEMMA NumberedStays ==
    ASSUME NEW c \in Connections, Numbered(c), answers'[c] = answers[c], answers[c] \in Seq(Nat),
           kinds'[c] = kinds[c], taken[c] \in Nat, taken[c] <= taken'[c], taken'[c] \in Nat,
           taken'[c] <= Len(kinds[c]), shut'[c] => ops'[c] = {}
    PROVE  Numbered(c)'
BY DEF Numbered

LEMMA UnreadStays ==
    ASSUME NEW c \in Connections, Unread(c), ops[c] # {} \/ timer[c] = "off",
           inbox'[c] = inbox[c], kinds'[c] = kinds[c], peer'[c] = peer[c], Consumed(c)' = Consumed(c)
    PROVE  Unread(c)'
BY DEF Unread

LEMMA PlacedStays ==
    ASSUME NEW c \in Connections, Placed(c), ops[c] # {}, timer'[c] # "off",
           peer'[c] = peer[c], backlog' = backlog, accept' = accept
    PROVE  Placed(c)'
BY DEF Placed

LEMMA DoReadKeeps ==
    ASSUME IInv, TInv', NEW c \in Connections, DoRead(c) PROVE \A d \in Connections : CInv(d)'
<1> USE DEF IInv, TInv, CInv
<1>1. ops[c] = {"do_read"} /\ ops'[c] = {"read"} /\ timer'[c] # "off"
  BY DEF DoRead, Becomes, TypeOK, OneOperation, Phases, NotBegun
<1>2. /\ timer'[c] = "armed"
      /\ peer'[c] = peer[c] /\ kinds'[c] = kinds[c] /\ inbox'[c] = inbox[c] /\ answers'[c] = answers[c] /\ outcome'[c] = outcome[c]
      /\ taken'[c] = taken[c] /\ res'[c] = res[c] /\ shut'[c] = shut[c]
      /\ backlog' = backlog /\ accept' = accept
  BY DEF DoRead, TypeOK
<1>3. Paid(c)'
  BY <1>1, <1>2 DEF Phases, NotBegun, Paid, Kept
<1>4. Phases(c)'
  BY <1>1, <1>2, <1>3 DEF Phases, NotBegun, Paid, Owes, Kept, TypeOK
<1>5. Numbered(c)'
  <2>1. taken[c] \in Nat /\ answers[c] \in Seq(Nat)
    BY DEF TypeOK
  <2>2. taken[c] <= Len(kinds[c]) /\ (shut'[c] => ops'[c] = {})
    BY <1>1, <1>2 DEF Numbered
  <2>3. QED BY <1>2, <2>1, <2>2, NumberedStays
<1>6. Unread(c)'
  <2>1. Consumed(c)' = Consumed(c)
    BY <1>1, <1>2 DEF Consumed, Holds, Kinds, TypeOK
  <2>2. QED BY <1>1, <1>2, <2>1, UnreadStays
<1>7. Placed(c)'
  BY <1>1, <1>2, PlacedStays
<1>8. ASSUME NEW d \in Connections, d # c PROVE CInv(d)'
  BY <1>8, Frame DEF DoRead, Becomes, TypeOK
<1>9. QED BY <1>4, <1>5, <1>6, <1>7, <1>8

LEMMA ReadRequestKeeps ==
    ASSUME IInv, TInv', NEW c \in Connections, ReadRequest(c) PROVE \A d \in Connections : CInv(d)'
<1> USE DEF IInv, TInv, CInv
<1>1. ops[c] = {"read"} /\ ops'[c] = {"on_read"} /\ timer'[c] # "off"
  BY DEF ReadRequest, Becomes, TypeOK, OneOperation, Phases, NotBegun
<1>2. /\ outcome'[c] = Head(inbox[c])
      /\ inbox'[c] = Tail(inbox[c])
      /\ inbox[c] # <<>>
      /\ peer'[c] = peer[c] /\ kinds'[c] = kinds[c] /\ answers'[c] = answers[c] /\ taken'[c] = taken[c] /\ res'[c] = res[c]
      /\ timer'[c] = timer[c] /\ shut'[c] = shut[c]
      /\ backlog' = backlog /\ accept' = accept
  BY DEF ReadRequest, TypeOK
<1>3. /\ peer[c] # "reset" /\ Consumed(c) = taken[c] /\ Consumed(c)' = taken[c] + 1
      /\ Head(inbox[c]) = inbox[c][1] /\ Head(inbox[c]) \in Kinds
      /\ Len(inbox'[c]) = Len(inbox[c]) - 1 /\ Len(inbox[c]) \in Nat \ {0}
      /\ \A i \in 1..Len(inbox'[c]) : inbox'[c][i] = inbox[c][i + 1]
  <2>1. inbox[c] \in Seq(Kinds)
    BY DEF TypeOK
  <2>2. peer[c] # "reset" /\ Consumed(c) = taken[c]
    BY <1>1, <1>2 DEF Unread, Consumed, Holds, TypeOK
  <2>3. Head(inbox[c]) = inbox[c][1] /\ Head(inbox[c]) \in Kinds
    BY <1>2, <2>1
  <2>4. Consumed(c)' = taken[c] + 1
    BY <1>1, <1>2, <2>3 DEF Consumed, Holds
  <2>5. QED BY <1>2, <2>1, <2>2, <2>3, <2>4
<1>4. Phases(c)'
  <2>1. Paid(c)'
    BY <1>1, <1>2 DEF Phases, Paid, Kept
  <2>2. taken'[c] < Len(kinds'[c]) /\ kinds'[c][taken'[c] + 1] = outcome'[c]
    <3>1. Len(kinds[c]) \in Nat /\ taken[c] \in Nat /\ 1 \in 1..Len(inbox[c])
      <4>1. kinds[c] \in Seq(Kinds) /\ taken[c] \in Nat
        BY DEF TypeOK
      <4>2. QED BY <1>3, <4>1
    <3>2. taken[c] + Len(inbox[c]) = Len(kinds[c]) /\ inbox[c][1] = kinds[c][taken[c] + 1]
      BY <1>1, <1>3, <3>1 DEF Unread
    <3>3. QED BY <1>2, <1>3, <3>1, <3>2
  <2>3. QED BY <1>1, <1>2, <1>3, <2>1, <2>2 DEF Phases, NotBegun, Paid, Kept, TypeOK
<1>5. Numbered(c)'
  <2>1. taken[c] \in Nat /\ answers[c] \in Seq(Nat)
    BY DEF TypeOK
  <2>2. taken[c] <= Len(kinds[c]) /\ (shut'[c] => ops'[c] = {})
    BY <1>1, <1>2 DEF Numbered
  <2>3. QED BY <1>2, <2>1, <2>2, NumberedStays
<1>6. Unread(c)'
  <2>1. Consumed(c)' + Len(inbox'[c]) = Len(kinds'[c])
    <3>1. Len(kinds[c]) \in Nat /\ taken[c] \in Nat
      BY DEF TypeOK
    <3>2. taken[c] + Len(inbox[c]) = Len(kinds[c])
      BY <1>1, <1>3 DEF Unread
    <3>3. QED BY <1>2, <1>3, <3>1, <3>2
  <2>2. ASSUME NEW i \in 1..Len(inbox'[c]) PROVE inbox'[c][i] = kinds'[c][Consumed(c)' + i]
    <3>1. i + 1 \in 1..Len(inbox[c]) /\ taken[c] + (i + 1) = taken[c] + 1 + i
      BY <1>3 DEF TypeOK
    <3>2. inbox[c][i + 1] = kinds[c][taken[c] + (i + 1)]
      BY <1>1, <1>3, <3>1 DEF Unread
    <3>3. QED BY <1>2, <1>3, <3>1, <3>2
  <2>3. QED BY <1>1, <1>2, <1>3, <2>1, <2>2 DEF Unread
<1>7. Placed(c)'
  BY <1>1, <1>2, PlacedStays
<1>8. ASSUME NEW d \in Connections, d # c PROVE CInv(d)'
  BY <1>8, Frame DEF ReadRequest, Becomes, TypeOK
<1>9. QED BY <1>4, <1>5, <1>6, <1>7, <1>8

LEMMA ReadEofKeeps ==
    ASSUME IInv, TInv', NEW c \in Connections, ReadEof(c) PROVE \A d \in Connections : CInv(d)'
<1> USE DEF IInv, TInv, CInv
<1>1. ops[c] = {"read"} /\ ops'[c] = {"on_read"} /\ timer'[c] # "off"
  BY DEF ReadEof, Becomes, TypeOK, OneOperation, Phases, NotBegun
<1>2. /\ outcome'[c] = "eof"
      /\ inbox[c] = <<>>
      /\ peer'[c] = peer[c] /\ kinds'[c] = kinds[c] /\ inbox'[c] = inbox[c] /\ answers'[c] = answers[c] /\ taken'[c] = taken[c]
      /\ res'[c] = res[c] /\ timer'[c] = timer[c] /\ shut'[c] = shut[c]
      /\ backlog' = backlog /\ accept' = accept
  BY DEF ReadEof, TypeOK
<1>3. Paid(c)'
  BY <1>1, <1>2 DEF Phases, Paid, Kept
<1>4. Phases(c)'
  BY <1>1, <1>2, <1>3 DEF Phases, NotBegun, Paid, Owes, Kept, TypeOK, Kinds
<1>5. Numbered(c)'
  <2>1. taken[c] \in Nat /\ answers[c] \in Seq(Nat)
    BY DEF TypeOK
  <2>2. taken[c] <= Len(kinds[c]) /\ (shut'[c] => ops'[c] = {})
    BY <1>1, <1>2 DEF Numbered
  <2>3. QED BY <1>2, <2>1, <2>2, NumberedStays
<1>6. Unread(c)'
  <2>1. Consumed(c)' = Consumed(c)
    BY <1>1, <1>2 DEF Consumed, Holds, Kinds, TypeOK
  <2>2. QED BY <1>1, <1>2, <2>1, UnreadStays
<1>7. Placed(c)'
  BY <1>1, <1>2, PlacedStays
<1>8. ASSUME NEW d \in Connections, d # c PROVE CInv(d)'
  BY <1>8, Frame DEF ReadEof, Becomes, TypeOK
<1>9. QED BY <1>4, <1>5, <1>6, <1>7, <1>8

LEMMA ReadFailsKeeps ==
    ASSUME IInv, TInv', NEW c \in Connections, ReadFails(c) PROVE \A d \in Connections : CInv(d)'
<1> USE DEF IInv, TInv, CInv
<1>1. ops[c] = {"read"} /\ ops'[c] = {"on_read"} /\ timer'[c] # "off"
  BY DEF ReadFails, Becomes, TypeOK, OneOperation, Phases, NotBegun
<1>2. /\ outcome'[c] = "error"
      /\ GoneOrLate(c)
      /\ peer'[c] = peer[c] /\ kinds'[c] = kinds[c] /\ inbox'[c] = inbox[c] /\ answers'[c] = answers[c] /\ taken'[c] = taken[c]
      /\ res'[c] = res[c] /\ timer'[c] = timer[c] /\ shut'[c] = shut[c]
      /\ backlog' = backlog /\ accept' = accept
  BY DEF ReadFails, TypeOK, GoneOrLate
<1>3. Paid(c)'
  BY <1>1, <1>2 DEF Phases, Paid, Kept
<1>4. Phases(c)'
  BY <1>1, <1>2, <1>3 DEF Phases, NotBegun, Paid, Owes, Kept, TypeOK, Kinds
<1>5. Numbered(c)'
  <2>1. taken[c] \in Nat /\ answers[c] \in Seq(Nat)
    BY DEF TypeOK
  <2>2. taken[c] <= Len(kinds[c]) /\ (shut'[c] => ops'[c] = {})
    BY <1>1, <1>2 DEF Numbered
  <2>3. QED BY <1>2, <2>1, <2>2, NumberedStays
<1>6. Unread(c)'
  <2>1. Consumed(c)' = Consumed(c)
    BY <1>1, <1>2 DEF Consumed, Holds, Kinds, TypeOK
  <2>2. QED BY <1>1, <1>2, <2>1, UnreadStays
<1>7. Placed(c)'
  BY <1>1, <1>2, PlacedStays
<1>8. ASSUME NEW d \in Connections, d # c PROVE CInv(d)'
  BY <1>8, Frame DEF ReadFails, Becomes, TypeOK
<1>9. QED BY <1>4, <1>5, <1>6, <1>7, <1>8

LEMMA OnReadEofKeeps ==
    ASSUME IInv, TInv', NEW c \in Connections, OnReadEof(c) PROVE \A d \in Connections : CInv(d)'
<1> USE DEF IInv, TInv, CInv
<1>1. ops[c] = {"on_read"} /\ ops'[c] = {} /\ timer'[c] # "off"
  BY DEF OnReadEof, Becomes, TypeOK, OneOperation, Phases, NotBegun
<1>2. /\ shut'[c] = TRUE
      /\ outcome[c] = "eof"
      /\ peer'[c] = peer[c] /\ kinds'[c] = kinds[c] /\ inbox'[c] = inbox[c] /\ answers'[c] = answers[c] /\ outcome'[c] = outcome[c]
      /\ taken'[c] = taken[c] /\ res'[c] = res[c] /\ timer'[c] = timer[c]
      /\ backlog' = backlog /\ accept' = accept
  BY DEF OnReadEof, TypeOK
<1>3. Paid(c)'
  BY <1>1, <1>2 DEF Phases, Paid, Kept
<1>4. Phases(c)'
  BY <1>1, <1>2, <1>3 DEF Phases, NotBegun, Paid, Owes, Kept, TypeOK
<1>5. Numbered(c)'
  <2>1. taken[c] \in Nat /\ answers[c] \in Seq(Nat)
    BY DEF TypeOK
  <2>2. taken[c] <= Len(kinds[c]) /\ (shut'[c] => ops'[c] = {})
    BY <1>1, <1>2 DEF Numbered
  <2>3. QED BY <1>2, <2>1, <2>2, NumberedStays
<1>6. Unread(c)'
  BY <1>1, <1>2 DEF Unread
<1>7. Placed(c)'
  BY <1>1, <1>2, PlacedStays
<1>8. ASSUME NEW d \in Connections, d # c PROVE CInv(d)'
  BY <1>8, Frame DEF OnReadEof, Becomes, TypeOK
<1>9. QED BY <1>4, <1>5, <1>6, <1>7, <1>8

LEMMA OnReadErrorKeeps ==
    ASSUME IInv, TInv', NEW c \in Connections, OnReadError(c) PROVE \A d \in Connections : CInv(d)'
<1> USE DEF IInv, TInv, CInv
<1>1. ops[c] = {"on_read"} /\ ops'[c] = {} /\ timer'[c] # "off"
  BY DEF OnReadError, Becomes, TypeOK, OneOperation, Phases, NotBegun
<1>2. /\ outcome[c] \in {"error", "bad"}
      /\ peer'[c] = peer[c] /\ kinds'[c] = kinds[c] /\ inbox'[c] = inbox[c] /\ answers'[c] = answers[c] /\ outcome'[c] = outcome[c]
      /\ taken'[c] = taken[c] /\ res'[c] = res[c] /\ timer'[c] = timer[c] /\ shut'[c] = shut[c]
      /\ backlog' = backlog /\ accept' = accept
  BY DEF OnReadError, TypeOK
<1>3. Paid(c)'
  BY <1>1, <1>2 DEF Phases, Paid, Kept
<1>4. Phases(c)'
  BY <1>1, <1>2, <1>3 DEF Phases, NotBegun, Paid, Owes, Kept, TypeOK
<1>5. Numbered(c)'
  <2>1. taken[c] \in Nat /\ answers[c] \in Seq(Nat)
    BY DEF TypeOK
  <2>2. taken[c] <= Len(kinds[c]) /\ (shut'[c] => ops'[c] = {})
    BY <1>1, <1>2 DEF Numbered
  <2>3. QED BY <1>2, <2>1, <2>2, NumberedStays
<1>6. Unread(c)'
  BY <1>1, <1>2 DEF Unread
<1>7. Placed(c)'
  BY <1>1, <1>2, PlacedStays
<1>8. ASSUME NEW d \in Connections, d # c PROVE CInv(d)'
  BY <1>8, Frame DEF OnReadError, Becomes, TypeOK
<1>9. QED BY <1>4, <1>5, <1>6, <1>7, <1>8

LEMMA OnReadRequestKeeps ==
    ASSUME IInv, TInv', NEW c \in Connections, OnReadRequest(c) PROVE \A d \in Connections : CInv(d)'
<1> USE DEF IInv, TInv, CInv
<1>1. ops[c] = {"on_read"} /\ ops'[c] = {"handle"} /\ timer'[c] # "off"
  BY DEF OnReadRequest, Becomes, TypeOK, OneOperation, Phases, NotBegun
<1>2. /\ taken'[c] = taken[c] + 1
      /\ outcome[c] \in {"keep", "close"}
      /\ peer'[c] = peer[c] /\ kinds'[c] = kinds[c] /\ inbox'[c] = inbox[c] /\ answers'[c] = answers[c] /\ outcome'[c] = outcome[c]
      /\ res'[c] = res[c] /\ timer'[c] = timer[c] /\ shut'[c] = shut[c]
      /\ backlog' = backlog /\ accept' = accept
  BY DEF OnReadRequest, TypeOK
<1>3. Owes(c)'
  <2>1. taken'[c] - 1 = taken[c] /\ taken'[c] > 0
    <3>1. taken[c] \in Nat
      BY DEF TypeOK
    <3>2. QED BY <1>2, <3>1
  <2>2. Paid(c) /\ kinds[c][taken[c] + 1] = outcome[c]
    BY <1>1, <1>2 DEF Phases, Kinds
  <2>3. QED BY <1>2, <2>1, <2>2 DEF Paid, Owes, Kept
<1>4. Phases(c)'
  BY <1>1, <1>2, <1>3 DEF Phases, NotBegun, Paid, Owes, Kept, TypeOK
<1>5. Numbered(c)'
  <2>1. taken'[c] <= Len(kinds[c])
    <3>1. taken[c] < Len(kinds[c]) /\ taken[c] \in Nat /\ kinds[c] \in Seq(Kinds)
      BY <1>1, <1>2 DEF Phases, Kinds, TypeOK
    <3>2. QED BY <1>2, <3>1
  <2>2. taken[c] \in Nat /\ taken'[c] \in Nat /\ taken[c] <= taken'[c] /\ answers[c] \in Seq(Nat)
    BY <1>2 DEF TypeOK
  <2>3. ~shut'[c]
    BY <1>1, <1>2 DEF Numbered
  <2>4. QED BY <1>2, <2>1, <2>2, <2>3, NumberedStays
<1>6. Unread(c)'
  <2>1. Consumed(c)' = Consumed(c)
    BY <1>1, <1>2 DEF Consumed, Holds, Kinds, TypeOK
  <2>2. QED BY <1>1, <1>2, <2>1, UnreadStays
<1>7. Placed(c)'
  BY <1>1, <1>2, PlacedStays
<1>8. ASSUME NEW d \in Connections, d # c PROVE CInv(d)'
  BY <1>8, Frame DEF OnReadRequest, Becomes, TypeOK
<1>9. QED BY <1>4, <1>5, <1>6, <1>7, <1>8

LEMMA OnReadUpgradeKeeps ==
    ASSUME IInv, TInv', NEW c \in Connections, OnReadUpgrade(c) PROVE \A d \in Connections : CInv(d)'
<1> USE DEF IInv, TInv, CInv
<1>1. ops[c] = {"on_read"} /\ ops'[c] = {"websocket"} /\ timer'[c] # "off"
  BY DEF OnReadUpgrade, Becomes, TypeOK, OneOperation, Phases, NotBegun
<1>2. /\ taken'[c] = taken[c] + 1
      /\ outcome[c] = "upgrade"
      /\ peer'[c] = peer[c] /\ kinds'[c] = kinds[c] /\ inbox'[c] = inbox[c] /\ answers'[c] = answers[c] /\ outcome'[c] = outcome[c]
      /\ res'[c] = res[c] /\ timer'[c] = timer[c] /\ shut'[c] = shut[c]
      /\ backlog' = backlog /\ accept' = accept
  BY DEF OnReadUpgrade, TypeOK
<1>3. Kept(c, taken[c] - 1)'
  <2>1. taken'[c] - 1 = taken[c] /\ taken'[c] > 0
    <3>1. taken[c] \in Nat
      BY DEF TypeOK
    <3>2. QED BY <1>2, <3>1
  <2>2. Paid(c) /\ kinds[c][taken[c] + 1] = outcome[c]
    BY <1>1, <1>2 DEF Phases, Kinds
  <2>3. QED BY <1>2, <2>1, <2>2 DEF Paid, Owes, Kept
<1>4. Phases(c)'
  BY <1>1, <1>2, <1>3 DEF Phases, NotBegun, Paid, Owes, Kept, TypeOK
<1>5. Numbered(c)'
  <2>1. taken'[c] <= Len(kinds[c])
    <3>1. taken[c] < Len(kinds[c]) /\ taken[c] \in Nat /\ kinds[c] \in Seq(Kinds)
      BY <1>1, <1>2 DEF Phases, Kinds, TypeOK
    <3>2. QED BY <1>2, <3>1
  <2>2. taken[c] \in Nat /\ taken'[c] \in Nat /\ taken[c] <= taken'[c] /\ answers[c] \in Seq(Nat)
    BY <1>2 DEF TypeOK
  <2>3. ~shut'[c]
    BY <1>1, <1>2 DEF Numbered
  <2>4. QED BY <1>2, <2>1, <2>2, <2>3, NumberedStays
<1>6. Unread(c)'
  <2>1. Consumed(c)' = Consumed(c)
    BY <1>1, <1>2 DEF Consumed, Holds, Kinds, TypeOK
  <2>2. QED BY <1>1, <1>2, <2>1, UnreadStays
<1>7. Placed(c)'
  BY <1>1, <1>2, PlacedStays
<1>8. ASSUME NEW d \in Connections, d # c PROVE CInv(d)'
  BY <1>8, Frame DEF OnReadUpgrade, Becomes, TypeOK
<1>9. QED BY <1>4, <1>5, <1>6, <1>7, <1>8

LEMMA HandleKeeps ==
    ASSUME IInv, TInv', NEW c \in Connections, Handle(c) PROVE \A d \in Connections : CInv(d)'
<1> USE DEF IInv, TInv, CInv
<1>1. ops[c] = {"handle"} /\ ops'[c] = {"write"} /\ timer'[c] # "off"
  BY DEF Handle, Becomes, TypeOK, OneOperation, Phases, NotBegun
<1>2. /\ res'[c] = taken[c]
      /\ peer'[c] = peer[c] /\ kinds'[c] = kinds[c] /\ inbox'[c] = inbox[c] /\ answers'[c] = answers[c] /\ outcome'[c] = outcome[c]
      /\ taken'[c] = taken[c] /\ timer'[c] = timer[c] /\ shut'[c] = shut[c]
      /\ backlog' = backlog /\ accept' = accept
  BY DEF Handle, TypeOK
<1>3. Owes(c)'
  BY <1>1, <1>2 DEF Phases, Owes, Kept
<1>4. Phases(c)'
  BY <1>1, <1>2, <1>3 DEF Phases, NotBegun, Paid, Owes, Kept, TypeOK
<1>5. Numbered(c)'
  <2>1. taken[c] \in Nat /\ answers[c] \in Seq(Nat)
    BY DEF TypeOK
  <2>2. taken[c] <= Len(kinds[c]) /\ (shut'[c] => ops'[c] = {})
    BY <1>1, <1>2 DEF Numbered
  <2>3. QED BY <1>2, <2>1, <2>2, NumberedStays
<1>6. Unread(c)'
  <2>1. Consumed(c)' = Consumed(c)
    BY <1>1, <1>2 DEF Consumed, Holds, Kinds, TypeOK
  <2>2. QED BY <1>1, <1>2, <2>1, UnreadStays
<1>7. Placed(c)'
  BY <1>1, <1>2, PlacedStays
<1>8. ASSUME NEW d \in Connections, d # c PROVE CInv(d)'
  BY <1>8, Frame DEF Handle, Becomes, TypeOK
<1>9. QED BY <1>4, <1>5, <1>6, <1>7, <1>8

LEMMA WrittenKeeps ==
    ASSUME IInv, TInv', NEW c \in Connections, Written(c) PROVE \A d \in Connections : CInv(d)'
<1> USE DEF IInv, TInv, CInv
<1>1. ops[c] = {"write"} /\ ops'[c] = {"on_write"} /\ timer'[c] # "off"
  BY DEF Written, Becomes, TypeOK, OneOperation, Phases, NotBegun
<1>2. /\ answers'[c] = Append(answers[c], res[c])
      /\ outcome'[c] = "written"
      /\ peer[c] # "reset"
      /\ peer'[c] = peer[c] /\ kinds'[c] = kinds[c] /\ inbox'[c] = inbox[c] /\ taken'[c] = taken[c] /\ res'[c] = res[c]
      /\ timer'[c] = timer[c] /\ shut'[c] = shut[c]
      /\ backlog' = backlog /\ accept' = accept
  BY DEF Written, TypeOK
<1>3. /\ Owes(c) /\ res[c] = taken[c] /\ Len(answers'[c]) = taken[c]
      /\ \A i \in 1..Len(answers'[c]) : answers'[c][i] = i
  <2>1. Owes(c) /\ res[c] = taken[c]
    BY <1>1 DEF Phases
  <2>2. answers[c] \in Seq(Nat) /\ taken[c] \in Nat /\ Len(answers[c]) = taken[c] - 1
    BY <2>1 DEF TypeOK, Owes
  <2>3. QED BY <1>2, <2>1, <2>2 DEF Numbered
<1>4. Phases(c)'
  BY <1>1, <1>2, <1>3 DEF Phases, NotBegun, Owes, Kept, TypeOK
<1>5. Numbered(c)'
  <2>1. taken[c] \in Nat /\ ~shut[c]
    BY <1>1 DEF TypeOK, Numbered
  <2>2. QED BY <1>2, <1>3, <2>1 DEF Numbered
<1>6. Unread(c)'
  <2>1. Consumed(c)' = Consumed(c)
    BY <1>1, <1>2 DEF Consumed, Holds, Kinds, TypeOK
  <2>2. QED BY <1>1, <1>2, <2>1, UnreadStays
<1>7. Placed(c)'
  BY <1>1, <1>2, PlacedStays
<1>8. ASSUME NEW d \in Connections, d # c PROVE CInv(d)'
  BY <1>8, Frame DEF Written, Becomes, TypeOK
<1>9. QED BY <1>4, <1>5, <1>6, <1>7, <1>8

LEMMA WriteFailsKeeps ==
    ASSUME IInv, TInv', NEW c \in Connections, WriteFails(c) PROVE \A d \in Connections : CInv(d)'
<1> USE DEF IInv, TInv, CInv
<1>1. ops[c] = {"write"} /\ ops'[c] = {"on_write"} /\ timer'[c] # "off"
  BY DEF WriteFails, Becomes, TypeOK, OneOperation, Phases, NotBegun
<1>2. /\ outcome'[c] = "error"
      /\ GoneOrLate(c)
      /\ peer'[c] = peer[c] /\ kinds'[c] = kinds[c] /\ inbox'[c] = inbox[c] /\ answers'[c] = answers[c] /\ taken'[c] = taken[c]
      /\ res'[c] = res[c] /\ timer'[c] = timer[c] /\ shut'[c] = shut[c]
      /\ backlog' = backlog /\ accept' = accept
  BY DEF WriteFails, TypeOK, GoneOrLate
<1>3. Owes(c)' /\ GoneOrLate(c)'
  BY <1>1, <1>2 DEF Phases, Owes, Kept, GoneOrLate
<1>4. Phases(c)'
  BY <1>1, <1>2, <1>3 DEF Phases, NotBegun, Paid, Owes, Kept, TypeOK, Kinds
<1>5. Numbered(c)'
  <2>1. taken[c] \in Nat /\ answers[c] \in Seq(Nat)
    BY DEF TypeOK
  <2>2. taken[c] <= Len(kinds[c]) /\ (shut'[c] => ops'[c] = {})
    BY <1>1, <1>2 DEF Numbered
  <2>3. QED BY <1>2, <2>1, <2>2, NumberedStays
<1>6. Unread(c)'
  <2>1. Consumed(c)' = Consumed(c)
    BY <1>1, <1>2 DEF Consumed, Holds, Kinds, TypeOK
  <2>2. QED BY <1>1, <1>2, <2>1, UnreadStays
<1>7. Placed(c)'
  BY <1>1, <1>2, PlacedStays
<1>8. ASSUME NEW d \in Connections, d # c PROVE CInv(d)'
  BY <1>8, Frame DEF WriteFails, Becomes, TypeOK
<1>9. QED BY <1>4, <1>5, <1>6, <1>7, <1>8

LEMMA OnWriteErrorKeeps ==
    ASSUME IInv, TInv', NEW c \in Connections, OnWriteError(c) PROVE \A d \in Connections : CInv(d)'
<1> USE DEF IInv, TInv, CInv
<1>1. ops[c] = {"on_write"} /\ ops'[c] = {} /\ timer'[c] # "off"
  BY DEF OnWriteError, Becomes, TypeOK, OneOperation, Phases, NotBegun
<1>2. /\ res'[c] = 0
      /\ outcome[c] = "error"
      /\ peer'[c] = peer[c] /\ kinds'[c] = kinds[c] /\ inbox'[c] = inbox[c] /\ answers'[c] = answers[c] /\ outcome'[c] = outcome[c]
      /\ taken'[c] = taken[c] /\ timer'[c] = timer[c] /\ shut'[c] = shut[c]
      /\ backlog' = backlog /\ accept' = accept
  BY DEF OnWriteError, TypeOK
<1>3. Kept(c, taken[c] - 1)' /\ GoneOrLate(c)'
  BY <1>1, <1>2 DEF Phases, Owes, Kept, GoneOrLate
<1>4. Phases(c)'
  BY <1>1, <1>2, <1>3 DEF Phases, NotBegun, Paid, Owes, Kept, TypeOK
<1>5. Numbered(c)'
  <2>1. taken[c] \in Nat /\ answers[c] \in Seq(Nat)
    BY DEF TypeOK
  <2>2. taken[c] <= Len(kinds[c]) /\ (shut'[c] => ops'[c] = {})
    BY <1>1, <1>2 DEF Numbered
  <2>3. QED BY <1>2, <2>1, <2>2, NumberedStays
<1>6. Unread(c)'
  BY <1>1, <1>2 DEF Unread
<1>7. Placed(c)'
  BY <1>1, <1>2, PlacedStays
<1>8. ASSUME NEW d \in Connections, d # c PROVE CInv(d)'
  BY <1>8, Frame DEF OnWriteError, Becomes, TypeOK
<1>9. QED BY <1>4, <1>5, <1>6, <1>7, <1>8

LEMMA OnWriteCloseKeeps ==
    ASSUME IInv, TInv', NEW c \in Connections, OnWriteClose(c) PROVE \A d \in Connections : CInv(d)'
<1> USE DEF IInv, TInv, CInv
<1>1. ops[c] = {"on_write"} /\ ops'[c] = {} /\ timer'[c] # "off"
  BY DEF OnWriteClose, Becomes, TypeOK, OneOperation, Phases, NotBegun
<1>2. /\ res'[c] = 0
      /\ shut'[c] = TRUE
      /\ outcome[c] = "written" /\ kinds[c][taken[c]] = "close"
      /\ peer'[c] = peer[c] /\ kinds'[c] = kinds[c] /\ inbox'[c] = inbox[c] /\ answers'[c] = answers[c] /\ outcome'[c] = outcome[c]
      /\ taken'[c] = taken[c] /\ timer'[c] = timer[c]
      /\ backlog' = backlog /\ accept' = accept
  BY DEF OnWriteClose, NeedEof, TypeOK
<1>3. Kept(c, taken[c] - 1)' /\ Len(answers'[c]) = taken'[c]
  BY <1>1, <1>2 DEF Phases, Kept
<1>4. Phases(c)'
  BY <1>1, <1>2, <1>3 DEF Phases, NotBegun, Paid, Owes, Kept, TypeOK
<1>5. Numbered(c)'
  <2>1. taken[c] \in Nat /\ answers[c] \in Seq(Nat)
    BY DEF TypeOK
  <2>2. taken[c] <= Len(kinds[c]) /\ (shut'[c] => ops'[c] = {})
    BY <1>1, <1>2 DEF Numbered
  <2>3. QED BY <1>2, <2>1, <2>2, NumberedStays
<1>6. Unread(c)'
  BY <1>1, <1>2 DEF Unread
<1>7. Placed(c)'
  BY <1>1, <1>2, PlacedStays
<1>8. ASSUME NEW d \in Connections, d # c PROVE CInv(d)'
  BY <1>8, Frame DEF OnWriteClose, Becomes, TypeOK
<1>9. QED BY <1>4, <1>5, <1>6, <1>7, <1>8

LEMMA OnWriteKeepKeeps ==
    ASSUME IInv, TInv', NEW c \in Connections, OnWriteKeep(c) PROVE \A d \in Connections : CInv(d)'
<1> USE DEF IInv, TInv, CInv
<1>1. ops[c] = {"on_write"} /\ ops'[c] = {"read"} /\ timer'[c] # "off"
  BY DEF OnWriteKeep, Becomes, TypeOK, OneOperation, Phases, NotBegun
<1>2. /\ res'[c] = 0
      /\ timer'[c] = "armed"
      /\ outcome[c] = "written" /\ kinds[c][taken[c]] # "close"
      /\ peer'[c] = peer[c] /\ kinds'[c] = kinds[c] /\ inbox'[c] = inbox[c] /\ answers'[c] = answers[c] /\ outcome'[c] = outcome[c]
      /\ taken'[c] = taken[c] /\ shut'[c] = shut[c]
      /\ backlog' = backlog /\ accept' = accept
  BY DEF OnWriteKeep, NeedEof, TypeOK
<1>3. Paid(c)'
  <2>1. taken[c] \in Nat /\ taken[c] > 0 /\ Len(answers[c]) = taken[c]
    <3>1. taken[c] \in Nat
      BY DEF TypeOK
    <3>2. QED BY <1>1, <1>2, <3>1 DEF Phases
  <2>2. Kept(c, taken[c] - 1) /\ kinds[c][taken[c]] = "keep"
    BY <1>1, <1>2 DEF Phases
  <2>3. \A i \in 1..taken[c] : i = taken[c] \/ i \in 1..(taken[c] - 1)
    BY <2>1
  <2>4. QED BY <1>2, <2>1, <2>2, <2>3 DEF Paid, Kept
<1>4. Phases(c)'
  BY <1>1, <1>2, <1>3 DEF Phases, NotBegun, Paid, Owes, Kept, TypeOK
<1>5. Numbered(c)'
  <2>1. taken[c] \in Nat /\ answers[c] \in Seq(Nat)
    BY DEF TypeOK
  <2>2. taken[c] <= Len(kinds[c]) /\ (shut'[c] => ops'[c] = {})
    BY <1>1, <1>2 DEF Numbered
  <2>3. QED BY <1>2, <2>1, <2>2, NumberedStays
<1>6. Unread(c)'
  <2>1. Consumed(c)' = Consumed(c)
    BY <1>1, <1>2 DEF Consumed, Holds, Kinds, TypeOK
  <2>2. QED BY <1>1, <1>2, <2>1, UnreadStays
<1>7. Placed(c)'
  BY <1>1, <1>2, PlacedStays
<1>8. ASSUME NEW d \in Connections, d # c PROVE CInv(d)'
  BY <1>8, Frame DEF OnWriteKeep, Becomes, TypeOK
<1>9. QED BY <1>4, <1>5, <1>6, <1>7, <1>8

LEMMA ExpireKeeps ==
    ASSUME IInv, NEW c \in Connections, Expire(c) PROVE \A d \in Connections : CInv(d)'
<1> USE DEF IInv, TInv, CInv
<1>1. ops[c] # {} /\ timer[c] = "armed" /\ timer'[c] = "expired"
  BY DEF Expire, TypeOK
<1>2. Phases(c)'
  BY <1>1 DEF Expire, Phases, NotBegun, Paid, Owes, Kept, GoneOrLate
<1>3. Numbered(c)'
  BY DEF Expire, Numbered
<1>4. Unread(c)'
  BY <1>1 DEF Expire, Unread, Consumed, Holds
<1>5. Placed(c)'
  BY <1>1, PlacedStays DEF Expire
<1>6. ASSUME NEW d \in Connections, d # c PROVE CInv(d)'
  BY <1>6, Frame DEF Expire, TypeOK
<1>7. QED BY <1>2, <1>3, <1>4, <1>5, <1>6

LEMMA ConnectKeeps ==
    ASSUME IInv, NEW c \in Connections, Connect(c) PROVE \A d \in Connections : CInv(d)'
<1> USE DEF IInv, TInv, CInv
<1>1. peer[c] = "absent" /\ peer'[c] = "open" /\ ops[c] = {} /\ timer[c] = "off" /\ c \in backlog' /\ accept # c
  BY DEF Connect, TypeOK, Placed
<1>2. Phases(c)'
  BY <1>1 DEF Connect, Phases, NotBegun, Paid, Owes, Kept, GoneOrLate
<1>3. Numbered(c)'
  BY DEF Connect, Numbered
<1>4. Unread(c)'
  BY <1>1 DEF Connect, Unread, Consumed, Holds
<1>5. Placed(c)'
  BY <1>1 DEF Connect, Placed
<1>6. ASSUME NEW d \in Connections, d # c PROVE CInv(d)'
  BY <1>6, Frame DEF Connect, TypeOK
<1>7. QED BY <1>2, <1>3, <1>4, <1>5, <1>6

(* A request is added behind those that were sent: what is known of the    *)
(* earlier ones still holds.                                               *)
LEMMA SendKeeps ==
    ASSUME IInv, NEW c \in Connections, NEW kind \in Kinds, Send(c, kind)
    PROVE  \A d \in Connections : CInv(d)'
<1> USE DEF IInv, TInv, CInv
<1>1. /\ kinds[c] \in Seq(Kinds) /\ inbox[c] \in Seq(Kinds) /\ taken[c] \in Nat
      /\ peer[c] = "open"
      /\ kinds'[c] = Append(kinds[c], kind) /\ inbox'[c] = Append(inbox[c], kind)
  BY DEF Send, TypeOK
<1>2. UNCHANGED <<backlog, accept, peer, answers, ops, outcome, taken, res, timer, shut>>
  BY DEF Send
<1>3. /\ Len(kinds'[c]) = Len(kinds[c]) + 1 /\ Len(inbox'[c]) = Len(inbox[c]) + 1
      /\ kinds'[c][Len(kinds[c]) + 1] = kind /\ inbox'[c][Len(inbox[c]) + 1] = kind
      /\ Len(kinds[c]) \in Nat /\ Len(inbox[c]) \in Nat
      /\ \A i \in 1..Len(kinds[c]) : kinds'[c][i] = kinds[c][i]
      /\ \A i \in 1..Len(inbox[c]) : inbox'[c][i] = inbox[c][i]
  BY <1>1
<1>4. taken[c] <= Len(kinds[c])
  BY DEF Numbered
<1>5. ASSUME NEW n \in {taken[c], taken[c] - 1}, Kept(c, n) PROVE Kept(c, n)'
  BY <1>1, <1>3, <1>4, <1>5 DEF Kept
<1>6. taken[c] > 0 => kinds'[c][taken[c]] = kinds[c][taken[c]]
  BY <1>1, <1>3, <1>4
<1>7. taken[c] < Len(kinds[c]) => kinds'[c][taken[c] + 1] = kinds[c][taken[c] + 1]
  BY <1>1, <1>3
<1>8. Phases(c)'
  <2>1. Kept(c, taken[c])' = Kept(c, taken[c])' /\ (Kept(c, taken[c]) => Kept(c, taken[c])')
    BY <1>2, <1>5
  <2>2. Kept(c, taken[c] - 1) => Kept(c, taken[c] - 1)'
    BY <1>2, <1>5
  <2>3. Paid(c) => Paid(c)'
    BY <1>2, <2>1 DEF Paid
  <2>4. Owes(c) => Owes(c)'
    BY <1>2, <1>6, <2>2 DEF Owes
  <2>5. NotBegun(c)' = NotBegun(c) /\ GoneOrLate(c)' = GoneOrLate(c)
    BY <1>2 DEF NotBegun, GoneOrLate
  <2>6. taken[c] < Len(kinds[c]) => taken'[c] < Len(kinds'[c])
    BY <1>1, <1>2, <1>3
  <2>7. QED BY <1>2, <1>6, <1>7, <2>2, <2>3, <2>4, <2>5, <2>6 DEF Phases
<1>9. Numbered(c)'
  BY <1>1, <1>2, <1>3, <1>4 DEF Numbered
<1>10. Unread(c)'
  <2>1. Consumed(c)' = Consumed(c) /\ Consumed(c) \in Nat
    BY <1>1, <1>2 DEF Consumed, Holds
  <2>2. CASE ops[c] # {} \/ timer[c] = "off"
    <3>1. /\ Consumed(c) + Len(inbox[c]) = Len(kinds[c])
          /\ \A i \in 1..Len(inbox[c]) : inbox[c][i] = kinds[c][Consumed(c) + i]
      BY <1>1, <2>2 DEF Unread
    <3>2. Consumed(c)' + Len(inbox'[c]) = Len(kinds'[c])
      BY <1>3, <2>1, <3>1
    <3>3. ASSUME NEW i \in 1..Len(inbox'[c]) PROVE inbox'[c][i] = kinds'[c][Consumed(c)' + i]
      <4>1. CASE i = Len(inbox[c]) + 1
        <5>1. Consumed(c) + i = Len(kinds[c]) + 1
          BY <1>3, <2>1, <3>1, <4>1
        <5>2. QED BY <1>3, <2>1, <4>1, <5>1
      <4>2. CASE i \in 1..Len(inbox[c])
        <5>1. Consumed(c) + i \in 1..Len(kinds[c])
          BY <1>3, <2>1, <3>1, <4>2
        <5>2. QED BY <1>3, <2>1, <3>1, <4>2, <5>1
      <4>3. QED BY <1>3, <4>1, <4>2
    <3>4. QED BY <1>1, <1>2, <3>2, <3>3 DEF Unread
  <2>3. CASE ops[c] = {} /\ timer[c] # "off"
    BY <1>1, <1>2, <2>3 DEF Unread
  <2>4. QED BY <2>2, <2>3
<1>11. Placed(c)'
  BY <1>2 DEF Placed
<1>12. ASSUME NEW d \in Connections, d # c PROVE CInv(d)'
  BY <1>12, Frame DEF Send, TypeOK
<1>13. QED BY <1>8, <1>9, <1>10, <1>11, <1>12

LEMMA FinishKeeps ==
    ASSUME IInv, NEW c \in Connections, Finish(c) PROVE \A d \in Connections : CInv(d)'
<1> USE DEF IInv, TInv, CInv
<1>1. peer[c] = "open" /\ peer'[c] = "finished"
  BY DEF Finish, TypeOK
<1>2. Phases(c)'
  BY <1>1 DEF Finish, Phases, NotBegun, Paid, Owes, Kept, GoneOrLate
<1>3. Numbered(c)' /\ Unread(c)' /\ Placed(c)'
  BY <1>1 DEF Finish, Numbered, Unread, Consumed, Holds, Placed
<1>4. ASSUME NEW d \in Connections, d # c PROVE CInv(d)'
  BY <1>4, Frame DEF Finish, TypeOK
<1>5. QED BY <1>2, <1>3, <1>4

LEMMA ResetKeeps ==
    ASSUME IInv, NEW c \in Connections, Reset(c) PROVE \A d \in Connections : CInv(d)'
<1> USE DEF IInv, TInv, CInv
<1>1. peer[c] # "absent" /\ peer'[c] = "reset" /\ inbox'[c] = <<>>
  BY DEF Reset, TypeOK
<1>2. Phases(c)'
  BY <1>1 DEF Reset, Phases, NotBegun, Paid, Owes, Kept, GoneOrLate
<1>3. Numbered(c)' /\ Unread(c)' /\ Placed(c)'
  BY <1>1 DEF Reset, Numbered, Unread, Consumed, Holds, Placed
<1>4. ASSUME NEW d \in Connections, d # c PROVE CInv(d)'
  BY <1>4, Frame DEF Reset, TypeOK
<1>5. QED BY <1>2, <1>3, <1>4

LEMMA AcceptCompletesKeeps ==
    ASSUME IInv, NEW c \in Connections, AcceptCompletes(c) PROVE \A d \in Connections : CInv(d)'
<1> USE DEF IInv, TInv, CInv
<1>1. UNCHANGED <<peerVars, sessionVars>> /\ accept' = c /\ c \notin backlog' /\ c \in backlog
  BY DEF AcceptCompletes
<1>2. Phases(c)'
  BY <1>1 DEF Phases, NotBegun, Paid, Owes, Kept, GoneOrLate
<1>3. Numbered(c)' /\ Unread(c)' /\ Placed(c)'
  BY <1>1 DEF Numbered, Unread, Consumed, Holds, Placed
<1>4. ASSUME NEW d \in Connections, d # c PROVE CInv(d)'
  <2>1. accept # d
    BY ConnectionsAssumption DEF AcceptCompletes
  <2>2. d \in backlog' <=> d \in backlog
    BY <1>4 DEF AcceptCompletes
  <2>3. QED BY <1>1, <1>4, <2>1, <2>2, Frame
<1>5. QED BY <1>2, <1>3, <1>4

LEMMA OnAcceptKeeps ==
    ASSUME IInv, NEW c \in Connections, OnAccept(c) PROVE \A d \in Connections : CInv(d)'
<1> USE DEF IInv, TInv, CInv
<1>1. /\ ops[c] = {} /\ timer[c] = "off" /\ peer[c] # "absent" /\ c \notin backlog
      /\ ops'[c] = {"do_read"}
  BY DEF OnAccept, Placed, TypeOK
<1>2. accept' # c /\ UNCHANGED <<backlog, peerVars, outcome, taken, res, timer, shut>>
  BY ConnectionsAssumption DEF OnAccept
<1>3. NotBegun(c) /\ NotBegun(c)'
  BY <1>1, <1>2 DEF Phases, NotBegun
<1>4. Phases(c)'
  BY <1>1, <1>2, <1>3 DEF Phases, Kept
<1>5. Numbered(c)' /\ Placed(c)'
  BY <1>1, <1>2, <1>3 DEF Numbered, Placed, NotBegun
<1>6. Unread(c)'
  BY <1>1, <1>2 DEF Unread, Consumed, Holds
<1>7. ASSUME NEW d \in Connections, d # c PROVE CInv(d)'
  <2>1. accept # d /\ accept' # d
    BY <1>7, ConnectionsAssumption DEF OnAccept
  <2>2. ops'[d] = ops[d]
    BY <1>7 DEF OnAccept, TypeOK
  <2>3. QED BY <1>2, <2>1, <2>2, Frame
<1>8. QED BY <1>4, <1>5, <1>6, <1>7

(* What the listener does about a failed accept, and an exception that     *)
(* ends the process, touch no connection.                                  *)
LEMMA OthersKeep ==
    ASSUME IInv, UNCHANGED <<backlog, peerVars, sessionVars>>,
           \A d \in Connections : accept' = d <=> accept = d
    PROVE  \A d \in Connections : CInv(d)'
BY Frame DEF IInv

-----------------------------------------------------------------------------
LEMMA StepKeeps == IInv /\ [Next]_vars => IInv'
<1> SUFFICES ASSUME IInv, [Next]_vars PROVE IInv'
  OBVIOUS
<1>1. TInv'
  BY TypesKept
<1>2. \A d \in Connections : CInv(d)'
  <2>1. ASSUME NEW c \in Connections, Environment(c) PROVE \A d \in Connections : CInv(d)'
    BY <2>1, ConnectKeeps, SendKeeps, FinishKeeps, ResetKeeps DEF Environment
  <2>2. ASSUME NEW c \in Connections, Expire(c) PROVE \A d \in Connections : CInv(d)'
    BY <2>2, ExpireKeeps
  <2>3. ASSUME NEW c \in Connections, Listener(c) PROVE \A d \in Connections : CInv(d)'
    <3>1. CASE OnAcceptThrows(c)
      BY <3>1, OthersKeep DEF OnAcceptThrows, Die
    <3>2. QED BY <2>3, <3>1, AcceptCompletesKeeps, OnAcceptKeeps DEF Listener
  <2>4. ASSUME NEW c \in Connections, Session(c) PROVE \A d \in Connections : CInv(d)'
    <3>1. CASE OnReadUpgradeThrows(c)
      BY <3>1, OthersKeep DEF OnReadUpgradeThrows, Die
    <3>2. QED
      BY <1>1, <2>4, <3>1, DoReadKeeps, ReadRequestKeeps, ReadEofKeeps, ReadFailsKeeps,
         OnReadEofKeeps, OnReadErrorKeeps, OnReadRequestKeeps, OnReadUpgradeKeeps, HandleKeeps,
         WrittenKeeps, WriteFailsKeeps, OnWriteErrorKeeps, OnWriteCloseKeeps, OnWriteKeepKeeps
      DEF Session
  <2>5. ASSUME AcceptFails \/ OnAcceptFailed PROVE \A d \in Connections : CInv(d)'
    <3>1. \A d \in Connections : accept' = d <=> accept = d
      BY <2>5, ConnectionsAssumption DEF AcceptFails, OnAcceptFailed
    <3>2. QED BY <2>5, <3>1, OthersKeep DEF AcceptFails, OnAcceptFailed
  <2>6. CASE UNCHANGED vars
    BY <2>6, OthersKeep DEF vars
  <2>7. QED BY <2>1, <2>2, <2>3, <2>4, <2>5, <2>6 DEF Next
<1>3. QED BY <1>1, <1>2 DEF IInv

LEMMA Invariance == Spec => []IInv
BY Initially, StepKeeps, PTL DEF Spec

(* A session always has one operation at most, and the response that is    *)
(* being written is kept: the reason the handlers need no lock, whatever   *)
(* the number of connections and of requests.                              *)
THEOREM SessionsAreConsistent == Spec => []SessionConsistent
<1>1. IInv => SessionConsistent
  <2> SUFFICES ASSUME IInv PROVE SessionConsistent
    OBVIOUS
  <2>1. ResponseKeptWhileWriting
    BY DEF IInv, TInv, TypeOK, CInv, Phases, Owes, ResponseKeptWhileWriting
  <2>2. QED BY <2>1 DEF IInv, TInv, SessionConsistent
<1>2. QED BY <1>1, Invariance, PTL

(* Responses arrive in the order of the requests, nothing is read after a  *)
(* request that ends the connection, and do_close is the end of a session. *)
THEOREM ExchangesAreOrdered == Spec => []ExchangesInOrder
<1>1. IInv => ExchangesInOrder
  <2> SUFFICES ASSUME IInv, NEW c \in Connections
               PROVE  /\ \A i \in DOMAIN answers[c] : answers[c][i] = i
                      /\ \A i \in 1..(taken[c] - 1) : kinds[c][i] = "keep"
                      /\ shut[c] => ops[c] = {}
    BY DEF ExchangesInOrder, AnswersInOrder, LastRequestIsLast, ShutIsTheEnd
  <2>1. DOMAIN answers[c] = 1..Len(answers[c])
    BY DEF IInv, TInv, TypeOK
  <2>2. QED BY <2>1 DEF IInv, CInv, Phases, Numbered, Kept
<1>2. QED BY <1>1, Invariance, PTL

(* A request that was read stays without an answer only when the peer went *)
(* away or the deadline of the read passed.                                *)
THEOREM EveryRequestIsAnswered == Spec => []RequestsAnswered
<1>1. IInv => RequestsAnswered
  BY DEF IInv, TInv, TypeOK, CInv, Phases, GoneOrLate, RequestsAnswered
<1>2. QED BY <1>1, Invariance, PTL

(* The listener loses no connection, however often accepting fails.        *)
THEOREM ConnectionsAreServed == Spec => []NoConnectionForgotten
<1>1. IInv => NoConnectionForgotten
  BY DEF IInv, CInv, Placed, NoConnectionForgotten
<1>2. QED BY <1>1, Invariance, PTL

=============================================================================
