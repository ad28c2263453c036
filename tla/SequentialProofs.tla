------------------------ MODULE SequentialProofs -------------------------
(***************************************************************************)
(* The sequential parts for any size of int, any number of users, any      *)
(* messages, any paths and URLs, salts of any length, templates and        *)
(* parameters of any number, and any items.                                *)
(***************************************************************************)
EXTENDS Sequential, SequenceTheorems, FiniteSetTheorems, WellFoundedInduction, TLAPS

(* A set of naturals that is not empty has a least element: otherwise the  *)
(* intervals that end in it would have no smallest one, and they are       *)
(* finite.  All induction below is by least counterexamples.               *)
LEMMA LeastOf == ASSUME NEW T \in SUBSET Nat, NEW n \in T
    PROVE  \E x \in T : \A y \in T : x <= y
<1> DEFINE S == 0..n
           F == {0..k : k \in {j \in T : j <= n}}
<1>1. IsFiniteSet(S)
  BY FS_Interval
<1>2. IsWellFoundedOn(StrictSubsetOrdering(S), FiniteSubsetsOf(S))
  BY <1>1, FS_StrictSubsetOrderingWellFounded
<1>3. F \subseteq FiniteSubsetsOf(S) /\ F # {}
  <2>1. \A k \in {j \in T : j <= n} : 0..k \in SUBSET S /\ IsFiniteSet(0..k)
    BY FS_Interval
  <2> QED BY <2>1 DEF FiniteSubsetsOf
<1>4. PICK X \in F : \A Y \in F : ~ (<<Y, X>> \in StrictSubsetOrdering(S))
  BY <1>2, <1>3, WFMin
<1>5. PICK x \in T : x <= n /\ X = 0..x
  BY <1>4
<1>6. ASSUME NEW y \in T, y < x PROVE FALSE
  <2>1. 0..y \in F
    BY <1>5, <1>6
  <2>2. <<0..y, X>> \in StrictSubsetOrdering(S)
    BY <1>5, <1>6 DEF StrictSubsetOrdering
  <2> QED BY <1>4, <2>1, <2>2
<1> QED BY <1>5, <1>6

-----------------------------------------------------------------------------
(* The pages of the users' list. *)

(* The last page is the only one that may be short.                        *)
LEMMA TotalPagesBounds ==
    ASSUME NEW n \in Nat
    PROVE  /\ TotalPages(n) \in Nat
           /\ n <= TotalPages(n) * 10
           /\ TotalPages(n) * 10 < n + 10
BY DEF TotalPages

LEMMA TotalPagesGrows ==
    ASSUME NEW n \in Nat, NEW m \in Nat, n <= m
    PROVE  TotalPages(n) <= TotalPages(m)
BY TotalPagesBounds

(* An existing page's offset fits an int: it is smaller than the users.    *)
LEMMA OffsetFits ==
    ASSUME NEW n \in 0..MaxInt, NEW p \in 1..TotalPages(n)
    PROVE  /\ Offset(p) = (p - 1) * 10
           /\ Offset(p) < n /\ 0 <= Offset(p)
           /\ p <= MaxInt
<1>1. TotalPages(n) \in Nat /\ TotalPages(n) * 10 < n + 10
  BY TotalPagesBounds, IntAssumption
<1>2. (p - 1) * 10 < n /\ 0 <= (p - 1) * 10 /\ p <= MaxInt
  BY <1>1, IntAssumption
<1>3. QED BY <1>1, <1>2, IntAssumption DEF Offset, Wrap

(* What the links of an existing page are.                                 *)
LEMMA LinksInRange ==
    ASSUME NEW t \in Nat, NEW p \in 1..t
    PROVE  Links(p, t) \subseteq 1..t
BY DEF Links, PagesLeft, PagesRight, NextPage, Previous, Ends, LeftEllipsis, RightEllipsis

(* What is known of a page that is shown.                                  *)
PagesInv ==
    /\ users \in 0..MaxUsers /\ page \in 0..MaxInt
    /\ total \in Nat /\ total <= TotalPages(users)
    /\ offset \in Int /\ 0 <= offset /\ offset <= MaxInt
    /\ page # 0 => offset = Offset(page)

(* An offset is an int, whatever the product.                              *)
LEMMA OffsetIsInt == ASSUME NEW p \in Nat PROVE Offset(p) \in Int /\ Offset(p) <= MaxInt
<1> DEFINE x == (p - 1) * 10
           m == 2 * MaxInt + 2
<1>1. x \in Int /\ m \in Nat /\ m > 0 /\ x + MaxInt + 1 \in Int
  BY IntAssumption
<1>2. ASSUME NEW y \in Int PROVE y % m \in 0..(m - 1)
  BY <1>1
<1>3. (x + MaxInt + 1) % m \in 0..(m - 1)
  BY <1>1, <1>2
<1>4. QED BY <1>1, <1>3, IntAssumption DEF Offset, Wrap

LEMMA ShowKeeps ==
    ASSUME PagesInv, NEW p \in Nat, users' \in 0..MaxUsers, Show(p)
    PROVE  PagesInv'
<1>0. users' \in Nat /\ TotalPages(users') \in Nat
  BY TotalPagesBounds, BoundAssumption
<1>1. CASE Refused(p)
  BY <1>0, <1>1, IntAssumption DEF Show, PagesInv
<1>2. CASE ~Refused(p)
  <2>1. page' = p /\ total' = TotalPages(users') /\ offset' = Offset(p) /\ p <= MaxInt /\ Offset(p) >= 0
    BY <1>2, OffsetIsInt, IntAssumption DEF Show, Refused
  <2>2. p \in 0..MaxInt /\ Offset(p) \in Int /\ Offset(p) <= MaxInt
    BY <2>1, OffsetIsInt, IntAssumption
  <2>3. offset' = Offset(page')
    BY <2>1
  <2>4. QED BY <1>0, <2>1, <2>2, <2>3 DEF PagesInv
<1>3. QED BY <1>1, <1>2

(* The inductive invariant.                                                *)
THEOREM InductiveInvariant == Spec => []PagesInv
<1>1. Init => PagesInv
  BY TotalPagesBounds, IntAssumption, BoundAssumption DEF Init, PagesInv
<1>2. PagesInv /\ [Next]_vars => PagesInv'
  <2> SUFFICES ASSUME PagesInv, [Next]_vars PROVE PagesInv'
    OBVIOUS
  <2>1. ASSUME NEW p \in Typed, Type(p) PROVE PagesInv'
    BY <2>1, ShowKeeps, BoundAssumption DEF Type, PagesInv
  <2>2. ASSUME NEW p \in Links(page, total), Click(p) PROVE PagesInv'
    <3>1. p \in Nat
      BY DEF PagesInv, Links, PagesLeft, PagesRight, NextPage, Previous, Ends, LeftEllipsis, RightEllipsis
    <3>2. QED BY <2>2, <3>1, ShowKeeps DEF Click, PagesInv
  <2>3. ASSUME AddUser PROVE PagesInv'
    BY <2>3, ShowKeeps, BoundAssumption DEF AddUser, PagesInv
  <2>4. ASSUME UserAdded PROVE PagesInv'
    <3>1. users \in Nat /\ users' \in Nat /\ users <= users' /\ users' \in 0..MaxUsers
      BY <2>4, BoundAssumption DEF UserAdded, PagesInv
    <3>2. TotalPages(users) \in Nat /\ TotalPages(users') \in Nat /\ TotalPages(users) <= TotalPages(users')
      BY <3>1, TotalPagesGrows, TotalPagesBounds
    <3>3. QED BY <2>4, <3>1, <3>2 DEF UserAdded, PagesInv
  <2>5. CASE UNCHANGED vars
    BY <2>5 DEF vars, PagesInv, Offset
  <2>6. QED BY <2>1, <2>2, <2>3, <2>4, <2>5 DEF Next
<1>3. QED BY <1>1, <1>2, PTL DEF Spec

(* A page that exists asks for its own rows; no multiplication overflows   *)
(* (redirect_to_users).                                                    *)
THEOREM OwnRows == Spec => []PageAsksForItsRows
<1>1. PagesInv => PageAsksForItsRows
  <2> SUFFICES ASSUME PagesInv, InRange PROVE offset = (page - 1) * 10 /\ offset < users
    BY DEF PageAsksForItsRows
  <2>1. users \in Nat /\ users \in 0..MaxInt
    BY IntAssumption, BoundAssumption DEF PagesInv
  <2>2. page \in 1..TotalPages(users)
    BY <2>1, TotalPagesBounds DEF PagesInv, InRange
  <2>3. QED BY <2>1, <2>2, OffsetFits DEF PagesInv, InRange
<1>2. QED BY <1>1, InductiveInvariant, PTL

(* Every user is on a page (total_pages).                                  *)
THEOREM NobodyIsLost == Spec => []EveryUserOnAPage
<1>1. PagesInv => EveryUserOnAPage
  <2> SUFFICES ASSUME PagesInv, NEW u \in 1..users
               PROVE  \E p \in 1..TotalPages(users) : (p - 1) * 10 < u /\ u <= p * 10
    BY DEF EveryUserOnAPage
  <2> DEFINE p == (u - 1) \div 10 + 1
  <2>1. users \in Nat /\ u \in Int /\ 1 <= u /\ u <= users
    BY BoundAssumption DEF PagesInv
  <2>2. p \in Int /\ (p - 1) * 10 <= u - 1 /\ u - 1 < p * 10 /\ 1 <= p
    BY <2>1
  <2>3. TotalPages(users) \in Nat /\ users <= TotalPages(users) * 10
    BY <2>1, TotalPagesBounds
  <2>4. p \in 1..TotalPages(users)
    BY <2>1, <2>2, <2>3
  <2>5. QED BY <2>1, <2>2, <2>4
<1>2. QED BY <1>1, InductiveInvariant, PTL

(* The links of a page that exists lead to pages that exist, also when     *)
(* users were added since.                                                 *)
THEOREM LinksLeadSomewhere == Spec => []LinksExist
<1>1. PagesInv => LinksExist
  <2> SUFFICES ASSUME PagesInv, InRange PROVE Links(page, total) \subseteq 1..TotalPages(users)
    BY DEF LinksExist
  <2>1. Links(page, total) \subseteq 1..total
    BY LinksInRange DEF PagesInv, InRange
  <2>2. TotalPages(users) \in Nat
    BY TotalPagesBounds, BoundAssumption DEF PagesInv
  <2>3. QED BY <2>1, <2>2 DEF PagesInv
<1>2. QED BY <1>1, InductiveInvariant, PTL

(* Pages are hidden exactly where there is an ellipsis.                    *)
THEOREM EllipsesAreExact == Spec => []EllipsisWherePagesAreHidden
<1>1. PagesInv => EllipsisWherePagesAreHidden
  <2> SUFFICES ASSUME PagesInv, InRange PROVE EllipsisWherePagesAreHidden
    BY DEF EllipsisWherePagesAreHidden
  <2> DEFINE shown == PagesLeft(page) \cup {page} \cup PagesRight(page, total) \cup Ends(page, total)
             hidden == (1..total) \ shown
  <2>0. page \in Int /\ total \in Int /\ 1 <= page /\ page <= total
    BY DEF PagesInv, InRange
  <2>1. LeftEllipsis(page) => 2 \in hidden /\ 2 < page
    BY <2>0 DEF LeftEllipsis, RightEllipsis, PagesLeft, PagesRight, Ends
  <2>2. ~LeftEllipsis(page) => \A q \in hidden : ~(q < page)
    BY <2>0 DEF LeftEllipsis, PagesLeft
  <2>3. RightEllipsis(page, total) => total - 1 \in hidden /\ total - 1 > page
    BY <2>0 DEF LeftEllipsis, RightEllipsis, PagesLeft, PagesRight, Ends
  <2>4. ~RightEllipsis(page, total) => \A q \in hidden : ~(q > page)
    BY <2>0 DEF RightEllipsis, PagesRight
  <2>5. QED BY <2>1, <2>2, <2>3, <2>4 DEF EllipsisWherePagesAreHidden
<1>2. QED BY <1>1, InductiveInvariant, PTL

(* What the runs check of a page, in one theorem (redirect_to_users,       *)
(* users.html).                                                            *)
THEOREM PagesAlwaysRight == Spec => []PagesAreRight
<1>1. PagesInv => TypeOK
  <2> SUFFICES ASSUME PagesInv PROVE TypeOK
    OBVIOUS
  <2>1. users \in Nat /\ MaxInt \in Nat
    BY IntAssumption, BoundAssumption DEF PagesInv
  <2>2. TotalPages(users) \in Nat
    BY <2>1, TotalPagesBounds
  <2>3. QED BY <2>1, <2>2 DEF PagesInv, TypeOK
<1>2. QED BY <1>1, InductiveInvariant, OwnRows, NobodyIsLost, LinksLeadSomewhere, EllipsesAreExact, PTL DEF PagesAreRight

(* Following links from a page that exists never leads to an error or to a *)
(* page that is not there.                                                 *)
THEOREM ClicksAreSafe == Spec => ClicksStayInRange
<1>1. PagesInv /\ [Next]_vars => [InRange => \A p \in Links(page, total) : Click(p) => InRange']_vars
  <2> SUFFICES ASSUME PagesInv, InRange, NEW p \in Links(page, total), Click(p) PROVE InRange'
    OBVIOUS
  <2>0. users \in Nat /\ users \in 0..MaxInt /\ users' = users /\ total \in Nat
    BY IntAssumption, BoundAssumption DEF PagesInv, Click
  <2>1. TotalPages(users) \in Nat
    BY <2>0, TotalPagesBounds
  <2>2. p \in 1..total
    BY <2>0, LinksInRange DEF InRange
  <2>3. p \in 1..TotalPages(users) /\ p \in Int
    BY <2>0, <2>1, <2>2 DEF PagesInv
  <2>4. ~Refused(p)
    BY <2>0, <2>3, OffsetFits, IntAssumption DEF Refused
  <2>5. page' = p /\ total' = TotalPages(users)
    BY <2>0, <2>4 DEF Click, Show, TotalPages
  <2>6. QED BY <2>3, <2>5 DEF InRange
<1>2. QED BY <1>1, InductiveInvariant, PTL DEF Spec, ClicksStayInRange

-----------------------------------------------------------------------------
(* Websocket sessions. *)

(* Of what a peer said, the session has read read messages: it is writing  *)
(* or has written the last of them, the others are in the inbox, and what  *)
(* the peer heard is the cnt and the first messages it said.               *)
ReadSoFar(w, read) ==
    /\ read \in 0..Len(said[w])
    /\ data[w] = IF read = 0 THEN Cnt ELSE said[w][read]
    /\ pc[w] \in {"accepting", "routing"} => read = 0 /\ heard[w] = <<>>
    /\ pc[w] = "accepting" => peer[w] # "closed" /\ said[w] = <<>>

Waiting(w, read) ==
    /\ peer[w] # "reset" =>
          /\ Len(inbox[w]) - (Len(said[w]) - read) \in {0, 1}
          /\ \A i \in 1..Len(inbox[w]) :
                IF i <= Len(said[w]) - read THEN inbox[w][i] = said[w][read + i]
                                            ELSE inbox[w][i] \in {"close", "garbage"}
    /\ peer[w] = "open" => Len(inbox[w]) = Len(said[w]) - read
    /\ peer[w] = "reset" => inbox[w] = <<>>

Heard(w, read) ==
    /\ heard[w] \in Seq(Messages \cup {Cnt})
    /\ Len(heard[w]) <= (IF pc[w] \in {"reading", "ended"} THEN read + 1 ELSE read)
    /\ \A i \in 1..Len(heard[w]) : heard[w][i] = IF i = 1 THEN Cnt ELSE said[w][i - 1]
    /\ peer[w] \in {"open", "closed"} =>
          /\ pc[w] = "writing" => Len(heard[w]) = read
          /\ pc[w] = "reading" => Len(heard[w]) = read + 1
    /\ peer[w] = "open" => end[w] # "closed"
    /\ end[w] = "closed" /\ peer[w] = "closed" => Len(heard[w]) = Len(said[w]) + 1

EchoInv(w) == \E read \in Nat : ReadSoFar(w, read) /\ Waiting(w, read) /\ Heard(w, read)

WsTypes == /\ asks \in [Sockets -> {"echo", "unknown", "bad"}]
           /\ peer \in [Sockets -> {"open", "closed", "gone", "reset"}]
           /\ said \in [Sockets -> Seq(Messages)]
           /\ \A w \in Sockets : Len(said[w]) <= MaxMessages
           /\ inbox \in [Sockets -> Seq(Ws!Frames)]
           /\ heard \in [Sockets -> Seq(Messages \cup {Cnt})]
           /\ data \in [Sockets -> Messages \cup {Cnt}]
           /\ pc \in [Sockets -> {"accepting", "routing", "writing", "reading", "ended"}]
           /\ end \in [Sockets -> {"no", "refused", "dropped", "failed", "closed"}]
           /\ \A w \in Sockets : pc[w] = "ended" <=> end[w] # "no"

WsInv == WsTypes /\ \A w \in Sockets : EchoInv(w)

LEMMA WsInit == Ws!Init => WsInv
<1> SUFFICES ASSUME Ws!Init PROVE WsInv
  OBVIOUS
<1>1. WsTypes
  BY MessageAssumption DEF Ws!Init, WsTypes, Ws!Frames
<1>2. ASSUME NEW w \in Sockets PROVE EchoInv(w)
  <2>1. ReadSoFar(w, 0) /\ Waiting(w, 0) /\ Heard(w, 0)
    BY DEF Ws!Init, ReadSoFar, Waiting, Heard
  <2> QED BY <2>1 DEF EchoInv
<1> QED BY <1>1, <1>2 DEF WsInv

Unmoved(v) == /\ asks'[v] = asks[v] /\ peer'[v] = peer[v] /\ said'[v] = said[v] /\ inbox'[v] = inbox[v]
              /\ heard'[v] = heard[v] /\ data'[v] = data[v] /\ pc'[v] = pc[v] /\ end'[v] = end[v]

(* Connections do not touch each other.                                    *)
LEMMA WsOthers ==
    ASSUME WsInv, WsTypes', NEW w \in Sockets, EchoInv(w)',
           \A v \in Sockets \ {w} : Unmoved(v)
    PROVE  WsInv'
<1>1. ASSUME NEW v \in Sockets, v # w PROVE EchoInv(v)'
  <2>1. PICK read \in Nat : ReadSoFar(v, read) /\ Waiting(v, read) /\ Heard(v, read)
    BY DEF WsInv, EchoInv
  <2>2. Unmoved(v)
    BY <1>1
  <2>3. ReadSoFar(v, read)' /\ Waiting(v, read)' /\ Heard(v, read)'
    BY <2>1, <2>2 DEF Unmoved, ReadSoFar, Waiting, Heard
  <2> QED BY <2>3 DEF EchoInv
<1> QED BY <1>1 DEF WsInv

(* What a connection's state becomes, with no message read.                *)
LEMMA WsQuiet ==
    ASSUME WsTypes, WsTypes', NEW w \in Sockets, NEW read \in Nat,
           ReadSoFar(w, read), Waiting(w, read), Heard(w, read),
           said'[w] = said[w], data'[w] = data[w], heard'[w] = heard[w],
           \/ /\ peer'[w] = peer[w] /\ inbox'[w] = inbox[w]
              /\ <<pc[w], pc'[w]>> \in {<<"accepting", "routing">>, <<"routing", "writing">>}
              /\ end'[w] = end[w]
           \/ /\ peer'[w] = peer[w] /\ inbox'[w] = inbox[w]
              /\ pc'[w] = "ended" /\ end'[w] # "closed"
           \/ /\ pc'[w] = pc[w] /\ end'[w] = end[w]
              /\ \/ peer'[w] = "gone" /\ inbox'[w] = inbox[w] /\ peer[w] # "reset"
                 \/ peer'[w] = "reset" /\ inbox'[w] = <<>>
    PROVE  EchoInv(w)'
<1>1. ReadSoFar(w, read)'
  BY DEF ReadSoFar
<1>2. Waiting(w, read)'
  BY DEF Waiting
<1>3. Heard(w, read)'
  BY DEF Heard, ReadSoFar, WsTypes
<1> QED BY <1>1, <1>2, <1>3 DEF EchoInv

LEMMA WsSilent ==
    ASSUME WsInv, NEW w \in Sockets,
           \/ Ws!Vanish(w) \/ Ws!Reset(w)
           \/ Ws!OnAccept(w) \/ Ws!OnAcceptError(w) \/ Ws!NotFound(w) \/ Ws!Echo(w)
           \/ Ws!WriteFails(w) \/ Ws!ReadFails(w)
    PROVE  WsInv'
<1> USE DEF Ws!Goes, Ws!Ends, Ws!peerVars
<1>0. WsTypes /\ <<>> \in Seq(Ws!Frames)
  BY DEF WsInv
<1>1. ASSUME Ws!Vanish(w) \/ Ws!Reset(w)
      PROVE  /\ WsTypes' /\ UNCHANGED <<asks, said, heard, pc, data, end>>
             /\ \/ peer'[w] = "gone" /\ inbox'[w] = inbox[w] /\ peer[w] # "reset"
                \/ peer'[w] = "reset" /\ inbox'[w] = <<>>
             /\ \A v \in Sockets \ {w} : peer'[v] = peer[v] /\ inbox'[v] = inbox[v]
  <2>1. CASE Ws!Vanish(w)
    BY <1>0, <2>1 DEF WsTypes, Ws!Vanish
  <2>2. CASE Ws!Reset(w)
    BY <1>0, <2>2 DEF WsTypes, Ws!Reset
  <2> QED BY <1>1, <2>1, <2>2
<1>2. ASSUME Ws!OnAccept(w) \/ Ws!Echo(w)
      PROVE  /\ WsTypes' /\ UNCHANGED <<asks, peer, said, inbox, heard, data, end>>
             /\ <<pc[w], pc'[w]>> \in {<<"accepting", "routing">>, <<"routing", "writing">>}
             /\ \A v \in Sockets \ {w} : pc'[v] = pc[v]
  BY <1>0, <1>2 DEF WsTypes, Ws!OnAccept, Ws!Echo
<1>3. ASSUME Ws!OnAcceptError(w) \/ Ws!NotFound(w) \/ Ws!WriteFails(w) \/ Ws!ReadFails(w)
      PROVE  /\ WsTypes' /\ UNCHANGED <<asks, peer, said, inbox, heard, data>>
             /\ pc'[w] = "ended" /\ end'[w] # "closed"
             /\ \A v \in Sockets \ {w} : pc'[v] = pc[v] /\ end'[v] = end[v]
  <2>1. PICK how \in {"refused", "dropped", "failed"} :
           /\ pc' = [pc EXCEPT ![w] = "ended"] /\ end' = [end EXCEPT ![w] = how]
           /\ UNCHANGED <<asks, peer, said, inbox, heard, data>>
    BY <1>3 DEF Ws!OnAcceptError, Ws!NotFound, Ws!WriteFails, Ws!ReadFails
  <2> QED BY <1>0, <2>1 DEF WsTypes
<1>4. PICK read \in Nat : ReadSoFar(w, read) /\ Waiting(w, read) /\ Heard(w, read)
  BY DEF WsInv, EchoInv
<1>5. WsTypes' /\ EchoInv(w)' /\ \A v \in Sockets \ {w} : Unmoved(v)
  BY <1>0, <1>1, <1>2, <1>3, <1>4, WsQuiet DEF Unmoved
<1> QED BY <1>5, WsOthers

LEMMA WsSay == ASSUME WsInv, NEW w \in Sockets, NEW m \in Messages, Ws!Say(w, m) PROVE WsInv'
<1>0. WsTypes /\ peer[w] = "open" /\ pc[w] # "accepting" /\ Len(said[w]) < MaxMessages
  BY DEF WsInv, Ws!Say
<1>1. /\ said' = [said EXCEPT ![w] = Append(said[w], m)]
      /\ inbox' = [inbox EXCEPT ![w] = Append(inbox[w], m)]
      /\ UNCHANGED <<asks, peer, heard, pc, data, end>>
  BY DEF Ws!Say
<1>2. said[w] \in Seq(Messages) /\ inbox[w] \in Seq(Ws!Frames) /\ m \in Ws!Frames
  BY <1>0 DEF WsTypes, Ws!Frames
<1>3. /\ said'[w] \in Seq(Messages) /\ inbox'[w] \in Seq(Ws!Frames)
      /\ Len(said'[w]) = Len(said[w]) + 1 /\ Len(inbox'[w]) = Len(inbox[w]) + 1
      /\ \A i \in 1..Len(said[w]) : said'[w][i] = said[w][i]
      /\ \A i \in 1..Len(inbox[w]) : inbox'[w][i] = inbox[w][i]
      /\ said'[w][Len(said[w]) + 1] = m /\ inbox'[w][Len(inbox[w]) + 1] = m
  BY <1>0, <1>1, <1>2 DEF WsTypes
<1>4. WsTypes'
  BY <1>0, <1>1, <1>3, MessageAssumption DEF WsTypes
<1>5. PICK read \in Nat : ReadSoFar(w, read) /\ Waiting(w, read) /\ Heard(w, read)
  BY DEF WsInv, EchoInv
<1>6. ReadSoFar(w, read)'
  BY <1>0, <1>1, <1>2, <1>3, <1>5 DEF ReadSoFar
<1>7. Waiting(w, read)'
  <2>1. Len(inbox[w]) \in Nat /\ Len(said[w]) \in Nat /\ read <= Len(said[w])
    BY <1>2, <1>5 DEF ReadSoFar
  <2>2. Len(inbox'[w]) = Len(said'[w]) - read
    <3>1. \A a, b, c, d, r \in Int : a = b - r /\ c = a + 1 /\ d = b + 1 => c = d - r
      OBVIOUS
    <3>2. Len(inbox[w]) = Len(said[w]) - read
      BY <1>0, <1>5 DEF Waiting
    <3> QED BY <1>3, <2>1, <3>1, <3>2
  <2>3. \A i \in 1..Len(inbox[w]) : inbox[w][i] = said[w][read + i]
    BY <1>0, <1>5, <2>1 DEF Waiting
  <2>4. \A i \in 1..Len(inbox'[w]) : inbox'[w][i] = said'[w][read + i]
    <3> TAKE i \in 1..Len(inbox'[w])
    <3>1. CASE i = Len(inbox[w]) + 1
      <4>1. read + i = Len(said[w]) + 1
        <5>1. \A a, b, r, j \in Int : a = b - r /\ j = a + 1 => r + j = b + 1
          OBVIOUS
        <5>2. Len(inbox[w]) = Len(said[w]) - read
          BY <1>0, <1>5 DEF Waiting
        <5> QED BY <2>1, <3>1, <5>1, <5>2
      <4> QED BY <1>3, <3>1, <4>1
    <3>2. CASE i \in 1..Len(inbox[w])
      <4>1. read + i \in 1..Len(said[w])
        BY <1>3, <2>1, <2>2, <3>2, SMTT(30)
      <4> QED BY <1>3, <2>3, <3>2, <4>1
    <3> QED BY <1>3, <2>1, <3>1, <3>2
  <2>5. Len(inbox'[w]) - (Len(said'[w]) - read) = 0 /\ peer'[w] = "open"
    BY <1>0, <1>1, <1>3, <2>1, <2>2
  <2>6. \A i \in 1..Len(inbox'[w]) : i <= Len(said'[w]) - read
    BY <2>2
  <2> QED BY <2>2, <2>4, <2>5, <2>6 DEF Waiting
<1>8. Heard(w, read)'
  <2>1. \A i \in 1..Len(heard[w]) : i # 1 => i - 1 \in 1..Len(said[w])
    BY <1>2, <1>5 DEF Heard, ReadSoFar
  <2> QED BY <1>0, <1>1, <1>2, <1>3, <1>5, <2>1 DEF Heard
<1>9. \A v \in Sockets \ {w} : Unmoved(v)
  BY <1>0, <1>1 DEF WsTypes, Unmoved
<1>10. EchoInv(w)'
  BY <1>6, <1>7, <1>8 DEF EchoInv
<1> QED BY <1>4, <1>9, <1>10, WsOthers

LEMMA WsSayLast == ASSUME WsInv, NEW w \in Sockets, Ws!SayLast(w) PROVE WsInv'
<1>0. WsTypes /\ peer[w] = "open" /\ pc[w] # "accepting"
  BY DEF WsInv, Ws!SayLast
<1>1. PICK f \in {"close", "garbage"} :
        /\ inbox' = [inbox EXCEPT ![w] = Append(inbox[w], f)]
        /\ peer' = [peer EXCEPT ![w] = "closed"]
        /\ UNCHANGED <<asks, said, heard, pc, data, end>>
  BY DEF Ws!SayLast
<1>2. inbox[w] \in Seq(Ws!Frames) /\ f \in Ws!Frames /\ said[w] \in Seq(Messages)
  BY <1>0 DEF WsTypes, Ws!Frames
<1>3. /\ inbox'[w] \in Seq(Ws!Frames) /\ Len(inbox'[w]) = Len(inbox[w]) + 1 /\ peer'[w] = "closed"
      /\ \A i \in 1..Len(inbox[w]) : inbox'[w][i] = inbox[w][i]
      /\ inbox'[w][Len(inbox[w]) + 1] = f
  BY <1>0, <1>1, <1>2 DEF WsTypes
<1>4. WsTypes'
  BY <1>0, <1>1, <1>3 DEF WsTypes
<1>5. PICK read \in Nat : ReadSoFar(w, read) /\ Waiting(w, read) /\ Heard(w, read)
  BY DEF WsInv, EchoInv
<1>6. Len(inbox[w]) \in Nat /\ Len(said[w]) \in Nat /\ read <= Len(said[w]) /\ Len(inbox[w]) = Len(said[w]) - read
  BY <1>0, <1>2, <1>5 DEF ReadSoFar, Waiting
<1>7. Waiting(w, read)'
  BY <1>0, <1>1, <1>3, <1>5, <1>6, SMTT(30) DEF Waiting
<1>8. ReadSoFar(w, read)' /\ Heard(w, read)'
  BY <1>0, <1>1, <1>3, <1>5 DEF ReadSoFar, Heard
<1>9. \A v \in Sockets \ {w} : Unmoved(v)
  BY <1>0, <1>1 DEF WsTypes, Unmoved
<1>10. EchoInv(w)'
  BY <1>7, <1>8 DEF EchoInv
<1> QED BY <1>4, <1>9, <1>10, WsOthers

LEMMA WsWrite == ASSUME WsInv, NEW w \in Sockets, Ws!Write(w) PROVE WsInv'
<1>0. WsTypes /\ peer[w] # "reset" /\ pc[w] = "writing"
  BY DEF WsInv, Ws!Write, Ws!Goes
<1>1. /\ pc' = [pc EXCEPT ![w] = "reading"]
      /\ heard' = IF peer[w] = "gone" THEN heard ELSE [heard EXCEPT ![w] = Append(heard[w], data[w])]
      /\ UNCHANGED <<asks, peer, said, inbox, data, end>>
  BY DEF Ws!Write, Ws!Goes, Ws!peerVars
<1>2. heard[w] \in Seq(Messages \cup {Cnt}) /\ data[w] \in Messages \cup {Cnt} /\ said[w] \in Seq(Messages)
  BY <1>0 DEF WsTypes
<1>3. PICK read \in Nat : ReadSoFar(w, read) /\ Waiting(w, read) /\ Heard(w, read)
  BY DEF WsInv, EchoInv
<1>4. pc'[w] = "reading" /\ end[w] = "no"
  BY <1>0, <1>1 DEF WsTypes
<1>5. heard'[w] \in Seq(Messages \cup {Cnt})
  BY <1>0, <1>1, <1>2 DEF WsTypes
<1>6. WsTypes'
  BY <1>0, <1>1, <1>5 DEF WsTypes
<1>7. ReadSoFar(w, read)' /\ Waiting(w, read)'
  BY <1>0, <1>1, <1>3, <1>4 DEF ReadSoFar, Waiting
<1>8. Heard(w, read)'
  <2>1. CASE peer[w] = "gone"
    BY <1>0, <1>1, <1>3, <1>4, <2>1 DEF Heard
  <2>2. CASE peer[w] # "gone"
    <3>1. peer[w] \in {"open", "closed"} /\ Len(heard[w]) = read
      BY <1>0, <1>3, <2>2 DEF WsTypes, Heard
    <3>2. /\ Len(heard'[w]) = read + 1 /\ heard'[w][read + 1] = data[w]
          /\ \A i \in 1..read : heard'[w][i] = heard[w][i]
      <4>1. heard'[w] = Append(heard[w], data[w])
        BY <1>0, <1>1, <2>2 DEF WsTypes
      <4> QED BY <1>2, <3>1, <4>1
    <3>3. heard'[w][read + 1] = IF read + 1 = 1 THEN Cnt ELSE said[w][(read + 1) - 1]
      BY <1>3, <3>2 DEF ReadSoFar
    <3>4. \A i \in 1..(read + 1) : heard'[w][i] = IF i = 1 THEN Cnt ELSE said[w][i - 1]
      BY <1>3, <3>1, <3>2, <3>3, SMTT(30) DEF Heard
    <3> QED BY <1>0, <1>1, <1>3, <1>4, <1>5, <3>1, <3>2, <3>4 DEF Heard
  <2> QED BY <2>1, <2>2
<1>9. \A v \in Sockets \ {w} : Unmoved(v)
  BY <1>0, <1>1 DEF WsTypes, Unmoved
<1>10. EchoInv(w)'
  BY <1>7, <1>8 DEF EchoInv
<1> QED BY <1>6, <1>9, <1>10, WsOthers

LEMMA WsRead == ASSUME WsInv, NEW w \in Sockets, Ws!Read(w) PROVE WsInv'
<1>0. WsTypes /\ pc[w] = "reading" /\ inbox[w] # <<>> /\ Head(inbox[w]) \in Messages
  BY DEF WsInv, Ws!Read, Ws!Goes
<1>1. /\ pc' = [pc EXCEPT ![w] = "writing"] /\ data' = [data EXCEPT ![w] = Head(inbox[w])]
      /\ inbox' = [inbox EXCEPT ![w] = Tail(inbox[w])]
      /\ UNCHANGED <<asks, peer, said, heard, end>>
  BY DEF Ws!Read, Ws!Goes
<1>2. inbox[w] \in Seq(Ws!Frames) /\ said[w] \in Seq(Messages) /\ heard[w] \in Seq(Messages \cup {Cnt})
  BY <1>0 DEF WsTypes
<1>3. PICK read \in Nat : ReadSoFar(w, read) /\ Waiting(w, read) /\ Heard(w, read)
  BY DEF WsInv, EchoInv
<1>4. /\ pc'[w] = "writing" /\ data'[w] = inbox[w][1]
      /\ inbox'[w] \in Seq(Ws!Frames) /\ Len(inbox'[w]) = Len(inbox[w]) - 1 /\ Len(inbox[w]) \in Nat \ {0}
      /\ \A i \in 1..Len(inbox'[w]) : inbox'[w][i] = inbox[w][i + 1]
  BY <1>0, <1>1, <1>2 DEF WsTypes
<1>5. WsTypes'
  BY <1>0, <1>1, <1>4 DEF WsTypes
<1>6. peer[w] # "reset"
  BY <1>0, <1>3 DEF Waiting
<1>7. read + 1 <= Len(said[w]) /\ inbox[w][1] = said[w][read + 1] /\ Len(said[w]) \in Nat
  <2>1. Len(said[w]) \in Nat /\ read <= Len(said[w]) /\ Head(inbox[w]) = inbox[w][1]
    BY <1>0, <1>2, <1>3 DEF ReadSoFar
  <2>2. inbox[w][1] \notin {"close", "garbage"}
    BY <1>0, <2>1, MessageAssumption
  <2>3. Len(inbox[w]) \in Nat \ {0} /\ 1 \in 1..Len(inbox[w])
    BY <1>4
  <2>4. 1 <= Len(said[w]) - read /\ inbox[w][1] = said[w][read + 1]
    BY <1>3, <1>6, <2>2, <2>3 DEF Waiting
  <2> QED BY <1>3, <2>1, <2>4
<1>8. ReadSoFar(w, read + 1)'
  BY <1>0, <1>1, <1>3, <1>4, <1>7 DEF ReadSoFar
<1>9. Waiting(w, read + 1)'
  <2>1. \A i \in 1..Len(inbox'[w]) : i + 1 \in 1..Len(inbox[w]) /\ inbox'[w][i] = inbox[w][i + 1]
    <3>1. \A n \in Nat \ {0} : \A i \in 1..(n - 1) : i + 1 \in 1..n
      OBVIOUS
    <3> QED BY <1>4, <3>1
  <2>2. \A i \in 1..Len(inbox'[w]) :
           IF i <= Len(said[w]) - (read + 1) THEN inbox'[w][i] = said[w][(read + 1) + i]
                                             ELSE inbox'[w][i] \in {"close", "garbage"}
    <3> TAKE i \in 1..Len(inbox'[w])
    <3>1. IF i + 1 <= Len(said[w]) - read THEN inbox[w][i + 1] = said[w][read + (i + 1)]
                                          ELSE inbox[w][i + 1] \in {"close", "garbage"}
      BY <1>3, <1>6, <2>1 DEF Waiting
    <3>2. read + (i + 1) = (read + 1) + i /\ (i + 1 <= Len(said[w]) - read <=> i <= Len(said[w]) - (read + 1))
      <4>1. \A j, r, n \in Int : r + (j + 1) = (r + 1) + j /\ (j + 1 <= n - r <=> j <= n - (r + 1))
        OBVIOUS
      <4> QED BY <1>7, <4>1
    <3> QED BY <2>1, <3>1, <3>2
  <2>3. Len(inbox'[w]) - (Len(said[w]) - (read + 1)) = Len(inbox[w]) - (Len(said[w]) - read)
    BY <1>4, <1>7
  <2>4. peer[w] = "open" => Len(inbox'[w]) = Len(said[w]) - (read + 1)
    BY <1>3, <1>4, <1>7 DEF Waiting
  <2> QED BY <1>1, <1>3, <1>6, <2>2, <2>3, <2>4 DEF Waiting
<1>10. Heard(w, read + 1)'
  BY <1>0, <1>1, <1>2, <1>3, <1>4 DEF Heard, WsTypes
<1>11. \A v \in Sockets \ {w} : Unmoved(v)
  BY <1>0, <1>1 DEF WsTypes, Unmoved
<1>12. EchoInv(w)'
  <2>1. read + 1 \in Nat
    OBVIOUS
  <2> QED BY <1>8, <1>9, <1>10, <2>1 DEF EchoInv
<1> QED BY <1>5, <1>11, <1>12, WsOthers

LEMMA WsReadClosed == ASSUME WsInv, NEW w \in Sockets, Ws!ReadClosed(w) PROVE WsInv'
<1>0. WsTypes /\ pc[w] = "reading" /\ inbox[w] # <<>> /\ Head(inbox[w]) = "close"
  BY DEF WsInv, Ws!ReadClosed, Ws!Ends, Ws!Goes
<1>1. /\ pc' = [pc EXCEPT ![w] = "ended"] /\ end' = [end EXCEPT ![w] = "closed"]
      /\ UNCHANGED <<asks, peer, said, inbox, heard, data>>
  BY DEF Ws!ReadClosed, Ws!Ends, Ws!Goes, Ws!peerVars
<1>2. WsTypes' /\ pc'[w] = "ended" /\ end'[w] = "closed"
  BY <1>0, <1>1 DEF WsTypes
<1>3. PICK read \in Nat : ReadSoFar(w, read) /\ Waiting(w, read) /\ Heard(w, read)
  BY DEF WsInv, EchoInv
<1>4. inbox[w] \in Seq(Ws!Frames) /\ said[w] \in Seq(Messages) /\ peer[w] # "reset"
  BY <1>0, <1>3 DEF WsTypes, Waiting
<1>5. inbox[w][1] = "close" /\ Len(inbox[w]) \in Nat \ {0} /\ Len(said[w]) \in Nat /\ read <= Len(said[w])
  BY <1>0, <1>3, <1>4 DEF ReadSoFar
<1>6. read = Len(said[w])
  <2> SUFFICES ASSUME read < Len(said[w]) PROVE FALSE
    BY <1>5
  <2>1. inbox[w][1] = said[w][read + 1]
    BY <1>3, <1>4, <1>5 DEF Waiting
  <2>2. said[w][read + 1] \in Messages
    BY <1>4, <1>5
  <2> QED BY <1>5, <2>1, <2>2, MessageAssumption
<1>7. peer[w] # "open"
  BY <1>3, <1>5, <1>6 DEF Waiting
<1>8. ReadSoFar(w, read)' /\ Waiting(w, read)' /\ Heard(w, read)'
  BY <1>0, <1>1, <1>2, <1>3, <1>6, <1>7 DEF ReadSoFar, Waiting, Heard
<1>9. \A v \in Sockets \ {w} : Unmoved(v)
  BY <1>0, <1>1 DEF WsTypes, Unmoved
<1>10. EchoInv(w)'
  BY <1>8 DEF EchoInv
<1> QED BY <1>2, <1>9, <1>10, WsOthers

(* Every peer hears the cnt and then what it said, in order and nothing    *)
(* twice, and all of it before the session ends with its close frame       *)
(* (ws_echo), however many peers there are and however much they say       *)
(* before they listen.                                                     *)
THEOREM EchoesStayInOrder == Ws!Spec => []EchoesInOrder
<1>1. WsInv /\ [Ws!Next]_(Ws!vars) => WsInv'
  <2> SUFFICES ASSUME WsInv, [Ws!Next]_(Ws!vars) PROVE WsInv'
    OBVIOUS
  <2>1. ASSUME NEW w \in Sockets, Ws!Peer(w) PROVE WsInv'
    BY <2>1, WsSay, WsSayLast, WsSilent DEF Ws!Peer
  <2>2. ASSUME NEW w \in Sockets, Ws!Session(w) PROVE WsInv'
    BY <2>2, WsSilent, WsWrite, WsRead, WsReadClosed DEF Ws!Session
  <2>3. CASE UNCHANGED Ws!vars
    <3>1. UNCHANGED <<asks, peer, said, inbox, heard, data, pc, end>>
      BY <2>3 DEF Ws!vars, Ws!peerVars
    <3>2. WsTypes'
      BY <3>1 DEF WsInv, WsTypes
    <3>3. ASSUME NEW w \in Sockets PROVE EchoInv(w)'
      BY <3>1 DEF WsInv, EchoInv, ReadSoFar, Waiting, Heard
    <3> QED BY <3>2, <3>3 DEF WsInv
  <2> QED BY <2>1, <2>2, <2>3 DEF Ws!Next
<1>2. WsInv => EchoesInOrder
  <2> SUFFICES ASSUME WsInv, NEW w \in Sockets
               PROVE  /\ said[w] \in Seq(Messages) /\ inbox[w] \in Seq(Ws!Frames)
                      /\ Len(heard[w]) <= Len(said[w]) + 1
                      /\ Len(heard[w]) <= Len(<<Cnt>> \o said[w])
                      /\ heard[w] = SubSeq(<<Cnt>> \o said[w], 1, Len(heard[w]))
                      /\ end[w] = "closed" /\ peer[w] = "closed" => heard[w] = <<Cnt>> \o said[w]
    BY DEF EchoesInOrder, Ws!TypeOK, Ws!EchoesInOrder, Ws!EverythingEchoedBeforeClose, WsInv, WsTypes
  <2>1. PICK read \in Nat : ReadSoFar(w, read) /\ Waiting(w, read) /\ Heard(w, read)
    BY DEF WsInv, EchoInv
  <2>2. /\ said[w] \in Seq(Messages) /\ inbox[w] \in Seq(Ws!Frames)
        /\ heard[w] \in Seq(Messages \cup {Cnt}) /\ Len(said[w]) \in Nat /\ Len(heard[w]) \in Nat
    BY DEF WsInv, WsTypes
  <2>3. Len(heard[w]) <= Len(said[w]) + 1
    BY <2>1, <2>2 DEF ReadSoFar, Heard
  <2> DEFINE t == <<Cnt>> \o said[w]
  <2>4. /\ t \in Seq(Messages \cup {Cnt}) /\ Len(t) = Len(said[w]) + 1
        /\ \A i \in 1..Len(t) : t[i] = IF i = 1 THEN Cnt ELSE said[w][i - 1]
    BY <2>2
  <2>5. \A i \in 1..Len(heard[w]) : heard[w][i] = t[i]
    BY <2>1, <2>2, <2>3, <2>4 DEF Heard
  <2> HIDE DEF t
  <2>6. SubSeq(heard[w], 1, Len(heard[w])) = SubSeq(t, 1, Len(heard[w]))
    BY <2>2, <2>3, <2>4, <2>5
  <2>7. Len(heard[w]) <= Len(t) /\ heard[w] = SubSeq(t, 1, Len(heard[w]))
    BY <2>2, <2>3, <2>4, <2>6
  <2>8. Len(heard[w]) = Len(t) => heard[w] = t
    BY <2>2, <2>4, <2>5, SeqEqual
  <2> QED BY <2>1, <2>2, <2>3, <2>4, <2>7, <2>8 DEF Heard, t
<1> QED BY WsInit, <1>1, <1>2, PTL DEF Ws!Spec

-----------------------------------------------------------------------------
(* The router. *)

LEMMA Prepended ==
    ASSUME NEW S, NEW s \in Seq(S), NEW a
    PROVE  /\ <<a>> \o s \in Seq(S \cup {a}) /\ Len(<<a>> \o s) = Len(s) + 1
           /\ (<<a>> \o s)[1] = a
           /\ \A i \in 1..Len(s) : (<<a>> \o s)[i + 1] = s[i]
<1>1. <<a>> \in Seq(S \cup {a}) /\ s \in Seq(S \cup {a})
  BY SeqMonotonic
<1> QED BY <1>1

Acquirable == {"session", "db", "client", "websocket"}
Kinds == {"request", "response", "json", "db", "session", "client", "websocket", "value", "_1"}

(* What a parameter becomes.                                               *)
ArgumentOf(p, a) ==
    CASE p = "json" -> /\ DOMAIN a.json = query \cup (IF Rt!Ignored THEN {} ELSE body.keys)
                       /\ \A k \in DOMAIN a.json : a.json[k] = "query" <=> Rt!Ignored \/ k \notin body.keys
      [] p = "_1" -> a.group # <<>> /\ Routes[route].prefix \o a.group = url
      [] p \in Acquirable -> a.kind = p /\ a.object = objects[p] /\ objects[p] # 0
      [] OTHER -> a.kind = p

(* The last parameters have been evaluated, from the one at Behind on; what *)
(* was acquired is what they need.                                         *)
Behind == Len(Rt!Params) - Len(args) + 1
Evaluated ==
    /\ route \in DOMAIN Routes /\ Rt!match(Routes[route], url)
    /\ \E S : args \in Seq(S)
    /\ Len(args) <= Len(Rt!Params)
    /\ \A i \in 1..Len(args) : ArgumentOf(Rt!Params[Len(Rt!Params) - Len(args) + i], args[i])
    /\ \A i \in Behind..Len(Rt!Params) : ~Rt!Unparsable(Rt!Params[i])
    /\ \A p \in Acquirable : (objects[p] # 0) <=> \E i \in Behind..Len(Rt!Params) : Rt!Params[i] = p

Acquired ==
    /\ acquired \in Seq(Acquirable)
    /\ objects \in [Acquirable -> 0..Len(acquired)]
    /\ \A p \in Acquirable : objects[p] # 0 => acquired[objects[p]] = p
    /\ \A j \in 1..Len(acquired) : objects[acquired[j]] = j

\* The status of a request whose parameter p fails.
Refusal(p) == IF p = "json" /\ body.media = "json" /\ body.keys = Rt!Broken THEN "400" ELSE "500"

RtInv ==
    /\ url \in Seq(Tokens) /\ cookie \in {"fine", "broken"}
    /\ Acquired
    /\ stage = "new" => args = <<>> /\ acquired = <<>>
    /\ stage \in {"evaluating", "called", "400", "500"} => Evaluated
    /\ stage = "called" => Len(args) = Len(Rt!Params)
    /\ stage \in {"400", "500"} =>
         /\ Len(args) < Len(Rt!Params) /\ Rt!Unparsable(Rt!Params[Len(Rt!Params) - Len(args)])
         /\ stage = Refusal(Rt!Params[Len(Rt!Params) - Len(args)])

LEMMA AboutRoutes ==
    ASSUME NEW n \in DOMAIN Routes
    PROVE  /\ n \in Nat /\ Routes[n].params \in Seq(Kinds) /\ Routes[n].prefix \in Seq(STRING)
           /\ Len(Routes[n].params) \in Nat
           /\ Routes[n].group \in {"none", "int", "str", "path"}
           /\ \A i \in 1..Len(Routes[n].params) :
                 Routes[n].params[i] \in Kinds /\ (Routes[n].params[i] = "_1" => Routes[n].group # "none")
<1> DEFINE K == {"request", "response", "json", "db", "session", "client", "websocket", "value", "_1"}
           G == {"none", "int", "str", "path"}
           S == Seq(STRING)
           P == Seq(K)
<1>0. K = Kinds
  BY DEF Kinds
<1> HIDE DEF K, G, S, P
<1>1. Routes \in Seq([prefix : S, group : G, params : P])
  BY RouteAssumption DEF K, G, S, P
<1> DEFINE R == [prefix : S, group : G, params : P]
<1>a. Routes \in Seq(R)
  BY <1>1
<1> HIDE DEF R
<1>b. n \in 1..Len(Routes) /\ Len(Routes) \in Nat
  BY <1>a
<1>2. n \in Nat /\ Routes[n] \in R
  BY <1>a, <1>b
<1>3. Routes[n].params \in P /\ Routes[n].group \in G /\ Routes[n].prefix \in S
  BY <1>2 DEF R
<1>4. Routes[n].params \in Seq(Kinds)
  BY <1>0, <1>3 DEF P
<1>5. \A i \in 1..Len(Routes[n].params) : Routes[n].params[i] \in Kinds
  BY <1>4
<1>6. \A i \in DOMAIN Routes[n].params : Routes[n].params[i] = "_1" => Routes[n].group # "none"
  BY RouteAssumption
<1> QED BY <1>2, <1>3, <1>4, <1>5, <1>6 DEF G, S

LEMMA RtInit == Rt!Init => RtInv
<1> SUFFICES ASSUME Rt!Init PROVE RtInv
  OBVIOUS
<1>1. url \in Seq(Tokens) /\ cookie \in {"fine", "broken"}
  BY DEF Rt!Init
<1>2. stage = "new" /\ args = <<>> /\ acquired = <<>> /\ objects = [session |-> 0, db |-> 0, client |-> 0, websocket |-> 0]
  BY DEF Rt!Init
<1>3. acquired \in Seq(Acquirable) /\ objects \in [Acquirable -> 0..Len(acquired)]
  BY <1>2 DEF Acquirable
<1>4. \A p \in Acquirable : objects[p] = 0
  BY <1>2 DEF Acquirable
<1> QED BY <1>1, <1>2, <1>3, <1>4 DEF RtInv, Acquired

LEMMA RtDispatch == RtInv /\ Rt!Dispatch => RtInv'
<1> SUFFICES ASSUME RtInv, Rt!Dispatch PROVE RtInv'
  OBVIOUS
<1>0. stage = "new" /\ args = <<>> /\ acquired = <<>> /\ UNCHANGED <<url, body, query, cookie, args, objects, acquired>>
  BY DEF RtInv, Rt!Dispatch
<1>1. CASE Rt!Matching = {}
  <2>1. stage' = "404"
    BY <1>1 DEF Rt!Dispatch
  <2> QED BY <1>0, <2>1 DEF RtInv, Acquired
<1>2. CASE Rt!Matching # {}
  <2>1. stage' = "evaluating" /\ route' = CHOOSE n \in Rt!Matching : \A m \in Rt!Matching : n <= m
    BY <1>2 DEF Rt!Dispatch
  <2>2. Rt!Matching \in SUBSET Nat
    BY RouteAssumption DEF Rt!Matching
  <2>3. \E n \in Rt!Matching : \A m \in Rt!Matching : n <= m
    BY <1>2, <2>2, LeastOf
  <2>4. route' \in Rt!Matching
    BY <2>1, <2>3
  <2>5. route' \in DOMAIN Routes /\ Rt!match(Routes[route'], url)
    BY <2>4 DEF Rt!Matching
  <2>6. Routes[route'].params \in Seq(Kinds)
    BY <2>5, AboutRoutes
  <2>7. /\ Len(args') = 0 /\ args' \in Seq({}) /\ Len(Rt!Params') \in Nat
        /\ Behind' = Len(Rt!Params') + 1
    BY <1>0, <2>6 DEF Behind, Rt!Params
  <2>8. \A p \in Acquirable : objects[p] = 0
    BY <1>0 DEF RtInv, Acquired
  <2>9. Evaluated'
    BY <1>0, <2>5, <2>7, <2>8 DEF Evaluated
  <2> QED BY <1>0, <2>1, <2>9 DEF RtInv, Acquired
<1> QED BY <1>1, <1>2
(* One parameter more has been evaluated, to an argument of its kind.       *)
LEMMA RtStep ==
    ASSUME RtInv, NEW p \in Kinds, Rt!Evaluating(p), ~Rt!Unparsable(p), NEW a, args' = <<a>> \o args,
           UNCHANGED <<url, body, query, cookie, stage, route>>, Acquired',
           ArgumentOf(p, a)',
           \A k \in Acquirable : objects'[k] = objects[k] \/ (k = p /\ objects[k] = 0),
           p \in Acquirable => objects'[p] # 0
    PROVE  RtInv'
<1> DEFINE n == Len(Rt!Params) - Len(args)
<1>1. /\ stage = "evaluating" /\ Evaluated /\ Len(args) < Len(Rt!Params) /\ Rt!Params[n] = p
      /\ Rt!Params' = Rt!Params /\ Len(Rt!Params) \in Nat
  BY AboutRoutes DEF RtInv, Rt!Evaluating, Evaluated, Rt!Params
<1>2. PICK S : args \in Seq(S)
  BY <1>1 DEF Evaluated
<1>3. /\ args' \in Seq(S \cup {a}) /\ Len(args') = Len(args) + 1 /\ Len(args) \in Nat
      /\ args'[1] = a /\ \A i \in 1..Len(args) : args'[i + 1] = args[i]
  BY <1>2, Prepended
<1>4. n \in 1..Len(Rt!Params) /\ Behind = n + 1 /\ Behind' = n /\ Len(args') <= Len(Rt!Params')
  BY <1>1, <1>3 DEF Behind
<1>5. ASSUME NEW q, NEW b, ArgumentOf(q, b), q \in Acquirable => objects'[q] = objects[q]
      PROVE  ArgumentOf(q, b)'
  BY <1>5 DEF ArgumentOf, Rt!Ignored
<1>6. ASSUME NEW i \in 1..Len(args') PROVE ArgumentOf(Rt!Params[Len(Rt!Params) - Len(args) + i], args[i])'
  <2>0. CASE i = 1
    <3>1. Len(Rt!Params') - Len(args') + i = n /\ args'[i] = a
      BY <1>1, <1>3, <2>0
    <3> QED BY <1>1, <3>1
  <2>1. CASE i # 1
    <3>1. PICK j \in 1..Len(args) : i = j + 1
      <4>1. i - 1 \in 1..Len(args) /\ i = (i - 1) + 1
        BY <1>3, <2>1
      <4> QED BY <4>1
    <3>2. args'[i] = args[j] /\ Len(Rt!Params') - Len(args') + i = n + j
      BY <1>1, <1>3, <3>1
    <3>3. n + j \in 1..Len(Rt!Params) /\ n + j >= Behind
      BY <1>1, <1>3, <1>4, <3>1
    <3>4. PICK q, b : q \in Kinds /\ q = Rt!Params[n + j] /\ b = args[j]
      BY <1>1, <3>3, AboutRoutes DEF Evaluated, Rt!Params
    <3>5. ArgumentOf(q, b)
      BY <1>1, <3>4, <3>1 DEF Evaluated
    <3>6. q \in Acquirable => objects'[q] = objects[q]
      <4>1. n + j \in Behind..Len(Rt!Params)
        BY <1>1, <1>4, <3>3
      <4>2. q \in Acquirable => objects[q] # 0
        BY <1>1, <3>4, <4>1 DEF Evaluated
      <4> QED BY <4>2
    <3>7. ArgumentOf(q, b)'
      BY <1>5, <3>5, <3>6
    <3> QED BY <1>1, <3>2, <3>4, <3>7
  <2> QED BY <2>0, <2>1
<1>7. ASSUME NEW k \in Acquirable
      PROVE  objects'[k] # 0 <=> \E i \in Behind'..Len(Rt!Params') : Rt!Params'[i] = k
  <2>1. objects[k] # 0 <=> \E i \in Behind..Len(Rt!Params) : Rt!Params[i] = k
    BY <1>1 DEF Evaluated
  <2>2. (\E i \in n..Len(Rt!Params) : Rt!Params[i] = k) <=> k = p \/ \E i \in (n + 1)..Len(Rt!Params) : Rt!Params[i] = k
    <3>1. \A m, l \in Int : m <= l => \A i : i \in m..l <=> i = m \/ i \in (m + 1)..l
      OBVIOUS
    <3>2. \A i : i \in n..Len(Rt!Params) <=> i = n \/ i \in (n + 1)..Len(Rt!Params)
      <4>1. n \in Int /\ Len(Rt!Params) \in Int /\ n <= Len(Rt!Params)
        BY <1>1, <1>4
      <4> HIDE DEF n
      <4> QED BY <3>1, <4>1
    <3> QED BY <1>1, <3>2
  <2>3. k # p => objects'[k] = objects[k]
    OBVIOUS
  <2>4. CASE k = p
    <3>1. objects'[k] # 0
      BY <2>4
    <3> QED BY <1>1, <1>4, <2>2, <2>4, <3>1
  <2>5. CASE k # p
    <3>1. objects'[k] # 0 <=> \E i \in (n + 1)..Len(Rt!Params) : Rt!Params[i] = k
      BY <1>4, <2>1, <2>3, <2>5
    <3> QED BY <1>1, <1>4, <2>2, <2>5, <3>1
  <2> QED BY <2>4, <2>5
<1>8. route' \in DOMAIN Routes /\ Rt!match(Routes[route'], url')
  BY <1>1 DEF Evaluated
<1>10. \A i \in Behind'..Len(Rt!Params') : ~(Rt!Unparsable(Rt!Params[i])')
  <2>1. ASSUME NEW q PROVE Rt!Unparsable(q)' <=> Rt!Unparsable(q)
    BY DEF Rt!Unparsable, Rt!Ignored
  <2>2. \A i \in (n + 1)..Len(Rt!Params) : ~Rt!Unparsable(Rt!Params[i])
    BY <1>1, <1>4 DEF Evaluated
  <2>3. \A i \in n..Len(Rt!Params) : i = n \/ i \in (n + 1)..Len(Rt!Params)
    BY <1>1, <1>4
  <2> QED BY <1>1, <1>4, <2>1, <2>2, <2>3
<1>9. Evaluated'
  BY <1>3, <1>4, <1>6, <1>7, <1>8, <1>10 DEF Evaluated
<1> QED BY <1>1, <1>9 DEF RtInv

LEMMA RtJson == RtInv /\ Rt!Json => RtInv'
<1> SUFFICES ASSUME RtInv, Rt!Json PROVE RtInv'
  OBVIOUS
<1>1. /\ Rt!Evaluating("json") /\ (Rt!Ignored \/ body.keys # Rt!Broken)
      /\ UNCHANGED <<url, body, query, cookie, stage, route, objects, acquired>>
  BY DEF Rt!Json
<1> DEFINE a == [json |-> IF Rt!Ignored THEN [k \in query |-> "query"] ELSE Rt!Merged]
<1>2. args' = <<a>> \o args
  BY DEF Rt!Json, Rt!Passes
<1>3. PICK b : b = a
  OBVIOUS
<1>4. ArgumentOf("json", b)
  <2>1. CASE Rt!Ignored
    <3>1. b.json = [k \in query |-> "query"]
      BY <1>3, <2>1
    <3>2. DOMAIN b.json = query \cup (IF Rt!Ignored THEN {} ELSE body.keys)
      BY <2>1, <3>1
    <3>3. \A k \in DOMAIN b.json : b.json[k] = "query" <=> Rt!Ignored \/ k \notin body.keys
      BY <2>1, <3>1
    <3> QED BY <3>2, <3>3 DEF ArgumentOf, Acquirable
  <2>2. CASE ~Rt!Ignored
    <3>1. b.json = Rt!Merged
      BY <1>3, <2>2
    <3>2. DOMAIN Rt!Merged = query \cup body.keys
      BY DEF Rt!Merged
    <3>3. \A k \in DOMAIN Rt!Merged : Rt!Merged[k] = "query" <=> k \notin body.keys
      BY DEF Rt!Merged
    <3>4. DOMAIN b.json = query \cup (IF Rt!Ignored THEN {} ELSE body.keys)
      BY <2>2, <3>1, <3>2
    <3>5. \A k \in DOMAIN b.json : b.json[k] = "query" <=> Rt!Ignored \/ k \notin body.keys
      BY <2>2, <3>1, <3>3
    <3> QED BY <3>4, <3>5 DEF ArgumentOf, Acquirable
  <2> QED BY <2>1, <2>2
<1>5. ArgumentOf("json", b)'
  BY <1>1, <1>4 DEF ArgumentOf, Rt!Ignored
<1>6. Acquired'
  BY <1>1 DEF RtInv, Acquired
<1>7. "json" \in Kinds /\ "json" \notin Acquirable
  BY DEF Kinds, Acquirable
<1>8. ~Rt!Unparsable("json")
  BY DEF Rt!Json, Rt!Unparsable
<1> QED BY <1>1, <1>2, <1>3, <1>5, <1>6, <1>7, <1>8, RtStep

LEMMA RtAcquire == ASSUME NEW p \in Acquirable PROVE RtInv /\ Rt!Acquire(p) => RtInv'
<1> SUFFICES ASSUME RtInv, Rt!Acquire(p) PROVE RtInv'
  OBVIOUS
<1>1. Rt!Evaluating(p) /\ UNCHANGED <<url, body, query, cookie, stage, route>>
  BY DEF Rt!Acquire
<1>0. ~Rt!Unparsable(p)
  <2>1. CASE p # "session"
    BY <2>1 DEF Rt!Unparsable, Acquirable
  <2>2. CASE p = "session" /\ objects[p] = 0
    BY <2>2 DEF Rt!Acquire, Rt!Readable, Rt!Unparsable
  <2>3. CASE p = "session" /\ objects[p] # 0
    BY <1>1, <2>3 DEF RtInv, Evaluated, Rt!Evaluating
  <2> QED BY <2>1, <2>2, <2>3
<1>2. args' = <<[kind |-> p, object |-> objects'[p]]>> \o args
  BY DEF Rt!Acquire, Rt!Passes
<1>3. PICK b : b = [kind |-> p, object |-> objects'[p]]
  OBVIOUS
<1>4. /\ acquired \in Seq(Acquirable) /\ objects \in [Acquirable -> 0..Len(acquired)] /\ Len(acquired) \in Nat
      /\ \A k \in Acquirable : objects[k] # 0 => acquired[objects[k]] = k
      /\ \A j \in 1..Len(acquired) : objects[acquired[j]] = j
  BY DEF RtInv, Acquired
<1>5. CASE objects[p] = 0
  <2> DEFINE n == Len(acquired) + 1
  <2>1. acquired' = Append(acquired, p) /\ objects' = [objects EXCEPT ![p] = Len(acquired')]
    BY <1>5 DEF Rt!Acquire
  <2>2. /\ acquired' \in Seq(Acquirable) /\ Len(acquired') = n /\ acquired'[n] = p
        /\ \A j \in 1..Len(acquired) : acquired'[j] = acquired[j] /\ acquired[j] \in Acquirable
    BY <1>4, <2>1
  <2>3. objects'[p] = n /\ \A k \in Acquirable : k # p => objects'[k] = objects[k]
    BY <1>4, <2>1, <2>2
  <2>4. objects' \in [Acquirable -> 0..n]
    BY <1>4, <2>1, <2>2
  <2>5. ASSUME NEW k \in Acquirable, objects'[k] # 0 PROVE acquired'[objects'[k]] = k
    BY <1>4, <2>2, <2>3, <2>5, SMTT(30)
  <2>6. ASSUME NEW j \in 1..n PROVE objects'[acquired'[j]] = j
    BY <1>4, <1>5, <2>2, <2>3, SMTT(30)
  <2>7. Acquired'
    BY <2>2, <2>4, <2>5, <2>6 DEF Acquired
  <2>8. ArgumentOf(p, b)'
    BY <1>1, <1>3, <1>4, <2>3 DEF ArgumentOf, Acquirable
  <2>9. p \in Kinds /\ \A k \in Acquirable : objects'[k] = objects[k] \/ (k = p /\ objects[k] = 0)
    BY <1>5, <2>3 DEF Kinds, Acquirable
  <2>10. objects'[p] # 0
    BY <1>4, <2>3
  <2> QED BY <1>0, <1>1, <1>2, <1>3, <2>7, <2>8, <2>9, <2>10, RtStep
<1>6. CASE objects[p] # 0
  <2>1. UNCHANGED <<acquired, objects>>
    BY <1>6 DEF Rt!Acquire
  <2>2. Acquired'
    BY <2>1 DEF RtInv, Acquired
  <2>3. ArgumentOf(p, b)'
    BY <1>3, <1>6, <2>1 DEF ArgumentOf, Acquirable
  <2> QED BY <1>0, <1>1, <1>2, <1>3, <1>6, <2>1, <2>2, <2>3, RtStep DEF Kinds, Acquirable
<1> QED BY <1>5, <1>6

LEMMA MatchGives ==
    ASSUME NEW r, NEW u, r.prefix \in Seq(STRING), u \in Seq(Tokens), Rt!match(r, u)
    PROVE  /\ Len(r.prefix) <= Len(u) /\ \A i \in 1..Len(r.prefix) : r.prefix[i] = u[i]
           /\ IF r.group = "none" THEN Len(u) = Len(r.prefix) ELSE Len(u) > Len(r.prefix)
<1> DEFINE n == Len(r.prefix)
<1>1. n \in Nat /\ Len(u) \in Nat /\ n <= Len(u) /\ SubSeq(u, 1, n) = r.prefix
  BY DEF Rt!match
<1>2. \A i \in 1..n : 1 + i - 1 = i /\ i \in 1..(n - 1 + 1)
  BY <1>1
<1>3. \A i \in 1..(n - 1 + 1) : SubSeq(u, 1, n)[i] = u[1 + i - 1]
  <2>1. \A i \in 1..n : u[i] \in Tokens
    BY <1>1
  <2> QED BY <1>1, <2>1, SubSeqProperties
<1>4. \A i \in 1..n : r.prefix[i] = u[i]
  BY <1>1, <1>2, <1>3
<1>5. IF r.group = "none" THEN Len(u) = n ELSE Len(u) > n
  BY DEF Rt!match, Rt!None
<1> QED BY <1>1, <1>4, <1>5

(* The group of a path that matches is the rest of the URL, of one token    *)
(* at least.                                                               *)
LEMMA GroupIsTheRest ==
    ASSUME NEW r, r.prefix \in Seq(STRING), url \in Seq(Tokens), Rt!match(r, url), r.group # "none"
    PROVE  Rt!Group(r, url) # <<>> /\ r.prefix \o Rt!Group(r, url) = url
<1> DEFINE n == Len(r.prefix)
           g == Rt!Group(r, url)
<1>1. n \in Nat /\ Len(url) \in Nat /\ Len(url) > n /\ \A i \in 1..n : r.prefix[i] = url[i]
  BY MatchGives
<1>2. g = SubSeq(url, n + 1, Len(url))
  BY DEF Rt!Group
<1>3. Len(g) = Len(url) - n /\ g \in Seq(Tokens) /\ \A i \in 1..(Len(url) - n) : g[i] = url[n + i]
  <2>1. 1..(Len(url) - n) = 1..(Len(url) - (n + 1) + 1)
    BY <1>1
  <2>2. \A i \in 1..(Len(url) - n) : (n + 1) + i - 1 = n + i
    BY <1>1
  <2>3. \A i \in (n + 1)..Len(url) : i \in 1..Len(url)
    BY <1>1
  <2> HIDE DEF n
  <2> QED BY <1>1, <1>2, <2>1, <2>2, <2>3
<1>4. g # <<>>
  BY <1>1, <1>3
<1>6. r.prefix \o g \in Seq(STRING \cup Tokens) /\ url \in Seq(STRING \cup Tokens)
  <2>1. r.prefix \in Seq(STRING \cup Tokens) /\ g \in Seq(STRING \cup Tokens)
    BY <1>3, SeqMonotonic
  <2> QED BY <2>1, SeqMonotonic, ConcatProperties
<1>7. Len(r.prefix \o g) = Len(url)
  BY <1>1, <1>3
<1>8. ASSUME NEW i \in 1..Len(url) PROVE (r.prefix \o g)[i] = url[i]
  <2>1. CASE i <= n
    BY <1>1, <1>3, <2>1
  <2>2. CASE i > n
    <3>1. i - n \in 1..(Len(url) - n) /\ n + (i - n) = i
      BY <1>1, <2>2
    <3>2. i \in 1..(n + Len(g)) /\ i > n /\ i - n \in 1..Len(g) /\ ~(i <= n)
      BY <1>1, <1>3, <2>2
    <3>3. (r.prefix \o g)[i] = g[i - n]
      BY <3>2
    <3>4. PICK k \in 1..(Len(url) - n) : k = i - n /\ n + k = i
      BY <3>1
    <3>5. g[k] = url[n + k]
      BY <1>3
    <3> QED BY <3>3, <3>4, <3>5
  <2>3. i <= n \/ i > n
    BY <1>1
  <2> QED BY <2>1, <2>2, <2>3
<1>9. r.prefix \o g = url
  BY <1>6, <1>7, <1>8, SeqEqual
<1> QED BY <1>4, <1>9

LEMMA RtGiven == ASSUME NEW p \in {"request", "response", "value", "_1"} PROVE RtInv /\ Rt!Given(p) => RtInv'
<1> SUFFICES ASSUME RtInv, Rt!Given(p) PROVE RtInv'
  OBVIOUS
<1>1. Rt!Evaluating(p) /\ UNCHANGED <<url, body, query, cookie, stage, route, objects, acquired>>
  BY DEF Rt!Given
<1> DEFINE a == IF p = "_1" THEN [group |-> Rt!Group(Routes[route], url)] ELSE [kind |-> p]
<1>2. args' = <<a>> \o args
  BY DEF Rt!Given, Rt!Passes
<1>3. PICK b : b = a
  OBVIOUS
<1>4. p \in Kinds /\ p \notin Acquirable /\ p # "json"
  BY DEF Kinds, Acquirable
<1>5. ArgumentOf(p, b)
  <2>1. CASE p = "_1"
    <3>1. /\ url \in Seq(Tokens) /\ route \in DOMAIN Routes /\ Rt!match(Routes[route], url)
          /\ Len(args) < Len(Rt!Params) /\ Len(args) \in Nat /\ Rt!Params[Len(Rt!Params) - Len(args)] = "_1"
      BY <1>1, <2>1 DEF RtInv, Evaluated, Rt!Evaluating
    <3>2. Len(Rt!Params) - Len(args) \in 1..Len(Rt!Params)
      BY <3>1, AboutRoutes DEF Rt!Params
    <3>3. Routes[route].prefix \in Seq(STRING) /\ Routes[route].group # "none"
      BY <3>1, <3>2, AboutRoutes DEF Rt!Params
    <3>4. PICK r : r = Routes[route]
      OBVIOUS
    <3>5. Rt!Group(r, url) # <<>> /\ r.prefix \o Rt!Group(r, url) = url
      BY <3>1, <3>3, <3>4, GroupIsTheRest
    <3> QED BY <1>3, <2>1, <3>4, <3>5 DEF ArgumentOf, Acquirable
  <2>2. CASE p # "_1"
    BY <1>3, <1>4, <2>2 DEF ArgumentOf
  <2> QED BY <2>1, <2>2
<1>6. ArgumentOf(p, b)'
  BY <1>1, <1>5 DEF ArgumentOf, Rt!Ignored
<1>7. Acquired'
  BY <1>1 DEF RtInv, Acquired
<1>8. ~Rt!Unparsable(p)
  BY DEF Rt!Unparsable
<1> QED BY <1>1, <1>2, <1>3, <1>4, <1>6, <1>7, <1>8, RtStep

(* The stage alone changes: the call, or an error of the parameter.        *)
LEMMA RtStage ==
    ASSUME RtInv, stage = "evaluating", UNCHANGED <<url, body, query, cookie, route, args, objects, acquired>>,
           \/ stage' = "called" /\ Len(args) = Len(Rt!Params)
           \/ \E p : Rt!Evaluating(p) /\ Rt!Unparsable(p) /\ stage' = Refusal(p)
    PROVE  RtInv'
<1>1. Evaluated /\ Acquired
  BY DEF RtInv
<1>2. Acquired'
  BY <1>1 DEF Acquired
<1>3. Evaluated'
  <2>1. Evaluated' <=> Evaluated
    BY DEF Evaluated, ArgumentOf, Rt!Ignored, Behind, Rt!Params, Rt!Unparsable
  <2> QED BY <1>1, <2>1
<1>4. Rt!Params' = Rt!Params
  BY DEF Rt!Params
<1>5. \A q : /\ Rt!Unparsable(q)' <=> Rt!Unparsable(q)
             /\ Refusal(q)' = Refusal(q) /\ Refusal(q) \in {"400", "500"}
  BY DEF Rt!Unparsable, Rt!Ignored, Refusal
<1>6. CASE stage' = "called" /\ Len(args) = Len(Rt!Params)
  BY <1>2, <1>3, <1>4, <1>6 DEF RtInv
<1>7. CASE \E p : Rt!Evaluating(p) /\ Rt!Unparsable(p) /\ stage' = Refusal(p)
  <2>1. PICK p : Rt!Evaluating(p) /\ Rt!Unparsable(p) /\ stage' = Refusal(p)
    BY <1>7
  <2>2. Len(args) < Len(Rt!Params) /\ Rt!Params[Len(Rt!Params) - Len(args)] = p
    BY <2>1 DEF Rt!Evaluating
  <2>3. PICK k : k = Len(Rt!Params) - Len(args)
    OBVIOUS
  <2>4. /\ Len(args') < Len(Rt!Params') /\ Rt!Unparsable(Rt!Params[k])' /\ stage' = (Refusal(Rt!Params[k]))'
        /\ k = Len(Rt!Params') - Len(args')
    BY <1>4, <1>5, <2>1, <2>2, <2>3
  <2>5. stage' \notin {"new", "called"}
    BY <1>5, <2>1
  <2> QED BY <1>2, <1>3, <2>4, <2>5 DEF RtInv
<1> QED BY <1>6, <1>7

LEMMA RtNext == RtInv /\ [Rt!Next]_(Rt!vars) => RtInv'
<1> SUFFICES ASSUME RtInv, [Rt!Next]_(Rt!vars) PROVE RtInv'
  OBVIOUS
<1>1. CASE Rt!Dispatch
  BY <1>1, RtDispatch
<1>2. CASE Rt!JsonFails
  <2>1. /\ Rt!Evaluating("json") /\ Rt!Unparsable("json") /\ stage' = Refusal("json")
        /\ UNCHANGED <<url, body, query, cookie, route, args, objects, acquired>>
    BY <1>2 DEF Rt!JsonFails, Rt!Unparsable, Refusal
  <2>2. stage = "evaluating"
    BY <2>1 DEF Rt!Evaluating
  <2> QED BY <2>1, <2>2, RtStage
<1>8. CASE Rt!SessionFails
  <2>1. /\ Rt!Evaluating("session") /\ stage' = Refusal("session")
        /\ UNCHANGED <<url, body, query, cookie, route, args, objects, acquired>>
    BY <1>8 DEF Rt!SessionFails, Refusal
  <2>2. Rt!Unparsable("session")
    BY <1>8 DEF RtInv, Rt!SessionFails, Rt!Readable, Rt!Unparsable
  <2>3. stage = "evaluating"
    BY <2>1 DEF Rt!Evaluating
  <2> QED BY <2>1, <2>2, <2>3, RtStage
<1>3. CASE Rt!Json
  BY <1>3, RtJson
<1>4. CASE Rt!Call
  BY <1>4, RtStage DEF Rt!Call
<1>5. ASSUME NEW p \in Acquirable, Rt!Acquire(p) PROVE RtInv'
  BY <1>5, RtAcquire
<1>6. ASSUME NEW p \in {"request", "response", "value", "_1"}, Rt!Given(p) PROVE RtInv'
  BY <1>6, RtGiven
<1>7. CASE UNCHANGED Rt!vars
  <2>1. UNCHANGED <<url, body, query, cookie, stage, route, args, objects, acquired>>
    BY <1>7 DEF Rt!vars
  <2>2. RtInv' <=> RtInv
    BY <2>1 DEF RtInv, Acquired, Evaluated, ArgumentOf, Rt!Ignored, Behind, Rt!Params, Rt!Unparsable, Refusal
  <2> QED BY <2>2
<1> QED BY <1>1, <1>2, <1>3, <1>4, <1>5, <1>6, <1>7, <1>8 DEF Rt!Next, Acquirable

(* The parameter that failed is the last that cannot be parsed; what was   *)
(* acquired is what stands behind it.                                      *)
LEMMA AcquiredIsBehind ==
    ASSUME RtInv, stage \in {"400", "500"}
    PROVE  Rt!RefusedWithoutHandler
<1>1. /\ Evaluated /\ Acquired /\ Len(args) < Len(Rt!Params)
      /\ Rt!Unparsable(Rt!Params[Len(Rt!Params) - Len(args)]) /\ stage = Refusal(Rt!Params[Len(Rt!Params) - Len(args)])
      /\ Rt!Params \in Seq(Kinds) /\ Len(args) \in Nat /\ Len(Rt!Params) \in Nat
  BY AboutRoutes DEF RtInv, Evaluated, Rt!Params
<1> DEFINE b == SubSeq(Rt!Params, Behind, Len(Rt!Params))
<1>2. Behind \in Nat /\ Behind >= 1
  BY <1>1 DEF Behind
<1>3. Rt!Range(b) = {Rt!Params[i] : i \in Behind..Len(Rt!Params)}
  <2>1. \A i \in Behind..Len(Rt!Params) : Rt!Params[i] \in Kinds
    BY <1>1, <1>2
  <2>2. /\ DOMAIN b = 1..(Len(Rt!Params) - Behind + 1)
        /\ \A i \in 1..(Len(Rt!Params) - Behind + 1) : b[i] = Rt!Params[Behind + i - 1]
    <3>1. /\ b \in Seq(Kinds) /\ Len(b) = IF Behind <= Len(Rt!Params) THEN Len(Rt!Params) - Behind + 1 ELSE 0
          /\ \A i \in 1..(Len(Rt!Params) - Behind + 1) : b[i] = Rt!Params[Behind + i - 1]
      BY <1>1, <1>2, <2>1, SubSeqProperties
    <3>2. Len(b) = Len(Rt!Params) - Behind + 1
      BY <1>1, <3>1 DEF Behind
    <3> QED BY <3>1, <3>2
  <2>3. ASSUME NEW i \in Behind..Len(Rt!Params) PROVE Rt!Params[i] \in Rt!Range(b)
    <3>1. i - Behind + 1 \in 1..(Len(Rt!Params) - Behind + 1) /\ Behind + (i - Behind + 1) - 1 = i
      BY <1>1, <1>2
    <3> QED BY <2>2, <3>1 DEF Rt!Range
  <2>4. ASSUME NEW k \in Rt!Range(b) PROVE \E i \in Behind..Len(Rt!Params) : Rt!Params[i] = k
    <3>1. PICK j \in 1..(Len(Rt!Params) - Behind + 1) : b[j] = k
      BY <2>2 DEF Rt!Range
    <3>2. Behind + j - 1 \in Behind..Len(Rt!Params)
      BY <1>1, <1>2
    <3> QED BY <2>2, <3>1, <3>2
  <2> QED BY <2>3, <2>4
<1>4. Rt!Range(acquired) = {p \in Acquirable : objects[p] # 0}
  <2>1. /\ acquired \in Seq(Acquirable) /\ objects \in [Acquirable -> 0..Len(acquired)]
        /\ \A p \in Acquirable : objects[p] # 0 => acquired[objects[p]] = p
        /\ \A j \in 1..Len(acquired) : objects[acquired[j]] = j
    BY <1>1 DEF Acquired
  <2> QED BY <2>1 DEF Rt!Range
<1>5. \A p \in Acquirable : objects[p] # 0 <=> \E i \in Behind..Len(Rt!Params) : Rt!Params[i] = p
  BY <1>1 DEF Evaluated
<1>6. DOMAIN objects = Acquirable
  BY <1>1 DEF Acquired
<1>7. Rt!Range(acquired) = Rt!Range(b) \cap DOMAIN objects
  BY <1>3, <1>4, <1>5, <1>6
<1>8. \A p \in Rt!Range(b) : ~Rt!Unparsable(p)
  BY <1>1, <1>3 DEF Evaluated
<1>9. b = Rt!After
  BY DEF Rt!After, Behind
<1>10. PICK f : f = Rt!Params[Len(Rt!Params) - Len(args)]
  OBVIOUS
<1>11. stage = "400" <=> f = "json" /\ body.media = "json" /\ body.keys = Rt!Broken
  BY <1>1, <1>10 DEF Refusal
<1> QED BY <1>1, <1>7, <1>8, <1>9, <1>10, <1>11 DEF Rt!RefusedWithoutHandler

(* Nothing that a called handler takes was beyond parsing.                 *)
LEMMA CalledIsParsed ==
    ASSUME RtInv, stage = "called"
    PROVE  \A p \in Rt!Range(Rt!Params) : ~Rt!Unparsable(p)
<1>1. PICK L \in Nat : L = Len(Rt!Params) /\ L = Len(args) /\ DOMAIN Rt!Params = 1..L
  BY AboutRoutes DEF RtInv, Evaluated, Rt!Params
<1>2. Behind = 1
  BY <1>1 DEF Behind
<1>3. \A i \in 1..L : ~Rt!Unparsable(Rt!Params[i])
  BY <1>1, <1>2 DEF RtInv, Evaluated
<1> QED BY <1>1, <1>3 DEF Rt!Range

LEMMA RtInvImplies == RtInv => Rt!ArgumentsInOrder /\ Rt!RefusedWithoutHandler
<1> SUFFICES ASSUME RtInv PROVE Rt!ArgumentsInOrder /\ Rt!RefusedWithoutHandler
  OBVIOUS
<1>1. Rt!RefusedWithoutHandler
  BY AcquiredIsBehind, CalledIsParsed DEF Rt!RefusedWithoutHandler
<1>2. ASSUME stage = "called" PROVE Rt!ArgumentsInOrder
  <2>1. Evaluated /\ Acquired /\ Len(args) = Len(Rt!Params) /\ Len(Rt!Params) \in Nat /\ DOMAIN args = 1..Len(args)
    BY <1>2, AboutRoutes DEF RtInv, Evaluated, Rt!Params
  <2>2. ASSUME NEW i \in DOMAIN args PROVE ArgumentOf(Rt!Params[i], args[i]) /\ Rt!Params[i] \in Kinds
    <3>1. i \in 1..Len(args) /\ Len(Rt!Params) - Len(args) + i = i
      BY <2>1
    <3>2. ArgumentOf(Rt!Params[Len(Rt!Params) - Len(args) + i], args[i])
      BY <2>1, <3>1 DEF Evaluated
    <3> QED BY <2>1, <3>1, <3>2, AboutRoutes DEF Evaluated, Rt!Params
  <2>3. \A i, j \in DOMAIN acquired : acquired[i] = acquired[j] => i = j
    BY <2>1 DEF Acquired
  <2>4. \A i \in DOMAIN args : Rt!Params[i] \in DOMAIN objects => args[i].object = objects[Rt!Params[i]]
    BY <2>1, <2>2 DEF Acquired, ArgumentOf, Acquirable
  <2>5. ASSUME NEW i \in DOMAIN args
        PROVE  CASE Rt!Params[i] = "json" ->
                      /\ DOMAIN args[i].json = query \cup (IF Rt!Ignored THEN {} ELSE body.keys)
                      /\ \A k \in DOMAIN args[i].json : args[i].json[k] = "query" <=> Rt!Ignored \/ k \notin body.keys
                 [] Rt!Params[i] = "_1" -> args[i].group # <<>> /\ Routes[route].prefix \o args[i].group = url
                 [] OTHER -> args[i].kind = Rt!Params[i]
    BY <2>2 DEF ArgumentOf, Acquirable
  <2> QED BY <2>1, <2>3, <2>4, <2>5 DEF Rt!ArgumentsInOrder
<1> QED BY <1>1, <1>2 DEF Rt!ArgumentsInOrder

(* The paths of WebApp are told apart by their second word, "/users" and    *)
(* the users' pages behind it by their lengths.                            *)
Place(word) == CASE word = "hello" -> 1 [] word = "register" -> 2 [] word = "login" -> 3 [] word = "logout" -> 4
                 [] word = "find" -> 5 [] word = "send" -> 6 [] word = "echo" -> 7 [] word = "statics" -> 8
                 [] word = "form_login" -> 10 [] word = "form_logout" -> 11 [] word = "users" -> 12
                 [] word = "form_add_user" -> 14

LEMMA WebAppWords ==
    ASSUME NEW n \in 1..14
    PROVE  LET r == Rt!WebAppRoutes[n] IN
           /\ IF n = 9 THEN Len(r.prefix) = 1 /\ r.group = "none"
              ELSE Len(r.prefix) \in {2, 3} /\ Place(r.prefix[2]) = (IF n = 13 THEN 12 ELSE n)
           /\ n = 12 => r.group = "none" /\ Len(r.prefix) = 2
           /\ n = 13 => r.group # "none" /\ Len(r.prefix) = 3
<1> DEFINE r == Rt!WebAppRoutes[n]
<1>1. n = 1 \/ n = 2 \/ n = 3 \/ n = 4 \/ n = 5 \/ n = 6 \/ n = 7 \/ n = 8 \/ n = 9 \/ n = 10 \/ n = 11 \/ n = 12 \/ n = 13 \/ n = 14
  OBVIOUS
<1>2. CASE n = 1
  <2>1. r.prefix = <<"/", "hello">> /\ r.group = "none"
    BY <1>2 DEF Rt!WebAppRoutes, Rt!Route, Rt!None
  <2> QED BY <1>2, <2>1 DEF Place
<1>3. CASE n = 2
  <2>1. r.prefix = <<"/", "register">> /\ r.group = "none"
    BY <1>3 DEF Rt!WebAppRoutes, Rt!Route, Rt!None
  <2> QED BY <1>3, <2>1 DEF Place
<1>4. CASE n = 3
  <2>1. r.prefix = <<"/", "login">> /\ r.group = "none"
    BY <1>4 DEF Rt!WebAppRoutes, Rt!Route, Rt!None
  <2> QED BY <1>4, <2>1 DEF Place
<1>5. CASE n = 4
  <2>1. r.prefix = <<"/", "logout">> /\ r.group = "none"
    BY <1>5 DEF Rt!WebAppRoutes, Rt!Route, Rt!None
  <2> QED BY <1>5, <2>1 DEF Place
<1>6. CASE n = 5
  <2>1. r.prefix = <<"/", "find", "/">> /\ r.group = "str"
    BY <1>6 DEF Rt!WebAppRoutes, Rt!Route, Rt!None
  <2> QED BY <1>6, <2>1 DEF Place
<1>7. CASE n = 6
  <2>1. r.prefix = <<"/", "send">> /\ r.group = "none"
    BY <1>7 DEF Rt!WebAppRoutes, Rt!Route, Rt!None
  <2> QED BY <1>7, <2>1 DEF Place
<1>8. CASE n = 7
  <2>1. r.prefix = <<"/", "echo">> /\ r.group = "none"
    BY <1>8 DEF Rt!WebAppRoutes, Rt!Route, Rt!None
  <2> QED BY <1>8, <2>1 DEF Place
<1>9. CASE n = 8
  <2>1. r.prefix = <<"/", "statics", "/">> /\ r.group = "path"
    BY <1>9 DEF Rt!WebAppRoutes, Rt!Route, Rt!None
  <2> QED BY <1>9, <2>1 DEF Place
<1>10. CASE n = 9
  <2>1. r.prefix = <<"/">> /\ r.group = "none"
    BY <1>10 DEF Rt!WebAppRoutes, Rt!Route, Rt!None
  <2> QED BY <1>10, <2>1 DEF Place
<1>11. CASE n = 10
  <2>1. r.prefix = <<"/", "form_login">> /\ r.group = "none"
    BY <1>11 DEF Rt!WebAppRoutes, Rt!Route, Rt!None
  <2> QED BY <1>11, <2>1 DEF Place
<1>12. CASE n = 11
  <2>1. r.prefix = <<"/", "form_logout">> /\ r.group = "none"
    BY <1>12 DEF Rt!WebAppRoutes, Rt!Route, Rt!None
  <2> QED BY <1>12, <2>1 DEF Place
<1>13. CASE n = 12
  <2>1. r.prefix = <<"/", "users">> /\ r.group = "none"
    BY <1>13 DEF Rt!WebAppRoutes, Rt!Route, Rt!None
  <2> QED BY <1>13, <2>1 DEF Place
<1>14. CASE n = 13
  <2>1. r.prefix = <<"/", "users", "/">> /\ r.group = "int"
    BY <1>14 DEF Rt!WebAppRoutes, Rt!Route, Rt!None
  <2> QED BY <1>14, <2>1 DEF Place
<1>15. CASE n = 14
  <2>1. r.prefix = <<"/", "form_add_user">> /\ r.group = "none"
    BY <1>15 DEF Rt!WebAppRoutes, Rt!Route, Rt!None
  <2> QED BY <1>15, <2>1 DEF Place
<1> QED BY <1>1, <1>2, <1>3, <1>4, <1>5, <1>6, <1>7, <1>8, <1>9, <1>10, <1>11, <1>12, <1>13, <1>14, <1>15

LEMMA WebAppUnambiguous == RtInv /\ Routes = Rt!WebAppRoutes => Rt!RoutesAreUnambiguous
<1> SUFFICES ASSUME RtInv, Routes = Rt!WebAppRoutes PROVE Rt!RoutesAreUnambiguous
  OBVIOUS
<1>1. DOMAIN Routes = 1..14
  BY DEF Rt!WebAppRoutes
<1>2. url \in Seq(Tokens) /\ Len(url) \in Nat
  BY DEF RtInv
<1>3. ASSUME NEW n \in Rt!Matching
      PROVE  /\ n \in 1..14
             /\ IF n = 9 THEN Len(url) = 1 ELSE Len(url) >= 2 /\ Place(url[2]) = (IF n = 13 THEN 12 ELSE n)
             /\ n = 12 => Len(url) = 2
             /\ n = 13 => Len(url) > 2
  <2>1. PICK r : r = Rt!WebAppRoutes[n]
    OBVIOUS
  <2>2. n \in 1..14 /\ Rt!match(r, url)
    BY <1>1, <2>1 DEF Rt!Matching
  <2>3. /\ r.prefix \in Seq(STRING) /\ r.group \in {"none", "int", "str", "path"}
        /\ IF n = 9 THEN Len(r.prefix) = 1 /\ r.group = "none"
           ELSE Len(r.prefix) \in {2, 3} /\ Place(r.prefix[2]) = (IF n = 13 THEN 12 ELSE n)
        /\ n = 12 => r.group = "none" /\ Len(r.prefix) = 2
        /\ n = 13 => r.group # "none" /\ Len(r.prefix) = 3
    BY <1>1, <2>1, <2>2, WebAppWords, AboutRoutes
  <2>4. /\ Len(r.prefix) <= Len(url) /\ \A i \in 1..Len(r.prefix) : r.prefix[i] = url[i]
        /\ IF r.group = "none" THEN Len(url) = Len(r.prefix) ELSE Len(url) > Len(r.prefix)
    BY <1>2, <2>2, <2>3, MatchGives
  <2> QED BY <1>2, <2>2, <2>3, <2>4
<1>4. ASSUME NEW n \in Rt!Matching, NEW k \in Rt!Matching PROVE n = k
  <2>1. (n = 9) <=> (k = 9)
    BY <1>2, <1>3
  <2>2. ASSUME NEW x \in Rt!Matching, NEW y \in Rt!Matching, x = 12, y = 13 PROVE FALSE
    <3>1. Len(url) = 2 /\ Len(url) > 2
      BY <1>3, <2>2
    <3> QED BY <3>1
  <2>3. n # 9 => (IF n = 13 THEN 12 ELSE n) = (IF k = 13 THEN 12 ELSE k)
    BY <1>3, <2>1
  <2>4. n \in 1..14 /\ k \in 1..14 /\ ~(n = 12 /\ k = 13) /\ ~(n = 13 /\ k = 12)
    BY <1>3, <2>2
  <2> QED BY <2>1, <2>3, <2>4
<1> QED BY <1>4 DEF Rt!RoutesAreUnambiguous

(***************************************************************************)
(* Whatever paths a server has, a handler that is called has all its       *)
(* parameters, in order, each kind acquired once, and everything it takes  *)
(* could be parsed.  A request is refused at the last of its parameters    *)
(* that cannot be parsed, a body, a query or a Cookie header, with the     *)
(* status of that one and nothing acquired but what stands behind it.      *)
(***************************************************************************)
THEOREM HandlersGetTheirParameters == Rt!Spec => [](Rt!ArgumentsInOrder /\ Rt!RefusedWithoutHandler)
<1>1. RtInv /\ [Rt!Next]_(Rt!vars) => RtInv'
  BY RtNext
<1> QED BY RtInit, <1>1, RtInvImplies, PTL DEF Rt!Spec

(***************************************************************************)
(* With the paths of WebApp a request matches one of them at most, too:    *)
(* it reaches the handler of its URL if all that this handler takes can be *)
(* parsed, and otherwise none.                                             *)
(***************************************************************************)
THEOREM WebAppIsRouted ==
    ASSUME Routes = Rt!WebAppRoutes
    PROVE  Rt!Spec => []RequestsReachTheirHandlers
<1>1. RtInv /\ [Rt!Next]_(Rt!vars) => RtInv'
  BY RtNext
<1>2. RtInv => RequestsReachTheirHandlers
  BY RtInvImplies, WebAppUnambiguous DEF RequestsReachTheirHandlers, Rt!RequestsReachTheirHandlers
<1> QED BY RtInit, <1>1, <1>2, PTL DEF Rt!Spec

-----------------------------------------------------------------------------
(* Stored passwords. *)

(* Taking a character after the other, the loop of check_password has the  *)
(* salt on one side of the '$' and the hash on the other.                  *)
CutAt(salt, h1, h2, i) ==
    [salt |-> IF i <= Len(salt) THEN SubSeq(salt, 1, i) ELSE salt,
     hash |-> IF i <= Len(salt) + 1 THEN <<>> ELSE IF i = Len(salt) + 2 THEN <<h1>> ELSE <<h1, h2>>,
     a |-> IF i <= Len(salt) THEN "salt" ELSE "hash"]

LEMMA TakeDollar ==
    ASSUME NEW salt, NEW hash
    PROVE  Pw!Take([salt |-> salt, hash |-> hash, a |-> "salt"], Pw!Dollar) = [salt |-> salt, hash |-> hash, a |-> "hash"]
  BY DEF Pw!Take

LEMMA TakeOfSalt ==
    ASSUME NEW salt, NEW hash, NEW c, c # Pw!Dollar
    PROVE  Pw!Take([salt |-> salt, hash |-> hash, a |-> "salt"], c) = [salt |-> Append(salt, c), hash |-> hash, a |-> "salt"]
  BY DEF Pw!Take

LEMMA TakeOfHash ==
    ASSUME NEW salt, NEW hash, NEW c, c # Pw!Dollar
    PROVE  Pw!Take([salt |-> salt, hash |-> hash, a |-> "hash"], c) = [salt |-> salt, hash |-> Append(hash, c), a |-> "hash"]
  BY DEF Pw!Take

LEMMA CutStep ==
    ASSUME NEW salt \in Seq(Pw!chars), NEW h1, NEW h2, h1 # Pw!Dollar, h2 # Pw!Dollar,
           NEW s, s = salt \o <<Pw!Dollar>> \o <<h1, h2>>, NEW i \in 1..(Len(salt) + 3)
    PROVE  Pw!Take(CutAt(salt, h1, h2, i - 1), s[i]) = CutAt(salt, h1, h2, i)
<1> DEFINE n == Len(salt)
<1>1. n \in Nat /\ i \in Nat /\ i >= 1
  OBVIOUS
<1>2. \A c \in Pw!chars : c # Pw!Dollar
  BY PasswordAssumption DEF Pw!chars, Pw!Dollar, Pw!Char
<1>3. CASE i <= n
  <2>1. s[i] = salt[i] /\ salt[i] \in Pw!chars
    BY <1>1, <1>3
  <2>2. CutAt(salt, h1, h2, i - 1) = [salt |-> SubSeq(salt, 1, i - 1), hash |-> <<>>, a |-> "salt"]
    BY <1>1, <1>3 DEF CutAt
  <2>3. Append(SubSeq(salt, 1, i - 1), salt[i]) = SubSeq(salt, 1, i)
    BY <1>1, <1>3
  <2>4. CutAt(salt, h1, h2, i) = [salt |-> SubSeq(salt, 1, i), hash |-> <<>>, a |-> "salt"]
    BY <1>1, <1>3 DEF CutAt
  <2>5. s[i] # Pw!Dollar
    BY <1>2, <2>1
  <2>6. PICK c, b : c = s[i] /\ b = SubSeq(salt, 1, i - 1)
    OBVIOUS
  <2>7. Pw!Take([salt |-> b, hash |-> <<>>, a |-> "salt"], c) = [salt |-> Append(b, c), hash |-> <<>>, a |-> "salt"]
    BY <2>5, <2>6, TakeOfSalt
  <2> QED BY <2>1, <2>2, <2>3, <2>4, <2>6, <2>7
<1>4. CASE i = n + 1
  <2>1. s[i] = Pw!Dollar
    BY <1>1, <1>4
  <2>2. CutAt(salt, h1, h2, i - 1) = [salt |-> salt, hash |-> <<>>, a |-> "salt"]
    <3>1. SubSeq(salt, 1, n) = salt
      OBVIOUS
    <3>2. i - 1 = n
      BY <1>1, <1>4
    <3>3. n <= n /\ n <= n + 1
      BY <1>1
    <3>4. CutAt(salt, h1, h2, n) = [salt |-> SubSeq(salt, 1, n), hash |-> <<>>, a |-> "salt"]
      BY <1>1, <3>3 DEF CutAt
    <3> QED BY <3>1, <3>2, <3>4
  <2>3. CutAt(salt, h1, h2, i) = [salt |-> salt, hash |-> <<>>, a |-> "hash"]
    BY <1>1, <1>4 DEF CutAt
  <2> QED BY <2>1, <2>2, <2>3, TakeDollar
<1>5. CASE i = n + 2
  <2>1. s[i] = h1
    BY <1>1, <1>5
  <2>2. CutAt(salt, h1, h2, i - 1) = [salt |-> salt, hash |-> <<>>, a |-> "hash"]
    BY <1>1, <1>5 DEF CutAt
  <2>3. CutAt(salt, h1, h2, i) = [salt |-> salt, hash |-> <<h1>>, a |-> "hash"]
    BY <1>1, <1>5 DEF CutAt
  <2>4. Append(<<>>, h1) = <<h1>>
    OBVIOUS
  <2>5. Pw!Take([salt |-> salt, hash |-> <<>>, a |-> "hash"], h1) = [salt |-> salt, hash |-> Append(<<>>, h1), a |-> "hash"]
    BY TakeOfHash
  <2> QED BY <2>1, <2>2, <2>3, <2>4, <2>5
<1>6. CASE i = n + 3
  <2>1. s[i] = h2
    BY <1>1, <1>6
  <2>2. CutAt(salt, h1, h2, i - 1) = [salt |-> salt, hash |-> <<h1>>, a |-> "hash"]
    BY <1>1, <1>6 DEF CutAt
  <2>3. CutAt(salt, h1, h2, i) = [salt |-> salt, hash |-> <<h1, h2>>, a |-> "hash"]
    <3>1. ~(i <= n) /\ ~(i <= n + 1) /\ i # n + 2
      BY <1>1, <1>6
    <3> HIDE DEF n
    <3> QED BY <3>1 DEF CutAt, n
  <2>4. Append(<<h1>>, h2) = <<h1, h2>>
    <3>1. <<h1>> \in Seq({h1, h2}) /\ <<h1, h2>> \in Seq({h1, h2}) /\ h2 \in {h1, h2}
      OBVIOUS
    <3>2. Append(<<h1>>, h2) \in Seq({h1, h2}) /\ Len(Append(<<h1>>, h2)) = 2
      BY <3>1
    <3>3. Append(<<h1>>, h2)[1] = h1 /\ Append(<<h1>>, h2)[2] = h2
      BY <3>1
    <3>4. PICK t, u : t = Append(<<h1>>, h2) /\ u = <<h1, h2>>
      OBVIOUS
    <3>5. Len(u) = 2 /\ u[1] = h1 /\ u[2] = h2
      BY <3>4
    <3>6. \A k \in 1..Len(t) : t[k] = u[k]
      BY <3>2, <3>3, <3>4, <3>5
    <3>7. t = u
      BY <3>1, <3>2, <3>4, <3>5, <3>6, SeqEqual
    <3> QED BY <3>4, <3>7
  <2>5. Pw!Take([salt |-> salt, hash |-> <<h1>>, a |-> "hash"], h2) = [salt |-> salt, hash |-> Append(<<h1>>, h2), a |-> "hash"]
    BY TakeOfHash
  <2> QED BY <2>1, <2>2, <2>3, <2>4, <2>5
<1> QED BY <1>1, <1>3, <1>4, <1>5, <1>6

LEMMA CutOfEncoded ==
    ASSUME NEW salt \in Seq(Pw!chars), NEW h1, NEW h2, h1 # Pw!Dollar, h2 # Pw!Dollar
    PROVE  Pw!Cut(salt \o <<Pw!Dollar>> \o <<h1, h2>>) = [salt |-> salt, hash |-> <<h1, h2>>, a |-> "hash"]
<1> DEFINE s == salt \o <<Pw!Dollar>> \o <<h1, h2>>
           n == Len(salt) + 3
           start == [salt |-> <<>>, hash |-> <<>>, a |-> "salt"]
           Is(g) == g = [i \in 0..Len(s) |-> IF i = 0 THEN start ELSE Pw!Take(g[i - 1], s[i])]
           f == CHOOSE g : Is(g)
           at == [i \in 0..Len(s) |-> CutAt(salt, h1, h2, i)]
<1>1. Len(s) = n /\ Len(salt) \in Nat
  OBVIOUS
<1>2. Pw!Cut(s) = f[Len(s)]
  BY DEF Pw!Cut
<1>3. at[0] = start
  <2>1. SubSeq(salt, 1, 0) = <<>>
    OBVIOUS
  <2> QED BY <1>1, <2>1 DEF CutAt
<1> HIDE DEF start
<1>4. ASSUME NEW i \in 1..Len(s) PROVE at[i] = Pw!Take(at[i - 1], s[i])
  <2>1. PICK t : t = s
    OBVIOUS
  <2>2. i \in 1..(Len(salt) + 3)
    BY <1>1
  <2>3. Pw!Take(CutAt(salt, h1, h2, i - 1), t[i]) = CutAt(salt, h1, h2, i)
    BY <2>1, <2>2, CutStep
  <2>4. at[i] = CutAt(salt, h1, h2, i) /\ at[i - 1] = CutAt(salt, h1, h2, i - 1)
    BY <1>1, <2>2
  <2> QED BY <2>1, <2>3, <2>4
<1> HIDE DEF s, n
<1>5. Is(at)
  <2>1. ASSUME NEW i \in 0..Len(s) PROVE at[i] = IF i = 0 THEN start ELSE Pw!Take(at[i - 1], s[i])
    <3>1. i = 0 \/ i \in 1..Len(s)
      BY <1>1 DEF n
    <3> QED BY <1>3, <1>4, <3>1
  <2> QED BY <2>1
<1> HIDE DEF at
<1>6. Is(f)
  BY <1>5
<1> HIDE DEF f
<1>7. \A i \in 0..Len(s) : f[i] = at[i]
  <2> DEFINE T == {i \in 0..Len(s) : f[i] # at[i]}
  <2> SUFFICES ASSUME NEW j \in T PROVE FALSE
    OBVIOUS
  <2>1. T \in SUBSET Nat
    BY <1>1 DEF n
  <2>2. PICK i \in T : \A k \in T : i <= k
    BY <2>1, LeastOf
  <2>3. f[0] = start /\ at[0] = start
    BY <1>1, <1>3, <1>6 DEF n
  <2>4. i # 0
    BY <2>2, <2>3
  <2>5. i - 1 \in 0..Len(s) /\ ~(i <= i - 1) /\ i \in 1..Len(s)
    BY <1>1, <2>2, <2>4 DEF n
  <2>6. f[i - 1] = at[i - 1]
    BY <2>2, <2>5
  <2>7. f[i] = Pw!Take(f[i - 1], s[i])
    BY <1>6, <2>4, <2>5
  <2> QED BY <1>4, <2>2, <2>5, <2>6, <2>7
<1>8. f[Len(s)] = CutAt(salt, h1, h2, n)
  BY <1>1, <1>7 DEF at, n
<1>9. CutAt(salt, h1, h2, n) = [salt |-> salt, hash |-> <<h1, h2>>, a |-> "hash"]
  BY <1>1 DEF CutAt, n
<1> QED BY <1>2, <1>8, <1>9 DEF s

(* A password is checked against the one that was encoded: their hashes    *)
(* are compared under the salt that was cut off.                           *)
LEMMA CheckedAsEncoded ==
    ASSUME NEW salt \in Seq(Pw!chars), NEW p, NEW q
    PROVE  Pw!check_password(q, Pw!encode_password(p, salt)) <=> q = p
<1> DEFINE h(x) == Pw!hash_password(x, salt)
           cut == Pw!Cut(Pw!encode_password(p, salt))
<1>1. PICK hp, hs : hp = [hash |-> p] /\ hs = [hash |-> salt]
  OBVIOUS
<1>2. hp # Pw!Dollar /\ hs # Pw!Dollar
  <2>1. "hash" \in DOMAIN hp /\ "hash" \in DOMAIN hs /\ "hash" \notin DOMAIN Pw!Dollar
    BY <1>1 DEF Pw!Dollar, Pw!Char
  <2> QED BY <2>1
<1>3. Pw!encode_password(p, salt) = salt \o <<Pw!Dollar>> \o <<hp, hs>> /\ h(p) = <<hp, hs>>
  BY <1>1 DEF Pw!encode_password, Pw!hash_password
<1>4. cut.salt = salt /\ cut.hash = h(p)
  <2>1. Pw!Cut(salt \o <<Pw!Dollar>> \o <<hp, hs>>) = [salt |-> salt, hash |-> <<hp, hs>>, a |-> "hash"]
    BY <1>2, CutOfEncoded
  <2>2. cut = [salt |-> salt, hash |-> h(p), a |-> "hash"]
    BY <1>3, <2>1
  <2> HIDE DEF h, cut
  <2> QED BY <2>2
<1>5. Pw!check_password(q, Pw!encode_password(p, salt)) <=> Pw!constant_time_compare(h(q), h(p))
  BY <1>4 DEF Pw!check_password
<1>6. \A x : Len(h(x)) = 2 /\ DOMAIN h(x) = 1..2 /\ h(x)[1] = [hash |-> x] /\ h(x)[2] = [hash |-> salt]
  BY DEF Pw!hash_password
<1> HIDE DEF h
<1>7. Pw!constant_time_compare(h(q), h(p)) <=> [hash |-> q] = [hash |-> p]
  BY <1>6 DEF Pw!constant_time_compare
<1>8. [hash |-> q] = [hash |-> p] <=> q = p
  <2>1. [hash |-> q].hash = q /\ [hash |-> p].hash = p
    OBVIOUS
  <2> QED BY <2>1
<1> QED BY <1>5, <1>7, <1>8

(* Every stored password is the encoding of the one that its user gave, and *)
(* what the last login was told fits it: there is no way to change either. *)
PwInv ==
    /\ DOMAIN encoded = Accounts /\ encoded = [u \in Accounts |-> encoded[u]]
    /\ DOMAIN given = Accounts /\ given = [u \in Accounts |-> given[u]]
    /\ \A u \in Accounts : encoded[u] # Pw!NoPassword =>
          \E salt \in Seq(Pw!chars) : encoded[u] = Pw!encode_password(given[u], salt)
    /\ login # <<>> => /\ login.user \in Accounts /\ encoded[login.user] # Pw!NoPassword
                       /\ login.ok <=> login.password = given[login.user]

LEMMA PwInit == Pw!Init => PwInv
  BY DEF Pw!Init, PwInv

LEMMA PwRegister ==
    ASSUME PwInv, NEW u \in Accounts, NEW p \in Passwords, Pw!Register(u, p)
    PROVE  PwInv'
<1>1. PICK salt \in Pw!generate_random_string(SaltLength) :
         encoded' = [encoded EXCEPT ![u] = Pw!encode_password(p, salt)]
  BY DEF Pw!Register
<1>2. salt \in Seq(Pw!chars)
  BY PasswordAssumption DEF Pw!generate_random_string
<1>3. encoded[u] = Pw!NoPassword /\ given' = [given EXCEPT ![u] = p] /\ login' = login
  BY DEF Pw!Register
<1>4. /\ DOMAIN encoded = Accounts /\ encoded = [v \in Accounts |-> encoded[v]]
      /\ DOMAIN given = Accounts /\ given = [v \in Accounts |-> given[v]]
  BY DEF PwInv
<1>5. /\ DOMAIN encoded' = Accounts /\ encoded' = [v \in Accounts |-> encoded'[v]]
      /\ DOMAIN given' = Accounts /\ given' = [v \in Accounts |-> given'[v]]
  BY <1>1, <1>3, <1>4
<1>6. encoded'[u] = Pw!encode_password(p, salt) /\ given'[u] = p
  BY <1>1, <1>3, <1>4
<1>7. \A v \in Accounts : v # u => encoded'[v] = encoded[v] /\ given'[v] = given[v]
  BY <1>1, <1>3, <1>4
<1>8. ASSUME NEW v \in Accounts, encoded'[v] # Pw!NoPassword
      PROVE  \E t \in Seq(Pw!chars) : encoded'[v] = Pw!encode_password(given'[v], t)
  <2>1. CASE v = u
    BY <1>2, <1>6, <2>1
  <2>2. CASE v # u
    <3>1. encoded[v] # Pw!NoPassword
      BY <1>7, <1>8, <2>2
    <3>2. PICK t \in Seq(Pw!chars) : encoded[v] = Pw!encode_password(given[v], t)
      BY <3>1 DEF PwInv
    <3> QED BY <1>7, <2>2, <3>2
  <2> QED BY <2>1, <2>2
<1>9. ASSUME login' # <<>>
      PROVE  /\ login'.user \in Accounts /\ encoded'[login'.user] # Pw!NoPassword
             /\ login'.ok <=> login'.password = given'[login'.user]
  <2>1. /\ login.user \in Accounts /\ encoded[login.user] # Pw!NoPassword
        /\ login.ok <=> login.password = given[login.user]
    BY <1>3, <1>9 DEF PwInv
  <2>2. login.user # u
    BY <1>3, <2>1
  <2> QED BY <1>3, <1>7, <2>1, <2>2
<1> QED BY <1>5, <1>8, <1>9 DEF PwInv

LEMMA PwLogin ==
    ASSUME PwInv, NEW u \in Accounts, NEW p \in Passwords, Pw!Login(u, p)
    PROVE  PwInv'
<1>1. /\ encoded[u] # Pw!NoPassword /\ UNCHANGED <<encoded, given>>
      /\ login' = [user |-> u, password |-> p, ok |-> Pw!check_password(p, encoded[u])]
  BY DEF Pw!Login
<1>2. PICK salt \in Seq(Pw!chars) : encoded[u] = Pw!encode_password(given[u], salt)
  BY <1>1 DEF PwInv
<1>3. PICK kept, mine : kept = encoded[u] /\ mine = given[u]
  OBVIOUS
<1>4. Pw!check_password(p, kept) <=> p = mine
  BY <1>2, <1>3, CheckedAsEncoded
<1>5. login'.user = u /\ login'.password = p /\ login'.ok = Pw!check_password(p, kept)
  BY <1>1, <1>3
<1>6. login'.ok <=> login'.password = given'[login'.user]
  BY <1>1, <1>3, <1>4, <1>5
<1> QED BY <1>1, <1>5, <1>6 DEF PwInv

(***************************************************************************)
(* Whatever the characters of salts, as long as '$' is none, and however   *)
(* many there are in a salt: users log in with the password of their       *)
(* registration and no other.  The loop that cuts the stored string is     *)
(* followed character by character.                                        *)
(***************************************************************************)
THEOREM PasswordsAreChecked == Pw!Spec => []LoginNeedsThePassword
<1>1. PwInv /\ [Pw!Next]_(Pw!vars) => PwInv'
  <2> SUFFICES ASSUME PwInv, [Pw!Next]_(Pw!vars) PROVE PwInv'
    OBVIOUS
  <2>1. ASSUME NEW u \in Accounts, NEW p \in Passwords, Pw!Register(u, p) PROVE PwInv'
    BY <2>1, PwRegister
  <2>2. ASSUME NEW u \in Accounts, NEW p \in Passwords, Pw!Login(u, p) PROVE PwInv'
    BY <2>2, PwLogin
  <2>3. CASE UNCHANGED Pw!vars
    BY <2>3 DEF Pw!vars, PwInv
  <2> QED BY <2>1, <2>2, <2>3 DEF Pw!Next
<1>2. PwInv => LoginNeedsThePassword
  BY DEF PwInv, LoginNeedsThePassword, Pw!LoginNeedsThePassword
<1> QED BY PwInit, <1>1, <1>2, PTL DEF Pw!Spec

-----------------------------------------------------------------------------
(* exec's query. *)

LEMMA Cardinalities == \A S : Db!Cardinality(S) = Cardinality(S)
  BY DEF Db!Cardinality, Cardinality

(* How many of some positions are among the first i.                       *)
LEMMA Counting ==
    ASSUME NEW n \in Nat, NEW S \in SUBSET (1..n)
    PROVE  /\ IsFiniteSet(S) /\ Db!Cardinality(S) \in Nat
           /\ Db!UpTo(S, 0) = 0 /\ Db!UpTo(S, n) = Db!Cardinality(S)
           /\ \A i \in Nat : Db!UpTo(S, i) \in Nat /\ Db!UpTo(S, i) <= Db!Cardinality(S)
           /\ \A i, j \in Nat : j = i + 1 => Db!UpTo(S, j) = Db!UpTo(S, i) + (IF j \in S THEN 1 ELSE 0)
<1> DEFINE Upper(i) == {j \in S : j <= i}
<1>0. \A j \in S : j \in Nat /\ j >= 1 /\ j <= n
  OBVIOUS
<1>1. IsFiniteSet(S) /\ Cardinality(S) \in Nat
  <2>1. IsFiniteSet(1..n)
    BY FS_Interval
  <2>2. IsFiniteSet(S)
    BY <2>1, FS_Subset
  <2> QED BY <2>2, FS_CardinalityType
<1>2. \A i : Db!UpTo(S, i) = Cardinality(Upper(i))
  BY Cardinalities DEF Db!UpTo
<1>3. \A i : IsFiniteSet(Upper(i)) /\ Cardinality(Upper(i)) \in Nat /\ Cardinality(Upper(i)) <= Cardinality(S)
  <2>1. \A i : Upper(i) \in SUBSET S
    OBVIOUS
  <2> HIDE DEF Upper
  <2> QED BY <1>1, <2>1, FS_Subset, FS_CardinalityType
<1>4. Upper(0) = {} /\ Upper(n) = S
  <2>1. \A j \in S : ~(j <= 0) /\ j <= n
    BY <1>0
  <2> QED BY <2>1
<1>5. ASSUME NEW i \in Nat PROVE Cardinality(Upper(i + 1)) = Cardinality(Upper(i)) + (IF i + 1 \in S THEN 1 ELSE 0)
  <2>0. \A j \in S : (j <= i + 1 <=> j <= i \/ j = i + 1) /\ (j <= i => j # i + 1)
    BY <1>0
  <2>1. CASE i + 1 \in S
    <3>0. i + 1 <= i + 1
      OBVIOUS
    <3>1. Upper(i + 1) = Upper(i) \cup {i + 1} /\ i + 1 \notin Upper(i)
      BY <2>0, <2>1, <3>0
    <3> HIDE DEF Upper
    <3> QED BY <1>3, <2>1, <3>1, FS_AddElement
  <2>2. CASE i + 1 \notin S
    <3>1. Upper(i + 1) = Upper(i)
      BY <2>0, <2>2
    <3> HIDE DEF Upper
    <3> QED BY <1>3, <2>2, <3>1
  <2> QED BY <2>1, <2>2
<1> HIDE DEF Upper
<1>6. Cardinality({}) = 0
  BY FS_EmptySet
<1>7. Db!Cardinality(S) = Cardinality(S)
  BY Cardinalities
<1>8. n \in Nat /\ 0 \in Nat
  OBVIOUS
<1>9. Db!UpTo(S, 0) = 0 /\ Db!UpTo(S, n) = Db!Cardinality(S)
  BY <1>2, <1>4, <1>6, <1>7
<1>10. \A i \in Nat : Db!UpTo(S, i) \in Nat /\ Db!UpTo(S, i) <= Db!Cardinality(S)
  BY <1>2, <1>3, <1>7
<1>11. ASSUME NEW i \in Nat, NEW j \in Nat, j = i + 1
       PROVE  Db!UpTo(S, j) = Db!UpTo(S, i) + (IF j \in S THEN 1 ELSE 0)
  BY <1>2, <1>5, <1>11
<1> QED BY <1>1, <1>7, <1>9, <1>10, <1>11

LEMMA Advance ==
    ASSUME NEW n \in Nat, NEW T \in SUBSET (1..n), NEW i \in 1..n, NEW j, j = i \/ (j = i + 1 /\ i \notin T)
    PROVE  Db!UpTo(T, j) = Db!UpTo(T, i - 1) + (IF j \in T THEN 1 ELSE 0)
<1>1. PICK h \in Nat : h = i - 1 /\ i = h + 1 /\ i \in Nat /\ i + 1 \in Nat
  OBVIOUS
<1>2. /\ \A k \in Nat : Db!UpTo(T, k) \in Nat
      /\ \A k, m \in Nat : m = k + 1 => Db!UpTo(T, m) = Db!UpTo(T, k) + (IF m \in T THEN 1 ELSE 0)
  BY Counting
<1>3. Db!UpTo(T, i) = Db!UpTo(T, h) + (IF i \in T THEN 1 ELSE 0)
  BY <1>1, <1>2
<1>4. CASE j = i
  BY <1>1, <1>3, <1>4
<1>5. CASE j = i + 1 /\ i \notin T
  <2>1. Db!UpTo(T, i) = Db!UpTo(T, h)
    BY <1>1, <1>2, <1>3, <1>5
  <2>2. Db!UpTo(T, j) = Db!UpTo(T, i) + (IF j \in T THEN 1 ELSE 0)
    BY <1>1, <1>2, <1>5
  <2> QED BY <1>1, <2>1, <2>2
<1> QED BY <1>4, <1>5

-----------------------------------------------------------------------------
(* The runs of '?' in a template.                                          *)
LEMMA Runs ==
    ASSUME NEW S, NEW t \in Seq(S), NEW i \in 0..Len(t)
    PROVE  /\ Db!RunBefore(t, i) \in 0..i
           /\ i = 0 => Db!RunBefore(t, i) = 0
           /\ i # 0 /\ t[i] # Db!Ask => Db!RunBefore(t, i) = 0
           /\ i # 0 /\ t[i] = Db!Ask => Db!RunBefore(t, i) = Db!RunBefore(t, i - 1) + 1
<1> DEFINE Run(j, n) == (\A k \in (j - n + 1)..j : t[k] = Db!Ask) /\ (n = j \/ t[j - n] # Db!Ask)
           R(j) == Db!RunBefore(t, j)
<1>1. \A j : R(j) = CHOOSE n \in 0..j : Run(j, n)
  BY DEF Db!RunBefore
<1>2. ASSUME NEW j \in Nat PROVE R(j) \in 0..j /\ Run(j, R(j))
  <2> DEFINE T == {n \in 0..j : n = j \/ t[j - n] # Db!Ask}
  <2>1. j \in T /\ T \in SUBSET Nat
    OBVIOUS
  <2>2. PICK n \in T : \A m \in T : n <= m
    BY <2>1, LeastOf
  <2>3. ASSUME NEW k \in (j - n + 1)..j PROVE t[k] = Db!Ask
    <3>1. j - k \in 0..j /\ j - k < n /\ j - (j - k) = k /\ ~(n <= j - k)
      BY <2>2
    <3>2. j - k \notin T
      BY <2>2, <3>1
    <3> QED BY <3>1, <3>2
  <2>4. n \in 0..j /\ Run(j, n)
    BY <2>2, <2>3
  <2> HIDE DEF Run
  <2> QED BY <1>1, <2>4
<1>3. ASSUME NEW j \in Nat, NEW m \in 0..j, NEW n \in 0..j, Run(j, m), Run(j, n), m < n PROVE FALSE
  <2>1. j - m \in (j - n + 1)..j /\ m # j
    BY <1>3
  <2> QED BY <1>3, <2>1
<1>4. ASSUME NEW j \in Nat, NEW n \in 0..j, Run(j, n) PROVE R(j) = n
  <2>1. R(j) \in 0..j /\ Run(j, R(j))
    BY <1>2
  <2>2. ~(R(j) < n) /\ ~(n < R(j))
    BY <1>3, <1>4, <2>1
  <2> HIDE DEF R
  <2> QED BY <2>1, <2>2
<1>5. i \in Nat
  OBVIOUS
<1>6. i = 0 => R(i) = 0
  BY <1>2, <1>5
<1>7. ASSUME i # 0, t[i] # Db!Ask PROVE R(i) = 0
  <2>1. Run(i, 0)
    BY <1>5, <1>7
  <2> HIDE DEF Run, R
  <2> QED BY <1>4, <1>5, <2>1
<1>8. ASSUME i # 0, t[i] = Db!Ask PROVE R(i) = R(i - 1) + 1
  <2>0. i - 1 \in Nat
    BY <1>5, <1>8
  <2>1. R(i - 1) \in 0..(i - 1) /\ Run(i - 1, R(i - 1))
    BY <1>2, <2>0
  <2>2. PICK n : n = R(i - 1)
    OBVIOUS
  <2>3. n \in 0..(i - 1) /\ Run(i - 1, n)
    BY <2>1, <2>2
  <2>4. Run(i, n + 1) /\ n + 1 \in 0..i
    <3>1. \A k \in (i - (n + 1) + 1)..i : k = i \/ k \in ((i - 1) - n + 1)..(i - 1)
      BY <1>5, <2>3
    <3>2. \A k \in (i - (n + 1) + 1)..i : t[k] = Db!Ask
      BY <1>8, <2>3, <3>1
    <3>3. i - (n + 1) = (i - 1) - n /\ n + 1 \in 0..i /\ (n = i - 1 => n + 1 = i)
      BY <1>5, <2>3
    <3> QED BY <2>3, <3>2, <3>3
  <2> HIDE DEF Run, R
  <2> QED BY <1>4, <1>5, <2>2, <2>4
<1> QED BY <1>2, <1>5, <1>6, <1>7, <1>8

(* Where the loop stands between two turns: not inside of a "??".          *)
Between(t, i) == i > Len(t) \/ i = 1 \/ t[i] # Db!Ask \/ Db!RunBefore(t, i - 1) % 2 = 0

LEMMA Placing ==
    ASSUME NEW S, NEW t \in Seq(S), NEW i \in 1..Len(t), Between(t, i)
    PROVE  /\ t[i] # Db!Ask => i \in Db!Kept(t) \ Db!Places(t) /\ Between(t, i + 1)
           /\ t[i] = Db!Ask /\ i < Len(t) /\ t[i + 1] = Db!Ask =>
                 i \notin Db!Kept(t) \cup Db!Places(t) /\ i + 1 \in Db!Kept(t) \ Db!Places(t) /\ Between(t, i + 2)
           /\ t[i] = Db!Ask /\ ~(i < Len(t) /\ t[i + 1] = Db!Ask) => i \in Db!Places(t) \cap Db!Kept(t) /\ Between(t, i + 1)
<1> DEFINE R(j) == Db!RunBefore(t, j)
<1>0. Len(t) \in Nat /\ DOMAIN t = 1..Len(t) /\ i \in Nat /\ i >= 1 /\ i <= Len(t)
  BY SMTT(30)
<1>a. PICK L \in Nat : L = Len(t)
  BY <1>0
<1>b. i \in Nat /\ i <= L
  BY <1>0, <1>a, SMTT(30)
<1>1. /\ \A j \in 1..Len(t) : j \in Db!Kept(t) <=> t[j] # Db!Ask \/ R(j) % 2 = 0 \/ j \in Db!Places(t)
      /\ \A j \in 1..Len(t) : j \in Db!Places(t) <=> t[j] = Db!Ask /\ R(j) % 2 = 1 /\ (j = Len(t) \/ t[j + 1] # Db!Ask)
  BY <1>0 DEF Db!Kept, Db!Places
<1>2. /\ \A j \in 0..Len(t) : R(j) \in 0..j /\ (j = 0 => R(j) = 0) /\ (j # 0 /\ t[j] # Db!Ask => R(j) = 0)
      /\ \A j \in 0..Len(t) : j # 0 /\ t[j] = Db!Ask => R(j) = R(j - 1) + 1
  BY Runs
<1>3. \A x \in Nat : x % 2 = 0 => (x + 1) % 2 = 1 /\ (x + 1 + 1) % 2 = 0
  OBVIOUS
<1> HIDE DEF R
<1>4. CASE t[i] # Db!Ask
  <2>1. i \in Db!Kept(t) \ Db!Places(t)
    BY <1>1, <1>4
  <2>2. R(i) = 0 /\ (i + 1) - 1 = i
    BY <1>2, <1>4
  <2>3. R((i + 1) - 1) % 2 = 0
    BY <2>2
  <2> QED BY <1>4, <2>1, <2>3 DEF Between, R
<1>5. CASE t[i] = Db!Ask
  <2>1. R(i - 1) % 2 = 0 /\ R(i - 1) \in Nat
    <3>1. i - 1 \in 0..Len(t) /\ (i = 1 => i - 1 = 0)
      BY <1>0
    <3>2. R(i - 1) \in 0..(i - 1) /\ (i = 1 => R(i - 1) = 0)
      BY <1>2, <3>1
    <3>3. i = 1 \/ R(i - 1) % 2 = 0
      BY <1>0, <1>5 DEF Between, R
    <3> QED BY <3>1, <3>2, <3>3
  <2>2. R(i) = R(i - 1) + 1 /\ R(i) % 2 = 1
    <3>1. i \in 0..Len(t) /\ i # 0
      BY <1>0
    <3>2. R(i) = R(i - 1) + 1
      BY <1>2, <1>5, <3>1
    <3> QED BY <1>3, <2>1, <3>2
  <2>3. CASE i < Len(t) /\ t[i + 1] = Db!Ask
    <3>1. i + 1 \in 1..Len(t) /\ i + 1 \in 0..Len(t) /\ (i + 1) - 1 = i /\ (i + 2) - 1 = i + 1 /\ i + 1 # 0 /\ i # Len(t)
      <4>1. i < L
        BY <1>a, <2>3
      <4>2. i + 1 \in 1..L /\ i + 1 \in 0..L /\ (i + 1) - 1 = i /\ (i + 2) - 1 = i + 1 /\ i + 1 # 0 /\ i # L
        BY <1>0, <4>1
      <4> QED BY <1>a, <4>2
    <3>2. R(i + 1) = R(i) + 1
      BY <1>2, <2>3, <3>1
    <3>3. R(i + 1) % 2 = 0
      BY <1>3, <2>1, <2>2, <3>2
    <3>4. i \notin Db!Kept(t) \cup Db!Places(t)
      BY <1>1, <1>5, <2>2, <2>3, <3>1
    <3>5. i + 1 \in Db!Kept(t) \ Db!Places(t)
      BY <1>1, <3>1, <3>3
    <3>6. Between(t, i + 2)
      BY <3>1, <3>3 DEF Between, R
    <3> QED BY <2>3, <1>5, <3>4, <3>5, <3>6
  <2>4. CASE ~(i < Len(t) /\ t[i + 1] = Db!Ask)
    <3>1. i = Len(t) \/ t[i + 1] # Db!Ask
      <4>1. i < L \/ i = L
        BY <1>b
      <4> QED BY <1>a, <2>4, <4>1
    <3>2. i \in Db!Places(t) \cap Db!Kept(t)
      BY <1>1, <1>5, <2>2, <3>1
    <3>3. Between(t, i + 1)
      <4>1. i = L => i + 1 > L
        BY <1>a
      <4> QED BY <1>a, <3>1, <4>1 DEF Between
    <3> QED BY <1>5, <2>4, <3>2, <3>3
  <2> QED BY <2>3, <2>4
<1> QED BY <1>4, <1>5

(* What the loop has made of the template up to its position: the tokens   *)
(* of the kept positions in their order.                                   *)
Put(t, params, i) == IF i \in Db!Places(t) THEN Db!Literal(params[Db!UpTo(Db!Places(t), i)]) ELSE t[i]
Good(t, params, made, i, idx) ==
    /\ \E X : made \in Seq(X)
    /\ idx = Db!UpTo(Db!Places(t), i - 1) /\ Len(made) = Db!UpTo(Db!Kept(t), i - 1)
    /\ \A j \in Db!Kept(t) : j < i => Db!UpTo(Db!Kept(t), j) \in 1..Len(made) /\ made[Db!UpTo(Db!Kept(t), j)] = Put(t, params, j)
    /\ \A k \in 1..Len(made) : \E j \in Db!Kept(t) : j < i /\ k = Db!UpTo(Db!Kept(t), j)

LEMMA OneMore ==
    ASSUME NEW S, NEW t \in Seq(S), NEW params, NEW made, NEW i \in 1..Len(t), NEW idx,
           Good(t, params, made, i, idx), NEW j0 \in Db!Kept(t),
           j0 = i \/ (j0 = i + 1 /\ i \notin Db!Kept(t) \cup Db!Places(t))
    PROVE  /\ Good(t, params, Append(made, Put(t, params, j0)), j0 + 1, idx + (IF j0 \in Db!Places(t) THEN 1 ELSE 0))
           /\ Db!UpTo(Db!Places(t), j0) = idx + (IF j0 \in Db!Places(t) THEN 1 ELSE 0)
<1> DEFINE K == Db!Kept(t)
           P == Db!Places(t)
           x == Put(t, params, j0)
<1>1. Len(t) \in Nat /\ K \in SUBSET (1..Len(t)) /\ P \in SUBSET (1..Len(t))
  BY DEF Db!Kept, Db!Places
<1>2. i \in Nat /\ i - 1 \in Nat /\ (i - 1) + 1 = i /\ j0 \in Nat /\ (j0 + 1) - 1 = j0 /\ i >= 1
  BY <1>1
<1>4. /\ Db!UpTo(K, j0) = Db!UpTo(K, i - 1) + (IF j0 \in K THEN 1 ELSE 0)
      /\ Db!UpTo(P, j0) = Db!UpTo(P, i - 1) + (IF j0 \in P THEN 1 ELSE 0)
  <2>1. PICK m \in Nat : m = Len(t) /\ i \in 1..m
    BY <1>1
  <2>2. K \in SUBSET (1..m) /\ P \in SUBSET (1..m)
    BY <1>1, <2>1
  <2>3. (j0 = i \/ (j0 = i + 1 /\ i \notin K)) /\ (j0 = i \/ (j0 = i + 1 /\ i \notin P))
    OBVIOUS
  <2> HIDE DEF K, P
  <2> QED BY <2>1, <2>2, <2>3, Advance
<1>5. PICK X : made \in Seq(X)
  BY DEF Good
<1>6. /\ Append(made, x) \in Seq(X \cup {x}) /\ Len(Append(made, x)) = Len(made) + 1 /\ Len(made) \in Nat
      /\ Append(made, x)[Len(made) + 1] = x /\ \A k \in 1..Len(made) : Append(made, x)[k] = made[k]
  <2>1. made \in Seq(X \cup {x}) /\ x \in X \cup {x}
    BY <1>5, SeqMonotonic
  <2> HIDE DEF x
  <2> QED BY <2>1, AppendProperties
<1>7. /\ idx = Db!UpTo(P, i - 1) /\ Len(made) = Db!UpTo(K, i - 1)
      /\ \A j \in K : j < i => Db!UpTo(K, j) \in 1..Len(made) /\ made[Db!UpTo(K, j)] = Put(t, params, j)
      /\ \A k \in 1..Len(made) : \E j \in K : j < i /\ k = Db!UpTo(K, j)
  BY DEF Good
<1>8. Db!UpTo(K, j0) = Len(made) + 1 /\ Db!UpTo(P, j0) = idx + (IF j0 \in P THEN 1 ELSE 0)
  BY <1>4, <1>7
<1> HIDE DEF x, K, P
<1>9. \A j \in K : j < j0 + 1 <=> j < i \/ j = j0
  <2>1. \A j \in K : j \in Nat
    BY <1>1
  <2>2. i \notin K => \A j \in K : j # i
    OBVIOUS
  <2>3. \A j \in Nat : j0 = i => (j < j0 + 1 <=> j < i \/ j = j0)
    BY <1>2
  <2>4. \A j \in Nat : j0 = i + 1 /\ j # i => (j < j0 + 1 <=> j < i \/ j = j0)
    BY <1>2
  <2> QED BY <2>1, <2>2, <2>3, <2>4 DEF K
<1> DEFINE more == Append(made, x)
<1>10. ASSUME NEW j \in K, j < j0 + 1 PROVE Db!UpTo(K, j) \in 1..Len(more) /\ more[Db!UpTo(K, j)] = Put(t, params, j)
  <2>1. CASE j < i
    BY <1>6, <1>7, <2>1
  <2>2. CASE j = j0
    BY <1>6, <1>8, <2>2 DEF x
  <2> QED BY <1>9, <1>10, <2>1, <2>2
<1>11. ASSUME NEW k \in 1..Len(more) PROVE \E j \in K : j < j0 + 1 /\ k = Db!UpTo(K, j)
  <2>1. CASE k = Len(made) + 1
    BY <1>8, <1>9, <2>1 DEF K
  <2>2. CASE k # Len(made) + 1
    <3>1. k \in 1..Len(made)
      BY <1>6, <2>2
    <3> QED BY <1>7, <1>9, <3>1
  <2> QED BY <2>1, <2>2
<1> QED BY <1>2, <1>6, <1>8, <1>10, <1>11 DEF Good, x, K, P

Scanned(t, params, s) ==
    /\ s.i \in 1..(Len(t) + 1) /\ Between(t, s.i) /\ s.idx \in 0..Len(params)
    /\ \/ Good(t, params, s.query, s.i, s.idx)
       \/ s.i = Len(t) + 1 /\ s.query = <<Db!Failed>> /\ s.idx = Len(params) /\ Db!Cardinality(Db!Places(t)) > Len(params)

LEMMA Scanning ==
    ASSUME NEW S, NEW t \in Seq(S), NEW V, NEW params \in Seq(V), NEW s, Scanned(t, params, s), s.i <= Len(t)
    PROVE  Scanned(t, params, Db!Turn(t, params, s)) /\ Db!Turn(t, params, s).i > s.i
<1> DEFINE K == Db!Kept(t)
           P == Db!Places(t)
           i == s.i
           n == s.idx
           r == Db!Turn(t, params, s)
<1>1. PICK L, M \in Nat : L = Len(t) /\ M = Len(params)
  OBVIOUS
<1>2. i \in Nat /\ i >= 1 /\ i <= L /\ i \in 1..Len(t) /\ n \in Nat /\ n <= M /\ Between(t, i) /\ Good(t, params, s.query, i, n)
  BY <1>1 DEF Scanned
<1>3. ~(i > Len(t))
  BY <1>1, <1>2
<1>4. CASE t[i] # Db!Ask
  <2>1. r = [query |-> Append(s.query, t[i]), i |-> i + 1, idx |-> n]
    BY <1>3, <1>4 DEF Db!Turn
  <2>2. i \in K /\ i \notin P /\ Between(t, i + 1)
    BY <1>2, <1>4, Placing
  <2>3. PICK x : x = t[i]
    OBVIOUS
  <2>4. Put(t, params, i) = x /\ n + (IF i \in P THEN 1 ELSE 0) = n
    BY <1>2, <2>2, <2>3 DEF Put
  <2>5. Good(t, params, Append(s.query, Put(t, params, i)), i + 1, n + (IF i \in P THEN 1 ELSE 0))
    BY <1>2, <2>2, OneMore
  <2>6. i + 1 \in 1..(Len(t) + 1) /\ i + 1 > i /\ n \in 0..Len(params)
    BY <1>1, <1>2
  <2>7. r.i = i + 1 /\ r.query = Append(s.query, x) /\ r.idx = n
    BY <2>1, <2>3
  <2> HIDE DEF r, i, n, K, P
  <2> QED BY <2>2, <2>4, <2>5, <2>6, <2>7 DEF Scanned, r, i
<1>5. CASE t[i] = Db!Ask /\ i < Len(t) /\ t[i + 1] = Db!Ask
  <2>1. r = [query |-> Append(s.query, Db!Ask), i |-> i + 2, idx |-> n]
    BY <1>3, <1>5 DEF Db!Turn
  <2>2. i \notin K \cup P /\ i + 1 \in K /\ i + 1 \notin P /\ Between(t, i + 2)
    BY <1>2, <1>5, Placing
  <2>3. PICK j : j = i + 1
    OBVIOUS
  <2>4. Put(t, params, j) = Db!Ask /\ n + (IF j \in P THEN 1 ELSE 0) = n
    BY <1>2, <1>5, <2>2, <2>3 DEF Put
  <2>5. Good(t, params, Append(s.query, Put(t, params, j)), j + 1, n + (IF j \in P THEN 1 ELSE 0))
    <3>1. j \in Db!Kept(t) /\ (j = i + 1 /\ i \notin Db!Kept(t) \cup Db!Places(t))
      BY <2>2, <2>3
    <3> QED BY <1>2, <3>1, OneMore
  <2>6. i + 2 \in 1..(Len(t) + 1) /\ i + 2 > i /\ n \in 0..Len(params) /\ j + 1 = i + 2
    <3>1. i < L
      BY <1>1, <1>5
    <3> QED BY <1>1, <1>2, <2>3, <3>1
  <2>7. r.i = i + 2 /\ r.query = Append(s.query, Db!Ask) /\ r.idx = n
    BY <2>1
  <2> HIDE DEF r, i, n, K, P
  <2> QED BY <2>2, <2>4, <2>5, <2>6, <2>7 DEF Scanned, r, i
<1>6. CASE t[i] = Db!Ask /\ ~(i < Len(t) /\ t[i + 1] = Db!Ask)
  <2>1. i \in P /\ i \in K /\ Between(t, i + 1)
    BY <1>2, <1>6, Placing
  <2>2. /\ Good(t, params, Append(s.query, Put(t, params, i)), i + 1, n + (IF i \in P THEN 1 ELSE 0))
        /\ Db!UpTo(P, i) = n + (IF i \in P THEN 1 ELSE 0)
    BY <1>2, <2>1, OneMore
  <2>3. Db!UpTo(P, i) = n + 1
    BY <1>2, <2>1, <2>2
  <2>4. CASE n < Len(params)
    <3>1. r = [query |-> Append(s.query, Db!Literal(params[n + 1])), i |-> i + 1, idx |-> n + 1]
      BY <1>3, <1>6, <2>4 DEF Db!Turn
    <3>2. PICK x : x = Db!Literal(params[n + 1])
      OBVIOUS
    <3>3. Put(t, params, i) = x /\ n + (IF i \in P THEN 1 ELSE 0) = n + 1
      BY <1>2, <2>1, <2>3, <3>2 DEF Put
    <3>4. Good(t, params, Append(s.query, Put(t, params, i)), i + 1, n + (IF i \in P THEN 1 ELSE 0))
      BY <1>2, <2>1, OneMore
    <3>5. i + 1 \in 1..(Len(t) + 1) /\ i + 1 > i /\ n + 1 \in 0..Len(params)
      <4>1. n < M
        BY <1>1, <2>4
      <4> QED BY <1>1, <1>2, <4>1
    <3>6. r.i = i + 1 /\ r.query = Append(s.query, x) /\ r.idx = n + 1
      BY <3>1, <3>2
    <3> HIDE DEF r, i, n, K, P
    <3> QED BY <2>1, <3>3, <3>4, <3>5, <3>6 DEF Scanned, r, i
  <2>5. CASE ~(n < Len(params))
    <3>1. r = [query |-> <<Db!Failed>>, i |-> Len(t) + 1, idx |-> n]
      BY <1>3, <1>6, <2>5 DEF Db!Turn
    <3>2. n = Len(params)
      <4>1. ~(n < M)
        BY <1>1, <2>5
      <4> QED BY <1>1, <1>2, <4>1
    <3>3. Db!Cardinality(P) > Len(params)
      <4>1. P \in SUBSET (1..L)
        BY <1>1 DEF Db!Places
      <4>2. Db!UpTo(P, i) <= Db!Cardinality(P) /\ Db!Cardinality(P) \in Nat
        BY <1>2, <4>1, Counting
      <4> QED BY <1>1, <1>2, <2>3, <3>2, <4>2
    <3>4. Len(t) + 1 \in 1..(Len(t) + 1) /\ Len(t) + 1 > i /\ n \in 0..Len(params) /\ Between(t, Len(t) + 1)
      <4>1. L + 1 \in 1..(L + 1) /\ L + 1 > i /\ n \in 0..M /\ L + 1 > L
        BY <1>2
      <4> QED BY <1>1, <4>1 DEF Between
    <3>5. r.i = Len(t) + 1 /\ r.query = <<Db!Failed>> /\ r.idx = n
      BY <3>1
    <3> HIDE DEF r, i, n, K, P
    <3> QED BY <3>2, <3>3, <3>4, <3>5 DEF Scanned, r, i, P
  <2> QED BY <2>4, <2>5
<1> QED BY <1>4, <1>5, <1>6

(* After each turn the loop stands further on, and at the end of the       *)
(* template after as many turns as it has characters.  The turns exist:    *)
(* if some number of them were the first that does not, one turn could not *)
(* be taken.                                                               *)
Start == [query |-> <<>>, i |-> 1, idx |-> 0]
Turning(t, params, m, f) ==
    f = [k \in 0..m |-> IF k = 0 THEN Start ELSE Db!Turn(t, params, f[k - 1])]

LEMMA TurnsExist ==
    ASSUME NEW t, NEW params, NEW m \in Nat
    PROVE  \E f : Turning(t, params, m, f)
<1> DEFINE T == {k \in Nat : ~ \E f : Turning(t, params, k, f)}
<1> SUFFICES ASSUME m \in T PROVE FALSE
  OBVIOUS
<1>1. PICK n \in T : \A k \in T : n <= k
  <2>1. T \in SUBSET Nat
    OBVIOUS
  <2> HIDE DEF T
  <2> QED BY <2>1, LeastOf
<1>2. n \in Nat /\ ~ \E f : Turning(t, params, n, f)
  OBVIOUS
<1>3. CASE n = 0
  <2> DEFINE f == [k \in 0..n |-> Start]
  <2>1. f = [k \in 0..n |-> IF k = 0 THEN Start ELSE Db!Turn(t, params, f[k - 1])]
    BY <1>3
  <2> HIDE DEF f
  <2> QED BY <1>2, <2>1 DEF Turning
<1>4. CASE n # 0
  <2>1. n - 1 \in Nat /\ ~(n <= n - 1)
    BY <1>2, <1>4
  <2>2. n - 1 \notin T
    BY <1>1, <2>1
  <2>3. PICK g : Turning(t, params, n - 1, g)
    BY <2>1, <2>2
  <2>4. \A k \in 0..(n - 1) : g[k] = IF k = 0 THEN Start ELSE Db!Turn(t, params, g[k - 1])
    BY <2>3 DEF Turning
  <2> DEFINE f == [k \in 0..n |-> IF k = n THEN Db!Turn(t, params, g[n - 1]) ELSE g[k]]
  <2>5. ASSUME NEW k \in 0..n PROVE f[k] = IF k = 0 THEN Start ELSE Db!Turn(t, params, f[k - 1])
    <3>1. CASE k = n
      <4>1. n - 1 \in 0..n /\ n - 1 # n /\ n \in 0..n
        BY <1>2, <1>4
      <4>2. f[n - 1] = g[n - 1] /\ f[n] = Db!Turn(t, params, g[n - 1])
        BY <4>1
      <4> QED BY <1>4, <3>1, <4>2
    <3>2. CASE k # n
      <4>1. k \in 0..(n - 1) /\ (k # 0 => k - 1 \in 0..n /\ k - 1 # n)
        BY <1>2, <3>2
      <4>2. f[k] = g[k] /\ (k # 0 => f[k - 1] = g[k - 1])
        BY <3>2, <4>1
      <4> HIDE DEF f
      <4> QED BY <2>4, <4>1, <4>2
    <3> QED BY <3>1, <3>2
  <2>6. f = [k \in 0..n |-> f[k]]
    OBVIOUS
  <2> HIDE DEF f
  <2>7. f = [k \in 0..n |-> IF k = 0 THEN Start ELSE Db!Turn(t, params, f[k - 1])]
    BY <2>5, <2>6
  <2> QED BY <1>2, <2>7 DEF Turning
<1> QED BY <1>3, <1>4

LEMMA AfterTheLoop ==
    ASSUME NEW S, NEW t \in Seq(S), NEW V, NEW params \in Seq(V)
    PROVE  \E s : /\ Scanned(t, params, s) /\ s.i = Len(t) + 1
                  /\ Db!exec(t, params) = IF s.idx # Len(params) THEN <<Db!Failed>> ELSE s.query
<1> DEFINE f == CHOOSE g : Turning(t, params, Len(t), g)
<1>1. PICK L, M \in Nat : L = Len(t) /\ M = Len(params)
  OBVIOUS
<1>2. Turning(t, params, Len(t), f)
  BY <1>1, TurnsExist
<1>3. Db!exec(t, params) = IF f[Len(t)].idx # Len(params) THEN <<Db!Failed>> ELSE f[Len(t)].query
  BY DEF Db!exec, Turning, Start
<1> HIDE DEF f
<1>4. f[0] = Start /\ \A k \in 0..L : k # 0 => f[k] = Db!Turn(t, params, f[k - 1])
  <2>1. f = [k \in 0..L |-> IF k = 0 THEN Start ELSE Db!Turn(t, params, f[k - 1])]
    BY <1>1, <1>2 DEF Turning
  <2>2. \A k \in 0..L : f[k] = IF k = 0 THEN Start ELSE Db!Turn(t, params, f[k - 1])
    BY <2>1
  <2>3. 0 \in 0..L
    OBVIOUS
  <2> QED BY <2>2, <2>3
<1>5. Scanned(t, params, Start)
  <2>1. <<>> \in Seq({}) /\ Len(<<>>) = 0
    OBVIOUS
  <2>2. Db!UpTo(Db!Places(t), 0) = 0 /\ Db!UpTo(Db!Kept(t), 0) = 0
    <3>1. Db!Places(t) \in SUBSET (1..L) /\ Db!Kept(t) \in SUBSET (1..L)
      BY <1>1 DEF Db!Places, Db!Kept
    <3> QED BY <3>1, Counting
  <2>3. \A j \in Db!Kept(t) : ~(j < 1)
    BY <1>1 DEF Db!Kept, Db!Places
  <2>4. 1 - 1 = 0 /\ 0 \in 0..Len(params) /\ 1 \in 1..(Len(t) + 1)
    <3>1. 0 \in 0..M /\ 1 \in 1..(L + 1)
      OBVIOUS
    <3> QED BY <1>1, <3>1
  <2>5. Good(t, params, <<>>, 1, 0)
    BY <2>1, <2>2, <2>3, <2>4 DEF Good
  <2>6. Between(t, 1)
    BY DEF Between
  <2>7. Start.query = <<>> /\ Start.i = 1 /\ Start.idx = 0
    BY DEF Start
  <2> QED BY <2>4, <2>5, <2>6, <2>7 DEF Scanned
<1> DEFINE Fine(k) == Scanned(t, params, f[k]) /\ (f[k].i > k \/ f[k].i = L + 1)
<1>6. \A k \in 0..L : Fine(k)
  <2> DEFINE T == {k \in 0..L : ~Fine(k)}
  <2> SUFFICES ASSUME NEW j \in T PROVE FALSE
    OBVIOUS
  <2>1. PICK k \in T : \A x \in T : k <= x
    <3>1. T \in SUBSET Nat
      OBVIOUS
    <3> HIDE DEF T
    <3> QED BY <3>1, LeastOf
  <2>2. Fine(0)
    BY <1>4, <1>5 DEF Start
  <2>3. k # 0 /\ k \in 0..L /\ ~Fine(k)
    BY <2>1, <2>2
  <2>4. k - 1 \in 0..L /\ ~(k <= k - 1)
    BY <2>3
  <2>5. Fine(k - 1)
    BY <2>1, <2>4
  <2>6. f[k] = Db!Turn(t, params, f[k - 1])
    BY <1>4, <2>3
  <2>7. PICK s : s = f[k - 1]
    OBVIOUS
  <2>8. s.i \in 1..(L + 1)
    BY <1>1, <2>5, <2>7 DEF Scanned
  <2>9. CASE s.i <= L
    <3>1. Scanned(t, params, Db!Turn(t, params, s)) /\ Db!Turn(t, params, s).i > s.i
      BY <1>1, <2>5, <2>7, <2>9, Scanning
    <3>2. Scanned(t, params, f[k]) /\ f[k].i > s.i /\ s.i > k - 1
      BY <2>5, <2>6, <2>7, <2>8, <2>9, <3>1
    <3>3. f[k].i \in 1..(L + 1)
      BY <1>1, <3>2 DEF Scanned
    <3>4. f[k].i > k
      BY <2>3, <2>8, <3>2, <3>3
    <3> QED BY <2>3, <3>2, <3>4
  <2>10. CASE ~(s.i <= L)
    <3>1. s.i = L + 1 /\ s.i > Len(t)
      BY <1>1, <2>8, <2>10
    <3>2. f[k] = s
      BY <2>6, <2>7, <3>1 DEF Db!Turn
    <3> QED BY <2>3, <2>5, <2>7, <3>1, <3>2
  <2> QED BY <2>9, <2>10
<1>7. Scanned(t, params, f[L]) /\ f[L].i = L + 1
  <2>1. L \in 0..L /\ Fine(L)
    BY <1>6
  <2>2. f[L].i \in 1..(L + 1)
    BY <1>1, <2>1 DEF Scanned
  <2> QED BY <2>1, <2>2
<1> QED BY <1>1, <1>3, <1>7

(* Of the values that a program can pass, an object alone has no SQL type. *)
IsValue(v) == v = Db!Object \/ v.kind \in {"null", "true", "false", "int", "string", "vector"}

LEMMA LiteralsOf ==
    ASSUME NEW v, IsValue(v)
    PROVE  Db!Literal(v) = Db!Failed <=> v = Db!Object
<1>1. Db!Failed = [says |-> "failed"]
  BY DEF Db!Failed, Db!Says
<1>2. CASE v = Db!Object
  BY <1>2 DEF Db!Literal, Db!Scalar, Db!Object
<1>3. CASE v # Db!Object /\ v.kind = "vector"
  <2>1. "array" \in DOMAIN Db!Literal(v)
    BY <1>3 DEF Db!Literal
  <2>2. "array" \notin DOMAIN Db!Failed
    BY <1>1
  <2> QED BY <1>3, <2>1, <2>2
<1>4. CASE v # Db!Object /\ v.kind \in {"null", "true", "false", "int", "string"}
  <2>1. Db!Literal(v) = Db!Scalar(v)
    BY <1>4 DEF Db!Literal
  <2>2. "text" \in DOMAIN Db!Scalar(v)
    BY <1>4 DEF Db!Scalar, Db!Bare, Db!Quoted
  <2>3. "text" \notin DOMAIN Db!Failed
    BY <1>1
  <2> QED BY <1>4, <2>1, <2>2, <2>3
<1> QED BY <1>2, <1>3, <1>4 DEF IsValue

(* Whatever the template and the parameters: exec does what its comment    *)
(* says.                                                                   *)
LEMMA ExecOfAnything ==
    ASSUME NEW A, NEW t \in Seq({Db!Char(a) : a \in A}), NEW V, \A v \in V : IsValue(v), NEW params \in Seq(V)
    PROVE  Db!Substituted(Db!Call(t, params))
<1> DEFINE K == Db!Kept(t)
           P == Db!Places(t)
           fits == Db!Cardinality(P) = Len(params) /\ Db!Object \notin Db!Range(params)
           q == Db!exec(t, params)
           c == Db!Call(t, params)
<1>1. PICK L, M \in Nat : L = Len(t) /\ M = Len(params) /\ DOMAIN t = 1..L /\ DOMAIN params = 1..M
  OBVIOUS
<1>2. c.template = t /\ c.params = params /\ c.query = q
  BY DEF Db!Call
<1>3. K \in SUBSET (1..L) /\ P \in SUBSET (1..L)
  BY <1>1 DEF Db!Kept, Db!Places
<1>4. PICK s : /\ Scanned(t, params, s) /\ s.i = Len(t) + 1
               /\ q = IF s.idx # Len(params) THEN <<Db!Failed>> ELSE s.query
  BY AfterTheLoop
<1>5. s.i - 1 = L /\ s.i = L + 1
  BY <1>1, <1>4
<1>6. /\ Db!UpTo(P, L) = Db!Cardinality(P) /\ Db!UpTo(K, L) = Db!Cardinality(K) /\ Db!Cardinality(P) \in Nat
      /\ \A j \in Nat : Db!UpTo(P, j) \in Nat /\ Db!UpTo(P, j) <= Db!Cardinality(P)
  BY <1>3, Counting
<1>7. ASSUME NEW v \in V PROVE Db!Literal(v) = Db!Failed <=> v = Db!Object
  BY LiteralsOf
<1>8. (\E n \in DOMAIN params : Db!Literal(params[n]) = Db!Failed) <=> Db!Object \in Db!Range(params)
  BY <1>1, <1>7 DEF Db!Range
<1>9. Db!Throws(c) <=> Db!Failed \in Db!Range(q) \/ \E n \in DOMAIN params : Db!Literal(params[n]) = Db!Failed
  BY <1>2 DEF Db!Throws
<1>10. ASSUME ~(Db!Cardinality(P) = Len(params)) PROVE Db!Throws(c) /\ ~fits
  <2>1. q = <<Db!Failed>>
    <3>1. CASE Good(t, params, s.query, s.i, s.idx)
      <4>1. s.idx = Db!UpTo(P, s.i - 1)
        BY <3>1 DEF Good
      <4> QED BY <1>4, <1>5, <1>6, <1>10, <4>1
    <3>2. CASE ~Good(t, params, s.query, s.i, s.idx)
      BY <1>4, <3>2 DEF Scanned
    <3> QED BY <3>1, <3>2
  <2>2. Db!Failed \in Db!Range(<<Db!Failed>>)
    <3>1. 1 \in DOMAIN <<Db!Failed>> /\ <<Db!Failed>>[1] = Db!Failed
      OBVIOUS
    <3> QED BY <3>1 DEF Db!Range
  <2> QED BY <1>9, <1>10, <2>1, <2>2
<1>11. ASSUME Db!Object \in Db!Range(params) PROVE Db!Throws(c) /\ ~fits
  BY <1>8, <1>9, <1>11
<1>12. ASSUME Db!Cardinality(P) = Len(params), Db!Object \notin Db!Range(params)
       PROVE  /\ ~Db!Throws(c) /\ Len(q) = Db!Cardinality(K)
              /\ \A i \in K : q[Db!UpTo(K, i)] = Put(t, params, i)
  <2>1. Good(t, params, s.query, s.i, s.idx)
    <3>1. ~(Db!Cardinality(P) > Len(params))
      BY <1>6, <1>12
    <3> QED BY <1>4, <3>1 DEF Scanned
  <2>2. /\ s.idx = Db!UpTo(P, L) /\ Len(s.query) = Db!UpTo(K, L)
        /\ \A j \in K : j < s.i => Db!UpTo(K, j) \in 1..Len(s.query) /\ s.query[Db!UpTo(K, j)] = Put(t, params, j)
        /\ \A k \in 1..Len(s.query) : \E j \in K : j < s.i /\ k = Db!UpTo(K, j)
        /\ \E X : s.query \in Seq(X)
    BY <1>5, <2>1 DEF Good
  <2>3. q = s.query /\ Len(q) = Db!Cardinality(K)
    BY <1>4, <1>6, <1>12, <2>2
  <2>4. \A j \in K : j < s.i
    BY <1>3, <1>5
  <2>5. \A i \in K : q[Db!UpTo(K, i)] = Put(t, params, i)
    <3> HIDE DEF q, K
    <3> QED BY <2>2, <2>3, <2>4
  <2>6. ASSUME NEW j \in K PROVE Put(t, params, j) # Db!Failed
    <3>0. j \in 1..L
      BY <1>3
    <3>1. CASE j \in P
      <4>1. Db!UpTo(P, j) = Db!UpTo(P, j - 1) + 1
        BY <1>3, <3>0, <3>1, Advance
      <4>2. j \in Nat /\ j - 1 \in Nat
        BY <3>0
      <4>3. Db!UpTo(P, j) \in 1..Len(params)
        BY <1>6, <1>12, <4>1, <4>2
      <4>4. params[Db!UpTo(P, j)] # Db!Object /\ params[Db!UpTo(P, j)] \in V
        <5> HIDE DEF P
        <5> QED BY <1>12, <4>3 DEF Db!Range
      <4> QED BY <1>7, <3>1, <4>4 DEF Put
    <3>2. CASE j \notin P
      <4>1. t[j] \in {Db!Char(a) : a \in A}
        BY <1>1, <3>0
      <4>2. "char" \in DOMAIN t[j]
        BY <4>1 DEF Db!Char
      <4>3. "char" \notin DOMAIN Db!Failed
        BY DEF Db!Failed, Db!Says
      <4> QED BY <3>2, <4>2, <4>3 DEF Put
    <3> QED BY <3>1, <3>2
  <2>7. Db!Failed \notin Db!Range(q)
    <3> SUFFICES ASSUME NEW k \in DOMAIN q, q[k] = Db!Failed PROVE FALSE
      BY DEF Db!Range
    <3> HIDE DEF q, K
    <3>1. k \in 1..Len(s.query)
      BY <2>2, <2>3
    <3>2. PICK j \in K : k = Db!UpTo(K, j)
      BY <2>2, <3>1
    <3> QED BY <2>5, <2>6, <3>2
  <2> QED BY <1>8, <1>9, <1>12, <2>3, <2>5, <2>7
<1>13. Db!Throws(c) <=> ~fits
  BY <1>10, <1>11, <1>12
<1>14. fits => /\ Len(q) = Db!Cardinality(K)
               /\ \A i \in K : q[Db!UpTo(K, i)] = IF i \in P THEN Db!Literal(params[Db!UpTo(P, i)]) ELSE t[i]
  BY <1>12 DEF Put
<1> QED BY <1>2, <1>13, <1>14 DEF Db!Substituted

LEMMA QueriesAreSeqs == \A X : \A n \in Nat : \A z \in Db!SeqsUpTo(X, n) : z \in Seq(X)
<1> SUFFICES ASSUME NEW X, NEW n \in Nat, NEW z \in Db!SeqsUpTo(X, n) PROVE z \in Seq(X)
  OBVIOUS
<1>1. PICK m \in 0..n : z \in [1..m -> X]
  BY DEF Db!SeqsUpTo
<1>2. m \in Nat
  OBVIOUS
<1> QED BY <1>1, <1>2

LEMMA ExecOfTheHandlers == call = Db!NoCall => Db!ExecSubstitutes
<1> SUFFICES ASSUME call = Db!NoCall PROVE Db!ExecSubstitutes
  OBVIOUS
<1>1. <<>> \in Seq({Db!Char(c) : c \in {}}) /\ <<>> \in Seq({})
  OBVIOUS
<1>2. call = Db!Call(<<>>, <<>>) /\ \A v \in {} : IsValue(v)
  BY DEF Db!NoCall
<1> QED BY <1>1, <1>2, ExecOfAnything DEF Db!ExecSubstitutes

(***************************************************************************)
(* exec puts every parameter at its place and makes "??" a '?', or throws, *)
(* whatever the template, however long, and however many parameters there  *)
(* are: the loop is followed turn by turn.                                 *)
(***************************************************************************)
THEOREM ExecIsRight == Db!Spec => []ExecSubstitutes
<1> DEFINE Inv == Db!ExecSubstitutes
<1>1. Db!Init => Inv
  <2> SUFFICES ASSUME Db!Init PROVE Inv
    OBVIOUS
  <2> DEFINE V == {Db!Object, Db!String("?"), Db!Vector(<<Db!String("?"), Db!String("")>>)}
             A == {Db!Ask, Db!Char("x")}
             C == {"?", "x"}
  <2>1. PICK t \in Db!SeqsUpTo(A, MaxTemplate), params \in Db!SeqsUpTo(V, MaxParameters) : call = Db!Call(t, params)
    BY DEF Db!Init
  <2>2. \A X : \A n \in Nat : \A z \in Db!SeqsUpTo(X, n) : z \in Seq(X)
    BY QueriesAreSeqs
  <2>3. A = {Db!Char(c) : c \in C}
    BY DEF Db!Ask
  <2>4. \A v \in V : IsValue(v)
    <3>1. \A x : IsValue(Db!String(x)) /\ IsValue(Db!Vector(x))
      BY DEF IsValue, Db!String, Db!Vector
    <3>2. IsValue(Db!Object)
      BY DEF IsValue
    <3> QED BY <3>1, <3>2
  <2> HIDE DEF V, A, C
  <2>5. t \in Seq({Db!Char(c) : c \in C}) /\ params \in Seq(V)
    BY <2>1, <2>2, <2>3, TemplateAssumption
  <2> QED BY <2>1, <2>4, <2>5, ExecOfAnything DEF Db!ExecSubstitutes
<1>2. Inv /\ [Db!Next]_(Db!vars) => Inv'
  <2> SUFFICES ASSUME Inv, [Db!Next]_(Db!vars) PROVE Inv'
    OBVIOUS
  <2>1. call' = Db!NoCall \/ call' = call
    BY DEF Db!Next, Db!vars, Db!Find, Db!Add, Db!MissingName, Db!Update
  <2>2. CASE call' = call
    BY <2>2 DEF Db!ExecSubstitutes, Db!Substituted, Db!Throws
  <2>3. CASE call' = Db!NoCall
    <3>1. (call = Db!NoCall => Db!ExecSubstitutes)'
      BY ExecOfTheHandlers, PTL
    <3> QED BY <2>3, <3>1
  <2> QED BY <2>1, <2>2, <2>3
<1> QED BY <1>1, <1>2, PTL DEF Db!Spec, ExecSubstitutes

-----------------------------------------------------------------------------
(* The items of DBTest.cpp. *)

(***************************************************************************)
(* The query of a handler, which has a character before each '?': every    *)
(* parameter is at its place, or exec throws because of an object.         *)
(***************************************************************************)
LEMMA QueriesOfHandlers ==
    ASSUME NEW n \in Nat, NEW V, \A v \in V : IsValue(v), NEW params \in Seq(V), Len(params) = n
    PROVE  LET c == Db!Call(Db!Template(n), params)
           IN /\ Db!Throws(c) <=> Db!Object \in Db!Range(params)
              /\ ~Db!Throws(c) => \A i \in 1..n : c.query[2 * i] = Db!Literal(params[i])
<1> DEFINE t == Db!Template(n)
           P == Db!Places(t)
           K == Db!Kept(t)
           c == Db!Call(t, params)
           X == {Db!Char(a) : a \in {"?", "x"}}
<1>1. /\ t \in [1..(2 * n) -> X] /\ 2 * n \in Nat
      /\ \A i \in 1..(2 * n) : t[i] = (IF i % 2 = 0 THEN Db!Ask ELSE Db!Char("x"))
  BY DEF Db!Template, Db!Ask
<1>2. t \in Seq(X) /\ Len(t) = 2 * n /\ DOMAIN t = 1..(2 * n)
  BY <1>1
<1>3. Db!Ask # Db!Char("x")
  BY DEF Db!Ask, Db!Char
<1>4. c.template = t /\ c.params = params /\ Db!Substituted(c)
  <2>1. Db!Substituted(c)
    BY <1>2, ExecOfAnything
  <2> QED BY <2>1 DEF Db!Call
<1> HIDE DEF t, c, X
<1>a. PICK m \in Nat : m = 2 * n
  BY <1>1
<1>5. ASSUME NEW i \in 1..m
      PROVE  /\ i % 2 = 0 => t[i] = Db!Ask /\ Db!RunBefore(t, i) = 1 /\ (i = m \/ t[i + 1] # Db!Ask)
             /\ i % 2 # 0 => t[i] # Db!Ask
  <2>1. i \in Nat /\ i # 0 /\ i <= m
    OBVIOUS
  <2>2. CASE i % 2 # 0
    BY <1>1, <1>3, <1>a, <2>2
  <2>3. CASE i % 2 = 0
    <3>1. t[i] = Db!Ask
      BY <1>1, <1>a, <2>3
    <3>2. i - 1 \in 1..m /\ (i - 1) % 2 # 0
      BY <2>1, <2>3
    <3>3. t[i - 1] # Db!Ask
      BY <1>1, <1>3, <1>a, <3>2
    <3>4. i - 1 \in 0..Len(t) /\ i \in 0..Len(t) /\ i - 1 # 0
      BY <1>2, <1>a, <2>1, <3>2
    <3>5. Db!RunBefore(t, i - 1) = 0
      BY <1>2, <3>3, <3>4, Runs
    <3>6. Db!RunBefore(t, i) = 1
      BY <1>2, <2>1, <3>1, <3>4, <3>5, Runs, SMTT(30)
    <3>7. i # m => i + 1 \in 1..m /\ (i + 1) % 2 # 0
      BY <2>1, <2>3
    <3>8. i # m => t[i + 1] # Db!Ask
      BY <1>1, <1>3, <1>a, <3>7
    <3> QED BY <2>3, <3>1, <3>6, <3>8
  <2> QED BY <2>2, <2>3
<1>6. P = {i \in 1..m : i % 2 = 0}
  BY <1>2, <1>5, <1>a DEF Db!Places
<1>7. K = 1..m
  <2>1. \A i \in 1..m : t[i] # Db!Ask \/ i \in P
    BY <1>5, <1>6
  <2>2. P \subseteq 1..m
    BY <1>6
  <2>3. K = {i \in 1..m : t[i] # Db!Ask \/ Db!RunBefore(t, i) % 2 = 0} \cup P
    BY <1>2, <1>a DEF Db!Kept
  <2> HIDE DEF P, K
  <2> QED BY <2>1, <2>2, <2>3
<1> HIDE DEF P, K
<1>8. /\ P \in SUBSET (1..m) /\ K \in SUBSET (1..m)
  BY <1>6, <1>7
<1>9. \A i \in 0..m : Db!UpTo(K, i) = i
  <2> DEFINE T == {i \in Nat : i <= m /\ Db!UpTo(K, i) # i}
  <2> SUFFICES ASSUME NEW j \in T PROVE FALSE
    OBVIOUS
  <2>1. PICK x \in T : \A y \in T : x <= y
    BY LeastOf
  <2>2. x # 0
    BY <1>8, <2>1, Counting
  <2>3. x - 1 \in Nat /\ x - 1 \notin T /\ x - 1 <= m
    BY <2>1, <2>2
  <2>4. Db!UpTo(K, x - 1) = x - 1
    BY <2>3
  <2>5. x \in K
    BY <1>7, <2>1, <2>2
  <2>6. Db!UpTo(K, x) = Db!UpTo(K, x - 1) + 1
    <3>1. \A i, k \in Nat : k = i + 1 => Db!UpTo(K, k) = Db!UpTo(K, i) + (IF k \in K THEN 1 ELSE 0)
      BY <1>8, Counting
    <3>2. x = (x - 1) + 1 /\ x \in Nat
      BY <2>1
    <3> QED BY <2>3, <2>5, <3>1, <3>2
  <2> QED BY <2>1, <2>4, <2>6
<1>10. \A i \in 0..n : Db!UpTo(P, 2 * i) = i
  <2> DEFINE T == {i \in Nat : i <= n /\ Db!UpTo(P, 2 * i) # i}
  <2> SUFFICES ASSUME NEW j \in T PROVE FALSE
    OBVIOUS
  <2>1. PICK x \in T : \A y \in T : x <= y
    BY LeastOf
  <2>2. x # 0
    <3>1. Db!UpTo(P, 0) = 0
      BY <1>8, Counting
    <3>2. \A z \in Nat : z = 0 => 2 * z = 0
      OBVIOUS
    <3> QED BY <2>1, <3>1, <3>2
  <2>3. PICK h \in Nat : x = h + 1 /\ h \notin T /\ h <= n
    <3>1. x - 1 \in Nat /\ x - 1 \notin T /\ x - 1 <= n /\ x = (x - 1) + 1
      BY <2>1, <2>2
    <3> QED BY <3>1
  <2>4. Db!UpTo(P, 2 * h) = h
    BY <2>3
  <2>5. PICK a, b, e \in Nat : a = 2 * h /\ b = a + 1 /\ e = b + 1 /\ e = 2 * x
    <3>1. 2 * h \in Nat /\ 2 * h + 1 \in Nat /\ 2 * h + 1 + 1 \in Nat /\ 2 * h + 1 + 1 = 2 * x
      BY <2>3
    <3> QED BY <3>1
  <2>6. b % 2 # 0 /\ e % 2 = 0 /\ e \in 1..m
    BY <1>a, <2>1, <2>3, <2>5
  <2>7. b \notin P /\ e \in P
    BY <1>6, <2>6
  <2>8. \A i, k \in Nat : k = i + 1 => Db!UpTo(P, k) = Db!UpTo(P, i) + (IF k \in P THEN 1 ELSE 0)
    BY <1>8, Counting
  <2>9. Db!UpTo(P, b) = h + 0 /\ Db!UpTo(P, e) = Db!UpTo(P, b) + 1
    BY <2>4, <2>5, <2>7, <2>8
  <2> QED BY <2>1, <2>3, <2>5, <2>9
<1>11. Db!Cardinality(P) = n
  <2>1. Db!UpTo(P, m) = Db!Cardinality(P)
    BY <1>8, Counting
  <2>2. n \in 0..n
    OBVIOUS
  <2> QED BY <1>10, <1>a, <2>1, <2>2
<1>12. Db!Throws(c) <=> Db!Object \in Db!Range(params)
  BY <1>4, <1>11 DEF Db!Substituted, P
<1>13. ASSUME ~Db!Throws(c), NEW i \in 1..n PROVE c.query[2 * i] = Db!Literal(params[i])
  <2>1. 2 * i \in K /\ Db!UpTo(K, 2 * i) = 2 * i /\ 2 * i \in P /\ Db!UpTo(P, 2 * i) = i
    <3>1. 2 * i \in 1..m /\ (2 * i) % 2 = 0
      BY <1>a
    <3> QED BY <1>6, <1>7, <1>9, <1>10, <3>1
  <2>2. \A k \in K : c.query[Db!UpTo(K, k)] = IF k \in P THEN Db!Literal(params[Db!UpTo(P, k)]) ELSE t[k]
    BY <1>4, <1>13 DEF Db!Substituted, P, K
  <2> QED BY <2>1, <2>2
<1> QED BY <1>12, <1>13 DEF c, t

(***************************************************************************)
(* From a value to its literal and on to the cell it becomes.              *)
(***************************************************************************)
LEMMA Cells ==
    /\ Db!Cell(Db!Literal(Db!Null)) = Db!Null
    /\ Db!Cell(Db!Literal(Db!True)) = Db!Text("true")
    /\ Db!Cell(Db!Literal(Db!False)) = Db!Text("false")
    /\ \A x : Db!Cell(Db!Literal(Db!String(x))) = Db!Text(x)
    /\ \A x : x # "null" => Db!Cell(Db!Literal(Db!Number(x))) = Db!Text(x)
<1>1. /\ Db!Literal(Db!Null) = Db!Bare("null") /\ Db!Literal(Db!True) = Db!Bare("true") /\ Db!Literal(Db!False) = Db!Bare("false")
      /\ \A x : Db!Literal(Db!String(x)) = Db!Quoted(x) /\ Db!Literal(Db!Number(x)) = Db!Bare(x)
  BY DEF Db!Literal, Db!Scalar, Db!Null, Db!True, Db!False, Db!String, Db!Number
<1>2. \A x : Db!Quoted(x) # Db!Bare("null") /\ Db!Quoted(x).text = x
  BY DEF Db!Quoted, Db!Bare
<1>3. \A x : (x # "null" => Db!Bare(x) # Db!Bare("null")) /\ Db!Bare(x).text = x
  BY DEF Db!Bare
<1> QED BY <1>1, <1>2, <1>3 DEF Db!Cell

(* What a client may send and the defaults make of it.                     *)
LEMMA CompletedItems ==
    ASSUME NEW item \in Db!Items, item.name # Db!Missing
    PROVE  LET done == Db!Completed(item)
           IN /\ done.name = item.name /\ done.name \in {Db!Null} \cup {Db!String(n) : n \in Names}
              /\ done.active \in {Db!True, Db!False}
              /\ done.email \in {Db!Null, Db!Object} \cup {Db!String(e) : e \in Emails}
              /\ done.code \in {Db!Null} \cup {Db!Number(n) : n \in Codes}
              /\ done = [name |-> done.name, active |-> done.active, email |-> done.email, code |-> done.code]
              /\ done # Db!Missing
<1> DEFINE done == Db!Completed(item)
<1>1. /\ item \in [name : {Db!Missing, Db!Null} \cup {Db!String(n) : n \in Names}, active : {Db!Missing, Db!False},
                   email : {Db!Missing, Db!Object} \cup {Db!String(e) : e \in Emails},
                   code : {Db!Missing} \cup {Db!Number(n) : n \in Codes}]
  BY DEF Db!Items
<1>2. PICK a, b, d : /\ a = (IF item.active = Db!Missing THEN Db!True ELSE item.active)
                     /\ b = (IF item.email = Db!Missing THEN Db!Null ELSE item.email)
                     /\ d = (IF item.code = Db!Missing THEN Db!Null ELSE item.code)
  OBVIOUS
<1>3. done = [item EXCEPT !.active = a, !.email = b, !.code = d]
  BY <1>2 DEF Db!Completed
<1>4. /\ a \in {Db!True, Db!False} /\ b \in {Db!Null, Db!Object} \cup {Db!String(e) : e \in Emails}
      /\ d \in {Db!Null} \cup {Db!Number(n) : n \in Codes}
  BY <1>1, <1>2
<1>5. done = [name |-> item.name, active |-> a, email |-> b, code |-> d]
  BY <1>1, <1>3
<1>6. done # Db!Missing
  <2>1. "name" \in DOMAIN done
    BY <1>5
  <2>2. "name" \notin DOMAIN Db!Missing
    BY DEF Db!Missing
  <2> QED BY <2>1, <2>2
<1> HIDE DEF done
<1>7. done.name = item.name /\ done.active = a /\ done.email = b /\ done.code = d
  BY <1>5
<1>8. item.name \in {Db!Null} \cup {Db!String(n) : n \in Names}
  BY <1>1
<1> QED BY <1>4, <1>5, <1>6, <1>7, <1>8 DEF done

(***************************************************************************)
(* A statement with the values of an item, and perhaps a parameter more,   *)
(* throws because of an email that is an object, or makes a row that is    *)
(* read back as the item.                                                  *)
(***************************************************************************)
LEMMA RowsOfItems ==
    ASSUME NEW item \in Db!Items, item.name # Db!Missing, NEW n \in {4, 5}, NEW more,
           NEW params, \/ n = 4 /\ params = Db!Values(Db!Completed(item))
                       \/ n = 5 /\ params = Append(Db!Values(Db!Completed(item)), Db!String(more))
    PROVE  LET c == Db!Call(Db!Template(n), params)
               row == Db!Row(c.query)
           IN ~Db!Throws(c) =>
                 \/ item.name = Db!Null /\ row[1] = Db!Null
                 \/ \E name \in Names : /\ item.name = Db!String(name) /\ row[1] = Db!Text(name)
                                        /\ Db!convert_row(row) = Db!Completed(item)
<1> DEFINE done == Db!Completed(item)
           vs == Db!Values(done)
           V == {done.name, done.active, done.email, done.code, Db!String(more)}
           c == Db!Call(Db!Template(n), params)
           row == Db!Row(c.query)
<1>1. /\ done.name = item.name /\ done.name \in {Db!Null} \cup {Db!String(m) : m \in Names}
      /\ done.active \in {Db!True, Db!False}
      /\ done.email \in {Db!Null, Db!Object} \cup {Db!String(e) : e \in Emails}
      /\ done.code \in {Db!Null} \cup {Db!Number(m) : m \in Codes}
      /\ done = [name |-> done.name, active |-> done.active, email |-> done.email, code |-> done.code]
  BY CompletedItems
<1> HIDE DEF done
<1>2. /\ vs \in Seq(V) /\ Len(vs) = 4
      /\ vs[1] = done.name /\ vs[2] = done.active /\ vs[3] = done.email /\ vs[4] = done.code
  BY DEF Db!Values
<1>3. \A v \in V : IsValue(v)
  <2>1. \A x : IsValue(Db!String(x)) /\ IsValue(Db!Number(x))
    BY DEF IsValue, Db!String, Db!Number
  <2>2. IsValue(Db!Null) /\ IsValue(Db!True) /\ IsValue(Db!False) /\ IsValue(Db!Object)
    BY DEF IsValue, Db!Null, Db!True, Db!False
  <2> QED BY <1>1, <2>1, <2>2
<1> HIDE DEF vs
<1>4. params \in Seq(V) /\ Len(params) = n /\ \A i \in 1..4 : params[i] = vs[i]
  <2>1. CASE n = 4
    BY <1>2, <2>1 DEF vs, done
  <2>2. CASE n = 5
    <3>1. params = Append(vs, Db!String(more)) /\ Db!String(more) \in V
      BY <2>2 DEF vs, done
    <3> HIDE DEF V
    <3>2. PICK x \in V : x = Db!String(more)
      BY <3>1
    <3>3. Append(vs, x) \in Seq(V) /\ Len(Append(vs, x)) = 5 /\ \A i \in 1..4 : Append(vs, x)[i] = vs[i]
      <4>1. \A L \in Nat : Len(vs) = L => Len(Append(vs, x)) = L + 1 /\ \A i \in 1..L : Append(vs, x)[i] = vs[i]
        BY <1>2
      <4>2. Append(vs, x) \in Seq(V)
        BY <1>2
      <4> QED BY <1>2, <4>1, <4>2
    <3> QED BY <2>2, <3>1, <3>2, <3>3
  <2> QED BY <2>1, <2>2
<1> HIDE DEF V
<1>b. n \in Nat
  OBVIOUS
<1>5. /\ Db!Throws(c) <=> Db!Object \in Db!Range(params)
      /\ ~Db!Throws(c) => \A i \in 1..n : c.query[2 * i] = Db!Literal(params[i])
  BY <1>3, <1>4, <1>b, QueriesOfHandlers
<1> HIDE DEF c
<1> SUFFICES ASSUME ~Db!Throws(c)
             PROVE  \/ item.name = Db!Null /\ row[1] = Db!Null
                    \/ \E name \in Names : item.name = Db!String(name) /\ row[1] = Db!Text(name) /\ Db!convert_row(row) = done
  BY DEF c, done
<1>6. /\ c.query[2] = Db!Literal(done.name) /\ c.query[4] = Db!Literal(done.active)
      /\ c.query[6] = Db!Literal(done.email) /\ c.query[8] = Db!Literal(done.code)
  <2>1. \A i \in 1..4 : c.query[2 * i] = Db!Literal(vs[i])
    BY <1>4, <1>5
  <2>2. 1 \in 1..4 /\ 2 \in 1..4 /\ 3 \in 1..4 /\ 4 \in 1..4 /\ 2 * 1 = 2 /\ 2 * 2 = 4 /\ 2 * 3 = 6 /\ 2 * 4 = 8
    OBVIOUS
  <2> QED BY <1>2, <2>1, <2>2
<1>7. /\ row[1] = Db!Cell(Db!Literal(done.name)) /\ row[2] = Db!Cell(Db!Literal(done.active))
      /\ row[3] = Db!Cell(Db!Literal(done.email)) /\ row[4] = Db!Cell(Db!Literal(done.code))
  BY <1>6 DEF Db!Row
<1> HIDE DEF row
<1>8. done.email # Db!Object
  <2>1. params[3] = done.email /\ 3 \in DOMAIN params
    BY <1>2, <1>4
  <2> QED BY <1>5, <2>1 DEF Db!Range
<1>a. \A x : Db!Text(x).is = x /\ Db!Text(x) # Db!Null
  BY DEF Db!Text, Db!Null
<1>9. CASE done.name = Db!Null
  BY <1>1, <1>7, <1>9, Cells
<1>10. CASE done.name # Db!Null
  <2>1. PICK name \in Names : done.name = Db!String(name) /\ row[1] = Db!Text(name)
    BY <1>1, <1>7, <1>10, Cells
  <2>2. Db!Field("name", row[1]) = done.name
    BY <1>a, <2>1 DEF Db!Field
  <2>3. Db!Field("active", row[2]) = done.active
    <3>1. CASE done.active = Db!True
      <4>1. row[2] = Db!Text("true")
        BY <1>7, <3>1, Cells
      <4> QED BY <1>a, <3>1, <4>1 DEF Db!Field
    <3>2. CASE done.active = Db!False
      <4>1. row[2] = Db!Text("false")
        BY <1>7, <3>2, Cells
      <4> QED BY <1>a, <3>2, <4>1 DEF Db!Field
    <3> QED BY <1>1, <3>1, <3>2
  <2>4. Db!Field("email", row[3]) = done.email
    <3>1. \/ row[3] = Db!Null /\ done.email = Db!Null
          \/ \E e : row[3] = Db!Text(e) /\ done.email = Db!String(e)
      BY <1>1, <1>7, <1>8, Cells
    <3> QED BY <1>a, <3>1 DEF Db!Field
  <2>5. Db!Field("code", row[4]) = done.code
    <3>1. \/ row[4] = Db!Null /\ done.code = Db!Null
          \/ \E e : row[4] = Db!Text(e) /\ done.code = Db!Number(e)
      BY <1>1, <1>7, Cells, CodeAssumption
    <3> QED BY <1>a, <3>1 DEF Db!Field
  <2>6. Db!convert_row(row) = done
    BY <1>1, <2>2, <2>3, <2>4, <2>5 DEF Db!convert_row
  <2> QED BY <1>1, <2>1, <2>6
<1> QED BY <1>9, <1>10

(* The table and what its clients sent: a row for each item, the item for  *)
(* each row.                                                               *)
DbInv ==
    /\ \E R : table \in Seq(R)
    /\ DOMAIN stored = Names
    /\ \A i \in DOMAIN table : \E n \in Names : /\ table[i][1] = Db!Text(n) /\ stored[n] # Db!Missing
                                                /\ Db!convert_row(table[i]) = stored[n]
    /\ \A i, j \in DOMAIN table : table[i][1] = table[j][1] => i = j
    /\ \A n \in Names : stored[n] # Db!Missing => \E i \in DOMAIN table : table[i][1] = Db!Text(n)

LEMMA Texts == \A x, y : Db!Text(x).is = x /\ Db!Text(x) # Db!Null /\ (Db!Text(x) = Db!Text(y) => x = y)
  BY DEF Db!Text, Db!Null

LEMMA DbAdd == ASSUME DbInv, NEW item \in Db!Items, Db!Add(item) PROVE DbInv'
<1> DEFINE c == Db!Call(Db!Template(4), Db!Values(Db!Completed(item)))
           row == Db!Row(c.query)
<1>1. item.name # Db!Missing
  BY DEF Db!Add
<1>2. CASE Db!Throws(c) \/ Db!Violates(row, DOMAIN table)
  <2>1. UNCHANGED <<table, stored>>
    BY <1>2 DEF Db!Add, Db!Refuse
  <2>2. DbInv' <=> DbInv
    BY <2>1 DEF DbInv
  <2> QED BY <2>2
<1>3. CASE ~(Db!Throws(c) \/ Db!Violates(row, DOMAIN table))
  <2>1. /\ table' = Append(table, row)
        /\ stored' = [n \in Names |-> IF n = item.name.is THEN Db!Completed(item) ELSE stored[n]]
    BY <1>3 DEF Db!Add, Db!Save
  <2>2. PICK name \in Names : item.name = Db!String(name) /\ row[1] = Db!Text(name) /\ Db!convert_row(row) = Db!Completed(item)
    <3>1. row[1] # Db!Null
      BY <1>3 DEF Db!Violates
    <3> QED BY <1>1, <1>3, <3>1, RowsOfItems
  <2>3. \A i \in DOMAIN table : table[i][1] # row[1]
    BY <1>3 DEF Db!Violates
  <2>4. item.name.is = name
    BY <2>2 DEF Db!String
  <2>5. PICK done : done = Db!Completed(item) /\ done # Db!Missing
    BY <1>1, CompletedItems
  <2> HIDE DEF row, c
  <2>6. PICK r : r = row
    OBVIOUS
  <2>7. /\ stored' = [n \in Names |-> IF n = name THEN done ELSE stored[n]] /\ table' = Append(table, r)
        /\ r[1] = Db!Text(name) /\ Db!convert_row(r) = done /\ \A i \in DOMAIN table : table[i][1] # r[1]
    BY <2>1, <2>2, <2>3, <2>4, <2>5, <2>6
  <2>8. PICK R : table \in Seq(R)
    BY DEF DbInv
  <2>9. PICK m \in Nat : m = Len(table) /\ DOMAIN table = 1..m
    BY <2>8
  <2>10. /\ table' \in Seq(R \cup {r}) /\ DOMAIN table' = 1..(m + 1) /\ table'[m + 1] = r
         /\ \A i \in 1..m : table'[i] = table[i]
    <3>1. table \in Seq(R \cup {r}) /\ r \in R \cup {r}
      BY <2>8
    <3> HIDE DEF DbInv
    <3> QED BY <2>7, <2>9, <3>1
  <2>11. \A i \in 1..m : \E n \in Names : /\ table[i][1] = Db!Text(n) /\ stored[n] # Db!Missing
                                          /\ Db!convert_row(table[i]) = stored[n]
    BY <2>9 DEF DbInv
  <2>12. \A i \in DOMAIN table' : \E n \in Names : /\ table'[i][1] = Db!Text(n) /\ stored'[n] # Db!Missing
                                                   /\ Db!convert_row(table'[i]) = stored'[n]
    <3> TAKE i \in DOMAIN table'
    <3>1. CASE i = m + 1
      BY <2>5, <2>7, <2>10, <3>1
    <3>2. CASE i \in 1..m
      <4>1. PICK n \in Names : table[i][1] = Db!Text(n) /\ stored[n] # Db!Missing /\ Db!convert_row(table[i]) = stored[n]
        BY <2>11, <3>2
      <4>2. n # name
        BY <2>7, <2>9, <3>2, <4>1
      <4>3. stored'[n] = stored[n] /\ table'[i] = table[i]
        BY <2>7, <2>10, <3>2, <4>2
      <4> QED BY <4>1, <4>3
    <3> QED BY <2>10, <3>1, <3>2
  <2>13. \A i, j \in DOMAIN table' : table'[i][1] = table'[j][1] => i = j
    <3>1. \A i, j \in 1..m : table[i][1] = table[j][1] => i = j
      BY <2>9 DEF DbInv
    <3>2. \A i \in DOMAIN table' : i = m + 1 \/ i \in 1..m
      BY <2>10
    <3>3. \A i \in 1..m : table'[i] = table[i] /\ table[i][1] # r[1]
      BY <2>7, <2>9, <2>10
    <3> QED BY <2>10, <3>1, <3>2, <3>3
  <2>14. \A n \in Names : stored'[n] # Db!Missing => \E i \in DOMAIN table' : table'[i][1] = Db!Text(n)
    <3> SUFFICES ASSUME NEW n \in Names, stored'[n] # Db!Missing PROVE \E i \in DOMAIN table' : table'[i][1] = Db!Text(n)
      OBVIOUS
    <3>1. CASE n = name
      <4>1. m + 1 \in DOMAIN table' /\ table'[m + 1][1] = Db!Text(n)
        BY <2>7, <2>10, <3>1
      <4> QED BY <4>1
    <3>2. CASE n # name
      <4>1. stored[n] # Db!Missing
        BY <2>7, <3>2
      <4>2. PICK i \in DOMAIN table : table[i][1] = Db!Text(n)
        BY <4>1 DEF DbInv
      <4>3. i \in DOMAIN table' /\ table'[i] = table[i]
        BY <2>9, <2>10, <4>2
      <4> QED BY <4>2, <4>3
    <3> QED BY <3>1, <3>2
  <2>15. DOMAIN stored' = Names
    BY <2>7
  <2> QED BY <2>10, <2>12, <2>13, <2>14, <2>15 DEF DbInv
<1> QED BY <1>2, <1>3

LEMMA DbUpdate == ASSUME DbInv, NEW old \in Names, NEW item \in Db!Items, Db!Update(old, item) PROVE DbInv'
<1> DEFINE c == Db!Call(Db!Template(5), Append(Db!Values(Db!Completed(item)), Db!String(old)))
           row == Db!Row(c.query)
<1>1. item.name # Db!Missing
  BY DEF Db!Update
<1>2. CASE UNCHANGED <<table, stored>>
  <2>2. DbInv' <=> DbInv
    BY <1>2 DEF DbInv
  <2> QED BY <2>2
<1>3. CASE ~UNCHANGED <<table, stored>>
  <2>1. /\ ~Db!Throws(c) /\ Db!RowsOf(old) # {} /\ ~Db!Violates(row, DOMAIN table \ Db!RowsOf(old))
        /\ table' = [i \in DOMAIN table |-> IF table[i][1].is = old THEN row ELSE table[i]]
        /\ stored' = [n \in Names |-> IF n = item.name.is THEN Db!Completed(item) ELSE [stored EXCEPT ![old] = Db!Missing][n]]
    BY <1>3 DEF Db!Update, Db!Refuse, Db!Save
  <2>2. PICK name \in Names : item.name = Db!String(name) /\ row[1] = Db!Text(name) /\ Db!convert_row(row) = Db!Completed(item)
    <3>1. row[1] # Db!Null
      BY <2>1 DEF Db!Violates
    <3> QED BY <1>1, <2>1, <3>1, RowsOfItems
  <2>3. item.name.is = name
    BY <2>2 DEF Db!String
  <2>4. PICK done : done = Db!Completed(item) /\ done # Db!Missing
    BY <1>1, CompletedItems
  <2>5. \A i \in DOMAIN table : table[i][1].is # old => table[i][1] # row[1]
    BY <2>1 DEF Db!Violates, Db!RowsOf
  <2>6. PICK i0 \in DOMAIN table : table[i0][1].is = old
    BY <2>1 DEF Db!RowsOf
  <2> HIDE DEF row, c
  <2>7. PICK r : r = row
    OBVIOUS
  <2>8. /\ table' = [i \in DOMAIN table |-> IF table[i][1].is = old THEN r ELSE table[i]]
        /\ \A n \in Names : stored'[n] = IF n = name THEN done ELSE IF n = old THEN Db!Missing ELSE stored[n]
        /\ r[1] = Db!Text(name) /\ Db!convert_row(r) = done
        /\ \A i \in DOMAIN table : table[i][1].is # old => table[i][1] # r[1]
    <3>1. DOMAIN stored = Names
      BY DEF DbInv
    <3> QED BY <2>1, <2>2, <2>3, <2>4, <2>5, <2>7, <3>1
  <2>9. PICK R : table \in Seq(R)
    BY DEF DbInv
  <2>10. PICK m \in Nat : m = Len(table) /\ DOMAIN table = 1..m
    BY <2>9
  <2>11. table' \in Seq(R \cup {r}) /\ DOMAIN table' = 1..m
    <3>1. \A i \in 1..m : table[i] \in R
      BY <2>9, <2>10
    <3>2. table' \in [1..m -> R \cup {r}]
      BY <2>8, <2>10, <3>1
    <3> QED BY <3>2
  <2>12. \A i \in 1..m : \E n \in Names : /\ table[i][1] = Db!Text(n) /\ table[i][1].is = n /\ stored[n] # Db!Missing
                                          /\ Db!convert_row(table[i]) = stored[n]
    BY <2>10, Texts DEF DbInv
  <2>13. \A i \in 1..m : table[i][1].is = old <=> i = i0
    <3>1. \A i, j \in 1..m : table[i][1] = table[j][1] => i = j
      BY <2>10 DEF DbInv
    <3> QED BY <2>6, <2>10, <2>12, <3>1
  <2>14. \A i \in 1..m : table'[i] = IF i = i0 THEN r ELSE table[i]
    BY <2>8, <2>10, <2>13
  <2>15. \A i \in 1..m : i # i0 => table[i][1] # r[1]
    BY <2>8, <2>10, <2>13
  <2>16. \A i \in DOMAIN table' : \E n \in Names : /\ table'[i][1] = Db!Text(n) /\ stored'[n] # Db!Missing
                                                   /\ Db!convert_row(table'[i]) = stored'[n]
    <3> TAKE i \in DOMAIN table'
    <3>1. CASE i = i0
      BY <2>4, <2>8, <2>11, <2>14, <3>1
    <3>2. CASE i # i0
      <4>1. PICK n \in Names : /\ table[i][1] = Db!Text(n) /\ table[i][1].is = n /\ stored[n] # Db!Missing
                               /\ Db!convert_row(table[i]) = stored[n]
        BY <2>11, <2>12
      <4>2. n # name /\ n # old
        BY <2>8, <2>11, <2>13, <2>15, <3>2, <4>1
      <4>3. stored'[n] = stored[n] /\ table'[i] = table[i]
        BY <2>8, <2>11, <2>14, <3>2, <4>2
      <4> QED BY <4>1, <4>3
    <3> QED BY <3>1, <3>2
  <2>17. \A i, j \in DOMAIN table' : table'[i][1] = table'[j][1] => i = j
    <3>1. \A i, j \in 1..m : table[i][1] = table[j][1] => i = j
      BY <2>10 DEF DbInv
    <3> QED BY <2>11, <2>14, <2>15, <3>1
  <2>18. \A n \in Names : stored'[n] # Db!Missing => \E i \in DOMAIN table' : table'[i][1] = Db!Text(n)
    <3> SUFFICES ASSUME NEW n \in Names, stored'[n] # Db!Missing PROVE \E i \in DOMAIN table' : table'[i][1] = Db!Text(n)
      OBVIOUS
    <3>1. CASE n = name
      BY <2>6, <2>8, <2>10, <2>11, <2>14, <3>1
    <3>2. CASE n # name
      <4>1. stored[n] # Db!Missing /\ n # old
        BY <2>8, <3>2
      <4>2. PICK i \in DOMAIN table : table[i][1] = Db!Text(n)
        BY <4>1 DEF DbInv
      <4>3. i # i0
        BY <2>6, <4>1, <4>2, Texts
      <4>4. i \in DOMAIN table' /\ table'[i] = table[i]
        BY <2>10, <2>11, <2>14, <4>2, <4>3
      <4> QED BY <4>2, <4>4
    <3> QED BY <3>1, <3>2
  <2>19. DOMAIN stored' = Names
    BY <2>1
  <2> QED BY <2>11, <2>16, <2>17, <2>18, <2>19 DEF DbInv
<1> QED BY <1>2, <1>3

(***************************************************************************)
(* Whatever items are added and updated, and whatever calls fail, an item  *)
(* is found as it was sent last, for any number of names and rows: every   *)
(* value comes back from its literal and its cell, and no two rows have    *)
(* one name.                                                               *)
(***************************************************************************)
THEOREM ItemsAreFound == Db!Spec => FoundAsStored
<1>1. Db!Init => DbInv
  <2> SUFFICES ASSUME Db!Init PROVE DbInv
    OBVIOUS
  <2>1. table = <<>> /\ stored = [n \in Names |-> Db!Missing]
    BY DEF Db!Init
  <2>2. table \in Seq({}) /\ DOMAIN table = {}
    BY <2>1
  <2> QED BY <2>1, <2>2 DEF DbInv
<1>2. DbInv /\ [Db!Next]_(Db!vars) => DbInv'
  <2> SUFFICES ASSUME DbInv, [Db!Next]_(Db!vars) PROVE DbInv'
    OBVIOUS
  <2>1. CASE UNCHANGED <<table, stored>>
    <3>1. DbInv' <=> DbInv
      BY <2>1 DEF DbInv
    <3> QED BY <3>1
  <2>2. ASSUME NEW item \in Db!Items, Db!Add(item) PROVE DbInv'
    BY <2>2, DbAdd
  <2>3. ASSUME NEW n \in Names, NEW item \in Db!Items, Db!Update(n, item) PROVE DbInv'
    BY <2>3, DbUpdate
  <2>4. \/ UNCHANGED <<table, stored>>
        \/ \E item \in Db!Items : Db!Add(item)
        \/ \E n \in Names, item \in Db!Items : Db!Update(n, item)
    BY DEF Db!Next, Db!vars, Db!Find, Db!MissingName
  <2> QED BY <2>1, <2>2, <2>3, <2>4
<1>3. DbInv => \A n \in Names : Db!Find(n) => answer' = IF stored[n] = Db!Missing THEN Db!Says("not found") ELSE stored[n]
  <2> SUFFICES ASSUME DbInv, NEW n \in Names, Db!Find(n)
               PROVE  answer' = IF stored[n] = Db!Missing THEN Db!Says("not found") ELSE stored[n]
    OBVIOUS
  <2>1. answer' = Db!convert_to_optional(Db!RowsOf(n))
    BY DEF Db!Find
  <2>2. \A i \in DOMAIN table : i \in Db!RowsOf(n) <=> table[i][1] = Db!Text(n)
    BY Texts DEF DbInv, Db!RowsOf
  <2>3. Db!RowsOf(n) \subseteq DOMAIN table
    BY DEF Db!RowsOf
  <2>4. CASE stored[n] = Db!Missing
    <3>1. Db!RowsOf(n) = {}
      BY <2>2, <2>3, <2>4, Texts DEF DbInv
    <3> QED BY <2>1, <2>4, <3>1 DEF Db!convert_to_optional
  <2>5. CASE stored[n] # Db!Missing
    <3>1. PICK i \in DOMAIN table : table[i][1] = Db!Text(n)
      BY <2>5 DEF DbInv
    <3>2. Db!RowsOf(n) = {i}
      BY <2>2, <2>3, <3>1 DEF DbInv
    <3>3. Db!convert_to_optional(Db!RowsOf(n)) = Db!convert_row(table[i])
      BY <3>2 DEF Db!convert_to_optional
    <3>4. Db!convert_row(table[i]) = stored[n]
      BY <3>1, Texts DEF DbInv
    <3> QED BY <2>1, <2>5, <3>3, <3>4
  <2> QED BY <2>4, <2>5
<1>4. DbInv /\ [Db!Next]_(Db!vars) =>
        [\A n \in Names : Db!Find(n) => answer' = IF stored[n] = Db!Missing THEN Db!Says("not found") ELSE stored[n]]_(Db!vars)
  BY <1>3
<1> QED BY <1>1, <1>2, <1>4, PTL DEF Db!Spec, FoundAsStored, Db!FoundAsStored

-----------------------------------------------------------------------------
(* UrlParams: every pair of a text is stored once.                         *)

LEMMA SameCounts == \A I, i : Params!UpTo(I, i) = Db!UpTo(I, i) /\ Params!Cardinality(I) = Db!Cardinality(I)
  BY DEF Params!UpTo, Db!UpTo, Params!Cardinality, Db!Cardinality

(* The positions of a set, by their ranks.                                 *)
LEMMA Ranks ==
    ASSUME NEW m \in Nat, NEW I \in SUBSET (1..m)
    PROVE  /\ Params!Cardinality(I) \in Nat
           /\ \A i \in I : Params!UpTo(I, i) \in 1..Params!Cardinality(I)
           /\ \A i, j \in I : Params!UpTo(I, i) = Params!UpTo(I, j) => i = j
           /\ \A n \in 1..Params!Cardinality(I) : \E i \in I : Params!UpTo(I, i) = n
           /\ \A i, j \in I : i <= j => Params!UpTo(I, i) <= Params!UpTo(I, j)
<1> DEFINE U(i) == Params!UpTo(I, i)
           C == Params!Cardinality(I)
<1>1. /\ IsFiniteSet(I) /\ C \in Nat /\ U(0) = 0 /\ U(m) = C
      /\ \A i \in Nat : U(i) \in Nat /\ U(i) <= C
      /\ \A i, j \in Nat : j = i + 1 => U(j) = U(i) + (IF j \in I THEN 1 ELSE 0)
  BY Counting, SameCounts
<1>2. ASSUME NEW i \in Nat, NEW j \in Nat, i <= j PROVE U(i) <= U(j)
  <2>1. {x \in I : x <= i} \subseteq {x \in I : x <= j} /\ {x \in I : x <= j} \subseteq I
    <3>1. \A x \in I : x \in Nat
      OBVIOUS
    <3>2. \A x \in I : x <= i => x <= j
      BY <1>2, <3>1
    <3> QED BY <3>2
  <2>2. IsFiniteSet({x \in I : x <= j})
    BY <1>1, <2>1, FS_Subset
  <2>3. Cardinality({x \in I : x <= i}) <= Cardinality({x \in I : x <= j})
    BY <2>1, <2>2, FS_Subset
  <2> QED BY <2>3 DEF Params!UpTo, Params!Cardinality, Cardinality
<1> HIDE DEF U, C
<1>3. \A i \in I : i \in Nat /\ i # 0 /\ i <= m
  OBVIOUS
<1>4. ASSUME NEW i \in I PROVE U(i) \in 1..C /\ U(i) = U(i - 1) + 1 /\ U(i - 1) \in Nat
  <2>1. i - 1 \in Nat /\ i = (i - 1) + 1 /\ i \in Nat
    BY <1>3
  <2>2. U(i) = U(i - 1) + 1
    BY <1>1, <2>1
  <2> QED BY <1>1, <2>1, <2>2
<1>5. ASSUME NEW i \in I, NEW j \in I, i < j PROVE U(i) # U(j)
  <2>1. i \in Nat /\ j - 1 \in Nat /\ i <= j - 1
    BY <1>3, <1>5
  <2>2. U(i) <= U(j - 1)
    BY <1>2, <2>1
  <2>3. U(j) = U(j - 1) + 1 /\ U(j - 1) \in Nat /\ U(i) \in Nat
    BY <1>1, <1>4, <2>1
  <2> QED BY <2>2, <2>3
<1>6. \A i, j \in I : U(i) = U(j) => i = j
  <2> SUFFICES ASSUME NEW i \in I, NEW j \in I, U(i) = U(j), i # j PROVE FALSE
    OBVIOUS
  <2>1. i < j \/ j < i
    BY <1>3
  <2> QED BY <1>5, <2>1
<1>7. ASSUME NEW n \in 1..C PROVE \E i \in I : U(i) = n
  <2> DEFINE T == {x \in Nat : U(x) >= n}
  <2>1. m \in T
    BY <1>1, <1>7
  <2>2. PICK x \in T : \A y \in T : x <= y
    BY <2>1, LeastOf
  <2>3. x # 0
    BY <1>1, <1>7, <2>2
  <2>4. x - 1 \in Nat /\ x - 1 \notin T /\ x = (x - 1) + 1 /\ x \in Nat
    BY <2>2, <2>3
  <2>5. U(x) = U(x - 1) + (IF x \in I THEN 1 ELSE 0)
    BY <1>1, <2>4
  <2>6. U(x) >= n /\ ~(U(x - 1) >= n) /\ U(x) \in Nat /\ U(x - 1) \in Nat
    BY <1>1, <2>2, <2>4
  <2>7. x \in I /\ U(x) = n
    BY <2>5, <2>6, <1>7
  <2> QED BY <2>7
<1>8. \A i, j \in I : i <= j => U(i) <= U(j)
  BY <1>2, <1>3
<1> QED BY <1>1, <1>4, <1>6, <1>7, <1>8 DEF U, C

(* A position behind all others.                                           *)
LEMMA RankBehind ==
    ASSUME NEW m \in Nat, NEW I \in SUBSET (1..m), NEW a \in Nat, a > m, NEW J, J = I \cup {a}
    PROVE  /\ J \in SUBSET (1..a)
           /\ Params!Cardinality(J) = Params!Cardinality(I) + 1
           /\ Params!UpTo(J, a) = Params!Cardinality(I) + 1
<1>1. \A i \in I : i \in Nat /\ i >= 1 /\ i <= m /\ i < a
  OBVIOUS
<1>2. J \in SUBSET (1..a)
  BY <1>1
<1>3. IsFiniteSet(I) /\ Cardinality(I) \in Nat /\ a \notin I
  <2>1. IsFiniteSet(I) /\ Db!Cardinality(I) \in Nat
    BY Counting
  <2> QED BY <1>1, <2>1 DEF Db!Cardinality, Cardinality
<1>4. Cardinality(J) = Cardinality(I) + 1
  BY <1>3, FS_AddElement
<1>5. {j \in J : j <= a} = J
  <2>1. \A j \in J : j <= a
    BY <1>1
  <2> QED BY <2>1
<1>7. Params!Cardinality(J) = Cardinality(J) /\ Params!Cardinality(I) = Cardinality(I)
  BY DEF Params!Cardinality, Cardinality
<1>8. Params!UpTo(J, a) = Params!Cardinality(J)
  BY <1>5 DEF Params!UpTo
<1> QED BY <1>2, <1>4, <1>7, <1>8

LEMMA RanksBefore ==
    ASSUME NEW m \in Nat, NEW I \in SUBSET (1..m), NEW a \in Nat, a > m, NEW i \in I
    PROVE  Params!UpTo(I \cup {a}, i) = Params!UpTo(I, i)
<1>1. \A j \in I : j \in Nat /\ j <= m
  OBVIOUS
<1>2. i \in Nat /\ ~(a <= i)
  BY <1>1
<1>3. {j \in I \cup {a} : j <= i} = {j \in I : j <= i}
  BY <1>2
<1> QED BY <1>3 DEF Params!UpTo

(* The characters at some positions, in their order.                       *)
IsPicked(r, s, I) == /\ Len(r) = Params!Cardinality(I)
                     /\ \A i \in I : Params!UpTo(I, i) \in 1..Len(r) /\ r[Params!UpTo(I, i)] = s[i]

LEMMA PickedIs ==
    ASSUME NEW A, NEW s \in Seq(A), NEW I \in SUBSET (1..Len(s))
    PROVE  Params!Picked(s, I) \in Seq(A) /\ IsPicked(Params!Picked(s, I), s, I)
<1> DEFINE r == Params!Picked(s, I)
           C == Params!Cardinality(I)
           at(n) == CHOOSE i \in I : Params!UpTo(I, i) = n
<1>0. PICK m \in Nat : m = Len(s) /\ DOMAIN s = 1..m /\ \A i \in 1..m : s[i] \in A
  OBVIOUS
<1>1. /\ C \in Nat
      /\ \A i \in I : Params!UpTo(I, i) \in 1..C
      /\ \A i, j \in I : Params!UpTo(I, i) = Params!UpTo(I, j) => i = j
      /\ \A n \in 1..C : \E i \in I : Params!UpTo(I, i) = n
  BY <1>0, Ranks
<1>2. \A n \in 1..C : at(n) \in I /\ Params!UpTo(I, at(n)) = n
  BY <1>1
<1>3. r = [n \in 1..C |-> s[at(n)]]
  BY DEF Params!Picked
<1> HIDE DEF r, C, at
<1>4. \A n \in 1..C : s[at(n)] \in A
  BY <1>0, <1>2
<1>5. r \in [1..C -> A]
  BY <1>3, <1>4
<1>6. r \in Seq(A) /\ Len(r) = C
  BY <1>1, <1>5
<1>7. \A i \in I : r[Params!UpTo(I, i)] = s[i]
  <2> TAKE i \in I
  <2>1. Params!UpTo(I, i) \in 1..C
    BY <1>1
  <2>2. at(Params!UpTo(I, i)) = i
    BY <1>1, <1>2, <2>1
  <2> QED BY <1>3, <2>1, <2>2
<1> QED BY <1>1, <1>6, <1>7 DEF IsPicked, r, C

LEMMA PickedOnce ==
    ASSUME NEW A, NEW s \in Seq(A), NEW I \in SUBSET (1..Len(s)), NEW B, NEW r \in Seq(B), IsPicked(r, s, I)
    PROVE  r = Params!Picked(s, I)
<1> DEFINE q == Params!Picked(s, I)
<1>1. q \in Seq(A) /\ IsPicked(q, s, I)
  BY PickedIs
<1> HIDE DEF q
<1>2. PICK m, n \in Nat : m = Len(r) /\ n = Len(q) /\ m = n /\ n = Params!Cardinality(I)
  BY <1>1 DEF IsPicked
<1>3. ASSUME NEW i \in 1..n PROVE r[i] = q[i]
  <2>1. Len(s) \in Nat
    OBVIOUS
  <2>2. \A k \in 1..Params!Cardinality(I) : \E j \in I : Params!UpTo(I, j) = k
    BY <2>1, Ranks
  <2>3. PICK j \in I : Params!UpTo(I, j) = i
    BY <1>2, <2>2
  <2> QED BY <1>1, <2>3 DEF IsPicked
<1>4. Len(r) = Len(q) /\ \A i \in 1..Len(r) : r[i] = q[i]
  BY <1>2, <1>3
<1>5. r \in Seq(A \cup B) /\ q \in Seq(A \cup B)
  BY <1>1
<1>6. r = q
  BY <1>4, <1>5, SeqEqual
<1> QED BY <1>6 DEF q

-----------------------------------------------------------------------------
(* A text with one character more. *)

Extends(s, t, L, c) ==
    /\ L \in Nat /\ Len(s) = L /\ DOMAIN s = 1..L /\ Len(t) = L + 1 /\ DOMAIN t = 1..(L + 1)
    /\ \A i \in 1..L : t[i] = s[i]
    /\ t[L + 1] = c

LEMMA AppendExtends ==
    ASSUME NEW A, NEW s \in Seq(A), NEW c \in A
    PROVE  Append(s, c) \in Seq(A) /\ Extends(s, Append(s, c), Len(s), c)
<1>1. PICK L \in Nat : L = Len(s) /\ DOMAIN s = 1..L
  OBVIOUS
<1>2. PICK t : t = Append(s, c)
  OBVIOUS
<1>3. t \in Seq(A) /\ Len(t) = Len(s) + 1
  BY <1>2
<1>4. /\ \A i \in 1..L : t[i] = s[i]
      /\ t[L + 1] = c
  BY <1>1, <1>2
<1>5. DOMAIN t = 1..(L + 1)
  BY <1>1, <1>3
<1> QED BY <1>1, <1>2, <1>3, <1>4, <1>5 DEF Extends

LEMMA PickedStays ==
    ASSUME NEW A, NEW s \in Seq(A), NEW t \in Seq(A), NEW L, NEW c, Extends(s, t, L, c), NEW I \in SUBSET (1..L)
    PROVE  Params!Picked(t, I) = Params!Picked(s, I)
<1> DEFINE r == Params!Picked(t, I)
<1>1. \A i \in I : t[i] = s[i]
  BY DEF Extends
<1>2. I \in SUBSET (1..Len(s)) /\ I \in SUBSET (1..Len(t))
  BY DEF Extends
<1>3. r \in Seq(A) /\ IsPicked(r, t, I)
  BY <1>2, PickedIs
<1> HIDE DEF r
<1>4. IsPicked(r, s, I)
  BY <1>1, <1>3 DEF IsPicked
<1>5. r = Params!Picked(s, I)
  BY <1>2, <1>3, <1>4, PickedOnce
<1> QED BY <1>5 DEF r

LEMMA PiecesStay ==
    ASSUME NEW s, NEW t, NEW L, NEW c, Extends(s, t, L, c), NEW e \in 1..(L + 1)
    PROVE  /\ Params!Piece(t, e) = Params!Piece(s, e) /\ Params!Piece(s, e) \in SUBSET (1..L)
           /\ \A odd : /\ Params!Side(t, e, odd) = Params!Side(s, e, odd)
                       /\ Params!Side(s, e, odd) \in SUBSET (1..L)
<1>1. e \in Nat /\ L \in Nat /\ e - 1 \in 0..L
  BY DEF Extends
<1>2. \A i \in 1..(e - 1) : i \in 1..L /\ t[i] = s[i] /\ \A j \in i..(e - 1) : j \in 1..L /\ t[j] = s[j]
  BY <1>1 DEF Extends
<1>3. Params!Piece(t, e) = Params!Piece(s, e)
  BY <1>2 DEF Params!Piece
<1>4. Params!Piece(s, e) \in SUBSET (1..L) /\ \A i \in Params!Piece(s, e) : t[i] = s[i]
  BY <1>2 DEF Params!Piece
<1>5. ASSUME NEW i PROVE Params!Marks(t, e, i) = Params!Marks(s, e, i)
  <2>1. {j \in Params!Piece(t, e) : t[j] = Params!Equals /\ j < i} = {j \in Params!Piece(s, e) : s[j] = Params!Equals /\ j < i}
    BY <1>3, <1>4
  <2> QED BY <2>1 DEF Params!Marks
<1>6. \A odd : Params!Side(t, e, odd) = Params!Side(s, e, odd)
  BY <1>3, <1>4, <1>5 DEF Params!Side
<1>7. \A odd : Params!Side(s, e, odd) \in SUBSET (1..L)
  BY <1>4 DEF Params!Side
<1> QED BY <1>3, <1>4, <1>6, <1>7

LEMMA StripStays ==
    ASSUME NEW s, NEW t, NEW L, NEW c, Extends(s, t, L, c), NEW I \in SUBSET (1..L)
    PROVE  Params!Strip(t, I) = Params!Strip(s, I) /\ Params!Strip(s, I) \in SUBSET (1..L)
BY DEF Extends, Params!Strip

LEMMA KeysStay ==
    ASSUME NEW A, NEW s \in Seq(A), NEW t \in Seq(A), NEW L, NEW c, Extends(s, t, L, c), NEW e \in 1..(L + 1)
    PROVE  Params!Key(t, e) = Params!Key(s, e) /\ Params!Value(t, e) = Params!Value(s, e)
<1>1. \A odd : /\ Params!Side(t, e, odd) = Params!Side(s, e, odd)
               /\ Params!Side(s, e, odd) \in SUBSET (1..L)
  BY PiecesStay
<1>2. ASSUME NEW I \in SUBSET (1..L) PROVE Params!Picked(t, Params!Strip(t, I)) = Params!Picked(s, Params!Strip(s, I))
  <2>1. Params!Strip(t, I) = Params!Strip(s, I) /\ Params!Strip(s, I) \in SUBSET (1..L)
    BY StripStays
  <2>2. PICK J \in SUBSET (1..L) : J = Params!Strip(s, I)
    BY <2>1
  <2>3. Params!Picked(t, J) = Params!Picked(s, J)
    BY PickedStays
  <2> QED BY <2>1, <2>2, <2>3
<1> QED BY <1>1, <1>2 DEF Params!Key, Params!Value

-----------------------------------------------------------------------------
(* The piece that is being read. *)

Total(s) == Params!Marks(s, Len(s) + 1, Len(s) + 1)
Lead(s, I) == {i \in I : \E a \in I : a <= i /\ s[a] # Params!Space}
OpenSide(s, odd) == Params!Side(s, Len(s) + 1, odd)
Open(s, odd) == Params!Picked(s, Lead(s, OpenSide(s, odd)))

LEMMA OpenPiece ==
    ASSUME NEW s, NEW t, NEW L, NEW c, Extends(s, t, L, c)
    PROVE  /\ Total(s) \in Nat
           /\ c = Delimiter => Total(t) = 0 /\ \A odd : OpenSide(t, odd) = {}
           /\ c # Delimiter /\ c = Params!Equals => Total(t) = Total(s) + 1 /\ \A odd : OpenSide(t, odd) = OpenSide(s, odd)
           /\ c # Delimiter /\ c # Params!Equals =>
                 /\ Total(t) = Total(s)
                 /\ \A odd : OpenSide(t, odd) = OpenSide(s, odd) \cup (IF Total(s) % 2 = odd THEN {L + 1} ELSE {})
<1> DEFINE P == Params!Piece(s, L + 1)
           Q == Params!Piece(t, L + 2)
           E == {j \in P : s[j] = Params!Equals}
<1>1. L \in Nat /\ Len(s) = L /\ Len(t) = L + 1 /\ (L + 1) + 1 = L + 2 /\ (L + 2) - 1 = L + 1 /\ (L + 1) - 1 = L
  BY DEF Extends
<1>2. /\ P = {i \in 1..L : \A j \in i..L : s[j] # Delimiter}
      /\ Q = {i \in 1..(L + 1) : \A j \in i..(L + 1) : t[j] # Delimiter}
  BY <1>1 DEF Params!Piece
<1> HIDE DEF P, Q
<1>3. \A i \in P : i \in Nat /\ i >= 1 /\ i <= L /\ i < L + 1 /\ t[i] = s[i]
  BY <1>1, <1>2 DEF Extends
<1>4. t[L + 1] = c
  BY DEF Extends
<1>5. c = Delimiter => Q = {}
  <2> SUFFICES ASSUME c = Delimiter, NEW i \in Q PROVE FALSE
    OBVIOUS
  <2>1. L + 1 \in i..(L + 1) /\ \A j \in i..(L + 1) : t[j] # Delimiter
    BY <1>1, <1>2
  <2> QED BY <1>4, <2>1
<1>6. ASSUME c # Delimiter PROVE Q = P \cup {L + 1}
  <2>1. ASSUME NEW i \in 1..L PROVE (\A j \in i..(L + 1) : t[j] # Delimiter) <=> \A j \in i..L : s[j] # Delimiter
    <3>1. \A j \in i..(L + 1) : j = L + 1 \/ j \in i..L
      BY <1>1
    <3>2. \A j \in i..L : j \in i..(L + 1) /\ t[j] = s[j]
      BY <1>1 DEF Extends
    <3> QED BY <1>4, <1>6, <3>1, <3>2
  <2>2. \A i \in 1..L : i \in Q <=> i \in P
    <3>1. \A i \in 1..L : i \in 1..(L + 1)
      BY <1>1
    <3> QED BY <1>2, <2>1, <3>1
  <2>3. L + 1 \in Q
    <3>1. \A j \in (L + 1)..(L + 1) : j = L + 1
      BY <1>1
    <3>2. L + 1 \in 1..(L + 1)
      BY <1>1
    <3> QED BY <1>2, <1>4, <1>6, <3>1, <3>2
  <2>4. \A i \in Q : i = L + 1 \/ i \in 1..L
    BY <1>1, <1>2
  <2>5. \A i \in P : i \in 1..L
    BY <1>2
  <2> QED BY <2>2, <2>3, <2>4, <2>5
<1>7. /\ Total(s) = Params!Cardinality({j \in P : s[j] = Params!Equals /\ j < L + 1})
      /\ Total(t) = Params!Cardinality({j \in Q : t[j] = Params!Equals /\ j < L + 2})
  BY <1>1 DEF Total, Params!Marks, P, Q
<1>8. {j \in P : s[j] = Params!Equals /\ j < L + 1} = E
  BY <1>3
<1>9. IsFiniteSet(E) /\ Cardinality(E) \in Nat /\ L + 1 \notin E
  <2>1. E \in SUBSET (1..L)
    BY <1>2
  <2>2. IsFiniteSet(E)
    <3> HIDE DEF E
    <3> QED BY <1>1, <2>1, Counting
  <2>3. L + 1 \notin E
    BY <1>3
  <2> HIDE DEF E
  <2> QED BY <2>2, <2>3, FS_CardinalityType
<1>10. \A I : Params!Cardinality(I) = Cardinality(I)
  BY DEF Params!Cardinality, Cardinality
<1>11. Total(s) = Cardinality(E)
  BY <1>7, <1>8, <1>10
<1>12. ASSUME c # Delimiter PROVE {j \in Q : t[j] = Params!Equals /\ j < L + 2} = IF c = Params!Equals THEN E \cup {L + 1} ELSE E
  <2>1. \A j \in P : j < L + 2
    BY <1>1, <1>3
  <2>2. L + 1 < L + 2
    BY <1>1
  <2>3. ASSUME NEW j
        PROVE (j \in Q /\ t[j] = Params!Equals /\ j < L + 2) <=> (j \in E \/ (c = Params!Equals /\ j = L + 1))
    BY <1>3, <1>4, <1>6, <1>12, <2>1, <2>2
  <2> HIDE DEF E
  <2> QED BY <2>3
<1>13. ASSUME c # Delimiter, NEW i \in Q PROVE Params!Marks(t, L + 2, i) = IF i = L + 1 THEN Total(s) ELSE Params!Marks(s, L + 1, i)
  <2>1. {j \in Q : t[j] = Params!Equals /\ j < i} = {j \in P : s[j] = Params!Equals /\ j < i}
    <3>1. i \in Nat /\ i <= L + 1
      BY <1>1, <1>2
    <3>2. ~(L + 1 < i)
      BY <1>1, <3>1
    <3> QED BY <1>3, <1>6, <1>13, <3>2
  <2>2. Params!Marks(t, L + 2, i) = Params!Cardinality({j \in Q : t[j] = Params!Equals /\ j < i})
    BY DEF Params!Marks, Q
  <2>3. Params!Marks(s, L + 1, i) = Params!Cardinality({j \in P : s[j] = Params!Equals /\ j < i})
    BY DEF Params!Marks, P
  <2> QED BY <1>7, <2>1, <2>2, <2>3
<1>14. \A odd : /\ OpenSide(t, odd) = {i \in Q : t[i] # Params!Equals /\ Params!Marks(t, L + 2, i) % 2 = odd}
                /\ OpenSide(s, odd) = {i \in P : s[i] # Params!Equals /\ Params!Marks(s, L + 1, i) % 2 = odd}
  BY <1>1 DEF OpenSide, Params!Side, P, Q
<1>15. c = Delimiter => Total(t) = 0 /\ \A odd : OpenSide(t, odd) = {}
  <2> SUFFICES ASSUME c = Delimiter PROVE Total(t) = 0 /\ \A odd : OpenSide(t, odd) = {}
    OBVIOUS
  <2>1. Q = {}
    BY <1>5
  <2>2. {j \in Q : t[j] = Params!Equals /\ j < L + 2} = {}
    BY <2>1
  <2> QED BY <1>7, <1>10, <1>14, <2>1, <2>2, FS_EmptySet
<1>16. c # Delimiter /\ c = Params!Equals => Total(t) = Total(s) + 1
  <2>1. Cardinality(E \cup {L + 1}) = Cardinality(E) + 1
    BY <1>9, FS_AddElement
  <2> HIDE DEF E
  <2> QED BY <1>7, <1>10, <1>11, <1>12, <2>1
<1>17. c # Delimiter /\ c # Params!Equals => Total(t) = Total(s)
  <2> HIDE DEF E
  <2> QED BY <1>7, <1>10, <1>11, <1>12
<1>18. ASSUME c # Delimiter, NEW odd
       PROVE  OpenSide(t, odd) = OpenSide(s, odd) \cup (IF c # Params!Equals /\ Total(s) % 2 = odd THEN {L + 1} ELSE {})
  <2>1. ASSUME NEW i
        PROVE  i \in OpenSide(t, odd) <=> i \in OpenSide(s, odd) \/ (c # Params!Equals /\ Total(s) % 2 = odd /\ i = L + 1)
    <3>1. CASE i = L + 1
      <4>1. i \in Q /\ i \notin P
        BY <1>3, <1>6, <1>18, <3>1
      <4> QED BY <1>4, <1>13, <1>14, <1>18, <3>1, <4>1
    <3>2. CASE i # L + 1
      <4>1. i \in Q <=> i \in P
        BY <1>6, <1>18, <3>2
      <4>2. i \in P => t[i] = s[i] /\ Params!Marks(t, L + 2, i) = Params!Marks(s, L + 1, i)
        BY <1>3, <1>13, <1>18, <3>2, <4>1
      <4> QED BY <1>14, <3>2, <4>1, <4>2
    <3> QED BY <3>1, <3>2
  <2> QED BY <2>1
<1> QED BY <1>9, <1>11, <1>15, <1>16, <1>17, <1>18

LEMMA PickedEmpty ==
    ASSUME NEW A, NEW s \in Seq(A), NEW I \in SUBSET (1..Len(s))
    PROVE  Params!Picked(s, I) = <<>> <=> I = {}
<1> DEFINE r == Params!Picked(s, I)
<1>1. r \in Seq(A) /\ IsPicked(r, s, I)
  BY PickedIs
<1> HIDE DEF r
<1>2. I = {} => Len(r) = 0
  BY <1>1, FS_EmptySet DEF IsPicked, Params!Cardinality, Cardinality
<1>3. I # {} => Len(r) # 0
  <2> SUFFICES ASSUME NEW i \in I PROVE Len(r) # 0
    OBVIOUS
  <2>1. Params!UpTo(I, i) \in 1..Len(r)
    BY <1>1 DEF IsPicked
  <2>2. \A x \in Int : x \in 1..0 => FALSE
    OBVIOUS
  <2> QED BY <2>1, <2>2
<1>4. r = <<>> <=> Len(r) = 0
  BY <1>1
<1> QED BY <1>2, <1>3, <1>4 DEF r

LEMMA PickedGrows ==
    ASSUME NEW A, NEW s \in Seq(A), NEW t \in Seq(A), NEW L, NEW c, Extends(s, t, L, c), NEW I \in SUBSET (1..L)
    PROVE  Params!Picked(t, I \cup {L + 1}) = Append(Params!Picked(s, I), c)
<1> DEFINE r == Params!Picked(s, I)
           J == I \cup {L + 1}
<1>1. L \in Nat /\ L + 1 \in Nat /\ L + 1 > L /\ I \in SUBSET (1..Len(s)) /\ 1..Len(t) = 1..(L + 1)
  BY DEF Extends
<1>2. r \in Seq(A) /\ IsPicked(r, s, I)
  BY <1>1, PickedIs
<1>3. /\ J \in SUBSET (1..(L + 1))
      /\ Params!Cardinality(J) = Params!Cardinality(I) + 1
      /\ Params!UpTo(J, L + 1) = Params!Cardinality(I) + 1
      /\ \A i \in I : Params!UpTo(J, i) = Params!UpTo(I, i)
  <2>1. PICK a \in Nat : a = L + 1 /\ a > L
    BY <1>1
  <2>2. PICK K : K = I \cup {a}
    OBVIOUS
  <2>3. /\ K \in SUBSET (1..a)
        /\ Params!Cardinality(K) = Params!Cardinality(I) + 1
        /\ Params!UpTo(K, a) = Params!Cardinality(I) + 1
    <3>1. L \in Nat /\ a \in Nat /\ a > L
      BY <1>1, <2>1
    <3> QED BY <3>1, <2>2, RankBehind
  <2>4. ASSUME NEW i \in I PROVE Params!UpTo(K, i) = Params!UpTo(I, i)
    BY <1>1, <2>1, <2>2, RanksBefore
  <2> QED BY <2>1, <2>2, <2>3, <2>4
<1>4. c \in A
  <2>1. t[L + 1] = c /\ L + 1 \in DOMAIN t
    BY <1>1 DEF Extends
  <2> QED BY <2>1
<1>5. \A j \in J : j = L + 1 \/ (j \in I /\ t[j] = s[j])
  BY DEF Extends
<1>6. J \in SUBSET (1..Len(t)) /\ t[L + 1] = c
  BY <1>1, <1>3 DEF Extends
<1> HIDE DEF r, J
<1>7. PICK n \in Nat : n = Len(r) /\ n = Params!Cardinality(I)
  BY <1>2 DEF IsPicked
<1>8. PICK q : q = Append(r, c)
  OBVIOUS
<1>9. q \in Seq(A) /\ Len(q) = Len(r) + 1
  BY <1>2, <1>4, <1>8
<1>10. q[n + 1] = c /\ \A k \in 1..n : q[k] = r[k] /\ k \in 1..(n + 1)
  <2>1. Extends(r, q, Len(r), c)
    BY <1>2, <1>4, <1>8, AppendExtends
  <2>2. \A k \in 1..n : k \in 1..(n + 1)
    BY <1>7
  <2> QED BY <1>7, <2>1, <2>2 DEF Extends
<1>11. IsPicked(q, t, J)
  <2>1. Len(q) = Params!Cardinality(J)
    BY <1>3, <1>7, <1>9
  <2>2. ASSUME NEW j \in J PROVE Params!UpTo(J, j) \in 1..Len(q) /\ q[Params!UpTo(J, j)] = t[j]
    <3>1. CASE j = L + 1
      <4>1. Params!UpTo(J, j) = n + 1 /\ Len(q) = n + 1
        BY <1>3, <1>7, <1>9, <3>1
      <4>2. n + 1 \in 1..(n + 1)
        BY <1>7
      <4> QED BY <1>6, <1>10, <3>1, <4>1, <4>2
    <3>2. CASE j \in I /\ t[j] = s[j]
      <4>1. PICK k : k = Params!UpTo(J, j)
        OBVIOUS
      <4>2. k \in 1..n /\ r[k] = s[j]
        BY <1>2, <1>3, <1>7, <3>2, <4>1 DEF IsPicked
      <4>3. k \in 1..(n + 1) /\ Len(q) = n + 1
        BY <1>7, <1>9, <1>10, <4>2
      <4> QED BY <1>10, <3>2, <4>1, <4>2, <4>3
    <3> QED BY <1>5, <3>1, <3>2
  <2> QED BY <2>1, <2>2 DEF IsPicked
<1>12. q = Params!Picked(t, J)
  BY <1>6, <1>9, <1>11, PickedOnce
<1> QED BY <1>8, <1>12 DEF r, J

(* What the parser has of its two strings after one more character.        *)
LEMMA OpenStep ==
    ASSUME NEW A, NEW s \in Seq(A), NEW t \in Seq(A), NEW L, NEW c, Extends(s, t, L, c), NEW odd
    PROVE  /\ OpenSide(s, odd) \in SUBSET (1..Len(s))
           /\ c = Delimiter => Open(t, odd) = <<>>
           /\ c # Delimiter /\ (c = Params!Equals \/ Total(s) % 2 # odd) => Open(t, odd) = Open(s, odd)
           /\ c # Delimiter /\ c # Params!Equals /\ Total(s) % 2 = odd => Open(t, odd) = Params!Pushed(Open(s, odd), c)
<1> DEFINE I == OpenSide(s, odd)
           K == Lead(s, I)
<1>1. L \in Nat /\ Len(s) = L /\ 1..Len(s) = 1..L /\ 1..Len(t) = 1..(L + 1) /\ t[L + 1] = c /\ L + 1 \in 1..(L + 1)
  BY DEF Extends
<1>2. I \in SUBSET (1..L)
  <2>1. I = Params!Side(s, L + 1, odd)
    BY <1>1 DEF OpenSide
  <2> QED BY <1>1, <2>1, PiecesStay
<1> HIDE DEF I
<1>3. \A i \in I : i \in 1..L /\ t[i] = s[i]
  BY <1>2 DEF Extends
<1>4. K \in SUBSET (1..L) /\ Lead(t, I) = K
  BY <1>2, <1>3 DEF Lead
<1>5. Params!Picked(t, K) = Params!Picked(s, K) /\ Open(s, odd) = Params!Picked(s, K)
  <2>1. Params!Picked(t, K) = Params!Picked(s, K)
    <3> HIDE DEF K
    <3> QED BY <1>4, PickedStays
  <2> QED BY <2>1 DEF Open, I
<1>6. \A x : OpenSide(t, odd) = x => Open(t, odd) = Params!Picked(t, Lead(t, x))
  BY DEF Open
<1>7. c = Delimiter => Open(t, odd) = <<>>
  <2> SUFFICES ASSUME c = Delimiter PROVE Open(t, odd) = <<>>
    OBVIOUS
  <2>1. OpenSide(t, odd) = {}
    BY OpenPiece
  <2>2. Lead(t, {}) = {}
    BY DEF Lead
  <2>3. Params!Picked(t, {}) = <<>>
    BY PickedEmpty
  <2> QED BY <1>6, <2>1, <2>2, <2>3
<1>8. ASSUME c # Delimiter, c = Params!Equals \/ Total(s) % 2 # odd PROVE Open(t, odd) = Open(s, odd)
  <2>1. OpenSide(t, odd) = I
    <3>1. CASE c = Params!Equals
      BY <1>8, <3>1, OpenPiece DEF I
    <3>2. CASE c # Params!Equals
      <4>1. OpenSide(t, odd) = OpenSide(s, odd) \cup (IF Total(s) % 2 = odd THEN {L + 1} ELSE {})
        BY <1>8, <3>2, OpenPiece
      <4>2. ~(Total(s) % 2 = odd)
        BY <1>8, <3>2
      <4>3. OpenSide(t, odd) = OpenSide(s, odd)
        BY <4>1, <4>2
      <4> QED BY <4>3 DEF I
    <3> QED BY <3>1, <3>2
  <2> QED BY <1>4, <1>5, <1>6, <2>1
<1>9. ASSUME c # Delimiter, c # Params!Equals, Total(s) % 2 = odd PROVE Open(t, odd) = Params!Pushed(Open(s, odd), c)
  <2>1. OpenSide(t, odd) = I \cup {L + 1}
    BY <1>9, OpenPiece DEF I
  <2>2. Open(s, odd) = <<>> <=> K = {}
    <3>1. K \in SUBSET (1..Len(s))
      BY <1>1, <1>4
    <3> HIDE DEF K
    <3> QED BY <1>5, <3>1, PickedEmpty
  <2>3. \A i \in I : i <= L + 1 /\ ~(L + 1 <= i)
    BY <1>1, <1>3
  <2>4. \A i \in I : i \in Lead(t, I \cup {L + 1}) <=> i \in K
    BY <1>3, <2>3 DEF Lead
  <2>5. L + 1 \in Lead(t, I \cup {L + 1}) <=> ~(K = {} /\ c = Params!Space)
    <3>1. L + 1 \in Lead(t, I \cup {L + 1}) <=> (\E a \in I : s[a] # Params!Space) \/ c # Params!Space
      <4>1. L + 1 <= L + 1
        BY <1>1
      <4> QED BY <1>1, <1>3, <2>3, <4>1 DEF Lead
    <3>2. (\E a \in I : s[a] # Params!Space) <=> K # {}
      <4>1. \A a \in I : a <= a
        BY <1>3
      <4> QED BY <4>1 DEF Lead
    <3> QED BY <3>1, <3>2
  <2>6. Lead(t, I \cup {L + 1}) \subseteq I \cup {L + 1} /\ K \subseteq I
    BY DEF Lead
  <2>7. CASE K = {} /\ c = Params!Space
    <3>1. Lead(t, I \cup {L + 1}) = K
      BY <2>4, <2>5, <2>6, <2>7
    <3>2. Open(t, odd) = Open(s, odd)
      BY <1>5, <1>6, <2>1, <3>1
    <3> QED BY <2>2, <2>7, <3>2 DEF Params!Pushed
  <2>8. CASE ~(K = {} /\ c = Params!Space)
    <3>1. Lead(t, I \cup {L + 1}) = K \cup {L + 1}
      BY <2>4, <2>5, <2>6, <2>8
    <3>2. Params!Picked(t, K \cup {L + 1}) = Append(Params!Picked(s, K), c)
      <4> HIDE DEF K
      <4> QED BY <1>4, PickedGrows
    <3>3. Open(t, odd) = Append(Open(s, odd), c)
      BY <1>5, <1>6, <2>1, <3>1, <3>2
    <3> QED BY <2>2, <2>8, <3>3 DEF Params!Pushed
  <2> QED BY <2>7, <2>8
<1>10. I \in SUBSET (1..Len(s))
  BY <1>1, <1>2
<1> QED BY <1>7, <1>8, <1>9, <1>10 DEF I

(* Blanks at the end are dropped.                                          *)
LEMMA Trimmed ==
    ASSUME NEW A, NEW s \in Seq(A), NEW I \in SUBSET (1..Len(s))
    PROVE  Params!TrimRight(Params!Picked(s, Lead(s, I))) = Params!Picked(s, Params!Strip(s, I))
<1> DEFINE J == Lead(s, I)
           K == Params!Strip(s, I)
           r == Params!Picked(s, J)
           n == Params!Cardinality(K)
           l == Len(r)
<1>0. PICK m \in Nat : m = Len(s)
  OBVIOUS
<1>1. \A i \in I : i \in Nat /\ i <= i
  OBVIOUS
<1>2. J \in SUBSET (1..Len(s)) /\ K \in SUBSET (1..Len(s)) /\ K \subseteq J
  BY DEF Lead, Params!Strip
<1>3. \A i \in J, k \in K : i <= k => i \in K
  <2> SUFFICES ASSUME NEW i \in J, NEW k \in K, i <= k PROVE i \in K
    OBVIOUS
  <2>1. PICK a \in I : a <= i /\ s[a] # Params!Space
    BY DEF Lead
  <2>2. PICK b \in I : k <= b /\ s[b] # Params!Space
    BY DEF Params!Strip
  <2>3. i \in I /\ k \in I
    BY DEF Lead, Params!Strip
  <2>4. i <= b
    BY <1>1, <2>2, <2>3
  <2> QED BY <2>1, <2>2, <2>3, <2>4 DEF Params!Strip
<1>4. \A i \in J : i \notin K => s[i] = Params!Space
  BY <1>1 DEF Lead, Params!Strip
<1>5. \A k \in K : \E b \in K : k <= b /\ s[b] # Params!Space
  <2> SUFFICES ASSUME NEW k \in K PROVE \E b \in K : k <= b /\ s[b] # Params!Space
    OBVIOUS
  <2>1. PICK b \in I : k <= b /\ s[b] # Params!Space
    BY DEF Params!Strip
  <2>2. b \in K
    BY <1>1, <2>1 DEF Params!Strip
  <2> QED BY <2>1, <2>2
<1>6. r \in Seq(A) /\ IsPicked(r, s, J)
  <2> HIDE DEF J
  <2> QED BY <1>2, PickedIs
<1> HIDE DEF J, K, r
<1>7. /\ n \in Nat
      /\ \A i \in K : Params!UpTo(K, i) \in 1..n
      /\ \A i, j \in K : Params!UpTo(K, i) = Params!UpTo(K, j) => i = j
      /\ \A x \in 1..n : \E i \in K : Params!UpTo(K, i) = x
      /\ \A i, j \in K : i <= j => Params!UpTo(K, i) <= Params!UpTo(K, j)
  BY <1>0, <1>2, Ranks
<1>8. /\ l \in Nat /\ l = Params!Cardinality(J)
      /\ \A i \in J : Params!UpTo(J, i) \in 1..l
      /\ \A x \in 1..l : \E i \in J : Params!UpTo(J, i) = x
  <2>1. l = Params!Cardinality(J)
    BY <1>6 DEF IsPicked
  <2>2. PICK c : c = Params!Cardinality(J)
    OBVIOUS
  <2>3. J \in SUBSET (1..m)
    BY <1>0, <1>2
  <2>4. /\ c \in Nat
        /\ \A i \in J : Params!UpTo(J, i) \in 1..c
        /\ \A x \in 1..c : \E i \in J : Params!UpTo(J, i) = x
    BY <2>2, <2>3, Ranks
  <2> HIDE DEF l
  <2> QED BY <2>1, <2>2, <2>4
<1>9. \A i \in K : Params!UpTo(J, i) = Params!UpTo(K, i)
  <2> SUFFICES ASSUME NEW i \in K PROVE Params!UpTo(J, i) = Params!UpTo(K, i)
    OBVIOUS
  <2>1. {j \in J : j <= i} = {j \in K : j <= i}
    BY <1>2, <1>3
  <2> QED BY <2>1 DEF Params!UpTo
<1>10. ASSUME NEW k \in K, Params!UpTo(K, k) = n PROVE s[k] # Params!Space
  <2>1. PICK b \in K : k <= b /\ s[b] # Params!Space
    BY <1>5
  <2>2. Params!UpTo(K, k) <= Params!UpTo(K, b) /\ Params!UpTo(K, b) \in 1..n
    BY <1>7, <2>1
  <2>3. Params!UpTo(K, b) = n
    BY <1>7, <1>10, <2>2
  <2>4. b = k
    BY <1>7, <1>10, <2>3
  <2> QED BY <2>1, <2>4
<1>11. n = 0 \/ (n \in 1..l /\ r[n] # Params!Space)
  <2> SUFFICES ASSUME n # 0 PROVE n \in 1..l /\ r[n] # Params!Space
    OBVIOUS
  <2>1. n \in 1..n
    BY <1>7
  <2>2. PICK k \in K : Params!UpTo(K, k) = n
    BY <1>7, <2>1
  <2>3. k \in J /\ Params!UpTo(J, k) = n
    BY <1>2, <1>9, <2>2
  <2> QED BY <1>6, <1>10, <2>2, <2>3 DEF IsPicked
<1>12. ASSUME NEW x \in (n + 1)..l PROVE r[x] = Params!Space
  <2>1. x \in 1..l /\ x > n /\ x \in Nat
    BY <1>7, <1>8
  <2>2. PICK i \in J : Params!UpTo(J, i) = x
    BY <1>8, <2>1
  <2>3. i \notin K
    <3> SUFFICES ASSUME i \in K PROVE FALSE
      OBVIOUS
    <3>1. x \in 1..n
      BY <1>7, <1>9, <2>2
    <3> QED BY <1>7, <2>1, <3>1
  <2> QED BY <1>4, <1>6, <2>2, <2>3 DEF IsPicked
<1> DEFINE Ended(x) == (x = 0 \/ r[x] # Params!Space) /\ \A i \in (x + 1)..Len(r) : r[i] = Params!Space
<1>13. n \in 0..Len(r) /\ Ended(n)
  <2>1. n \in 0..l
    BY <1>7, <1>8, <1>11
  <2> QED BY <1>11, <1>12, <2>1
<1>14. ASSUME NEW x \in 0..Len(r), Ended(x) PROVE x = n
  <2>1. x \in Nat /\ x <= l /\ n \in Nat /\ l \in Nat
    BY <1>7, <1>8
  <2>2. ~(x < n)
    <3> SUFFICES ASSUME x < n PROVE FALSE
      OBVIOUS
    <3>1. n # 0 /\ n \in (x + 1)..l
      BY <1>11, <2>1
    <3> QED BY <1>11, <1>14, <3>1
  <2>3. ~(n < x)
    <3> SUFFICES ASSUME n < x PROVE FALSE
      OBVIOUS
    <3>1. x # 0 /\ x \in (n + 1)..l
      BY <2>1
    <3> QED BY <1>12, <1>14, <3>1
  <2> HIDE DEF l, n, Ended
  <2> QED BY <2>1, <2>2, <2>3
<1>15. (CHOOSE x \in 0..Len(r) : Ended(x)) = n
  <2> HIDE DEF Ended, n
  <2> QED BY <1>13, <1>14
<1>16. Params!TrimRight(r) = SubSeq(r, 1, n)
  BY <1>15 DEF Params!TrimRight
<1>17. PICK q : q = SubSeq(r, 1, n)
  OBVIOUS
<1>18. n \in Nat /\ n <= l
  BY <1>7, <1>8, <1>11
<1>19. q \in Seq(A) /\ Len(q) = n /\ \A x \in 1..n : q[x] = r[x]
  <2> HIDE DEF n
  <2> QED BY <1>6, <1>17, <1>18
<1>20. IsPicked(q, s, K)
  BY <1>2, <1>6, <1>7, <1>9, <1>19 DEF IsPicked
<1>21. q = Params!Picked(s, K)
  BY <1>2, <1>19, <1>20, PickedOnce
<1> QED BY <1>16, <1>17, <1>21 DEF r, K, J

-----------------------------------------------------------------------------
(* The pairs that are stored. *)

IsReading(p) == p = [key |-> p.key, value |-> p.value, on |-> p.on, dict |-> p.dict, list |-> p.list, state |-> "reading"]
Apart(r) == DOMAIN r.dict \cap DOMAIN r.list = {}
Known(r) == DOMAIN r.dict \cup DOMAIN r.list

LEMMA AppendSecond == \A x, y : Append(<<x>>, y) = <<x, y>>
<1> TAKE x, y
<1>1. PICK a, b, c : a = <<x>> /\ b = Append(a, y) /\ c = <<x, y>>
  OBVIOUS
<1>2. a \in Seq({x, y}) /\ Len(a) = 1 /\ a[1] = x
  BY <1>1
<1>3. b \in Seq({x, y}) /\ Extends(a, b, 1, y)
  BY <1>1, <1>2, AppendExtends
<1>4. Len(b) = 2 /\ b[2] = y /\ b[1] = x
  <2>1. 1 + 1 = 2 /\ 1 \in 1..1
    OBVIOUS
  <2> QED BY <1>2, <1>3, <2>1 DEF Extends
<1>5. c \in Seq({x, y}) /\ Len(c) = 2 /\ c[1] = x /\ c[2] = y
  BY <1>1
<1>6. \A i \in 1..2 : i = 1 \/ i = 2
  OBVIOUS
<1>7. \A i \in 1..Len(b) : b[i] = c[i]
  BY <1>4, <1>5, <1>6
<1>8. b = c
  BY <1>3, <1>4, <1>5, <1>7, SeqEqual
<1> QED BY <1>1, <1>8

LEMMA StoreAppends ==
    ASSUME NEW p, IsReading(p), Apart(p), NEW k, NEW v, NEW q, q = Params!Store(p, k, v)
    PROVE  /\ IsReading(q) /\ q.key = p.key /\ q.value = p.value /\ q.on = p.on
           /\ Apart(q) /\ Known(q) = Known(p) \cup {k}
           /\ Params!Values(q, k) = Append(Params!Values(p, k), v)
           /\ \A x : x # k => Params!Values(q, x) = Params!Values(p, x)
<1>1. PICK a, b, o, d, l : p = [key |-> a, value |-> b, on |-> o, dict |-> d, list |-> l, state |-> "reading"]
  BY DEF IsReading
<1>2. p.key = a /\ p.value = b /\ p.on = o /\ p.dict = d /\ p.list = l /\ DOMAIN d \cap DOMAIN l = {}
  BY <1>1 DEF Apart
<1>3. \A x, y : x = [key |-> a, value |-> b, on |-> o, dict |-> y.dict, list |-> y.list, state |-> "reading"] =>
                x.key = a /\ x.value = b /\ x.on = o /\ x.dict = y.dict /\ x.list = y.list /\ IsReading(x)
  BY DEF IsReading
<1>4. CASE k \in DOMAIN l
  <2>1. PICK m : m = [l EXCEPT ![k] = Append(@, v)]
    OBVIOUS
  <2>2. q = [key |-> a, value |-> b, on |-> o, dict |-> d, list |-> m, state |-> "reading"]
    BY <1>1, <1>2, <1>4, <2>1 DEF Params!Store
  <2>3. DOMAIN m = DOMAIN l /\ m[k] = Append(l[k], v) /\ \A x \in DOMAIN l : x # k => m[x] = l[x]
    BY <1>4, <2>1
  <2>4. q.key = a /\ q.value = b /\ q.on = o /\ q.dict = d /\ q.list = m /\ IsReading(q)
    BY <2>2 DEF IsReading
  <2>5. k \notin DOMAIN d
    BY <1>2, <1>4
  <2>6. Params!Values(q, k) = Append(Params!Values(p, k), v)
    BY <1>2, <1>4, <2>3, <2>4, <2>5 DEF Params!Values
  <2>7. \A x : x # k => Params!Values(q, x) = Params!Values(p, x)
    BY <1>2, <2>3, <2>4 DEF Params!Values
  <2> QED BY <1>2, <1>4, <2>3, <2>4, <2>6, <2>7 DEF Apart, Known
<1>5. CASE k \notin DOMAIN l /\ k \in DOMAIN d
  <2>1. PICK m, f : m = Params!Put(l, k, <<d[k], v>>) /\ f = Params!Without(d, k)
    OBVIOUS
  <2>2. q = [key |-> a, value |-> b, on |-> o, dict |-> f, list |-> m, state |-> "reading"]
    BY <1>1, <1>2, <1>5, <2>1 DEF Params!Store
  <2>3. /\ DOMAIN m = DOMAIN l \cup {k} /\ m[k] = <<d[k], v>> /\ \A x \in DOMAIN l : x # k => m[x] = l[x]
        /\ DOMAIN f = DOMAIN d \ {k} /\ \A x \in DOMAIN f : f[x] = d[x]
    BY <2>1 DEF Params!Put, Params!Without
  <2>4. q.key = a /\ q.value = b /\ q.on = o /\ q.dict = f /\ q.list = m /\ IsReading(q)
    BY <2>2 DEF IsReading
  <2>5. Params!Values(p, k) = <<d[k]>> /\ Params!Values(q, k) = <<d[k], v>>
    BY <1>2, <1>5, <2>3, <2>4 DEF Params!Values
  <2>6. Append(<<d[k]>>, v) = <<d[k], v>>
    BY AppendSecond
  <2>7. \A x : x # k => Params!Values(q, x) = Params!Values(p, x)
    BY <1>2, <2>3, <2>4 DEF Params!Values
  <2> QED BY <1>2, <1>5, <2>3, <2>4, <2>5, <2>6, <2>7 DEF Apart, Known
<1>6. CASE k \notin DOMAIN l /\ k \notin DOMAIN d
  <2>1. PICK f : f = Params!Put(d, k, v)
    OBVIOUS
  <2>2. q = [key |-> a, value |-> b, on |-> o, dict |-> f, list |-> l, state |-> "reading"]
    BY <1>1, <1>2, <1>6, <2>1 DEF Params!Store
  <2>3. DOMAIN f = DOMAIN d \cup {k} /\ f[k] = v /\ \A x \in DOMAIN d : f[x] = d[x]
    BY <1>6, <2>1 DEF Params!Put
  <2>4. q.key = a /\ q.value = b /\ q.on = o /\ q.dict = f /\ q.list = l /\ IsReading(q)
    BY <2>2 DEF IsReading
  <2>5. Params!Values(p, k) = <<>> /\ Params!Values(q, k) = <<v>>
    BY <1>2, <1>6, <2>3, <2>4 DEF Params!Values
  <2>6. Append(<<>>, v) = <<v>>
    OBVIOUS
  <2>7. \A x : x # k => Params!Values(q, x) = Params!Values(p, x)
    BY <1>2, <2>3, <2>4 DEF Params!Values
  <2> QED BY <1>2, <1>6, <2>3, <2>4, <2>5, <2>6, <2>7 DEF Apart, Known
<1> QED BY <1>4, <1>5, <1>6

(* The positions of P, in their order, are the pairs that a result has.    *)
At(key, P, k) == {e \in P : key[e] = k}
Kept(r, key, val, P) ==
    /\ Apart(r)
    /\ Known(r) = {key[e] : e \in P}
    /\ \A k : /\ Params!Values(r, k) \in Seq({val[e] : e \in P})
              /\ Len(Params!Values(r, k)) = Params!Cardinality(At(key, P, k))
              /\ \A e \in At(key, P, k) : Params!Values(r, k)[Params!UpTo(At(key, P, k), e)] = val[e]

LEMMA StoreKeeps ==
    ASSUME NEW m \in Nat, NEW P \in SUBSET (1..m), NEW a \in Nat, a > m, NEW key, NEW val,
           NEW p, IsReading(p), Kept(p, key, val, P), NEW q, q = Params!Store(p, key[a], val[a])
    PROVE  /\ IsReading(q) /\ q.key = p.key /\ q.value = p.value /\ q.on = p.on
           /\ Kept(q, key, val, P \cup {a})
<1> DEFINE Q == P \cup {a}
           k0 == key[a]
           V == {val[e] : e \in P}
           W == {val[e] : e \in Q}
<1>1. Apart(p)
  BY DEF Kept
<1>2. /\ IsReading(q) /\ q.key = p.key /\ q.value = p.value /\ q.on = p.on
      /\ Apart(q) /\ Known(q) = Known(p) \cup {k0}
      /\ Params!Values(q, k0) = Append(Params!Values(p, k0), val[a])
      /\ \A x : x # k0 => Params!Values(q, x) = Params!Values(p, x)
  BY <1>1, StoreAppends
<1>3. Known(q) = {key[e] : e \in Q}
  BY <1>2 DEF Kept
<1>4. V \subseteq W /\ val[a] \in W
  OBVIOUS
<1>5. /\ At(key, Q, k0) = At(key, P, k0) \cup {a} /\ At(key, P, k0) \in SUBSET (1..m)
      /\ \A k : k # k0 => At(key, Q, k) = At(key, P, k)
  BY DEF At
<1>6. \A k : /\ Params!Values(p, k) \in Seq(V)
             /\ Len(Params!Values(p, k)) = Params!Cardinality(At(key, P, k))
             /\ \A e \in At(key, P, k) : Params!Values(p, k)[Params!UpTo(At(key, P, k), e)] = val[e]
  BY DEF Kept
<1> HIDE DEF V, W, Q, k0
<1>7. \A x \in Seq(V) : x \in Seq(W)
  BY <1>4
<1>8. ASSUME NEW k, k # k0
      PROVE  /\ Params!Values(q, k) \in Seq(W)
             /\ Len(Params!Values(q, k)) = Params!Cardinality(At(key, Q, k))
             /\ \A e \in At(key, Q, k) : Params!Values(q, k)[Params!UpTo(At(key, Q, k), e)] = val[e]
  <2>1. Params!Values(q, k) = Params!Values(p, k) /\ At(key, Q, k) = At(key, P, k)
    BY <1>2, <1>5, <1>8
  <2> QED BY <1>6, <1>7, <2>1
<1>9. /\ Params!Values(q, k0) \in Seq(W)
      /\ Len(Params!Values(q, k0)) = Params!Cardinality(At(key, Q, k0))
      /\ \A e \in At(key, Q, k0) : Params!Values(q, k0)[Params!UpTo(At(key, Q, k0), e)] = val[e]
  <2>1. PICK I, J, x, y : /\ I = At(key, P, k0) /\ J = At(key, Q, k0)
                          /\ x = Params!Values(p, k0) /\ y = Params!Values(q, k0)
    OBVIOUS
  <2>2. J = I \cup {a} /\ I \in SUBSET (1..m)
    BY <1>5, <2>1
  <2>3. Params!Cardinality(J) = Params!Cardinality(I) + 1 /\ Params!UpTo(J, a) = Params!Cardinality(I) + 1
    BY <2>2, RankBehind
  <2>4. ASSUME NEW e \in I PROVE Params!UpTo(J, e) = Params!UpTo(I, e)
    BY <2>2, RanksBefore
  <2>5. x \in Seq(W) /\ Len(x) = Params!Cardinality(I) /\ \A e \in I : x[Params!UpTo(I, e)] = val[e]
    BY <1>6, <1>7, <2>1
  <2>6. y = Append(x, val[a])
    BY <1>2, <2>1
  <2>7. y \in Seq(W) /\ Extends(x, y, Len(x), val[a])
    BY <1>4, <2>5, <2>6, AppendExtends
  <2>8. \A e \in I : Params!UpTo(I, e) \in 1..Params!Cardinality(I)
    BY <2>2, Ranks
  <2>9. \A e \in J : e = a \/ e \in I
    BY <2>2
  <2>10. \A e \in J : y[Params!UpTo(J, e)] = val[e]
    <3> SUFFICES ASSUME NEW e \in J PROVE y[Params!UpTo(J, e)] = val[e]
      OBVIOUS
    <3>1. CASE e = a
      BY <2>3, <2>5, <2>7, <3>1 DEF Extends
    <3>2. CASE e \in I
      <4>1. Params!UpTo(J, e) = Params!UpTo(I, e) /\ Params!UpTo(I, e) \in 1..Len(x)
        BY <2>4, <2>5, <2>8, <3>2
      <4> QED BY <2>5, <2>7, <3>2, <4>1 DEF Extends
    <3> QED BY <2>9, <3>1, <3>2
  <2>11. Len(y) = Params!Cardinality(J)
    BY <2>3, <2>5, <2>7 DEF Extends
  <2> QED BY <2>1, <2>7, <2>10, <2>11
<1>10. \A k : /\ Params!Values(q, k) \in Seq(W)
              /\ Len(Params!Values(q, k)) = Params!Cardinality(At(key, Q, k))
              /\ \A e \in At(key, Q, k) : Params!Values(q, k)[Params!UpTo(At(key, Q, k), e)] = val[e]
  BY <1>8, <1>9
<1>11. Kept(q, key, val, Q)
  BY <1>2, <1>3, <1>10 DEF Kept, W
<1> QED BY <1>2, <1>11 DEF Q

LEMMA KeptSame ==
    ASSUME NEW p, NEW q, q.dict = p.dict, q.list = p.list, NEW P, NEW key, NEW val, NEW key2, NEW val2,
           \A e \in P : key2[e] = key[e] /\ val2[e] = val[e], Kept(p, key, val, P)
    PROVE  Kept(q, key2, val2, P)
<1>1. {key2[e] : e \in P} = {key[e] : e \in P} /\ {val2[e] : e \in P} = {val[e] : e \in P}
  <2>1. \A x : x \in {key2[e] : e \in P} <=> x \in {key[e] : e \in P}
    OBVIOUS
  <2>2. \A x : x \in {val2[e] : e \in P} <=> x \in {val[e] : e \in P}
    OBVIOUS
  <2> QED BY <2>1, <2>2
<1>2. \A k : At(key2, P, k) = At(key, P, k) /\ \A e \in At(key, P, k) : val2[e] = val[e]
  BY DEF At
<1>3. \A k : Params!Values(q, k) = Params!Values(p, k)
  BY DEF Params!Values
<1>4. Apart(q) /\ Known(q) = Known(p)
  BY DEF Kept, Apart, Known
<1>5. \A k : /\ Params!Values(p, k) \in Seq({val[e] : e \in P})
             /\ Len(Params!Values(p, k)) = Params!Cardinality(At(key, P, k))
             /\ \A e \in At(key, P, k) : Params!Values(p, k)[Params!UpTo(At(key, P, k), e)] = val[e]
  BY DEF Kept
<1>6. \A k : /\ Params!Values(q, k) \in Seq({val2[e] : e \in P})
             /\ Len(Params!Values(q, k)) = Params!Cardinality(At(key2, P, k))
             /\ \A e \in At(key2, P, k) : Params!Values(q, k)[Params!UpTo(At(key2, P, k), e)] = val2[e]
  <2> TAKE k
  <2>1. Params!Values(q, k) = Params!Values(p, k) /\ At(key2, P, k) = At(key, P, k)
    BY <1>2, <1>3
  <2>2. Params!Values(q, k) \in Seq({val2[e] : e \in P}) /\ Len(Params!Values(q, k)) = Params!Cardinality(At(key2, P, k))
    BY <1>1, <1>5, <2>1
  <2>3. \A e \in At(key2, P, k) : Params!Values(q, k)[Params!UpTo(At(key2, P, k), e)] = val2[e]
    BY <1>2, <1>5, <2>1
  <2> QED BY <2>2, <2>3
<1>7. Known(q) = {key2[e] : e \in P}
  BY <1>1, <1>4 DEF Kept
<1> QED BY <1>4, <1>6, <1>7 DEF Kept

-----------------------------------------------------------------------------
(* The pairs of a text, and of one with a character more. *)

Nonempty(s, e) == Params!Key(s, e) # <<>> \/ Params!Value(s, e) # <<>>
Bad(s, e) == Params!Malformed(Params!Key(s, e)) \/ Params!Malformed(Params!Value(s, e))
KeyAt(s) == [e \in 1..(Len(s) + 1) |-> Params!decode_url(Params!Key(s, e))]
ValueAt(s) == [e \in 1..(Len(s) + 1) |-> Params!decode_url(Params!Value(s, e))]
Past(s) == {e \in DOMAIN s : s[e] = Delimiter /\ Nonempty(s, e)}

LEMMA PairsArePast ==
    ASSUME NEW A, NEW s \in Seq(A)
    PROVE  /\ Params!Pairs(s) = Past(s) \cup (IF Nonempty(s, Len(s) + 1) THEN {Len(s) + 1} ELSE {})
           /\ Past(s) \in SUBSET (1..Len(s)) /\ Params!Pairs(s) \in SUBSET (1..(Len(s) + 1))
<1>1. PICK L \in Nat : L = Len(s) /\ DOMAIN s = 1..L /\ L + 1 \in 1..(L + 1) /\ \A i \in 1..L : i \in 1..(L + 1)
  OBVIOUS
<1>2. ASSUME NEW e
      PROVE  e \in Params!Pairs(s) <=> e \in Past(s) \/ (e = L + 1 /\ Nonempty(s, L + 1))
  BY <1>1 DEF Params!Pairs, Params!Ends, Past, Nonempty
<1>3. Past(s) \in SUBSET (1..L)
  BY <1>1 DEF Past
<1>4. Params!Pairs(s) = Past(s) \cup (IF Nonempty(s, L + 1) THEN {L + 1} ELSE {})
  BY <1>2
<1> QED BY <1>1, <1>3, <1>4

LEMMA PastStep ==
    ASSUME NEW A, NEW s \in Seq(A), NEW t \in Seq(A), NEW L, NEW c, Extends(s, t, L, c)
    PROVE  /\ c = Delimiter => Past(t) = Params!Pairs(s)
           /\ c # Delimiter => Past(t) = Past(s)
           /\ \A e \in 1..(L + 1) : /\ Nonempty(t, e) <=> Nonempty(s, e)
                                    /\ Bad(t, e) <=> Bad(s, e)
                                    /\ KeyAt(t)[e] = KeyAt(s)[e] /\ ValueAt(t)[e] = ValueAt(s)[e]
<1>1. /\ L \in Nat /\ Len(s) = L /\ Len(t) = L + 1 /\ DOMAIN s = 1..L /\ DOMAIN t = 1..(L + 1)
      /\ \A i \in 1..L : t[i] = s[i]
      /\ t[L + 1] = c
  BY DEF Extends
<1>2. ASSUME NEW e \in 1..(L + 1) PROVE Params!Key(t, e) = Params!Key(s, e) /\ Params!Value(t, e) = Params!Value(s, e)
  BY KeysStay
<1>3. \A e \in 1..(L + 1) : /\ Nonempty(t, e) <=> Nonempty(s, e)
                            /\ Bad(t, e) <=> Bad(s, e)
  BY <1>2 DEF Nonempty, Bad
<1>4. \A e \in 1..(L + 1) : e \in 1..((L + 1) + 1)
  BY <1>1
<1>5. \A e \in 1..(L + 1) : KeyAt(t)[e] = KeyAt(s)[e] /\ ValueAt(t)[e] = ValueAt(s)[e]
  BY <1>1, <1>2, <1>4 DEF KeyAt, ValueAt
<1>6. \A e \in 1..(L + 1) : e = L + 1 \/ e \in 1..L
  BY <1>1
<1>7. \A e \in 1..L : e \in 1..(L + 1) /\ e # L + 1
  BY <1>1
<1>8. L + 1 \in 1..(L + 1)
  BY <1>1
<1>9. ASSUME NEW e PROVE e \in Past(t) <=> e \in Past(s) \/ (e = L + 1 /\ c = Delimiter /\ Nonempty(s, L + 1))
  BY <1>1, <1>3, <1>6, <1>7, <1>8 DEF Past
<1>10. Params!Pairs(s) = Past(s) \cup (IF Nonempty(s, L + 1) THEN {L + 1} ELSE {})
  BY <1>1, PairsArePast
<1>11. c # Delimiter => Past(t) = Past(s)
  BY <1>9
<1>12. c = Delimiter => Past(t) = Params!Pairs(s)
  <2>1. \A e : e \in Params!Pairs(s) <=> e \in Past(s) \/ (e = L + 1 /\ Nonempty(s, L + 1))
    BY <1>10
  <2> QED BY <1>9, <2>1
<1> QED BY <1>3, <1>5, <1>11, <1>12

-----------------------------------------------------------------------------
(* The parser that has read s: the open strings, and the pairs behind it.  *)
ReadingInv(s, p) ==
    /\ IsReading(p)
    /\ p.key = Open(s, 0) /\ p.value = Open(s, 1)
    /\ p.on = IF Total(s) % 2 = 0 THEN "key" ELSE "value"
    /\ Kept(p, KeyAt(s), ValueAt(s), Past(s))
    /\ \A e \in Past(s) : ~Bad(s, e)

ParamsInv(s, p) == \/ ReadingInv(s, p)
                   \/ p.state = "thrown" /\ \E e \in Past(s) : Bad(s, e)

LEMMA PairEnds ==
    ASSUME NEW A, NEW s \in Seq(A), NEW p, ReadingInv(s, p), NEW q, q = Params!EndPair(p)
    PROVE  \/ /\ q.state = "thrown" /\ Nonempty(s, Len(s) + 1) /\ Bad(s, Len(s) + 1)
           \/ /\ IsReading(q) /\ q.key = <<>> /\ q.value = <<>> /\ q.on = "key"
              /\ Kept(q, KeyAt(s), ValueAt(s), Params!Pairs(s))
              /\ \A e \in Params!Pairs(s) : ~Bad(s, e)
<1>1. PICK L, e \in Nat : L = Len(s) /\ e = L + 1 /\ e > L /\ e \in 1..(Len(s) + 1) /\ e = Len(s) + 1
  OBVIOUS
<1>2. PICK k, v : k = Params!Key(s, e) /\ v = Params!Value(s, e)
  OBVIOUS
<1>3. Params!TrimRight(p.key) = k /\ Params!TrimRight(p.value) = v
  <2>1. Extends(s, Append(s, Delimiter), Len(s), Delimiter) /\ Append(s, Delimiter) \in Seq(A \cup {Delimiter})
    <3>1. s \in Seq(A \cup {Delimiter}) /\ Delimiter \in A \cup {Delimiter}
      OBVIOUS
    <3> QED BY <3>1, AppendExtends
  <2>2. s \in Seq(A \cup {Delimiter})
    OBVIOUS
  <2>3. \A odd : OpenSide(s, odd) \in SUBSET (1..Len(s))
    BY <2>1, <2>2, OpenStep
  <2>4. \A odd : Params!TrimRight(Open(s, odd)) = Params!Picked(s, Params!Strip(s, OpenSide(s, odd)))
    BY <2>3, Trimmed DEF Open
  <2>5. \A odd : OpenSide(s, odd) = Params!Side(s, e, odd)
    BY <1>1 DEF OpenSide
  <2> QED BY <1>2, <2>4, <2>5 DEF ReadingInv, Params!Key, Params!Value
<1>4. Nonempty(s, e) <=> ~(k = <<>> /\ v = <<>>)
  BY <1>2 DEF Nonempty
<1>5. Bad(s, e) <=> Params!Malformed(k) \/ Params!Malformed(v)
  BY <1>2 DEF Bad
<1>6. PICK P : P = Past(s) /\ P \in SUBSET (1..L) /\ Params!Pairs(s) = P \cup (IF Nonempty(s, e) THEN {e} ELSE {})
  BY <1>1, PairsArePast
<1>7. PICK a, b, o, d, l : /\ p = [key |-> a, value |-> b, on |-> o, dict |-> d, list |-> l, state |-> "reading"]
                           /\ d = p.dict /\ l = p.list
  BY DEF ReadingInv, IsReading
<1>8. CASE ~Nonempty(s, e)
  <2>1. q = [p EXCEPT !.key = k, !.value = v, !.on = "key"] /\ k = <<>> /\ v = <<>>
    BY <1>3, <1>4, <1>8 DEF Params!EndPair
  <2>2. q = [key |-> <<>>, value |-> <<>>, on |-> "key", dict |-> d, list |-> l, state |-> "reading"]
    BY <1>7, <2>1
  <2>3. IsReading(q) /\ q.key = <<>> /\ q.value = <<>> /\ q.on = "key" /\ q.dict = p.dict /\ q.list = p.list
    BY <1>7, <2>2 DEF IsReading
  <2>4. Kept(q, KeyAt(s), ValueAt(s), P)
    BY <1>6, <2>3, KeptSame DEF ReadingInv
  <2>5. Params!Pairs(s) = P
    BY <1>6, <1>8
  <2> QED BY <1>6, <2>3, <2>4, <2>5 DEF ReadingInv
<1>9. CASE Nonempty(s, e) /\ Bad(s, e)
  <2>1. q = [p EXCEPT !.state = "thrown"]
    BY <1>3, <1>4, <1>5, <1>9 DEF Params!EndPair
  <2>2. q.state = "thrown"
    BY <1>7, <2>1
  <2> QED BY <1>1, <1>9, <2>2
<1>10. CASE Nonempty(s, e) /\ ~Bad(s, e)
  <2>1. PICK p0 : p0 = [p EXCEPT !.key = <<>>, !.value = <<>>, !.on = "key"]
    OBVIOUS
  <2>2. p0 = [key |-> <<>>, value |-> <<>>, on |-> "key", dict |-> d, list |-> l, state |-> "reading"]
    BY <1>7, <2>1
  <2>3. IsReading(p0) /\ p0.key = <<>> /\ p0.value = <<>> /\ p0.on = "key" /\ p0.dict = p.dict /\ p0.list = p.list
    BY <1>7, <2>2 DEF IsReading
  <2>4. Kept(p0, KeyAt(s), ValueAt(s), P)
    BY <1>6, <2>3, KeptSame DEF ReadingInv
  <2>5. q = Params!Store(p0, Params!decode_url(k), Params!decode_url(v))
    BY <1>3, <1>4, <1>5, <1>10, <2>1 DEF Params!EndPair
  <2>6. KeyAt(s)[e] = Params!decode_url(k) /\ ValueAt(s)[e] = Params!decode_url(v)
    BY <1>1, <1>2 DEF KeyAt, ValueAt
  <2>7. PICK key, val : key = KeyAt(s) /\ val = ValueAt(s)
    OBVIOUS
  <2>8. q = Params!Store(p0, key[e], val[e]) /\ Kept(p0, key, val, P)
    BY <2>4, <2>5, <2>6, <2>7
  <2>9. IsReading(q) /\ q.key = p0.key /\ q.value = p0.value /\ q.on = p0.on /\ Kept(q, key, val, P \cup {e})
    <3>1. L \in Nat /\ P \in SUBSET (1..L) /\ e \in Nat /\ e > L /\ IsReading(p0)
      BY <1>1, <1>6, <2>3
    <3> QED BY <2>8, <3>1, StoreKeeps
  <2>10. Params!Pairs(s) = P \cup {e}
    BY <1>6, <1>10
  <2>11. \A x \in P \cup {e} : ~Bad(s, x)
    BY <1>6, <1>10 DEF ReadingInv
  <2> QED BY <2>3, <2>7, <2>9, <2>10, <2>11
<1> QED BY <1>8, <1>9, <1>10

LEMMA StepKeeps ==
    ASSUME NEW A, NEW s \in Seq(A), NEW t \in Seq(A), NEW L, NEW c, Extends(s, t, L, c),
           NEW p, ReadingInv(s, p), NEW q, q = Params!Step(p, c)
    PROVE  ParamsInv(t, q)
<1>1. L \in Nat /\ Len(s) = L /\ L + 1 \in 1..(L + 1)
  BY DEF Extends
<1>2. /\ c = Delimiter => Past(t) = Params!Pairs(s)
      /\ c # Delimiter => Past(t) = Past(s)
      /\ \A e \in 1..(L + 1) : /\ Nonempty(t, e) <=> Nonempty(s, e)
                               /\ Bad(t, e) <=> Bad(s, e)
                               /\ KeyAt(t)[e] = KeyAt(s)[e] /\ ValueAt(t)[e] = ValueAt(s)[e]
  BY PastStep
<1>3. /\ Params!Pairs(s) = Past(s) \cup (IF Nonempty(s, L + 1) THEN {L + 1} ELSE {})
      /\ \A e \in Past(s) : e \in 1..(L + 1)
      /\ \A e \in Params!Pairs(s) : e \in 1..(L + 1)
  <2>1. /\ Params!Pairs(s) = Past(s) \cup (IF Nonempty(s, L + 1) THEN {L + 1} ELSE {})
        /\ Past(s) \in SUBSET (1..L) /\ Params!Pairs(s) \in SUBSET (1..(L + 1))
    BY <1>1, PairsArePast
  <2>2. \A e \in 1..L : e \in 1..(L + 1)
    BY <1>1
  <2> QED BY <2>1, <2>2
<1>4. Total(s) \in Nat /\ Total(s) % 2 \in {0, 1}
  <2>1. Total(s) \in Nat
    BY OpenPiece
  <2>2. \A n \in Nat : n % 2 \in {0, 1}
    OBVIOUS
  <2> QED BY <2>1, <2>2
<1>5. PICK a, b, o, d, l : /\ p = [key |-> a, value |-> b, on |-> o, dict |-> d, list |-> l, state |-> "reading"]
                           /\ a = p.key /\ b = p.value /\ o = p.on /\ d = p.dict /\ l = p.list
  BY DEF ReadingInv, IsReading
<1>6. /\ a = Open(s, 0) /\ b = Open(s, 1) /\ o = IF Total(s) % 2 = 0 THEN "key" ELSE "value"
  BY <1>5 DEF ReadingInv
<1>7. ASSUME c # Delimiter, q.dict = d, q.list = l
      PROVE  Kept(q, KeyAt(t), ValueAt(t), Past(t)) /\ \A e \in Past(t) : ~Bad(t, e)
  <2>1. Past(t) = Past(s)
    BY <1>2, <1>7
  <2>2. Kept(q, KeyAt(t), ValueAt(t), Past(s))
    BY <1>2, <1>3, <1>5, <1>7, KeptSame DEF ReadingInv
  <2> QED BY <1>2, <1>3, <2>1, <2>2 DEF ReadingInv
<1>8. CASE c = Delimiter
  <2>1. q = Params!EndPair(p)
    BY <1>8, ParamsAssumption DEF Params!Step, Params!Equals
  <2>2. Past(t) = Params!Pairs(s) /\ L + 1 = Len(s) + 1
    BY <1>1, <1>2, <1>8
  <2>3. CASE q.state = "thrown" /\ Nonempty(s, L + 1) /\ Bad(s, L + 1)
    BY <1>1, <1>2, <1>3, <2>2, <2>3 DEF ParamsInv
  <2>4. CASE /\ IsReading(q) /\ q.key = <<>> /\ q.value = <<>> /\ q.on = "key"
             /\ Kept(q, KeyAt(s), ValueAt(s), Params!Pairs(s))
             /\ \A e \in Params!Pairs(s) : ~Bad(s, e)
    <3>1. Kept(q, KeyAt(t), ValueAt(t), Past(t))
      BY <1>2, <1>3, <2>2, <2>4, KeptSame
    <3>2. \A e \in Past(t) : ~Bad(t, e)
      BY <1>2, <1>3, <2>2, <2>4
    <3>3. Open(t, 0) = <<>> /\ Open(t, 1) = <<>>
      BY <1>8, OpenStep
    <3>4. Total(t) = 0
      BY <1>8, OpenPiece
    <3>5. q.on = IF Total(t) % 2 = 0 THEN "key" ELSE "value"
      BY <2>4, <3>4
    <3> QED BY <2>4, <3>1, <3>2, <3>3, <3>5 DEF ParamsInv, ReadingInv
  <2>5. \/ q.state = "thrown" /\ Nonempty(s, L + 1) /\ Bad(s, L + 1)
        \/ /\ IsReading(q) /\ q.key = <<>> /\ q.value = <<>> /\ q.on = "key"
           /\ Kept(q, KeyAt(s), ValueAt(s), Params!Pairs(s))
           /\ \A e \in Params!Pairs(s) : ~Bad(s, e)
    BY <2>1, <2>2, PairEnds
  <2> QED BY <2>3, <2>4, <2>5
<1>9. CASE c # Delimiter /\ c = Params!Equals
  <2>1. q = [key |-> a, value |-> b, on |-> (IF o = "key" THEN "value" ELSE "key"), dict |-> d, list |-> l, state |-> "reading"]
    BY <1>5, <1>9 DEF Params!Step
  <2>2. q.key = a /\ q.value = b /\ q.on = (IF o = "key" THEN "value" ELSE "key") /\ q.dict = d /\ q.list = l /\ IsReading(q)
    BY <2>1 DEF IsReading
  <2>3. Open(t, 0) = a /\ Open(t, 1) = b
    BY <1>6, <1>9, OpenStep
  <2>4. Total(t) = Total(s) + 1
    BY <1>9, OpenPiece
  <2>5. Total(t) % 2 = 0 <=> Total(s) % 2 # 0
    <3>1. \A n \in Nat : (n + 1) % 2 = 0 <=> n % 2 # 0
      OBVIOUS
    <3> QED BY <1>4, <2>4, <3>1
  <2>6. q.on = IF Total(t) % 2 = 0 THEN "key" ELSE "value"
    BY <1>6, <2>2, <2>5
  <2> QED BY <1>7, <1>9, <2>2, <2>3, <2>6 DEF ParamsInv, ReadingInv
<1>10. CASE c # Delimiter /\ c # Params!Equals
  <2>1. Total(t) = Total(s)
    BY <1>10, OpenPiece
  <2>2. CASE Total(s) % 2 = 0
    <3>1. o = "key" /\ Total(s) % 2 # 1
      BY <1>6, <2>2
    <3>2. q = [key |-> Params!Pushed(a, c), value |-> b, on |-> o, dict |-> d, list |-> l, state |-> "reading"]
      BY <1>5, <1>10, <3>1 DEF Params!Step
    <3>3. q.key = Params!Pushed(a, c) /\ q.value = b /\ q.on = o /\ q.dict = d /\ q.list = l /\ IsReading(q)
      BY <3>2 DEF IsReading
    <3>4. Open(t, 0) = Params!Pushed(a, c)
      BY <1>6, <1>10, <2>2, OpenStep
    <3>5. Open(t, 1) = b
      BY <1>6, <1>10, <3>1, OpenStep
    <3> QED BY <1>6, <1>7, <1>10, <2>1, <3>3, <3>4, <3>5 DEF ParamsInv, ReadingInv
  <2>3. CASE Total(s) % 2 = 1
    <3>1. o = "value" /\ Total(s) % 2 # 0
      BY <1>6, <2>3
    <3>2. q = [key |-> a, value |-> Params!Pushed(b, c), on |-> o, dict |-> d, list |-> l, state |-> "reading"]
      BY <1>5, <1>10, <3>1 DEF Params!Step
    <3>3. q.key = a /\ q.value = Params!Pushed(b, c) /\ q.on = o /\ q.dict = d /\ q.list = l /\ IsReading(q)
      BY <3>2 DEF IsReading
    <3>4. Open(t, 1) = Params!Pushed(b, c)
      BY <1>6, <1>10, <2>3, OpenStep
    <3>5. Open(t, 0) = a
      BY <1>6, <1>10, <3>1, OpenStep
    <3> QED BY <1>6, <1>7, <1>10, <2>1, <3>3, <3>4, <3>5 DEF ParamsInv, ReadingInv
  <2> QED BY <1>4, <2>2, <2>3
<1> QED BY <1>8, <1>9, <1>10

LEMMA StartKeeps == ParamsInv(<<>>, Params!Start)
<1>1. /\ Params!Start = [key |-> <<>>, value |-> <<>>, on |-> "key", dict |-> <<>>, list |-> <<>>, state |-> "reading"]
      /\ Params!Start.key = <<>> /\ Params!Start.value = <<>> /\ Params!Start.on = "key"
      /\ Params!Start.dict = <<>> /\ Params!Start.list = <<>>
      /\ IsReading(Params!Start)
  BY DEF Params!Start, IsReading
<1>2. <<>> \in Seq({}) /\ Len(<<>>) = 0 /\ DOMAIN <<>> = {} /\ \A x : x \notin 1..0
  OBVIOUS
<1>3. Past(<<>>) = {}
  BY <1>2 DEF Past
<1>4. Params!Piece(<<>>, Len(<<>>) + 1) = {}
  BY <1>2 DEF Params!Piece
<1>5. Params!Cardinality({}) = 0
  BY FS_EmptySet DEF Params!Cardinality, Cardinality
<1>6. Total(<<>>) % 2 = 0
  <2>1. {j \in {} : <<>>[j] = Params!Equals /\ j < Len(<<>>) + 1} = {}
    OBVIOUS
  <2>2. Total(<<>>) = 0
    BY <1>4, <1>5, <2>1 DEF Total, Params!Marks
  <2> QED BY <2>2
<1>7. Open(<<>>, 0) = <<>> /\ Open(<<>>, 1) = <<>>
  <2>1. \A odd : Lead(<<>>, OpenSide(<<>>, odd)) = {}
    BY <1>4 DEF Lead, OpenSide, Params!Side
  <2>2. <<>> \in Seq({}) /\ {} \in SUBSET (1..Len(<<>>))
    BY <1>2
  <2>3. Params!Picked(<<>>, {}) = <<>>
    BY <2>2, PickedEmpty
  <2> QED BY <2>1, <2>3 DEF Open
<1>8. ASSUME NEW key, NEW val PROVE Kept(Params!Start, key, val, {})
  <2>1. Apart(Params!Start) /\ Known(Params!Start) = {}
    BY <1>1, <1>2 DEF Apart, Known
  <2>2. \A k : Params!Values(Params!Start, k) = <<>> /\ At(key, {}, k) = {}
    BY <1>1, <1>2 DEF Params!Values, At
  <2>3. {val[e] : e \in {}} = {} /\ {key[e] : e \in {}} = {}
    OBVIOUS
  <2> QED BY <1>2, <1>5, <2>1, <2>2, <2>3 DEF Kept
<1> QED BY <1>1, <1>3, <1>6, <1>7, <1>8 DEF ParamsInv, ReadingInv

(* What the invariant says of the result.                                  *)
LEMMA KeptIsOnce ==
    ASSUME NEW A, NEW s \in Seq(A), NEW q, Kept(q, KeyAt(s), ValueAt(s), Params!Pairs(s))
    PROVE  LET keys == {Params!decode_url(Params!Key(s, e)) : e \in Params!Pairs(s)}
           IN /\ Known(q) = keys
              /\ \A k \in keys :
                    LET at == {e \in Params!Pairs(s) : Params!decode_url(Params!Key(s, e)) = k}
                    IN /\ Len(Params!Values(q, k)) = Params!Cardinality(at)
                       /\ \A e \in at : Params!Values(q, k)[Params!UpTo(at, e)] = Params!decode_url(Params!Value(s, e))
<1> DEFINE P == Params!Pairs(s)
<1>1. P \in SUBSET (1..(Len(s) + 1))
  BY PairsArePast
<1>2. \A e \in P : KeyAt(s)[e] = Params!decode_url(Params!Key(s, e)) /\ ValueAt(s)[e] = Params!decode_url(Params!Value(s, e))
  BY <1>1 DEF KeyAt, ValueAt
<1> HIDE DEF P
<1>3. {KeyAt(s)[e] : e \in P} = {Params!decode_url(Params!Key(s, e)) : e \in P}
  <2>1. \A x : x \in {KeyAt(s)[e] : e \in P} <=> x \in {Params!decode_url(Params!Key(s, e)) : e \in P}
    BY <1>2
  <2> QED BY <2>1
<1>4. \A k : At(KeyAt(s), P, k) = {e \in P : Params!decode_url(Params!Key(s, e)) = k}
  BY <1>2 DEF At
<1>5. /\ Known(q) = {KeyAt(s)[e] : e \in P}
      /\ \A k : /\ Len(Params!Values(q, k)) = Params!Cardinality(At(KeyAt(s), P, k))
                /\ \A e \in At(KeyAt(s), P, k) : Params!Values(q, k)[Params!UpTo(At(KeyAt(s), P, k), e)] = ValueAt(s)[e]
  BY DEF Kept, P
<1>6. ASSUME NEW k, NEW at, at = {e \in P : Params!decode_url(Params!Key(s, e)) = k}
      PROVE  /\ Len(Params!Values(q, k)) = Params!Cardinality(at)
             /\ \A e \in at : Params!Values(q, k)[Params!UpTo(at, e)] = Params!decode_url(Params!Value(s, e))
  <2>1. at = At(KeyAt(s), P, k) /\ \A e \in at : e \in P
    BY <1>4, <1>6
  <2>2. /\ Len(Params!Values(q, k)) = Params!Cardinality(at)
        /\ \A e \in at : Params!Values(q, k)[Params!UpTo(at, e)] = ValueAt(s)[e]
    BY <1>5, <2>1
  <2> QED BY <1>2, <2>1, <2>2
<1>7. \A k : LET at == {e \in P : Params!decode_url(Params!Key(s, e)) = k}
             IN /\ Len(Params!Values(q, k)) = Params!Cardinality(at)
                /\ \A e \in at : Params!Values(q, k)[Params!UpTo(at, e)] = Params!decode_url(Params!Value(s, e))
  BY <1>6
<1> QED BY <1>3, <1>5, <1>7 DEF P

LEMMA InvIsOnce ==
    ASSUME text \in Seq(Alphabet), ParamsInv(text, parser)
    PROVE  Params!EveryPairOnce
<1> DEFINE bad == \E e \in Params!Pairs(text) : Params!Malformed(Params!Key(text, e)) \/ Params!Malformed(Params!Value(text, e))
           got == Params!Result
<1>1. bad <=> \E e \in Params!Pairs(text) : Bad(text, e)
  BY DEF Bad
<1>2. /\ Params!Pairs(text) = Past(text) \cup (IF Nonempty(text, Len(text) + 1) THEN {Len(text) + 1} ELSE {})
  BY PairsArePast
<1>3. CASE parser.state = "thrown" /\ \E e \in Past(text) : Bad(text, e)
  <2>1. got.state = "thrown" /\ bad
    BY <1>1, <1>2, <1>3 DEF Params!Result
  <2> QED BY <2>1 DEF Params!EveryPairOnce
<1>4. CASE ReadingInv(text, parser)
  <2>1. parser.state = "reading"
    BY <1>4 DEF ReadingInv, IsReading
  <2>2. got = Params!EndPair(parser)
    BY <2>1 DEF Params!Result, Params!Finish
  <2>3. \/ /\ got.state = "thrown" /\ Nonempty(text, Len(text) + 1) /\ Bad(text, Len(text) + 1)
        \/ /\ IsReading(got) /\ got.key = <<>> /\ got.value = <<>> /\ got.on = "key"
           /\ Kept(got, KeyAt(text), ValueAt(text), Params!Pairs(text))
           /\ \A e \in Params!Pairs(text) : ~Bad(text, e)
    BY <1>4, <2>2, PairEnds
  <2> HIDE DEF got
  <2>4. CASE got.state = "thrown" /\ Nonempty(text, Len(text) + 1) /\ Bad(text, Len(text) + 1)
    <3>1. bad
      BY <1>1, <1>2, <2>4
    <3> QED BY <2>4, <3>1 DEF Params!EveryPairOnce, got
  <2>5. CASE /\ IsReading(got) /\ got.key = <<>> /\ got.value = <<>> /\ got.on = "key"
             /\ Kept(got, KeyAt(text), ValueAt(text), Params!Pairs(text))
             /\ \A e \in Params!Pairs(text) : ~Bad(text, e)
    <3>1. ~bad /\ got.state # "thrown"
      BY <1>1, <2>5 DEF IsReading
    <3>2. LET keys == {Params!decode_url(Params!Key(text, e)) : e \in Params!Pairs(text)}
          IN /\ Known(got) = keys
             /\ \A k \in keys :
                   LET at == {e \in Params!Pairs(text) : Params!decode_url(Params!Key(text, e)) = k}
                   IN /\ Len(Params!Values(got, k)) = Params!Cardinality(at)
                      /\ \A e \in at : Params!Values(got, k)[Params!UpTo(at, e)] = Params!decode_url(Params!Value(text, e))
      BY <2>5, KeptIsOnce
    <3> QED BY <3>1, <3>2 DEF Params!EveryPairOnce, Known, got
  <2> QED BY <2>3, <2>4, <2>5
<1> QED BY <1>3, <1>4 DEF ParamsInv

(* Whatever text a client sends, over any alphabet and however long, each  *)
(* pair of it is stored once, with its key, in its place, blanks stripped; *)
(* and the parser throws exactly when a pair cannot be decoded.            *)
THEOREM PairsAreKept == Params!Spec => []Params!EveryPairOnce
<1> DEFINE Inv == text \in Seq(Alphabet) /\ ParamsInv(text, parser)
<1>1. Params!Init => Inv
  <2> SUFFICES ASSUME Params!Init PROVE Inv
    OBVIOUS
  <2>1. text = <<>> /\ parser = Params!Start /\ text \in Seq(Alphabet)
    BY DEF Params!Init
  <2> QED BY <2>1, StartKeeps
<1>2. Inv /\ [Params!Next]_Params!vars => Inv'
  <2> SUFFICES ASSUME Inv, [Params!Next]_Params!vars PROVE Inv'
    OBVIOUS
  <2>1. ASSUME NEW c \in Alphabet, Params!Read(c) PROVE Inv'
    <3>1. ReadingInv(text, parser)
      BY <2>1 DEF ParamsInv, Params!Read
    <3>2. text' \in Seq(Alphabet) /\ Extends(text, text', Len(text), c)
      BY <2>1, AppendExtends DEF Params!Read
    <3>3. parser' = Params!Step(parser, c)
      BY <2>1 DEF Params!Read
    <3>4. PICK s, p, t, q : s = text /\ p = parser /\ t = text' /\ q = parser'
      OBVIOUS
    <3>5. ParamsInv(t, q)
      BY <3>1, <3>2, <3>3, <3>4, StepKeeps
    <3> QED BY <3>2, <3>4, <3>5
  <2>2. CASE UNCHANGED Params!vars
    BY <2>2 DEF Params!vars
  <2> QED BY <2>1, <2>2 DEF Params!Next
<1>3. Inv => Params!EveryPairOnce
  BY InvIsOnce
<1> QED BY <1>1, <1>2, <1>3, PTL DEF Params!Spec

-----------------------------------------------------------------------------
(* Induction over naturals and over sequences, for sets that contain them. *)

LEMMA EveryNat ==
    ASSUME NEW T, 0 \in T, \A n \in Nat : n \in T => n + 1 \in T
    PROVE  Nat \subseteq T
<1> SUFFICES ASSUME NEW m \in Nat, m \notin T PROVE FALSE
  OBVIOUS
<1>1. PICK x \in Nat \ T : \A y \in Nat \ T : x <= y
  BY LeastOf
<1>2. x # 0 /\ x \in Nat /\ x \notin T
  BY <1>1
<1>3. x - 1 \in Nat /\ (x - 1) + 1 = x /\ ~(x <= x - 1)
  BY <1>2
<1>4. x - 1 \in T
  BY <1>1, <1>3
<1> QED BY <1>2, <1>3, <1>4

LEMMA EverySeq ==
    ASSUME NEW A, NEW T, <<>> \in T, \A w \in Seq(A), c \in A : w \in T => Append(w, c) \in T
    PROVE  Seq(A) \subseteq T
<1> DEFINE N == {n \in Nat : \A w \in Seq(A) : Len(w) = n => w \in T}
<1>1. 0 \in N
  BY EmptySeq
<1>2. ASSUME NEW n \in Nat, n \in N PROVE n + 1 \in N
  <2> SUFFICES ASSUME NEW w \in Seq(A), Len(w) = n + 1 PROVE w \in T
    OBVIOUS
  <2>1. w # <<>>
    BY EmptySeq
  <2>2. PICK v \in Seq(A), c \in A : w = Append(v, c)
    BY <2>1, SequenceEmptyOrAppend
  <2>3. Len(v) = n
    BY <2>2, AppendProperties, LenProperties
  <2> QED BY <1>2, <2>2, <2>3
<1>3. Nat \subseteq N
  <2> HIDE DEF N
  <2> QED BY <1>1, <1>2, EveryNat
<1> QED BY <1>3, LenProperties

LEMMA EverySeqFront ==
    ASSUME NEW A, NEW T, <<>> \in T, \A w \in Seq(A), c \in A : w \in T => <<c>> \o w \in T
    PROVE  Seq(A) \subseteq T
<1> DEFINE N == {n \in Nat : \A w \in Seq(A) : Len(w) = n => w \in T}
<1>1. 0 \in N
  BY EmptySeq
<1>2. ASSUME NEW n \in Nat, n \in N PROVE n + 1 \in N
  <2> SUFFICES ASSUME NEW w \in Seq(A), Len(w) = n + 1 PROVE w \in T
    OBVIOUS
  <2>1. w # <<>>
    BY EmptySeq
  <2>2. PICK v, c : v = Tail(w) /\ c = w[1]
    OBVIOUS
  <2>3. v \in Seq(A) /\ Len(v) = n /\ \A i \in 1..n : v[i] = w[i + 1]
    BY <2>1, <2>2, HeadTailProperties
  <2>4. c \in A /\ 1 \in 1..(n + 1)
    BY <2>2, ElementOfSeq
  <2>5. <<c>> \in Seq(A) /\ Len(<<c>>) = 1 /\ <<c>>[1] = c
    BY <2>4
  <2>6. PICK a, u : a = <<c>> /\ u = a \o v
    OBVIOUS
  <2>7. u \in Seq(A) /\ Len(u) = 1 + n /\ \A i \in 1..(1 + n) : u[i] = IF i <= 1 THEN a[i] ELSE v[i - 1]
    BY <2>3, <2>5, <2>6, ConcatProperties
  <2>8. \A i \in 1..(1 + n) : u[i] = w[i]
    <3> SUFFICES ASSUME NEW i \in 1..(1 + n) PROVE u[i] = w[i]
      OBVIOUS
    <3>1. CASE i = 1
      BY <2>2, <2>5, <2>6, <2>7, <3>1
    <3>2. CASE i # 1
      <4>1. i - 1 \in 1..n /\ (i - 1) + 1 = i /\ ~(i <= 1)
        BY <3>2
      <4> QED BY <2>3, <2>7, <4>1
    <3> QED BY <3>1, <3>2
  <2>9. u = w
    BY <2>7, <2>8, SeqEqual
  <2> QED BY <1>2, <2>3, <2>4, <2>6, <2>9
<1>3. Nat \subseteq N
  <2> HIDE DEF N
  <2> QED BY <1>1, <1>2, EveryNat
<1> QED BY <1>3, LenProperties

-----------------------------------------------------------------------------
(* FlattenSeq of the community modules, by its last sequence.              *)

Flattens(f, ss) == f = [i \in 1..Len(ss) |-> IF i = 1 THEN ss[i] ELSE f[i - 1] \o ss[i]]

LEMMA FlattenIs ==
    \A ss : Params!FlattenSeq(ss) = IF Len(ss) = 0 THEN ss ELSE (CHOOSE f : Flattens(f, ss))[Len(ss)]
  BY DEF Params!FlattenSeq, Flattens

LEMMA FlattensExists ==
    ASSUME NEW A, NEW ss \in Seq(A)
    PROVE  \E f : Flattens(f, ss)
<1> DEFINE T == {w \in Seq(A) : \E f : Flattens(f, w)}
<1>1. <<>> \in T
  <2>1. Len(<<>>) = 0 /\ <<>> \in Seq(A) /\ \A x : x \notin 1..0
    OBVIOUS
  <2>2. PICK f : f = [i \in 1..0 |-> 0]
    OBVIOUS
  <2>3. Flattens(f, <<>>)
    BY <2>1, <2>2 DEF Flattens
  <2> QED BY <2>1, <2>3
<1>2. ASSUME NEW w \in Seq(A), NEW c \in A, w \in T PROVE Append(w, c) \in T
  <2>1. PICK f : Flattens(f, w)
    BY <1>2
  <2>2. PICK t, L : t = Append(w, c) /\ L = Len(w) /\ t \in Seq(A) /\ Extends(w, t, L, c)
    BY AppendExtends
  <2>3. PICK g : g = [i \in 1..(L + 1) |-> IF i = L + 1 THEN (IF i = 1 THEN t[i] ELSE f[i - 1] \o t[i]) ELSE f[i]]
    OBVIOUS
  <2>4. ASSUME NEW i \in 1..(L + 1) PROVE g[i] = IF i = 1 THEN t[i] ELSE g[i - 1] \o t[i]
    <3>1. L \in Nat /\ i \in Int /\ i # 1 => i - 1 \in 1..L /\ i - 1 \in 1..(L + 1) /\ i - 1 # L + 1
      BY <2>2 DEF Extends
    <3>2. L \in Nat /\ Len(w) = L
      BY <2>2 DEF Extends
    <3>3. i # 1 => g[i - 1] = f[i - 1]
      BY <2>3, <3>1, <3>2
    <3>4. CASE i = L + 1
      BY <2>3, <3>3, <3>4
    <3>5. CASE i # L + 1
      <4>1. i \in 1..L
        BY <3>2, <3>5
      <4>2. g[i] = f[i] /\ t[i] = w[i]
        BY <2>2, <2>3, <3>5, <4>1 DEF Extends
      <4>3. f[i] = IF i = 1 THEN w[i] ELSE f[i - 1] \o w[i]
        BY <2>1, <3>2, <4>1 DEF Flattens
      <4> QED BY <3>3, <4>2, <4>3
    <3> QED BY <3>4, <3>5
  <2>5. Len(t) = L + 1 /\ DOMAIN g = 1..(L + 1)
    BY <2>2, <2>3 DEF Extends
  <2>6. g = [i \in 1..(L + 1) |-> IF i = 1 THEN t[i] ELSE g[i - 1] \o t[i]]
    BY <2>3, <2>4
  <2>7. Flattens(g, t)
    BY <2>5, <2>6 DEF Flattens
  <2> QED BY <2>2, <2>7
<1> HIDE DEF T
<1>3. ss \in T
  BY <1>1, <1>2, EverySeq
<1> QED BY <1>3 DEF T

LEMMA FlattensAgree ==
    ASSUME NEW s, NEW t, NEW L, NEW c, Extends(s, t, L, c), NEW f, Flattens(f, s), NEW g, Flattens(g, t)
    PROVE  \A i \in 1..L : f[i] = g[i]
<1> DEFINE T == {n \in Nat : n + 1 \in 1..L => f[n + 1] = g[n + 1]}
<1>0. L \in Nat /\ Len(s) = L /\ Len(t) = L + 1 /\ \A i \in 1..L : t[i] = s[i] /\ i \in 1..(L + 1)
  BY DEF Extends
<1>1. /\ \A i \in 1..L : f[i] = IF i = 1 THEN s[i] ELSE f[i - 1] \o s[i]
      /\ \A i \in 1..(L + 1) : g[i] = IF i = 1 THEN t[i] ELSE g[i - 1] \o t[i]
  BY <1>0 DEF Flattens
<1>2. 0 \in T
  <2>1. 0 + 1 = 1
    OBVIOUS
  <2> QED BY <1>0, <1>1, <2>1
<1>3. ASSUME NEW n \in Nat, n \in T PROVE n + 1 \in T
  <2> SUFFICES ASSUME (n + 1) + 1 \in 1..L PROVE f[(n + 1) + 1] = g[(n + 1) + 1]
    OBVIOUS
  <2>1. PICK j \in 1..L : j = (n + 1) + 1 /\ j - 1 = n + 1 /\ j # 1 /\ n + 1 \in 1..L
    BY <1>0
  <2>2. f[n + 1] = g[n + 1]
    BY <1>3, <2>1
  <2>3. f[j] = f[n + 1] \o s[j] /\ g[j] = g[n + 1] \o t[j]
    BY <1>0, <1>1, <2>1
  <2> QED BY <1>0, <2>1, <2>2, <2>3
<1>4. Nat \subseteq T
  <2> HIDE DEF T
  <2> QED BY <1>2, <1>3, EveryNat
<1>5. \A i \in 1..L : i - 1 \in Nat /\ (i - 1) + 1 = i
  BY <1>0
<1> QED BY <1>4, <1>5

LEMMA FlattenAppend ==
    ASSUME NEW A, NEW ss \in Seq(Seq(A)), NEW x \in Seq(A)
    PROVE  /\ Params!FlattenSeq(<<>>) = <<>>
           /\ Params!FlattenSeq(Append(ss, x)) = Params!FlattenSeq(ss) \o x
<1>1. Params!FlattenSeq(<<>>) = <<>>
  BY FlattenIs
<1>2. PICK t, L : t = Append(ss, x) /\ L = Len(ss) /\ t \in Seq(Seq(A)) /\ Extends(ss, t, L, x)
  BY AppendExtends
<1>3. PICK g : g = (CHOOSE h : Flattens(h, t)) /\ Flattens(g, t)
  BY <1>2, FlattensExists
<1>4. L \in Nat /\ Len(t) = L + 1 /\ t[L + 1] = x /\ L + 1 # 0 /\ L + 1 \in 1..(L + 1)
  BY <1>2 DEF Extends
<1>5. Params!FlattenSeq(t) = g[L + 1]
  BY <1>3, <1>4, FlattenIs
<1>6. g[L + 1] = IF L + 1 = 1 THEN x ELSE g[(L + 1) - 1] \o x
  BY <1>3, <1>4 DEF Flattens
<1>7. CASE L = 0
  <2>1. ss = <<>>
    BY <1>2, <1>7, EmptySeq
  <2>2. <<>> \o x = x
    BY ConcatEmptySeq
  <2>3. L + 1 = 1
    BY <1>7
  <2> QED BY <1>1, <1>2, <1>5, <1>6, <2>1, <2>2, <2>3
<1>8. CASE L # 0
  <2>1. PICK f : f = (CHOOSE h : Flattens(h, ss)) /\ Flattens(f, ss)
    BY FlattensExists
  <2>2. Params!FlattenSeq(ss) = f[L]
    BY <1>2, <1>8, <2>1, FlattenIs
  <2>3. L \in 1..L /\ (L + 1) - 1 = L /\ L + 1 # 1
    BY <1>4, <1>8
  <2>4. f[L] = g[L]
    BY <1>2, <1>3, <2>1, <2>3, FlattensAgree
  <2> QED BY <1>1, <1>2, <1>5, <1>6, <2>2, <2>3, <2>4
<1> QED BY <1>7, <1>8

LEMMA FlattenIsSeq ==
    ASSUME NEW A
    PROVE  \A ss \in Seq(Seq(A)) : Params!FlattenSeq(ss) \in Seq(A)
<1> DEFINE T == {ss \in Seq(Seq(A)) : Params!FlattenSeq(ss) \in Seq(A)}
<1>1. <<>> \in T
  <2>1. <<>> \in Seq(Seq(A)) /\ <<>> \in Seq(A)
    OBVIOUS
  <2>2. Params!FlattenSeq(<<>>) = <<>>
    BY FlattenIs
  <2> QED BY <2>1, <2>2
<1>2. ASSUME NEW w \in Seq(Seq(A)), NEW c \in Seq(A), w \in T PROVE Append(w, c) \in T
  <2>1. Append(w, c) \in Seq(Seq(A))
    BY AppendProperties
  <2>2. Params!FlattenSeq(w) \o c \in Seq(A)
    BY <1>2, ConcatProperties
  <2>3. Params!FlattenSeq(Append(w, c)) = Params!FlattenSeq(w) \o c
    BY FlattenAppend
  <2> QED BY <2>1, <2>2, <2>3
<1> HIDE DEF T
<1>3. Seq(Seq(A)) \subseteq T
  BY <1>1, <1>2, EverySeq
<1> QED BY <1>3 DEF T

-----------------------------------------------------------------------------
(* parse_params, by the last character that it reads.                      *)

Reads(f, s) == f = [n \in 0..Len(s) |-> IF n = 0 THEN Params!Start
                                        ELSE IF f[n - 1].state = "thrown" THEN f[n - 1]
                                        ELSE Params!Step(f[n - 1], s[n])]
After(s) == (CHOOSE f : Reads(f, s))[Len(s)]
Fed(p, c) == IF p.state = "thrown" THEN p ELSE Params!Step(p, c)

LEMMA ParseIs ==
    \A s : Params!parse_params(s) = IF After(s).state = "thrown" THEN After(s) ELSE Params!Finish(After(s))
  BY DEF Params!parse_params, After, Reads

LEMMA ReadsExists ==
    ASSUME NEW A, NEW ss \in Seq(A)
    PROVE  \E f : Reads(f, ss)
<1> DEFINE T == {w \in Seq(A) : \E f : Reads(f, w)}
<1>1. <<>> \in T
  <2>1. Len(<<>>) = 0 /\ <<>> \in Seq(A) /\ \A x \in 0..0 : x = 0
    OBVIOUS
  <2>2. PICK f : f = [n \in 0..0 |-> Params!Start]
    OBVIOUS
  <2>3. f = [n \in 0..0 |-> IF n = 0 THEN Params!Start
                            ELSE IF f[n - 1].state = "thrown" THEN f[n - 1]
                            ELSE Params!Step(f[n - 1], <<>>[n])]
    BY <2>1, <2>2
  <2>4. Reads(f, <<>>)
    BY <2>1, <2>3 DEF Reads
  <2> QED BY <2>1, <2>4
<1>2. ASSUME NEW w \in Seq(A), NEW c \in A, w \in T PROVE Append(w, c) \in T
  <2>1. PICK f : Reads(f, w)
    BY <1>2
  <2>2. PICK t, L : t = Append(w, c) /\ L = Len(w) /\ t \in Seq(A) /\ Extends(w, t, L, c)
    BY AppendExtends
  <2>3. PICK g : g = [n \in 0..(L + 1) |-> IF n = L + 1 THEN Fed(f[L], c) ELSE f[n]]
    OBVIOUS
  <2>4. L \in Nat /\ Len(w) = L /\ Len(t) = L + 1 /\ t[L + 1] = c
    BY <2>2 DEF Extends
  <2>5. ASSUME NEW n \in 0..(L + 1)
        PROVE  g[n] = IF n = 0 THEN Params!Start
                      ELSE IF g[n - 1].state = "thrown" THEN g[n - 1]
                      ELSE Params!Step(g[n - 1], t[n])
    <3>1. n # 0 => n - 1 \in 0..L /\ n - 1 \in 0..(L + 1) /\ n - 1 # L + 1
      BY <2>4
    <3>2. n # 0 => g[n - 1] = f[n - 1]
      BY <2>3, <3>1
    <3>3. CASE n = L + 1
      <4>1. n # 0 /\ n - 1 = L
        BY <2>4, <3>3
      <4>2. g[n] = Fed(f[L], c)
        BY <2>3, <3>3
      <4> QED BY <2>4, <3>2, <3>3, <4>1, <4>2 DEF Fed
    <3>4. CASE n # L + 1
      <4>1. n \in 0..L /\ (n # 0 => n \in 1..L)
        BY <2>4, <3>4
      <4>2. g[n] = f[n] /\ (n # 0 => t[n] = w[n])
        BY <2>2, <2>3, <3>4, <4>1 DEF Extends
      <4>3. f[n] = IF n = 0 THEN Params!Start
                   ELSE IF f[n - 1].state = "thrown" THEN f[n - 1]
                   ELSE Params!Step(f[n - 1], w[n])
        BY <2>1, <2>4, <4>1 DEF Reads
      <4>4. CASE n = 0
        BY <4>2, <4>3, <4>4
      <4>5. CASE n # 0
        BY <3>2, <4>2, <4>3, <4>5
      <4> QED BY <4>4, <4>5
    <3> QED BY <3>3, <3>4
  <2>6. DOMAIN g = 0..(L + 1)
    BY <2>3
  <2>7. g = [n \in 0..(L + 1) |-> IF n = 0 THEN Params!Start
                                  ELSE IF g[n - 1].state = "thrown" THEN g[n - 1]
                                  ELSE Params!Step(g[n - 1], t[n])]
    BY <2>3, <2>5
  <2>8. Reads(g, t)
    BY <2>4, <2>7 DEF Reads
  <2> QED BY <2>2, <2>8
<1> HIDE DEF T
<1>3. ss \in T
  BY <1>1, <1>2, EverySeq
<1> QED BY <1>3 DEF T

LEMMA ReadsAgree ==
    ASSUME NEW s, NEW t, NEW L, NEW c, Extends(s, t, L, c), NEW f, Reads(f, s), NEW g, Reads(g, t)
    PROVE  \A n \in 0..L : f[n] = g[n]
<1> DEFINE T == {n \in Nat : n \in 0..L => f[n] = g[n]}
<1>0. L \in Nat /\ Len(s) = L /\ Len(t) = L + 1 /\ (\A i \in 1..L : t[i] = s[i]) /\ \A i \in 0..L : i \in 0..(L + 1)
  BY DEF Extends
<1>1. /\ \A n \in 0..L : f[n] = IF n = 0 THEN Params!Start
                                ELSE IF f[n - 1].state = "thrown" THEN f[n - 1]
                                ELSE Params!Step(f[n - 1], s[n])
      /\ \A n \in 0..(L + 1) : g[n] = IF n = 0 THEN Params!Start
                                      ELSE IF g[n - 1].state = "thrown" THEN g[n - 1]
                                      ELSE Params!Step(g[n - 1], t[n])
  BY <1>0 DEF Reads
<1>2. 0 \in T
  BY <1>0, <1>1
<1>3. ASSUME NEW n \in Nat, n \in T PROVE n + 1 \in T
  <2> SUFFICES ASSUME n + 1 \in 0..L PROVE f[n + 1] = g[n + 1]
    OBVIOUS
  <2>1. PICK j \in 1..L : j = n + 1 /\ j - 1 = n /\ j # 0 /\ n \in 0..L /\ j \in 0..L
    BY <1>0
  <2>2. f[n] = g[n]
    BY <1>3, <2>1
  <2>3. f[j] = (IF f[n].state = "thrown" THEN f[n] ELSE Params!Step(f[n], s[j]))
    BY <1>1, <2>1
  <2>4. g[j] = (IF g[n].state = "thrown" THEN g[n] ELSE Params!Step(g[n], t[j]))
    BY <1>0, <1>1, <2>1
  <2>5. t[j] = s[j]
    BY <1>0, <2>1
  <2> QED BY <2>1, <2>2, <2>3, <2>4, <2>5
<1>4. Nat \subseteq T
  <2> HIDE DEF T
  <2> QED BY <1>2, <1>3, EveryNat
<1> QED BY <1>0, <1>4

LEMMA AfterAppend ==
    ASSUME NEW A, NEW s \in Seq(A), NEW c \in A
    PROVE  /\ After(<<>>) = Params!Start
           /\ After(Append(s, c)) = Fed(After(s), c)
<1>1. After(<<>>) = Params!Start
  <2>1. PICK f : f = (CHOOSE h : Reads(h, <<>>)) /\ Reads(f, <<>>)
    <3>1. <<>> \in Seq(A)
      OBVIOUS
    <3> QED BY <3>1, ReadsExists
  <2>2. Len(<<>>) = 0 /\ 0 \in 0..0
    OBVIOUS
  <2>3. f[0] = Params!Start
    BY <2>1, <2>2 DEF Reads
  <2> QED BY <2>1, <2>2, <2>3 DEF After
<1>2. PICK t, L : t = Append(s, c) /\ L = Len(s) /\ t \in Seq(A) /\ Extends(s, t, L, c)
  BY AppendExtends
<1>3. PICK f : f = (CHOOSE h : Reads(h, s)) /\ Reads(f, s)
  BY ReadsExists
<1>4. PICK g : g = (CHOOSE h : Reads(h, t)) /\ Reads(g, t)
  BY <1>2, ReadsExists
<1>5. /\ L \in Nat /\ Len(t) = L + 1 /\ t[L + 1] = c
      /\ L + 1 \in 0..(L + 1) /\ L \in 0..L /\ L + 1 # 0 /\ (L + 1) - 1 = L
  BY <1>2 DEF Extends
<1>6. f[L] = g[L]
  BY <1>2, <1>3, <1>4, <1>5, ReadsAgree
<1>7. g[L + 1] = Fed(g[L], c)
  <2>1. \A n \in 0..(L + 1) : g[n] = IF n = 0 THEN Params!Start
                                     ELSE IF g[n - 1].state = "thrown" THEN g[n - 1]
                                     ELSE Params!Step(g[n - 1], t[n])
    BY <1>4, <1>5 DEF Reads
  <2>2. PICK n \in 0..(L + 1) : n = L + 1 /\ n # 0 /\ n - 1 = L /\ t[n] = c
    BY <1>5
  <2>3. g[n] = IF g[L].state = "thrown" THEN g[L] ELSE Params!Step(g[L], c)
    BY <2>1, <2>2
  <2> QED BY <2>2, <2>3 DEF Fed
<1>8. After(s) = f[L] /\ After(t) = g[L + 1]
  BY <1>2, <1>3, <1>4, <1>5 DEF After
<1> QED BY <1>1, <1>2, <1>6, <1>7, <1>8

-----------------------------------------------------------------------------
(* decode_url, by the first character that it reads.                       *)

Decoded(f, s, i) ==
    IF i > Len(s) THEN <<>>
    ELSE IF s[i] = Params!Percent THEN <<Params!stoi(SubSeq(s, i + 1, IF i + 2 > Len(s) THEN Len(s) ELSE i + 2))>> \o f[i + 3]
    ELSE <<IF s[i] = Params!Plus THEN Params!Space ELSE s[i]>> \o f[i + 1]
Decodes(f, s) == f = [i \in Nat |-> Decoded(f, s, i)]
From(s) == CHOOSE f : Decodes(f, s)

LEMMA DecodeIs == \A s : Params!decode_url(s) = From(s)[1]
  BY DEF Params!decode_url, From, Decodes, Decoded

LEMMA DecodesExists ==
    ASSUME NEW A, NEW s \in Seq(A)
    PROVE  Decodes(From(s), s) /\ \A i \in Nat : From(s)[i] = Decoded(From(s), s, i)
<1>0. PICK L \in Nat : L = Len(s)
  OBVIOUS
<1> DEFINE T == {k \in Nat : \E f : DOMAIN f = Nat /\ \A i \in Nat : i + k > L => f[i] = Decoded(f, s, i)}
<1>1. 0 \in T
  <2>1. PICK f : f = [i \in Nat |-> <<>>]
    OBVIOUS
  <2>2. \A i \in Nat : i + 0 > L => f[i] = Decoded(f, s, i)
    BY <1>0, <2>1 DEF Decoded
  <2> QED BY <2>1, <2>2
<1>2. ASSUME NEW k \in Nat, k \in T PROVE k + 1 \in T
  <2>1. PICK f : DOMAIN f = Nat /\ \A i \in Nat : i + k > L => f[i] = Decoded(f, s, i)
    BY <1>2
  <2>2. CASE k > L
    <3>1. \A i \in Nat : i + k > L
      BY <1>0, <2>2
    <3> QED BY <2>1, <3>1
  <2>3. CASE ~(k > L)
    <3>1. PICK j \in Nat : j = L - k
      <4>1. \A a, b \in Nat : ~(b > a) => a - b \in Nat
        OBVIOUS
      <4> HIDE DEF T
      <4> QED BY <2>3, <4>1
    <3>2. PICK g : g = [i \in Nat |-> IF i = j THEN Decoded(f, s, j) ELSE f[i]]
      OBVIOUS
    <3>3. \A i \in Nat : i + (k + 1) > L => i = j \/ (i > j /\ i + k > L)
      BY <1>0, <3>1
    <3>4. \A i \in Nat : i >= j => i + 1 \in Nat /\ i + 3 \in Nat /\ i + 1 # j /\ i + 3 # j
      BY <3>1
    <3>5. \A i \in Nat : i >= j => g[i + 1] = f[i + 1] /\ g[i + 3] = f[i + 3]
      BY <3>2, <3>4
    <3>6. \A i \in Nat : i >= j => Decoded(g, s, i) = Decoded(f, s, i)
      BY <3>5 DEF Decoded
    <3>7. \A i \in Nat : i + (k + 1) > L => g[i] = Decoded(g, s, i)
      <4> SUFFICES ASSUME NEW i \in Nat, i + (k + 1) > L PROVE g[i] = Decoded(g, s, i)
        OBVIOUS
      <4>1. CASE i = j
        BY <3>2, <3>6, <4>1
      <4>2. CASE i > j /\ i + k > L
        BY <2>1, <3>2, <3>6, <4>2
      <4> QED BY <3>3, <4>1, <4>2
    <3>8. DOMAIN g = Nat
      BY <3>2
    <3> QED BY <3>7, <3>8
  <2> QED BY <2>2, <2>3
<1>3. L + 1 \in T
  <2> HIDE DEF T
  <2> QED BY <1>0, <1>1, <1>2, EveryNat
<1>4. PICK f : DOMAIN f = Nat /\ \A i \in Nat : i + (L + 1) > L => f[i] = Decoded(f, s, i)
  BY <1>3
<1>5. \A i \in Nat : i + (L + 1) > L
  BY <1>0
<1>6. PICK g : g = [i \in Nat |-> Decoded(f, s, i)]
  OBVIOUS
<1>7. \A i \in Nat : g[i] = f[i]
  BY <1>4, <1>5, <1>6
<1>8. \A i \in Nat : Decoded(g, s, i) = Decoded(f, s, i)
  <2>1. \A i \in Nat : i + 1 \in Nat /\ i + 3 \in Nat
    OBVIOUS
  <2>2. \A i \in Nat : g[i + 1] = f[i + 1] /\ g[i + 3] = f[i + 3]
    BY <1>7, <2>1
  <2> QED BY <2>2 DEF Decoded
<1>9. g = [i \in Nat |-> Decoded(g, s, i)]
  BY <1>6, <1>8
<1>10. Decodes(From(s), s)
  BY <1>9 DEF Decodes, From
<1> QED BY <1>10 DEF Decodes

(* What is decoded behind a prefix does not depend on it.                  *)
LEMMA DecodesBehind ==
    ASSUME NEW A, NEW x \in Seq(A), NEW y \in Seq(A), NEW u, u = x \o y, NEW m \in Nat, m = Len(x)
    PROVE  From(u)[m + 1] = From(y)[1]
<1>1. PICK L \in Nat : L = Len(y) /\ m \in Nat
  BY LenProperties
<1>2. u \in Seq(A) /\ Len(u) = m + L /\ \A i \in 1..(m + L) : u[i] = IF i <= m THEN x[i] ELSE y[i - m]
  BY <1>1, ConcatProperties
<1>3. /\ \A i \in Nat : From(u)[i] = Decoded(From(u), u, i)
      /\ \A i \in Nat : From(y)[i] = Decoded(From(y), y, i)
  BY <1>2, DecodesExists
<1> DEFINE T == {k \in Nat : \A i \in Nat, j \in Nat : i >= 1 /\ i + k > L /\ j = m + i => From(u)[j] = From(y)[i]}
<1>4. 0 \in T
  <2> SUFFICES ASSUME NEW i \in Nat, NEW j \in Nat, i >= 1, i + 0 > L, j = m + i PROVE From(u)[j] = From(y)[i]
    OBVIOUS
  <2>1. i > Len(y) /\ j > Len(u)
    BY <1>1, <1>2
  <2>2. Decoded(From(u), u, j) = <<>> /\ Decoded(From(y), y, i) = <<>>
    BY <2>1 DEF Decoded
  <2> QED BY <1>3, <2>2
<1>5. ASSUME NEW k \in Nat, k \in T PROVE k + 1 \in T
  <2> SUFFICES ASSUME NEW i \in Nat, NEW j \in Nat, i >= 1, i + (k + 1) > L, j = m + i PROVE From(u)[j] = From(y)[i]
    OBVIOUS
  <2>1. \A a, b \in Nat : a >= 1 /\ a + k > L /\ b = m + a => From(u)[b] = From(y)[a]
    BY <1>5
  <2>2. CASE i + k > L
    BY <2>1, <2>2
  <2>3. CASE i > L
    <3>1. i + k > L
      BY <1>1, <2>3
    <3> QED BY <2>1, <3>1
  <2>4. CASE ~(i > L) /\ ~(i + k > L)
    <3>1. i + 1 \in Nat /\ i + 3 \in Nat /\ j + 1 \in Nat /\ j + 3 \in Nat /\ i + 1 >= 1 /\ i + 3 >= 1
      BY <1>1
    <3>2. (i + 1) + k > L /\ (i + 3) + k > L /\ j + 1 = m + (i + 1) /\ j + 3 = m + (i + 3)
      BY <1>1
    <3>3. From(u)[j + 1] = From(y)[i + 1] /\ From(u)[j + 3] = From(y)[i + 3]
      BY <2>1, <3>1, <3>2
    <3>4. u[j] = y[i]
      <4>1. j \in 1..(m + L) /\ ~(j <= m) /\ j - m = i
        BY <1>1, <2>4
      <4> QED BY <1>2, <4>1
    <3>5. PICK e : e = (IF i + 2 > L THEN L ELSE i + 2)
      OBVIOUS
    <3>6. PICK h : h = (IF j + 2 > m + L THEN m + L ELSE j + 2)
      OBVIOUS
    <3>7. e \in Nat /\ h = m + e /\ e >= i /\ e <= L
      BY <1>1, <2>4, <3>5, <3>6
    <3>8. SubSeq(u, j + 1, h) = SubSeq(y, i + 1, e)
      <4>1. CASE e = i
        <5>1. h < j + 1 /\ e < i + 1 /\ h \in Int /\ j + 1 \in Int /\ e \in Int /\ i + 1 \in Int
          BY <1>1, <3>7, <4>1
        <5>2. SubSeq(u, j + 1, h) = <<>> /\ SubSeq(y, i + 1, e) = <<>>
          BY <5>1, SubSeqEmpty
        <5> QED BY <5>2
      <4>2. CASE e # i
        <5>1. j + 1 \in (m + 1)..(m + L) /\ h \in (m + 1)..(m + L) /\ (j + 1) - m = i + 1 /\ h - m = e
          BY <1>1, <3>7, <4>2
        <5>2. SubSeq(u, j + 1, h) = SubSeq(y, (j + 1) - m, h - m)
          BY <1>1, <5>1, SubSeqOfConcat2
        <5> QED BY <5>1, <5>2
      <4> QED BY <4>1, <4>2
    <3>9. ~(i > Len(y)) /\ ~(j > Len(u))
      BY <1>1, <1>2, <2>4
    <3>10. Decoded(From(u), u, j) = IF u[j] = Params!Percent THEN <<Params!stoi(SubSeq(u, j + 1, h))>> \o From(u)[j + 3]
                                    ELSE <<IF u[j] = Params!Plus THEN Params!Space ELSE u[j]>> \o From(u)[j + 1]
      BY <1>2, <3>6, <3>9 DEF Decoded
    <3>11. Decoded(From(y), y, i) = IF y[i] = Params!Percent THEN <<Params!stoi(SubSeq(y, i + 1, e))>> \o From(y)[i + 3]
                                    ELSE <<IF y[i] = Params!Plus THEN Params!Space ELSE y[i]>> \o From(y)[i + 1]
      BY <1>1, <3>5, <3>9 DEF Decoded
    <3>12. From(u)[j] = Decoded(From(u), u, j) /\ From(y)[i] = Decoded(From(y), y, i)
      BY <1>3
    <3>13. CASE y[i] = Params!Percent
      BY <3>3, <3>4, <3>8, <3>10, <3>11, <3>12, <3>13
    <3>14. CASE y[i] # Params!Percent
      BY <3>3, <3>4, <3>10, <3>11, <3>12, <3>14
    <3> QED BY <3>13, <3>14
  <2> QED BY <2>2, <2>3, <2>4
<1>6. L + 1 \in T
  <2> HIDE DEF T
  <2> QED BY <1>1, <1>4, <1>5, EveryNat
<1>7. m + 1 \in Nat /\ 1 \in Nat /\ 1 >= 1 /\ 1 + (L + 1) > L
  BY <1>1
<1> QED BY <1>6, <1>7

-----------------------------------------------------------------------------
(* encode_url and decode_url are inverse.                                  *)

Bytes == 0..255
Plain == Params!Safe \cup {Params!Percent}

LEMMA PlainIs ==
    /\ \A c \in Plain : c \in Nat /\ c \in Bytes /\ c # Params!Space /\ c # Params!Equals /\ c # Params!Plus /\ c # Delimiter
    /\ \A c \in Params!Safe : c \in Plain /\ c # Params!Percent
    /\ Params!Percent \in Plain
<1>1. \A c \in Params!Safe : c \in 65..90 \/ c \in 97..122 \/ c \in 48..57 \/ c = 45 \/ c = 46 \/ c = 95 \/ c = 126
  BY DEF Params!Safe, Params!Upper, Params!Lower, Params!Digits
<1>2. \A c \in Params!Safe : c \in Nat /\ c \in 0..255 /\ c # 32 /\ c # 61 /\ c # 43 /\ c # 38 /\ c # 59 /\ c # 37
  BY <1>1
<1> QED BY <1>2, ParamsAssumption DEF Plain, Bytes, Params!Space, Params!Equals, Params!Plus, Params!Percent

LEMMA HexDigits ==
    ASSUME NEW n \in 0..15
    PROVE  /\ Params!HexDigit(n) \in Params!Safe /\ Params!HexDigit(n) # 45
           /\ Params!HexValue(Params!HexDigit(n)) = n
<1> DEFINE h == Params!HexDigit(n)
<1>1. CASE n < 10
  <2>1. h = 48 + n /\ h \in 48..57 /\ h - 48 = n
    BY <1>1 DEF Params!HexDigit
  <2> QED BY <2>1 DEF Params!HexValue, Params!Safe, Params!Digits
<1>2. CASE ~(n < 10)
  <2>1. h = 55 + n /\ h \in 65..70 /\ h \in 65..90 /\ h - 55 = n /\ h \notin 48..57
    BY <1>2 DEF Params!HexDigit
  <2> QED BY <2>1 DEF Params!HexValue, Params!Safe, Params!Upper, Params!Digits
<1> QED BY <1>1, <1>2

LEMMA HexValues == \A c \in Bytes : Params!HexValue(c) \in (-1)..15
<1> SUFFICES ASSUME NEW c \in Bytes PROVE Params!HexValue(c) \in (-1)..15
  OBVIOUS
<1>1. CASE c \in 48..57
  BY <1>1 DEF Params!HexValue, Params!Digits
<1>2. CASE c \in 65..70
  BY <1>2 DEF Params!HexValue, Params!Digits
<1>3. CASE c \in 97..102
  BY <1>3 DEF Params!HexValue, Params!Digits
<1>4. CASE c \notin 48..57 /\ c \notin 65..70 /\ c \notin 97..102
  BY <1>4 DEF Params!HexValue, Params!Digits
<1> QED BY <1>1, <1>2, <1>3, <1>4

Blanks(s) == CHOOSE n \in 0..Len(s) : /\ \A i \in 1..n : s[i] \in Params!White
                                      /\ n = Len(s) \/ s[n + 1] \notin Params!White
Signed(s) == Blanks(s) < Len(s) /\ s[Blanks(s) + 1] \in {Params!Plus, 45}
Number(s) == SubSeq(s, Blanks(s) + 1 + (IF Signed(s) THEN 1 ELSE 0), Len(s))
Magnitude(num) ==
    IF Len(num) = 2 /\ Params!HexValue(num[2]) >= 0
    THEN 16 * Params!HexValue(num[1]) + Params!HexValue(num[2])
    ELSE Params!HexValue(num[1])

LEMMA StoiIs ==
    \A s : Params!stoi(s) = IF Number(s) = <<>> \/ Params!HexValue(Number(s)[1]) < 0 THEN Params!NoNumber
                            ELSE IF Signed(s) /\ s[Blanks(s) + 1] = 45 THEN (256 - Magnitude(Number(s))) % 256
                            ELSE Magnitude(Number(s))
<1> TAKE s
<1>1. Params!stoi(s) = CASE Number(s) = <<>> -> Params!NoNumber
                         [] Number(s) # <<>> /\ Params!HexValue(Number(s)[1]) < 0 -> Params!NoNumber
                         [] OTHER -> IF Signed(s) /\ s[Blanks(s) + 1] = 45 THEN (256 - Magnitude(Number(s))) % 256
                                     ELSE Magnitude(Number(s))
  BY DEF Params!stoi, Number, Signed, Blanks, Magnitude
<1>2. CASE Number(s) = <<>>
  BY <1>1, <1>2
<1>3. CASE Number(s) # <<>> /\ Params!HexValue(Number(s)[1]) < 0
  BY <1>1, <1>3
<1>4. CASE ~(Number(s) = <<>> \/ Params!HexValue(Number(s)[1]) < 0)
  BY <1>1, <1>4
<1> QED BY <1>2, <1>3, <1>4

LEMMA HexIsNotWhite == \A c \in Params!Safe : c \notin Params!White
<1>1. \A c \in Params!Safe : c \in 65..90 \/ c \in 97..122 \/ c \in 48..57 \/ c = 45 \/ c = 46 \/ c = 95 \/ c = 126
  BY DEF Params!Safe, Params!Upper, Params!Lower, Params!Digits
<1>2. \A c \in Params!Safe : c \in Nat /\ c # 32 /\ c \notin 9..13
  BY <1>1
<1> QED BY <1>2 DEF Params!White, Params!Space

LEMMA StoiOfHex ==
    ASSUME NEW p \in 0..15, NEW q \in 0..15, NEW s, s = <<Params!HexDigit(p), Params!HexDigit(q)>>
    PROVE  Params!stoi(s) = 16 * p + q
<1>1. /\ s[1] = Params!HexDigit(p) /\ s[2] = Params!HexDigit(q) /\ Len(s) = 2
      /\ s[1] \in Plain /\ s[2] \in Plain /\ s[1] # 45 /\ s[1] \notin Params!White /\ s[1] # Params!Plus
      /\ Params!HexValue(s[1]) = p /\ Params!HexValue(s[2]) = q
  BY HexDigits, HexIsNotWhite, PlainIs
<1>2. s \in Seq(Plain)
  <2>1. \A i \in 1..2 : i = 1 \/ i = 2
    OBVIOUS
  <2> QED BY <1>1
<1>3. Blanks(s) = 0
  <2> DEFINE BlankTo(n) == /\ \A i \in 1..n : s[i] \in Params!White
                           /\ n = Len(s) \/ s[n + 1] \notin Params!White
  <2>1. \A n \in 0..Len(s) : BlankTo(n) <=> n = 0
    <3> SUFFICES ASSUME NEW n \in 0..2 PROVE BlankTo(n) <=> n = 0
      BY <1>1
    <3>1. CASE n = 0
      <4>1. n + 1 = 1 /\ \A i : i \notin 1..n
        BY <3>1
      <4> QED BY <1>1, <3>1, <4>1
    <3>2. CASE n # 0
      <4>1. 1 \in 1..n
        BY <3>2
      <4> QED BY <1>1, <3>2, <4>1
    <3> QED BY <3>1, <3>2
  <2>2. 0 \in 0..Len(s)
    BY <1>1
  <2>3. (CHOOSE n \in 0..Len(s) : BlankTo(n)) = 0
    <3> HIDE DEF BlankTo
    <3> QED BY <2>1, <2>2
  <2> QED BY <2>3 DEF Blanks
<1>4. ~Signed(s)
  <2>1. 0 + 1 = 1
    OBVIOUS
  <2> QED BY <1>1, <1>3, <2>1 DEF Signed
<1>5. Number(s) = s
  <2>1. 0 + 1 + 0 = 1
    OBVIOUS
  <2>2. SubSeq(s, 1, Len(s)) = s
    BY <1>2, SubSeqFull
  <2> QED BY <1>3, <1>4, <2>1, <2>2 DEF Number
<1>6. Magnitude(s) = 16 * p + q
  BY <1>1 DEF Magnitude
<1>7. s # <<>> /\ ~(p < 0)
  BY <1>1
<1> QED BY <1>1, <1>4, <1>5, <1>6, <1>7, StoiIs

LEMMA StoiInRange ==
    ASSUME NEW s \in Seq(Bytes)
    PROVE  Params!stoi(s) \in Bytes \cup {Params!NoNumber}
<1>1. PICK L \in Nat : L = Len(s)
  OBVIOUS
<1>2. Blanks(s) \in 0..L
  <2> DEFINE BlankTo(n) == /\ \A i \in 1..n : s[i] \in Params!White
                           /\ n = Len(s) \/ s[n + 1] \notin Params!White
             T == {n \in Nat : n = L \/ (n < L /\ s[n + 1] \notin Params!White)}
  <2>1. L \in T
    BY <1>1
  <2>2. PICK n \in T : \A x \in T : n <= x
    BY <2>1, LeastOf
  <2>3. n \in 0..L
    BY <1>1, <2>2
  <2>4. ASSUME NEW i \in 1..n PROVE s[i] \in Params!White
    <3>1. i - 1 \in Nat /\ (i - 1) + 1 = i /\ i - 1 < L /\ ~(n <= i - 1)
      BY <1>1, <2>3
    <3>2. i - 1 \notin T
      BY <2>2, <3>1
    <3> QED BY <3>1, <3>2
  <2>5. BlankTo(n)
    BY <1>1, <2>2, <2>4
  <2> HIDE DEF BlankTo, T
  <2>6. (CHOOSE x \in 0..Len(s) : BlankTo(x)) \in 0..L
    BY <1>1, <2>3, <2>5
  <2> QED BY <2>6 DEF Blanks, BlankTo
<1>3. Number(s) \in Seq(Bytes)
  <2>1. PICK m \in Int : m = Blanks(s) + 1 + (IF Signed(s) THEN 1 ELSE 0) /\ m >= 1
    BY <1>2
  <2>2. \A i \in m..L : i \in 1..L
    BY <1>1, <2>1
  <2>3. \A i \in m..L : s[i] \in Bytes
    BY <1>1, <2>2, ElementOfSeq
  <2>4. SubSeq(s, m, L) \in Seq(Bytes)
    BY <1>1, <2>1, <2>3, SubSeqProperties
  <2> QED BY <1>1, <2>1, <2>4 DEF Number
<1>4. PICK num \in Seq(Bytes) : num = Number(s)
  BY <1>3
<1>5. CASE num = <<>> \/ Params!HexValue(num[1]) < 0
  BY <1>4, <1>5, StoiIs
<1>6. CASE ~(num = <<>> \/ Params!HexValue(num[1]) < 0)
  <2>1. 1 \in 1..Len(num)
    BY <1>6, EmptySeq
  <2>2. num[1] \in Bytes
    BY <2>1, ElementOfSeq
  <2>3. PICK a \in 0..15 : a = Params!HexValue(num[1])
    BY <1>6, <2>2, HexValues
  <2>4. Magnitude(num) \in Bytes
    <3>1. CASE Len(num) = 2 /\ Params!HexValue(num[2]) >= 0
      <4>1. num[2] \in Bytes
        BY <3>1, ElementOfSeq
      <4>2. PICK b \in 0..15 : b = Params!HexValue(num[2])
        BY <3>1, <4>1, HexValues
      <4>3. 16 * a + b \in 0..255
        OBVIOUS
      <4> QED BY <2>3, <3>1, <4>2, <4>3 DEF Magnitude, Bytes
    <3>2. CASE ~(Len(num) = 2 /\ Params!HexValue(num[2]) >= 0)
      <4>1. a \in 0..255
        OBVIOUS
      <4> QED BY <2>3, <3>2, <4>1 DEF Magnitude, Bytes
    <3> QED BY <3>1, <3>2
  <2>5. \A x \in Bytes : (256 - x) % 256 \in Bytes
    BY DEF Bytes
  <2>6. Params!stoi(s) = IF Signed(s) /\ s[Blanks(s) + 1] = 45 THEN (256 - Magnitude(num)) % 256 ELSE Magnitude(num)
    BY <1>4, <1>6, StoiIs
  <2> QED BY <2>4, <2>5, <2>6
<1> QED BY <1>5, <1>6

LEMMA DecodeInRange ==
    ASSUME NEW s \in Seq(Bytes)
    PROVE  /\ Params!decode_url(s) \in Seq(Bytes \cup {Params!NoNumber})
           /\ s # <<>> => Params!decode_url(s) # <<>>
           /\ ~Params!Malformed(s) => Params!decode_url(s) \in Seq(Bytes)
<1> DEFINE R == Bytes \cup {Params!NoNumber}
<1>1. PICK L \in Nat : L = Len(s)
  OBVIOUS
<1>2. \A i \in Nat : From(s)[i] = Decoded(From(s), s, i)
  BY DecodesExists
<1> DEFINE T == {k \in Nat : \A i \in Nat : i >= 1 /\ i + k > L => From(s)[i] \in Seq(R)}
<1>3. ASSUME NEW i \in Nat, i >= 1, ~(i > L)
      PROVE  \E x \in R, j \in Nat : From(s)[i] = <<x>> \o From(s)[j] /\ j >= i + 1
  <2>1. s[i] \in Bytes
    BY <1>1, <1>3, ElementOfSeq
  <2>2. PICK e : e = (IF i + 2 > L THEN L ELSE i + 2)
    OBVIOUS
  <2>3. e \in Nat /\ e <= L /\ i + 1 \in Int
    BY <1>1, <2>2
  <2>4. SubSeq(s, i + 1, e) \in Seq(Bytes)
    <3>1. \A x \in (i + 1)..e : x \in 1..L
      BY <1>1, <1>3, <2>3
    <3>2. \A x \in (i + 1)..e : s[x] \in Bytes
      BY <1>1, <3>1, ElementOfSeq
    <3> QED BY <2>3, <3>2, SubSeqProperties
  <2>5. Params!stoi(SubSeq(s, i + 1, e)) \in R
    BY <2>4, StoiInRange
  <2>6. From(s)[i] = IF s[i] = Params!Percent THEN <<Params!stoi(SubSeq(s, i + 1, e))>> \o From(s)[i + 3]
                     ELSE <<IF s[i] = Params!Plus THEN Params!Space ELSE s[i]>> \o From(s)[i + 1]
    BY <1>1, <1>2, <1>3, <2>2 DEF Decoded
  <2>7. i + 1 \in Nat /\ i + 3 \in Nat /\ i + 1 >= i + 1 /\ i + 3 >= i + 1
    OBVIOUS
  <2>8. CASE s[i] = Params!Percent
    BY <2>5, <2>6, <2>7, <2>8
  <2>9. CASE s[i] # Params!Percent
    <3>1. (IF s[i] = Params!Plus THEN Params!Space ELSE s[i]) \in R
      BY <2>1 DEF Bytes, Params!Space
    <3> QED BY <2>6, <2>7, <2>9, <3>1
  <2> QED BY <2>8, <2>9
<1>4. 0 \in T
  <2> SUFFICES ASSUME NEW i \in Nat, i >= 1, i + 0 > L PROVE From(s)[i] \in Seq(R)
    OBVIOUS
  <2>1. i > Len(s)
    BY <1>1
  <2>2. From(s)[i] = <<>>
    BY <1>2, <2>1 DEF Decoded
  <2> QED BY <2>2, EmptySeq
<1>5. ASSUME NEW k \in Nat, k \in T PROVE k + 1 \in T
  <2> SUFFICES ASSUME NEW i \in Nat, i >= 1, i + (k + 1) > L PROVE From(s)[i] \in Seq(R)
    OBVIOUS
  <2>1. \A j \in Nat : j >= 1 /\ j + k > L => From(s)[j] \in Seq(R)
    BY <1>5
  <2> HIDE DEF T, R
  <2>2. CASE i > L
    <3>1. i + k > L
      BY <1>1, <2>2
    <3> QED BY <2>1, <3>1
  <2>3. CASE ~(i > L)
    <3>1. PICK x \in R, j \in Nat : From(s)[i] = <<x>> \o From(s)[j] /\ j >= i + 1
      BY <1>3, <2>3
    <3>2. j >= 1 /\ j + k > L
      BY <1>1, <3>1
    <3>3. From(s)[j] \in Seq(R) /\ <<x>> \in Seq(R)
      BY <2>1, <3>2
    <3> QED BY <3>1, <3>3, ConcatProperties
  <2> QED BY <2>2, <2>3
<1>6. L + 1 \in T
  <2> HIDE DEF T
  <2> QED BY <1>1, <1>4, <1>5, EveryNat
<1>7. \A i \in Nat : i >= 1 => From(s)[i] \in Seq(R)
  <2>1. \A i \in Nat : i + (L + 1) > L
    BY <1>1
  <2> QED BY <1>6, <2>1
<1> HIDE DEF T, R
<1>8. Params!decode_url(s) \in Seq(R)
  <2>1. 1 \in Nat /\ 1 >= 1
    OBVIOUS
  <2> QED BY <1>7, <2>1, DecodeIs
<1>9. s # <<>> => Params!decode_url(s) # <<>>
  <2> SUFFICES ASSUME s # <<>> PROVE From(s)[1] # <<>>
    BY DecodeIs
  <2>1. 1 \in Nat /\ 1 >= 1 /\ ~(1 > L)
    BY <1>1, EmptySeq
  <2>2. PICK x \in R, j \in Nat : From(s)[1] = <<x>> \o From(s)[j] /\ j >= 1 + 1
    BY <1>3, <2>1
  <2>3. <<x>> \in Seq(R) /\ From(s)[j] \in Seq(R) /\ <<x>> # <<>>
    BY <1>7, <2>2
  <2> QED BY <2>2, <2>3, ConcatEqualIffEmpty
<1>10. ~Params!Malformed(s) => Params!decode_url(s) \in Seq(Bytes)
  <2> SUFFICES ASSUME ~Params!Malformed(s) PROVE Params!decode_url(s) \in Seq(Bytes)
    OBVIOUS
  <2>1. PICK d \in Seq(R) : d = Params!decode_url(s)
    BY <1>8
  <2>2. \A i \in 1..Len(d) : d[i] \in R /\ d[i] # Params!NoNumber
    BY <2>1, ElementOfSeq, LenProperties DEF Params!Malformed, Params!ToSet
  <2>3. \A i \in 1..Len(d) : d[i] \in Bytes
    BY <2>2 DEF R
  <2>4. d \in [1..Len(d) -> Bytes] /\ Len(d) \in Nat
    BY <2>1, <2>3, LenProperties
  <2> QED BY <2>1, <2>4
<1> QED BY <1>8, <1>9, <1>10 DEF R

LEMMA ConcatHead ==
    ASSUME NEW A, NEW x \in Seq(A), NEW y \in Seq(A), NEW u, u = x \o y,
           NEW m \in Nat, m = Len(x), NEW L \in Nat, L = Len(y)
    PROVE  u \in Seq(A) /\ Len(u) = m + L /\ \A i \in 1..m : u[i] = x[i]
<1>1. m \in Nat /\ L \in Nat
  BY LenProperties
<1>2. u \in Seq(A) /\ Len(u) = m + L /\ \A i \in 1..(m + L) : u[i] = IF i <= m THEN x[i] ELSE y[i - m]
  BY <1>1, ConcatProperties
<1>3. \A i \in 1..m : i \in 1..(m + L) /\ i <= m
  BY <1>1
<1> QED BY <1>2, <1>3

LEMMA BytesBehind ==
    ASSUME NEW x \in Seq(Bytes), NEW y \in Seq(Bytes), NEW m \in Nat, m = Len(x), NEW L \in Nat, L = Len(y)
    PROVE  /\ From(x \o y)[m + 1] = From(y)[1]
           /\ \A i \in 1..m : (x \o y)[i] = x[i]
           /\ x \o y \in Seq(Bytes) /\ Len(x \o y) = m + L
<1>1. PICK u : u = x \o y
  OBVIOUS
<1>2. From(u)[m + 1] = From(y)[1]
  BY <1>1, DecodesBehind
<1>3. u \in Seq(Bytes) /\ Len(u) = m + L /\ \A i \in 1..m : u[i] = x[i]
  BY <1>1, ConcatHead
<1> QED BY <1>1, <1>2, <1>3

LEMMA EncodedChar ==
    ASSUME NEW c \in Bytes
    PROVE  /\ Params!EncodeChar(c) \in Seq(Plain)
           /\ \A y \in Seq(Bytes) : Params!decode_url(Params!EncodeChar(c) \o y) = <<c>> \o Params!decode_url(y)
<1>1. CASE c \in Params!Safe
  <2>1. PICK x : x = <<c>> /\ x = Params!EncodeChar(c)
    BY <1>1 DEF Params!EncodeChar
  <2>2. c \in Plain /\ c \in Bytes /\ c # Params!Percent /\ c # Params!Plus
    BY <1>1, PlainIs
  <2>3. x \in Seq(Plain) /\ x \in Seq(Bytes) /\ Len(x) = 1 /\ x[1] = c
    BY <2>1, <2>2
  <2>4. ASSUME NEW y \in Seq(Bytes) PROVE Params!decode_url(x \o y) = x \o Params!decode_url(y)
    <3>1. PICK u : u = x \o y
      OBVIOUS
    <3>2. PICK L \in Nat : L = Len(y)
      OBVIOUS
    <3>3. u \in Seq(Bytes) /\ Len(u) = 1 + L /\ \A i \in 1..1 : u[i] = x[i]
      <4>1. PICK m \in Nat : m = Len(x) /\ m = 1
        BY <2>3
      <4>2. x \in Seq(Bytes) /\ y \in Seq(Bytes)
        BY <2>3, <2>4
      <4>3. u \in Seq(Bytes) /\ Len(u) = m + L /\ \A i \in 1..m : u[i] = x[i]
        <5>1. m = Len(x)
          BY <4>1
        <5>2. /\ \A i \in 1..m : (x \o y)[i] = x[i]
              /\ x \o y \in Seq(Bytes) /\ Len(x \o y) = m + L
          BY <5>1, <4>2, <3>2, BytesBehind
        <5> QED BY <5>2, <3>1
      <4> QED BY <4>1, <4>3
    <3>4. u[1] = c /\ 1 \in 1..(1 + L) /\ ~(1 > 1 + L)
      <4>1. 1 \in 1..1 /\ 1 \in 1..(1 + L) /\ ~(1 > 1 + L)
        OBVIOUS
      <4> QED BY <2>3, <3>3, <4>1
    <3>5. From(u)[1 + 1] = From(y)[1]
      <4>1. PICK m \in Nat : m = Len(x) /\ m = 1
        BY <2>3
      <4>2. x \in Seq(Bytes) /\ y \in Seq(Bytes)
        BY <2>3, <2>4
      <4>3. From(u)[m + 1] = From(y)[1]
        BY <4>1, <4>2, <3>1, <3>2, BytesBehind
      <4> QED BY <4>1, <4>3
    <3>6. From(u)[1] = Decoded(From(u), u, 1)
      BY <3>3, DecodesExists
    <3>7. Decoded(From(u), u, 1) = <<c>> \o From(u)[1 + 1]
      BY <2>2, <3>3, <3>4 DEF Decoded
    <3> QED BY <2>1, <3>1, <3>5, <3>6, <3>7, DecodeIs
  <2> QED BY <2>1, <2>3, <2>4
<1>2. CASE c \notin Params!Safe
  <2>1. PICK p, q \in 0..15 : p = c \div 16 /\ q = c % 16 /\ c = 16 * p + q
    <3>1. c \in 0..255
      BY DEF Bytes
    <3>2. \A n \in 0..255 : n \div 16 \in 0..15 /\ n % 16 \in 0..15 /\ n = 16 * (n \div 16) + (n % 16)
      OBVIOUS
    <3> QED BY <3>1, <3>2
  <2>2. PICK a, b \in Plain : a = Params!HexDigit(p) /\ b = Params!HexDigit(q)
    BY HexDigits, PlainIs
  <2>3. PICK x : x = <<Params!Percent, a, b>> /\ x = Params!EncodeChar(c)
    BY <1>2, <2>1, <2>2 DEF Params!EncodeChar
  <2>4. Len(x) = 3 /\ x[1] = Params!Percent /\ x[2] = a /\ x[3] = b
    BY <2>3
  <2>5. x \in Seq(Plain) /\ x \in Seq(Bytes)
    <3>1. Params!Percent \in Plain /\ Params!Percent \in Bytes /\ a \in Bytes /\ b \in Bytes
      BY PlainIs
    <3> QED BY <2>2, <2>3, <3>1
  <2>6. Params!stoi(<<a, b>>) = c
    BY <2>1, <2>2, StoiOfHex
  <2>7. ASSUME NEW y \in Seq(Bytes) PROVE Params!decode_url(x \o y) = <<c>> \o Params!decode_url(y)
    <3>1. PICK u : u = x \o y
      OBVIOUS
    <3>2. PICK L \in Nat : L = Len(y)
      OBVIOUS
    <3>3. u \in Seq(Bytes) /\ Len(u) = 3 + L /\ \A i \in 1..3 : u[i] = x[i]
      <4>1. PICK m \in Nat : m = Len(x) /\ m = 3
        BY <2>4
      <4>2. x \in Seq(Bytes) /\ y \in Seq(Bytes)
        BY <2>4, <2>5, <2>7
      <4>3. u \in Seq(Bytes) /\ Len(u) = m + L /\ \A i \in 1..m : u[i] = x[i]
        <5>1. m = Len(x)
          BY <4>1
        <5>2. /\ \A i \in 1..m : (x \o y)[i] = x[i]
              /\ x \o y \in Seq(Bytes) /\ Len(x \o y) = m + L
          BY <5>1, <4>2, <3>2, BytesBehind
        <5> QED BY <5>2, <3>1
      <4> QED BY <4>1, <4>3
    <3>4. 1 \in 1..3 /\ 2 \in 1..3 /\ 3 \in 1..3 /\ 1 \in 1..(3 + L) /\ ~(1 > 3 + L)
      OBVIOUS
    <3>5. u[1] = Params!Percent /\ u[2] = a /\ u[3] = b
      BY <2>4, <3>3, <3>4
    <3>6. From(u)[3 + 1] = From(y)[1]
      <4>1. PICK m \in Nat : m = Len(x) /\ m = 3
        BY <2>4
      <4>2. x \in Seq(Bytes) /\ y \in Seq(Bytes)
        BY <2>4, <2>5, <2>7
      <4>3. From(u)[m + 1] = From(y)[1]
        BY <4>1, <4>2, <3>1, <3>2, BytesBehind
      <4> QED BY <4>1, <4>3
    <3>7. From(u)[1] = Decoded(From(u), u, 1)
      BY <3>3, DecodesExists
    <3>8. SubSeq(u, 2, 3) = <<a, b>>
      <4>1. PICK v : v = SubSeq(u, 2, 3)
        OBVIOUS
      <4>2. \A i \in 2..3 : i = 2 \/ i = 3
        OBVIOUS
      <4>3. \A i \in 2..3 : u[i] \in Plain
        BY <2>2, <3>5, <4>2
      <4>4. v \in Seq(Plain) /\ Len(v) = 2 /\ \A i \in 1..2 : v[i] = u[i + 1]
        <5>1. SubSeq(u, 2, 3) \in Seq(Plain) /\ Len(SubSeq(u, 2, 3)) = 2
          BY <4>3, SubSeqProperties
        <5>2. \A i \in 1..(3 - 2 + 1) : SubSeq(u, 2, 3)[i] = u[2 + i - 1]
          BY <4>3, SubSeqProperties
        <5>3. 3 - 2 + 1 = 2 /\ \A i \in 1..2 : 2 + i - 1 = i + 1
          OBVIOUS
        <5> QED BY <4>1, <5>1, <5>2, <5>3
      <4>5. v[1] = a /\ v[2] = b
        <5>1. 1 + 1 = 2 /\ 2 + 1 = 3 /\ 1 \in 1..2 /\ 2 \in 1..2
          OBVIOUS
        <5> QED BY <3>5, <4>4, <5>1
      <4>6. PICK w : w = <<a, b>>
        OBVIOUS
      <4>7. w \in Seq(Plain) /\ Len(w) = 2 /\ w[1] = a /\ w[2] = b
        BY <2>2, <4>6
      <4>8. \A i \in 1..2 : i = 1 \/ i = 2
        OBVIOUS
      <4>9. v = w
        BY <4>4, <4>5, <4>7, <4>8, SeqEqual
      <4> QED BY <4>1, <4>6, <4>9
    <3>9. Decoded(From(u), u, 1) = <<Params!stoi(SubSeq(u, 2, 3))>> \o From(u)[4]
      <4>1. (IF 1 + 2 > Len(u) THEN Len(u) ELSE 1 + 2) = 3 /\ 1 + 1 = 2 /\ 1 + 3 = 4 /\ ~(1 > Len(u))
        BY <3>3
      <4> QED BY <3>5, <4>1 DEF Decoded
    <3>10. 3 + 1 = 4
      OBVIOUS
    <3> QED BY <2>6, <3>1, <3>6, <3>7, <3>8, <3>9, <3>10, DecodeIs
  <2> QED BY <2>3, <2>5, <2>7
<1> QED BY <1>1, <1>2

LEMMA EncodeAppend ==
    ASSUME NEW s \in Seq(Bytes), NEW c \in Bytes
    PROVE  Params!encode_url(Append(s, c)) = Params!encode_url(s) \o Params!EncodeChar(c)
<1>1. PICK t, L : t = Append(s, c) /\ L = Len(s) /\ t \in Seq(Bytes) /\ Extends(s, t, L, c)
  BY AppendExtends
<1>2. L \in Nat /\ DOMAIN s = 1..L /\ DOMAIN t = 1..(L + 1) /\ (\A i \in 1..L : t[i] = s[i]) /\ t[L + 1] = c
  BY <1>1 DEF Extends
<1>3. PICK a, b : a = [i \in DOMAIN s |-> Params!EncodeChar(s[i])] /\ b = [i \in DOMAIN t |-> Params!EncodeChar(t[i])]
  OBVIOUS
<1>4. /\ \A i \in 1..L : a[i] \in Seq(Plain) /\ b[i] = a[i]
      /\ b[L + 1] = Params!EncodeChar(c) /\ b[L + 1] \in Seq(Plain)
  <2>1. L + 1 \in 1..(L + 1) /\ \A i \in 1..L : i \in 1..(L + 1)
    BY <1>2
  <2>2. \A i \in 1..L : s[i] \in Bytes
    BY <1>1, ElementOfSeq
  <2> QED BY <1>2, <1>3, <2>1, <2>2, EncodedChar
<1>5. a \in Seq(Seq(Plain)) /\ Len(a) = L
  <2>1. a \in [1..L -> Seq(Plain)]
    BY <1>2, <1>3, <1>4
  <2> QED BY <1>2, <2>1
<1>6. \A i \in 1..(L + 1) : i = L + 1 \/ i \in 1..L
  BY <1>2
<1>7. b \in Seq(Seq(Plain)) /\ Len(b) = L + 1
  <2>1. b \in [1..(L + 1) -> Seq(Plain)]
    BY <1>2, <1>3, <1>4, <1>6
  <2> QED BY <1>2, <2>1
<1>8. PICK d : d = Append(a, b[L + 1])
  OBVIOUS
<1>9. /\ d \in Seq(Seq(Plain)) /\ Len(d) = L + 1
      /\ \A i \in 1..L : d[i] = a[i]
      /\ d[L + 1] = b[L + 1]
  BY <1>4, <1>5, <1>8, AppendProperties
<1>10. b = d
  <2>1. \A i \in 1..Len(b) : b[i] = d[i]
    BY <1>4, <1>6, <1>7, <1>9
  <2> QED BY <1>7, <1>9, <2>1, SeqEqual
<1>11. Params!FlattenSeq(b) = Params!FlattenSeq(a) \o b[L + 1]
  BY <1>4, <1>5, <1>8, <1>10, FlattenAppend
<1>12. Params!encode_url(s) = Params!FlattenSeq(a) /\ Params!encode_url(t) = Params!FlattenSeq(b)
  BY <1>3 DEF Params!encode_url
<1> QED BY <1>1, <1>4, <1>11, <1>12

LEMMA EncodeEmpty == Params!encode_url(<<>>) = <<>>
<1>1. [i \in DOMAIN <<>> |-> Params!EncodeChar(<<>>[i])] = <<>>
  OBVIOUS
<1>2. Params!encode_url(<<>>) = Params!FlattenSeq(<<>>)
  BY <1>1 DEF Params!encode_url
<1> QED BY <1>2, FlattenIs

LEMMA EncodeIsPlain == \A s \in Seq(Bytes) : Params!encode_url(s) \in Seq(Plain)
<1> DEFINE T == {w \in Seq(Bytes) : Params!encode_url(w) \in Seq(Plain)}
<1>1. <<>> \in T
  BY EncodeEmpty, EmptySeq
<1>2. ASSUME NEW w \in Seq(Bytes), NEW c \in Bytes, w \in T PROVE Append(w, c) \in T
  <2>1. Params!encode_url(w) \o Params!EncodeChar(c) \in Seq(Plain)
    BY <1>2, EncodedChar, ConcatProperties
  <2>2. Append(w, c) \in Seq(Bytes)
    BY AppendProperties
  <2> QED BY <2>1, <2>2, EncodeAppend
<1> HIDE DEF T
<1>3. Seq(Bytes) \subseteq T
  BY <1>1, <1>2, EverySeq
<1> QED BY <1>3 DEF T

LEMMA EncodeFront ==
    ASSUME NEW c \in Bytes
    PROVE  \A s \in Seq(Bytes) : Params!encode_url(<<c>> \o s) = Params!EncodeChar(c) \o Params!encode_url(s)
<1> DEFINE x == <<c>>
           T == {w \in Seq(Bytes) : Params!encode_url(x \o w) = Params!EncodeChar(c) \o Params!encode_url(w)}
<1>1. x \in Seq(Bytes) /\ Params!EncodeChar(c) \in Seq(Plain)
  <2>1. x \in Seq(Bytes)
    OBVIOUS
  <2> QED BY <2>1, EncodedChar
<1>2. <<>> \in T
  <2>1. x = Append(<<>>, c) /\ <<>> \in Seq(Bytes)
    OBVIOUS
  <2>2. Params!encode_url(x) = <<>> \o Params!EncodeChar(c)
    BY <2>1, EncodeAppend, EncodeEmpty
  <2>3. <<>> \o Params!EncodeChar(c) = Params!EncodeChar(c) /\ Params!EncodeChar(c) \o <<>> = Params!EncodeChar(c) /\ x \o <<>> = x
    BY <1>1, ConcatEmptySeq
  <2> QED BY <2>1, <2>2, <2>3, EncodeEmpty
<1> HIDE DEF x
<1>3. ASSUME NEW w \in Seq(Bytes), NEW d \in Bytes, w \in T PROVE Append(w, d) \in T
  <2>1. <<d>> \in Seq(Bytes) /\ Append(w, d) = w \o <<d>> /\ Append(w, d) \in Seq(Bytes)
    BY AppendIsConcat, AppendProperties
  <2>2. x \o w \in Seq(Bytes)
    BY <1>1, ConcatProperties
  <2>3. Append(x \o w, d) = (x \o w) \o <<d>>
    BY <2>2, AppendIsConcat
  <2>4. (x \o w) \o <<d>> = x \o (w \o <<d>>)
    BY <1>1, <2>1, ConcatAssociative
  <2>5. Params!encode_url(Append(x \o w, d)) = Params!encode_url(x \o w) \o Params!EncodeChar(d)
    BY <2>2, EncodeAppend
  <2>6. Params!encode_url(x \o w) = Params!EncodeChar(c) \o Params!encode_url(w)
    BY <1>3
  <2>7. Params!encode_url(w) \in Seq(Plain) /\ Params!EncodeChar(d) \in Seq(Plain)
    BY EncodeIsPlain, EncodedChar
  <2>8. (Params!EncodeChar(c) \o Params!encode_url(w)) \o Params!EncodeChar(d)
        = Params!EncodeChar(c) \o (Params!encode_url(w) \o Params!EncodeChar(d))
    <3>1. PICK a, b, e \in Seq(Plain) : a = Params!EncodeChar(c) /\ b = Params!encode_url(w) /\ e = Params!EncodeChar(d)
      BY <1>1, <2>7
    <3>2. (a \o b) \o e = a \o (b \o e)
      BY ConcatAssociative
    <3> QED BY <3>1, <3>2
  <2>9. Params!encode_url(Append(w, d)) = Params!encode_url(w) \o Params!EncodeChar(d)
    BY EncodeAppend
  <2>10. Params!encode_url(x \o Append(w, d)) = Params!EncodeChar(c) \o Params!encode_url(Append(w, d))
    BY <2>1, <2>3, <2>4, <2>5, <2>6, <2>8, <2>9
  <2> QED BY <2>1, <2>10
<1> HIDE DEF T
<1>4. Seq(Bytes) \subseteq T
  BY <1>2, <1>3, EverySeq
<1> QED BY <1>4 DEF T, x

(* What is decoded from an encoded text is the text, for any bytes.        *)
THEOREM DecodeEncode == \A s \in Seq(0..255) : Params!decode_url(Params!encode_url(s)) = s
<1> DEFINE T == {w \in Seq(Bytes) : Params!decode_url(Params!encode_url(w)) = w}
<1>1. <<>> \in T
  <2>1. <<>> \in Seq(Bytes)
    OBVIOUS
  <2>2. From(<<>>)[1] = Decoded(From(<<>>), <<>>, 1)
    BY <2>1, DecodesExists
  <2>3. Len(<<>>) = 0 /\ 1 > 0
    OBVIOUS
  <2>4. Params!decode_url(<<>>) = <<>>
    BY <2>2, <2>3, DecodeIs DEF Decoded
  <2> QED BY <2>1, <2>4, EncodeEmpty
<1>2. ASSUME NEW w \in Seq(Bytes), NEW c \in Bytes, w \in T PROVE <<c>> \o w \in T
  <2>1. <<c>> \o w \in Seq(Bytes)
    <3>1. <<c>> \in Seq(Bytes)
      OBVIOUS
    <3> QED BY <3>1, ConcatProperties
  <2>2. Params!encode_url(w) \in Seq(Bytes)
    <3>1. Params!encode_url(w) \in Seq(Plain) /\ Plain \subseteq Bytes
      BY EncodeIsPlain, PlainIs
    <3> QED BY <3>1, SeqMonotonic
  <2>3. Params!decode_url(Params!encode_url(<<c>> \o w)) = <<c>> \o Params!decode_url(Params!encode_url(w))
    BY <2>2, EncodeFront, EncodedChar
  <2> QED BY <1>2, <2>1, <2>3
<1> HIDE DEF T
<1>3. Seq(Bytes) \subseteq T
  BY <1>1, <1>2, EverySeqFront
<1> QED BY <1>3 DEF T, Bytes

-----------------------------------------------------------------------------
(* What is printed, read character by character. *)

Reading(a, b, o, d, l) == [key |-> a, value |-> b, on |-> o, dict |-> d, list |-> l, state |-> "reading"]

(* Sequences and their operators, under names without axioms of their own. *)
Strings == Seq(Bytes)
Plains == Seq(Plain)
Cat(s, t) == s \o t
Add(s, c) == Append(s, c)

LEMMA EqualsAndDelimiter ==
    /\ Params!Equals \in Bytes /\ Delimiter \in Bytes /\ Params!Equals # Delimiter
    /\ Plain \subseteq Bytes
<1>1. Delimiter = 38 \/ Delimiter = 59
  BY ParamsAssumption
<1>2. Plain \subseteq Bytes
  BY PlainIs
<1> QED BY <1>1, <1>2 DEF Bytes, Params!Equals

LEMMA PlainTexts ==
    /\ Plains \subseteq Strings /\ <<>> \in Plains
    /\ \A w \in Plains, c \in Plain : Add(w, c) \in Plains
    /\ \A w \in Plains : Cat(<<>>, w) = w /\ Cat(w, <<>>) = w
    /\ \A w \in Strings : Cat(<<>>, w) = w /\ Cat(w, <<>>) = w
<1>1. Seq(Plain) \subseteq Seq(Bytes) /\ <<>> \in Seq(Plain)
  BY EqualsAndDelimiter, SeqMonotonic, EmptySeq
<1>2. \A w \in Seq(Plain), c \in Plain : Append(w, c) \in Seq(Plain)
  BY AppendProperties
<1>3. /\ \A w \in Seq(Plain) : <<>> \o w = w /\ w \o <<>> = w
      /\ \A w \in Seq(Bytes) : <<>> \o w = w /\ w \o <<>> = w
  BY ConcatEmptySeq
<1> QED BY <1>1, <1>2, <1>3 DEF Strings, Plains, Add, Cat

LEMMA Pushes ==
    ASSUME NEW a, NEW b, NEW c, c # Params!Equals, c # Delimiter, NEW d, NEW l
    PROVE  /\ Fed(Reading(a, b, "key", d, l), c) = Reading(Params!Pushed(a, c), b, "key", d, l)
           /\ Fed(Reading(a, b, "value", d, l), c) = Reading(a, Params!Pushed(b, c), "value", d, l)
<1>1. PICK p : p = Reading(a, b, "key", d, l)
  OBVIOUS
<1>2. p.state # "thrown" /\ p.on = "key" /\ [p EXCEPT !.key = Params!Pushed(@, c)] = Reading(Params!Pushed(a, c), b, "key", d, l)
  BY <1>1 DEF Reading
<1>3. PICK q : q = Reading(a, b, "value", d, l)
  OBVIOUS
<1>4. q.state # "thrown" /\ q.on # "key" /\ [q EXCEPT !.value = Params!Pushed(@, c)] = Reading(a, Params!Pushed(b, c), "value", d, l)
  BY <1>3 DEF Reading
<1> QED BY <1>1, <1>2, <1>3, <1>4 DEF Fed, Params!Step

LEMMA StepPlain ==
    ASSUME NEW a, NEW b, NEW c \in Plain, NEW d, NEW l
    PROVE  /\ Fed(Reading(a, b, "key", d, l), c) = Reading(Add(a, c), b, "key", d, l)
           /\ Fed(Reading(a, b, "value", d, l), c) = Reading(a, Add(b, c), "value", d, l)
<1>1. c # Params!Equals /\ c # Delimiter /\ c # Params!Space
  BY PlainIs
<1>2. Params!Pushed(a, c) = Add(a, c) /\ Params!Pushed(b, c) = Add(b, c)
  BY <1>1 DEF Params!Pushed, Add
<1>3. /\ Fed(Reading(a, b, "key", d, l), c) = Reading(Params!Pushed(a, c), b, "key", d, l)
      /\ Fed(Reading(a, b, "value", d, l), c) = Reading(a, Params!Pushed(b, c), "value", d, l)
  BY <1>1, Pushes
<1> QED BY <1>2, <1>3

LEMMA Cleared ==
    ASSUME NEW x, NEW y, NEW o, NEW d, NEW l, NEW n, NEW p,
           p = [key |-> x, value |-> y, on |-> o, dict |-> d, list |-> l, state |-> "reading"],
           NEW q, q = [p EXCEPT !.key = n, !.value = n, !.on = "key"]
    PROVE  /\ p.state # "thrown" /\ p.key = x /\ p.value = y
           /\ q = [key |-> n, value |-> n, on |-> "key", dict |-> d, list |-> l, state |-> "reading"]
OBVIOUS

LEMMA StepEquals ==
    ASSUME NEW a, NEW b, NEW d, NEW l
    PROVE  Fed(Reading(a, b, "key", d, l), Params!Equals) = Reading(a, b, "value", d, l)
<1>1. PICK p : p = Reading(a, b, "key", d, l)
  OBVIOUS
<1>2. p.state # "thrown" /\ [p EXCEPT !.on = IF @ = "key" THEN "value" ELSE "key"] = Reading(a, b, "value", d, l)
  BY <1>1 DEF Reading
<1> QED BY <1>1, <1>2 DEF Fed, Params!Step

(* Strings one behind another.                                               *)
LEMMA CatAssoc ==
    ASSUME NEW x \in Strings, NEW y \in Strings, NEW z \in Strings
    PROVE  Cat(x, y) \in Strings /\ Cat(Cat(x, y), z) = Cat(x, Cat(y, z))
<1>1. x \o y \in Seq(Bytes)
  BY ConcatProperties DEF Strings
<1>2. (x \o y) \o z = x \o (y \o z)
  BY ConcatAssociative DEF Strings
<1> QED BY <1>1, <1>2 DEF Cat, Strings

LEMMA Regroup ==
    ASSUME NEW s \in Strings, NEW x \in Strings, NEW y \in Strings, NEW z \in Strings, NEW w \in Strings
    PROVE  /\ Cat(Cat(Cat(x, y), z), w) \in Strings
           /\ Cat(s, Cat(Cat(Cat(x, y), z), w)) = Cat(Cat(Cat(Cat(s, x), y), z), w)
<1>1. PICK g, h \in Strings : g = Cat(x, y) /\ h = Cat(g, z) /\ Cat(h, w) \in Strings
  <2>1. Cat(x, y) \in Strings /\ Cat(Cat(x, y), z) \in Strings /\ Cat(Cat(Cat(x, y), z), w) \in Strings
    BY CatAssoc
  <2> QED BY <2>1
<1>2. Cat(Cat(s, x), y) = Cat(s, g)
  BY <1>1, CatAssoc
<1>3. Cat(Cat(s, g), z) = Cat(s, h)
  BY <1>1, CatAssoc
<1>4. Cat(Cat(s, h), w) = Cat(s, Cat(h, w))
  BY CatAssoc
<1> QED BY <1>1, <1>2, <1>3, <1>4

LEMMA CatAdd ==
    ASSUME NEW s \in Strings, NEW w \in Strings, NEW c \in Bytes
    PROVE  Add(Cat(s, w), c) = Cat(s, Add(w, c)) /\ Add(w, c) = Cat(w, <<c>>) /\ <<c>> \in Strings
<1>1. PICK e \in Strings : e = <<c>>
  <2>1. <<c>> \in Seq(Bytes)
    OBVIOUS
  <2> QED BY <2>1 DEF Strings
<1>2. \A t \in Strings : Add(t, c) = Cat(t, e)
  BY <1>1, AppendIsConcat DEF Strings, Add, Cat
<1>3. Cat(Cat(s, w), e) = Cat(s, Cat(w, e)) /\ Cat(s, w) \in Strings
  BY CatAssoc
<1> QED BY <1>1, <1>2, <1>3

LEMMA AfterCat ==
    ASSUME NEW s \in Strings, NEW w \in Strings, NEW c \in Bytes
    PROVE  After(Cat(s, Add(w, c))) = Fed(After(Cat(s, w)), c)
<1>1. Cat(s, w) \in Strings /\ Cat(s, Add(w, c)) = Add(Cat(s, w), c)
  BY CatAssoc, CatAdd
<1>2. PICK t \in Strings : t = Cat(s, w)
  BY <1>1
<1>3. After(Append(t, c)) = Fed(After(t), c)
  BY AfterAppend DEF Strings
<1> QED BY <1>1, <1>2, <1>3 DEF Add

LEMMA StepGrown ==
    ASSUME NEW x, NEW w, NEW b, NEW c \in Plain, NEW d, NEW l
    PROVE  /\ Fed(Reading(Cat(x, w), b, "key", d, l), c) = Reading(Add(Cat(x, w), c), b, "key", d, l)
           /\ Fed(Reading(b, Cat(x, w), "value", d, l), c) = Reading(b, Add(Cat(x, w), c), "value", d, l)
BY StepPlain

LEMMA KeyGrows ==
    ASSUME NEW s \in Strings, NEW a \in Plains, NEW b \in Plains, NEW d, NEW l,
           NEW w \in Plains, NEW c \in Plain, After(Cat(s, w)) = Reading(Cat(a, w), b, "key", d, l)
    PROVE  After(Cat(s, Add(w, c))) = Reading(Cat(a, Add(w, c)), b, "key", d, l)
<1>1. w \in Strings /\ c \in Bytes /\ a \in Strings
  BY EqualsAndDelimiter, PlainTexts
<1>2. After(Cat(s, Add(w, c))) = Fed(After(Cat(s, w)), c)
  BY <1>1, AfterCat
<1>3. Add(Cat(a, w), c) = Cat(a, Add(w, c))
  BY <1>1, CatAdd
<1>4. Fed(Reading(Cat(a, w), b, "key", d, l), c) = Reading(Add(Cat(a, w), c), b, "key", d, l)
  BY StepGrown
<1> QED BY <1>2, <1>3, <1>4

LEMMA ReadKey ==
    ASSUME NEW s \in Strings, NEW a \in Plains, NEW b \in Plains, NEW d, NEW l,
           After(s) = Reading(a, b, "key", d, l)
    PROVE  \A w \in Plains : After(Cat(s, w)) = Reading(Cat(a, w), b, "key", d, l)
<1> DEFINE T == {w \in Plains : After(Cat(s, w)) = Reading(Cat(a, w), b, "key", d, l)}
<1>1. <<>> \in T
  <2>1. Cat(s, <<>>) = s /\ Cat(a, <<>>) = a /\ <<>> \in Plains
    BY PlainTexts
  <2> QED BY <2>1
<1>2. \A w \in Plains, c \in Plain : w \in T => Append(w, c) \in T
  <2> SUFFICES ASSUME NEW w \in Plains, NEW c \in Plain, w \in T PROVE Append(w, c) \in T
    OBVIOUS
  <2>1. After(Cat(s, Add(w, c))) = Reading(Cat(a, Add(w, c)), b, "key", d, l)
    BY KeyGrows
  <2>2. Append(w, c) = Add(w, c) /\ Add(w, c) \in Plains
    BY PlainTexts DEF Add
  <2> QED BY <2>1, <2>2
<1> HIDE DEF T
<1>3. Plains \subseteq T
  BY <1>1, <1>2, EverySeq DEF Plains
<1> QED BY <1>3 DEF T

LEMMA ValueGrows ==
    ASSUME NEW s \in Strings, NEW a \in Plains, NEW b \in Plains, NEW d, NEW l,
           NEW w \in Plains, NEW c \in Plain, After(Cat(s, w)) = Reading(a, Cat(b, w), "value", d, l)
    PROVE  After(Cat(s, Add(w, c))) = Reading(a, Cat(b, Add(w, c)), "value", d, l)
<1>1. w \in Strings /\ c \in Bytes /\ b \in Strings
  BY EqualsAndDelimiter, PlainTexts
<1>2. After(Cat(s, Add(w, c))) = Fed(After(Cat(s, w)), c)
  BY <1>1, AfterCat
<1>3. Add(Cat(b, w), c) = Cat(b, Add(w, c))
  BY <1>1, CatAdd
<1>4. Fed(Reading(a, Cat(b, w), "value", d, l), c) = Reading(a, Add(Cat(b, w), c), "value", d, l)
  BY StepGrown
<1> QED BY <1>2, <1>3, <1>4

LEMMA ReadValue ==
    ASSUME NEW s \in Strings, NEW a \in Plains, NEW b \in Plains, NEW d, NEW l,
           After(s) = Reading(a, b, "value", d, l)
    PROVE  \A w \in Plains : After(Cat(s, w)) = Reading(a, Cat(b, w), "value", d, l)
<1> DEFINE T == {w \in Plains : After(Cat(s, w)) = Reading(a, Cat(b, w), "value", d, l)}
<1>1. <<>> \in T
  <2>1. Cat(s, <<>>) = s /\ Cat(b, <<>>) = b /\ <<>> \in Plains
    BY PlainTexts
  <2> QED BY <2>1
<1>2. \A w \in Plains, c \in Plain : w \in T => Append(w, c) \in T
  <2> SUFFICES ASSUME NEW w \in Plains, NEW c \in Plain, w \in T PROVE Append(w, c) \in T
    OBVIOUS
  <2>1. After(Cat(s, Add(w, c))) = Reading(a, Cat(b, Add(w, c)), "value", d, l)
    BY ValueGrows
  <2>2. Append(w, c) = Add(w, c) /\ Add(w, c) \in Plains
    BY PlainTexts DEF Add
  <2> QED BY <2>1, <2>2
<1> HIDE DEF T
<1>3. Plains \subseteq T
  BY <1>1, <1>2, EverySeq DEF Plains
<1> QED BY <1>3 DEF T

(* An encoded text: no blank to trim, and an empty one only if it is.      *)
LEMMA EncodedText ==
    ASSUME NEW k \in Strings
    PROVE  /\ Params!encode_url(k) \in Plains
           /\ Params!TrimRight(Params!encode_url(k)) = Params!encode_url(k)
           /\ Params!decode_url(Params!encode_url(k)) = k
           /\ ~Params!Malformed(Params!encode_url(k))
           /\ k # <<>> => Params!encode_url(k) # <<>>
<1>1. PICK w, L : w = Params!encode_url(k) /\ w \in Plains /\ w \in Seq(Plain) /\ L \in Nat /\ L = Len(w)
  BY EncodeIsPlain, LenProperties DEF Strings, Plains
<1>2. Params!decode_url(w) = k
  BY <1>1, DecodeEncode DEF Bytes, Strings
<1>3. Params!TrimRight(w) = w
  <2>1. \A i \in 1..L : w[i] # Params!Space
    BY <1>1, ElementOfSeq, PlainIs
  <2> DEFINE P(n) == (n = 0 \/ w[n] # Params!Space) /\ \A i \in (n + 1)..L : w[i] = Params!Space
             n0 == CHOOSE n \in 0..L : P(n)
  <2>2. L \in 0..L /\ P(L)
    <3>1. \A i \in (L + 1)..L : FALSE
      BY <1>1
    <3>2. L = 0 \/ L \in 1..L
      BY <1>1
    <3> QED BY <1>1, <2>1, <3>1, <3>2
  <2>3. n0 \in 0..L /\ P(n0)
    BY <2>2
  <2> HIDE DEF n0
  <2>4. n0 = L
    <3>1. n0 < L => n0 + 1 \in (n0 + 1)..L /\ n0 + 1 \in 1..L
      BY <1>1, <2>3
    <3> QED BY <1>1, <2>1, <2>3, <3>1
  <2>5. Params!TrimRight(w) = SubSeq(w, 1, n0)
    BY <1>1 DEF Params!TrimRight, n0
  <2>6. SubSeq(w, 1, L) = w
    BY <1>1
  <2> QED BY <2>4, <2>5, <2>6
<1>4. ~Params!Malformed(w)
  <2> SUFFICES ASSUME Params!Malformed(w) PROVE FALSE
    OBVIOUS
  <2>1. PICK i \in DOMAIN k : k[i] = Params!NoNumber
    BY <1>2 DEF Params!Malformed, Params!ToSet
  <2>2. k[i] \in Bytes
    BY DEF Strings
  <2> QED BY <2>1, <2>2 DEF Bytes, Params!NoNumber
<1>5. k # <<>> => w # <<>>
  <2>1. Params!decode_url(<<>>) = <<>>
    BY EncodeEmpty, DecodeEncode, EmptySeq
  <2> QED BY <1>2, <2>1
<1> QED BY <1>1, <1>2, <1>3, <1>4, <1>5

(* The pair of a key and a value, and the store of what is read from it.   *)
Pair(k, v) == Params!encode_url(k) \o <<Params!Equals>> \o Params!encode_url(v) \o <<Delimiter>>

LEMMA EndsPair ==
    ASSUME NEW k, NEW v, NEW x, NEW y, NEW d, NEW l,
           Params!TrimRight(x) = x, Params!TrimRight(y) = y, x # <<>> \/ y # <<>>,
           Params!decode_url(x) = k, Params!decode_url(y) = v, ~Params!Malformed(x), ~Params!Malformed(y)
    PROVE  Fed(Reading(x, y, "value", d, l), Delimiter) = Params!Store(Reading(<<>>, <<>>, "key", d, l), k, v)
<1>1. PICK p, q, n : /\ p = Reading(x, y, "value", d, l) /\ n = <<>>
                     /\ q = [p EXCEPT !.key = n, !.value = n, !.on = "key"]
  OBVIOUS
<1>2. p.state # "thrown" /\ p.key = x /\ p.value = y /\ q = Reading(n, n, "key", d, l)
  <2>1. p = [key |-> x, value |-> y, on |-> "value", dict |-> d, list |-> l, state |-> "reading"]
    BY <1>1 DEF Reading
  <2>2. q = [key |-> n, value |-> n, on |-> "key", dict |-> d, list |-> l, state |-> "reading"]
    <3>1. q = [p EXCEPT !.key = n, !.value = n, !.on = "key"]
      BY <1>1
    <3> QED BY <2>1, <3>1, Cleared
  <2>3. p.state # "thrown" /\ p.key = x /\ p.value = y
    BY <2>1
  <2> QED BY <2>2, <2>3 DEF Reading
<1>3. Params!EndPair(p) = Params!Store(q, k, v)
  BY <1>1, <1>2 DEF Params!EndPair
<1>4. Fed(p, Delimiter) = Params!EndPair(p)
  BY <1>2, EqualsAndDelimiter DEF Fed, Params!Step
<1> QED BY <1>1, <1>2, <1>3, <1>4

LEMMA ReadPair ==
    ASSUME NEW s \in Strings, NEW k \in Strings, NEW v \in Strings, k # <<>> \/ v # <<>>, NEW d, NEW l,
           After(s) = Reading(<<>>, <<>>, "key", d, l)
    PROVE  /\ Pair(k, v) \in Strings
           /\ After(Cat(s, Pair(k, v))) = Params!Store(Reading(<<>>, <<>>, "key", d, l), k, v)
<1>1. PICK x, y \in Plains : /\ x = Params!encode_url(k) /\ y = Params!encode_url(v)
                                 /\ Params!TrimRight(x) = x /\ Params!TrimRight(y) = y
                                 /\ Params!decode_url(x) = k /\ Params!decode_url(y) = v
                                 /\ ~Params!Malformed(x) /\ ~Params!Malformed(y)
                                 /\ (x # <<>> \/ y # <<>>)
  BY EncodedText
<1>2. x \in Strings /\ y \in Strings
  BY PlainTexts
<1>3. PICK n \in Plains : n = <<>> /\ Cat(n, x) = x /\ Cat(n, y) = y
  <2>1. <<>> \in Plains /\ Cat(<<>>, x) = x /\ Cat(<<>>, y) = y
    BY PlainTexts
  <2> QED BY <2>1
<1>4. PICK E, D \in Strings : E = <<Params!Equals>> /\ D = <<Delimiter>>
  <2>1. <<Params!Equals>> \in Strings /\ <<Delimiter>> \in Strings
    BY EqualsAndDelimiter DEF Strings
  <2> QED BY <2>1
<1>5. PICK e \in Strings : e = Cat(s, x)
  BY <1>2, CatAssoc
<1>6. After(e) = Reading(x, n, "key", d, l)
  <2>1. After(s) = Reading(n, n, "key", d, l)
    BY <1>3
  <2>2. After(Cat(s, x)) = Reading(Cat(n, x), n, "key", d, l)
    BY <2>1, ReadKey
  <2> QED BY <1>3, <1>5, <2>2
<1>7. PICK f \in Strings : f = Cat(e, E) /\ f = Append(e, Params!Equals)
  <2>1. Cat(e, E) \in Strings
    BY CatAssoc
  <2>2. Add(e, Params!Equals) = Cat(e, <<Params!Equals>>)
    BY EqualsAndDelimiter, CatAdd
  <2> QED BY <1>4, <2>1, <2>2 DEF Add
<1>8. After(f) = Reading(x, n, "value", d, l)
  <2>1. After(f) = Fed(After(e), Params!Equals)
    BY <1>7, AfterAppend, EqualsAndDelimiter DEF Strings
  <2> QED BY <1>6, <2>1, StepEquals
<1>9. PICK g \in Strings : g = Cat(f, y)
  BY <1>2, CatAssoc
<1>10. After(g) = Reading(x, y, "value", d, l)
  <2>1. After(Cat(f, y)) = Reading(x, Cat(n, y), "value", d, l)
    BY <1>8, ReadValue
  <2> QED BY <1>3, <1>9, <2>1
<1>11. PICK h \in Strings : h = Cat(g, D) /\ h = Append(g, Delimiter)
  <2>1. Cat(g, D) \in Strings
    BY CatAssoc
  <2>2. Add(g, Delimiter) = Cat(g, <<Delimiter>>)
    BY EqualsAndDelimiter, CatAdd
  <2> QED BY <1>4, <2>1, <2>2 DEF Add
<1>12. After(h) = Params!Store(Reading(<<>>, <<>>, "key", d, l), k, v)
  <2>1. After(h) = Fed(After(g), Delimiter)
    BY <1>11, AfterAppend, EqualsAndDelimiter DEF Strings
  <2>2. Fed(Reading(x, y, "value", d, l), Delimiter) = Params!Store(Reading(<<>>, <<>>, "key", d, l), k, v)
    BY <1>1, EndsPair
  <2> QED BY <1>10, <2>1, <2>2
<1>13. Pair(k, v) = Cat(Cat(Cat(x, E), y), D)
  BY <1>1, <1>4 DEF Pair, Cat
<1>14. /\ Cat(Cat(Cat(x, E), y), D) \in Strings
       /\ Cat(s, Cat(Cat(Cat(x, E), y), D)) = Cat(Cat(Cat(Cat(s, x), E), y), D)
  BY <1>2, Regroup
<1>15. h = Cat(Cat(Cat(Cat(s, x), E), y), D)
  BY <1>5, <1>7, <1>9, <1>11
<1> QED BY <1>12, <1>13, <1>14, <1>15

-----------------------------------------------------------------------------
(* What is stored between two pairs; what a pair adds.                     *)

Told(k) == {v \in Strings : k # <<>> \/ v # <<>>}

Tidy(r) == /\ r.dict = [x \in DOMAIN r.dict |-> r.dict[x]]
           /\ r.list = [x \in DOMAIN r.list |-> r.list[x]]

Stored(r) ==
    /\ Apart(r) /\ Tidy(r)
    /\ IsFiniteSet(Known(r)) /\ Known(r) \subseteq Strings
    /\ \A x \in DOMAIN r.list : Len(r.list[x]) >= 2
    /\ \A x : Params!Values(r, x) \in Seq(Told(x))

LEMMA ValuesAre ==
    ASSUME NEW r, Apart(r)
    PROVE  /\ \A x \in DOMAIN r.dict : Params!Values(r, x) = <<r.dict[x]>>
           /\ \A x \in DOMAIN r.list : Params!Values(r, x) = r.list[x]
           /\ \A x : x \notin Known(r) => Params!Values(r, x) = <<>>
BY DEF Apart, Known, Params!Values

LEMMA StoreTidy ==
    ASSUME NEW p, IsReading(p), Tidy(p), NEW k, NEW v, NEW q, q = Params!Store(p, k, v)
    PROVE  /\ Tidy(q)
           /\ DOMAIN q.list = DOMAIN p.list \cup (IF k \in Known(p) THEN {k} ELSE {})
<1>1. PICK a, b, o, d, l : p = [key |-> a, value |-> b, on |-> o, dict |-> d, list |-> l, state |-> "reading"]
  BY DEF IsReading
<1>2. p.dict = d /\ p.list = l /\ d = [x \in DOMAIN d |-> d[x]] /\ l = [x \in DOMAIN l |-> l[x]]
  BY <1>1 DEF Tidy
<1>3. CASE k \in DOMAIN l
  <2>1. PICK m : m = [l EXCEPT ![k] = Append(@, v)]
    OBVIOUS
  <2>2. q = [key |-> a, value |-> b, on |-> o, dict |-> d, list |-> m, state |-> "reading"]
    BY <1>1, <1>2, <1>3, <2>1 DEF Params!Store
  <2>3. q.dict = d /\ q.list = m /\ DOMAIN m = DOMAIN l /\ m = [x \in DOMAIN m |-> m[x]]
    <3>1. m = [x \in DOMAIN l |-> IF x = k THEN Append(l[k], v) ELSE l[x]]
      BY <2>1
    <3>2. DOMAIN m = DOMAIN l
      BY <3>1
    <3> QED BY <2>2, <3>1, <3>2
  <2>4. DOMAIN q.list = DOMAIN p.list \cup (IF k \in Known(p) THEN {k} ELSE {})
    BY <1>2, <1>3, <2>3
  <2> QED BY <1>2, <2>3, <2>4 DEF Tidy
<1>4. CASE k \notin DOMAIN l /\ k \in DOMAIN d
  <2>1. PICK m, f : m = Params!Put(l, k, <<d[k], v>>) /\ f = Params!Without(d, k)
    OBVIOUS
  <2>2. q = [key |-> a, value |-> b, on |-> o, dict |-> f, list |-> m, state |-> "reading"]
    BY <1>1, <1>2, <1>4, <2>1 DEF Params!Store
  <2>3. /\ DOMAIN m = DOMAIN l \cup {k} /\ m = [x \in DOMAIN m |-> m[x]]
        /\ f = [x \in DOMAIN f |-> f[x]]
    BY <2>1 DEF Params!Put, Params!Without
  <2>4. q.dict = f /\ q.list = m
    BY <2>2
  <2>5. DOMAIN q.list = DOMAIN p.list \cup (IF k \in Known(p) THEN {k} ELSE {})
    BY <1>2, <1>4, <2>3, <2>4 DEF Known
  <2> QED BY <2>3, <2>4, <2>5 DEF Tidy
<1>5. CASE k \notin DOMAIN l /\ k \notin DOMAIN d
  <2>1. PICK f : f = Params!Put(d, k, v)
    OBVIOUS
  <2>2. q = [key |-> a, value |-> b, on |-> o, dict |-> f, list |-> l, state |-> "reading"]
    BY <1>1, <1>2, <1>5, <2>1 DEF Params!Store
  <2>3. f = [x \in DOMAIN f |-> f[x]]
    BY <2>1 DEF Params!Put
  <2>4. q.dict = f /\ q.list = l
    BY <2>2
  <2>5. DOMAIN q.list = DOMAIN p.list \cup (IF k \in Known(p) THEN {k} ELSE {})
    BY <1>2, <1>5, <2>4 DEF Known
  <2> QED BY <1>2, <2>3, <2>4, <2>5 DEF Tidy
<1> QED BY <1>3, <1>4, <1>5

LEMMA KnownIs ==
    ASSUME NEW r, Stored(r)
    PROVE  \A x : /\ Len(Params!Values(r, x)) \in Nat
                  /\ x \in DOMAIN r.dict <=> Len(Params!Values(r, x)) = 1
                  /\ x \in DOMAIN r.list <=> Len(Params!Values(r, x)) >= 2
<1> TAKE x
<1>1. Params!Values(r, x) \in Seq(Told(x)) /\ Apart(r)
  BY DEF Stored
<1>2. Len(Params!Values(r, x)) \in Nat
  BY <1>1, LenProperties
<1>3. CASE x \in DOMAIN r.dict
  <2>1. Params!Values(r, x) = <<r.dict[x]>> /\ x \notin DOMAIN r.list
    BY <1>1, <1>3, ValuesAre DEF Apart
  <2>2. Len(Params!Values(r, x)) = 1
    BY <2>1
  <2> QED BY <1>3, <2>1, <2>2
<1>4. CASE x \in DOMAIN r.list
  <2>1. Params!Values(r, x) = r.list[x] /\ x \notin DOMAIN r.dict
    BY <1>1, <1>4, ValuesAre DEF Apart
  <2>2. Len(Params!Values(r, x)) >= 2
    BY <1>4, <2>1 DEF Stored
  <2>3. \A n \in Nat : n >= 2 => n # 1
    OBVIOUS
  <2> QED BY <1>2, <1>4, <2>1, <2>2, <2>3
<1>5. CASE x \notin Known(r)
  <2>1. Params!Values(r, x) = <<>>
    BY <1>1, <1>5, ValuesAre
  <2>2. Len(Params!Values(r, x)) = 0
    BY <2>1
  <2> QED BY <1>5, <2>2 DEF Known
<1> QED BY <1>2, <1>3, <1>4, <1>5 DEF Known

LEMMA StoreStored ==
    ASSUME NEW p, IsReading(p), Stored(p), NEW k \in Strings, NEW v \in Told(k), NEW q, q = Params!Store(p, k, v)
    PROVE  Stored(q)
<1>1. /\ Apart(q) /\ Known(q) = Known(p) \cup {k}
      /\ Params!Values(q, k) = Append(Params!Values(p, k), v)
      /\ \A x : x # k => Params!Values(q, x) = Params!Values(p, x)
  BY StoreAppends DEF Stored
<1>2. Tidy(q) /\ DOMAIN q.list = DOMAIN p.list \cup (IF k \in Known(p) THEN {k} ELSE {})
  BY StoreTidy DEF Stored
<1>3. IsFiniteSet(Known(q)) /\ Known(q) \subseteq Strings
  BY <1>1, FS_AddElement DEF Stored
<1>4. \A x : Params!Values(q, x) \in Seq(Told(x))
  <2>1. Append(Params!Values(p, k), v) \in Seq(Told(k))
    BY AppendProperties DEF Stored
  <2> QED BY <1>1, <2>1 DEF Stored
<1>5. \A x \in DOMAIN q.list : Len(q.list[x]) >= 2
  <2> SUFFICES ASSUME NEW x \in DOMAIN q.list PROVE Len(q.list[x]) >= 2
    OBVIOUS
  <2>1. q.list[x] = Params!Values(q, x)
    BY <1>1, ValuesAre
  <2>2. CASE x # k
    <3>1. x \in DOMAIN p.list
      BY <1>2, <2>2
    <3>2. Len(Params!Values(p, x)) >= 2
      BY <3>1, KnownIs
    <3> QED BY <1>1, <2>1, <2>2, <3>2
  <2>3. CASE x = k
    <3>1. PICK L \in Nat : L = Len(Params!Values(p, k)) /\ L >= 1
      <4>1. k \in Known(p)
        BY <1>2, <2>3 DEF Known
      <4>2. \A n \in Nat : n = 1 \/ n >= 2 => n >= 1
        OBVIOUS
      <4> QED BY <4>1, <4>2, KnownIs DEF Known
    <3>2. Len(Append(Params!Values(p, k), v)) = L + 1
      BY <3>1, AppendProperties DEF Stored
    <3>3. L + 1 >= 2
      BY <3>1
    <3> QED BY <1>1, <2>1, <2>3, <3>2, <3>3
  <2> QED BY <2>2, <2>3
<1> QED BY <1>1, <1>2, <1>3, <1>4, <1>5 DEF Stored

LEMMA SameResult ==
    ASSUME NEW p, Stored(p), NEW q, Stored(q), \A x : Params!Values(p, x) = Params!Values(q, x)
    PROVE  p.dict = q.dict /\ p.list = q.list
<1>1. \A x : (x \in DOMAIN p.dict <=> x \in DOMAIN q.dict) /\ (x \in DOMAIN p.list <=> x \in DOMAIN q.list)
  <2> TAKE x
  <2>1. /\ x \in DOMAIN p.dict <=> Len(Params!Values(p, x)) = 1
        /\ x \in DOMAIN p.list <=> Len(Params!Values(p, x)) >= 2
    BY KnownIs
  <2>2. /\ x \in DOMAIN q.dict <=> Len(Params!Values(q, x)) = 1
        /\ x \in DOMAIN q.list <=> Len(Params!Values(q, x)) >= 2
    BY KnownIs
  <2> QED BY <2>1, <2>2
<1>2. DOMAIN p.dict = DOMAIN q.dict /\ DOMAIN p.list = DOMAIN q.list
  BY <1>1
<1>3. \A x \in DOMAIN p.list : p.list[x] = q.list[x]
  BY <1>2, ValuesAre DEF Stored
<1>4. \A x \in DOMAIN p.dict : p.dict[x] = q.dict[x]
  <2> SUFFICES ASSUME NEW x \in DOMAIN p.dict PROVE p.dict[x] = q.dict[x]
    OBVIOUS
  <2>1. <<p.dict[x]>> = <<q.dict[x]>>
    BY <1>2, ValuesAre DEF Stored
  <2> QED BY <2>1
<1> QED BY <1>2, <1>3, <1>4 DEF Stored, Tidy

(* What a sequence of pairs is printed as, piece by piece.                 *)
PairsOf(k, vs) == Params!FlattenSeq([m \in DOMAIN vs |-> Pair(k, vs[m])])
KeysOf(ks, r) == Params!FlattenSeq([n \in DOMAIN ks |-> PairsOf(ks[n], Params!Values(r, ks[n]))])

LEMMA PrintedIs == \A r : Params!Printed(r) = KeysOf(Params!SetToSeq(Known(r)), r)
BY DEF Params!Printed, KeysOf, PairsOf, Pair, Known

LEMMA FlattenMap ==
    ASSUME NEW A, NEW F, \A x \in A : F[x] \in Strings, NEW s \in Seq(A), NEW c \in A
    PROVE  /\ Params!FlattenSeq([i \in DOMAIN s |-> F[s[i]]]) \in Strings
           /\ Params!FlattenSeq([i \in DOMAIN Append(s, c) |-> F[Append(s, c)[i]]])
                = Cat(Params!FlattenSeq([i \in DOMAIN s |-> F[s[i]]]), F[c])
<1>1. PICK t, L : t = Append(s, c) /\ L = Len(s) /\ t \in Seq(A) /\ Extends(s, t, L, c)
  BY AppendExtends
<1>2. L \in Nat /\ DOMAIN s = 1..L /\ DOMAIN t = 1..(L + 1) /\ (\A i \in 1..L : t[i] = s[i]) /\ t[L + 1] = c
  BY <1>1 DEF Extends
<1>3. PICK a, b : a = [i \in DOMAIN s |-> F[s[i]]] /\ b = [i \in DOMAIN t |-> F[t[i]]]
  OBVIOUS
<1>4. /\ \A i \in 1..L : a[i] \in Strings /\ b[i] = a[i]
      /\ b[L + 1] = F[c] /\ b[L + 1] \in Strings
  <2>1. L + 1 \in 1..(L + 1) /\ \A i \in 1..L : i \in 1..(L + 1)
    BY <1>2
  <2>2. \A i \in 1..L : s[i] \in A
    BY <1>1, ElementOfSeq
  <2> QED BY <1>2, <1>3, <2>1, <2>2
<1>5. a \in Seq(Strings) /\ Len(a) = L
  <2>1. a \in [1..L -> Strings]
    BY <1>2, <1>3, <1>4
  <2> QED BY <1>2, <2>1
<1>6. \A i \in 1..(L + 1) : i = L + 1 \/ i \in 1..L
  BY <1>2
<1>7. b \in Seq(Strings) /\ Len(b) = L + 1
  <2>1. b \in [1..(L + 1) -> Strings]
    BY <1>2, <1>3, <1>4, <1>6
  <2> QED BY <1>2, <2>1
<1>8. PICK d : d = Append(a, b[L + 1])
  OBVIOUS
<1>9. /\ d \in Seq(Strings) /\ Len(d) = L + 1
      /\ \A i \in 1..L : d[i] = a[i]
      /\ d[L + 1] = b[L + 1]
  BY <1>4, <1>5, <1>8, AppendProperties
<1>10. b = d
  <2>1. \A i \in 1..Len(b) : b[i] = d[i]
    BY <1>4, <1>6, <1>7, <1>9
  <2> QED BY <1>7, <1>9, <2>1, SeqEqual
<1>11. Params!FlattenSeq(b) = Params!FlattenSeq(a) \o b[L + 1]
  BY <1>4, <1>5, <1>8, <1>10, FlattenAppend DEF Strings
<1>12. Params!FlattenSeq(a) \in Strings
  BY <1>5, FlattenIsSeq DEF Strings
<1> QED BY <1>1, <1>3, <1>4, <1>11, <1>12 DEF Cat

LEMMA PairText ==
    ASSUME NEW k \in Strings, NEW v \in Strings
    PROVE  Pair(k, v) \in Strings
<1>1. PICK x, y \in Strings : x = Params!encode_url(k) /\ y = Params!encode_url(v)
  BY EncodedText, PlainTexts
<1>2. PICK e, d \in Strings : e = <<Params!Equals>> /\ d = <<Delimiter>>
  <2>1. <<Params!Equals>> \in Strings /\ <<Delimiter>> \in Strings
    BY EqualsAndDelimiter DEF Strings
  <2> QED BY <2>1
<1>3. Cat(Cat(Cat(x, e), y), d) \in Strings
  BY <1>2, Regroup
<1> QED BY <1>1, <1>2, <1>3 DEF Pair, Cat

LEMMA PairsNone == \A k : PairsOf(k, <<>>) = <<>>
<1> TAKE k
<1>1. [m \in DOMAIN <<>> |-> Pair(k, <<>>[m])] = <<>>
  OBVIOUS
<1> QED BY <1>1, FlattenIs DEF PairsOf

LEMMA PairsAppend ==
    ASSUME NEW k \in Strings, NEW vs \in Seq(Told(k)), NEW v \in Told(k)
    PROVE  /\ PairsOf(k, vs) \in Strings
           /\ PairsOf(k, Append(vs, v)) = Cat(PairsOf(k, vs), Pair(k, v))
<1>1. PICK F : F = [x \in Told(k) |-> Pair(k, x)]
  OBVIOUS
<1>2. (\A x \in Told(k) : F[x] \in Strings) /\ F[v] = Pair(k, v)
  BY <1>1, PairText DEF Told
<1>3. \A s \in Seq(Told(k)) : PairsOf(k, s) = Params!FlattenSeq([i \in DOMAIN s |-> F[s[i]]])
  <2> TAKE s \in Seq(Told(k))
  <2>1. \A i \in DOMAIN s : s[i] \in Told(k)
    BY ElementOfSeq, LenProperties
  <2>2. [i \in DOMAIN s |-> Pair(k, s[i])] = [i \in DOMAIN s |-> F[s[i]]]
    BY <1>1, <2>1
  <2> QED BY <2>2 DEF PairsOf
<1>4. Append(vs, v) \in Seq(Told(k))
  BY AppendProperties
<1>5. /\ Params!FlattenSeq([i \in DOMAIN vs |-> F[vs[i]]]) \in Strings
      /\ Params!FlattenSeq([i \in DOMAIN Append(vs, v) |-> F[Append(vs, v)[i]]])
           = Cat(Params!FlattenSeq([i \in DOMAIN vs |-> F[vs[i]]]), F[v])
  BY <1>2, FlattenMap
<1> QED BY <1>2, <1>3, <1>4, <1>5

(* The values of a key, read from their pairs.                             *)
Blank(r) == r = Reading(<<>>, <<>>, "key", r.dict, r.list)

LEMMA BlankIs == \A r : Blank(r) <=> IsReading(r) /\ r.key = <<>> /\ r.value = <<>> /\ r.on = "key"
<1> TAKE r
<1>1. ASSUME Blank(r) PROVE IsReading(r) /\ r.key = <<>> /\ r.value = <<>> /\ r.on = "key"
  <2>1. PICK d, l : r = [key |-> <<>>, value |-> <<>>, on |-> "key", dict |-> d, list |-> l, state |-> "reading"]
    BY <1>1 DEF Blank, Reading
  <2> QED BY <2>1 DEF IsReading
<1>2. ASSUME IsReading(r), r.key = <<>>, r.value = <<>>, r.on = "key" PROVE Blank(r)
  BY <1>2 DEF IsReading, Blank, Reading
<1> QED BY <1>1, <1>2

LEMMA PairStored ==
    ASSUME NEW s \in Strings, NEW k \in Strings, NEW v \in Told(k), NEW r, After(s) = r, Blank(r), Stored(r)
    PROVE  \E q : /\ After(Cat(s, Pair(k, v))) = q /\ Blank(q) /\ Stored(q)
                  /\ Params!Values(q, k) = Append(Params!Values(r, k), v)
                  /\ \A x : x # k => Params!Values(q, x) = Params!Values(r, x)
<1>1. v \in Strings /\ (k # <<>> \/ v # <<>>)
  BY DEF Told
<1>2. After(s) = Reading(<<>>, <<>>, "key", r.dict, r.list)
  BY DEF Blank
<1>3. PICK q : q = Params!Store(r, k, v)
  OBVIOUS
<1>4. After(Cat(s, Pair(k, v))) = q
  <2>1. After(Cat(s, Pair(k, v))) = Params!Store(Reading(<<>>, <<>>, "key", r.dict, r.list), k, v)
    BY <1>1, <1>2, ReadPair
  <2> QED BY <1>3, <2>1 DEF Blank
<1>5. IsReading(r) /\ r.key = <<>> /\ r.value = <<>> /\ r.on = "key"
  BY BlankIs
<1>6. Apart(r)
  BY DEF Stored
<1>7. /\ IsReading(q) /\ q.key = r.key /\ q.value = r.value /\ q.on = r.on
      /\ Params!Values(q, k) = Append(Params!Values(r, k), v)
      /\ \A x : x # k => Params!Values(q, x) = Params!Values(r, x)
  BY <1>3, <1>5, <1>6, StoreAppends
<1>8. Stored(q)
  BY <1>3, <1>5, StoreStored
<1>9. Blank(q)
  BY <1>5, <1>7, BlankIs
<1> QED BY <1>4, <1>7, <1>8, <1>9

KeyRead(s, k, r, vs) ==
    \E q : /\ After(Cat(s, PairsOf(k, vs))) = q /\ Blank(q) /\ Stored(q)
           /\ Params!Values(q, k) = vs
           /\ \A x : x # k => Params!Values(q, x) = Params!Values(r, x)

LEMMA KeyPrinted ==
    ASSUME NEW s \in Strings, NEW k \in Strings, NEW r, After(s) = r, Blank(r), Stored(r),
           Params!Values(r, k) = <<>>
    PROVE  \A vs \in Seq(Told(k)) : KeyRead(s, k, r, vs)
<1> DEFINE T == {vs \in Seq(Told(k)) : KeyRead(s, k, r, vs)}
<1>1. <<>> \in T
  <2>1. Cat(s, <<>>) = s
    BY PlainTexts
  <2>2. <<>> \in Seq(Told(k))
    BY EmptySeq
  <2>3. KeyRead(s, k, r, <<>>)
    BY <2>1, PairsNone DEF KeyRead
  <2> QED BY <2>2, <2>3
<1>2. ASSUME NEW vs \in Seq(Told(k)), NEW v \in Told(k), vs \in T PROVE Append(vs, v) \in T
  <2>1. PICK t \in Strings : t = PairsOf(k, vs)
    BY PairsAppend
  <2>2. PICK u \in Strings : u = Pair(k, v)
    BY PairText DEF Told
  <2>3. PairsOf(k, Append(vs, v)) = Cat(t, u)
    BY <2>1, <2>2, PairsAppend
  <2>4. PICK p : /\ After(Cat(s, t)) = p /\ Blank(p) /\ Stored(p)
                 /\ Params!Values(p, k) = vs
                 /\ \A x : x # k => Params!Values(p, x) = Params!Values(r, x)
    BY <1>2, <2>1 DEF KeyRead
  <2>5. PICK g \in Strings : g = Cat(s, t) /\ Cat(g, u) = Cat(s, Cat(t, u))
    BY CatAssoc
  <2>6. PICK q : /\ After(Cat(g, Pair(k, v))) = q /\ Blank(q) /\ Stored(q)
                 /\ Params!Values(q, k) = Append(Params!Values(p, k), v)
                 /\ \A x : x # k => Params!Values(q, x) = Params!Values(p, x)
    BY <2>4, <2>5, PairStored
  <2>7. After(Cat(s, PairsOf(k, Append(vs, v)))) = q
    BY <2>2, <2>3, <2>5, <2>6
  <2>8. KeyRead(s, k, r, Append(vs, v))
    BY <2>4, <2>6, <2>7 DEF KeyRead
  <2>9. Append(vs, v) \in Seq(Told(k))
    BY AppendProperties
  <2> QED BY <2>8, <2>9
<1> HIDE DEF T
<1>3. Seq(Told(k)) \subseteq T
  BY <1>1, <1>2, EverySeq
<1> QED BY <1>3 DEF T

(* All keys, one behind the other.                                         *)
Once(ks) == \A i, j \in DOMAIN ks : ks[i] = ks[j] => i = j
In(x, ks) == \E i \in DOMAIN ks : ks[i] = x

LEMMA KeysNone == \A r : KeysOf(<<>>, r) = <<>>
<1> TAKE r
<1>1. [n \in DOMAIN <<>> |-> PairsOf(<<>>[n], Params!Values(r, <<>>[n]))] = <<>>
  OBVIOUS
<1> QED BY <1>1, FlattenIs DEF KeysOf

LEMMA KeysAppend ==
    ASSUME NEW r, Stored(r), NEW ks \in Seq(Known(r)), NEW k \in Known(r)
    PROVE  /\ KeysOf(ks, r) \in Strings
           /\ PairsOf(k, Params!Values(r, k)) \in Strings
           /\ KeysOf(Append(ks, k), r) = Cat(KeysOf(ks, r), PairsOf(k, Params!Values(r, k)))
<1>1. PICK F : F = [x \in Known(r) |-> PairsOf(x, Params!Values(r, x))]
  OBVIOUS
<1>2. (\A x \in Known(r) : F[x] \in Strings) /\ F[k] = PairsOf(k, Params!Values(r, k))
  <2>1. \A x \in Known(r) : x \in Strings /\ Params!Values(r, x) \in Seq(Told(x))
    BY DEF Stored
  <2>2. ASSUME NEW x \in Known(r) PROVE PairsOf(x, Params!Values(r, x)) \in Strings
    <3>1. CASE Params!Values(r, x) = <<>>
      <4>1. <<>> \in Strings
        BY PlainTexts
      <4> QED BY <3>1, <4>1, PairsNone
    <3>2. CASE Params!Values(r, x) # <<>>
      <4>1. Told(x) # {}
        <5>1. 1 \in 1..Len(Params!Values(r, x))
          BY <2>1, <3>2, EmptySeq, LenProperties
        <5> QED BY <2>1, <5>1, ElementOfSeq
      <4> QED BY <2>1, <4>1, PairsAppend
    <3> QED BY <3>1, <3>2
  <2> QED BY <1>1, <2>2
<1>3. \A s \in Seq(Known(r)) : KeysOf(s, r) = Params!FlattenSeq([i \in DOMAIN s |-> F[s[i]]])
  <2> TAKE s \in Seq(Known(r))
  <2>1. \A i \in DOMAIN s : s[i] \in Known(r)
    BY ElementOfSeq, LenProperties
  <2>2. [i \in DOMAIN s |-> PairsOf(s[i], Params!Values(r, s[i]))] = [i \in DOMAIN s |-> F[s[i]]]
    BY <1>1, <2>1
  <2> QED BY <2>2 DEF KeysOf
<1>4. Append(ks, k) \in Seq(Known(r))
  BY AppendProperties
<1>5. /\ Params!FlattenSeq([i \in DOMAIN ks |-> F[ks[i]]]) \in Strings
      /\ Params!FlattenSeq([i \in DOMAIN Append(ks, k) |-> F[Append(ks, k)[i]]])
           = Cat(Params!FlattenSeq([i \in DOMAIN ks |-> F[ks[i]]]), F[k])
  BY <1>2, FlattenMap
<1> QED BY <1>2, <1>3, <1>4, <1>5

KeysRead(ks, r) ==
    \E q : /\ After(KeysOf(ks, r)) = q /\ Blank(q) /\ Stored(q)
           /\ \A x : Params!Values(q, x) = IF In(x, ks) THEN Params!Values(r, x) ELSE <<>>

LEMMA StartStored == /\ After(<<>>) = Params!Start /\ Blank(Params!Start) /\ Stored(Params!Start)
                     /\ \A x : Params!Values(Params!Start, x) = <<>>
<1>1. After(<<>>) = Params!Start
  <2>1. <<>> \in Seq(Bytes) /\ Delimiter \in Bytes
    BY EmptySeq, EqualsAndDelimiter
  <2> QED BY <2>1, AfterAppend
<1>2. PICK e : e = <<>>
  OBVIOUS
<1>3. DOMAIN e = {} /\ e = [x \in DOMAIN e |-> e[x]]
  BY <1>2
<1>4. PICK r : r = Params!Start
  OBVIOUS
<1>5. r = [key |-> e, value |-> e, on |-> "key", dict |-> e, list |-> e, state |-> "reading"]
  BY <1>2, <1>4 DEF Params!Start
<1>6. r.dict = e /\ r.list = e
  BY <1>5
<1>7. Blank(r)
  BY <1>2, <1>5, <1>6 DEF Blank, Reading
<1>8. Apart(r) /\ Tidy(r) /\ Known(r) = {}
  BY <1>3, <1>6 DEF Apart, Tidy, Known
<1>9. \A x : Params!Values(r, x) = <<>>
  BY <1>8, ValuesAre
<1>10. Stored(r)
  BY <1>3, <1>6, <1>8, <1>9, FS_EmptySet, EmptySeq DEF Stored
<1> QED BY <1>1, <1>4, <1>7, <1>9, <1>10

LEMMA KeysPrinted ==
    ASSUME NEW r, Stored(r)
    PROVE  \A ks \in Seq(Known(r)) : Once(ks) => KeysRead(ks, r)
<1> DEFINE T == {ks \in Seq(Known(r)) : Once(ks) => KeysRead(ks, r)}
<1>1. <<>> \in T
  <2>1. <<>> \in Seq(Known(r)) /\ \A x : ~In(x, <<>>)
    BY EmptySeq DEF In
  <2> QED BY <2>1, StartStored, KeysNone DEF KeysRead
<1>2. ASSUME NEW ks \in Seq(Known(r)), NEW k \in Known(r), ks \in T PROVE Append(ks, k) \in T
  <2>1. Append(ks, k) \in Seq(Known(r))
    BY AppendProperties
  <2> SUFFICES ASSUME Once(Append(ks, k)) PROVE KeysRead(Append(ks, k), r)
    BY <2>1
  <2>2. PICK t, L : t = Append(ks, k) /\ L = Len(ks) /\ t \in Seq(Known(r)) /\ Extends(ks, t, L, k)
    BY AppendExtends
  <2>3. L \in Nat /\ DOMAIN ks = 1..L /\ DOMAIN t = 1..(L + 1) /\ (\A i \in 1..L : t[i] = ks[i]) /\ t[L + 1] = k
    BY <2>2 DEF Extends
  <2>4. (\A i \in 1..L : i \in 1..(L + 1) /\ i # L + 1) /\ L + 1 \in 1..(L + 1) /\ \A i \in 1..(L + 1) : i = L + 1 \/ i \in 1..L
    BY <2>3
  <2>5. Once(ks)
    BY <2>2, <2>3, <2>4 DEF Once
  <2>6. ~In(k, ks)
    BY <2>2, <2>3, <2>4 DEF Once, In
  <2>7. \A x : In(x, t) <=> x = k \/ In(x, ks)
    BY <2>3, <2>4 DEF In
  <2>8. PICK p : /\ After(KeysOf(ks, r)) = p /\ Blank(p) /\ Stored(p)
                 /\ \A x : Params!Values(p, x) = IF In(x, ks) THEN Params!Values(r, x) ELSE <<>>
    BY <1>2, <2>5 DEF KeysRead
  <2>9. PICK s \in Strings : s = KeysOf(ks, r) /\ KeysOf(t, r) = Cat(s, PairsOf(k, Params!Values(r, k)))
    BY <2>2, KeysAppend
  <2>10. k \in Strings /\ Params!Values(r, k) \in Seq(Told(k))
    BY DEF Stored
  <2>11. Params!Values(p, k) = <<>>
    BY <2>6, <2>8
  <2>12. KeyRead(s, k, p, Params!Values(r, k))
    BY <2>8, <2>9, <2>10, <2>11, KeyPrinted
  <2>13. PICK q : /\ After(KeysOf(t, r)) = q /\ Blank(q) /\ Stored(q)
                  /\ Params!Values(q, k) = Params!Values(r, k)
                  /\ \A x : x # k => Params!Values(q, x) = Params!Values(p, x)
    BY <2>9, <2>12 DEF KeyRead
  <2>14. \A x : Params!Values(q, x) = IF In(x, t) THEN Params!Values(r, x) ELSE <<>>
    BY <2>7, <2>8, <2>13
  <2> QED BY <2>2, <2>13, <2>14 DEF KeysRead
<1> HIDE DEF T
<1>3. Seq(Known(r)) \subseteq T
  BY <1>1, <1>2, EverySeq
<1> QED BY <1>3 DEF T

(* What the parser stores is text.                                         *)
Textual(p) == IsReading(p) /\ p.key \in Strings /\ p.value \in Strings /\ Stored(p)

LEMMA TrimmedText ==
    ASSUME NEW s \in Strings
    PROVE  Params!TrimRight(s) \in Strings
<1>1. PICK L \in Nat : L = Len(s)
  BY LenProperties DEF Strings
<1> DEFINE P(n) == (n = 0 \/ s[n] # Params!Space) /\ \A i \in (n + 1)..L : s[i] = Params!Space
           n0 == CHOOSE n \in 0..L : P(n)
           T == {m \in Nat : m <= L => (\E n \in 0..L : P(n)) \/ \A i \in (L - m + 1)..L : s[i] = Params!Space}
<1>2. \E n \in 0..L : P(n)
  <2>1. 0 \in T
    <3>1. \A i \in (L - 0 + 1)..L : FALSE
      BY <1>1
    <3> QED BY <3>1
  <2>2. ASSUME NEW m \in Nat, m \in T PROVE m + 1 \in T
    <3> SUFFICES ASSUME m + 1 <= L, ~\E n \in 0..L : P(n)
                 PROVE  \A i \in (L - (m + 1) + 1)..L : s[i] = Params!Space
      OBVIOUS
    <3>1. PICK n \in Nat : n = L - m /\ n \in 0..L /\ n # 0
      <4>1. L - m \in Nat /\ L - m \in 0..L /\ L - m # 0 /\ m <= L
        BY <1>1
      <4> QED BY <4>1
    <3>2. \A i \in (n + 1)..L : s[i] = Params!Space
      <4>1. m <= L /\ L - m + 1 = n + 1
        BY <1>1, <3>1
      <4> QED BY <2>2, <4>1
    <3>3. s[n] = Params!Space
      BY <3>1, <3>2
    <3>4. \A i \in (L - (m + 1) + 1)..L : i = n \/ i \in (n + 1)..L
      BY <1>1, <3>1
    <3> QED BY <3>2, <3>3, <3>4
  <2>3. L \in T
    <3> HIDE DEF T
    <3> QED BY <1>1, <2>1, <2>2, EveryNat
  <2>4. CASE \A i \in (L - L + 1)..L : s[i] = Params!Space
    <3>1. L - L + 1 = 0 + 1 /\ 0 \in 0..L
      BY <1>1
    <3>2. P(0)
      BY <2>4, <3>1
    <3> QED BY <3>1, <3>2
  <2>5. L <= L
    BY <1>1
  <2> QED BY <2>3, <2>4, <2>5
<1>3. n0 \in 0..L
  BY <1>2
<1>4. Params!TrimRight(s) = SubSeq(s, 1, n0)
  BY <1>1 DEF Params!TrimRight
<1> HIDE DEF n0
<1>5. SubSeq(s, 1, n0) \in Seq(Bytes)
  <2>1. \A i \in 1..n0 : i \in 1..L
    BY <1>1, <1>3
  <2>2. \A i \in 1..n0 : s[i] \in Bytes
    BY <1>1, <2>1, ElementOfSeq DEF Strings
  <2> QED BY <1>1, <1>3, <2>2, SubSeqProperties
<1> QED BY <1>4, <1>5 DEF Strings

LEMMA EndTextual ==
    ASSUME NEW p, Textual(p), NEW q, q = Params!EndPair(p)
    PROVE  q.state = "thrown" \/ (Textual(q) /\ Blank(q))
<1>1. PICK k, v \in Strings : k = Params!TrimRight(p.key) /\ v = Params!TrimRight(p.value)
  BY TrimmedText DEF Textual
<1>2. PICK a, b, o, d, l : /\ p = [key |-> a, value |-> b, on |-> o, dict |-> d, list |-> l, state |-> "reading"]
                           /\ d = p.dict /\ l = p.list
  BY DEF Textual, IsReading
<1>3. PICK e : e = <<>> /\ e \in Strings
  BY PlainTexts
<1>4. PICK r : r = [key |-> e, value |-> e, on |-> "key", dict |-> d, list |-> l, state |-> "reading"]
  OBVIOUS
<1>5. r.key = e /\ r.value = e /\ r.on = "key" /\ r.dict = p.dict /\ r.list = p.list /\ IsReading(r)
  BY <1>2, <1>4 DEF IsReading
<1>6. Stored(r)
  BY <1>5 DEF Textual, Stored, Apart, Tidy, Known, Params!Values
<1>7. CASE k = e /\ v = e
  <2>1. q = [p EXCEPT !.key = k, !.value = v, !.on = "key"]
    BY <1>1, <1>3, <1>7 DEF Params!EndPair
  <2>2. q = r
    BY <1>2, <1>4, <1>7, <2>1
  <2> QED BY <1>3, <1>5, <1>6, <2>2, BlankIs DEF Textual
<1>8. CASE ~(k = e /\ v = e) /\ (Params!Malformed(k) \/ Params!Malformed(v))
  <2>1. q = [p EXCEPT !.state = "thrown"]
    BY <1>1, <1>3, <1>8 DEF Params!EndPair
  <2> QED BY <1>2, <2>1
<1>9. CASE ~(k = e /\ v = e) /\ ~(Params!Malformed(k) \/ Params!Malformed(v))
  <2>1. PICK x, y : x = Params!decode_url(k) /\ y = Params!decode_url(v)
    OBVIOUS
  <2>2. x \in Strings /\ y \in Strings /\ (k # <<>> => x # <<>>) /\ (v # <<>> => y # <<>>)
    BY <1>9, <2>1, DecodeInRange DEF Strings
  <2>3. y \in Told(x)
    BY <1>3, <1>9, <2>2 DEF Told
  <2>4. PICK p0 : p0 = [p EXCEPT !.key = e, !.value = e, !.on = "key"]
    OBVIOUS
  <2>5. p0 = r
    <3>1. p = [key |-> a, value |-> b, on |-> o, dict |-> d, list |-> l, state |-> "reading"]
      BY <1>2
    <3>2. p0 = [key |-> e, value |-> e, on |-> "key", dict |-> d, list |-> l, state |-> "reading"]
      BY <2>4, <3>1
    <3> QED BY <1>4, <3>2
  <2>6. q = Params!Store(r, x, y)
    BY <1>1, <1>3, <1>9, <2>1, <2>4, <2>5 DEF Params!EndPair
  <2>7. Stored(q)
    BY <1>5, <1>6, <2>2, <2>3, <2>6, StoreStored
  <2>8. IsReading(q) /\ q.key = r.key /\ q.value = r.value /\ q.on = r.on
    BY <1>5, <1>6, <2>6, StoreAppends DEF Stored
  <2> QED BY <1>3, <1>5, <2>7, <2>8, BlankIs DEF Textual
<1> QED BY <1>7, <1>8, <1>9

LEMMA StepTextual ==
    ASSUME NEW p, Textual(p), NEW c \in Bytes, NEW q, q = Params!Step(p, c)
    PROVE  q.state = "thrown" \/ Textual(q)
<1>1. PICK a, b, o, d, l : p = [key |-> a, value |-> b, on |-> o, dict |-> d, list |-> l, state |-> "reading"]
  BY DEF Textual, IsReading
<1>2. p.key = a /\ p.value = b /\ p.on = o /\ p.dict = d /\ p.list = l /\ a \in Strings /\ b \in Strings
  BY <1>1 DEF Textual
<1>3. \A x, y \in Strings : \A w, r : r = [key |-> x, value |-> y, on |-> w, dict |-> d, list |-> l, state |-> "reading"] => Textual(r)
  <2> TAKE x, y \in Strings
  <2> TAKE w, r
  <2> SUFFICES ASSUME r = [key |-> x, value |-> y, on |-> w, dict |-> d, list |-> l, state |-> "reading"] PROVE Textual(r)
    OBVIOUS
  <2>1. r.key = x /\ r.value = y /\ r.dict = p.dict /\ r.list = p.list /\ IsReading(r)
    BY <1>2 DEF IsReading
  <2>2. Stored(r)
    BY <2>1 DEF Textual, Stored, Apart, Tidy, Known, Params!Values
  <2> QED BY <2>1, <2>2 DEF Textual
<1>4. \A s \in Strings : Params!Pushed(s, c) \in Strings
  BY AppendProperties DEF Params!Pushed, Strings
<1>5. CASE c = Params!Equals
  <2>1. PICK w : w = IF o = "key" THEN "value" ELSE "key"
    OBVIOUS
  <2>2. q = [key |-> a, value |-> b, on |-> w, dict |-> d, list |-> l, state |-> "reading"]
    BY <1>1, <1>5, <2>1 DEF Params!Step
  <2> QED BY <1>2, <1>3, <2>2
<1>6. CASE c # Params!Equals /\ c = Delimiter
  BY <1>6, EndTextual DEF Params!Step
<1>7. CASE c # Params!Equals /\ c # Delimiter /\ o = "key"
  <2>1. PICK x \in Strings : x = Params!Pushed(a, c)
    BY <1>2, <1>4
  <2>2. q = [p EXCEPT !.key = Params!Pushed(@, c)]
    BY <1>2, <1>7 DEF Params!Step
  <2>3. q = [key |-> x, value |-> b, on |-> o, dict |-> d, list |-> l, state |-> "reading"]
    BY <1>1, <2>1, <2>2
  <2> QED BY <1>2, <1>3, <2>3
<1>8. CASE c # Params!Equals /\ c # Delimiter /\ o # "key"
  <2>1. PICK y \in Strings : y = Params!Pushed(b, c)
    BY <1>2, <1>4
  <2>2. q = [p EXCEPT !.value = Params!Pushed(@, c)]
    BY <1>2, <1>8 DEF Params!Step
  <2>3. q = [key |-> a, value |-> y, on |-> o, dict |-> d, list |-> l, state |-> "reading"]
    BY <1>1, <2>1, <2>2
  <2> QED BY <1>2, <1>3, <2>3
<1> QED BY <1>5, <1>6, <1>7, <1>8

(* The keys of a result, each once.                                        *)
LEMMA KeysInSeq ==
    ASSUME NEW S, IsFiniteSet(S), NEW ks, ks = Params!SetToSeq(S)
    PROVE  ks \in Seq(S) /\ Once(ks) /\ \A x : In(x, ks) <=> x \in S
<1>1. PICK n \in Nat : n = Cardinality(S) /\ ExistsBijection(1..n, S)
  BY FS_CardinalityType
<1>2. PICK f : f \in Bijection(1..n, S)
  BY <1>1 DEF ExistsBijection
<1>3. f \in [1..n -> S] /\ \A i, j \in 1..n : f[i] = f[j] => i = j
  BY <1>2 DEF Bijection, Injection, IsInjective
<1>4. Params!Cardinality(S) = n
  BY <1>1, SameCounts, Cardinalities
<1>5. \E g \in [1..n -> S] : Params!IsInjective(g)
  <2>1. Params!IsInjective(f)
    BY <1>3 DEF Params!IsInjective
  <2> QED BY <1>3, <2>1
<1>6. ks = CHOOSE g \in [1..n -> S] : Params!IsInjective(g)
  BY <1>4 DEF Params!SetToSeq
<1>7. ks \in [1..n -> S] /\ Params!IsInjective(ks)
  BY <1>5, <1>6
<1>8. Once(ks)
  BY <1>7 DEF Once, Params!IsInjective
<1>9. ks \in Seq(S)
  BY <1>1, <1>7
<1>10. ks \in Surjection(1..n, S)
  <2>1. ks \in Injection(1..n, S)
    BY <1>7, <1>8 DEF Once, Injection, IsInjective
  <2>2. Cardinality(1..n) = n
    <3>1. 1 \in Int /\ n \in Int /\ (IF 1 > n THEN 0 ELSE n - 1 + 1) = n
      BY <1>1
    <3> QED BY <3>1, FS_Interval
  <2> QED BY <1>1, <2>1, <2>2, FS_Injection
<1>11. \A x \in S : In(x, ks)
  BY <1>7, <1>10 DEF Surjection, In
<1>12. \A x : In(x, ks) => x \in S
  BY <1>7 DEF In
<1> QED BY <1>8, <1>9, <1>11, <1>12

LEMMA PrintedAgain ==
    ASSUME NEW got, Stored(got)
    PROVE  LET again == Params!parse_params(Params!Printed(got))
           IN again.state # "thrown" /\ again.dict = got.dict /\ again.list = got.list
<1>1. PICK ks : ks = Params!SetToSeq(Known(got))
  OBVIOUS
<1>2. ks \in Seq(Known(got)) /\ Once(ks) /\ \A x : In(x, ks) <=> x \in Known(got)
  BY <1>1, KeysInSeq DEF Stored
<1>3. PICK s : s = Params!Printed(got) /\ s = KeysOf(ks, got)
  BY <1>1, PrintedIs
<1>4. PICK p : /\ After(s) = p /\ Blank(p) /\ Stored(p)
               /\ \A x : Params!Values(p, x) = IF In(x, ks) THEN Params!Values(got, x) ELSE <<>>
  BY <1>2, <1>3, KeysPrinted DEF KeysRead
<1>5. \A x : Params!Values(p, x) = Params!Values(got, x)
  BY <1>2, <1>4, ValuesAre DEF Stored
<1>6. p.dict = got.dict /\ p.list = got.list
  BY <1>4, <1>5, SameResult
<1>7. PICK e : e = <<>> /\ Params!TrimRight(e) = e
  <2>1. <<>> \in Strings
    BY PlainTexts
  <2>2. Params!encode_url(<<>>) = <<>> /\ Params!TrimRight(Params!encode_url(<<>>)) = Params!encode_url(<<>>)
    BY <2>1, EncodeEmpty, EncodedText
  <2> QED BY <2>2
<1>8. PICK d, l : p = [key |-> e, value |-> e, on |-> "key", dict |-> d, list |-> l, state |-> "reading"]
  BY <1>4, <1>7 DEF Blank, Reading
<1>9. p.key = e /\ p.value = e /\ p.state # "thrown" /\ p.dict = d /\ p.list = l
  BY <1>8
<1>10. PICK q : q = Params!EndPair(p)
  OBVIOUS
<1>11. q = [p EXCEPT !.key = e, !.value = e, !.on = "key"]
  BY <1>7, <1>9, <1>10 DEF Params!EndPair
<1>12. q.state # "thrown" /\ q.dict = d /\ q.list = l
  BY <1>8, <1>11
<1>13. Params!parse_params(s) = q
  BY <1>4, <1>9, <1>10, ParseIs DEF Params!Finish
<1> QED BY <1>3, <1>6, <1>9, <1>12, <1>13

LEMMA AgainTheSame ==
    ASSUME parser.state = "thrown" \/ Textual(parser)
    PROVE  Params!PrintedIsParsedAgain
<1>1. PICK got : got = Params!Result
  OBVIOUS
<1>2. CASE parser.state = "thrown"
  BY <1>2 DEF Params!PrintedIsParsedAgain, Params!Result
<1>3. CASE parser.state # "thrown"
  <2>1. got = Params!EndPair(parser)
    BY <1>1, <1>3 DEF Params!Result, Params!Finish
  <2>2. got.state = "thrown" \/ Stored(got)
    BY <1>3, <2>1, EndTextual DEF Textual
  <2> QED BY <1>1, <2>2, PrintedAgain DEF Params!PrintedIsParsedAgain
<1> QED BY <1>2, <1>3

(* Whatever text a client sends: each pair of it is stored once, and what  *)
(* was stored, printed with encode_url and parsed again, is the same.      *)
THEOREM NoParamIsLost == Params!Spec => []ParamsKept
<1> DEFINE Inv == parser.state = "thrown" \/ Textual(parser)
<1>1. Params!Init => Inv
  <2> SUFFICES ASSUME Params!Init PROVE Textual(parser)
    OBVIOUS
  <2>1. parser = Params!Start
    BY DEF Params!Init
  <2>2. <<>> \in Strings
    BY PlainTexts
  <2> QED BY <2>1, <2>2, StartStored, BlankIs DEF Textual
<1>2. Inv /\ [Params!Next]_Params!vars => Inv'
  <2> SUFFICES ASSUME Inv, [Params!Next]_Params!vars PROVE Inv'
    OBVIOUS
  <2>1. ASSUME NEW c \in Alphabet, Params!Read(c) PROVE Inv'
    <3>1. Textual(parser) /\ c \in Bytes /\ parser' = Params!Step(parser, c)
      BY <2>1, ParamsAssumption DEF Params!Read, Bytes
    <3>2. PICK p, q : p = parser /\ q = parser'
      OBVIOUS
    <3>3. q.state = "thrown" \/ Textual(q)
      BY <3>1, <3>2, StepTextual
    <3>4. (Textual(parser))' <=> Textual(parser')
      BY DEF Textual, IsReading, Stored, Apart, Tidy, Known, Params!Values, Told
    <3> QED BY <3>2, <3>3
  <2>2. CASE UNCHANGED Params!vars
    BY <2>2 DEF Params!vars
  <2> QED BY <2>1, <2>2 DEF Params!Next
<1>3. Inv => Params!PrintedIsParsedAgain
  BY AgainTheSame
<1>4. Params!EveryPairOnce /\ Params!PrintedIsParsedAgain => ParamsKept
  BY DEF ParamsKept, Params!ParamsKept
<1> QED BY <1>1, <1>2, <1>3, <1>4, PairsAreKept, PTL DEF Params!Spec
=============================================================================
