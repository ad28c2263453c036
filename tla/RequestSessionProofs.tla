------------------------- MODULE RequestSessionProofs -------------------------
(***************************************************************************)
(* The sessions of clients, for any number of clients, requests, keys and  *)
(* requests in flight.  A new key is one that nobody has seen, so a key    *)
(* somebody has, in a jar, a request or a response, either leads nowhere   *)
(* or was told to that client (Owned).  A client that waits for its        *)
(* responses has the key of its last session in its jar.                   *)
(***************************************************************************)
EXTENDS RequestSession, FiniteSetTheorems, TLAPS

(* What the store keeps to.                                                *)
StoreOK == /\ made \in 0..MaxObjects /\ now \in Nat
           /\ DOMAIN live \subseteq Keys
           /\ live \in [DOMAIN live -> [obj : Objects, until : Nat]]
           /\ \A k \in DOMAIN live : live[k].obj <= made
           /\ \A j, k \in DOMAIN live : live[j].obj = live[k].obj => j = k

Owned(k, c) == k \in DOMAIN live => owner[live[k].obj] = c

Active(r) == pc[r] \notin {"new", "done"}

Begun(r) ==
    /\ pc[r] = "new" => sess[r] = NoObject /\ told[r] = EmptyKey /\ sent[r] = <<>> /\ tried[r] = 0
    /\ pc[r] # "new" => who[r] \in Clients
    /\ pc[r] \in {"lookup", "refused"} => told[r] = EmptyKey

(* What a request has seen is its client's, or leads nowhere.              *)
Private(r) ==
    /\ \A i \in 1..Len(sent[r]) : Owned(sent[r][i], who[r])
    /\ Owned(told[r], who[r])
    /\ sess[r] # NoObject => sess[r] \in 1..made /\ owner[sess[r]] = who[r]

(* Who missed once misses again.                                           *)
Missed(r) == pc[r] = "lookup" => \A i \in 1..tried[r] : sent[r][i] \notin DOMAIN live

(* The only request of its client: the jar is as it was sent, and with the *)
(* response it will have the key of the session.                           *)
Alone(r) ==
    inFlight = 1 =>
        /\ pc[r] = "lookup" => sent[r] = Cookies(jar[who[r]])
        /\ pc[r] \in {"handler", "answered"} =>
              \A k \in DOMAIN live : live[k].obj = sess[r] =>
                  k = IF told[r] = EmptyKey THEN jar[who[r]].root ELSE told[r]

RInv(r) == Begun(r) /\ Private(r) /\ Missed(r) /\ Alone(r)

CInv(c) == /\ jar[c].other \notin DOMAIN live
           /\ Owned(jar[c].root, c)
           /\ last[c] # NoObject => last[c] \in 1..made
           /\ inFlight = 1 => \A k \in DOMAIN live : live[k].obj = last[c] => k = jar[c].root

OneEach == inFlight = 1 => \A r, q \in Requests :
                              Active(r) /\ Active(q) /\ who[r] = who[q] => r = q

IInv == /\ TypeOK /\ StoreOK /\ OneEach
        /\ \A r \in Requests : RInv(r)
        /\ \A c \in Clients : CInv(c)

-----------------------------------------------------------------------------
USE DEF storeVars, requestVars, clientVars

LEMMA CookiesOfJar ==
    ASSUME NEW j \in [other : Keys \cup {EmptyKey}, root : Keys \cup {EmptyKey}]
    PROVE  /\ Cookies(j) \in Seq(Keys) /\ Len(Cookies(j)) <= 2
           /\ \A i \in 1..Len(Cookies(j)) : Cookies(j)[i] \in {j.other, j.root} \ {EmptyKey}
           /\ j.root # EmptyKey =>
                 /\ Len(Cookies(j)) > 0 /\ Cookies(j)[Len(Cookies(j))] = j.root
                 /\ \A i \in 1..(Len(Cookies(j)) - 1) : Cookies(j)[i] = j.other
<1>1. CASE j.other = EmptyKey /\ j.root = EmptyKey
  <2>1. Cookies(j) = <<>>
    BY <1>1 DEF Cookies, Cookie
  <2> QED BY <1>1, <2>1
<1>2. CASE j.other = EmptyKey /\ j.root # EmptyKey
  <2>1. Cookies(j) = <<j.root>>
    BY <1>2 DEF Cookies, Cookie
  <2> QED BY <1>2, <2>1
<1>3. CASE j.other # EmptyKey /\ j.root = EmptyKey
  <2>1. Cookies(j) = <<j.other>>
    BY <1>3 DEF Cookies, Cookie
  <2> QED BY <1>3, <2>1
<1>4. CASE j.other # EmptyKey /\ j.root # EmptyKey
  <2>1. <<j.other>> \in Seq(Keys) /\ <<j.root>> \in Seq(Keys)
    BY <1>4
  <2>2. Cookies(j) = <<j.other>> \o <<j.root>>
    BY <1>4 DEF Cookies, Cookie
  <2>3. /\ Cookies(j) \in Seq(Keys) /\ Len(Cookies(j)) = 2
        /\ Cookies(j)[1] = j.other /\ Cookies(j)[2] = j.root
    BY <2>1, <2>2
  <2> QED BY <1>4, <2>2, <2>3
<1> QED BY <1>1, <1>2, <1>3, <1>4

(* The store visits, forgets or adds one session.                          *)
Shrinks == /\ made' = made
           /\ DOMAIN live' \subseteq DOMAIN live
           /\ \A k \in DOMAIN live' : live'[k].obj = live[k].obj

Grows(k) == /\ made' = made + 1 /\ made < MaxObjects
            /\ k \in Keys \ DOMAIN live
            /\ DOMAIN live' = DOMAIN live \cup {k}
            /\ live'[k].obj = made + 1
            /\ \A j \in DOMAIN live : live'[j].obj = live[j].obj

LEMMA ElapseShrinks == StoreOK /\ Elapse => StoreOK' /\ Shrinks
<1> SUFFICES ASSUME StoreOK, Elapse PROVE StoreOK' /\ Shrinks
  OBVIOUS
<1>1. /\ DOMAIN live' \subseteq DOMAIN live
      /\ \A k \in DOMAIN live' : live'[k] = live[k]
      /\ live' \in [DOMAIN live' -> [obj : Objects, until : Nat]]
      /\ made' = made /\ now' \in Nat
  BY DEF StoreOK, Elapse
<1> QED BY <1>1 DEF StoreOK, Shrinks

LEMMA FindShrinks ==
    ASSUME StoreOK, NEW key, Find(key)
    PROVE  StoreOK' /\ Shrinks /\ key \in DOMAIN live /\ ret'.obj = live[key].obj
<1>1. /\ DOMAIN live' = DOMAIN live /\ key \in DOMAIN live
      /\ \A k \in DOMAIN live : live'[k].obj = live[k].obj
      /\ live' \in [DOMAIN live' -> [obj : Objects, until : Nat]]
      /\ made' = made /\ now' = now /\ ret'.obj = live[key].obj
  BY TimeAssumption DEF StoreOK, Find, Result
<1> QED BY <1>1 DEF StoreOK, Shrinks

LEMMA NewGrows ==
    ASSUME StoreOK, NEW key, New(key)
    PROVE  /\ StoreOK' /\ Grows(ret'.key)
           /\ ret'.obj = made + 1 /\ key \notin DOMAIN live
<1>1. PICK k \in Keys \ DOMAIN live :
         /\ live' = [j \in DOMAIN live \cup {k} |->
                        IF j = k THEN [obj |-> made', until |-> now + Lifetime] ELSE live[j]]
         /\ ret' = Result(TRUE, k, made')
  BY DEF New
<1>2. made' = made + 1 /\ made < MaxObjects /\ made \in Nat /\ now' = now /\ key \notin DOMAIN live
  BY TimeAssumption DEF New, StoreOK
<1>3. /\ DOMAIN live' = DOMAIN live \cup {k} /\ live'[k].obj = made + 1
      /\ \A j \in DOMAIN live : live'[j] = live[j]
      /\ ret'.key = k /\ ret'.obj = made + 1
  BY <1>1, <1>2 DEF Result
<1>4. live' \in [DOMAIN live' -> [obj : Objects, until : Nat]]
  BY <1>1, <1>2, <1>3, TimeAssumption DEF StoreOK, Objects
<1>5. Grows(k)
  BY <1>1, <1>2, <1>3 DEF Grows
<1>6. \A j \in DOMAIN live : live[j].obj \in Nat /\ live[j].obj <= made
  BY DEF StoreOK, Objects
<1>7. \A j \in DOMAIN live' : live'[j].obj <= made' /\ (live'[j].obj = made' => j = k)
  BY <1>2, <1>3, <1>6
<1>8. \A i, j \in DOMAIN live' : live'[i].obj = live'[j].obj => i = j
  BY <1>2, <1>3, <1>7 DEF StoreOK
<1>9. made' \in 0..MaxObjects /\ now' \in Nat /\ DOMAIN live' \subseteq Keys
  BY <1>2, <1>3, TimeAssumption DEF StoreOK
<1>10. StoreOK'
  BY <1>4, <1>7, <1>8, <1>9 DEF StoreOK
<1> QED BY <1>2, <1>3, <1>5, <1>10

-----------------------------------------------------------------------------
(* Whatever the store does, a key in K leads where it led, or nowhere.     *)
Later(K) == /\ made \in Nat /\ made' \in Nat /\ made <= made'
            /\ \A o \in 1..made : owner'[o] = owner[o]
            /\ \A k \in DOMAIN live' : \/ k \in DOMAIN live /\ live'[k].obj = live[k].obj
                                       \/ k \notin K /\ live'[k].obj > made

LEMMA ShrinksIsLater ==
    ASSUME NEW K, StoreOK, Shrinks, owner' = owner
    PROVE  Later(K)
BY TimeAssumption DEF StoreOK, Shrinks, Later

LEMMA GrowsIsLater ==
    ASSUME NEW K, StoreOK, NEW k, Grows(k), k \notin K, \A o \in 1..made : owner'[o] = owner[o]
    PROVE  Later(K)
BY TimeAssumption DEF StoreOK, Grows, Later

(* What was known to be some client's is known to be so for good.          *)
LEMMA OwnedStays ==
    ASSUME NEW K, Later(K), StoreOK, NEW k \in K, NEW c, Owned(k, c)
    PROVE  Owned(k, c)'
<1> SUFFICES ASSUME k \in DOMAIN live' PROVE owner'[live'[k].obj] = c
  BY DEF Owned
<1>1. k \in DOMAIN live /\ live'[k].obj = live[k].obj
  BY DEF Later
<1>2. live[k].obj \in 1..made
  BY <1>1 DEF StoreOK, Objects
<1> QED BY <1>1, <1>2 DEF Owned, Later

(* A request and a client that a step does not concern.                    *)
LEMMA RequestFrame ==
    ASSUME NEW K, Later(K), TypeOK, StoreOK, NEW q \in Requests, RInv(q),
           told[q] \in K, \A i \in 1..Len(sent[q]) : sent[q][i] \in K,
           pc'[q] = pc[q], who'[q] = who[q], sent'[q] = sent[q], tried'[q] = tried[q],
           sess'[q] = sess[q], told'[q] = told[q], inFlight' = inFlight,
           inFlight = 1 /\ Active(q) => jar'[who[q]] = jar[who[q]]
    PROVE  RInv(q)'
<1>1. Begun(q)'
  BY DEF RInv, Begun
<1>2. Private(q)'
  <2>1. \A i \in 1..Len(sent[q]) : Owned(sent[q][i], who[q])'
    BY OwnedStays DEF RInv, Private
  <2>2. Owned(told[q], who[q])'
    BY OwnedStays DEF RInv, Private
  <2>3. sess[q] # NoObject => sess[q] \in 1..made' /\ owner'[sess[q]] = who[q]
    BY DEF RInv, Private, Later
  <2> QED BY <2>1, <2>2, <2>3 DEF Private, Owned
<1>3. Missed(q)'
  BY DEF RInv, Missed, Later, TypeOK
<1>4. Alone(q)'
  <2> SUFFICES ASSUME inFlight = 1 PROVE Alone(q)'
    BY DEF Alone
  <2>1. pc[q] = "lookup" => sent[q] = Cookies(jar'[who[q]])
    BY DEF RInv, Alone, Active
  <2>2. ASSUME pc[q] \in {"handler", "answered"}, NEW k \in DOMAIN live', live'[k].obj = sess[q]
        PROVE  k = IF told[q] = EmptyKey THEN jar'[who[q]].root ELSE told[q]
    <3>1. sess[q] \in 1..made
      BY <2>2 DEF RInv, Private, TypeOK
    <3>2. k \in DOMAIN live /\ live[k].obj = sess[q]
      BY <2>2, <3>1 DEF Later
    <3> QED BY <2>2, <3>2 DEF RInv, Alone, Active
  <2> QED BY <2>1, <2>2 DEF Alone
<1> QED BY <1>1, <1>2, <1>3, <1>4 DEF RInv

LEMMA ClientFrame ==
    ASSUME NEW K, Later(K), TypeOK, StoreOK, StoreOK', NEW c \in Clients, CInv(c),
           jar[c].other \in K, jar[c].root \in K,
           jar'[c] = jar[c], last'[c] = last[c], inFlight' = inFlight
    PROVE  CInv(c)'
<1>1. jar[c].other \notin DOMAIN live'
  BY DEF CInv, Later
<1>2. Owned(jar[c].root, c)'
  BY OwnedStays DEF CInv
<1>3. last[c] # NoObject => last[c] \in 1..made'
  BY DEF CInv, Later
<1>4. ASSUME inFlight = 1, NEW k \in DOMAIN live', live'[k].obj = last[c]
      PROVE  k = jar[c].root
  <2>1. live'[k].obj \in Nat
    BY DEF StoreOK, Objects
  <2>2. last[c] \in 1..made
    BY <1>4, <2>1, ObjectAssumption DEF CInv
  <2>3. k \in DOMAIN live /\ live[k].obj = last[c]
    BY <1>4, <2>2 DEF Later
  <2> QED BY <1>4, <2>3 DEF CInv
<1> QED BY <1>1, <1>2, <1>3, <1>4 DEF CInv, Owned

LEMMA OneEachStays ==
    ASSUME OneEach, inFlight' = inFlight, who' = who,
           \A q \in Requests : Active(q)' => Active(q)
    PROVE  OneEach'
BY DEF OneEach

LEMMA Initially == Init => IInv
<1> SUFFICES ASSUME Init PROVE IInv
  OBVIOUS
<1>1. TypeOK
  BY TimeAssumption DEF Init, StoreInit, TypeOK, NoClient, Objects
<1>2. StoreOK
  BY TimeAssumption DEF Init, StoreInit, StoreOK
<1>3. ASSUME NEW r \in Requests PROVE RInv(r)
  BY DEF Init, StoreInit, RInv, Begun, Private, Missed, Alone, Owned
<1>4. ASSUME NEW c \in Clients PROVE CInv(c)
  BY DEF Init, StoreInit, CInv, Owned
<1>5. OneEach
  BY DEF Init, OneEach, Active
<1> QED BY <1>1, <1>2, <1>3, <1>4, <1>5 DEF IInv

(* Time passes: sessions go.                                               *)
LEMMA TimePassesKeeps == IInv /\ TimePasses => IInv'
<1> SUFFICES ASSUME IInv, TimePasses PROVE IInv'
  OBVIOUS
<1>1. StoreOK' /\ Shrinks
  BY ElapseShrinks DEF IInv, TimePasses
<1>2. UNCHANGED <<requestVars, clientVars>>
  BY DEF TimePasses
<1>3. TypeOK'
  BY <1>1, <1>2 DEF IInv, TypeOK, Shrinks
<1>4. ASSUME NEW r \in Requests PROVE RInv(r)'
  <2> DEFINE K == {told[r]} \cup {sent[r][i] : i \in 1..Len(sent[r])}
  <2>1. Later(K)
    BY <1>1, <1>2, ShrinksIsLater DEF IInv
  <2> QED BY <1>2, <2>1, RequestFrame DEF IInv
<1>5. ASSUME NEW c \in Clients PROVE CInv(c)'
  <2> DEFINE K == {jar[c].other, jar[c].root}
  <2>1. Later(K)
    BY <1>1, <1>2, ShrinksIsLater DEF IInv
  <2> QED BY <1>1, <1>2, <2>1, ClientFrame DEF IInv
<1>6. OneEach'
  BY <1>2, OneEachStays DEF IInv, Active
<1> QED BY <1>1, <1>3, <1>4, <1>5, <1>6 DEF IInv

-----------------------------------------------------------------------------
(* The steps of one request that leave its client alone.                   *)
Same(q) == /\ pc'[q] = pc[q] /\ who'[q] = who[q] /\ sent'[q] = sent[q]
           /\ tried'[q] = tried[q] /\ sess'[q] = sess[q] /\ told'[q] = told[q]

LEMMA SeenIsKnown ==
    ASSUME TypeOK
    PROVE  /\ \A q \in Requests : /\ told[q] \in Known
                                  /\ \A i \in 1..Len(sent[q]) : sent[q][i] \in Known
           /\ \A c \in Clients : jar[c].other \in Known /\ jar[c].root \in Known
<1>1. ASSUME NEW q \in Requests, NEW i \in 1..Len(sent[q]) PROVE sent[q][i] \in Known
  <2>1. sent[q] \in Seq(Keys)
    BY DEF TypeOK
  <2>2. i \in DOMAIN sent[q]
    BY <2>1
  <2>3. sent[q][i] \in {sent[q][j] : j \in DOMAIN sent[q]}
    BY <2>2
  <2>4. sent[q][i] \in UNION {{sent[p][j] : j \in DOMAIN sent[p]} : p \in Requests}
    BY <2>3
  <2> QED BY <2>4 DEF Known
<1>2. \A q \in Requests : told[q] \in Known
  BY DEF Known
<1>3. ASSUME NEW c \in Clients PROVE jar[c].other \in Known /\ jar[c].root \in Known
  <2>1. jar[c].other \in {jar[d].other : d \in Clients} /\ jar[c].root \in {jar[d].root : d \in Clients}
    OBVIOUS
  <2>2. jar[c].other \in Known
    BY <2>1 DEF Known
  <2>3. jar[c].root \in Known
    BY <2>1 DEF Known
  <2> QED BY <2>2, <2>3
<1> QED BY <1>1, <1>2, <1>3

LEMMA OthersStay ==
    ASSUME IInv, NEW r \in Requests, Later(Known), TypeOK',
           inFlight' = inFlight, jar' = jar,
           \A q \in Requests \ {r} : Same(q)
    PROVE  \A q \in Requests \ {r} : RInv(q)'
<1> TAKE q \in Requests \ {r}
<1>1. TypeOK /\ StoreOK /\ RInv(q)
  BY DEF IInv
<1>2. told[q] \in Known /\ \A i \in 1..Len(sent[q]) : sent[q][i] \in Known
  BY <1>1, SeenIsKnown
<1> QED BY <1>1, <1>2, RequestFrame DEF Same

LEMMA ClientsStay ==
    ASSUME IInv, Later(Known), StoreOK', UNCHANGED <<inFlight, jar, last>>
    PROVE  \A c \in Clients : CInv(c)'
<1> TAKE c \in Clients
<1>1. TypeOK /\ StoreOK /\ CInv(c)
  BY DEF IInv
<1>2. jar[c].other \in Known /\ jar[c].root \in Known
  BY <1>1, SeenIsKnown
<1> QED BY <1>1, <1>2, ClientFrame

LEMMA StepOfOne ==
    ASSUME IInv, NEW r \in Requests, Later(Known), TypeOK', StoreOK',
           UNCHANGED <<inFlight, jar, last, who>>,
           \A q \in Requests \ {r} : Same(q),
           Active(r), RInv(r)'
    PROVE  IInv'
<1>1. \A q \in Requests : RInv(q)'
  BY OthersStay
<1>2. \A c \in Clients : CInv(c)'
  BY ClientsStay
<1>3. OneEach'
  <2>1. \A q \in Requests : Active(q)' => Active(q)
    BY DEF Active, Same
  <2> QED BY <2>1, OneEachStays DEF IInv
<1> QED BY <1>1, <1>2, <1>3 DEF IInv

(* The store is not touched.                                               *)
LEMMA StoreStays ==
    ASSUME StoreOK, UNCHANGED storeVars, owner' = owner
    PROVE  StoreOK' /\ Later(Known)
<1>1. StoreOK'
  BY DEF StoreOK
<1>2. Shrinks
  BY DEF Shrinks
<1> QED BY <1>1, <1>2, ShrinksIsLater

-----------------------------------------------------------------------------
(* A cookie leads to a session: with one request in flight, it is the      *)
(* client's own, the other one leads nowhere.                              *)
LEMMA FindsKeeps ==
    ASSUME IInv, NEW r \in Requests, pc[r] = "lookup",
           NEW i \in 1..Len(sent[r]), Find(sent[r][i]), Enter(r),
           UNCHANGED <<who, sent, tried, told, clientVars>>
    PROVE  IInv'
<1> DEFINE key == sent[r][i]
<1>0. TypeOK /\ StoreOK /\ RInv(r) /\ who[r] \in Clients
  BY DEF IInv, RInv, Begun
<1>1. StoreOK' /\ Shrinks /\ key \in DOMAIN live /\ ret'.obj = live[key].obj
  BY <1>0, FindShrinks
<1>2. Later(Known)
  BY <1>0, <1>1, ShrinksIsLater
<1>3. /\ pc' = [pc EXCEPT ![r] = "handler"]
      /\ sess' = [sess EXCEPT ![r] = live[key].obj]
  BY <1>1 DEF Enter
<1>4. live[key].obj \in Objects /\ live[key].obj \in 1..made /\ owner[live[key].obj] = who[r]
  BY <1>0, <1>1 DEF StoreOK, Objects, RInv, Private, Owned
<1>5. live[key].obj # NoObject /\ made' = made
  BY <1>1, <1>4, ObjectAssumption DEF Objects, Shrinks
<1>6. TypeOK'
  BY <1>0, <1>3, <1>4, <1>5 DEF TypeOK
<1>7. RInv(r)'
  <2>1. Begun(r)'
    BY <1>0, <1>3 DEF TypeOK, RInv, Begun
  <2>2. Private(r)'
    <3>1. \A k \in Known, c \in Clients : Owned(k, c) => Owned(k, c)'
      BY <1>0, <1>2, OwnedStays
    <3>2. told[r] \in Known /\ \A j \in 1..Len(sent[r]) : sent[r][j] \in Known
      BY <1>0, SeenIsKnown
    <3>3. Private(r)
      BY <1>0 DEF RInv
    <3>4. \A j \in 1..Len(sent[r]) : Owned(sent[r][j], who[r])'
      BY <1>0, <3>1, <3>2, <3>3 DEF Private
    <3>5. Owned(told[r], who[r])'
      BY <1>0, <3>1, <3>2, <3>3 DEF Private
    <3>6. sess'[r] \in 1..made' /\ owner'[sess'[r]] = who'[r]
      BY <1>0, <1>3, <1>4, <1>5 DEF TypeOK
    <3> QED BY <3>4, <3>5, <3>6 DEF Private, Owned
  <2>3. Missed(r)'
    BY <1>0, <1>3 DEF TypeOK, Missed
  <2>4. ASSUME inFlight = 1, NEW k \in DOMAIN live', live'[k].obj = live[key].obj
        PROVE  k = jar[who[r]].root
    <3>1. k = key
      BY <1>0, <1>1, <2>4 DEF Shrinks, StoreOK
    <3>2. sent[r] = Cookies(jar[who[r]])
      BY <1>0, <2>4 DEF RInv, Alone
    <3>3. key \in {jar[who[r]].other, jar[who[r]].root}
      BY <1>0, <3>2, CookiesOfJar DEF TypeOK
    <3>4. jar[who[r]].other \notin DOMAIN live
      BY <1>0 DEF IInv, CInv
    <3> QED BY <1>1, <3>1, <3>3, <3>4
  <2>5. Alone(r)'
    BY <1>0, <1>3, <2>4 DEF TypeOK, RInv, Begun, Alone
  <2> QED BY <2>1, <2>2, <2>3, <2>5 DEF RInv
<1>8. \A q \in Requests \ {r} : Same(q)
  BY <1>0, <1>3 DEF TypeOK, Same
<1> QED BY <1>1, <1>2, <1>6, <1>7, <1>8, StepOfOne DEF Active

LEMMA TryFindsKeeps == ASSUME IInv, NEW r \in Requests, TryFinds(r) PROVE IInv'
<1>1. tried[r] + 1 \in 1..Len(sent[r])
  BY DEF IInv, TypeOK, TryFinds, Trying
<1> QED BY <1>1, FindsKeeps DEF TryFinds, Trying

LEMMA OpensKeeps == ASSUME IInv, NEW r \in Requests, Opens(r) PROVE IInv'
<1>1. Asked(r) \in DOMAIN live
  BY DEF Opens, Find
<1>2. Asked(r) # EmptyKey
  BY <1>1, KeyAssumption DEF IInv, StoreOK
<1>3. Len(sent[r]) = 1 /\ Asked(r) = sent[r][1]
  BY <1>2 DEF IInv, TypeOK, Asked
<1>4. 1 \in 1..Len(sent[r])
  BY <1>3
<1> QED BY <1>3, <1>4, FindsKeeps DEF Opens, Asking

(* A cookie that leads nowhere will not lead anywhere later.               *)
LEMMA TryMissesKeeps == ASSUME IInv, NEW r \in Requests, TryMisses(r) PROVE IInv'
<1>0. TypeOK /\ StoreOK /\ RInv(r) /\ pc[r] = "lookup" /\ tried[r] < Len(sent[r])
  BY DEF IInv, TryMisses, Trying
<1>1. /\ tried' = [tried EXCEPT ![r] = tried[r] + 1]
      /\ sent[r][tried[r] + 1] \notin DOMAIN live
      /\ UNCHANGED <<now, live, made, pc, who, sent, sess, told, inFlight, jar, last, owner>>
  BY DEF TryMisses, Miss
<1>2. StoreOK' /\ Shrinks
  BY <1>0, <1>1 DEF StoreOK, Shrinks
<1>3. Later(Known)
  BY <1>0, <1>1, <1>2, ShrinksIsLater
<1>4. tried'[r] = tried[r] + 1 /\ tried[r] \in Nat /\ Len(sent[r]) \in Nat
  BY <1>0, <1>1 DEF TypeOK
<1>5. TypeOK'
  BY <1>0, <1>1, <1>4 DEF TypeOK
<1>6. RInv(r)'
  <2>1. Begun(r)' /\ Private(r)' /\ Alone(r)'
    BY <1>0, <1>1 DEF RInv, Begun, Private, Alone, Owned
  <2>2. Missed(r)'
    BY <1>0, <1>1, <1>4 DEF RInv, Missed
  <2> QED BY <2>1, <2>2 DEF RInv
<1>7. \A q \in Requests \ {r} : Same(q)
  BY <1>0, <1>1 DEF TypeOK, Same
<1> QED BY <1>0, <1>1, <1>2, <1>3, <1>5, <1>6, <1>7, StepOfOne DEF Active

(* A new session has a key that nobody knows, and its client will be told. *)
LEMMA CreatesKeeps == ASSUME IInv, NEW r \in Requests, Creates(r) PROVE IInv'
<1> DEFINE k == ret'.key
<1>0. TypeOK /\ StoreOK /\ RInv(r) /\ who[r] \in Clients /\ pc[r] = "lookup"
  BY DEF IInv, RInv, Begun, Creates, Asking
<1>1. StoreOK' /\ Grows(k) /\ ret'.obj = made + 1
  BY <1>0, NewGrows DEF Creates
<1>2. /\ pc' = [pc EXCEPT ![r] = "handler"] /\ sess' = [sess EXCEPT ![r] = made + 1]
      /\ told' = [told EXCEPT ![r] = k]
      /\ UNCHANGED <<inFlight, who, sent, tried, jar, last>>
  BY <1>1 DEF Creates, Enter
<1>3. made' = made + 1 /\ made + 1 \in Objects /\ made \in Nat /\ k \in Keys /\ k \notin Known
  BY <1>0, <1>1, TimeAssumption DEF Grows, StoreOK, Objects, Creates, Unseen
<1>4. /\ owner' \in [1..made' -> Clients] /\ owner'[made + 1] = who[r]
      /\ \A o \in 1..made : owner'[o] = owner[o]
  <2>1. owner' = [o \in (1..made) \cup {made'} |-> IF o = made' THEN who[r] ELSE owner[o]]
    BY <1>0 DEF TypeOK, Creates
  <2>2. (1..made) \cup {made'} = 1..made'
    BY <1>3
  <2> QED BY <1>0, <1>3, <2>1, <2>2 DEF TypeOK
<1>5. Later(Known)
  BY <1>0, <1>1, <1>3, <1>4, GrowsIsLater
<1>6. TypeOK'
  <2>1. made + 1 # NoObject
    BY <1>3, ObjectAssumption
  <2> QED BY <1>0, <1>2, <1>3, <1>4, <2>1 DEF TypeOK
<1>7. RInv(r)'
  <2>1. Begun(r)'
    BY <1>0, <1>2 DEF TypeOK, RInv, Begun
  <2>2. \A j \in 1..Len(sent[r]) : Owned(sent[r][j], who[r])'
    <3>1. \A j \in 1..Len(sent[r]) : sent[r][j] \in Known
      BY <1>0, SeenIsKnown
    <3>2. \A j \in 1..Len(sent[r]) : Owned(sent[r][j], who[r])
      BY <1>0 DEF RInv, Private
    <3>3. \A key \in Known, c \in Clients : Owned(key, c) => Owned(key, c)'
      BY <1>0, <1>5, OwnedStays
    <3> QED BY <1>0, <1>2, <3>1, <3>2, <3>3
  <2>3. told'[r] = k /\ sess'[r] = made + 1 /\ live'[k].obj = made + 1
    BY <1>0, <1>1, <1>2 DEF TypeOK, Grows
  <2>4. Private(r)'
    BY <1>2, <1>3, <1>4, <2>2, <2>3 DEF Private, Owned
  <2>5. Missed(r)'
    BY <1>0, <1>2 DEF TypeOK, Missed
  <2>6. \A j \in DOMAIN live' : live'[j].obj = made + 1 => j = k
    BY <1>1, <2>3 DEF StoreOK, Grows
  <2>7. Alone(r)'
    BY <1>0, <1>2, <1>3, <2>3, <2>6, KeyAssumption DEF TypeOK, Alone
  <2> QED BY <2>1, <2>4, <2>5, <2>7 DEF RInv
<1>8. \A q \in Requests \ {r} : Same(q)
  BY <1>0, <1>2 DEF TypeOK, Same
<1> QED BY <1>0, <1>1, <1>2, <1>5, <1>6, <1>7, <1>8, StepOfOne DEF Active

-----------------------------------------------------------------------------
(* The handler ends, or is never reached, or the response is lost: nothing *)
(* new is known.                                                           *)
LEMMA EndsKeeps ==
    ASSUME IInv, NEW r \in Requests,
           \/ CookieFails(r) \/ Returns(r) \/ Throws(r) \/ Upgraded(r) \/ Lost(r)
    PROVE  IInv'
<1>0. TypeOK /\ StoreOK /\ RInv(r) /\ pc[r] \in {"lookup", "handler", "answered", "refused"} /\ who[r] \in Clients
  BY DEF IInv, RInv, Begun, CookieFails, Returns, Throws, Upgraded, Leaves, Lost
<1>1. PICK to \in {"answered", "refused", "done"} : pc' = [pc EXCEPT ![r] = to]
  BY DEF CookieFails, Returns, Throws, Upgraded, Leaves, Lost
<1>2. UNCHANGED <<storeVars, who, sent, tried, sess, clientVars>>
  BY DEF CookieFails, Returns, Throws, Upgraded, Leaves, Lost
<1>3. \/ told' = told /\ (to = "refused" => told[r] = EmptyKey)
                      /\ (to = "answered" => pc[r] = "handler")
      \/ told' = [told EXCEPT ![r] = EmptyKey] /\ to # "answered"
  BY <1>0, <1>1 DEF CookieFails, Returns, Throws, Upgraded, Leaves, Lost, TypeOK, RInv, Begun
<1>4. StoreOK' /\ Later(Known)
  BY <1>0, <1>2, StoreStays
<1>5. TypeOK'
  BY <1>0, <1>1, <1>2, <1>3 DEF TypeOK
<1>6. RInv(r)'
  <2>1. pc'[r] = to /\ (told'[r] = told[r] \/ told'[r] = EmptyKey) /\ EmptyKey \notin DOMAIN live
    BY <1>0, <1>1, <1>3, KeyAssumption DEF TypeOK, StoreOK
  <2>2. Begun(r)'
    BY <1>0, <1>2, <1>3, <2>1 DEF TypeOK, Begun
  <2>3. Private(r)'
    BY <1>0, <1>2, <2>1 DEF RInv, Private, Owned
  <2>4. Missed(r)'
    BY <2>1 DEF Missed
  <2>5. Alone(r)'
    BY <1>0, <1>2, <1>3, <2>1 DEF RInv, Alone
  <2> QED BY <2>2, <2>3, <2>4, <2>5 DEF RInv
<1>7. \A q \in Requests \ {r} : Same(q)
  BY <1>0, <1>1, <1>2, <1>3 DEF TypeOK, Same
<1> QED BY <1>0, <1>2, <1>4, <1>5, <1>6, <1>7, StepOfOne DEF Active

(* The client learns the key of its session.                               *)
LEMMA DeliveredKeeps == ASSUME IInv, NEW r \in Requests, Delivered(r) PROVE IInv'
<1> DEFINE c == who[r]
<1>0. TypeOK /\ StoreOK /\ RInv(r) /\ CInv(c) /\ pc[r] \in {"answered", "refused"} /\ c \in Clients
  BY DEF IInv, RInv, Begun, Delivered
<1>1. /\ pc' = [pc EXCEPT ![r] = "done"]
      /\ UNCHANGED <<storeVars, inFlight, who, sent, tried, sess, told, owner>>
  BY DEF Delivered
<1>2. /\ jar'[c].other = jar[c].other
      /\ jar'[c].root = IF told[r] = EmptyKey THEN jar[c].root ELSE told[r]
      /\ last'[c] = IF pc[r] = "answered" THEN sess[r] ELSE last[c]
      /\ \A d \in Clients \ {c} : jar'[d] = jar[d] /\ last'[d] = last[d]
  BY <1>0 DEF Delivered, TypeOK
<1>3. StoreOK' /\ Later(Known)
  BY <1>0, <1>1, StoreStays
<1>4. TypeOK'
  <2>1. jar' \in [Clients -> [other : Keys \cup {EmptyKey}, root : Keys \cup {EmptyKey}]]
    BY <1>0 DEF Delivered, TypeOK
  <2>2. last' \in [Clients -> Objects \cup {NoObject}]
    BY <1>0 DEF Delivered, TypeOK
  <2>3. pc' \in [Requests -> {"new", "lookup", "handler", "answered", "refused", "done"}]
    BY <1>0, <1>1 DEF TypeOK
  <2>4. \A q \in Requests : pc'[q] \in {"handler", "answered"} => sess'[q] # NoObject
    BY <1>0, <1>1 DEF TypeOK
  <2> QED BY <1>0, <1>1, <2>1, <2>2, <2>3, <2>4 DEF TypeOK
<1>5. ASSUME NEW q \in Requests PROVE RInv(q)'
  <2>1. CASE q = r
    BY <1>0, <1>1, <2>1 DEF TypeOK, RInv, Begun, Private, Missed, Alone, Owned
  <2>2. CASE q # r
    <3>1. pc'[q] = pc[q] /\ RInv(q) /\ (pc[q] # "new" => who[q] \in Clients)
      BY <1>0, <1>1, <2>2 DEF TypeOK, IInv, RInv, Begun
    <3>2. inFlight = 1 /\ Active(q) => jar'[who[q]] = jar[who[q]]
      BY <1>0, <1>2, <2>2, <3>1 DEF IInv, OneEach, Active
    <3>3. told[q] \in Known /\ \A i \in 1..Len(sent[q]) : sent[q][i] \in Known
      BY <1>0, SeenIsKnown
    <3> QED BY <1>0, <1>1, <1>3, <3>1, <3>2, <3>3, RequestFrame
  <2> QED BY <2>1, <2>2
<1>6. ASSUME NEW d \in Clients PROVE CInv(d)'
  <2>1. CASE d = c
    <3>1. Owned(jar'[c].root, c)
      BY <1>0, <1>2 DEF CInv, RInv, Private
    <3>2. last'[c] # NoObject => last'[c] \in 1..made'
      BY <1>0, <1>1, <1>2 DEF CInv, RInv, Private
    <3>3. ASSUME inFlight = 1, NEW k \in DOMAIN live, live[k].obj = last'[c]
          PROVE  k = jar'[c].root
      <4>1. CASE pc[r] = "answered"
        BY <1>0, <1>2, <3>3, <4>1 DEF RInv, Alone
      <4>2. CASE pc[r] = "refused"
        BY <1>0, <1>2, <3>3, <4>2 DEF RInv, Begun, CInv
      <4> QED BY <1>0, <4>1, <4>2
    <3> QED BY <1>0, <1>1, <1>2, <2>1, <3>1, <3>2, <3>3 DEF CInv, Owned
  <2>2. CASE d # c
    <3>1. CInv(d)
      BY DEF IInv
    <3>2. jar[d].other \in Known /\ jar[d].root \in Known
      BY <1>0, SeenIsKnown
    <3> QED BY <1>0, <1>1, <1>2, <1>3, <2>2, <3>1, <3>2, ClientFrame
  <2> QED BY <2>1, <2>2
<1>7. OneEach'
  BY <1>0, <1>1, OneEachStays DEF IInv, Active, TypeOK
<1> QED BY <1>3, <1>4, <1>5, <1>6, <1>7 DEF IInv

(* A client sends what it has in its jar.                                   *)
LEMMA RequestKeeps == ASSUME IInv, NEW r \in Requests, NEW c \in Clients, Request(r, c) PROVE IInv'
<1>0. TypeOK /\ StoreOK /\ RInv(r) /\ CInv(c) /\ pc[r] = "new"
  BY DEF IInv, Request
<1>1. /\ pc' = [pc EXCEPT ![r] = "lookup"] /\ who' = [who EXCEPT ![r] = c]
      /\ sent' = [sent EXCEPT ![r] = Cookies(jar[c])]
      /\ UNCHANGED <<storeVars, tried, sess, told, clientVars>>
  BY DEF Request
<1>2. StoreOK' /\ Later(Known)
  BY <1>0, <1>1, StoreStays
<1>3. /\ Cookies(jar[c]) \in Seq(Keys) /\ Len(Cookies(jar[c])) <= 2
      /\ \A i \in 1..Len(Cookies(jar[c])) : Cookies(jar[c])[i] \in {jar[c].other, jar[c].root}
  BY <1>0, CookiesOfJar DEF TypeOK
<1>4. told[r] = EmptyKey /\ sess[r] = NoObject /\ tried[r] = 0
  BY <1>0 DEF RInv, Begun
<1>5. TypeOK'
  BY <1>0, <1>1, <1>3, <1>4 DEF TypeOK
<1>6. \A q \in Requests \ {r} : Same(q)
  BY <1>0, <1>1 DEF TypeOK, Same
<1>7. RInv(r)'
  <2>1. pc'[r] = "lookup" /\ who'[r] = c /\ sent'[r] = Cookies(jar[c])
    BY <1>0, <1>1 DEF TypeOK
  <2>2. \A i \in 1..Len(sent'[r]) : Owned(sent'[r][i], c)
    BY <1>0, <1>3, <2>1 DEF CInv, Owned
  <2>3. EmptyKey \notin DOMAIN live
    BY <1>0, KeyAssumption DEF StoreOK
  <2> QED BY <1>1, <1>4, <2>1, <2>2, <2>3 DEF RInv, Begun, Private, Missed, Alone, Owned
<1>8. OneEach'
  <2> SUFFICES ASSUME inFlight = 1, NEW q \in Requests, q # r, Active(q), who[q] = c
               PROVE  FALSE
    BY <1>0, <1>1 DEF IInv, OneEach, Active, TypeOK
  <2>1. q \in Pending(c)
    BY DEF Pending, Active
  <2>2. IsFiniteSet(Pending(c))
    BY RequestAssumption, FS_Subset DEF Pending
  <2>3. Cardinality(Pending(c)) \in Nat /\ Cardinality(Pending(c)) < 1
    BY <2>2, FS_CardinalityType DEF Request
  <2>4. Cardinality(Pending(c)) = 0
    BY <2>3
  <2> QED BY <2>1, <2>2, <2>4, FS_EmptySet
<1>9. \A q \in Requests : RInv(q)'
  BY <1>1, <1>2, <1>5, <1>6, <1>7, OthersStay
<1>10. \A d \in Clients : CInv(d)'
  BY <1>1, <1>2, ClientsStay
<1> QED BY <1>2, <1>5, <1>8, <1>9, <1>10 DEF IInv

-----------------------------------------------------------------------------
LEMMA StepKeeps == IInv /\ [Next]_vars => IInv'
<1> SUFFICES ASSUME IInv, [Next]_vars PROVE IInv'
  OBVIOUS
<1>1. CASE TimePasses
  BY <1>1, TimePassesKeeps
<1>2. ASSUME NEW r \in Requests, NEW c \in Clients, Request(r, c) PROVE IInv'
  BY <1>2, RequestKeeps
<1>3. ASSUME NEW r \in Requests, TryFinds(r) PROVE IInv'
  BY <1>3, TryFindsKeeps
<1>4. ASSUME NEW r \in Requests, TryMisses(r) PROVE IInv'
  BY <1>4, TryMissesKeeps
<1>5. ASSUME NEW r \in Requests, Opens(r) PROVE IInv'
  BY <1>5, OpensKeeps
<1>6. ASSUME NEW r \in Requests, Creates(r) PROVE IInv'
  BY <1>6, CreatesKeeps
<1>7. ASSUME NEW r \in Requests, CookieFails(r) \/ Returns(r) \/ Throws(r) \/ Upgraded(r) \/ Lost(r) PROVE IInv'
  BY <1>7, EndsKeeps
<1>8. ASSUME NEW r \in Requests, Delivered(r) PROVE IInv'
  BY <1>8, DeliveredKeeps
<1>9. CASE UNCHANGED vars
  BY <1>9 DEF vars, IInv, TypeOK, StoreOK, OneEach, Active, RInv, Begun, Private, Missed, Alone,
              CInv, Owned
<1> QED BY <1>1, <1>2, <1>3, <1>4, <1>5, <1>6, <1>7, <1>8, <1>9 DEF Next

LEMMA Invariance == Spec => []IInv
BY Initially, StepKeeps, PTL DEF Spec

(* Whatever cookies the clients bring, two of the same name and invented   *)
(* ones included, no request gets the session of another client.           *)
THEOREM SessionsStayPrivate == Spec => []SessionsAreNotShared
<1>1. IInv => SessionsAreNotShared
  BY DEF IInv, RInv, Private, SessionsAreNotShared
<1> QED BY <1>1, Invariance, PTL

(* get_or_create makes a session only when none of the cookies of the      *)
(* request leads to one, tried one after the other while time passes and   *)
(* sessions of other requests are made.                                    *)
THEOREM SessionsAreNeeded == Spec => NoNeedlessSession
<1> DEFINE Needed(r) == told'[r] # told[r] /\ told'[r] # EmptyKey =>
                           \A i \in DOMAIN sent[r] : sent[r][i] \notin DOMAIN live
<1>1. ASSUME IInv, [Next]_vars, NEW r \in Requests PROVE Needed(r)
  <2>1. ASSUME NEW q \in Requests, Creates(q) PROVE Needed(r)
    <3> SUFFICES ASSUME told'[r] # told[r], NEW i \in DOMAIN sent[r]
                 PROVE  sent[r][i] \notin DOMAIN live
      OBVIOUS
    <3>1. q = r
      BY <1>1, <2>1 DEF IInv, TypeOK, Creates
    <3>2. sent[r] \in Seq(Keys) /\ tried[r] \in Nat /\ tried[r] <= Len(sent[r])
      BY <1>1 DEF IInv, TypeOK
    <3>3. i \in 1..Len(sent[r])
      BY <3>2
    <3>4. CASE Len(sent[r]) > 1
      <4>1. pc[r] = "lookup" /\ tried[r] = Len(sent[r])
        BY <2>1, <3>1, <3>2, <3>4 DEF Creates, Asking, Trying
      <4> QED BY <1>1, <3>3, <4>1 DEF IInv, RInv, Missed
    <3>5. CASE Len(sent[r]) = 1
      <4>1. Asked(r) = sent[r][i]
        BY <3>2, <3>3, <3>5 DEF Asked
      <4> QED BY <2>1, <3>1, <4>1 DEF Creates, New
    <3>6. Len(sent[r]) \in Nat /\ Len(sent[r]) >= 1
      BY <3>2, <3>3
    <3>7. Len(sent[r]) > 1 \/ Len(sent[r]) = 1
      <4>1. \A n \in Nat : n >= 1 => n > 1 \/ n = 1
        OBVIOUS
      <4> QED BY <3>6, <4>1
    <3> QED BY <3>4, <3>5, <3>7
  <2>2. CASE TimePasses \/ UNCHANGED vars
    BY <2>2 DEF TimePasses, vars
  <2>3. ASSUME NEW q \in Requests,
               \/ \E c \in Clients : Request(q, c)
               \/ CookieFails(q) \/ TryFinds(q) \/ TryMisses(q) \/ Opens(q)
               \/ Returns(q) \/ Delivered(q) \/ Lost(q)
        PROVE  Needed(r)
    BY <2>3 DEF Request, CookieFails, TryFinds, TryMisses, Opens, Returns, Delivered, Lost
  <2>4. ASSUME NEW q \in Requests, Throws(q) \/ Upgraded(q) PROVE Needed(r)
    BY <1>1, <2>4 DEF IInv, TypeOK, Throws, Upgraded
  <2> QED BY <1>1, <2>1, <2>2, <2>3, <2>4 DEF Next
<1>2. IInv /\ [Next]_vars => [\A r \in Requests : Needed(r)]_vars
  BY <1>1
<1> QED BY <1>2, Invariance, PTL DEF Spec, NoNeedlessSession

(* A client that waits for its responses stays in its session as long as   *)
(* that lives, whatever responses were refusals, got lost or went to a     *)
(* websocket: the key its jar has for / is the one that leads there.       *)
THEOREM ClientsKeepTheirSessions == Spec => []ClientKeepsSession
<1>1. ASSUME IInv, NEW c \in Clients, inFlight = 1, NEW k \in DOMAIN live, live[k].obj = last[c]
      PROVE  \E i \in DOMAIN Cookies(jar[c]) :
                Leads(c, i) /\ live[Cookies(jar[c])[i]].obj = last[c]
  <2> DEFINE n == Len(Cookies(jar[c]))
  <2>1. TypeOK /\ StoreOK /\ CInv(c)
    BY <1>1 DEF IInv
  <2>2. k = jar[c].root /\ k # EmptyKey
    BY <1>1, <2>1, KeyAssumption DEF CInv, StoreOK
  <2>3. /\ Cookies(jar[c]) \in Seq(Keys) /\ n > 0 /\ Cookies(jar[c])[n] = k
        /\ \A j \in 1..(n - 1) : Cookies(jar[c])[j] = jar[c].other
    BY <2>1, <2>2, CookiesOfJar DEF TypeOK
  <2>4. Leads(c, n)
    BY <1>1, <2>1, <2>3 DEF Leads, CInv
  <2>5. n \in DOMAIN Cookies(jar[c])
    BY <2>3
  <2> QED BY <1>1, <2>3, <2>4, <2>5
<1>2. IInv => ClientKeepsSession
  BY <1>1 DEF ClientKeepsSession
<1> QED BY <1>2, Invariance, PTL
=============================================================================
