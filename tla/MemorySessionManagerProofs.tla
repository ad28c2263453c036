--------------------- MODULE MemorySessionManagerProofs ---------------------
(***************************************************************************)
(* The containers of the session manager agree after every call, for any   *)
(* keys, integers, lifetime and clock.  The invariant is stated as a       *)
(* relation between five containers, so that it can be carried first over  *)
(* the removal of the expired sessions and then over the call itself.      *)
(***************************************************************************)
EXTENDS MemorySessionManager, TLAPS

Typed(s2i, i2s, ses, ex, q) ==
    /\ DOMAIN s2i \subseteq Keys /\ s2i \in [DOMAIN s2i -> IntKeys]
    /\ DOMAIN i2s \subseteq IntKeys /\ i2s \in [DOMAIN i2s -> Keys]
    /\ DOMAIN ses \subseteq IntKeys /\ ses \in [DOMAIN ses -> Objects]
    /\ DOMAIN ex \subseteq IntKeys /\ ex \in [DOMAIN ex -> Nat]
    /\ q \subseteq Nat \X IntKeys

Agree(s2i, i2s, ses, ex, q) ==
    /\ DOMAIN i2s = DOMAIN ses
    /\ DOMAIN ex = DOMAIN ses
    /\ q = {<<ex[i], i>> : i \in DOMAIN ex}
    /\ \A k \in DOMAIN s2i : s2i[k] \in DOMAIN i2s /\ i2s[s2i[k]] = k
    /\ \A i \in DOMAIN i2s : i2s[i] \in DOMAIN s2i /\ s2i[i2s[i]] = i
    /\ \A i, j \in DOMAIN ses : ses[i] = ses[j] => i = j

\* The objects in use were made before.
ObjectsMade(ses) == \A i \in DOMAIN ses : ses[i] <= made

Good(s2i, i2s, ses, ex, q) == /\ Typed(s2i, i2s, ses, ex, q)
                              /\ Agree(s2i, i2s, ses, ex, q)
                              /\ ObjectsMade(ses)

IInv == TypeOK /\ MapsAgree /\ ObjectsMade(sessions)

LEMMA IInvIsGood == IInv => Good(str_to_int, int_to_str, sessions, expiry, queue)
BY DEF IInv, TypeOK, MapsAgree, Good, Typed, Agree

-----------------------------------------------------------------------------
\* lower_bound of a member of the set finds that member and nothing else.
LEMMA LowerBoundIsExact ==
    ASSUME NEW s \in SUBSET (Nat \X Nat), NEW p \in s
    PROVE  EraseAtLowerBound(s, p) = s \ {p}
<1>1. ASSUME NEW q \in s
      PROVE  (AtMost(p, q) /\ \A r \in s : AtMost(p, r) => AtMost(q, r)) <=> q = p
  <2>1. /\ p[1] \in Nat /\ p[2] \in Nat /\ p = <<p[1], p[2]>>
        /\ q[1] \in Nat /\ q[2] \in Nat /\ q = <<q[1], q[2]>>
    BY <1>1
  <2>2. AtMost(p, p)
    BY <2>1 DEF AtMost
  <2>3. AtMost(p, q) /\ AtMost(q, p) => q = p
    BY <2>1 DEF AtMost
  <2> QED BY <2>2, <2>3
<1> QED BY <1>1 DEF EraseAtLowerBound

\* The loop that removes the expired sessions keeps the containers together.
LEMMA PurgeKeepsGood ==
    ASSUME IInv
    PROVE  Good(KeptStrToInt, KeptIntToStr, KeptSessions, KeptExpiry, KeptQueue)
<1> DEFINE Ks == {int_to_str[i] : i \in Expired}
<1>1. Good(str_to_int, int_to_str, sessions, expiry, queue)
  BY IInvIsGood
<1>2. Expired \subseteq DOMAIN sessions
  BY <1>1 DEF Good, Agree, Expired
<1>3. /\ DOMAIN KeptStrToInt = DOMAIN str_to_int \ Ks
      /\ \A k \in DOMAIN KeptStrToInt : KeptStrToInt[k] = str_to_int[k]
      /\ DOMAIN KeptIntToStr = DOMAIN int_to_str \ Expired
      /\ \A i \in DOMAIN KeptIntToStr : KeptIntToStr[i] = int_to_str[i]
      /\ DOMAIN KeptSessions = DOMAIN sessions \ Expired
      /\ \A i \in DOMAIN KeptSessions : KeptSessions[i] = sessions[i]
      /\ DOMAIN KeptExpiry = DOMAIN expiry \ Expired
      /\ \A i \in DOMAIN KeptExpiry : KeptExpiry[i] = expiry[i]
  BY DEF Erase, KeptStrToInt, KeptIntToStr, KeptSessions, KeptExpiry
<1>4. Typed(KeptStrToInt, KeptIntToStr, KeptSessions, KeptExpiry, KeptQueue)
  <2>1. KeptStrToInt \in [DOMAIN KeptStrToInt -> IntKeys]
    BY <1>1, <1>3 DEF Good, Typed, KeptStrToInt, Erase
  <2>2. KeptIntToStr \in [DOMAIN KeptIntToStr -> Keys]
    BY <1>1, <1>3 DEF Good, Typed, KeptIntToStr, Erase
  <2>3. KeptSessions \in [DOMAIN KeptSessions -> Objects]
    BY <1>1, <1>3 DEF Good, Typed, KeptSessions, Erase
  <2>4. KeptExpiry \in [DOMAIN KeptExpiry -> Nat]
    BY <1>1, <1>3 DEF Good, Typed, KeptExpiry, Erase
  <2> QED BY <1>1, <1>3, <2>1, <2>2, <2>3, <2>4 DEF Good, Typed, KeptQueue
<1>5. KeptQueue = {<<KeptExpiry[i], i>> : i \in DOMAIN KeptExpiry}
  <2>1. /\ DOMAIN KeptExpiry = DOMAIN expiry \ Expired
        /\ \A i \in DOMAIN KeptExpiry : <<KeptExpiry[i], i>> = <<expiry[i], i>>
        /\ queue = {<<expiry[i], i>> : i \in DOMAIN expiry}
    BY <1>1, <1>3 DEF Good, Agree
  <2>2. ASSUME NEW p \in KeptQueue
        PROVE  p \in {<<KeptExpiry[i], i>> : i \in DOMAIN KeptExpiry}
    <3>1. PICK i \in DOMAIN expiry : p = <<expiry[i], i>>
      BY <2>1 DEF KeptQueue
    <3>2. i \in DOMAIN KeptExpiry
      BY <2>1, <2>2, <3>1 DEF KeptQueue
    <3> QED BY <2>1, <3>1, <3>2
  <2>3. ASSUME NEW i \in DOMAIN KeptExpiry
        PROVE  <<KeptExpiry[i], i>> \in KeptQueue
    <3>1. <<expiry[i], i>> \in queue /\ i \notin Expired
      BY <2>1
    <3> QED BY <2>1, <3>1 DEF KeptQueue
  <2> QED BY <2>2, <2>3
<1>6. \A k \in DOMAIN KeptStrToInt : /\ KeptStrToInt[k] \in DOMAIN KeptIntToStr
                                     /\ KeptIntToStr[KeptStrToInt[k]] = k
  BY <1>1, <1>3 DEF Good, Agree
<1>7. \A i \in DOMAIN KeptIntToStr : /\ KeptIntToStr[i] \in DOMAIN KeptStrToInt
                                     /\ KeptStrToInt[KeptIntToStr[i]] = i
  BY <1>1, <1>2, <1>3 DEF Good, Agree
<1>8. \A i, j \in DOMAIN KeptSessions : KeptSessions[i] = KeptSessions[j] => i = j
  BY <1>1, <1>3 DEF Good, Agree
<1>9. ObjectsMade(KeptSessions)
  BY <1>1, <1>3 DEF Good, ObjectsMade
<1> QED BY <1>1, <1>3, <1>4, <1>5, <1>6, <1>7, <1>8, <1>9 DEF Good, Agree

-----------------------------------------------------------------------------
LEMMA InitGood == Init => IInv
BY BoundAssumption
   DEF Init, IInv, TypeOK, MapsAgree, ObjectsMade, Empty, Result

LEMMA TouchGood ==
    ASSUME IInv, NEW key \in Keys \cup {EmptyKey}, Touch(key)
    PROVE  IInv'
<1> DEFINE i == KeptStrToInt[key]
           at == now + Lifetime
<1>1. Good(KeptStrToInt, KeptIntToStr, KeptSessions, KeptExpiry, KeptQueue)
  BY PurgeKeepsGood
<1>2. at \in Nat /\ now \in 0..MaxTime
  BY LifetimeAssumption, BoundAssumption DEF IInv, TypeOK
<1>3. /\ key \in DOMAIN KeptStrToInt /\ key \in Keys
      /\ i \in IntKeys /\ i \in Nat /\ i \in DOMAIN KeptExpiry /\ i \in DOMAIN KeptSessions
      /\ KeptExpiry[i] \in Nat /\ KeptSessions[i] \in Objects
  BY <1>1, IntKeyAssumption DEF Touch, Good, Typed, Agree
<1>4. /\ str_to_int' = KeptStrToInt /\ int_to_str' = KeptIntToStr
      /\ sessions' = KeptSessions
      /\ expiry' = Assign(KeptExpiry, i, at)
      /\ queue' = EraseAtLowerBound(KeptQueue, <<KeptExpiry[i], i>>) \cup {<<at, i>>}
      /\ ret' = Result(FALSE, key, KeptSessions[i])
      /\ now' = now /\ made' = made
  BY DEF Touch, KeepSessions
<1>5. EraseAtLowerBound(KeptQueue, <<KeptExpiry[i], i>>) = KeptQueue \ {<<KeptExpiry[i], i>>}
  <2>1. KeptQueue \in SUBSET (Nat \X Nat)
    BY <1>1, IntKeyAssumption DEF Good, Typed
  <2>2. <<KeptExpiry[i], i>> \in KeptQueue
    BY <1>1, <1>3 DEF Good, Agree
  <2> QED BY <2>1, <2>2, LowerBoundIsExact
<1>6. /\ DOMAIN expiry' = DOMAIN KeptExpiry
      /\ expiry'[i] = at
      /\ \A j \in DOMAIN KeptExpiry \ {i} : expiry'[j] = KeptExpiry[j]
      /\ expiry' \in [DOMAIN expiry' -> Nat]
  <2>1. \A j \in DOMAIN KeptExpiry : KeptExpiry[j] \in Nat
    BY <1>1 DEF Good, Typed
  <2> QED BY <1>2, <1>3, <1>4, <2>1 DEF Assign
<1>7. queue' = {<<expiry'[j], j>> : j \in DOMAIN expiry'}
  BY <1>1, <1>3, <1>4, <1>5, <1>6 DEF Good, Agree
<1>8. queue' \subseteq Nat \X IntKeys
  BY <1>1, <1>2, <1>3, <1>4, <1>5 DEF Good, Typed
<1>9. ret' \in [made : BOOLEAN, key : Keys \cup {EmptyKey},
                obj : Objects \cup {NoObject}, at : 0..MaxTime]
  BY <1>2, <1>3, <1>4 DEF Result
<1>10. TypeOK'
  BY <1>1, <1>2, <1>4, <1>6, <1>8, <1>9 DEF IInv, TypeOK, Good, Typed
<1>11. MapsAgree'
  BY <1>1, <1>4, <1>6, <1>7 DEF Good, Agree, MapsAgree
<1> QED BY <1>1, <1>4, <1>10, <1>11 DEF IInv, Good, ObjectsMade

LEMMA InsertGood ==
    ASSUME IInv, made < MaxObjects, made' = made + 1, now' = now, Insert(made + 1)
    PROVE  IInv'
<1>1. Good(KeptStrToInt, KeptIntToStr, KeptSessions, KeptExpiry, KeptQueue)
  BY PurgeKeepsGood
<1> DEFINE at == now + Lifetime
           obj == made + 1
<1>2. /\ at \in Nat /\ now \in 0..MaxTime
      /\ obj \in Objects /\ made' \in 0..MaxObjects
      /\ \A n \in DOMAIN KeptSessions : KeptSessions[n] # obj /\ KeptSessions[n] <= obj
  BY <1>1, LifetimeAssumption, BoundAssumption
     DEF IInv, TypeOK, Objects, Good, Typed, ObjectsMade
<1>3. PICK k \in Keys \ DOMAIN KeptStrToInt, i \in IntKeys \ DOMAIN KeptIntToStr :
         /\ str_to_int' = Assign(KeptStrToInt, k, i)
         /\ int_to_str' = Assign(KeptIntToStr, i, k)
         /\ sessions' = Assign(KeptSessions, i, obj)
         /\ expiry' = Assign(KeptExpiry, i, at)
         /\ queue' = KeptQueue \cup {<<at, i>>}
         /\ ret' = Result(TRUE, k, obj)
  BY DEF Insert
<1>4. /\ DOMAIN str_to_int' = DOMAIN KeptStrToInt \cup {k}
      /\ str_to_int'[k] = i
      /\ \A j \in DOMAIN KeptStrToInt : str_to_int'[j] = KeptStrToInt[j]
      /\ str_to_int' \in [DOMAIN str_to_int' -> IntKeys]
  <2>1. \A j \in DOMAIN KeptStrToInt : KeptStrToInt[j] \in IntKeys
    BY <1>1 DEF Good, Typed
  <2> QED BY <1>3, <2>1 DEF Assign
<1>5. /\ DOMAIN int_to_str' = DOMAIN KeptIntToStr \cup {i}
      /\ int_to_str'[i] = k
      /\ \A j \in DOMAIN KeptIntToStr : int_to_str'[j] = KeptIntToStr[j]
      /\ int_to_str' \in [DOMAIN int_to_str' -> Keys]
  <2>1. \A j \in DOMAIN KeptIntToStr : KeptIntToStr[j] \in Keys
    BY <1>1 DEF Good, Typed
  <2> QED BY <1>3, <2>1 DEF Assign
<1>6. /\ DOMAIN KeptSessions = DOMAIN KeptIntToStr
      /\ DOMAIN KeptExpiry = DOMAIN KeptIntToStr
  BY <1>1 DEF Good, Agree
<1>7. /\ DOMAIN sessions' = DOMAIN KeptSessions \cup {i}
      /\ sessions'[i] = obj
      /\ \A j \in DOMAIN KeptSessions : sessions'[j] = KeptSessions[j]
      /\ sessions' \in [DOMAIN sessions' -> Objects]
  <2>1. \A j \in DOMAIN KeptSessions : KeptSessions[j] \in Objects
    BY <1>1 DEF Good, Typed
  <2> QED BY <1>2, <1>3, <1>6, <2>1 DEF Assign
<1>8. /\ DOMAIN expiry' = DOMAIN KeptExpiry \cup {i}
      /\ expiry'[i] = at
      /\ \A j \in DOMAIN KeptExpiry : expiry'[j] = KeptExpiry[j]
      /\ expiry' \in [DOMAIN expiry' -> Nat]
  <2>1. \A j \in DOMAIN KeptExpiry : KeptExpiry[j] \in Nat
    BY <1>1 DEF Good, Typed
  <2> QED BY <1>2, <1>3, <1>6, <2>1 DEF Assign
<1>9. queue' = {<<expiry'[j], j>> : j \in DOMAIN expiry'}
  BY <1>1, <1>3, <1>8 DEF Good, Agree
<1>10. queue' \subseteq Nat \X IntKeys
  BY <1>1, <1>2, <1>3 DEF Good, Typed
<1>11. ret' \in [made : BOOLEAN, key : Keys \cup {EmptyKey},
                 obj : Objects \cup {NoObject}, at : 0..MaxTime]
  BY <1>2, <1>3 DEF Result
<1>12. TypeOK'
  BY <1>1, <1>2, <1>4, <1>5, <1>7, <1>8, <1>10, <1>11 DEF TypeOK, Good, Typed
<1>13. \A j \in DOMAIN str_to_int' : /\ str_to_int'[j] \in DOMAIN int_to_str'
                                     /\ int_to_str'[str_to_int'[j]] = j
  BY <1>1, <1>4, <1>5 DEF Good, Agree
<1>14. \A j \in DOMAIN int_to_str' : /\ int_to_str'[j] \in DOMAIN str_to_int'
                                     /\ str_to_int'[int_to_str'[j]] = j
  BY <1>1, <1>4, <1>5 DEF Good, Agree
<1>15. \A m, n \in DOMAIN sessions' : sessions'[m] = sessions'[n] => m = n
  BY <1>1, <1>2, <1>7 DEF Good, Agree
<1>16. MapsAgree'
  BY <1>5, <1>6, <1>7, <1>8, <1>9, <1>13, <1>14, <1>15 DEF MapsAgree
<1>17. ObjectsMade(sessions)'
  BY <1>2, <1>7 DEF ObjectsMade
<1> QED BY <1>12, <1>16, <1>17 DEF IInv

LEMMA NotFoundGood ==
    ASSUME IInv, NEW key \in Keys \cup {EmptyKey}, NotFound(key)
    PROVE  IInv'
<1>1. Good(KeptStrToInt, KeptIntToStr, KeptSessions, KeptExpiry, KeptQueue)
  BY PurgeKeepsGood
<1>2. /\ str_to_int' = KeptStrToInt /\ int_to_str' = KeptIntToStr
      /\ sessions' = KeptSessions /\ expiry' = KeptExpiry /\ queue' = KeptQueue
      /\ ret' = Result(FALSE, key, NoObject) /\ now' = now /\ made' = made
  BY DEF NotFound, KeepSessions
<1>3. ret' \in [made : BOOLEAN, key : Keys \cup {EmptyKey},
                obj : Objects \cup {NoObject}, at : 0..MaxTime]
  BY <1>2 DEF Result, IInv, TypeOK
<1>4. TypeOK'
  BY <1>1, <1>2, <1>3 DEF IInv, TypeOK, Good, Typed
<1>5. MapsAgree'
  BY <1>1, <1>2 DEF MapsAgree, Good, Agree
<1>6. ObjectsMade(sessions)'
  BY <1>1, <1>2 DEF ObjectsMade, Good
<1> QED BY <1>4, <1>5, <1>6 DEF IInv

LEMMA StepGood ==
    ASSUME IInv, [Next]_vars
    PROVE  IInv'
<1>1. CASE UNCHANGED vars
  BY <1>1 DEF IInv, TypeOK, MapsAgree, ObjectsMade, vars, containers
<1>2. CASE Tick
  BY <1>2, BoundAssumption DEF Tick, IInv, TypeOK, MapsAgree, ObjectsMade, containers
<1>3. ASSUME NEW key \in Keys \cup {EmptyKey}, Create(key)
      PROVE  IInv'
  BY <1>3, InsertGood DEF Create
<1>4. ASSUME NEW key \in Keys \cup {EmptyKey}, Touch(key)
      PROVE  IInv'
  BY <1>4, TouchGood
<1>5. ASSUME NEW key \in Keys \cup {EmptyKey}, NotFound(key)
      PROVE  IInv'
  BY <1>5, NotFoundGood
<1> QED BY <1>1, <1>2, <1>3, <1>4, <1>5 DEF Next, get_or_create, try_get

(* The containers keep the types of session.hpp and no session is null.    *)
THEOREM TypeCorrect == Spec => []TypeOK
<1>1. IInv => TypeOK
  BY DEF IInv
<1> QED BY <1>1, InitGood, StepGood, PTL DEF Spec

(* The five containers always describe the same sessions, one key and one  *)
(* queue entry for each, so erase(lower_bound(...)) never misses.          *)
THEOREM ContainersAgree == Spec => []MapsAgree
<1>1. IInv => MapsAgree
  BY DEF IInv
<1> QED BY <1>1, InitGood, StepGood, PTL DEF Spec

-----------------------------------------------------------------------------
(* What the last call left: nothing that had expired, and its own session  *)
(* with a new expiry.  Until the next call the containers stay like that.  *)
Fresh == /\ ret.at <= now
         /\ \A i \in DOMAIN sessions : expiry[i] >= ret.at

Returned == ret.obj # NoObject => /\ ret.key \in DOMAIN str_to_int
                                  /\ str_to_int[ret.key] \in DOMAIN sessions
                                  /\ sessions[str_to_int[ret.key]] = ret.obj
                                  /\ expiry[str_to_int[ret.key]] = ret.at + Lifetime

(* What the loop keeps is what has not expired.                            *)
LEMMA KeptIsLive ==
    ASSUME IInv
    PROVE  /\ DOMAIN KeptStrToInt = Live
           /\ \A k \in Live : /\ KeptStrToInt[k] = str_to_int[k]
                               /\ str_to_int[k] \in DOMAIN KeptSessions
                               /\ KeptSessions[str_to_int[k]] = sessions[str_to_int[k]]
                               /\ KeptExpiry[str_to_int[k]] = expiry[str_to_int[k]]
           /\ DOMAIN KeptExpiry = DOMAIN KeptSessions
           /\ \A i \in DOMAIN KeptSessions : KeptExpiry[i] >= now
<1>1. /\ Good(str_to_int, int_to_str, sessions, expiry, queue)
      /\ now \in Nat /\ \A i \in DOMAIN expiry : expiry[i] \in Nat
  BY IInvIsGood, BoundAssumption DEF IInv, TypeOK
<1>2. Expired = {i \in DOMAIN expiry : expiry[i] < now}
  <2>1. queue = {<<expiry[i], i>> : i \in DOMAIN expiry}
    BY <1>1 DEF Good, Agree
  <2>2. ASSUME NEW i \in Expired PROVE i \in DOMAIN expiry /\ expiry[i] < now
    BY <2>1 DEF Expired
  <2>3. ASSUME NEW i \in DOMAIN expiry, expiry[i] < now PROVE i \in Expired
    <3>1. <<expiry[i], i>> \in {q \in queue : q[1] < now} /\ <<expiry[i], i>>[2] = i
      BY <2>1, <2>3
    <3> QED BY <3>1 DEF Expired
  <2> QED BY <2>2, <2>3
<1>3. /\ DOMAIN KeptSessions = DOMAIN sessions \ Expired
      /\ \A i \in DOMAIN KeptSessions : KeptSessions[i] = sessions[i]
      /\ DOMAIN KeptExpiry = DOMAIN expiry \ Expired
      /\ \A i \in DOMAIN KeptExpiry : KeptExpiry[i] = expiry[i]
      /\ DOMAIN KeptStrToInt = DOMAIN str_to_int \ {int_to_str[i] : i \in Expired}
      /\ \A k \in DOMAIN KeptStrToInt : KeptStrToInt[k] = str_to_int[k]
  BY DEF Erase, KeptStrToInt, KeptSessions, KeptExpiry
<1>4. DOMAIN KeptStrToInt = Live
  <2>1. ASSUME NEW k \in DOMAIN str_to_int
        PROVE  k \in Live <=> k \notin {int_to_str[i] : i \in Expired}
    <3>1. str_to_int[k] \in DOMAIN expiry /\ int_to_str[str_to_int[k]] = k
      BY <1>1 DEF Good, Agree
    <3>2. \A i \in Expired : int_to_str[i] = k <=> i = str_to_int[k]
      BY <1>1, <1>2, <3>1 DEF Good, Agree
    <3> QED BY <1>1, <1>2, <3>1, <3>2 DEF Live
  <2> QED BY <1>3, <2>1 DEF Live
<1>5. \A k \in Live : str_to_int[k] \in DOMAIN sessions \ Expired
  BY <1>1, <1>2 DEF Good, Agree, Live
<1>6. DOMAIN expiry = DOMAIN sessions
  BY <1>1 DEF Good, Agree
<1> QED BY <1>1, <1>2, <1>3, <1>4, <1>5, <1>6

(* The containers that a call leaves, and what is reached through them.    *)
LEMMA TouchLeaves ==
    ASSUME IInv, NEW key \in Keys \cup {EmptyKey}, Touch(key)
    PROVE  /\ key \in Live
           /\ str_to_int' = KeptStrToInt /\ sessions' = KeptSessions
           /\ DOMAIN expiry' = DOMAIN KeptExpiry
           /\ \A j \in DOMAIN KeptExpiry :
                 expiry'[j] = IF j = str_to_int[key] THEN now + Lifetime ELSE KeptExpiry[j]
           /\ ret' = Result(FALSE, key, sessions[str_to_int[key]])
           /\ now' = now /\ made' = made
<1>1. key \in Live /\ KeptStrToInt[key] = str_to_int[key]
      /\ str_to_int[key] \in DOMAIN KeptExpiry
      /\ KeptSessions[str_to_int[key]] = sessions[str_to_int[key]]
  BY KeptIsLive DEF Touch
<1>2. expiry' = Assign(KeptExpiry, str_to_int[key], now + Lifetime)
  BY <1>1 DEF Touch
<1> QED BY <1>1, <1>2 DEF Touch, KeepSessions, Assign

LEMMA InsertLeaves ==
    ASSUME IInv, NEW obj, Insert(obj)
    PROVE  \E k \in Keys \ Live, i \in IntKeys \ DOMAIN KeptSessions :
              /\ DOMAIN str_to_int' = Live \cup {k}
              /\ \A j \in Live \cup {k} : str_to_int'[j] = IF j = k THEN i ELSE str_to_int[j]
              /\ DOMAIN sessions' = DOMAIN KeptSessions \cup {i}
              /\ \A j \in DOMAIN sessions' : sessions'[j] = IF j = i THEN obj ELSE KeptSessions[j]
              /\ \A j \in DOMAIN sessions' : expiry'[j] = IF j = i THEN now + Lifetime ELSE KeptExpiry[j]
              /\ ret' = Result(TRUE, k, obj)
<1>1. PICK k \in Keys \ DOMAIN KeptStrToInt, i \in IntKeys \ DOMAIN KeptIntToStr :
         /\ str_to_int' = Assign(KeptStrToInt, k, i)
         /\ sessions' = Assign(KeptSessions, i, obj)
         /\ expiry' = Assign(KeptExpiry, i, now + Lifetime)
         /\ ret' = Result(TRUE, k, obj)
  BY DEF Insert
<1>2. DOMAIN KeptIntToStr = DOMAIN KeptSessions
  BY PurgeKeepsGood DEF Good, Agree
<1>3. /\ DOMAIN str_to_int' = Live \cup {k}
      /\ \A j \in Live \cup {k} : str_to_int'[j] = IF j = k THEN i ELSE str_to_int[j]
  BY <1>1, KeptIsLive DEF Assign
<1>4. /\ DOMAIN sessions' = DOMAIN KeptSessions \cup {i}
      /\ \A j \in DOMAIN sessions' : sessions'[j] = IF j = i THEN obj ELSE KeptSessions[j]
  BY <1>1 DEF Assign
<1>5. \A j \in DOMAIN sessions' : expiry'[j] = IF j = i THEN now + Lifetime ELSE KeptExpiry[j]
  BY <1>1, <1>4, KeptIsLive DEF Assign
<1>6. k \in Keys \ Live /\ i \in IntKeys \ DOMAIN KeptSessions
  BY <1>1, <1>2, KeptIsLive
<1> QED BY <1>1, <1>3, <1>4, <1>5, <1>6

LEMMA StepFresh ==
    ASSUME IInv, Fresh, Returned, [Next]_vars
    PROVE  Fresh' /\ Returned'
<1>1. now \in Nat /\ ret.at \in Nat /\ Lifetime \in Nat
  BY LifetimeAssumption, BoundAssumption DEF IInv, TypeOK
<1>2. CASE UNCHANGED vars
  BY <1>2 DEF Fresh, Returned, vars, containers
<1>3. CASE Tick
  BY <1>1, <1>3 DEF Tick, Fresh, Returned, containers
<1>4. ASSUME NEW key \in Keys \cup {EmptyKey}, Touch(key)
      PROVE  Fresh' /\ Returned'
  BY <1>1, <1>4, TouchLeaves, KeptIsLive DEF Fresh, Returned, Result
<1>5. ASSUME NEW key \in Keys \cup {EmptyKey}, Create(key)
      PROVE  Fresh' /\ Returned'
  <2>1. Insert(made + 1) /\ now' = now
    BY <1>5 DEF Create
  <2>2. PICK k \in Keys \ Live, i \in IntKeys \ DOMAIN KeptSessions :
              /\ DOMAIN str_to_int' = Live \cup {k}
              /\ \A j \in Live \cup {k} : str_to_int'[j] = IF j = k THEN i ELSE str_to_int[j]
              /\ DOMAIN sessions' = DOMAIN KeptSessions \cup {i}
              /\ \A j \in DOMAIN sessions' : sessions'[j] = IF j = i THEN made + 1 ELSE KeptSessions[j]
              /\ \A j \in DOMAIN sessions' : expiry'[j] = IF j = i THEN now + Lifetime ELSE KeptExpiry[j]
              /\ ret' = Result(TRUE, k, made + 1)
    BY <2>1, InsertLeaves
  <2>3. /\ ret'.at = now /\ ret'.key = k /\ ret'.obj = made + 1
        /\ str_to_int'[k] = i /\ sessions'[i] = made + 1 /\ expiry'[i] = now + Lifetime
    BY <2>2 DEF Result
  <2>4. Fresh'
    <3>1. \A j \in DOMAIN KeptSessions : KeptExpiry[j] >= now
      BY KeptIsLive
    <3>2. \A j \in DOMAIN sessions' : expiry'[j] >= now
      BY <1>1, <2>2, <3>1
    <3> QED BY <1>1, <2>1, <2>3, <3>2 DEF Fresh
  <2> QED BY <2>2, <2>3, <2>4 DEF Returned
<1>6. ASSUME NEW key \in Keys \cup {EmptyKey}, NotFound(key)
      PROVE  Fresh' /\ Returned'
  BY <1>1, <1>6, KeptIsLive DEF NotFound, KeepSessions, Fresh, Returned, Result
<1> QED BY <1>2, <1>3, <1>4, <1>5, <1>6 DEF Next, get_or_create, try_get

LEMMA AlwaysFresh == Spec => [](IInv /\ Fresh /\ Returned)
<1>1. Init => Fresh /\ Returned
  BY DEF Init, Fresh, Returned, Result, Empty
<1> QED BY <1>1, InitGood, StepGood, StepFresh, PTL DEF Spec

(* A call removes every session that has expired, not only the first.      *)
THEOREM PurgesAreComplete == Spec => []PurgeComplete
<1>1. Fresh => PurgeComplete
  BY DEF Fresh, PurgeComplete
<1> QED BY <1>1, AlwaysFresh, PTL

(* The session that a call returned is reachable for its lifetime.         *)
THEOREM ReturnedSessionsStay == Spec => []ReturnedSessionStays
<1>1. IInv /\ Fresh /\ Returned => ReturnedSessionStays
  BY LifetimeAssumption, BoundAssumption DEF IInv, TypeOK, Fresh, Returned, ReturnedSessionStays
<1> QED BY <1>1, AlwaysFresh, PTL

-----------------------------------------------------------------------------
(* The refinement of SessionStore.                                         *)
Abstract == [k \in Live |-> [obj |-> sessions[str_to_int[k]], until |-> expiry[str_to_int[k]]]]

LEMMA InitIsStoreInit == Init => Store!StoreInit
<1> SUFFICES ASSUME Init PROVE Store!StoreInit
  OBVIOUS
<1>1. Live = {}
  BY DEF Init, Live, Empty
<1> QED BY <1>1 DEF Init, Result, Store!StoreInit, Store!Result

LEMMA TickElapses == IInv /\ Tick => Store!Elapse
<1> SUFFICES ASSUME IInv, Tick PROVE Store!Elapse
  OBVIOUS
<1>1. /\ now \in Nat /\ now' = now + 1 /\ now < MaxTime
      /\ str_to_int' = str_to_int /\ sessions' = sessions /\ expiry' = expiry
      /\ made' = made /\ ret' = ret
      /\ \A k \in DOMAIN str_to_int : expiry[str_to_int[k]] \in Nat
  BY BoundAssumption DEF Tick, containers, IInv, TypeOK, MapsAgree
<1>2. Live' = {j \in Live : expiry[str_to_int[j]] >= now'}
  BY <1>1 DEF Live
<1>3. Abstract' = [k \in {j \in DOMAIN Abstract : Abstract[j].until >= now'} |-> Abstract[k]]
  BY <1>1, <1>2 DEF Abstract
<1> QED BY <1>1, <1>3 DEF Store!Elapse, Abstract

LEMMA TouchFinds ==
    ASSUME IInv, NEW key \in Keys \cup {EmptyKey}, Touch(key)
    PROVE  Store!Find(key)
<1>1. now \in Nat /\ Lifetime \in Nat /\ now + Lifetime >= now
  BY LifetimeAssumption, BoundAssumption DEF IInv, TypeOK
<1>2. \A k \in Live : /\ str_to_int'[k] = str_to_int[k]
                      /\ sessions'[str_to_int'[k]] = sessions[str_to_int[k]]
                      /\ expiry'[str_to_int'[k]] = IF k = key THEN now + Lifetime ELSE expiry[str_to_int[k]]
  <2>1. key \in Live
    BY TouchLeaves
  <2>2. ASSUME NEW k \in Live, str_to_int[k] = str_to_int[key] PROVE k = key
    <3>1. \A j \in Live : int_to_str[str_to_int[j]] = j
      BY DEF IInv, MapsAgree, Live
    <3> QED BY <2>1, <2>2, <3>1
  <2>3. ASSUME NEW k \in Live
        PROVE  /\ str_to_int[k] \in DOMAIN KeptExpiry
               /\ str_to_int'[k] = str_to_int[k]
               /\ sessions'[str_to_int[k]] = sessions[str_to_int[k]]
               /\ KeptExpiry[str_to_int[k]] = expiry[str_to_int[k]]
    BY TouchLeaves, KeptIsLive
  <2>4. ASSUME NEW k \in Live
        PROVE  expiry'[str_to_int[k]] = IF k = key THEN now + Lifetime ELSE expiry[str_to_int[k]]
    BY <2>2, <2>3, TouchLeaves
  <2> QED BY <2>3, <2>4
<1>3. Live' = Live
  <2>1. DOMAIN str_to_int' = Live
    BY TouchLeaves, KeptIsLive
  <2>2. \A k \in Live : expiry'[str_to_int'[k]] >= now
    BY <1>1, <1>2 DEF Live
  <2>3. now' = now
    BY TouchLeaves
  <2> QED BY <2>1, <2>2, <2>3 DEF Live
<1>4. Abstract' = [Abstract EXCEPT ![key].until = now + Lifetime]
  <2>1. key \in Live
    BY TouchLeaves
  <2>2. ASSUME NEW k \in Live
        PROVE  [obj |-> sessions'[str_to_int'[k]], until |-> expiry'[str_to_int'[k]]]
                 = [Abstract EXCEPT ![key].until = now + Lifetime][k]
    BY <1>2, <2>1 DEF Abstract
  <2> QED BY <1>3, <2>2 DEF Abstract
<1> QED BY <1>4, TouchLeaves DEF Store!Find, Store!Result, Result, Abstract

LEMMA CreateIsNew ==
    ASSUME IInv, NEW key \in Keys \cup {EmptyKey}, Create(key)
    PROVE  Store!New(key)
<1>1. now \in Nat /\ Lifetime \in Nat /\ now + Lifetime >= now
  BY LifetimeAssumption, BoundAssumption DEF IInv, TypeOK
<1>2. /\ key \notin Live /\ made < MaxObjects /\ made' = made + 1 /\ now' = now
      /\ Insert(made + 1)
  BY KeptIsLive DEF Create
<1>3. PICK k \in Keys \ Live, i \in IntKeys \ DOMAIN KeptSessions :
              /\ DOMAIN str_to_int' = Live \cup {k}
              /\ \A j \in Live \cup {k} : str_to_int'[j] = IF j = k THEN i ELSE str_to_int[j]
              /\ DOMAIN sessions' = DOMAIN KeptSessions \cup {i}
              /\ \A j \in DOMAIN sessions' : sessions'[j] = IF j = i THEN made + 1 ELSE KeptSessions[j]
              /\ \A j \in DOMAIN sessions' : expiry'[j] = IF j = i THEN now + Lifetime ELSE KeptExpiry[j]
              /\ ret' = Result(TRUE, k, made + 1)
  BY <1>2, InsertLeaves
<1>4. \A j \in Live : /\ str_to_int'[j] = str_to_int[j]
                      /\ sessions'[str_to_int'[j]] = sessions[str_to_int[j]]
                      /\ expiry'[str_to_int'[j]] = expiry[str_to_int[j]]
  BY <1>3, KeptIsLive
<1>5. str_to_int'[k] = i /\ sessions'[i] = made' /\ expiry'[i] = now + Lifetime
  BY <1>2, <1>3
<1>6. Live' = Live \cup {k}
  BY <1>1, <1>2, <1>3, <1>4, <1>5 DEF Live
<1>7. Abstract' = [j \in DOMAIN Abstract \cup {k} |->
                      IF j = k THEN [obj |-> made', until |-> now + Lifetime] ELSE Abstract[j]]
  BY <1>3, <1>4, <1>5, <1>6 DEF Abstract
<1> QED BY <1>2, <1>3, <1>7 DEF Store!New, Store!Result, Result, Abstract

LEMMA NotFoundMisses ==
    ASSUME IInv, NEW key \in Keys \cup {EmptyKey}, NotFound(key)
    PROVE  Store!Miss(key)
<1>1. /\ key \notin Live /\ str_to_int' = KeptStrToInt
      /\ sessions' = KeptSessions /\ expiry' = KeptExpiry
      /\ now' = now /\ made' = made /\ ret' = Result(FALSE, key, NoObject)
  BY KeptIsLive DEF NotFound, KeepSessions
<1>2. \A j \in Live : /\ str_to_int'[j] = str_to_int[j]
                      /\ sessions'[str_to_int'[j]] = sessions[str_to_int[j]]
                      /\ expiry'[str_to_int'[j]] = expiry[str_to_int[j]]
  BY <1>1, KeptIsLive
<1>3. Live' = Live
  BY <1>1, <1>2, KeptIsLive DEF Live
<1>4. Abstract' = Abstract
  BY <1>2, <1>3 DEF Abstract
<1> QED BY <1>1, <1>4 DEF Store!Miss, Store!Result, Result, Abstract

(* Every call is a call of the abstract store with the same result, and    *)
(* time passes in both alike: whoever uses the sessions through the        *)
(* interface need not know of the five containers.                         *)
THEOREM ImplementsStore == Spec => StoreSpec
<1>1. IInv /\ [Next]_vars => [Store!StoreNext]_(Store!storeVars)
  <2> SUFFICES ASSUME IInv, [Next]_vars PROVE [Store!StoreNext]_(Store!storeVars)
    OBVIOUS
  <2>1. CASE UNCHANGED vars
    BY <2>1 DEF vars, containers, Store!storeVars, Live
  <2>2. CASE Tick
    BY <2>2, TickElapses DEF Store!StoreNext
  <2>3. ASSUME NEW key \in Keys \cup {EmptyKey}, Touch(key) \/ Create(key) \/ NotFound(key)
        PROVE  Store!StoreNext
    BY <2>3, TouchFinds, CreateIsNew, NotFoundMisses DEF Store!StoreNext
  <2> QED BY <2>1, <2>2, <2>3 DEF Next, get_or_create, try_get
<1> QED BY <1>1, InitGood, StepGood, InitIsStoreInit, PTL DEF Spec, StoreSpec, Store!StoreSpec
=============================================================================
