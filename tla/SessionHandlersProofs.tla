------------------------- MODULE SessionHandlersProofs -------------------------
(***************************************************************************)
(* What SessionHandlers promises for any number of requests, users and     *)
(* threads.  On any number of threads a counter never gets ahead of the    *)
(* requests that reached their count (Bounded).  On one thread a handler   *)
(* has the object for itself from one wait to the next: what it found out  *)
(* about the object is still so at its next access (OneThread).            *)
(***************************************************************************)
EXTENDS SessionHandlers, FiniteSetTheorems, TLAPS

(* Who has written cnt, and who may have written count.                    *)
Sent == {r \in Requests : pc[r] \in {"send_answer", "sent"}}
Greeted == {r \in Requests : pc[r] \in {"hello_answer", "done"}}

Bounded ==
    /\ session.cnt \in Counts => session.cnt <= Cardinality(Sent)
    /\ session.count \in Counts => session.count <= Cardinality(Greeted)
    /\ \A r \in Requests : pc[r] = "send_write" => local[r] <= Cardinality(Sent)
    /\ \A r \in Requests : pc[r] = "hello_write" => local[r] <= Cardinality(Greeted)

(* The keys of the counters are made before they are read, for good.       *)
Made ==
    \A r \in Requests :
        /\ pc[r] \in {"hello_user", "hello_read", "hello_write"} => session.count # Missing
        /\ pc[r] = "send_read" => session.cnt # Missing
        /\ pc[r] = "send_answer" => session.cnt \in Counts

(* What the handler on the thread found out.                               *)
Knows(r) ==
    /\ pc[r] \in {"hello_init", "hello_zero", "hello_user"} => session.user \in Users
    /\ pc[r] = "index_copy" => session.user # Missing
    /\ pc[r] \in {"hello_read", "hello_write", "hello_answer"} => r \in refs
    /\ pc[r] = "send_zero" => session.cnt = Missing
    /\ pc[r] = "send_write" => session.cnt \in Counts /\ local[r] = session.cnt
    /\ pc[r] = "send_answer" => session.cnt = Len(given) + 1
    /\ pc[r] = "failed" => session.cnt = Null

Counted ==
    /\ \A i \in 1..Len(given) : given[i] = i
    /\ (\A r \in Requests : pc[r] # "send_answer") =>
          IF session.cnt \in Counts THEN session.cnt = Len(given) ELSE given = <<>>

OneThread == workers = 1 => /\ session.user # Null
                            /\ \A r \in Requests : Knows(r)
                            /\ Counted

IInv == TypeOK /\ Bounded /\ Made /\ OneThread

-----------------------------------------------------------------------------
PCs == {"new"} \cup Steps \cup Waits \cup Ends
USE DEF PCs, Waits, Ends

LEMMA Sizes == /\ Cardinality(Requests) \in Nat
               /\ \A S \in SUBSET Requests : IsFiniteSet(S) /\ Cardinality(S) \in Counts
<1>1. IsFiniteSet(Requests) /\ Cardinality(Requests) \in Nat
  BY FiniteAssumption, FS_CardinalityType
<1>2. ASSUME NEW S \in SUBSET Requests
      PROVE  IsFiniteSet(S) /\ Cardinality(S) \in Nat /\ Cardinality(S) <= Cardinality(Requests)
  BY <1>1, FS_Subset, FS_CardinalityType
<1>3. QED BY <1>1, <1>2 DEF Counts

(* On one thread a step of a request finds no other request on a thread.   *)
LEMMA Alone ==
    ASSUME TypeOK, workers = 1, NEW r \in Requests,
           pc[r] \in Steps \/ Cardinality(busy) < workers
    PROVE  \A q \in Requests \ {r} : pc[q] \notin Steps
<1>1. IsFiniteSet(busy) /\ Cardinality(busy) \in Nat
  BY FiniteAssumption, FS_Subset, FS_CardinalityType DEF TypeOK
<1>2. CASE Cardinality(busy) = 0
  <2>1. busy = {}
    BY <1>1, <1>2, FS_EmptySet
  <2>2. QED BY <2>1 DEF TypeOK
<1>3. CASE Cardinality(busy) # 0
  <2>1. Cardinality(busy) = 1 /\ pc[r] \in Steps
    BY <1>1, <1>3 DEF TypeOK
  <2>2. PICK x : busy = {x}
    BY <1>1, <2>1, FS_Singleton
  <2>3. QED BY <2>1, <2>2 DEF TypeOK
<1>4. QED BY <1>2, <1>3

(* What a step does to the places of the requests and to the threads.      *)
LEMMA Moves ==
    ASSUME TypeOK, NEW r \in Requests, NEW from \in PCs, NEW to \in PCs \ {"new"},
           Goto(r, from, to), from \in Steps \/ Cardinality(busy) < workers
    PROVE  /\ workers' = workers /\ pc[r] = from /\ pc' = [pc EXCEPT ![r] = to]
           /\ pc' \in [Requests -> PCs] /\ pc'[r] = to /\ \A q \in Requests \ {r} : pc'[q] = pc[q]
           /\ busy' = {q \in Requests : pc'[q] \in Steps} /\ Cardinality(busy') <= workers
<1>1. /\ workers' = workers /\ pc[r] = from /\ pc' = [pc EXCEPT ![r] = to]
      /\ pc' \in [Requests -> PCs] /\ pc'[r] = to /\ \A q \in Requests \ {r} : pc'[q] = pc[q]
  BY DEF Goto, TypeOK
<1>2. busy' = {q \in Requests : pc'[q] \in Steps}
  <2>1. to \in Steps <=> to \notin Waits \cup Ends
    BY DEF Steps
  <2>2. QED BY <1>1, <2>1 DEF Goto, TypeOK
<1>3. IsFiniteSet(busy) /\ Cardinality(busy) \in Nat /\ workers \in Nat
  BY FiniteAssumption, WorkersAssumption, FS_Subset, FS_CardinalityType DEF TypeOK
<1>4. Cardinality(busy') <= workers
  <2>1. CASE busy' \subseteq busy
    <3>1. Cardinality(busy') <= Cardinality(busy) /\ Cardinality(busy') \in Nat
      BY <1>3, <2>1, FS_Subset, FS_CardinalityType
    <3>2. QED BY <1>3, <3>1 DEF TypeOK
  <2>2. CASE busy' = busy \cup {r} /\ r \notin busy
    <3>1. Cardinality(busy') = Cardinality(busy) + 1 /\ Cardinality(busy) < workers
      BY <1>1, <1>3, <2>2, FS_AddElement DEF TypeOK
    <3>2. QED BY <1>3, <3>1
  <2>3. QED BY <2>1, <2>2 DEF Goto
<1>5. QED BY <1>1, <1>2, <1>4

(* Requests that counted stay counted.                                     *)
LEMMA SetsGrow ==
    ASSUME NEW r \in Requests, NEW from \in PCs \ Ends, NEW to \in PCs,
           pc[r] = from, pc'[r] = to, \A q \in Requests \ {r} : pc'[q] = pc[q],
           from = "send_answer" => to = "sent", from = "hello_answer" => to = "done"
    PROVE  /\ Cardinality(Sent) <= Cardinality(Sent)' /\ Cardinality(Greeted) <= Cardinality(Greeted)'
           /\ Cardinality(Sent) \in Counts /\ Cardinality(Greeted) \in Counts
           /\ Cardinality(Sent)' \in Nat /\ Cardinality(Greeted)' \in Nat
           /\ from = "send_write" /\ to = "send_answer"
                 => Cardinality(Sent)' = Cardinality(Sent) + 1 /\ Cardinality(Sent)' \in Counts
           /\ from = "hello_write" /\ to = "hello_answer"
                 => Cardinality(Greeted)' = Cardinality(Greeted) + 1 /\ Cardinality(Greeted)' \in Counts
<1>1. /\ Sent \in SUBSET Requests /\ Sent' \in SUBSET Requests /\ Sent \subseteq Sent'
      /\ Greeted \in SUBSET Requests /\ Greeted' \in SUBSET Requests /\ Greeted \subseteq Greeted'
  BY DEF Sent, Greeted
<1>2. /\ IsFiniteSet(Sent) /\ Cardinality(Sent) \in Counts
      /\ IsFiniteSet(Greeted) /\ Cardinality(Greeted) \in Counts
      /\ IsFiniteSet(Sent') /\ Cardinality(Sent') \in Counts
      /\ IsFiniteSet(Greeted') /\ Cardinality(Greeted') \in Counts
  BY <1>1, Sizes
<1>3. Cardinality(Sent) <= Cardinality(Sent)' /\ Cardinality(Greeted) <= Cardinality(Greeted)'
  BY <1>1, <1>2, FS_Subset
<1>4. ASSUME from = "send_write", to = "send_answer" PROVE Cardinality(Sent)' = Cardinality(Sent) + 1
  <2>1. Sent' = Sent \cup {r} /\ r \notin Sent
    BY <1>4 DEF Sent
  <2>2. QED BY <1>2, <2>1, FS_AddElement
<1>5. ASSUME from = "hello_write", to = "hello_answer" PROVE Cardinality(Greeted)' = Cardinality(Greeted) + 1
  <2>1. Greeted' = Greeted \cup {r} /\ r \notin Greeted
    BY <1>5 DEF Greeted
  <2>2. QED BY <1>2, <2>1, FS_AddElement
<1>6. \A n \in Counts : n \in Nat
  BY Sizes DEF Counts
<1>7. QED BY <1>2, <1>3, <1>4, <1>5, <1>6

(* A counter that is not written keeps its bound, and so does what was     *)
(* read of it.                                                             *)
LEMMA BoundedStays ==
    ASSUME Bounded, \A k \in Counts : k \in Nat /\ k # Missing /\ k # Null,
           Cardinality(Sent) <= Cardinality(Sent)', Cardinality(Greeted) <= Cardinality(Greeted)',
           Cardinality(Sent) \in Nat, Cardinality(Greeted) \in Nat,
           Cardinality(Sent)' \in Nat, Cardinality(Greeted)' \in Nat,
           local \in [Requests -> Counts],
           session'.cnt \in {session.cnt, 0, Null}, session'.count \in {session.count, 0},
           \A q \in Requests : pc'[q] = "send_write" =>
               (pc[q] = "send_write" /\ local'[q] = local[q]) \/ (session.cnt \in Counts /\ local'[q] = session.cnt),
           \A q \in Requests : pc'[q] = "hello_write" =>
               (pc[q] = "hello_write" /\ local'[q] = local[q]) \/ (session.count \in Counts /\ local'[q] = session.count)
    PROVE  Bounded'
<1>1. session'.cnt \in Counts => session'.cnt <= Cardinality(Sent)'
  BY DEF Bounded
<1>2. session'.count \in Counts => session'.count <= Cardinality(Greeted)'
  BY DEF Bounded
<1>3. ASSUME NEW q \in Requests, pc'[q] = "send_write" PROVE local'[q] <= Cardinality(Sent)'
  BY <1>3 DEF Bounded
<1>4. ASSUME NEW q \in Requests, pc'[q] = "hello_write" PROVE local'[q] <= Cardinality(Greeted)'
  BY <1>4 DEF Bounded
<1>5. QED BY <1>1, <1>2, <1>3, <1>4 DEF Bounded

(* A request that is not on a thread only relies on a null cnt to stay.    *)
LEMMA OthersKnow ==
    ASSUME NEW q \in Requests, Knows(q), pc[q] \notin Steps, pc'[q] = pc[q],
           session.cnt = Null => session'.cnt = Null
    PROVE  Knows(q)'
BY DEF Knows, Steps

LEMMA Initially == Init => IInv
<1> SUFFICES ASSUME Init PROVE IInv
  OBVIOUS
<1> USE DEF Init
<1>1. TypeOK
  <2>1. Cardinality({}) = 0 /\ 0 \in Counts /\ \A w \in Workers : 0 <= w
    BY FS_EmptySet, Sizes, WorkersAssumption DEF Counts
  <2>2. QED BY <2>1 DEF TypeOK, Steps
<1>2. Bounded /\ Made
  BY ValueAssumption, Sizes DEF Bounded, Made, Counts
<1>3. OneThread
  BY ValueAssumption, Sizes DEF OneThread, Knows, Counted, Counts
<1>4. QED BY <1>1, <1>2, <1>3 DEF IInv

-----------------------------------------------------------------------------
(* A step that only looks at the object, and goes where it may.            *)
LEMMA LookKeeps ==
    ASSUME IInv, NEW r \in Requests, NEW from \in PCs \ Ends, NEW to \in PCs \ {"new"},
           Goto(r, from, to), from \in Steps \/ Cardinality(busy) < workers,
           UNCHANGED <<session, local, refs, given>>,
           from \notin {"send_answer", "hello_answer"},
           to \notin {"hello_read", "hello_write", "hello_answer", "send_write", "send_answer", "failed"},
           to = "hello_user" => session.count # Missing, to = "send_read" => session.cnt # Missing,
           workers = 1 => Knows(r)'
    PROVE  IInv'
<1> USE DEF IInv
<1>1. /\ workers' = workers /\ pc[r] = from
      /\ pc' \in [Requests -> PCs] /\ pc'[r] = to /\ \A q \in Requests \ {r} : pc'[q] = pc[q]
      /\ busy' = {q \in Requests : pc'[q] \in Steps} /\ Cardinality(busy') <= workers
  BY Moves
<1>2. /\ Cardinality(Sent) <= Cardinality(Sent)' /\ Cardinality(Greeted) <= Cardinality(Greeted)'
      /\ Cardinality(Sent) \in Counts /\ Cardinality(Greeted) \in Counts
      /\ Cardinality(Sent)' \in Nat /\ Cardinality(Greeted)' \in Nat
  BY <1>1, SetsGrow
<1>3. \A k \in Counts : k \in Nat /\ k # Missing /\ k # Null
  BY ValueAssumption, Sizes DEF Counts
<1>4. TypeOK'
  BY <1>1 DEF TypeOK
<1>5. Bounded'
  <2>1. \A q \in Requests : pc'[q] \in {"send_write", "hello_write"} => pc[q] = pc'[q]
    BY <1>1
  <2>2. local \in [Requests -> Counts]
    BY DEF TypeOK
  <2>3. QED BY <1>2, <1>3, <2>1, <2>2, BoundedStays
<1>6. Made'
  BY <1>1 DEF Made
<1>7. ASSUME workers = 1 PROVE session'.user # Null /\ (\A q \in Requests : Knows(q)') /\ Counted'
  <2> USE <1>7 DEF OneThread
  <2>1. \A q \in Requests \ {r} : pc[q] \notin Steps
    BY <1>1, Alone
  <2>2. \A q \in Requests \ {r} : Knows(q)'
    BY <1>1, <2>1, OthersKnow
  <2>3. Counted'
    BY <1>1 DEF Counted
  <2>4. QED BY <2>2, <2>3
<1>8. QED BY <1>1, <1>4, <1>5, <1>6, <1>7 DEF OneThread

LEMMA StartKeeps ==
    ASSUME IInv, NEW r \in Requests, Start(r) PROVE IInv'
<1>1. PICK to \in {"hello_check", "login", "logout_check", "send_post", "ws_echo", "index_check"} : Goto(r, "new", to)
  BY ValueAssumption DEF Start, Handlers, First
<1>2. ASSUME workers = 1 PROVE Knows(r)'
  <2>1. pc[r] = "new" /\ pc'[r] = to /\ session' = session
    BY <1>1 DEF Start, Goto, IInv, TypeOK
  <2>2. QED BY <1>1, <1>2, <2>1, ValueAssumption DEF IInv, TypeOK, OneThread, Knows
<1>3. QED BY <1>1, <1>2, LookKeeps DEF Start, Steps

LEMMA HelloCheckKeeps ==
    ASSUME IInv, NEW r \in Requests, HelloCheck(r) PROVE IInv'
<1>1. PICK to \in {"hello_init", "done"} : Goto(r, "hello_check", to) /\ (to = "hello_init" <=> session.user # Missing)
  BY ValueAssumption DEF HelloCheck, Has
<1>2. ASSUME workers = 1 PROVE Knows(r)'
  <2>1. pc[r] = "hello_check" /\ pc'[r] = to /\ session' = session
    BY <1>1 DEF HelloCheck, Goto, IInv, TypeOK
  <2>2. QED BY <1>1, <1>2, <2>1, ValueAssumption DEF IInv, TypeOK, OneThread, Knows
<1>3. QED BY <1>1, <1>2, LookKeeps DEF HelloCheck, Steps

LEMMA HelloInitKeeps ==
    ASSUME IInv, NEW r \in Requests, HelloInit(r) PROVE IInv'
<1>1. PICK to \in {"hello_user", "hello_zero"} : Goto(r, "hello_init", to) /\ (to = "hello_user" <=> session.count # Missing)
  BY ValueAssumption DEF HelloInit, Has
<1>2. ASSUME workers = 1 PROVE Knows(r)'
  <2>1. pc[r] = "hello_init" /\ pc'[r] = to /\ session' = session
    BY <1>1 DEF HelloInit, Goto, IInv, TypeOK
  <2>2. QED BY <1>1, <1>2, <2>1, ValueAssumption DEF IInv, TypeOK, OneThread, Knows
<1>3. QED BY <1>1, <1>2, LookKeeps DEF HelloInit, Steps

LEMMA HelloZeroKeeps ==
    ASSUME IInv, NEW r \in Requests, HelloZero(r) PROVE IInv'
<1> USE DEF IInv
<1>1. PICK to \in {"hello_user"} : Goto(r, "hello_zero", to)
  BY ValueAssumption DEF HelloZero, Disturb, Assign
<1>2. /\ workers' = workers /\ pc[r] = "hello_zero"
      /\ pc' \in [Requests -> PCs] /\ pc'[r] = to /\ \A q \in Requests \ {r} : pc'[q] = pc[q]
      /\ busy' = {q \in Requests : pc'[q] \in Steps} /\ Cardinality(busy') <= workers
  BY <1>1, Moves DEF Steps
<1>3. /\ Cardinality(Sent) <= Cardinality(Sent)' /\ Cardinality(Greeted) <= Cardinality(Greeted)'
      /\ Cardinality(Sent) \in Counts /\ Cardinality(Greeted) \in Counts
      /\ Cardinality(Sent)' \in Nat /\ Cardinality(Greeted)' \in Nat
  BY <1>2, SetsGrow DEF Steps
<1>4. \A k \in Counts : k \in Nat /\ k # Missing /\ k # Null
  BY ValueAssumption, Sizes DEF Counts
<1>5. TypeOK'
  <2>1. 0 \in Counts
    BY Sizes DEF Counts
  <2>2. QED BY <1>1, <1>2, <1>4, <2>1, ValueAssumption DEF HelloZero, Disturb, Assign, TypeOK, Made
<1>6. Bounded'
  <2>1. session'.cnt \in {session.cnt, 0, Null} /\ session'.count \in {session.count, 0}
    BY DEF HelloZero, Disturb, Assign, TypeOK
  <2>2. /\ \A q \in Requests : pc'[q] = "send_write" =>
              (pc[q] = "send_write" /\ local'[q] = local[q]) \/ (session.cnt \in Counts /\ local'[q] = session.cnt)
        /\ \A q \in Requests : pc'[q] = "hello_write" =>
              (pc[q] = "hello_write" /\ local'[q] = local[q]) \/ (session.count \in Counts /\ local'[q] = session.count)
    BY <1>1, <1>2 DEF HelloZero, Disturb, Assign, TypeOK, Made
  <2>3. local \in [Requests -> Counts]
    BY DEF TypeOK
  <2>4. QED BY <1>3, <1>4, <2>1, <2>2, <2>3, BoundedStays
<1>7. Made'
  BY <1>1, <1>2, <1>4, <1>5, ValueAssumption DEF HelloZero, Disturb, Assign, TypeOK, Made
<1>8. ASSUME workers = 1 PROVE session'.user # Null /\ (\A q \in Requests : Knows(q)') /\ Counted'
  <2> USE <1>8, ValueAssumption DEF OneThread
  <2>1. \A q \in Requests \ {r} : pc[q] \notin Steps
    BY <1>1, <1>2, Alone DEF Steps
  <2>2. session'.user # Null /\ (session.cnt = Null => session'.cnt = Null)
    BY <1>1, <1>2, <1>4 DEF HelloZero, Disturb, Assign, TypeOK, Knows
  <2>3. Knows(r)'
    BY <1>1, <1>2, <1>4, <2>1 DEF HelloZero, Disturb, Assign, TypeOK, Knows, Made, Counted, Steps
  <2>4. \A q \in Requests \ {r} : Knows(q)'
    BY <1>2, <2>1, <2>2, OthersKnow
  <2>5. Counted'
    BY <1>1, <1>2, <1>4, <2>1 DEF HelloZero, Disturb, Assign, TypeOK, Knows, Counted, Steps
  <2>6. QED BY <2>2, <2>3, <2>4, <2>5
<1>9. QED BY <1>2, <1>5, <1>6, <1>7, <1>8 DEF OneThread

LEMMA HelloUserKeeps ==
    ASSUME IInv, NEW r \in Requests, HelloUser(r) PROVE IInv'
<1> USE DEF IInv
<1>1. PICK to \in {"hello_read", "failed"} : Goto(r, "hello_user", to) /\ (to = "hello_read" <=> session.user \in Users)
  BY ValueAssumption DEF HelloUser, Disturb, Assign
<1>2. /\ workers' = workers /\ pc[r] = "hello_user"
      /\ pc' \in [Requests -> PCs] /\ pc'[r] = to /\ \A q \in Requests \ {r} : pc'[q] = pc[q]
      /\ busy' = {q \in Requests : pc'[q] \in Steps} /\ Cardinality(busy') <= workers
  BY <1>1, Moves DEF Steps
<1>3. /\ Cardinality(Sent) <= Cardinality(Sent)' /\ Cardinality(Greeted) <= Cardinality(Greeted)'
      /\ Cardinality(Sent) \in Counts /\ Cardinality(Greeted) \in Counts
      /\ Cardinality(Sent)' \in Nat /\ Cardinality(Greeted)' \in Nat
  BY <1>2, SetsGrow DEF Steps
<1>4. \A k \in Counts : k \in Nat /\ k # Missing /\ k # Null
  BY ValueAssumption, Sizes DEF Counts
<1>5. TypeOK'
  <2>1. 0 \in Counts
    BY Sizes DEF Counts
  <2>2. QED BY <1>1, <1>2, <1>4, <2>1, ValueAssumption DEF HelloUser, Disturb, Assign, TypeOK, Made
<1>6. Bounded'
  <2>1. session'.cnt \in {session.cnt, 0, Null} /\ session'.count \in {session.count, 0}
    BY DEF HelloUser, Disturb, Assign, TypeOK
  <2>2. /\ \A q \in Requests : pc'[q] = "send_write" =>
              (pc[q] = "send_write" /\ local'[q] = local[q]) \/ (session.cnt \in Counts /\ local'[q] = session.cnt)
        /\ \A q \in Requests : pc'[q] = "hello_write" =>
              (pc[q] = "hello_write" /\ local'[q] = local[q]) \/ (session.count \in Counts /\ local'[q] = session.count)
    BY <1>1, <1>2 DEF HelloUser, Disturb, Assign, TypeOK, Made
  <2>3. local \in [Requests -> Counts]
    BY DEF TypeOK
  <2>4. QED BY <1>3, <1>4, <2>1, <2>2, <2>3, BoundedStays
<1>7. Made'
  BY <1>1, <1>2, <1>4, <1>5, ValueAssumption DEF HelloUser, Disturb, Assign, TypeOK, Made
<1>8. ASSUME workers = 1 PROVE session'.user # Null /\ (\A q \in Requests : Knows(q)') /\ Counted'
  <2> USE <1>8, ValueAssumption DEF OneThread
  <2>1. \A q \in Requests \ {r} : pc[q] \notin Steps
    BY <1>1, <1>2, Alone DEF Steps
  <2>2. session'.user # Null /\ (session.cnt = Null => session'.cnt = Null)
    BY <1>1, <1>2, <1>4 DEF HelloUser, Disturb, Assign, TypeOK, Knows
  <2>3. Knows(r)'
    BY <1>1, <1>2, <1>4, <2>1 DEF HelloUser, Disturb, Assign, TypeOK, Knows, Made, Counted, Steps
  <2>4. \A q \in Requests \ {r} : Knows(q)'
    BY <1>2, <2>1, <2>2, OthersKnow
  <2>5. Counted'
    BY <1>1, <1>2, <1>4, <2>1 DEF HelloUser, Disturb, Assign, TypeOK, Knows, Counted, Steps
  <2>6. QED BY <2>2, <2>3, <2>4, <2>5
<1>9. QED BY <1>2, <1>5, <1>6, <1>7, <1>8 DEF OneThread

LEMMA HelloReadKeeps ==
    ASSUME IInv, NEW r \in Requests, HelloRead(r) PROVE IInv'
<1> USE DEF IInv
<1>1. PICK to \in {"hello_write"} : Goto(r, "hello_read", to)
  BY ValueAssumption DEF HelloRead
<1>2. /\ workers' = workers /\ pc[r] = "hello_read"
      /\ pc' \in [Requests -> PCs] /\ pc'[r] = to /\ \A q \in Requests \ {r} : pc'[q] = pc[q]
      /\ busy' = {q \in Requests : pc'[q] \in Steps} /\ Cardinality(busy') <= workers
  BY <1>1, Moves DEF Steps
<1>3. /\ Cardinality(Sent) <= Cardinality(Sent)' /\ Cardinality(Greeted) <= Cardinality(Greeted)'
      /\ Cardinality(Sent) \in Counts /\ Cardinality(Greeted) \in Counts
      /\ Cardinality(Sent)' \in Nat /\ Cardinality(Greeted)' \in Nat
  BY <1>2, SetsGrow DEF Steps
<1>4. \A k \in Counts : k \in Nat /\ k # Missing /\ k # Null
  BY ValueAssumption, Sizes DEF Counts
<1>5. TypeOK'
  <2>1. 0 \in Counts
    BY Sizes DEF Counts
  <2>2. QED BY <1>1, <1>2, <1>4, <2>1, ValueAssumption DEF HelloRead, TypeOK, Made
<1>6. Bounded'
  <2>1. session'.cnt \in {session.cnt, 0, Null} /\ session'.count \in {session.count, 0}
    BY DEF HelloRead, TypeOK
  <2>2. /\ \A q \in Requests : pc'[q] = "send_write" =>
              (pc[q] = "send_write" /\ local'[q] = local[q]) \/ (session.cnt \in Counts /\ local'[q] = session.cnt)
        /\ \A q \in Requests : pc'[q] = "hello_write" =>
              (pc[q] = "hello_write" /\ local'[q] = local[q]) \/ (session.count \in Counts /\ local'[q] = session.count)
    BY <1>1, <1>2 DEF HelloRead, TypeOK, Made
  <2>3. local \in [Requests -> Counts]
    BY DEF TypeOK
  <2>4. QED BY <1>3, <1>4, <2>1, <2>2, <2>3, BoundedStays
<1>7. Made'
  BY <1>1, <1>2, <1>4, <1>5, ValueAssumption DEF HelloRead, TypeOK, Made
<1>8. ASSUME workers = 1 PROVE session'.user # Null /\ (\A q \in Requests : Knows(q)') /\ Counted'
  <2> USE <1>8, ValueAssumption DEF OneThread
  <2>1. \A q \in Requests \ {r} : pc[q] \notin Steps
    BY <1>1, <1>2, Alone DEF Steps
  <2>2. session'.user # Null /\ (session.cnt = Null => session'.cnt = Null)
    BY <1>1, <1>2, <1>4 DEF HelloRead, TypeOK, Knows
  <2>3. Knows(r)'
    BY <1>1, <1>2, <1>4, <2>1 DEF HelloRead, TypeOK, Knows, Made, Counted, Steps
  <2>4. \A q \in Requests \ {r} : Knows(q)'
    BY <1>2, <2>1, <2>2, OthersKnow
  <2>5. Counted'
    BY <1>1, <1>2, <1>4, <2>1 DEF HelloRead, TypeOK, Knows, Counted, Steps
  <2>6. QED BY <2>2, <2>3, <2>4, <2>5
<1>9. QED BY <1>2, <1>5, <1>6, <1>7, <1>8 DEF OneThread

LEMMA HelloWriteKeeps ==
    ASSUME IInv, NEW r \in Requests, HelloWrite(r) PROVE IInv'
<1> USE DEF IInv
<1>1. PICK to \in {"hello_answer"} : Goto(r, "hello_write", to)
  BY ValueAssumption DEF HelloWrite, Assign
<1>2. /\ workers' = workers /\ pc[r] = "hello_write"
      /\ pc' \in [Requests -> PCs] /\ pc'[r] = to /\ \A q \in Requests \ {r} : pc'[q] = pc[q]
      /\ busy' = {q \in Requests : pc'[q] \in Steps} /\ Cardinality(busy') <= workers
  BY <1>1, Moves DEF Steps
<1>3. /\ Cardinality(Sent) <= Cardinality(Sent)' /\ Cardinality(Greeted) <= Cardinality(Greeted)'
      /\ Cardinality(Sent) \in Counts /\ Cardinality(Greeted) \in Counts
      /\ Cardinality(Sent)' \in Nat /\ Cardinality(Greeted)' \in Nat
      /\ Cardinality(Greeted)' = Cardinality(Greeted) + 1 /\ Cardinality(Greeted)' \in Counts
  BY <1>2, SetsGrow DEF Steps
<1>4. \A k \in Counts : k \in Nat /\ k # Missing /\ k # Null
  BY ValueAssumption, Sizes DEF Counts
<1>5. TypeOK'
  <2>1. local[r] \in Counts /\ local[r] <= Cardinality(Greeted)
    BY <1>2 DEF TypeOK, Bounded
  <2>2. local[r] + 1 \in Counts
    BY <1>3, <1>4, <2>1, Sizes DEF Counts
  <2>3. session' = [session EXCEPT !["count"] = local[r] + 1]
    BY DEF HelloWrite, Assign
  <2>4. QED BY <1>1, <1>2, <2>2, <2>3 DEF HelloWrite, TypeOK
<1>6. Bounded'
  <2>1. session'.count = local[r] + 1 /\ session'.cnt = session.cnt /\ local' = local
    BY DEF HelloWrite, Assign, TypeOK
  <2>2. local[r] \in Nat /\ local[r] <= Cardinality(Greeted) /\ \A q \in Requests : local[q] \in Nat
    BY <1>2, <1>4 DEF TypeOK, Bounded
  <2>3. session'.count <= Cardinality(Greeted)'
    BY <1>3, <1>4, <2>1, <2>2
  <2>4. \A q \in Requests : pc'[q] \in {"send_write", "hello_write"} => pc[q] = pc'[q]
    BY <1>1, <1>2
  <2>5. QED BY <1>3, <1>4, <2>1, <2>2, <2>3, <2>4 DEF Bounded
<1>7. Made'
  BY <1>1, <1>2, <1>4, <1>5, ValueAssumption DEF HelloWrite, Assign, TypeOK, Made
<1>8. ASSUME workers = 1 PROVE session'.user # Null /\ (\A q \in Requests : Knows(q)') /\ Counted'
  <2> USE <1>8, ValueAssumption DEF OneThread
  <2>1. \A q \in Requests \ {r} : pc[q] \notin Steps
    BY <1>1, <1>2, Alone DEF Steps
  <2>2. session'.user # Null /\ (session.cnt = Null => session'.cnt = Null)
    BY <1>1, <1>2, <1>4 DEF HelloWrite, Assign, TypeOK, Knows
  <2>3. Knows(r)'
    BY <1>1, <1>2, <1>4, <2>1 DEF HelloWrite, Assign, TypeOK, Knows, Made, Counted, Steps
  <2>4. \A q \in Requests \ {r} : Knows(q)'
    BY <1>2, <2>1, <2>2, OthersKnow
  <2>5. Counted'
    BY <1>1, <1>2, <1>4, <2>1 DEF HelloWrite, Assign, TypeOK, Knows, Counted, Steps
  <2>6. QED BY <2>2, <2>3, <2>4, <2>5
<1>9. QED BY <1>2, <1>5, <1>6, <1>7, <1>8 DEF OneThread

LEMMA HelloAnswerKeeps ==
    ASSUME IInv, NEW r \in Requests, HelloAnswer(r) PROVE IInv'
<1> USE DEF IInv
<1>1. PICK to \in {"done"} : Goto(r, "hello_answer", to)
  BY ValueAssumption DEF HelloAnswer
<1>2. /\ workers' = workers /\ pc[r] = "hello_answer"
      /\ pc' \in [Requests -> PCs] /\ pc'[r] = to /\ \A q \in Requests \ {r} : pc'[q] = pc[q]
      /\ busy' = {q \in Requests : pc'[q] \in Steps} /\ Cardinality(busy') <= workers
  BY <1>1, Moves DEF Steps
<1>3. /\ Cardinality(Sent) <= Cardinality(Sent)' /\ Cardinality(Greeted) <= Cardinality(Greeted)'
      /\ Cardinality(Sent) \in Counts /\ Cardinality(Greeted) \in Counts
      /\ Cardinality(Sent)' \in Nat /\ Cardinality(Greeted)' \in Nat
  BY <1>2, SetsGrow DEF Steps
<1>4. \A k \in Counts : k \in Nat /\ k # Missing /\ k # Null
  BY ValueAssumption, Sizes DEF Counts
<1>5. TypeOK'
  <2>1. 0 \in Counts
    BY Sizes DEF Counts
  <2>2. QED BY <1>1, <1>2, <1>4, <2>1, ValueAssumption DEF HelloAnswer, TypeOK, Made
<1>6. Bounded'
  <2>1. session'.cnt \in {session.cnt, 0, Null} /\ session'.count \in {session.count, 0}
    BY DEF HelloAnswer, TypeOK
  <2>2. /\ \A q \in Requests : pc'[q] = "send_write" =>
              (pc[q] = "send_write" /\ local'[q] = local[q]) \/ (session.cnt \in Counts /\ local'[q] = session.cnt)
        /\ \A q \in Requests : pc'[q] = "hello_write" =>
              (pc[q] = "hello_write" /\ local'[q] = local[q]) \/ (session.count \in Counts /\ local'[q] = session.count)
    BY <1>1, <1>2 DEF HelloAnswer, TypeOK, Made
  <2>3. local \in [Requests -> Counts]
    BY DEF TypeOK
  <2>4. QED BY <1>3, <1>4, <2>1, <2>2, <2>3, BoundedStays
<1>7. Made'
  BY <1>1, <1>2, <1>4, <1>5, ValueAssumption DEF HelloAnswer, TypeOK, Made
<1>8. ASSUME workers = 1 PROVE session'.user # Null /\ (\A q \in Requests : Knows(q)') /\ Counted'
  <2> USE <1>8, ValueAssumption DEF OneThread
  <2>1. \A q \in Requests \ {r} : pc[q] \notin Steps
    BY <1>1, <1>2, Alone DEF Steps
  <2>2. session'.user # Null /\ (session.cnt = Null => session'.cnt = Null)
    BY <1>1, <1>2, <1>4 DEF HelloAnswer, TypeOK, Knows
  <2>3. Knows(r)'
    BY <1>1, <1>2, <1>4, <2>1 DEF HelloAnswer, TypeOK, Knows, Made, Counted, Steps
  <2>4. \A q \in Requests \ {r} : Knows(q)'
    BY <1>2, <2>1, <2>2, OthersKnow
  <2>5. Counted'
    BY <1>1, <1>2, <1>4, <2>1 DEF HelloAnswer, TypeOK, Knows, Counted, Steps
  <2>6. QED BY <2>2, <2>3, <2>4, <2>5
<1>9. QED BY <1>2, <1>5, <1>6, <1>7, <1>8 DEF OneThread

LEMMA LoginKeeps ==
    ASSUME IInv, NEW r \in Requests, Login(r) PROVE IInv'
<1> USE DEF IInv
<1>1. PICK to \in {"done"} : Goto(r, "login", to)
  BY ValueAssumption DEF Login, Has, Disturb, Assign
<1>2. /\ workers' = workers /\ pc[r] = "login"
      /\ pc' \in [Requests -> PCs] /\ pc'[r] = to /\ \A q \in Requests \ {r} : pc'[q] = pc[q]
      /\ busy' = {q \in Requests : pc'[q] \in Steps} /\ Cardinality(busy') <= workers
  BY <1>1, Moves DEF Steps
<1>3. /\ Cardinality(Sent) <= Cardinality(Sent)' /\ Cardinality(Greeted) <= Cardinality(Greeted)'
      /\ Cardinality(Sent) \in Counts /\ Cardinality(Greeted) \in Counts
      /\ Cardinality(Sent)' \in Nat /\ Cardinality(Greeted)' \in Nat
  BY <1>2, SetsGrow DEF Steps
<1>4. \A k \in Counts : k \in Nat /\ k # Missing /\ k # Null
  BY ValueAssumption, Sizes DEF Counts
<1>5. TypeOK'
  <2>1. 0 \in Counts
    BY Sizes DEF Counts
  <2>2. QED BY <1>1, <1>2, <1>4, <2>1, ValueAssumption DEF Login, Has, Disturb, Assign, TypeOK, Made
<1>6. Bounded'
  <2>1. session'.cnt \in {session.cnt, 0, Null} /\ session'.count \in {session.count, 0}
    BY DEF Login, Has, Disturb, Assign, TypeOK
  <2>2. /\ \A q \in Requests : pc'[q] = "send_write" =>
              (pc[q] = "send_write" /\ local'[q] = local[q]) \/ (session.cnt \in Counts /\ local'[q] = session.cnt)
        /\ \A q \in Requests : pc'[q] = "hello_write" =>
              (pc[q] = "hello_write" /\ local'[q] = local[q]) \/ (session.count \in Counts /\ local'[q] = session.count)
    BY <1>1, <1>2 DEF Login, Has, Disturb, Assign, TypeOK, Made
  <2>3. local \in [Requests -> Counts]
    BY DEF TypeOK
  <2>4. QED BY <1>3, <1>4, <2>1, <2>2, <2>3, BoundedStays
<1>7. Made'
  BY <1>1, <1>2, <1>4, <1>5, ValueAssumption DEF Login, Has, Disturb, Assign, TypeOK, Made
<1>8. ASSUME workers = 1 PROVE session'.user # Null /\ (\A q \in Requests : Knows(q)') /\ Counted'
  <2> USE <1>8, ValueAssumption DEF OneThread
  <2>1. \A q \in Requests \ {r} : pc[q] \notin Steps
    BY <1>1, <1>2, Alone DEF Steps
  <2>2. session'.user # Null /\ (session.cnt = Null => session'.cnt = Null)
    BY <1>1, <1>2, <1>4 DEF Login, Has, Disturb, Assign, TypeOK, Knows
  <2>3. Knows(r)'
    BY <1>1, <1>2, <1>4, <2>1 DEF Login, Has, Disturb, Assign, TypeOK, Knows, Made, Counted, Steps
  <2>4. \A q \in Requests \ {r} : Knows(q)'
    BY <1>2, <2>1, <2>2, OthersKnow
  <2>5. Counted'
    BY <1>1, <1>2, <1>4, <2>1 DEF Login, Has, Disturb, Assign, TypeOK, Knows, Counted, Steps
  <2>6. QED BY <2>2, <2>3, <2>4, <2>5
<1>9. QED BY <1>2, <1>5, <1>6, <1>7, <1>8 DEF OneThread

LEMMA LogoutCheckKeeps ==
    ASSUME IInv, NEW r \in Requests, LogoutCheck(r) PROVE IInv'
<1>1. PICK to \in {"logout_erase", "done"} : Goto(r, "logout_check", to) /\ (to = "logout_erase" <=> session.user # Missing)
  BY ValueAssumption DEF LogoutCheck, Has
<1>2. ASSUME workers = 1 PROVE Knows(r)'
  <2>1. pc[r] = "logout_check" /\ pc'[r] = to /\ session' = session
    BY <1>1 DEF LogoutCheck, Goto, IInv, TypeOK
  <2>2. QED BY <1>1, <1>2, <2>1, ValueAssumption DEF IInv, TypeOK, OneThread, Knows
<1>3. QED BY <1>1, <1>2, LookKeeps DEF LogoutCheck, Steps

LEMMA LogoutEraseKeeps ==
    ASSUME IInv, NEW r \in Requests, LogoutErase(r) PROVE IInv'
<1> USE DEF IInv
<1>1. PICK to \in {"done"} : Goto(r, "logout_erase", to)
  BY ValueAssumption DEF LogoutErase, Disturb, Assign
<1>2. /\ workers' = workers /\ pc[r] = "logout_erase"
      /\ pc' \in [Requests -> PCs] /\ pc'[r] = to /\ \A q \in Requests \ {r} : pc'[q] = pc[q]
      /\ busy' = {q \in Requests : pc'[q] \in Steps} /\ Cardinality(busy') <= workers
  BY <1>1, Moves DEF Steps
<1>3. /\ Cardinality(Sent) <= Cardinality(Sent)' /\ Cardinality(Greeted) <= Cardinality(Greeted)'
      /\ Cardinality(Sent) \in Counts /\ Cardinality(Greeted) \in Counts
      /\ Cardinality(Sent)' \in Nat /\ Cardinality(Greeted)' \in Nat
  BY <1>2, SetsGrow DEF Steps
<1>4. \A k \in Counts : k \in Nat /\ k # Missing /\ k # Null
  BY ValueAssumption, Sizes DEF Counts
<1>5. TypeOK'
  <2>1. 0 \in Counts
    BY Sizes DEF Counts
  <2>2. QED BY <1>1, <1>2, <1>4, <2>1, ValueAssumption DEF LogoutErase, Disturb, Assign, TypeOK, Made
<1>6. Bounded'
  <2>1. session'.cnt \in {session.cnt, 0, Null} /\ session'.count \in {session.count, 0}
    BY DEF LogoutErase, Disturb, Assign, TypeOK
  <2>2. /\ \A q \in Requests : pc'[q] = "send_write" =>
              (pc[q] = "send_write" /\ local'[q] = local[q]) \/ (session.cnt \in Counts /\ local'[q] = session.cnt)
        /\ \A q \in Requests : pc'[q] = "hello_write" =>
              (pc[q] = "hello_write" /\ local'[q] = local[q]) \/ (session.count \in Counts /\ local'[q] = session.count)
    BY <1>1, <1>2 DEF LogoutErase, Disturb, Assign, TypeOK, Made
  <2>3. local \in [Requests -> Counts]
    BY DEF TypeOK
  <2>4. QED BY <1>3, <1>4, <2>1, <2>2, <2>3, BoundedStays
<1>7. Made'
  BY <1>1, <1>2, <1>4, <1>5, ValueAssumption DEF LogoutErase, Disturb, Assign, TypeOK, Made
<1>8. ASSUME workers = 1 PROVE session'.user # Null /\ (\A q \in Requests : Knows(q)') /\ Counted'
  <2> USE <1>8, ValueAssumption DEF OneThread
  <2>1. \A q \in Requests \ {r} : pc[q] \notin Steps
    BY <1>1, <1>2, Alone DEF Steps
  <2>2. session'.user # Null /\ (session.cnt = Null => session'.cnt = Null)
    BY <1>1, <1>2, <1>4 DEF LogoutErase, Disturb, Assign, TypeOK, Knows
  <2>3. Knows(r)'
    BY <1>1, <1>2, <1>4, <2>1 DEF LogoutErase, Disturb, Assign, TypeOK, Knows, Made, Counted, Steps
  <2>4. \A q \in Requests \ {r} : Knows(q)'
    BY <1>2, <2>1, <2>2, OthersKnow
  <2>5. Counted'
    BY <1>1, <1>2, <1>4, <2>1 DEF LogoutErase, Disturb, Assign, TypeOK, Knows, Counted, Steps
  <2>6. QED BY <2>2, <2>3, <2>4, <2>5
<1>9. QED BY <1>2, <1>5, <1>6, <1>7, <1>8 DEF OneThread

LEMMA IndexCheckKeeps ==
    ASSUME IInv, NEW r \in Requests, IndexCheck(r) PROVE IInv'
<1>1. PICK to \in {"index_copy", "done"} : Goto(r, "index_check", to) /\ (to = "index_copy" <=> session.user # Missing)
  BY ValueAssumption DEF IndexCheck, Has
<1>2. ASSUME workers = 1 PROVE Knows(r)'
  <2>1. pc[r] = "index_check" /\ pc'[r] = to /\ session' = session
    BY <1>1 DEF IndexCheck, Goto, IInv, TypeOK
  <2>2. QED BY <1>1, <1>2, <2>1, ValueAssumption DEF IInv, TypeOK, OneThread, Knows
<1>3. QED BY <1>1, <1>2, LookKeeps DEF IndexCheck, Steps

LEMMA IndexCopyKeeps ==
    ASSUME IInv, NEW r \in Requests, IndexCopy(r) PROVE IInv'
<1> USE DEF IInv
<1>1. PICK to \in {"done"} : Goto(r, "index_copy", to)
  BY ValueAssumption DEF IndexCopy, Has, Disturb, Assign
<1>2. /\ workers' = workers /\ pc[r] = "index_copy"
      /\ pc' \in [Requests -> PCs] /\ pc'[r] = to /\ \A q \in Requests \ {r} : pc'[q] = pc[q]
      /\ busy' = {q \in Requests : pc'[q] \in Steps} /\ Cardinality(busy') <= workers
  BY <1>1, Moves DEF Steps
<1>3. /\ Cardinality(Sent) <= Cardinality(Sent)' /\ Cardinality(Greeted) <= Cardinality(Greeted)'
      /\ Cardinality(Sent) \in Counts /\ Cardinality(Greeted) \in Counts
      /\ Cardinality(Sent)' \in Nat /\ Cardinality(Greeted)' \in Nat
  BY <1>2, SetsGrow DEF Steps
<1>4. \A k \in Counts : k \in Nat /\ k # Missing /\ k # Null
  BY ValueAssumption, Sizes DEF Counts
<1>5. TypeOK'
  <2>1. 0 \in Counts
    BY Sizes DEF Counts
  <2>2. QED BY <1>1, <1>2, <1>4, <2>1, ValueAssumption DEF IndexCopy, Has, Disturb, Assign, TypeOK, Made
<1>6. Bounded'
  <2>1. session'.cnt \in {session.cnt, 0, Null} /\ session'.count \in {session.count, 0}
    BY DEF IndexCopy, Has, Disturb, Assign, TypeOK
  <2>2. /\ \A q \in Requests : pc'[q] = "send_write" =>
              (pc[q] = "send_write" /\ local'[q] = local[q]) \/ (session.cnt \in Counts /\ local'[q] = session.cnt)
        /\ \A q \in Requests : pc'[q] = "hello_write" =>
              (pc[q] = "hello_write" /\ local'[q] = local[q]) \/ (session.count \in Counts /\ local'[q] = session.count)
    BY <1>1, <1>2 DEF IndexCopy, Has, Disturb, Assign, TypeOK, Made
  <2>3. local \in [Requests -> Counts]
    BY DEF TypeOK
  <2>4. QED BY <1>3, <1>4, <2>1, <2>2, <2>3, BoundedStays
<1>7. Made'
  BY <1>1, <1>2, <1>4, <1>5, ValueAssumption DEF IndexCopy, Has, Disturb, Assign, TypeOK, Made
<1>8. ASSUME workers = 1 PROVE session'.user # Null /\ (\A q \in Requests : Knows(q)') /\ Counted'
  <2> USE <1>8, ValueAssumption DEF OneThread
  <2>1. \A q \in Requests \ {r} : pc[q] \notin Steps
    BY <1>1, <1>2, Alone DEF Steps
  <2>2. session'.user # Null /\ (session.cnt = Null => session'.cnt = Null)
    BY <1>1, <1>2, <1>4 DEF IndexCopy, Has, Disturb, Assign, TypeOK, Knows
  <2>3. Knows(r)'
    BY <1>1, <1>2, <1>4, <2>1 DEF IndexCopy, Has, Disturb, Assign, TypeOK, Knows, Made, Counted, Steps
  <2>4. \A q \in Requests \ {r} : Knows(q)'
    BY <1>2, <2>1, <2>2, OthersKnow
  <2>5. Counted'
    BY <1>1, <1>2, <1>4, <2>1 DEF IndexCopy, Has, Disturb, Assign, TypeOK, Knows, Counted, Steps
  <2>6. QED BY <2>2, <2>3, <2>4, <2>5
<1>9. QED BY <1>2, <1>5, <1>6, <1>7, <1>8 DEF OneThread

LEMMA SendPostKeeps ==
    ASSUME IInv, NEW r \in Requests, SendPost(r) PROVE IInv'
<1>1. PICK to \in {"send_wait"} : Goto(r, "send_post", to)
  BY ValueAssumption DEF SendPost
<1>2. ASSUME workers = 1 PROVE Knows(r)'
  <2>1. pc[r] = "send_post" /\ pc'[r] = to /\ session' = session
    BY <1>1 DEF SendPost, Goto, IInv, TypeOK
  <2>2. QED BY <1>1, <1>2, <2>1, ValueAssumption DEF IInv, TypeOK, OneThread, Knows
<1>3. QED BY <1>1, <1>2, LookKeeps DEF SendPost, Steps

LEMMA SendResumeKeeps ==
    ASSUME IInv, NEW r \in Requests, SendResume(r) PROVE IInv'
<1>1. PICK to \in {"send_init", "refused"} : Goto(r, "send_wait", to)
  BY ValueAssumption DEF SendResume
<1>2. ASSUME workers = 1 PROVE Knows(r)'
  <2>1. pc[r] = "send_wait" /\ pc'[r] = to /\ session' = session
    BY <1>1 DEF SendResume, Goto, IInv, TypeOK
  <2>2. QED BY <1>1, <1>2, <2>1, ValueAssumption DEF IInv, TypeOK, OneThread, Knows
<1>3. QED BY <1>1, <1>2, LookKeeps DEF SendResume, Steps

LEMMA SendInitKeeps ==
    ASSUME IInv, NEW r \in Requests, SendInit(r) PROVE IInv'
<1>1. PICK to \in {"send_read", "send_zero"} : Goto(r, "send_init", to) /\ (to = "send_read" <=> session.cnt # Missing)
  BY ValueAssumption DEF SendInit, Has
<1>2. ASSUME workers = 1 PROVE Knows(r)'
  <2>1. pc[r] = "send_init" /\ pc'[r] = to /\ session' = session
    BY <1>1 DEF SendInit, Goto, IInv, TypeOK
  <2>2. QED BY <1>1, <1>2, <2>1, ValueAssumption DEF IInv, TypeOK, OneThread, Knows
<1>3. QED BY <1>1, <1>2, LookKeeps DEF SendInit, Steps

LEMMA SendZeroKeeps ==
    ASSUME IInv, NEW r \in Requests, SendZero(r) PROVE IInv'
<1> USE DEF IInv
<1>1. PICK to \in {"send_read"} : Goto(r, "send_zero", to)
  BY ValueAssumption DEF SendZero, Disturb, Assign
<1>2. /\ workers' = workers /\ pc[r] = "send_zero"
      /\ pc' \in [Requests -> PCs] /\ pc'[r] = to /\ \A q \in Requests \ {r} : pc'[q] = pc[q]
      /\ busy' = {q \in Requests : pc'[q] \in Steps} /\ Cardinality(busy') <= workers
  BY <1>1, Moves DEF Steps
<1>3. /\ Cardinality(Sent) <= Cardinality(Sent)' /\ Cardinality(Greeted) <= Cardinality(Greeted)'
      /\ Cardinality(Sent) \in Counts /\ Cardinality(Greeted) \in Counts
      /\ Cardinality(Sent)' \in Nat /\ Cardinality(Greeted)' \in Nat
  BY <1>2, SetsGrow DEF Steps
<1>4. \A k \in Counts : k \in Nat /\ k # Missing /\ k # Null
  BY ValueAssumption, Sizes DEF Counts
<1>5. TypeOK'
  <2>1. 0 \in Counts
    BY Sizes DEF Counts
  <2>2. QED BY <1>1, <1>2, <1>4, <2>1, ValueAssumption DEF SendZero, Disturb, Assign, TypeOK, Made
<1>6. Bounded'
  <2>1. session'.cnt \in {session.cnt, 0, Null} /\ session'.count \in {session.count, 0}
    BY DEF SendZero, Disturb, Assign, TypeOK
  <2>2. /\ \A q \in Requests : pc'[q] = "send_write" =>
              (pc[q] = "send_write" /\ local'[q] = local[q]) \/ (session.cnt \in Counts /\ local'[q] = session.cnt)
        /\ \A q \in Requests : pc'[q] = "hello_write" =>
              (pc[q] = "hello_write" /\ local'[q] = local[q]) \/ (session.count \in Counts /\ local'[q] = session.count)
    BY <1>1, <1>2 DEF SendZero, Disturb, Assign, TypeOK, Made
  <2>3. local \in [Requests -> Counts]
    BY DEF TypeOK
  <2>4. QED BY <1>3, <1>4, <2>1, <2>2, <2>3, BoundedStays
<1>7. Made'
  BY <1>1, <1>2, <1>4, <1>5, ValueAssumption DEF SendZero, Disturb, Assign, TypeOK, Made
<1>8. ASSUME workers = 1 PROVE session'.user # Null /\ (\A q \in Requests : Knows(q)') /\ Counted'
  <2> USE <1>8, ValueAssumption DEF OneThread
  <2>1. \A q \in Requests \ {r} : pc[q] \notin Steps
    BY <1>1, <1>2, Alone DEF Steps
  <2>2. session'.user # Null /\ (session.cnt = Null => session'.cnt = Null)
    BY <1>1, <1>2, <1>4 DEF SendZero, Disturb, Assign, TypeOK, Knows
  <2>3. Knows(r)'
    BY <1>1, <1>2, <1>4, <2>1 DEF SendZero, Disturb, Assign, TypeOK, Knows, Made, Counted, Steps
  <2>4. \A q \in Requests \ {r} : Knows(q)'
    BY <1>2, <2>1, <2>2, OthersKnow
  <2>5. Counted'
    BY <1>1, <1>2, <1>4, <2>1 DEF SendZero, Disturb, Assign, TypeOK, Knows, Counted, Steps
  <2>6. QED BY <2>2, <2>3, <2>4, <2>5
<1>9. QED BY <1>2, <1>5, <1>6, <1>7, <1>8 DEF OneThread

LEMMA SendReadKeeps ==
    ASSUME IInv, NEW r \in Requests, SendRead(r) PROVE IInv'
<1> USE DEF IInv
<1>1. PICK to \in {"send_write", "failed"} : Goto(r, "send_read", to) /\ (to = "failed" <=> session.cnt = Null)
  BY ValueAssumption DEF SendRead
<1>2. /\ workers' = workers /\ pc[r] = "send_read"
      /\ pc' \in [Requests -> PCs] /\ pc'[r] = to /\ \A q \in Requests \ {r} : pc'[q] = pc[q]
      /\ busy' = {q \in Requests : pc'[q] \in Steps} /\ Cardinality(busy') <= workers
  BY <1>1, Moves DEF Steps
<1>3. /\ Cardinality(Sent) <= Cardinality(Sent)' /\ Cardinality(Greeted) <= Cardinality(Greeted)'
      /\ Cardinality(Sent) \in Counts /\ Cardinality(Greeted) \in Counts
      /\ Cardinality(Sent)' \in Nat /\ Cardinality(Greeted)' \in Nat
  BY <1>2, SetsGrow DEF Steps
<1>4. \A k \in Counts : k \in Nat /\ k # Missing /\ k # Null
  BY ValueAssumption, Sizes DEF Counts
<1>5. TypeOK'
  <2>1. 0 \in Counts
    BY Sizes DEF Counts
  <2>2. QED BY <1>1, <1>2, <1>4, <2>1, ValueAssumption DEF SendRead, TypeOK, Made
<1>6. Bounded'
  <2>1. session'.cnt \in {session.cnt, 0, Null} /\ session'.count \in {session.count, 0}
    BY DEF SendRead, TypeOK
  <2>2. /\ \A q \in Requests : pc'[q] = "send_write" =>
              (pc[q] = "send_write" /\ local'[q] = local[q]) \/ (session.cnt \in Counts /\ local'[q] = session.cnt)
        /\ \A q \in Requests : pc'[q] = "hello_write" =>
              (pc[q] = "hello_write" /\ local'[q] = local[q]) \/ (session.count \in Counts /\ local'[q] = session.count)
    BY <1>1, <1>2 DEF SendRead, TypeOK, Made
  <2>3. local \in [Requests -> Counts]
    BY DEF TypeOK
  <2>4. QED BY <1>3, <1>4, <2>1, <2>2, <2>3, BoundedStays
<1>7. Made'
  BY <1>1, <1>2, <1>4, <1>5, ValueAssumption DEF SendRead, TypeOK, Made
<1>8. ASSUME workers = 1 PROVE session'.user # Null /\ (\A q \in Requests : Knows(q)') /\ Counted'
  <2> USE <1>8, ValueAssumption DEF OneThread
  <2>1. \A q \in Requests \ {r} : pc[q] \notin Steps
    BY <1>1, <1>2, Alone DEF Steps
  <2>2. session'.user # Null /\ (session.cnt = Null => session'.cnt = Null)
    BY <1>1, <1>2, <1>4 DEF SendRead, TypeOK, Knows
  <2>3. Knows(r)'
    BY <1>1, <1>2, <1>4, <2>1 DEF SendRead, TypeOK, Knows, Made, Counted, Steps
  <2>4. \A q \in Requests \ {r} : Knows(q)'
    BY <1>2, <2>1, <2>2, OthersKnow
  <2>5. Counted'
    BY <1>1, <1>2, <1>4, <2>1 DEF SendRead, TypeOK, Knows, Counted, Steps
  <2>6. QED BY <2>2, <2>3, <2>4, <2>5
<1>9. QED BY <1>2, <1>5, <1>6, <1>7, <1>8 DEF OneThread

LEMMA SendWriteKeeps ==
    ASSUME IInv, NEW r \in Requests, SendWrite(r) PROVE IInv'
<1> USE DEF IInv
<1>1. PICK to \in {"send_answer"} : Goto(r, "send_write", to)
  BY ValueAssumption DEF SendWrite, Assign
<1>2. /\ workers' = workers /\ pc[r] = "send_write"
      /\ pc' \in [Requests -> PCs] /\ pc'[r] = to /\ \A q \in Requests \ {r} : pc'[q] = pc[q]
      /\ busy' = {q \in Requests : pc'[q] \in Steps} /\ Cardinality(busy') <= workers
  BY <1>1, Moves DEF Steps
<1>3. /\ Cardinality(Sent) <= Cardinality(Sent)' /\ Cardinality(Greeted) <= Cardinality(Greeted)'
      /\ Cardinality(Sent) \in Counts /\ Cardinality(Greeted) \in Counts
      /\ Cardinality(Sent)' \in Nat /\ Cardinality(Greeted)' \in Nat
      /\ Cardinality(Sent)' = Cardinality(Sent) + 1 /\ Cardinality(Sent)' \in Counts
  BY <1>2, SetsGrow DEF Steps
<1>4. \A k \in Counts : k \in Nat /\ k # Missing /\ k # Null
  BY ValueAssumption, Sizes DEF Counts
<1>5. TypeOK'
  <2>1. local[r] \in Counts /\ local[r] <= Cardinality(Sent)
    BY <1>2 DEF TypeOK, Bounded
  <2>2. local[r] + 1 \in Counts
    BY <1>3, <1>4, <2>1, Sizes DEF Counts
  <2>3. session' = [session EXCEPT !["cnt"] = local[r] + 1]
    BY DEF SendWrite, Assign
  <2>4. QED BY <1>1, <1>2, <2>2, <2>3 DEF SendWrite, TypeOK
<1>6. Bounded'
  <2>1. session'.cnt = local[r] + 1 /\ session'.count = session.count /\ local' = local
    BY DEF SendWrite, Assign, TypeOK
  <2>2. local[r] \in Nat /\ local[r] <= Cardinality(Sent) /\ \A q \in Requests : local[q] \in Nat
    BY <1>2, <1>4 DEF TypeOK, Bounded
  <2>3. session'.cnt <= Cardinality(Sent)'
    BY <1>3, <1>4, <2>1, <2>2
  <2>4. \A q \in Requests : pc'[q] \in {"send_write", "hello_write"} => pc[q] = pc'[q]
    BY <1>1, <1>2
  <2>5. QED BY <1>3, <1>4, <2>1, <2>2, <2>3, <2>4 DEF Bounded
<1>7. Made'
  BY <1>1, <1>2, <1>4, <1>5, ValueAssumption DEF SendWrite, Assign, TypeOK, Made
<1>8. ASSUME workers = 1 PROVE session'.user # Null /\ (\A q \in Requests : Knows(q)') /\ Counted'
  <2> USE <1>8, ValueAssumption DEF OneThread
  <2>1. \A q \in Requests \ {r} : pc[q] \notin Steps
    BY <1>1, <1>2, Alone DEF Steps
  <2>2. session'.user # Null /\ (session.cnt = Null => session'.cnt = Null)
    BY <1>1, <1>2, <1>4 DEF SendWrite, Assign, TypeOK, Knows
  <2>3. Knows(r)'
    BY <1>1, <1>2, <1>4, <2>1 DEF SendWrite, Assign, TypeOK, Knows, Made, Counted, Steps
  <2>4. \A q \in Requests \ {r} : Knows(q)'
    BY <1>2, <2>1, <2>2, OthersKnow
  <2>5. Counted'
    BY <1>1, <1>2, <1>4, <2>1 DEF SendWrite, Assign, TypeOK, Knows, Counted, Steps
  <2>6. QED BY <2>2, <2>3, <2>4, <2>5
<1>9. QED BY <1>2, <1>5, <1>6, <1>7, <1>8 DEF OneThread

LEMMA SendAnswerKeeps ==
    ASSUME IInv, NEW r \in Requests, SendAnswer(r) PROVE IInv'
<1> USE DEF IInv
<1>1. PICK to \in {"sent"} : Goto(r, "send_answer", to)
  BY ValueAssumption DEF SendAnswer
<1>2. /\ workers' = workers /\ pc[r] = "send_answer"
      /\ pc' \in [Requests -> PCs] /\ pc'[r] = to /\ \A q \in Requests \ {r} : pc'[q] = pc[q]
      /\ busy' = {q \in Requests : pc'[q] \in Steps} /\ Cardinality(busy') <= workers
  BY <1>1, Moves DEF Steps
<1>3. /\ Cardinality(Sent) <= Cardinality(Sent)' /\ Cardinality(Greeted) <= Cardinality(Greeted)'
      /\ Cardinality(Sent) \in Counts /\ Cardinality(Greeted) \in Counts
      /\ Cardinality(Sent)' \in Nat /\ Cardinality(Greeted)' \in Nat
  BY <1>2, SetsGrow DEF Steps
<1>4. \A k \in Counts : k \in Nat /\ k # Missing /\ k # Null
  BY ValueAssumption, Sizes DEF Counts
<1>5. TypeOK'
  <2>1. 0 \in Counts
    BY Sizes DEF Counts
  <2>2. QED BY <1>1, <1>2, <1>4, <2>1, ValueAssumption DEF SendAnswer, TypeOK, Made
<1>6. Bounded'
  <2>1. session'.cnt \in {session.cnt, 0, Null} /\ session'.count \in {session.count, 0}
    BY DEF SendAnswer, TypeOK
  <2>2. /\ \A q \in Requests : pc'[q] = "send_write" =>
              (pc[q] = "send_write" /\ local'[q] = local[q]) \/ (session.cnt \in Counts /\ local'[q] = session.cnt)
        /\ \A q \in Requests : pc'[q] = "hello_write" =>
              (pc[q] = "hello_write" /\ local'[q] = local[q]) \/ (session.count \in Counts /\ local'[q] = session.count)
    BY <1>1, <1>2 DEF SendAnswer, TypeOK, Made
  <2>3. local \in [Requests -> Counts]
    BY DEF TypeOK
  <2>4. QED BY <1>3, <1>4, <2>1, <2>2, <2>3, BoundedStays
<1>7. Made'
  BY <1>1, <1>2, <1>4, <1>5, ValueAssumption DEF SendAnswer, TypeOK, Made
<1>8. ASSUME workers = 1 PROVE session'.user # Null /\ (\A q \in Requests : Knows(q)') /\ Counted'
  <2> USE <1>8, ValueAssumption DEF OneThread
  <2>1. \A q \in Requests \ {r} : pc[q] \notin Steps
    BY <1>1, <1>2, Alone DEF Steps
  <2>2. session'.user # Null /\ (session.cnt = Null => session'.cnt = Null)
    BY <1>1, <1>2, <1>4 DEF SendAnswer, TypeOK, Knows
  <2>3. Knows(r)'
    BY <1>1, <1>2, <1>4, <2>1 DEF SendAnswer, TypeOK, Knows, Made, Counted, Steps
  <2>4. \A q \in Requests \ {r} : Knows(q)'
    BY <1>2, <2>1, <2>2, OthersKnow
  <2>5. Counted'
    BY <1>1, <1>2, <1>4, <2>1 DEF SendAnswer, TypeOK, Knows, Counted, Steps
  <2>6. QED BY <2>2, <2>3, <2>4, <2>5
<1>9. QED BY <1>2, <1>5, <1>6, <1>7, <1>8 DEF OneThread

LEMMA WsEchoKeeps ==
    ASSUME IInv, NEW r \in Requests, WsEcho(r) PROVE IInv'
<1> USE DEF IInv
<1>1. PICK to \in {"done"} : Goto(r, "ws_echo", to)
  BY ValueAssumption DEF WsEcho, Has, Disturb, Assign
<1>2. /\ workers' = workers /\ pc[r] = "ws_echo"
      /\ pc' \in [Requests -> PCs] /\ pc'[r] = to /\ \A q \in Requests \ {r} : pc'[q] = pc[q]
      /\ busy' = {q \in Requests : pc'[q] \in Steps} /\ Cardinality(busy') <= workers
  BY <1>1, Moves DEF Steps
<1>3. /\ Cardinality(Sent) <= Cardinality(Sent)' /\ Cardinality(Greeted) <= Cardinality(Greeted)'
      /\ Cardinality(Sent) \in Counts /\ Cardinality(Greeted) \in Counts
      /\ Cardinality(Sent)' \in Nat /\ Cardinality(Greeted)' \in Nat
  BY <1>2, SetsGrow DEF Steps
<1>4. \A k \in Counts : k \in Nat /\ k # Missing /\ k # Null
  BY ValueAssumption, Sizes DEF Counts
<1>5. TypeOK'
  <2>1. 0 \in Counts
    BY Sizes DEF Counts
  <2>2. QED BY <1>1, <1>2, <1>4, <2>1, ValueAssumption DEF WsEcho, Has, Disturb, Assign, TypeOK, Made
<1>6. Bounded'
  <2>1. session'.cnt \in {session.cnt, 0, Null} /\ session'.count \in {session.count, 0}
    BY DEF WsEcho, Has, Disturb, Assign, TypeOK
  <2>2. /\ \A q \in Requests : pc'[q] = "send_write" =>
              (pc[q] = "send_write" /\ local'[q] = local[q]) \/ (session.cnt \in Counts /\ local'[q] = session.cnt)
        /\ \A q \in Requests : pc'[q] = "hello_write" =>
              (pc[q] = "hello_write" /\ local'[q] = local[q]) \/ (session.count \in Counts /\ local'[q] = session.count)
    BY <1>1, <1>2 DEF WsEcho, Has, Disturb, Assign, TypeOK, Made
  <2>3. local \in [Requests -> Counts]
    BY DEF TypeOK
  <2>4. QED BY <1>3, <1>4, <2>1, <2>2, <2>3, BoundedStays
<1>7. Made'
  BY <1>1, <1>2, <1>4, <1>5, ValueAssumption DEF WsEcho, Has, Disturb, Assign, TypeOK, Made
<1>8. ASSUME workers = 1 PROVE session'.user # Null /\ (\A q \in Requests : Knows(q)') /\ Counted'
  <2> USE <1>8, ValueAssumption DEF OneThread
  <2>1. \A q \in Requests \ {r} : pc[q] \notin Steps
    BY <1>1, <1>2, Alone DEF Steps
  <2>2. session'.user # Null /\ (session.cnt = Null => session'.cnt = Null)
    BY <1>1, <1>2, <1>4 DEF WsEcho, Has, Disturb, Assign, TypeOK, Knows
  <2>3. Knows(r)'
    BY <1>1, <1>2, <1>4, <2>1 DEF WsEcho, Has, Disturb, Assign, TypeOK, Knows, Made, Counted, Steps
  <2>4. \A q \in Requests \ {r} : Knows(q)'
    BY <1>2, <2>1, <2>2, OthersKnow
  <2>5. Counted'
    BY <1>1, <1>2, <1>4, <2>1 DEF WsEcho, Has, Disturb, Assign, TypeOK, Knows, Counted, Steps
  <2>6. QED BY <2>2, <2>3, <2>4, <2>5
<1>9. QED BY <1>2, <1>5, <1>6, <1>7, <1>8 DEF OneThread

-----------------------------------------------------------------------------
LEMMA StepKeeps == IInv /\ [Next]_vars => IInv'
<1> SUFFICES ASSUME IInv, [Next]_vars PROVE IInv'
  OBVIOUS
<1>1. ASSUME NEW r \in Requests, Hello(r) PROVE IInv'
  BY <1>1, HelloCheckKeeps, HelloInitKeeps, HelloZeroKeeps, HelloUserKeeps, HelloReadKeeps,
     HelloWriteKeeps, HelloAnswerKeeps
  DEF Hello
<1>2. ASSUME NEW r \in Requests, Send(r) PROVE IInv'
  BY <1>2, SendPostKeeps, SendResumeKeeps, SendInitKeeps, SendZeroKeeps, SendReadKeeps,
     SendWriteKeeps, SendAnswerKeeps
  DEF Send
<1>3. CASE UNCHANGED vars
  BY <1>3 DEF vars, IInv, TypeOK, Bounded, Sent, Greeted, Made, OneThread, Knows, Counted
<1>4. QED
  BY <1>1, <1>2, <1>3, StartKeeps, LoginKeeps, LogoutCheckKeeps, LogoutEraseKeeps,
     IndexCheckKeeps, IndexCopyKeeps, WsEchoKeeps
  DEF Next

LEMMA Invariance == Spec => []IInv
BY Initially, StepKeeps, PTL DEF Spec

(* The keys keep the types their readers take for granted, and on one      *)
(* thread no handler leaves a null user behind.                            *)
THEOREM SessionObjectStaysSound == Spec => []SessionObjectSound
<1>1. IInv => SessionObjectSound
  BY DEF IInv, OneThread, SessionObjectSound, NoNullUser
<1>2. QED BY <1>1, Invariance, PTL

(* On one thread the reference to user that hello takes is valid until its *)
(* answer is built, whatever the other requests of the session are.        *)
THEOREM ReferencesAreSafe == Spec => []UserReferenceSafe
<1>1. IInv => UserReferenceSafe
  BY DEF IInv, OneThread, Knows, UserReferenceSafe, ReferenceValid
<1>2. QED BY <1>1, Invariance, PTL

(* No number of threads counts a /send too often, and one thread counts    *)
(* them all, however their waits overlap.                                  *)
THEOREM SendsAreCounted == Spec => []SendsCounted
<1>1. IInv => SendsCounted
  <2> SUFFICES ASSUME IInv PROVE SendsCounted
    OBVIOUS
  <2>1. NeverOvercounts
    BY DEF IInv, Bounded, Sent, NeverOvercounts
  <2>2. ASSUME workers = 1 PROVE EverySendCounted
    <3>1. DOMAIN given = 1..Len(given)
      BY DEF IInv, TypeOK
    <3>2. busy = {} => \A r \in Requests : pc[r] # "send_answer"
      BY DEF IInv, TypeOK, Steps
    <3>3. QED BY <2>2, <3>1, <3>2 DEF IInv, OneThread, Counted, EverySendCounted
  <2>3. QED BY <2>1, <2>2 DEF SendsCounted
<1>2. QED BY <1>1, Invariance, PTL

(* On one thread only the null that an early websocket leaves makes a      *)
(* request fail.                                                           *)
THEOREM OnlyTheEarlyEcho == Spec => []OnlyEarlyEchoHarms
<1>1. IInv => OnlyEarlyEchoHarms
  BY DEF IInv, OneThread, Knows, OnlyEarlyEchoHarms
<1>2. QED BY <1>1, Invariance, PTL

=============================================================================
