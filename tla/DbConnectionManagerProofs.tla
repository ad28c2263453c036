---------------------- MODULE DbConnectionManagerProofs ----------------------
(***************************************************************************)
(* What the pool guarantees for every set of threads and every number of   *)
(* connections.  The argument of the two-mutex semaphore is IInv: a thread *)
(* between its two locks owns counter_lock_, owning it there means that    *)
(* the queue has a connection, an empty queue keeps it locked, and it is   *)
(* unlocked exactly at the return of the first connection, when no caller  *)
(* is between its locks.                                                   *)
(***************************************************************************)
EXTENDS DbConnectionManager, TLAPS

\* Where a thread has a raw connection.
HoldingPCs == {"notify", "unlock", "using", "give_lock", "emplace"}
HolderHasOne == \A t \in Threads : conn[t] # NoConn <=> pc[t] \in HoldingPCs

\* Who is in a section of the code owns the mutex of that section.
QueueLockOwner == \A t \in Threads : pc[t] \in QueuePCs <=> queue_lock = t
CounterOwner == \A t \in Threads : pc[t] \in AcquirePCs => counter_lock = t

\* A caller that passed counter_lock_ is promised a connection.
PromisedConnection ==
    \A t \in Threads : pc[t] \in {"lock_queue", "pop"} => queue # <<>>

EmptyKeepsCounter == queue = <<>> => counter_lock # NoThread

\* At the return of the first connection the mutex is locked, and by nobody
\* that is still inside get_or_block.
FirstBack ==
    \A t \in Threads : pc[t] = "give_notify" /\ Len(queue) = 1 =>
        /\ counter_lock # NoThread
        /\ \A u \in Threads : pc[u] \notin AcquirePCs

IInv == /\ TypeOK
        /\ HolderHasOne
        /\ QueueLockOwner
        /\ CounterOwner
        /\ PromisedConnection
        /\ EmptyKeepsCounter
        /\ FirstBack
        /\ NoLostWakeup

-----------------------------------------------------------------------------
LEMMA InitTyped == Init => TypeOK /\ HolderHasOne
BY NumConnAssumption DEF Init, TypeOK, HolderHasOne, HoldingPCs, PCs, Conns, NoConn

LEMMA StepTyped ==
    ASSUME TypeOK, HolderHasOne, [Next]_vars
    PROVE  TypeOK' /\ HolderHasOne'
<1> USE DEF TypeOK, HolderHasOne, HoldingPCs, PCs, AcquirePCs, QueuePCs, Goto
<1>1. CASE UNCHANGED vars
  BY <1>1 DEF vars
<1>2. ASSUME NEW t \in Threads, Call(t) PROVE TypeOK' /\ HolderHasOne'
  BY <1>2 DEF Call
<1>3. ASSUME NEW t \in Threads, LockCounter(t) PROVE TypeOK' /\ HolderHasOne'
  BY <1>3 DEF LockCounter
<1>4. ASSUME NEW t \in Threads, LockQueue(t) PROVE TypeOK' /\ HolderHasOne'
  BY <1>4 DEF LockQueue
<1>5. ASSUME NEW t \in Threads, Pop(t) PROVE TypeOK' /\ HolderHasOne'
  <2>1. Head(queue) \in Conns /\ Tail(queue) \in Seq(Conns)
    BY <1>5 DEF Pop
  <2>2. NoConn \notin Conns
    BY NumConnAssumption DEF NoConn, Conns
  <2> QED BY <1>5, <2>1, <2>2 DEF Pop
<1>6. ASSUME NEW t \in Threads, Notify(t) PROVE TypeOK' /\ HolderHasOne'
  BY <1>6 DEF Notify
<1>7. ASSUME NEW t \in Threads, Return(t) PROVE TypeOK' /\ HolderHasOne'
  BY <1>7 DEF Return
<1>8. ASSUME NEW t \in Threads, Release(t) PROVE TypeOK' /\ HolderHasOne'
  BY <1>8 DEF Release
<1>9. ASSUME NEW t \in Threads, GiveLock(t) PROVE TypeOK' /\ HolderHasOne'
  BY <1>9 DEF GiveLock
<1>10. ASSUME NEW t \in Threads, Emplace(t) PROVE TypeOK' /\ HolderHasOne'
  <2>1. conn[t] \in Conns
    BY <1>10 DEF Emplace
  <2> QED BY <1>10, <2>1 DEF Emplace
<1>11. ASSUME NEW t \in Threads, GiveNotify(t) PROVE TypeOK' /\ HolderHasOne'
  BY <1>11 DEF GiveNotify
<1>12. ASSUME NEW t \in Threads, GiveUnlock(t) PROVE TypeOK' /\ HolderHasOne'
  BY <1>12 DEF GiveUnlock
<1> QED BY <1>1, <1>2, <1>3, <1>4, <1>5, <1>6, <1>7, <1>8, <1>9, <1>10, <1>11, <1>12 DEF Next, Continue

(* The state keeps its types in every step, an empty pool included: only   *)
(* connections of the pool come back to queue_.                            *)
THEOREM TypeCorrect == Spec => []TypeOK
BY InitTyped, StepTyped, PTL DEF Spec

-----------------------------------------------------------------------------
LEMMA InitLocks == NumConn > 0 /\ Init => IInv
<1> SUFFICES ASSUME NumConn > 0, Init PROVE IInv
  OBVIOUS
<1>1. queue # <<>>
  BY NumConnAssumption DEF Init, Conns
<1> QED BY <1>1, InitTyped, ThreadAssumption
        DEF Init, IInv, QueueLockOwner, CounterOwner, PromisedConnection,
            EmptyKeepsCounter, FirstBack, NoLostWakeup, AcquirePCs, QueuePCs

LEMMA StepLocks ==
    ASSUME IInv, [Next]_vars
    PROVE  IInv'
<1>1. TypeOK' /\ HolderHasOne'
  BY StepTyped DEF IInv
<1> DEFINE Parts == /\ QueueLockOwner /\ CounterOwner /\ PromisedConnection
                    /\ EmptyKeepsCounter /\ FirstBack /\ NoLostWakeup
<1> USE ThreadAssumption
    DEF IInv, TypeOK, QueueLockOwner, CounterOwner, PromisedConnection, EmptyKeepsCounter,
        FirstBack, NoLostWakeup, PCs, AcquirePCs, QueuePCs, Goto
<1>2. CASE UNCHANGED vars
  BY <1>1, <1>2 DEF vars
<1>3. ASSUME NEW t \in Threads, Call(t) PROVE Parts'
  BY <1>3 DEF Call
<1>4. ASSUME NEW t \in Threads, LockCounter(t) PROVE Parts'
  BY <1>4 DEF LockCounter
<1>5. ASSUME NEW t \in Threads, LockQueue(t) PROVE Parts'
  BY <1>5 DEF LockQueue
<1>6. ASSUME NEW t \in Threads, Pop(t) PROVE Parts'
  BY <1>6 DEF Pop
<1>7. ASSUME NEW t \in Threads, Notify(t) PROVE Parts'
  BY <1>7 DEF Notify
<1>8. ASSUME NEW t \in Threads, Return(t) PROVE Parts'
  BY <1>8 DEF Return
<1>9. ASSUME NEW t \in Threads, Release(t) PROVE Parts'
  BY <1>9 DEF Release
<1>10. ASSUME NEW t \in Threads, GiveLock(t) PROVE Parts'
  BY <1>10 DEF GiveLock
<1>11. ASSUME NEW t \in Threads, Emplace(t) PROVE Parts'
  BY <1>11 DEF Emplace
<1>12. ASSUME NEW t \in Threads, GiveNotify(t) PROVE Parts'
  BY <1>12 DEF GiveNotify
<1>13. ASSUME NEW t \in Threads, GiveUnlock(t) PROVE Parts'
  BY <1>13 DEF GiveUnlock
<1> QED BY <1>1, <1>2, <1>3, <1>4, <1>5, <1>6, <1>7, <1>8, <1>9, <1>10, <1>11, <1>12, <1>13 DEF Next, Continue

(* A call that got past counter_lock_ always finds a connection: front and *)
(* pop are never called on an empty queue by a pool that was given one.    *)
THEOREM PopNeverEmpty ==
    ASSUME NumConn > 0
    PROVE  Spec => []PopFindsConnection
<1>1. IInv => PopFindsConnection
  BY DEF IInv, PromisedConnection, PopFindsConnection
<1>2. Init => IInv
  BY InitLocks
<1> QED BY <1>1, <1>2, StepLocks, PTL DEF Spec

(* No wakeup is lost: while a connection is idle, counter_lock_ is locked  *)
(* only by a caller about to take it or ahead of an imminent unlock.       *)
THEOREM WakeupNeverLost ==
    ASSUME NumConn > 0
    PROVE  Spec => []NoLostWakeup
<1>1. IInv => NoLostWakeup
  BY DEF IInv
<1>2. Init => IInv
  BY InitLocks
<1> QED BY <1>1, <1>2, StepLocks, PTL DEF Spec

(* unlock is never called on a counter_lock_ that nobody locked.           *)
THEOREM UnlocksMatch ==
    ASSUME NumConn > 0
    PROVE  Spec => []UnlockOnlyLocked
<1>1. IInv => UnlockOnlyLocked
  BY ThreadAssumption
     DEF IInv, CounterOwner, FirstBack, UnlockOnlyLocked, AcquirePCs
<1>2. Init => IInv
  BY InitLocks
<1> QED BY <1>1, <1>2, StepLocks, PTL DEF Spec

\* The ownership of queue_lock_ does not hang on the number of connections.
LockInv == TypeOK /\ HolderHasOne /\ QueueLockOwner

LEMMA StepQueueLock ==
    ASSUME LockInv, [Next]_vars
    PROVE  LockInv'
<1>1. TypeOK' /\ HolderHasOne'
  BY StepTyped DEF LockInv
<1> USE ThreadAssumption DEF LockInv, TypeOK, QueueLockOwner, PCs, AcquirePCs, QueuePCs, Goto
<1>2. CASE UNCHANGED vars
  BY <1>1, <1>2 DEF vars
<1>3. ASSUME NEW t \in Threads, Call(t) \/ LockCounter(t) \/ Release(t) PROVE QueueLockOwner'
  BY <1>3 DEF Call, LockCounter, Release
<1>4. ASSUME NEW t \in Threads, LockQueue(t) \/ GiveLock(t) PROVE QueueLockOwner'
  BY <1>4 DEF LockQueue, GiveLock
<1>5. ASSUME NEW t \in Threads, Pop(t) \/ Notify(t) \/ Emplace(t) \/ GiveNotify(t)
      PROVE  QueueLockOwner'
  BY <1>5 DEF Pop, Notify, Emplace, GiveNotify
<1>6. ASSUME NEW t \in Threads, Return(t) \/ GiveUnlock(t) PROVE QueueLockOwner'
  BY <1>6 DEF Return, GiveUnlock
<1> QED BY <1>1, <1>2, <1>3, <1>4, <1>5, <1>6 DEF Next, Continue

(* The owner of queue_lock_ is inside its section and waits for nothing,   *)
(* in a pool of any size, the empty one included.                          *)
THEOREM QueueOwnerRuns == Spec => []OwnerOfQueueNeverWaits
<1>1. LockInv => OwnerOfQueueNeverWaits
  BY DEF LockInv, TypeOK, QueueLockOwner, OwnerOfQueueNeverWaits
<1>2. Init => LockInv
  BY InitTyped, ThreadAssumption DEF Init, LockInv, QueueLockOwner, QueuePCs
<1> QED BY <1>1, <1>2, StepQueueLock, PTL DEF Spec

-----------------------------------------------------------------------------
\* EveryConnectionInOnePlace, in the form its induction needs.
OnceInQueue == \A i, j \in 1..Len(queue) : queue[i] = queue[j] => i = j
IdleOrHeld == \A t \in Threads : \A i \in 1..Len(queue) : conn[t] # queue[i]
OneHolder == \A t, u \in Threads : conn[t] = conn[u] /\ conn[t] # NoConn => t = u
NoneLost == \A c \in Conns : \/ \E i \in 1..Len(queue) : queue[i] = c
                            \/ \E t \in Threads : conn[t] = c

PInv == /\ TypeOK
        /\ HolderHasOne
        /\ OnceInQueue
        /\ IdleOrHeld
        /\ OneHolder
        /\ NoneLost

LEMMA InitPlaces == Init => PInv
<1> SUFFICES ASSUME Init PROVE PInv
  OBVIOUS
<1>1. NoConn \notin Conns
  BY NumConnAssumption DEF NoConn, Conns
<1>2. /\ TypeOK /\ HolderHasOne
      /\ \A i \in 1..Len(queue) : i \in Conns /\ queue[i] = i
      /\ \A c \in Conns : c \in 1..Len(queue)
  <2>1. TypeOK /\ HolderHasOne /\ DOMAIN queue = 1..Len(queue)
    BY InitTyped DEF TypeOK
  <2> QED BY <2>1 DEF Init
<1>3. \A t \in Threads : conn[t] = NoConn
  BY DEF Init
<1>4. OnceInQueue
  BY <1>2 DEF OnceInQueue
<1>5. IdleOrHeld
  BY <1>1, <1>2, <1>3 DEF IdleOrHeld
<1>6. OneHolder
  BY <1>3 DEF OneHolder
<1>7. NoneLost
  BY <1>2 DEF NoneLost
<1> QED BY <1>2, <1>4, <1>5, <1>6, <1>7 DEF PInv

LEMMA StepPlaces ==
    ASSUME PInv, [Next]_vars
    PROVE  PInv'
<1>1. TypeOK' /\ HolderHasOne'
  BY StepTyped DEF PInv
<1>2. NoConn \notin Conns
  BY NumConnAssumption DEF NoConn, Conns
<1>3. ASSUME UNCHANGED <<queue, conn>>
      PROVE  PInv'
  BY <1>1, <1>3 DEF PInv, OnceInQueue, IdleOrHeld, OneHolder, NoneLost
<1>4. ASSUME NEW t \in Threads, Pop(t)
      PROVE  PInv'
  <2>1. /\ queue \in Seq(Conns) /\ Len(queue) > 0
        /\ conn' = [conn EXCEPT ![t] = queue[1]] /\ conn \in [Threads -> Conns \cup {NoConn}]
        /\ conn[t] = NoConn
    BY <1>4 DEF PInv, TypeOK, HolderHasOne, HoldingPCs, Pop, Goto
  <2>2. /\ Len(queue') = Len(queue) - 1
        /\ \A i \in 1..Len(queue') : queue'[i] = queue[i + 1]
    BY <1>4, <2>1 DEF Pop
  <2>3. OnceInQueue'
    BY <2>1, <2>2 DEF PInv, OnceInQueue
  <2>4. IdleOrHeld'
    BY <2>1, <2>2 DEF PInv, OnceInQueue, IdleOrHeld
  <2>5. OneHolder'
    BY <2>1 DEF PInv, IdleOrHeld, OneHolder
  <2>6. NoneLost'
    <3> SUFFICES ASSUME NEW c \in Conns
                 PROVE  \/ \E i \in 1..Len(queue') : queue'[i] = c
                        \/ \E u \in Threads : conn'[u] = c
      BY DEF NoneLost
    <3>1. CASE \E u \in Threads : conn[u] = c
      BY <3>1, <2>1, <1>2
    <3>2. CASE c = queue[1]
      BY <3>2, <2>1
    <3>3. ASSUME NEW i \in 1..Len(queue), queue[i] = c, i # 1
          PROVE  \E k \in 1..Len(queue') : queue'[k] = c
      <4>1. i - 1 \in 1..Len(queue') /\ queue'[i - 1] = c
        BY <3>3, <2>1, <2>2
      <4> QED BY <4>1
    <3> QED BY <3>1, <3>2, <3>3 DEF PInv, NoneLost
  <2> QED BY <1>1, <2>3, <2>4, <2>5, <2>6 DEF PInv
<1>5. ASSUME NEW t \in Threads, Emplace(t)
      PROVE  PInv'
  <2>1. /\ queue \in Seq(Conns) /\ conn[t] \in Conns /\ conn[t] # NoConn
        /\ conn' = [conn EXCEPT ![t] = NoConn] /\ conn \in [Threads -> Conns \cup {NoConn}]
    BY <1>5 DEF PInv, TypeOK, HolderHasOne, HoldingPCs, Emplace, Goto
  <2>2. /\ Len(queue') = Len(queue) + 1
        /\ queue'[Len(queue) + 1] = conn[t]
        /\ \A i \in 1..Len(queue) : queue'[i] = queue[i]
    BY <1>5, <2>1 DEF Emplace
  <2>3. OnceInQueue'
    BY <2>1, <2>2 DEF PInv, OnceInQueue, IdleOrHeld
  <2>4. \A i \in 1..Len(queue') : queue'[i] \in Conns
    BY <1>1 DEF TypeOK
  <2>5. IdleOrHeld'
    BY <2>1, <2>2, <2>4, <1>2 DEF PInv, IdleOrHeld, OneHolder
  <2>6. OneHolder'
    BY <2>1 DEF PInv, OneHolder
  <2>7. NoneLost'
    <3> SUFFICES ASSUME NEW c \in Conns
                 PROVE  \/ \E i \in 1..Len(queue') : queue'[i] = c
                        \/ \E u \in Threads : conn'[u] = c
      BY DEF NoneLost
    <3>1. CASE c = conn[t]
      <4>1. Len(queue) + 1 \in 1..Len(queue')
        BY <2>1, <2>2
      <4> QED BY <3>1, <4>1, <2>2
    <3>2. ASSUME NEW u \in Threads, conn[u] = c, c # conn[t]
          PROVE  \E v \in Threads : conn'[v] = c
      BY <3>2, <2>1
    <3>3. ASSUME NEW i \in 1..Len(queue), queue[i] = c
          PROVE  \E k \in 1..Len(queue') : queue'[k] = c
      BY <3>3, <2>1, <2>2
    <3> QED BY <3>1, <3>2, <3>3 DEF PInv, NoneLost
  <2> QED BY <1>1, <2>3, <2>5, <2>6, <2>7 DEF PInv
<1> QED
  BY <1>3, <1>4, <1>5 DEF Next, Continue, vars, Call, LockCounter, LockQueue, Notify, Return,
     Release, GiveLock, GiveNotify, GiveUnlock

(* Two handlers never share a connection and none is lost, for any number  *)
(* of threads and connections, none included.                              *)
THEOREM ConnectionsNeverShared == Spec => []EveryConnectionInOnePlace
<1>1. PInv => EveryConnectionInOnePlace
  <2> SUFFICES ASSUME PInv, NEW c \in Conns
               PROVE  \/ \E i \in Places(c) : Places(c) = {i} /\ Holders(c) = {}
                      \/ \E t \in Holders(c) : Holders(c) = {t} /\ Places(c) = {}
    BY DEF EveryConnectionInOnePlace
  <2>1. DOMAIN queue = 1..Len(queue) /\ c # NoConn
    BY NumConnAssumption DEF PInv, TypeOK, Conns, NoConn
  <2>2. ASSUME NEW i \in 1..Len(queue), queue[i] = c
        PROVE  Places(c) = {i} /\ Holders(c) = {}
    BY <2>1, <2>2 DEF PInv, OnceInQueue, IdleOrHeld, Places, Holders
  <2>3. ASSUME NEW t \in Threads, conn[t] = c
        PROVE  Holders(c) = {t} /\ Places(c) = {}
    BY <2>1, <2>3 DEF PInv, IdleOrHeld, OneHolder, Places, Holders
  <2> QED BY <2>1, <2>2, <2>3 DEF PInv, NoneLost, Places, Holders
<1> QED BY <1>1, InitPlaces, StepPlaces, PTL DEF Spec

-----------------------------------------------------------------------------
LEMMA InitRefines == Init => Pool!PoolInit
<1> SUFFICES ASSUME Init PROVE Pool!PoolInit
  OBVIOUS
<1>1. {queue[i] : i \in DOMAIN queue} = Conns
  BY DEF Init
<1> QED BY <1>1 DEF Init, Pool!PoolInit

LEMMA StepRefines ==
    ASSUME PInv, [Next]_vars
    PROVE  [Pool!PoolNext]_Pool!poolVars
<1> DEFINE idle == {queue[i] : i \in DOMAIN queue}
           asking == {t \in Threads : pc[t] \in {"lock_counter", "lock_queue", "pop"}}
<1>1. NoConn \notin Conns
  BY NumConnAssumption DEF NoConn, Conns
<1>2. pc \in [Threads -> PCs] /\ conn \in [Threads -> Conns \cup {NoConn}]
  BY DEF PInv, TypeOK
<1>3. ASSUME UNCHANGED <<queue, conn>>, asking' = asking
      PROVE  UNCHANGED Pool!poolVars
  BY <1>3 DEF Pool!poolVars
<1>4. ASSUME NEW t \in Threads, Call(t)
      PROVE  Pool!Ask(t)
  <2>1. conn[t] = NoConn
    BY <1>4 DEF PInv, HolderHasOne, HoldingPCs, Call, Goto
  <2>2. t \notin asking /\ asking' = asking \cup {t}
    BY <1>2, <1>4 DEF Call, Goto
  <2> QED BY <1>4, <2>1, <2>2 DEF Call, Pool!Ask
<1>5. ASSUME NEW t \in Threads, Pop(t)
      PROVE  Pool!Grant(t)
  <2>1. /\ queue \in Seq(Conns) /\ Len(queue) > 0 /\ DOMAIN queue = 1..Len(queue)
        /\ conn' = [conn EXCEPT ![t] = queue[1]]
    BY <1>5 DEF PInv, TypeOK, Pop
  <2>2. /\ Len(queue') = Len(queue) - 1 /\ DOMAIN queue' = 1..Len(queue')
        /\ \A i \in 1..Len(queue') : queue'[i] = queue[i + 1]
    BY <1>5, <2>1 DEF Pop
  <2>3. queue[1] \in idle
    BY <2>1
  <2>4. idle' = idle \ {queue[1]}
    <3>1. ASSUME NEW i \in 1..Len(queue')
          PROVE  queue'[i] \in idle \ {queue[1]}
      BY <2>1, <2>2 DEF PInv, OnceInQueue
    <3>2. ASSUME NEW i \in 1..Len(queue), queue[i] # queue[1]
          PROVE  queue[i] \in idle'
      <4>1. i - 1 \in 1..Len(queue') /\ queue'[i - 1] = queue[i]
        BY <3>2, <2>1, <2>2
      <4> QED BY <4>1, <2>2
    <3> QED BY <2>1, <2>2, <3>1, <3>2
  <2>5. t \in asking /\ asking' = asking \ {t}
    BY <1>2, <1>5 DEF Pop, Goto
  <2> QED BY <2>1, <2>3, <2>4, <2>5 DEF Pool!Grant
<1>6. ASSUME NEW t \in Threads, Emplace(t)
      PROVE  Pool!GiveBack(t)
  <2>1. /\ conn[t] # NoConn /\ conn[t] \in Conns /\ queue \in Seq(Conns)
        /\ conn' = [conn EXCEPT ![t] = NoConn] /\ DOMAIN queue = 1..Len(queue)
    BY <1>2, <1>6 DEF PInv, TypeOK, HolderHasOne, HoldingPCs, Emplace, Goto
  <2>2. /\ Len(queue') = Len(queue) + 1 /\ DOMAIN queue' = 1..Len(queue')
        /\ queue'[Len(queue) + 1] = conn[t]
        /\ \A i \in 1..Len(queue) : queue'[i] = queue[i]
    BY <1>6, <2>1 DEF Emplace
  <2>3. idle' = idle \cup {conn[t]}
    <3>1. conn[t] \in idle'
      <4>1. Len(queue) + 1 \in DOMAIN queue'
        BY <2>1, <2>2
      <4> QED BY <4>1, <2>2
    <3>2. ASSUME NEW i \in 1..Len(queue)
          PROVE  queue[i] \in idle'
      BY <2>1, <2>2
    <3>3. ASSUME NEW i \in 1..Len(queue')
          PROVE  queue'[i] \in idle \cup {conn[t]}
      BY <2>1, <2>2
    <3> QED BY <2>1, <2>2, <3>1, <3>2, <3>3
  <2>4. asking' = asking
    BY <1>2, <1>6 DEF Emplace, Goto
  <2> QED BY <2>1, <2>3, <2>4 DEF Pool!GiveBack
<1>7. ASSUME NEW t \in Threads,
             \/ LockCounter(t) \/ LockQueue(t) \/ Notify(t) \/ Return(t)
             \/ Release(t) \/ GiveLock(t) \/ GiveNotify(t) \/ GiveUnlock(t)
      PROVE  UNCHANGED Pool!poolVars
  <2>1. asking' = asking
    BY <1>2, <1>7 DEF LockCounter, LockQueue, Notify, Return, Release, GiveLock,
       GiveNotify, GiveUnlock, Goto
  <2>2. UNCHANGED <<queue, conn>>
    BY <1>7 DEF LockCounter, LockQueue, Notify, Return, Release, GiveLock,
       GiveNotify, GiveUnlock
  <2> QED BY <1>3, <2>1, <2>2
<1>8. CASE UNCHANGED vars
  BY <1>8, <1>3 DEF vars
<1> QED BY <1>4, <1>5, <1>6, <1>7, <1>8 DEF Next, Continue, Pool!PoolNext

(* The two mutexes implement the pool the handlers are promised, apart     *)
(* from its fairness: a call takes effect at Pop, a return at Emplace.     *)
THEOREM ImplementsPool == Spec => PoolSafety
BY InitPlaces, StepPlaces, InitRefines, StepRefines, PTL
   DEF Spec, PoolSafety, Pool!PoolSafety
=============================================================================
