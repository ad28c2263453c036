------------------------ MODULE DbConnectionManager ------------------------
(***************************************************************************)
(* The database connection pool: db_connection_manager::get_or_block and   *)
(* ~db_connection (bserv/database.cpp), called by the worker threads of    *)
(* the server.  A mutex that stays locked while the queue is empty stands  *)
(* in for a counting semaphore.                                            *)
(*                                                                         *)
(* A step is one access to a mutex or to the queue.  counter_lock_ is      *)
(* unlocked by whichever thread returns the first connection, often not    *)
(* the one that locked it: the C++ standard leaves that undefined, the     *)
(* pthread and SRW mutexes of the builds release the mutex, which is what  *)
(* is modelled.                                                            *)
(***************************************************************************)
EXTENDS Integers, Sequences

CONSTANTS Threads,    \* the worker threads
          NumConn,    \* num_db_conn of the configuration, any int
          NoThread    \* the owner of a free mutex

ASSUME ThreadAssumption == NoThread \notin Threads
ASSUME NumConnAssumption == NumConn \in Int

Conns == 1..NumConn
NoConn == 0

VARIABLES pc,            \* where each thread is
          queue,         \* queue_: the idle connections, oldest first
          queue_lock,    \* the thread that locked queue_lock_
          counter_lock,  \* the thread that locked counter_lock_
          conn           \* the raw connection each thread has

vars == <<pc, queue, queue_lock, counter_lock, conn>>

\* Between the lock of counter_lock_ and the decision to unlock it.
AcquirePCs == {"lock_queue", "pop", "notify"}

\* Inside the lock_guard of queue_lock_, in the call or in the destructor.
QueuePCs == {"pop", "notify", "unlock", "emplace", "give_notify", "give_unlock"}

PCs == {"idle", "lock_counter", "using", "give_lock"} \cup AcquirePCs \cup QueuePCs

Goto(t, from, to) == pc[t] = from /\ pc' = [pc EXCEPT ![t] = to]

-----------------------------------------------------------------------------
(* Plausible slips in the code, one for each property to find.             *)

\* The two locks of get_or_block exchanged: queue_lock_ held while waiting.
CallTakesQueueLockFirst(t) ==
    /\ Goto(t, "idle", "lock_counter")
    /\ queue_lock = NoThread
    /\ queue_lock' = t
    /\ UNCHANGED <<queue, counter_lock, conn>>

\* front without pop.
PopLeavesTheFront(t) == /\ Goto(t, "pop", "notify")
                        /\ queue # <<>>
                        /\ conn' = [conn EXCEPT ![t] = Head(queue)]
                        /\ UNCHANGED <<queue, queue_lock, counter_lock>>

\* counter_lock_ unlocked without looking at the queue, and never unlocked.
NotifyAlways(t) == /\ Goto(t, "notify", "unlock")
                   /\ counter_lock' = NoThread
                   /\ UNCHANGED <<queue, queue_lock, conn>>

NotifyNever(t) == /\ Goto(t, "notify", "unlock")
                  /\ UNCHANGED <<queue, queue_lock, counter_lock, conn>>

\* The connection put back after the pointer to it was cleared.
EmplaceMoved(t) == /\ Goto(t, "emplace", "give_notify")
                   /\ conn' = [conn EXCEPT ![t] = NoConn]
                   /\ queue' = Append(queue, conn'[t])
                   /\ UNCHANGED <<queue_lock, counter_lock>>

\* size() >= 1 in place of size() == 1.
GiveNotifyAlways(t) == /\ Goto(t, "give_notify", "give_unlock")
                       /\ counter_lock' = NoThread
                       /\ UNCHANGED <<queue, queue_lock, conn>>

-----------------------------------------------------------------------------

Init == /\ pc = [t \in Threads |-> "idle"]
        /\ queue = [i \in Conns |-> i]
        /\ queue_lock = NoThread
        /\ counter_lock = NoThread
        /\ conn = [t \in Threads |-> NoConn]

\* A handler with a db_connection_ptr parameter calls get_or_block.
Call(t) == /\ Goto(t, "idle", "lock_counter")
           /\ UNCHANGED <<queue, queue_lock, counter_lock, conn>>

LockCounter(t) == /\ Goto(t, "lock_counter", "lock_queue")
                  /\ counter_lock = NoThread
                  /\ counter_lock' = t
                  /\ UNCHANGED <<queue, queue_lock, conn>>

LockQueue(t) == /\ Goto(t, "lock_queue", "pop")
                /\ queue_lock = NoThread
                /\ queue_lock' = t
                /\ UNCHANGED <<queue, counter_lock, conn>>

\* front and pop.  On an empty queue both are undefined: the model stops the
\* thread there, and PopFindsConnection says that it never gets there.
Pop(t) == /\ Goto(t, "pop", "notify")
          /\ queue # <<>>
          /\ conn' = [conn EXCEPT ![t] = Head(queue)]
          /\ queue' = Tail(queue)
          /\ UNCHANGED <<queue_lock, counter_lock>>

\* The mutex stays locked when the last connection is taken.
Notify(t) == /\ Goto(t, "notify", "unlock")
             /\ counter_lock' = IF queue # <<>> THEN NoThread ELSE counter_lock
             /\ UNCHANGED <<queue, queue_lock, conn>>

\* The lock_guard ends, and get_or_block returns.
Return(t) == /\ Goto(t, "unlock", "using")
             /\ queue_lock' = NoThread
             /\ UNCHANGED <<queue, counter_lock, conn>>

\* The last shared_ptr to the db_connection goes, by the handler's return or
\* its exception: its destructor begins.
Release(t) == /\ Goto(t, "using", "give_lock")
              /\ UNCHANGED <<queue, queue_lock, counter_lock, conn>>

GiveLock(t) == /\ Goto(t, "give_lock", "emplace")
               /\ queue_lock = NoThread
               /\ queue_lock' = t
               /\ UNCHANGED <<queue, counter_lock, conn>>

Emplace(t) == /\ Goto(t, "emplace", "give_notify")
              /\ queue' = Append(queue, conn[t])
              /\ conn' = [conn EXCEPT ![t] = NoConn]
              /\ UNCHANGED <<queue_lock, counter_lock>>

\* The first connection back opens the mutex to the waiting callers.
GiveNotify(t) == /\ Goto(t, "give_notify", "give_unlock")
                 /\ counter_lock' = IF Len(queue) = 1 THEN NoThread ELSE counter_lock
                 /\ UNCHANGED <<queue, queue_lock, conn>>

GiveUnlock(t) == /\ Goto(t, "give_unlock", "idle")
                 /\ queue_lock' = NoThread
                 /\ UNCHANGED <<queue, counter_lock, conn>>

\* What a thread does once it is inside get_or_block or the destructor, and the
\* end of its handler.
Continue(t) == \/ LockCounter(t) \/ LockQueue(t) \/ Pop(t) \/ Notify(t) \/ Return(t)
               \/ Release(t) \/ GiveLock(t) \/ Emplace(t) \/ GiveNotify(t) \/ GiveUnlock(t)

Next == \E t \in Threads : Call(t) \/ Continue(t)

(***************************************************************************)
(* A thread that can run runs (the scheduler of the operating system), and *)
(* a handler that has a connection ends.  Weak fairness on lock(): a       *)
(* waiter may be overtaken for ever, but not when the mutex stays free.    *)
(***************************************************************************)
Fairness == \A t \in Threads : WF_vars(Continue(t))

Spec == Init /\ [][Next]_vars /\ Fairness

-----------------------------------------------------------------------------

(* The state has the types of the declarations of database.hpp.            *)
TypeOK == /\ pc \in [Threads -> PCs]
          /\ queue \in Seq(Conns)
          /\ queue_lock \in Threads \cup {NoThread}
          /\ counter_lock \in Threads \cup {NoThread}
          /\ conn \in [Threads -> Conns \cup {NoConn}]

(* get_or_block takes the front of the queue without looking: holding      *)
(* counter_lock_ must mean that the queue has a connection, whatever       *)
(* happened between the two locks.                                         *)
PopFindsConnection == \A t \in Threads : pc[t] = "pop" => queue # <<>>

Places(c) == {i \in DOMAIN queue : queue[i] = c}
Holders(c) == {t \in Threads : conn[t] = c}

(* Every connection is in exactly one place, once in the queue or with one *)
(* thread: two handlers never share one (libpqxx connections are not       *)
(* thread-safe), and none is lost.                                         *)
EveryConnectionInOnePlace ==
    \A c \in Conns : \/ \E i \in Places(c) : Places(c) = {i} /\ Holders(c) = {}
                     \/ \E t \in Holders(c) : Holders(c) = {t} /\ Places(c) = {}

(* No lost wakeup: while a connection is idle, counter_lock_ is locked     *)
(* only by a caller about to take it or by a notifier about to unlock it.  *)
NoLostWakeup ==
    (queue # <<>> /\ counter_lock # NoThread) =>
        \/ pc[counter_lock] \in AcquirePCs
        \/ \E t \in Threads : pc[t] = "give_notify" /\ Len(queue) = 1

(* unlock is called on a locked mutex only: a second unlock would let two  *)
(* callers in for one connection.                                          *)
UnlockOnlyLocked ==
    \A t \in Threads :
        (pc[t] = "notify" /\ queue # <<>>) \/ (pc[t] = "give_notify" /\ Len(queue) = 1)
            => counter_lock # NoThread

(* The order of the two locks (database.cpp, 7-12): the owner of           *)
(* queue_lock_ never waits for a mutex, so a connection can always come    *)
(* back.                                                                   *)
OwnerOfQueueNeverWaits ==
    queue_lock # NoThread => pc[queue_lock] \in QueuePCs

-----------------------------------------------------------------------------

(* The pool promised to the handlers: the linearisation point of a call is *)
(* Pop, that of a return Emplace.                                          *)
Pool == INSTANCE ConnectionPool
        WITH idle <- {queue[i] : i \in DOMAIN queue},
             asking <- {t \in Threads : pc[t] \in {"lock_counter", "lock_queue", "pop"}},
             held <- conn

PoolSpec == Pool!PoolSpec
PoolSafety == Pool!PoolSafety
=============================================================================
