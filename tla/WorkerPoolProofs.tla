--------------------------- MODULE WorkerPoolProofs ---------------------------
(***************************************************************************)
(* What WorkerPool promises for any number of threads, connections and     *)
(* requests.  A connection is only ever held by a handler that runs: the   *)
(* handlers that wait have none.  So a thread that is blocked waits for    *)
(* one that is not, and when all threads have returned from ioc_.run()     *)
(* nobody has a connection.                                                *)
(***************************************************************************)
EXTENDS WorkerPool, FiniteSetTheorems, TLAPS

(* The handlers on threads and the threads that ended are all the threads. *)
Sized == Cardinality(OnWorker) + exited <= workers

(* A handler that waits has no connection.                                 *)
HoldersRun == \A r \in Requests : /\ stage[r] = "asking" => r \in Db
                                  /\ held[r] # NoConn => r \in Db /\ stage[r] = "running"

NoneLost == \A x \in Conns : x \in idle \/ \E r \in Requests : held[r] = x

(* The members of the server are destroyed after the join.                 *)
JoinedFirst == process = "destroyed" => exited = workers

IInv == TypeOK /\ Sized /\ HoldersRun /\ NoneLost /\ JoinedFirst

-----------------------------------------------------------------------------
USE DEF setup, pool
Stages == {"new", "done", "unwound"} \cup Suspended \cup Working

LEMMA OnWorkerFinite == IsFiniteSet(OnWorker) /\ Cardinality(OnWorker) \in Nat
<1>1. OnWorker \subseteq Requests
  BY DEF OnWorker
<1>2. QED BY <1>1, FiniteAssumption, FS_Subset, FS_CardinalityType

(* A coroutine takes a thread only when one is free.                       *)
LEMMA SizedStays ==
    ASSUME TypeOK, Sized, NEW r \in Requests, NEW from, NEW to \in Stages, Goes(r, from, to),
           exited' = exited, to \in Working => r \in OnWorker \/ FreeWorker
    PROVE  Sized'
<1>1. /\ stage \in [Requests -> Stages] /\ stage' = [stage EXCEPT ![r] = to]
      /\ workers' = workers /\ workers \in Nat /\ exited \in Nat
  BY WorkersAssumption DEF TypeOK, Stages, Goes
<1>2. CASE to \in Working /\ r \notin OnWorker
  <2>1. OnWorker' = OnWorker \cup {r}
    BY <1>1, <1>2 DEF OnWorker
  <2>2. Cardinality(OnWorker)' = Cardinality(OnWorker) + 1
    BY <1>2, <2>1, OnWorkerFinite, FS_AddElement
  <2>3. QED BY <1>1, <1>2, <2>2, OnWorkerFinite DEF Sized, FreeWorker
<1>3. CASE to \in Working /\ r \in OnWorker
  <2>1. OnWorker' = OnWorker
    BY <1>1, <1>3 DEF OnWorker
  <2>2. QED BY <1>1, <2>1 DEF Sized
<1>4. CASE to \notin Working
  <2>1. OnWorker' \subseteq OnWorker
    BY <1>1, <1>4 DEF OnWorker
  <2>2. Cardinality(OnWorker)' <= Cardinality(OnWorker) /\ Cardinality(OnWorker)' \in Nat
    BY <2>1, OnWorkerFinite, FS_Subset, FS_CardinalityType
  <2>3. QED BY <1>1, <2>2, OnWorkerFinite DEF Sized
<1>5. QED BY <1>2, <1>3, <1>4

(* What is known of the queue: who is ready is in it.                      *)
Waiting == /\ queue \in Seq(Requests \cup {Signal})
           /\ \A r \in Requests : stage[r] \in {"queued", "ready"} => \E i \in DOMAIN queue : queue[i] = r

LEMMA Enqueued ==
    ASSUME Waiting, NEW r \in Requests \cup {Signal}, queue' = Append(queue, r),
           \A q \in Requests \ {r} : stage'[q] = stage[q]
    PROVE  Waiting'
<1>1. /\ queue' \in Seq(Requests \cup {Signal}) /\ Len(queue') = Len(queue) + 1
      /\ queue'[Len(queue) + 1] = r /\ Len(queue) \in Nat
      /\ \A i \in 1..Len(queue) : queue'[i] = queue[i]
      /\ DOMAIN queue = 1..Len(queue) /\ DOMAIN queue' = 1..(Len(queue) + 1)
  BY DEF Waiting
<1>2. ASSUME NEW q \in Requests, stage'[q] \in {"queued", "ready"}
      PROVE  \E i \in DOMAIN queue' : queue'[i] = q
  <2>1. CASE q = r
    <3>1. Len(queue) + 1 \in DOMAIN queue' /\ queue'[Len(queue) + 1] = q
      BY <1>1, <2>1
    <3>2. QED BY <3>1
  <2>2. CASE q # r
    <3>1. PICK i \in DOMAIN queue : queue[i] = q
      BY <1>2, <2>2 DEF Waiting
    <3>2. i \in DOMAIN queue' /\ queue'[i] = q
      BY <1>1, <3>1
    <3>3. QED BY <3>2
  <2>3. QED BY <2>1, <2>2
<1>3. QED BY <1>1, <1>2 DEF Waiting

LEMMA Dequeued ==
    ASSUME Waiting, NEW r \in Requests \cup {Signal}, queue # <<>>, Head(queue) = r, queue' = Tail(queue),
           \A q \in Requests \ {r} : stage'[q] = stage[q],
           r \in Requests => stage'[r] \notin {"queued", "ready"}
    PROVE  Waiting'
<1>1. /\ queue' \in Seq(Requests \cup {Signal}) /\ Len(queue) \in Nat /\ queue[1] = r
      /\ DOMAIN queue = 1..Len(queue) /\ DOMAIN queue' = 1..(Len(queue) - 1)
      /\ \A i \in 1..(Len(queue) - 1) : queue'[i] = queue[i + 1]
  BY DEF Waiting
<1>2. ASSUME NEW q \in Requests, stage'[q] \in {"queued", "ready"}
      PROVE  \E i \in DOMAIN queue' : queue'[i] = q
  <2>1. q # r /\ stage[q] \in {"queued", "ready"}
    BY <1>2
  <2>2. PICK i \in DOMAIN queue : queue[i] = q
    BY <2>1 DEF Waiting
  <2>3. i - 1 \in 1..(Len(queue) - 1) /\ i = (i - 1) + 1
    BY <1>1, <2>1, <2>2
  <2>4. queue'[i - 1] = q
    BY <1>1, <2>2, <2>3
  <2>5. QED BY <1>1, <2>3, <2>4
<1>3. QED BY <1>1, <1>2 DEF Waiting

LEMMA QueueStays ==
    ASSUME Waiting, queue' = queue, NEW r \in Requests, stage'[r] \notin {"queued", "ready"},
           \A q \in Requests \ {r} : stage'[q] = stage[q]
    PROVE  Waiting'
BY DEF Waiting

-----------------------------------------------------------------------------
LEMMA Initially == Init => IInv
<1> SUFFICES ASSUME Init PROVE IInv
  OBVIOUS
<1> USE DEF Init, PoolInit
<1>1. workers \in Nat
  BY WorkersAssumption
<1>2. TypeOK
  BY <1>1 DEF TypeOK, Suspended, Working
<1>3. OnWorker = {}
  BY DEF OnWorker, Working
<1>4. Sized
  BY <1>1, <1>3, FS_EmptySet DEF Sized
<1>5. QED BY <1>2, <1>4 DEF IInv, HoldersRun, NoneLost, JoinedFirst

LEMMA ArriveKeeps ==
    ASSUME IInv, NEW r \in Requests, Arrive(r) PROVE IInv'
<1> USE DEF IInv
<1>1. stage \in [Requests -> Stages] /\ Waiting
  BY DEF TypeOK, Stages, Waiting
<1>2. Waiting'
  BY <1>1, Enqueued DEF Arrive, Goes
<1>3. Sized'
  BY SizedStays, "queued" \in Stages DEF Arrive, Stages, Suspended, Working
<1>4. TypeOK'
  <2>1. stage' \in [Requests -> Stages] /\ asking' = {q \in Requests : stage'[q] = "asking"}
    BY <1>1 DEF Arrive, Goes, TypeOK, Stages, Suspended, Working
  <2>2. idle' \subseteq Conns /\ held' \in [Requests -> Conns \cup {NoConn}]
    BY DEF Arrive, Goes, TypeOK
  <2>3. QED BY <1>2, <2>1, <2>2 DEF Arrive, Goes, TypeOK, Waiting, Stages
<1>5. HoldersRun'
  BY <1>1 DEF Arrive, Goes, HoldersRun, TypeOK
<1>6. NoneLost'
  BY <1>1 DEF Arrive, Goes, NoneLost, HoldersRun, TypeOK
<1>7. JoinedFirst'
  BY DEF Arrive, Goes, JoinedFirst
<1>8. QED BY <1>2, <1>3, <1>4, <1>5, <1>6, <1>7

LEMMA StartAskingKeeps ==
    ASSUME IInv, NEW r \in Requests, StartAsking(r) PROVE IInv'
<1> USE DEF IInv
<1>1. stage \in [Requests -> Stages] /\ Waiting
  BY DEF TypeOK, Stages, Waiting
<1>2. Waiting'
  BY <1>1, Dequeued DEF StartAsking, Dequeue, Goes
<1>3. Sized'
  BY SizedStays, "asking" \in Stages DEF StartAsking, Dequeue, Stages, Suspended, Working
<1>4. TypeOK'
  <2>1. stage' \in [Requests -> Stages] /\ asking' = {q \in Requests : stage'[q] = "asking"}
    BY <1>1 DEF StartAsking, Dequeue, Goes, Ask, TypeOK, Stages, Suspended, Working
  <2>2. idle' \subseteq Conns /\ held' \in [Requests -> Conns \cup {NoConn}]
    BY DEF StartAsking, Dequeue, Goes, Ask, TypeOK
  <2>3. QED BY <1>2, <2>1, <2>2 DEF StartAsking, Dequeue, Goes, Ask, TypeOK, Waiting, Stages
<1>5. HoldersRun'
  BY <1>1 DEF StartAsking, Dequeue, Goes, Ask, NeedsConn, HoldersRun, TypeOK
<1>6. NoneLost'
  BY <1>1 DEF StartAsking, Dequeue, Goes, Ask, NoneLost, HoldersRun, TypeOK
<1>7. JoinedFirst'
  BY DEF StartAsking, Dequeue, Goes, JoinedFirst
<1>8. QED BY <1>2, <1>3, <1>4, <1>5, <1>6, <1>7

LEMMA StartKeeps ==
    ASSUME IInv, NEW r \in Requests, Start(r) PROVE IInv'
<1> USE DEF IInv
<1>1. stage \in [Requests -> Stages] /\ Waiting
  BY DEF TypeOK, Stages, Waiting
<1>2. Waiting'
  BY <1>1, Dequeued DEF Start, Dequeue, Goes
<1>3. Sized'
  BY SizedStays, "running" \in Stages DEF Start, Dequeue, Stages, Suspended, Working
<1>4. TypeOK'
  <2>1. stage' \in [Requests -> Stages] /\ asking' = {q \in Requests : stage'[q] = "asking"}
    BY <1>1 DEF Start, Dequeue, Goes, TypeOK, Stages, Suspended, Working
  <2>2. idle' \subseteq Conns /\ held' \in [Requests -> Conns \cup {NoConn}]
    BY DEF Start, Dequeue, Goes, TypeOK
  <2>3. QED BY <1>2, <2>1, <2>2 DEF Start, Dequeue, Goes, TypeOK, Waiting, Stages
<1>5. HoldersRun'
  BY <1>1 DEF Start, Dequeue, Goes, HoldersRun, TypeOK
<1>6. NoneLost'
  BY <1>1 DEF Start, Dequeue, Goes, NoneLost, HoldersRun, TypeOK
<1>7. JoinedFirst'
  BY DEF Start, Dequeue, Goes, JoinedFirst
<1>8. QED BY <1>2, <1>3, <1>4, <1>5, <1>6, <1>7

LEMMA GrantedKeeps ==
    ASSUME IInv, NEW r \in Requests, Granted(r) PROVE IInv'
<1> USE DEF IInv
<1>1. stage \in [Requests -> Stages] /\ Waiting
  BY DEF TypeOK, Stages, Waiting
<1>2. Waiting'
  BY <1>1, QueueStays DEF Granted, Goes
<1>3. Sized'
  BY SizedStays, "running" \in Stages DEF Granted, Goes, OnWorker, Stages, Suspended, Working
<1>4. TypeOK'
  <2>1. stage' \in [Requests -> Stages] /\ asking' = {q \in Requests : stage'[q] = "asking"}
    BY <1>1 DEF Granted, Goes, Grant, NeedsConn, TypeOK, Stages, Suspended, Working
  <2>2. idle' \subseteq Conns /\ held' \in [Requests -> Conns \cup {NoConn}]
    BY DEF Granted, Goes, Grant, NeedsConn, TypeOK
  <2>3. QED BY <1>2, <2>1, <2>2 DEF Granted, Goes, Grant, NeedsConn, TypeOK, Waiting, Stages
<1>5. HoldersRun'
  BY <1>1 DEF Granted, Goes, Grant, NeedsConn, HoldersRun, TypeOK
<1>6. NoneLost'
  <2>1. held[r] = NoConn
    BY DEF Granted, Goes, HoldersRun
  <2>2. PICK c \in idle : held' = [held EXCEPT ![r] = c] /\ idle' = idle \ {c}
    BY DEF Granted, Grant
  <2>3. held'[r] = c /\ \A q \in Requests \ {r} : held'[q] = held[q]
    BY <2>2 DEF TypeOK
  <2>4. QED BY <2>1, <2>2, <2>3, ConnAssumption DEF NoneLost
<1>7. JoinedFirst'
  BY DEF Granted, Goes, JoinedFirst
<1>8. QED BY <1>2, <1>3, <1>4, <1>5, <1>6, <1>7

LEMMA WaitKeeps ==
    ASSUME IInv, NEW r \in Requests, Wait(r) PROVE IInv'
<1> USE DEF IInv
<1>1. stage \in [Requests -> Stages] /\ Waiting
  BY DEF TypeOK, Stages, Waiting
<1>2. Waiting'
  BY <1>1, QueueStays DEF Wait, Goes
<1>3. Sized'
  BY SizedStays, "waiting" \in Stages DEF Wait, Stages, Suspended, Working
<1>4. TypeOK'
  <2>1. stage' \in [Requests -> Stages] /\ asking' = {q \in Requests : stage'[q] = "asking"}
    BY <1>1 DEF Wait, Goes, TypeOK, Stages, Suspended, Working
  <2>2. idle' \subseteq Conns /\ held' \in [Requests -> Conns \cup {NoConn}]
    BY DEF Wait, Goes, TypeOK
  <2>3. QED BY <1>2, <2>1, <2>2 DEF Wait, Goes, TypeOK, Waiting, Stages
<1>5. HoldersRun'
  BY <1>1, KindsAssumption DEF Wait, Goes, HoldersRun, TypeOK
<1>6. NoneLost'
  BY <1>1 DEF Wait, Goes, NoneLost, HoldersRun, TypeOK
<1>7. JoinedFirst'
  BY DEF Wait, Goes, JoinedFirst
<1>8. QED BY <1>2, <1>3, <1>4, <1>5, <1>6, <1>7

LEMMA WaitClientKeeps ==
    ASSUME IInv, NEW r \in Requests, WaitClient(r) PROVE IInv'
<1> USE DEF IInv
<1>1. stage \in [Requests -> Stages] /\ Waiting
  BY DEF TypeOK, Stages, Waiting
<1>2. Waiting'
  BY <1>1, QueueStays DEF WaitClient, Goes
<1>3. Sized'
  BY SizedStays, "waiting" \in Stages DEF WaitClient, Stages, Suspended, Working
<1>4. TypeOK'
  <2>1. stage' \in [Requests -> Stages] /\ asking' = {q \in Requests : stage'[q] = "asking"}
    BY <1>1 DEF WaitClient, Goes, Following, TypeOK, Stages, Suspended, Working
  <2>2. idle' \subseteq Conns /\ held' \in [Requests -> Conns \cup {NoConn}]
    BY DEF WaitClient, Goes, Following, TypeOK
  <2>3. QED BY <1>2, <2>1, <2>2 DEF WaitClient, Goes, Following, TypeOK, Waiting, Stages
<1>5. HoldersRun'
  BY <1>1, KindsAssumption DEF WaitClient, Goes, Following, HoldersRun, TypeOK
<1>6. NoneLost'
  BY <1>1 DEF WaitClient, Goes, Following, NoneLost, HoldersRun, TypeOK
<1>7. JoinedFirst'
  BY DEF WaitClient, Goes, JoinedFirst
<1>8. QED BY <1>2, <1>3, <1>4, <1>5, <1>6, <1>7

LEMMA AnswerKeeps ==
    ASSUME IInv, NEW r \in Requests, Answer(r) PROVE IInv'
<1> USE DEF IInv
<1>1. stage \in [Requests -> Stages] /\ Waiting
  BY DEF TypeOK, Stages, Waiting
<1>2. Waiting'
  BY <1>1, Enqueued DEF Answer, Completes, Goes
<1>3. Sized'
  BY SizedStays, "ready" \in Stages DEF Answer, Completes, Stages, Suspended, Working
<1>4. TypeOK'
  <2>1. stage' \in [Requests -> Stages] /\ asking' = {q \in Requests : stage'[q] = "asking"}
    BY <1>1 DEF Answer, Completes, Goes, TypeOK, Stages, Suspended, Working
  <2>2. idle' \subseteq Conns /\ held' \in [Requests -> Conns \cup {NoConn}]
    BY DEF Answer, Completes, Goes, TypeOK
  <2>3. QED BY <1>2, <2>1, <2>2 DEF Answer, Completes, Goes, TypeOK, Waiting, Stages
<1>5. HoldersRun'
  BY <1>1 DEF Answer, Completes, Goes, HoldersRun, TypeOK
<1>6. NoneLost'
  BY <1>1 DEF Answer, Completes, Goes, NoneLost, HoldersRun, TypeOK
<1>7. JoinedFirst'
  BY DEF Answer, Completes, Goes, JoinedFirst
<1>8. QED BY <1>2, <1>3, <1>4, <1>5, <1>6, <1>7

LEMMA ExpireKeeps ==
    ASSUME IInv, NEW r \in Requests, Expire(r) PROVE IInv'
<1> USE DEF IInv
<1>1. stage \in [Requests -> Stages] /\ Waiting
  BY DEF TypeOK, Stages, Waiting
<1>2. Waiting'
  BY <1>1, Enqueued DEF Expire, Fails, Completes, Goes
<1>3. Sized'
  BY SizedStays, "ready" \in Stages DEF Expire, Fails, Completes, Stages, Suspended, Working
<1>4. TypeOK'
  <2>1. stage' \in [Requests -> Stages] /\ asking' = {q \in Requests : stage'[q] = "asking"}
    BY <1>1 DEF Expire, Fails, Completes, Goes, TypeOK, Stages, Suspended, Working
  <2>2. idle' \subseteq Conns /\ held' \in [Requests -> Conns \cup {NoConn}]
    BY DEF Expire, Fails, Completes, Goes, TypeOK
  <2>3. QED BY <1>2, <2>1, <2>2 DEF Expire, Fails, Completes, Goes, TypeOK, Waiting, Stages
<1>5. HoldersRun'
  BY <1>1 DEF Expire, Fails, Completes, Goes, HoldersRun, TypeOK
<1>6. NoneLost'
  BY <1>1 DEF Expire, Fails, Completes, Goes, NoneLost, HoldersRun, TypeOK
<1>7. JoinedFirst'
  BY DEF Expire, Fails, Completes, Goes, JoinedFirst
<1>8. QED BY <1>2, <1>3, <1>4, <1>5, <1>6, <1>7

LEMMA BrokenKeeps ==
    ASSUME IInv, NEW r \in Requests, Broken(r) PROVE IInv'
<1> USE DEF IInv
<1>1. stage \in [Requests -> Stages] /\ Waiting
  BY DEF TypeOK, Stages, Waiting
<1>2. Waiting'
  BY <1>1, Enqueued DEF Broken, Fails, Completes, Goes
<1>3. Sized'
  BY SizedStays, "ready" \in Stages DEF Broken, Fails, Completes, Stages, Suspended, Working
<1>4. TypeOK'
  <2>1. stage' \in [Requests -> Stages] /\ asking' = {q \in Requests : stage'[q] = "asking"}
    BY <1>1 DEF Broken, Fails, Completes, Goes, TypeOK, Stages, Suspended, Working
  <2>2. idle' \subseteq Conns /\ held' \in [Requests -> Conns \cup {NoConn}]
    BY DEF Broken, Fails, Completes, Goes, TypeOK
  <2>3. QED BY <1>2, <2>1, <2>2 DEF Broken, Fails, Completes, Goes, TypeOK, Waiting, Stages
<1>5. HoldersRun'
  BY <1>1 DEF Broken, Fails, Completes, Goes, HoldersRun, TypeOK
<1>6. NoneLost'
  BY <1>1 DEF Broken, Fails, Completes, Goes, NoneLost, HoldersRun, TypeOK
<1>7. JoinedFirst'
  BY DEF Broken, Fails, Completes, Goes, JoinedFirst
<1>8. QED BY <1>2, <1>3, <1>4, <1>5, <1>6, <1>7

LEMMA ResumeKeeps ==
    ASSUME IInv, NEW r \in Requests, Resume(r) PROVE IInv'
<1> USE DEF IInv
<1>1. stage \in [Requests -> Stages] /\ Waiting
  BY DEF TypeOK, Stages, Waiting
<1>2. Waiting'
  BY <1>1, Dequeued DEF Resume, Dequeue, Goes
<1>3. Sized'
  BY SizedStays, "resumed" \in Stages DEF Resume, Dequeue, Stages, Suspended, Working
<1>4. TypeOK'
  <2>1. stage' \in [Requests -> Stages] /\ asking' = {q \in Requests : stage'[q] = "asking"}
    BY <1>1 DEF Resume, Dequeue, Goes, TypeOK, Stages, Suspended, Working
  <2>2. idle' \subseteq Conns /\ held' \in [Requests -> Conns \cup {NoConn}]
    BY DEF Resume, Dequeue, Goes, TypeOK
  <2>3. QED BY <1>2, <2>1, <2>2 DEF Resume, Dequeue, Goes, TypeOK, Waiting, Stages
<1>5. HoldersRun'
  BY <1>1 DEF Resume, Dequeue, Goes, HoldersRun, TypeOK
<1>6. NoneLost'
  BY <1>1 DEF Resume, Dequeue, Goes, NoneLost, HoldersRun, TypeOK
<1>7. JoinedFirst'
  BY DEF Resume, Dequeue, Goes, JoinedFirst
<1>8. QED BY <1>2, <1>3, <1>4, <1>5, <1>6, <1>7

LEMMA FinishKeeps ==
    ASSUME IInv, NEW r \in Requests, Finish(r) PROVE IInv'
<1> USE DEF IInv
<1>1. stage \in [Requests -> Stages] /\ Waiting
  BY DEF TypeOK, Stages, Waiting
<1>2. Waiting'
  BY <1>1, QueueStays DEF Finish, Goes
<1>3. Sized'
  BY SizedStays, "done" \in Stages DEF Finish, Stages, Suspended, Working
<1>4. TypeOK'
  <2>1. stage' \in [Requests -> Stages] /\ asking' = {q \in Requests : stage'[q] = "asking"}
    BY <1>1 DEF Finish, Goes, GiveBack, TypeOK, Stages, Suspended, Working
  <2>2. idle' \subseteq Conns /\ held' \in [Requests -> Conns \cup {NoConn}]
    BY DEF Finish, Goes, GiveBack, TypeOK
  <2>3. QED BY <1>2, <2>1, <2>2 DEF Finish, Goes, GiveBack, TypeOK, Waiting, Stages
<1>5. HoldersRun'
  BY <1>1 DEF Finish, Goes, GiveBack, HoldersRun, TypeOK
<1>6. NoneLost'
  BY <1>1 DEF Finish, Goes, GiveBack, NoneLost, HoldersRun, TypeOK
<1>7. JoinedFirst'
  BY DEF Finish, Goes, JoinedFirst
<1>8. QED BY <1>2, <1>3, <1>4, <1>5, <1>6, <1>7

LEMMA UnwindKeeps ==
    ASSUME IInv, NEW r \in Requests, Unwind(r) PROVE IInv'
<1> USE DEF IInv
<1>1. stage \in [Requests -> Stages] /\ Waiting
  BY DEF TypeOK, Stages, Waiting
<1>2. Waiting'
  BY <1>1, QueueStays DEF Unwind, Goes
<1>3. Sized'
  BY SizedStays, "unwound" \in Stages DEF Unwind, Stages, Suspended, Working
<1>4. TypeOK'
  <2>1. stage' \in [Requests -> Stages] /\ asking' = {q \in Requests : stage'[q] = "asking"}
    BY <1>1 DEF Unwind, Goes, GiveBack, TypeOK, Stages, Suspended, Working
  <2>2. idle' \subseteq Conns /\ held' \in [Requests -> Conns \cup {NoConn}]
    BY DEF Unwind, Goes, GiveBack, TypeOK
  <2>3. QED BY <1>2, <2>1, <2>2 DEF Unwind, Goes, GiveBack, TypeOK, Waiting, Stages
<1>5. HoldersRun'
  BY <1>1 DEF Unwind, Goes, GiveBack, HoldersRun, TypeOK
<1>6. NoneLost'
  BY <1>1 DEF Unwind, Goes, GiveBack, NoneLost, HoldersRun, TypeOK
<1>7. JoinedFirst'
  BY DEF Unwind, Goes, JoinedFirst
<1>8. QED BY <1>2, <1>3, <1>4, <1>5, <1>6, <1>7

LEMMA ProcessKeeps ==
    ASSUME IInv, Terminate \/ Stop \/ Exit \/ Destroy PROVE IInv'
<1> USE DEF IInv
<1>1. Waiting /\ exited \in Nat /\ workers \in Nat /\ exited <= workers
  BY WorkersAssumption DEF TypeOK, Waiting
<1>2. UNCHANGED <<setup, pool, phase, stage>>
  BY DEF Terminate, Stop, Exit, Destroy
<1>3. Waiting'
  <2>1. CASE Terminate
    BY <1>1, <1>2, <2>1, Enqueued DEF Terminate
  <2>2. CASE Stop
    BY <1>1, <1>2, <2>2, Dequeued, SignalAssumption DEF Stop, Dequeue
  <2>3. CASE Exit \/ Destroy
    BY <1>1, <1>2, <2>3 DEF Exit, Destroy, Waiting
  <2>4. QED BY <2>1, <2>2, <2>3
<1>4. OnWorker' = OnWorker
  BY <1>2 DEF OnWorker
<1>5. Sized'
  <2>1. CASE Exit
    BY <1>1, <1>2, <1>4, <2>1, OnWorkerFinite DEF Exit, Sized, FreeWorker
  <2>2. CASE Terminate \/ Stop \/ Destroy
    BY <1>2, <1>4, <2>2 DEF Terminate, Stop, Destroy, Sized
  <2>3. QED BY <2>1, <2>2
<1>6. exited' \in 0..workers' /\ process' \in {"up", "stopping", "destroyed"}
  <2>1. CASE Exit
    <3>1. exited + 1 <= workers
      BY <1>1, <2>1, OnWorkerFinite DEF Exit, FreeWorker
    <3>2. QED BY <1>1, <1>2, <2>1, <3>1 DEF Exit
  <2>2. CASE Terminate \/ Stop \/ Destroy
    BY <1>1, <1>2, <2>2 DEF Terminate, Stop, Destroy
  <2>3. QED BY <2>1, <2>2
<1>7. TypeOK'
  BY <1>2, <1>3, <1>6 DEF TypeOK, Waiting
<1>8. HoldersRun' /\ NoneLost'
  BY <1>2 DEF HoldersRun, NoneLost
<1>9. JoinedFirst'
  BY <1>2 DEF Terminate, Stop, Exit, Destroy, Dequeue, JoinedFirst
<1>10. QED BY <1>5, <1>7, <1>8, <1>9

LEMMA StepKeeps == IInv /\ [Next]_vars => IInv'
<1> SUFFICES ASSUME IInv, [Next]_vars PROVE IInv'
  OBVIOUS
<1>1. ASSUME NEW r \in Requests, Step(r) PROVE IInv'
  BY <1>1, ArriveKeeps, StartAskingKeeps, StartKeeps, GrantedKeeps, WaitKeeps, WaitClientKeeps,
     AnswerKeeps, ExpireKeeps, BrokenKeeps, ResumeKeeps, FinishKeeps, UnwindKeeps
  DEF Step, Handle
<1>2. CASE UNCHANGED vars
  BY <1>2 DEF vars, IInv, TypeOK, Sized, OnWorker, HoldersRun, NoneLost, JoinedFirst
<1>3. QED BY <1>1, <1>2, ProcessKeeps DEF Next

LEMMA Invariance == Spec => []IInv
BY Initially, StepKeeps, PTL DEF Spec

(* Whoever is blocked in get_or_block waits for a connection that is idle, *)
(* or held by a handler that runs: the threads are never all blocked,      *)
(* whatever their number and the number of connections.                    *)
THEOREM NeverAllBlocked == Spec => []BlockedOnlyByRunning
<1>1. IInv => BlockedOnlyByRunning
  BY ConnAssumption DEF IInv, HoldersRun, NoneLost, OnWorker, Working, BlockedOnlyByRunning
<1>2. QED BY <1>1, Invariance, PTL

(* No coroutine that the io_context unwinds after the pool was destroyed   *)
(* gives a connection back to it.                                          *)
THEOREM PoolIsDestroyedLast == Spec => []PoolOutlivesConnections
<1>1. IInv => PoolOutlivesConnections
  <2> SUFFICES ASSUME IInv, process = "destroyed" PROVE idle = Conns
    BY DEF PoolOutlivesConnections
  <2>1. Cardinality(OnWorker) = 0
    BY WorkersAssumption, OnWorkerFinite DEF IInv, TypeOK, Sized, JoinedFirst
  <2>2. OnWorker = {}
    BY <2>1, OnWorkerFinite, FS_EmptySet
  <2>3. \A r \in Requests : held[r] = NoConn
    BY <2>2 DEF IInv, HoldersRun, OnWorker, Working
  <2>4. Conns \subseteq idle
    BY <2>3, ConnAssumption DEF IInv, NoneLost
  <2>5. QED BY <2>4 DEF IInv, TypeOK
<1>2. QED BY <1>1, Invariance, PTL

=============================================================================
