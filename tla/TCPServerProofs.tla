-------------------------- MODULE TCPServerProofs --------------------------
(***************************************************************************)
(* Proofs about TCPServer, for any numbers of clients, descriptors, IO     *)
(* threads and requests: the start of the pool, and what the main thread   *)
(* and the IO threads, which share a connection without a lock, can rely   *)
(* on.                                                                     *)
(***************************************************************************)
EXTENDS TCPServer, TLAPS, FiniteSetTheorems, SequenceTheorems

-----------------------------------------------------------------------------
(***************************************************************************)
(* The pool.                                                               *)
(***************************************************************************)
\* What a step of the pool may be to the rest of the server.
PoolGoesOn ==
  /\ \A t \in Threads : HasLoop(t) => HasLoop(t)'
  /\ MainLooping => MainLooping'

\* The thread after t, or the end of the pool.
LEMMA NextFacts ==
  ASSUME NEW t \in Threads, NEW step, NEW after
  PROVE  \/ t + 1 \in Threads /\ NextOr(step, t, after) = <<step, t + 1>>
         \/ (\A u \in Threads : u <= t) /\ NextOr(step, t, after) = <<after, 0>>
BY ThreadNumsAssumption DEF Threads, NextOr

\* mIndex stays the index of a thread.
LEMMA IndexFacts ==
  ASSUME mIndex \in Threads
  PROVE  NextIndex \in Threads /\ 0 \in Threads
BY ThreadNumsAssumption DEF NextIndex, Threads

\* A step of the main thread while it starts the pool.
LEMMA MainStartsStep ==
  ASSUME PoolTypeOK, PoolInv, MainStarts
  PROVE  PoolTypeOK' /\ PoolInv' /\ PoolGoesOn
<1> PICK t \in Threads : CreateThread(t) \/ WaitInit(t) \/ SetStart(t) \/ NotifyStart(t)
  BY DEF MainStarts
<1> USE DEF HasLoop, Uncreated, MainLooping
<1> Threads \subseteq Nat /\ 0 \in Threads
  BY ThreadNumsAssumption DEF Threads
<1>1. CASE CreateThread(t)
  BY <1>1 DEF CreateThread, PoolTypeOK, PoolInv, PoolGoesOn
<1>2. CASE WaitInit(t)
  <2>1. CASE ~Initialised(t)
    BY <1>2, <2>1 DEF WaitInit, PoolTypeOK, PoolInv, PoolGoesOn
  <2>2. CASE Initialised(t)
    <3>1. HasLoop(t) /\ mainAt = <<"test", t>> /\ mainAt' = NextOr("create", t, "start")
      BY <1>2, <2>2 DEF WaitInit, Initialised, PoolInv
    <3>2. UNCHANGED <<phase, mInitDone, mStart, mIndex>>
      BY <1>2 DEF WaitInit
    <3>3. CASE t + 1 \in Threads /\ mainAt' = <<"create", t + 1>>
      BY <3>1, <3>2, <3>3 DEF PoolTypeOK, PoolInv, PoolGoesOn
    <3>4. CASE (\A u \in Threads : u <= t) /\ mainAt' = <<"start", 0>>
      BY <3>1, <3>2, <3>4 DEF PoolTypeOK, PoolInv, PoolGoesOn
    <3> QED
      BY <3>1, <3>3, <3>4, NextFacts
  <2> QED
    BY <2>1, <2>2
<1>3. CASE SetStart(t)
  BY <1>3 DEF SetStart, PoolTypeOK, PoolInv, PoolGoesOn
<1>4. CASE NotifyStart(t)
  <2>1. /\ mainAt = <<"notify", t>>
        /\ mainAt' = NextOr("start", t, "loop")
        /\ phase' = [phase EXCEPT ![t] = IF @ = "asleep" THEN "test" ELSE @]
        /\ UNCHANGED <<mInitDone, mStart, mIndex>>
    BY <1>4 DEF NotifyStart
  <2>2. CASE t + 1 \in Threads /\ mainAt' = <<"start", t + 1>>
    BY <2>1, <2>2 DEF PoolTypeOK, PoolInv, PoolGoesOn
  <2>3. CASE (\A u \in Threads : u <= t) /\ mainAt' = <<"loop", 0>>
    BY <2>1, <2>3 DEF PoolTypeOK, PoolInv, PoolGoesOn
  <2> QED
    BY <2>1, <2>2, <2>3, NextFacts
<1> QED
  BY <1>1, <1>2, <1>3, <1>4

\* A step of a thread on its way to its loop.
LEMMA ThreadStartsStep ==
  ASSUME PoolTypeOK, PoolInv, NEW t \in Threads, ThreadStarts(t)
  PROVE  PoolTypeOK' /\ PoolInv' /\ PoolGoesOn
<1> USE DEF HasLoop, Uncreated, MainLooping, PoolTypeOK, PoolInv, PoolGoesOn
<1>1. CASE MakeLoop(t)
  BY <1>1 DEF MakeLoop
<1>2. CASE SetInitDone(t)
  BY <1>2 DEF SetInitDone
<1>3. CASE NotifyInit(t)
  BY <1>3 DEF NotifyInit
<1>4. CASE WaitStart(t)
  BY <1>4 DEF WaitStart, TestStart
<1> QED
  BY <1>1, <1>2, <1>3, <1>4 DEF ThreadStarts

\* GetIOThread.
LEMMA GetIOThreadStep ==
  ASSUME PoolTypeOK, PoolInv, GetIOThread
  PROVE  PoolTypeOK' /\ PoolInv' /\ PoolGoesOn
BY IndexFacts
   DEF GetIOThread, PoolTypeOK, PoolInv, PoolGoesOn, HasLoop, Uncreated, MainLooping

\* A step that leaves the pool alone.
LEMMA PoolKept ==
  ASSUME PoolTypeOK, PoolInv, UNCHANGED pool
  PROVE  PoolTypeOK' /\ PoolInv' /\ PoolGoesOn
BY DEF pool, PoolTypeOK, PoolInv, PoolGoesOn, HasLoop, Uncreated, MainLooping

-----------------------------------------------------------------------------
(***************************************************************************)
(* What is left as it is when the variables it speaks of are.              *)
(***************************************************************************)
\* The types of what callbacks and clients do not touch.
LEMMA LivesKept ==
  ASSUME Lives, PoolGoesOn, UNCHANGED <<tables, mState, clearing>>
  PROVE  Lives' /\ UNCHANGED mThread
BY DEF Lives, PoolGoesOn, tables

\* The main thread's tables.
LEMMA MapKept ==
  ASSUME FdMapAgrees, UNCHANGED tables
  PROVE  FdMapAgrees'
BY DEF FdMapAgrees, tables

\* Connections keep their threads, which keep their loops.
LEMMA HandedKept ==
  ASSUME HandedToLoop, TypeOK, PoolGoesOn, UNCHANGED mThread
  PROVE  HandedToLoop'
BY DEF HandedToLoop, TypeOK, PoolGoesOn

\* The queues, when nothing is added to an epoll or to a queue.
LEMMA QueuesKept ==
  ASSUME Queues, UNCHANGED <<tables, mState, clearing, mTasks>>,
         \A t \in Threads : mListenFds'[t] \subseteq mListenFds[t]
  PROVE  Queues'
BY DEF Queues, tables

\* The registrations, when none is added and connections stay as they are.
LEMMA RegisteredKept ==
  ASSUME RegisteredIsAlive, UNCHANGED <<tables, mState>>,
         \A t \in Threads : mListenFds'[t] \subseteq mListenFds[t]
  PROVE  RegisteredIsAlive'
BY DEF RegisteredIsAlive, tables

\* What every step preserves, without LeftoverIsOneWrite, which follows.
Core ==
  /\ TypeOK /\ PoolInv /\ Lives /\ Queues
  /\ HandedToLoop /\ FdMapAgrees /\ RegisteredIsAlive

\* A step that leaves connections, queues and registrations alone.
LEMMA Undisturbed ==
  ASSUME Core, TypeOK', PoolInv', PoolGoesOn,
         UNCHANGED <<tables, mState, mTasks, clearing>>,
         \A t \in Threads : mListenFds'[t] \subseteq mListenFds[t]
  PROVE  Core'
BY LivesKept, MapKept, HandedKept, QueuesKept, RegisteredKept DEF Core

-----------------------------------------------------------------------------
(***************************************************************************)
(* Queues.                                                                 *)
(***************************************************************************)
\* A queue without its head.
LEMMA TailFacts ==
  ASSUME NEW S, NEW q \in Seq(S), q # <<>>
  PROVE  /\ Tail(q) \in Seq(S)
         /\ Head(q) = q[1] /\ 1 \in DOMAIN q
         /\ \A i \in DOMAIN Tail(q) : i + 1 \in DOMAIN q /\ Tail(q)[i] = q[i + 1]
         /\ \A i \in DOMAIN Tail(q) : i \in Nat /\ i > 0
<1>1. Tail(q) \in Seq(S) /\ Len(q) > 0 /\ Len(Tail(q)) = Len(q) - 1
  OBVIOUS
<1>2. \A i \in 1 .. Len(q) - 1 : Tail(q)[i] = q[i + 1]
  OBVIOUS
<1>3. DOMAIN q = 1 .. Len(q) /\ DOMAIN Tail(q) = 1 .. Len(q) - 1 /\ Head(q) = q[1]
  BY <1>1
<1> QED
  BY <1>1, <1>2, <1>3

\* A queue with a batch at its end.
LEMMA ConcatFacts ==
  ASSUME NEW S, NEW q \in Seq(S), NEW r \in Seq(S)
  PROVE  /\ q \o r \in Seq(S)
         /\ \A i \in DOMAIN (q \o r) :
              \/ i \in DOMAIN q /\ (q \o r)[i] = q[i] /\ i <= Len(q)
              \/ i - Len(q) \in DOMAIN r /\ (q \o r)[i] = r[i - Len(q)] /\ i > Len(q)
         /\ \A i \in DOMAIN (q \o r) : i \in Nat
         /\ Len(q) \in Nat
OBVIOUS

\* A queue with a task at its end.
LEMMA AppendFacts ==
  ASSUME NEW S, NEW q \in Seq(S), NEW x \in S
  PROVE  /\ Append(q, x) \in Seq(S)
         /\ \A i \in DOMAIN Append(q, x) :
              \/ i \in DOMAIN q /\ Append(q, x)[i] = q[i] /\ i <= Len(q)
              \/ i = Len(q) + 1 /\ Append(q, x)[i] = x
         /\ Len(q) \in Nat
         /\ \A i \in DOMAIN q : i <= Len(q)
OBVIOUS

\* The head of a queue is taken, by a callback that leaves connections, and
\* what their thread is in the middle of, alone: the queues stay in order, and
\* the connection's next task, if there is one, is its onWrite.
LEMMA QueuesTaken ==
  ASSUME TypeOK, Queues, NEW t \in Threads, NEW task \in Task, Take(t, task),
         UNCHANGED <<tables, mState>>,
         clearing' \in {clearing, [clearing EXCEPT ![t] = task[2]]},
         \/ mListenFds' = mListenFds
         \/ /\ mListenFds' = [mListenFds EXCEPT ![t] = @ \cup {mConnFd[task[2]]}]
            /\ Lives /\ mConnFd[task[2]] # None
  PROVE  Queues'
<1> DEFINE q == mTasks[t]
<1>1. q \in Seq(Task) /\ q # <<>> /\ Head(q) = task /\ mTasks' = [mTasks EXCEPT ![t] = Tail(q)]
  BY DEF TypeOK, Take
<1>2. /\ q[1] = task /\ 1 \in DOMAIN q
      /\ \A i \in DOMAIN Tail(q) : i + 1 \in DOMAIN q /\ Tail(q)[i] = q[i + 1] /\ i + 1 > 1
  BY <1>1, TailFacts
<1>3. mThread[task[2]] = t
  BY <1>2 DEF Queues
<1>4. \A i \in DOMAIN q : i > 1 /\ q[i][2] = task[2] => task[1] = "IN" /\ q[i][1] = "OUT"
  BY <1>2 DEF Queues
<1> SUFFICES ASSUME NEW u \in Threads, NEW i \in DOMAIN mTasks'[u]
             PROVE  LET c == mTasks'[u][i][2]
                    IN  /\ mThread[c] = u
                        /\ mTasks'[u][i][1] # "OUT" =>
                             mState[c] \in {"NotConnected", "Connected"} /\ clearing'[u] # c
                        /\ mTasks'[u][i][1] = "add" => mConnFd[c] \notin mListenFds'[u]
                        /\ \A j \in DOMAIN mTasks'[u] :
                             j > i /\ mTasks'[u][j][2] = c =>
                               mTasks'[u][i][1] = "IN" /\ mTasks'[u][j][1] = "OUT"
  BY DEF Queues, tables
<1>5. PICK k \in DOMAIN mTasks[u] :
        /\ mTasks'[u][i] = mTasks[u][k] /\ (u = t => k > 1)
        /\ \A j \in DOMAIN mTasks'[u] : j > i =>
             \E l \in DOMAIN mTasks[u] : l > k /\ mTasks'[u][j] = mTasks[u][l]
  <2>1. CASE u = t
    <3>1. mTasks'[u] = Tail(q)
      BY <1>1, <2>1 DEF TypeOK
    <3>2. DOMAIN Tail(q) \subseteq Nat
      BY <1>1, TailFacts
    <3> QED
      BY <1>2, <3>1, <3>2, <2>1
  <2>2. CASE u # t
    BY <1>1, <2>2 DEF TypeOK
  <2> QED
    BY <2>1, <2>2
<1> DEFINE d == mTasks[u][k][2]
<1>6. mTasks[u][k] \in Task /\ d \in Clients /\ task[2] \in Clients
  BY DEF TypeOK, Task
<1>7. /\ mThread[d] = u
      /\ mTasks[u][k][1] # "OUT" =>
           mState[d] \in {"NotConnected", "Connected"} /\ clearing[u] # d
      /\ mTasks[u][k][1] = "add" => mConnFd[d] \notin mListenFds[u]
      /\ \A l \in DOMAIN mTasks[u] :
           l > k /\ mTasks[u][l][2] = d => mTasks[u][k][1] = "IN" /\ mTasks[u][l][1] = "OUT"
  BY DEF Queues
<1>8. mTasks[u][k][1] # "OUT" => d # task[2]
  BY <1>3, <1>4, <1>5, <1>7
<1>9. mTasks[u][k][1] # "OUT" => clearing'[u] # d
  BY <1>7, <1>8 DEF TypeOK
<1>10. mTasks[u][k][1] = "add" => mConnFd[d] \notin mListenFds'[u]
  <2> SUFFICES ASSUME mTasks[u][k][1] = "add"
               PROVE  mConnFd[d] \notin mListenFds'[u]
    OBVIOUS
  <2>1. d # task[2] /\ mConnFd[d] \notin mListenFds[u]
    BY <1>7, <1>8
  <2>2. CASE mListenFds' = mListenFds
    BY <2>1, <2>2
  <2>3. CASE /\ mListenFds' = [mListenFds EXCEPT ![t] = @ \cup {mConnFd[task[2]]}]
             /\ Lives /\ mConnFd[task[2]] # None
    <3>1. mConnFd[d] # mConnFd[task[2]]
      BY <2>1, <2>3, <1>6 DEF Lives
    <3> QED
      BY <3>1, <2>1, <2>3 DEF TypeOK
  <2> QED
    BY <2>2, <2>3
<1>11. \A j \in DOMAIN mTasks'[u] :
         j > i /\ mTasks'[u][j][2] = d => mTasks[u][k][1] = "IN" /\ mTasks'[u][j][1] = "OUT"
  BY <1>5, <1>7
<1> QED
  BY <1>5, <1>7, <1>9, <1>10, <1>11

-----------------------------------------------------------------------------
(***************************************************************************)
(* The callbacks of an IO thread.                                          *)
(***************************************************************************)
\* What Take does to the types of the queues and says of the task.
LEMMA TakeFacts ==
  ASSUME TypeOK, Queues, NEW t \in Threads, NEW task, Take(t, task)
  PROVE  /\ mTasks' \in [Threads -> Seq(Task)]
         /\ task \in Task /\ task[2] \in Clients /\ mThread[task[2]] = t
         /\ task[1] # "OUT" => mState[task[2]] \in {"NotConnected", "Connected"}
<1> DEFINE q == mTasks[t]
<1>1. q \in Seq(Task) /\ q # <<>> /\ Head(q) = task /\ mTasks' = [mTasks EXCEPT ![t] = Tail(q)]
  BY DEF TypeOK, Take
<1>2. q[1] = task /\ 1 \in DOMAIN q /\ q[1] \in Task /\ Tail(q) \in Seq(Task)
  BY <1>1, TailFacts
<1>3. task[2] \in Clients
  BY <1>2 DEF Task
<1>4. /\ mThread[task[2]] = t
      /\ task[1] # "OUT" => mState[task[2]] \in {"NotConnected", "Connected"}
  BY <1>2 DEF Queues
<1> QED
  BY <1>1, <1>2, <1>3, <1>4 DEF TypeOK

\* A connection that is neither to come nor destroyed has a descriptor.
LEMMA FdFacts ==
  ASSUME TypeOK, Lives, NEW c \in Clients, mState[c] \in {"NotConnected", "Connected", "Closed"}
  PROVE  mConnFd[c] # None /\ mConnFd[c] \in Fds
<1>1. mConnFd[c] # None
  BY DEF Lives
<1>2. mConnFd[c] \in Fds \cup {None}
  BY DEF TypeOK
<1> QED
  BY <1>1, <1>2

\* A callback that registers its connection, enters clear() or does neither.
LEMMA CallbackStep ==
  ASSUME Core, TypeOK', NEW t \in Threads, NEW task, Take(t, task),
         UNCHANGED <<pool, tables, mState>>,
         \/ clearing' = clearing
         \/ clearing' = [clearing EXCEPT ![t] = task[2]] /\ mState[task[2]] = "Connected",
         \/ mListenFds' = mListenFds
         \/ /\ mListenFds' = [mListenFds EXCEPT ![t] = @ \cup {mConnFd[task[2]]}]
            /\ mState[task[2]] \in {"NotConnected", "Connected"}
  PROVE  Core'
<1>1. task \in Task /\ task[2] \in Clients /\ mThread[task[2]] = t
  BY TakeFacts DEF Core
<1>2. PoolInv' /\ PoolGoesOn
  BY PoolKept DEF Core, TypeOK
<1>3. UNCHANGED mThread
  BY DEF tables
<1>4. Lives'
  <2>1. CASE clearing' = clearing
    BY <2>1, <1>2, LivesKept DEF Core
  <2>2. CASE clearing' = [clearing EXCEPT ![t] = task[2]] /\ mState[task[2]] = "Connected"
    <3>1. UNCHANGED <<mConnClients, accepting, mConnFd, mThread, mState>>
      BY DEF tables
    <3>2. \A u \in Threads, c \in Clients :
            clearing'[u] = c => mThread[c] = u /\ mState[c] = "Connected"
      <4>1. \A u \in Threads : clearing'[u] = IF u = t THEN task[2] ELSE clearing[u]
        BY <2>2 DEF Core, TypeOK
      <4> QED
        BY <4>1, <1>1, <2>2 DEF Core, Lives
    <3> QED
      BY <3>1, <3>2, <1>2 DEF Core, Lives, PoolGoesOn
  <2> QED
    BY <2>1, <2>2
<1>5. mState[task[2]] \in {"NotConnected", "Connected"} => mConnFd[task[2]] # None
  BY <1>1 DEF Core, Lives
<1>6. Queues'
  BY <1>1, <1>5, QueuesTaken DEF Core
<1>7. RegisteredIsAlive'
  <2>1. CASE mListenFds' = mListenFds
    BY <2>1, RegisteredKept DEF Core
  <2>2. CASE /\ mListenFds' = [mListenFds EXCEPT ![t] = @ \cup {mConnFd[task[2]]}]
             /\ mState[task[2]] \in {"NotConnected", "Connected"}
    BY <2>2, <1>1 DEF Core, RegisteredIsAlive, tables, TypeOK
  <2> QED
    BY <2>1, <2>2
<1> QED
  BY <1>2, <1>3, <1>4, <1>6, <1>7, MapKept, HandedKept DEF Core

\* The add task.
LEMMA RunAddStep ==
  ASSUME Core, NEW t \in Threads, NEW c \in Clients, RunAdd(t, c)
  PROVE  Core'
<1>1. /\ Take(t, <<"add", c>>)
      /\ Register(t, c, mEpollEvent[c], Readiness(c))
      /\ UNCHANGED <<pool, tables, mState, clearing, peer, error, traffic, running, missed>>
  BY DEF RunAdd
<1>2. /\ mTasks' \in [Threads -> Seq(Task)]
      /\ mState[c] \in {"NotConnected", "Connected"}
  BY <1>1, TakeFacts DEF Core
<1>3. mConnFd[c] \in Fds
  BY <1>2, FdFacts DEF Core
<1>4. TypeOK'
  BY <1>1, <1>2, <1>3, PoolKept DEF Core, TypeOK, Register, tables, traffic
<1> QED
  BY <1>1, <1>2, <1>4, CallbackStep DEF Register

\* onRead and onWrite of a connection that is not Connected.
LEMMA RunUnconnectedStep ==
  ASSUME Core, NEW t \in Threads, NEW c \in Clients, RunUnconnected(t, c)
  PROVE  Core'
<1>1. PICK bit \in {"IN", "OUT"} : Take(t, <<bit, c>>)
  BY DEF RunUnconnected
<1>2. /\ UNCHANGED <<pool, tables, mState, mEpollEvent, mListenFds, clearing, kernel, traffic,
                     running>>
      /\ missed' \in {missed, missed \cup {c}}
  BY DEF RunUnconnected
<1>3. mTasks' \in [Threads -> Seq(Task)]
  BY <1>1, TakeFacts DEF Core
<1>4. TypeOK'
  BY <1>2, <1>3, PoolKept DEF Core, TypeOK, tables, kernel, traffic
<1> QED
  BY <1>1, <1>2, <1>4, CallbackStep

\* A callback of a connection that is destroyed.
LEMMA RunFreedStep ==
  ASSUME Core, NEW t \in Threads, NEW c \in Clients, RunFreed(t, c)
  PROVE  Core'
<1>1. PICK bit \in {"IN", "OUT"} : Take(t, <<bit, c>>)
  BY DEF RunFreed
<1>2. /\ UNCHANGED <<pool, tables, mState, mEpollEvent, mListenFds, clearing, kernel, traffic,
                     missed>>
      /\ running' \in BOOLEAN
  BY DEF RunFreed
<1>3. mTasks' \in [Threads -> Seq(Task)]
  BY <1>1, TakeFacts DEF Core
<1>4. TypeOK'
  BY <1>2, <1>3, PoolKept DEF Core, TypeOK, tables, kernel, traffic
<1> QED
  BY <1>1, <1>2, <1>4, CallbackStep

\* onRead that fails.
LEMMA ReadErrorStep ==
  ASSUME Core, NEW t \in Threads, NEW c \in Clients, ReadError(t, c)
  PROVE  Core'
<1>1. /\ Take(t, <<"IN", c>>)
      /\ error' = error \ {c}
      /\ UNCHANGED <<pool, tables, mState, mEpollEvent, mListenFds, clearing, armed, peer,
                     traffic, running, missed>>
  BY DEF ReadError
<1>2. mTasks' \in [Threads -> Seq(Task)]
  BY <1>1, TakeFacts DEF Core
<1>3. TypeOK'
  BY <1>1, <1>2, PoolKept DEF Core, TypeOK, tables, traffic
<1> QED
  BY <1>1, <1>3, CallbackStep

\* onRead at the end of the stream.
LEMMA ReadEOFStep ==
  ASSUME Core, NEW t \in Threads, NEW c \in Clients, ReadEOF(t, c)
  PROVE  Core'
<1>1. /\ Take(t, <<"IN", c>>)
      /\ mState[c] = "Connected"
      /\ clearing' = [clearing EXCEPT ![t] = c]
      /\ UNCHANGED <<pool, tables, mState, mEpollEvent, mListenFds, kernel, traffic, running,
                     missed>>
  BY DEF ReadEOF, Cleared
<1>2. mTasks' \in [Threads -> Seq(Task)]
  BY <1>1, TakeFacts DEF Core
<1>3. TypeOK'
  BY <1>1, <1>2, PoolKept DEF Core, TypeOK, tables, kernel, traffic
<1> QED
  BY <1>1, <1>3, CallbackStep

\* onRead that reads and executes.
LEMMA ReadExecuteStep ==
  ASSUME Core, NEW t \in Threads, NEW c \in Clients, ReadExecute(t, c)
  PROVE  Core'
<1>1. /\ Take(t, <<"IN", c>>)
      /\ mState[c] = "Connected"
      /\ executed' = [executed EXCEPT ![c] = sent[c]]
      /\ Register(t, c, ListenWriteEvent(mEpollEvent[c]), {"OUT"})
      /\ UNCHANGED <<pool, tables, mState, clearing, peer, error, sent, answered,
                     running, missed>>
  BY DEF ReadExecute
<1>2. mTasks' \in [Threads -> Seq(Task)]
  BY <1>1, TakeFacts DEF Core
<1>3. mConnFd[c] \in Fds
  BY <1>1, FdFacts DEF Core
<1>4. mEpollEvent' \in [Clients -> SUBSET {"IN", "OUT"}]
  <2>1. mEpollEvent' = [mEpollEvent EXCEPT ![c] = mEpollEvent[c] \cup {"OUT"}]
    BY <1>1 DEF Register, ListenWriteEvent, SetFdEvent
  <2>2. mEpollEvent \in [Clients -> SUBSET {"IN", "OUT"}]
    BY DEF Core, TypeOK
  <2> QED
    BY <2>1, <2>2
<1>5. TypeOK'
  <2>1. {sent, executed, answered} \subseteq [Clients -> Nat]
    BY DEF Core, TypeOK
  <2>2. {sent, executed, answered}' \subseteq [Clients -> Nat]
    BY <1>1, <2>1
  <2>3. mListenFds' \in [Threads -> SUBSET Fds] /\ armed' \in SUBSET Clients
    BY <1>1, <1>3 DEF Core, TypeOK, Register
  <2> QED
    BY <1>1, <1>2, <1>4, <2>2, <2>3, PoolKept DEF Core, TypeOK, tables
<1> QED
  BY <1>1, <1>5, CallbackStep DEF Register

\* onWrite.
LEMMA WriteStep ==
  ASSUME Core, NEW t \in Threads, NEW c \in Clients, Write(t, c)
  PROVE  Core'
<1>1. /\ Take(t, <<"OUT", c>>)
      /\ mState[c] = "Connected"
      /\ answered' = [answered EXCEPT ![c] = executed[c]]
      /\ Register(t, c, CancelFdEvent(mEpollEvent[c], "OUT"), Readiness(c))
      /\ UNCHANGED <<pool, tables, mState, clearing, peer, error, sent, executed,
                     running, missed>>
  BY DEF Write
<1>2. mTasks' \in [Threads -> Seq(Task)]
  BY <1>1, TakeFacts DEF Core
<1>3. mConnFd[c] \in Fds
  BY <1>1, FdFacts DEF Core
<1>4. mEpollEvent' \in [Clients -> SUBSET {"IN", "OUT"}]
  <2>1. mEpollEvent' = [mEpollEvent EXCEPT ![c] = mEpollEvent[c] \ {"OUT"}]
    BY <1>1 DEF Register, CancelFdEvent
  <2>2. mEpollEvent \in [Clients -> SUBSET {"IN", "OUT"}]
    BY DEF Core, TypeOK
  <2> QED
    BY <2>1, <2>2
<1>5. TypeOK'
  <2>1. {sent, executed, answered} \subseteq [Clients -> Nat]
    BY DEF Core, TypeOK
  <2>2. {sent, executed, answered}' \subseteq [Clients -> Nat]
    BY <1>1, <2>1
  <2>3. mListenFds' \in [Threads -> SUBSET Fds] /\ armed' \in SUBSET Clients
    BY <1>1, <1>3 DEF Core, TypeOK, Register
  <2> QED
    BY <1>1, <1>2, <1>4, <2>2, <2>3, PoolKept DEF Core, TypeOK, tables
<1> QED
  BY <1>1, <1>5, CallbackStep DEF Register

\* onWrite after a reset.
LEMMA WriteKilledStep ==
  ASSUME Core, NEW t \in Threads, NEW c \in Clients, WriteKilled(t, c)
  PROVE  Core'
<1>1. /\ Take(t, <<"OUT", c>>)
      /\ running' = FALSE
      /\ UNCHANGED <<pool, tables, mState, mEpollEvent, mListenFds, clearing, kernel,
                     traffic, missed>>
  BY DEF WriteKilled
<1>2. mTasks' \in [Threads -> Seq(Task)]
  BY <1>1, TakeFacts DEF Core
<1>3. TypeOK'
  BY <1>1, <1>2, PoolKept DEF Core, TypeOK, tables, kernel, traffic
<1> QED
  BY <1>1, <1>3, CallbackStep

-----------------------------------------------------------------------------
(***************************************************************************)
(* The rest of an IO thread.                                               *)
(***************************************************************************)
\* The way of a thread to its loop.
LEMMA StartThreadStep ==
  ASSUME Core, NEW t \in Threads, StartThread(t)
  PROVE  Core'
<1>1. ThreadStarts(t) /\ UNCHANGED served
  BY DEF StartThread
<1>2. PoolTypeOK' /\ PoolInv' /\ PoolGoesOn
  BY <1>1, ThreadStartsStep DEF Core, TypeOK
<1>3. TypeOK'
  BY <1>1, <1>2 DEF Core, TypeOK, served, tables, loops, kernel, traffic
<1> QED
  BY <1>1, <1>2, <1>3, Undisturbed DEF served, loops

\* The end of clear(): the connection leaves epoll and is Closed.
LEMMA ClearConnStep ==
  ASSUME Core, NEW t \in Threads, ClearConn(t)
  PROVE  Core'
<1> DEFINE c == clearing[t]
<1>1. /\ c # None
      /\ mListenFds' = [mListenFds EXCEPT ![t] = @ \ {mConnFd[c]}]
      /\ armed' = armed \ {c}
      /\ mState' = [mState EXCEPT ![c] = "Closed"]
      /\ clearing' = [clearing EXCEPT ![t] = None]
      /\ UNCHANGED <<pool, tables, mEpollEvent, mTasks, peer, error, traffic, running, missed>>
  BY DEF ClearConn, Deleted
<1>2. c \in Clients /\ mThread[c] = t /\ mState[c] = "Connected"
  BY <1>1 DEF Core, TypeOK, Lives
<1>3. mConnFd[c] # None /\ mConnFd[c] \in Fds
  BY <1>2, FdFacts DEF Core
<1>4. PoolTypeOK' /\ PoolInv' /\ PoolGoesOn
  BY <1>1, PoolKept DEF Core, TypeOK
<1>5. TypeOK'
  BY <1>1, <1>2, <1>4 DEF Core, TypeOK, tables, traffic
<1>6. /\ UNCHANGED <<mConnClients, accepting, mConnFd, mThread>>
      /\ mState'[c] = "Closed" /\ \A d \in Clients \ {c} : mState'[d] = mState[d]
      /\ \A u \in Threads : clearing'[u] = IF u = t THEN None ELSE clearing[u]
  BY <1>1, <1>2 DEF Core, TypeOK, tables
<1>7. Lives'
  <2>1. \A u \in Threads, d \in Clients :
          clearing'[u] = d => mThread[d] = u /\ mState'[d] = "Connected"
    BY <1>2, <1>6, ConstantsAssumption DEF Core, Lives
  <2>2. \A d \in Clients :
          /\ mConnFd[d] = None <=> mState'[d] \in {"none", "freed"}
          /\ mThread[d] = None <=> mState'[d] = "none"
          /\ accepting = d <=> mState'[d] = "NotConnected"
          /\ d \in mConnClients <=> mState'[d] \in {"Connected", "Closed"}
    BY <1>2, <1>6 DEF Core, Lives
  <2> QED
    BY <1>4, <1>6, <2>1, <2>2 DEF Core, Lives, PoolGoesOn
<1>8. Queues'
  <2> SUFFICES ASSUME NEW u \in Threads, NEW i \in DOMAIN mTasks[u]
               PROVE  LET d == mTasks[u][i][2]
                      IN  /\ mThread[d] = u
                          /\ mTasks[u][i][1] # "OUT" =>
                               /\ mState'[d] \in {"NotConnected", "Connected"}
                               /\ clearing'[u] # d
                          /\ mTasks[u][i][1] = "add" => mConnFd[d] \notin mListenFds'[u]
                          /\ \A j \in DOMAIN mTasks[u] :
                               j > i /\ mTasks[u][j][2] = d =>
                                 mTasks[u][i][1] = "IN" /\ mTasks[u][j][1] = "OUT"
    BY <1>1 DEF Queues, tables
  <2> DEFINE d == mTasks[u][i][2]
  <2>1. d \in Clients
    BY DEF Core, TypeOK, Task
  <2>2. /\ mThread[d] = u
        /\ mTasks[u][i][1] # "OUT" =>
             mState[d] \in {"NotConnected", "Connected"} /\ clearing[u] # d
        /\ mTasks[u][i][1] = "add" => mConnFd[d] \notin mListenFds[u]
        /\ \A j \in DOMAIN mTasks[u] :
             j > i /\ mTasks[u][j][2] = d => mTasks[u][i][1] = "IN" /\ mTasks[u][j][1] = "OUT"
    BY DEF Core, Queues
  <2>3. mTasks[u][i][1] # "OUT" =>
          mState'[d] \in {"NotConnected", "Connected"} /\ clearing'[u] # d
    BY <1>2, <1>6, <2>1, <2>2, ConstantsAssumption
  <2>4. mListenFds'[u] \subseteq mListenFds[u]
    BY <1>1 DEF Core, TypeOK
  <2> QED
    BY <2>2, <2>3, <2>4
<1>9. RegisteredIsAlive'
  <2> SUFFICES ASSUME NEW u \in Threads, NEW f \in mListenFds'[u]
               PROVE  \E d \in Clients : /\ mConnFd[d] = f /\ mThread[d] = u
                                         /\ mState'[d] \in {"NotConnected", "Connected"}
    BY <1>6 DEF RegisteredIsAlive
  <2>1. f \in mListenFds[u] /\ (u = t => f # mConnFd[c])
    BY <1>1 DEF Core, TypeOK
  <2>2. PICK d \in Clients : /\ mConnFd[d] = f /\ mThread[d] = u
                             /\ mState[d] \in {"NotConnected", "Connected"}
    BY <2>1 DEF Core, RegisteredIsAlive
  <2>3. d # c
    BY <1>2, <2>1, <2>2
  <2> QED
    BY <1>6, <2>2, <2>3
<1> QED
  BY <1>1, <1>4, <1>5, <1>6, <1>7, <1>8, <1>9, MapKept, HandedKept DEF Core

\* What epoll_wait returns, as a sequence of callbacks.
LEMMA BatchFacts ==
  ASSUME TypeOK, NEW t \in Threads, NEW batch \in Batches(t)
  PROVE  /\ batch \in Seq(Task)
         /\ \A i \in DOMAIN batch : /\ batch[i] \in {"IN", "OUT"} \X Clients
                                    /\ batch[i][2] \in Available(t)
         /\ \A i, j \in DOMAIN batch :
              j > i /\ batch[j][2] = batch[i][2] => batch[i][1] = "IN" /\ batch[j][1] = "OUT"
<1> DEFINE n == Cardinality(Callbacks(t))
<1>1. Callbacks(t) \subseteq {"IN", "OUT"} \X Clients
  <2>1. Available(t) \subseteq Clients
    BY DEF Available, TypeOK
  <2>2. Callbacks(t) \subseteq {"IN", "OUT"} \X Available(t)
    BY DEF Callbacks
  <2> QED
    BY <2>1, <2>2
<1>2. n \in Nat
  <2>1. IsFiniteSet({"IN", "OUT"} \X Clients)
    <3>1. IsFiniteSet({"IN", "OUT"})
      <4>1. IsFiniteSet({"IN"}) /\ {"IN", "OUT"} = {"IN"} \cup {"OUT"}
        BY FS_Singleton
      <4> QED
        BY <4>1, FS_AddElement
    <3> QED
      BY <3>1, ConstantsAssumption, FS_Product
  <2> QED
    BY <1>1, <2>1, FS_Subset, FS_CardinalityType
<1>3. /\ batch \in [1 .. n -> Callbacks(t)]
      /\ \A i, j \in 1 .. n : i # j => batch[i] # batch[j]
      /\ \A i \in 1 .. n :
           <<"IN", batch[i][2]>> \in Callbacks(t) \ {batch[i]} =>
             i > 1 /\ batch[i - 1] = <<"IN", batch[i][2]>>
  BY DEF Batches, SetToSeqs
<1>4. DOMAIN batch = 1 .. n /\ \A i \in 1 .. n : batch[i] \in Callbacks(t)
  BY <1>3
<1>5. \A i \in 1 .. n : /\ batch[i] \in {"IN", "OUT"} \X Clients
                        /\ batch[i][2] \in Available(t)
                        /\ batch[i] = <<batch[i][1], batch[i][2]>>
  BY <1>1, <1>4 DEF Callbacks
<1>6. batch \in Seq(Task)
  BY <1>2, <1>3, <1>4, <1>5 DEF Task
<1>7. ASSUME NEW i \in 1 .. n, NEW j \in 1 .. n, j > i, batch[j][2] = batch[i][2]
      PROVE  batch[i][1] = "IN" /\ batch[j][1] = "OUT"
  <2> DEFINE read == <<"IN", batch[i][2]>>
  <2>1. batch[i] # batch[j]
    BY <1>2, <1>3, <1>7
  <2>2. batch[i][1] # batch[j][1]
    BY <1>5, <1>7, <2>1
  <2>3. batch[i][1] \in {"IN", "OUT"} /\ batch[j][1] \in {"IN", "OUT"}
    BY <1>5
  <2>4. ASSUME batch[i][1] = "OUT"
        PROVE  FALSE
    <3>1. batch[j] = read /\ read \in Callbacks(t) \ {batch[i]}
      BY <1>4, <1>5, <1>7, <2>1, <2>2, <2>3, <2>4
    <3>2. i > 1 /\ batch[i - 1] = read
      BY <1>3, <3>1
    <3>3. i - 1 \in 1 .. n /\ i - 1 # j
      BY <1>2, <1>7, <3>2
    <3> QED
      BY <1>3, <3>1, <3>2, <3>3
  <2> QED
    BY <2>2, <2>3, <2>4
<1> QED
  BY <1>4, <1>5, <1>6, <1>7

\* epoll_wait and the dispatch.
LEMMA EpollWaitStep ==
  ASSUME Core, NEW t \in Threads, EpollWait(t)
  PROVE  Core'
<1>1. PICK batch \in Batches(t) : mTasks' = [mTasks EXCEPT ![t] = @ \o batch]
  BY DEF EpollWait
<1>2. /\ clearing[t] = None /\ NoCallback(t)
      /\ mListenFds' =
           [mListenFds EXCEPT ![t] = @ \ {mConnFd[c] : c \in Available(t) \cap error}]
      /\ armed' = armed \ Available(t)
      /\ UNCHANGED <<pool, tables, mState, mEpollEvent, clearing, peer, error, traffic,
                     running, missed>>
  BY DEF EpollWait
<1> DEFINE q == mTasks[t]
<1>3. q \in Seq(Task) /\ mTasks' = [mTasks EXCEPT ![t] = q \o batch]
  BY <1>1 DEF Core, TypeOK
<1>4. /\ batch \in Seq(Task)
      /\ \A i \in DOMAIN batch : /\ batch[i] \in {"IN", "OUT"} \X Clients
                                 /\ batch[i][2] \in Available(t)
      /\ \A i, j \in DOMAIN batch :
           j > i /\ batch[j][2] = batch[i][2] => batch[i][1] = "IN" /\ batch[j][1] = "OUT"
  BY BatchFacts DEF Core
<1>5. PoolTypeOK' /\ PoolInv' /\ PoolGoesOn
  BY <1>2, PoolKept DEF Core, TypeOK
<1>6. mTasks' \in [Threads -> Seq(Task)]
  BY <1>3, <1>4, ConcatFacts DEF Core, TypeOK
<1>7. \A u \in Threads : mListenFds'[u] \subseteq mListenFds[u]
  BY <1>2 DEF Core, TypeOK
<1>8. TypeOK'
  <2>1. mListenFds' \in [Threads -> SUBSET Fds]
    BY <1>2, <1>7 DEF Core, TypeOK
  <2> QED
    BY <1>2, <1>5, <1>6, <2>1 DEF Core, TypeOK, tables, traffic
<1>9. \A c \in Available(t) : /\ c \in Clients /\ mThread[c] = t
                              /\ mConnFd[c] \in mListenFds[t]
                              /\ mState[c] \in {"NotConnected", "Connected"}
  <2> SUFFICES ASSUME NEW c \in Available(t)
               PROVE  /\ c \in Clients /\ mThread[c] = t
                      /\ mConnFd[c] \in mListenFds[t]
                      /\ mState[c] \in {"NotConnected", "Connected"}
    OBVIOUS
  <2>1. c \in Clients /\ mThread[c] = t /\ mConnFd[c] # None /\ mConnFd[c] \in mListenFds[t]
    BY DEF Available, Registered, Core, TypeOK
  <2>2. PICK d \in Clients : /\ mConnFd[d] = mConnFd[c] /\ mThread[d] = t
                             /\ mState[d] \in {"NotConnected", "Connected"}
    BY <2>1 DEF Core, RegisteredIsAlive
  <2>3. c = d
    BY <2>1, <2>2 DEF Core, Lives
  <2> QED
    BY <2>1, <2>2, <2>3
<1>10. \A i \in DOMAIN q : q[i][1] = "add" /\ q[i][2] \notin Available(t)
  BY <1>2, <1>9 DEF NoCallback, Core, Queues
<1>11. Queues'
  <2> SUFFICES ASSUME NEW u \in Threads, NEW i \in DOMAIN mTasks'[u]
               PROVE  LET d == mTasks'[u][i][2]
                      IN  /\ mThread[d] = u
                          /\ mTasks'[u][i][1] # "OUT" =>
                               /\ mState[d] \in {"NotConnected", "Connected"}
                               /\ clearing[u] # d
                          /\ mTasks'[u][i][1] = "add" => mConnFd[d] \notin mListenFds'[u]
                          /\ \A j \in DOMAIN mTasks'[u] :
                               j > i /\ mTasks'[u][j][2] = d =>
                                 mTasks'[u][i][1] = "IN" /\ mTasks'[u][j][1] = "OUT"
    BY <1>2 DEF Queues, tables
  <2>1. CASE u # t
    BY <1>3, <1>7, <2>1 DEF Core, Queues, TypeOK
  <2>2. CASE u = t
    <3>1. mTasks'[u] = q \o batch
      BY <1>3, <2>2 DEF Core, TypeOK
    <3>2. \A j \in DOMAIN (q \o batch) :
            \/ j \in DOMAIN q /\ (q \o batch)[j] = q[j] /\ j <= Len(q)
            \/ /\ j - Len(q) \in DOMAIN batch /\ (q \o batch)[j] = batch[j - Len(q)]
               /\ j > Len(q)
      BY <1>3, <1>4, ConcatFacts
    <3>3. Len(q) \in Nat /\ DOMAIN (q \o batch) \subseteq Nat
      BY <1>3, <1>4, ConcatFacts
    <3>4. CASE i \in DOMAIN q /\ mTasks'[u][i] = q[i] /\ i <= Len(q)
      <4>1. /\ mThread[q[i][2]] = u
            /\ q[i][1] # "OUT" =>
                 mState[q[i][2]] \in {"NotConnected", "Connected"} /\ clearing[u] # q[i][2]
            /\ q[i][1] = "add" => mConnFd[q[i][2]] \notin mListenFds[u]
            /\ \A j \in DOMAIN q :
                 j > i /\ q[j][2] = q[i][2] => q[i][1] = "IN" /\ q[j][1] = "OUT"
        BY <2>2, <3>4 DEF Core, Queues
      <4>2. \A j \in DOMAIN (q \o batch) :
              j > i /\ (q \o batch)[j][2] = q[i][2] =>
                q[i][1] = "IN" /\ (q \o batch)[j][1] = "OUT"
        BY <1>4, <1>10, <3>2, <3>4, <4>1
      <4> QED
        BY <1>7, <3>1, <3>4, <4>1, <4>2
    <3>5. CASE /\ i - Len(q) \in DOMAIN batch /\ mTasks'[u][i] = batch[i - Len(q)]
               /\ i > Len(q)
      <4> DEFINE k == i - Len(q)
      <4>1. /\ batch[k][1] \in {"IN", "OUT"} /\ mThread[batch[k][2]] = u
            /\ mState[batch[k][2]] \in {"NotConnected", "Connected"}
            /\ clearing[u] # batch[k][2]
        BY <1>2, <1>4, <1>9, <2>2, <3>5, ConstantsAssumption
      <4>2. \A j \in DOMAIN (q \o batch) :
              j > i /\ (q \o batch)[j][2] = batch[k][2] =>
                batch[k][1] = "IN" /\ (q \o batch)[j][1] = "OUT"
        <5> SUFFICES ASSUME NEW j \in DOMAIN (q \o batch), j > i,
                            (q \o batch)[j][2] = batch[k][2]
                     PROVE  batch[k][1] = "IN" /\ (q \o batch)[j][1] = "OUT"
          OBVIOUS
        <5>1. j - Len(q) \in DOMAIN batch /\ (q \o batch)[j] = batch[j - Len(q)]
          BY <3>2, <3>3, <3>5, <3>1
        <5>2. j - Len(q) > k
          BY <3>1, <3>3
        <5> QED
          BY <1>4, <3>5, <5>1, <5>2
      <4> QED
        BY <3>1, <3>5, <4>1, <4>2
    <3> QED
      BY <3>1, <3>2, <3>4, <3>5
  <2> QED
    BY <2>1, <2>2
<1>12. UNCHANGED mThread
  BY <1>2 DEF tables
<1> QED
  BY <1>2, <1>5, <1>7, <1>8, <1>11, <1>12, LivesKept, MapKept, HandedKept, RegisteredKept DEF Core

-----------------------------------------------------------------------------
(***************************************************************************)
(* The main thread.                                                        *)
(***************************************************************************)
\* The start of the pool.
LEMMA StartPoolStep ==
  ASSUME Core, StartPool
  PROVE  Core'
<1>1. MainStarts /\ UNCHANGED served
  BY DEF StartPool
<1>2. PoolTypeOK' /\ PoolInv' /\ PoolGoesOn
  BY <1>1, MainStartsStep DEF Core, TypeOK
<1>3. TypeOK'
  BY <1>1, <1>2 DEF Core, TypeOK, served, tables, loops, kernel, traffic
<1> QED
  BY <1>1, <1>2, <1>3, Undisturbed DEF served, loops

\* The first part of onAccept.
LEMMA AcceptStep ==
  ASSUME Core, NEW c \in Clients, Accept(c)
  PROVE  Core'
<1> DEFINE t == mIndex
<1>1. PICK f \in FreeFds : mConnFd' = [mConnFd EXCEPT ![c] = f]
  BY DEF Accept
<1>2. /\ MainLooping /\ accepting = None /\ mState[c] = "none"
      /\ accepting' = c
      /\ mThread' = [mThread EXCEPT ![c] = t]
      /\ GetIOThread
      /\ mState' = [mState EXCEPT ![c] = "NotConnected"]
      /\ mEpollEvent' = [mEpollEvent EXCEPT ![c] = {"IN"}]
      /\ mTasks' = [mTasks EXCEPT ![t] = Append(@, <<"add", c>>)]
      /\ UNCHANGED <<mConnClients, mClientFdEventsMap, mListenFds, clearing, kernel, traffic,
                     running, missed>>
  BY DEF Accept, Accepting, Waiting, SetFdEvent
<1>3. PoolTypeOK' /\ PoolInv' /\ PoolGoesOn
  BY <1>2, GetIOThreadStep DEF Core, TypeOK
<1>4. t \in Threads /\ t # None /\ HasLoop(t)
  <2>1. t \in Threads /\ t # None
    BY ConstantsAssumption, ThreadNumsAssumption DEF Core, TypeOK, PoolTypeOK, Threads
  <2>2. mainAt[1] = "loop"
    BY <1>2 DEF MainLooping
  <2> QED
    BY <2>1, <2>2 DEF Core, PoolInv
<1>5. /\ f \in Fds /\ f # None /\ \A d \in Clients : mConnFd[d] # f
      /\ c # None
  BY ConstantsAssumption DEF FreeFds, Fds
<1>6. /\ \A d \in Clients : mConnFd'[d] = IF d = c THEN f ELSE mConnFd[d]
      /\ \A d \in Clients : mThread'[d] = IF d = c THEN t ELSE mThread[d]
      /\ \A d \in Clients : mState'[d] = IF d = c THEN "NotConnected" ELSE mState[d]
  BY <1>1, <1>2 DEF Core, TypeOK
<1>7. mTasks' \in [Threads -> Seq(Task)]
  <2>1. <<"add", c>> \in Task
    BY DEF Task
  <2> QED
    BY <1>2, <1>4, <2>1, AppendFacts DEF Core, TypeOK
<1>8. TypeOK'
  <2>1. /\ mConnFd' \in [Clients -> Fds \cup {None}]
        /\ mThread' \in [Clients -> Threads \cup {None}]
    BY <1>1, <1>2, <1>4, <1>5 DEF Core, TypeOK
  <2>2. /\ mState' \in [Clients -> {"none", "NotConnected", "Connected", "Closed", "freed"}]
        /\ mEpollEvent' \in [Clients -> SUBSET {"IN", "OUT"}]
    BY <1>2 DEF Core, TypeOK
  <2> QED
    BY <1>2, <1>3, <1>7, <2>1, <2>2 DEF Core, TypeOK, kernel, traffic
<1>9. mConnFd[c] = None /\ mThread[c] = None /\ c \notin mConnClients
  BY <1>2 DEF Core, Lives
<1>10. Lives'
  <2>1. \A d \in Clients :
          /\ mConnFd'[d] = None <=> mState'[d] \in {"none", "freed"}
          /\ mThread'[d] = None <=> mState'[d] = "none"
          /\ accepting' = d <=> mState'[d] = "NotConnected"
          /\ d \in mConnClients' <=> mState'[d] \in {"Connected", "Closed"}
    <3>1. \A d \in Clients : mState[d] # "NotConnected"
      BY <1>2, ConstantsAssumption DEF Core, Lives
    <3> QED
      BY <1>2, <1>4, <1>5, <1>6, <1>9, <3>1 DEF Core, Lives
  <2>2. \A d \in Clients : mThread'[d] # None => MainLooping'
    BY <1>2, <1>3 DEF PoolGoesOn
  <2>3. \A d, e \in Clients : mConnFd'[d] = mConnFd'[e] /\ mConnFd'[d] # None => d = e
    BY <1>5, <1>6 DEF Core, Lives
  <2>4. \A u \in Threads, d \in Clients :
          clearing'[u] = d => mThread'[d] = u /\ mState'[d] = "Connected"
    BY <1>2, <1>6 DEF Core, Lives
  <2> QED
    BY <2>1, <2>2, <2>3, <2>4 DEF Lives
<1>11. \A u \in Threads : f \notin mListenFds[u]
  BY <1>5 DEF Core, RegisteredIsAlive
<1>12. \A u \in Threads : \A i \in DOMAIN mTasks[u] :
         mTasks[u][i] \in Task /\ mTasks[u][i][2] \in Clients /\ mTasks[u][i][2] # c
  <2> SUFFICES ASSUME NEW u \in Threads, NEW i \in DOMAIN mTasks[u]
               PROVE  mTasks[u][i] \in Task /\ mTasks[u][i][2] \in Clients /\ mTasks[u][i][2] # c
    OBVIOUS
  <2>1. mTasks[u] \in Seq(Task)
    BY DEF Core, TypeOK
  <2>2. mTasks[u][i] \in Task
    BY <2>1
  <2>3. mTasks[u][i][2] \in Clients
    BY <2>2 DEF Task
  <2>4. mThread[mTasks[u][i][2]] = u /\ u # None
    BY ConstantsAssumption, ThreadNumsAssumption DEF Core, Queues, Threads
  <2> QED
    BY <1>4, <1>9, <2>2, <2>3, <2>4
<1>13. Queues'
  <2> SUFFICES ASSUME NEW u \in Threads, NEW i \in DOMAIN mTasks'[u]
               PROVE  LET d == mTasks'[u][i][2]
                      IN  /\ mThread'[d] = u
                          /\ mTasks'[u][i][1] # "OUT" =>
                               /\ mState'[d] \in {"NotConnected", "Connected"}
                               /\ clearing[u] # d
                          /\ mTasks'[u][i][1] = "add" => mConnFd'[d] \notin mListenFds[u]
                          /\ \A j \in DOMAIN mTasks'[u] :
                               j > i /\ mTasks'[u][j][2] = d =>
                                 mTasks'[u][i][1] = "IN" /\ mTasks'[u][j][1] = "OUT"
    BY <1>2 DEF Queues
  <2>1. \A j \in DOMAIN mTasks'[u] :
          \/ j \in DOMAIN mTasks[u] /\ mTasks'[u][j] = mTasks[u][j]
          \/ /\ u = t /\ mTasks'[u][j] = <<"add", c>>
             /\ \A k \in DOMAIN mTasks'[u] : k <= j
    <3>1. CASE u # t
      BY <1>2, <3>1 DEF Core, TypeOK
    <3>2. CASE u = t
      <4>1. mTasks'[u] = Append(mTasks[u], <<"add", c>>) /\ mTasks[u] \in Seq(Task)
        BY <1>2, <1>4, <3>2 DEF Core, TypeOK
      <4>2. <<"add", c>> \in Task
        BY DEF Task
      <4> QED
        BY <3>2, <4>1, <4>2, AppendFacts
    <3> QED
      BY <3>1, <3>2
  <2>2. CASE i \in DOMAIN mTasks[u] /\ mTasks'[u][i] = mTasks[u][i]
    <3> DEFINE d == mTasks[u][i][2]
    <3>1. /\ mThread[d] = u
          /\ mTasks[u][i][1] # "OUT" =>
               mState[d] \in {"NotConnected", "Connected"} /\ clearing[u] # d
          /\ mTasks[u][i][1] = "add" => mConnFd[d] \notin mListenFds[u]
          /\ \A j \in DOMAIN mTasks[u] :
               j > i /\ mTasks[u][j][2] = d => mTasks[u][i][1] = "IN" /\ mTasks[u][j][1] = "OUT"
      BY <2>2 DEF Core, Queues
    <3>2. d \in Clients /\ d # c
      BY <1>12, <2>2
    <3>3. mThread'[d] = mThread[d] /\ mState'[d] = mState[d] /\ mConnFd'[d] = mConnFd[d]
      BY <1>6, <3>2
    <3>4. \A j \in DOMAIN mTasks'[u] :
            j > i /\ mTasks'[u][j][2] = d =>
              mTasks[u][i][1] = "IN" /\ mTasks'[u][j][1] = "OUT"
      BY <2>1, <3>1, <3>2
    <3> QED
      BY <2>2, <3>1, <3>3, <3>4
  <2>3. CASE /\ u = t /\ mTasks'[u][i] = <<"add", c>>
             /\ \A k \in DOMAIN mTasks'[u] : k <= i
    <3>1. mThread'[c] = t /\ mState'[c] = "NotConnected" /\ mConnFd'[c] = f
      BY <1>6
    <3>2. clearing[u] # c
      BY <1>2 DEF Core, Lives
    <3>3. \A j \in DOMAIN mTasks'[u] : ~(j > i)
      BY <2>3, <1>7
    <3> QED
      BY <1>11, <2>3, <3>1, <3>2, <3>3
  <2> QED
    BY <2>1, <2>2, <2>3
<1>14. HandedToLoop'
  BY <1>3, <1>4, <1>6 DEF Core, TypeOK, HandedToLoop, PoolGoesOn
<1>15. FdMapAgrees'
  <2>1. \A d \in mConnClients : d \in Clients /\ mConnFd'[d] = mConnFd[d]
    BY <1>6, <1>9 DEF Core, TypeOK
  <2>2. UNCHANGED <<mConnClients, mClientFdEventsMap>>
    BY <1>2
  <2> QED
    BY <2>1, <2>2 DEF Core, FdMapAgrees
<1>16. RegisteredIsAlive'
  <2> SUFFICES ASSUME NEW u \in Threads, NEW g \in mListenFds[u]
               PROVE  \E d \in Clients : /\ mConnFd'[d] = g /\ mThread'[d] = u
                                         /\ mState'[d] \in {"NotConnected", "Connected"}
    BY <1>2 DEF RegisteredIsAlive
  <2>1. PICK d \in Clients : /\ mConnFd[d] = g /\ mThread[d] = u
                             /\ mState[d] \in {"NotConnected", "Connected"}
    BY DEF Core, RegisteredIsAlive
  <2>2. d # c
    BY <1>2, <2>1
  <2> QED
    BY <1>6, <2>1, <2>2
<1> QED
  BY <1>3, <1>8, <1>10, <1>13, <1>14, <1>15, <1>16 DEF Core

\* The rest of onAccept.
LEMMA SetConnectedStep ==
  ASSUME Core, SetConnected
  PROVE  Core'
<1> DEFINE c == accepting
<1>1. /\ c # None
      /\ mState' = [mState EXCEPT ![c] = "Connected"]
      /\ mConnClients' = mConnClients \cup {c}
      /\ mClientFdEventsMap' = [mClientFdEventsMap EXCEPT ![mConnFd[c]] = c]
      /\ accepting' = None
      /\ UNCHANGED <<pool, mConnFd, mThread, mEpollEvent, loops, kernel, traffic, running,
                     missed>>
  BY DEF SetConnected
<1>2. c \in Clients /\ mState[c] = "NotConnected"
  BY <1>1 DEF Core, TypeOK, Lives
<1>3. mConnFd[c] \in Fds
  BY <1>2, FdFacts DEF Core
<1>4. PoolTypeOK' /\ PoolInv' /\ PoolGoesOn
  BY <1>1, PoolKept DEF Core, TypeOK
<1>5. TypeOK'
  BY <1>1, <1>2, <1>3, <1>4 DEF Core, TypeOK, loops, kernel, traffic
<1>6. \A d \in Clients : mState'[d] = IF d = c THEN "Connected" ELSE mState[d]
  BY <1>1 DEF Core, TypeOK
<1>7. UNCHANGED <<mConnFd, mThread, mTasks, mListenFds, clearing>>
  BY <1>1 DEF loops
<1>8. Lives'
  <2>1. \A d \in Clients :
          /\ mConnFd[d] = None <=> mState'[d] \in {"none", "freed"}
          /\ mThread[d] = None <=> mState'[d] = "none"
          /\ accepting' = d <=> mState'[d] = "NotConnected"
          /\ d \in mConnClients' <=> mState'[d] \in {"Connected", "Closed"}
    BY <1>1, <1>2, <1>6, ConstantsAssumption DEF Core, Lives
  <2> QED
    BY <1>4, <1>6, <1>7, <2>1 DEF Core, Lives, PoolGoesOn
<1>9. Queues'
  <2> SUFFICES ASSUME NEW u \in Threads, NEW i \in DOMAIN mTasks[u]
               PROVE  LET d == mTasks[u][i][2]
                      IN  /\ mThread[d] = u
                          /\ mTasks[u][i][1] # "OUT" =>
                               /\ mState'[d] \in {"NotConnected", "Connected"}
                               /\ clearing[u] # d
                          /\ mTasks[u][i][1] = "add" => mConnFd[d] \notin mListenFds[u]
                          /\ \A j \in DOMAIN mTasks[u] :
                               j > i /\ mTasks[u][j][2] = d =>
                                 mTasks[u][i][1] = "IN" /\ mTasks[u][j][1] = "OUT"
    BY <1>7 DEF Queues
  <2>1. mTasks[u][i][2] \in Clients
    BY DEF Core, TypeOK, Task
  <2> QED
    BY <1>6, <2>1 DEF Core, Queues
<1>10. RegisteredIsAlive'
  BY <1>6, <1>7 DEF Core, RegisteredIsAlive
<1>11. FdMapAgrees'
  <2>1. \A g \in Fds :
          mClientFdEventsMap'[g] = IF g = mConnFd[c] THEN c ELSE mClientFdEventsMap[g]
    BY <1>1 DEF Core, TypeOK
  <2>2. \A d \in mConnClients : d \in Clients /\ d # c /\ mConnFd[d] \in Fds /\ mConnFd[d] # None
    <3>1. \A d \in mConnClients : d \in Clients /\ mState[d] \in {"Connected", "Closed"}
      BY DEF Core, Lives, TypeOK
    <3> QED
      BY <1>2, <3>1, FdFacts DEF Core
  <2>3. mConnFd[c] # None /\ \A d \in mConnClients : mConnFd[d] # mConnFd[c]
    BY <1>2, <2>2, FdFacts DEF Core, Lives
  <2> QED
    BY <1>1, <1>2, <1>3, <1>7, <2>1, <2>2, <2>3 DEF Core, FdMapAgrees
<1> QED
  BY <1>4, <1>5, <1>7, <1>8, <1>9, <1>10, <1>11, HandedKept DEF Core

\* accept() fails.
LEMMA AcceptFailsStep ==
  ASSUME Core, AcceptFails
  PROVE  Core'
<1>1. /\ running' = FALSE
      /\ UNCHANGED <<pool, tables, mState, mEpollEvent, loops, kernel, traffic, missed>>
  BY DEF AcceptFails
<1>2. PoolTypeOK' /\ PoolInv' /\ PoolGoesOn
  BY <1>1, PoolKept DEF Core, TypeOK
<1>3. TypeOK'
  BY <1>1, <1>2 DEF Core, TypeOK, tables, loops, kernel, traffic
<1> QED
  BY <1>1, <1>2, <1>3, Undisturbed DEF loops

\* A closed connection is destroyed.
LEMMA ClearStep ==
  ASSUME Core, NEW c \in Clients, Clear(c)
  PROVE  Core'
<1>1. /\ c \in mConnClients /\ mState[c] = "Closed"
      /\ mClientFdEventsMap' = [mClientFdEventsMap EXCEPT ![mConnFd[c]] = None]
      /\ mConnClients' = mConnClients \ {c}
      /\ mConnFd' = [mConnFd EXCEPT ![c] = None]
      /\ mState' = [mState EXCEPT ![c] = "freed"]
      /\ armed' = armed \ {c}
      /\ UNCHANGED <<pool, accepting, mThread, mEpollEvent, loops, peer, error, traffic,
                     running, missed>>
  BY DEF Clear, EntryErased
<1>2. mConnFd[c] \in Fds /\ mConnFd[c] # None
  BY <1>1, FdFacts DEF Core
<1>3. PoolTypeOK' /\ PoolInv' /\ PoolGoesOn
  BY <1>1, PoolKept DEF Core, TypeOK
<1>4. TypeOK'
  BY <1>1, <1>3 DEF Core, TypeOK, loops, traffic
<1>5. /\ \A d \in Clients : mState'[d] = IF d = c THEN "freed" ELSE mState[d]
      /\ \A d \in Clients : mConnFd'[d] = IF d = c THEN None ELSE mConnFd[d]
  BY <1>1 DEF Core, TypeOK
<1>6. UNCHANGED <<mThread, accepting, mTasks, mListenFds, clearing>>
  BY <1>1 DEF loops
<1>7. Lives'
  <2>1. \A d \in Clients :
          /\ mConnFd'[d] = None <=> mState'[d] \in {"none", "freed"}
          /\ mThread[d] = None <=> mState'[d] = "none"
          /\ accepting = d <=> mState'[d] = "NotConnected"
          /\ d \in mConnClients' <=> mState'[d] \in {"Connected", "Closed"}
    BY <1>1, <1>5 DEF Core, Lives
  <2>2. \A d, e \in Clients : mConnFd'[d] = mConnFd'[e] /\ mConnFd'[d] # None => d = e
    BY <1>5 DEF Core, Lives
  <2>3. \A u \in Threads, d \in Clients :
          clearing[u] = d => mThread[d] = u /\ mState'[d] = "Connected"
    BY <1>1, <1>5 DEF Core, Lives
  <2> QED
    BY <1>3, <1>6, <2>1, <2>2, <2>3 DEF Core, Lives, PoolGoesOn
<1>8. Queues'
  <2> SUFFICES ASSUME NEW u \in Threads, NEW i \in DOMAIN mTasks[u]
               PROVE  LET d == mTasks[u][i][2]
                      IN  /\ mThread[d] = u
                          /\ mTasks[u][i][1] # "OUT" =>
                               /\ mState'[d] \in {"NotConnected", "Connected"}
                               /\ clearing[u] # d
                          /\ mTasks[u][i][1] = "add" => mConnFd'[d] \notin mListenFds[u]
                          /\ \A j \in DOMAIN mTasks[u] :
                               j > i /\ mTasks[u][j][2] = d =>
                                 mTasks[u][i][1] = "IN" /\ mTasks[u][j][1] = "OUT"
    BY <1>6 DEF Queues
  <2>1. mTasks[u][i][2] \in Clients
    BY DEF Core, TypeOK, Task
  <2> QED
    BY <1>1, <1>5, <2>1 DEF Core, Queues
<1>9. RegisteredIsAlive'
  <2> SUFFICES ASSUME NEW u \in Threads, NEW f \in mListenFds[u]
               PROVE  \E d \in Clients : /\ mConnFd'[d] = f /\ mThread[d] = u
                                         /\ mState'[d] \in {"NotConnected", "Connected"}
    BY <1>6 DEF RegisteredIsAlive
  <2>1. PICK d \in Clients : /\ mConnFd[d] = f /\ mThread[d] = u
                             /\ mState[d] \in {"NotConnected", "Connected"}
    BY DEF Core, RegisteredIsAlive
  <2>2. d # c
    BY <1>1, <2>1
  <2> QED
    BY <1>5, <2>1, <2>2
<1>10. FdMapAgrees'
  <2>1. \A g \in Fds :
          mClientFdEventsMap'[g] = IF g = mConnFd[c] THEN None ELSE mClientFdEventsMap[g]
    BY <1>1 DEF Core, TypeOK
  <2>2. \A d \in mConnClients : d \in Clients /\ mConnFd[d] \in Fds
    <3>1. \A d \in mConnClients : d \in Clients /\ mState[d] \in {"Connected", "Closed"}
      BY DEF Core, Lives, TypeOK
    <3> QED
      BY <3>1, FdFacts DEF Core
  <2>3. \A d \in mConnClients \ {c} : mConnFd[d] # mConnFd[c]
    BY <1>2, <2>2 DEF Core, Lives
  <2> QED
    BY <1>1, <1>5, <2>1, <2>2, <2>3 DEF Core, FdMapAgrees
<1> QED
  BY <1>3, <1>4, <1>6, <1>7, <1>8, <1>9, <1>10, HandedKept DEF Core

-----------------------------------------------------------------------------
(***************************************************************************)
(* The clients.                                                            *)
(***************************************************************************)
\* A client's step changes nothing but what the kernel and the counts say.
LEMMA ClientStep ==
  ASSUME Core, NEW c \in Clients, Client(c)
  PROVE  Core'
<1>1. /\ UNCHANGED <<pool, tables, mState, mEpollEvent, loops, executed, answered, running,
                     missed>>
      /\ \/ sent' = sent
         \/ sent[c] < MaxRequests[c] /\ sent' = [sent EXCEPT ![c] = @ + 1]
      /\ peer' \in {peer, [peer EXCEPT ![c] = "open"], [peer EXCEPT ![c] = "closed"],
                    [peer EXCEPT ![c] = "reset"]}
      /\ error' \in {error, error \cup {c}}
      /\ armed' \in {armed, armed \cup {c}}
  BY DEF Client, Connect, Send, Close, Reset, Raise, traffic
<1>2. PoolTypeOK' /\ PoolInv' /\ PoolGoesOn
  BY <1>1, PoolKept DEF Core, TypeOK
<1>3. /\ sent' \in [Clients -> Nat]
      /\ {sent, executed, answered}' \subseteq [Clients -> Nat]
  <2>1. /\ sent \in [Clients -> Nat]
        /\ {executed, answered} \subseteq [Clients -> Nat]
    BY DEF Core, TypeOK
  <2>2. sent' \in [Clients -> Nat]
    BY <1>1, <2>1, ConstantsAssumption
  <2> QED
    BY <1>1, <2>1, <2>2
<1>4. TypeOK'
  <2>1. /\ peer' \in [Clients -> {"away", "open", "closed", "reset"}]
        /\ error' \in SUBSET Clients /\ armed' \in SUBSET Clients
    BY <1>1 DEF Core, TypeOK
  <2> QED
    BY <1>1, <1>2, <1>3, <2>1 DEF Core, TypeOK, tables, loops
<1> QED
  BY <1>1, <1>2, <1>4, Undisturbed DEF loops

-----------------------------------------------------------------------------
(***************************************************************************)
(* Theorems.                                                               *)
(***************************************************************************)
\* What the queues say of a closed connection.
LEMMA LeftoverFacts ==
  ASSUME TypeOK, Queues
  PROVE  LeftoverIsOneWrite
<1> SUFFICES ASSUME NEW c \in Clients, NEW t \in Threads, mState[c] \in {"Closed", "freed"}
             PROVE  LET left == {i \in DOMAIN mTasks[t] : mTasks[t][i][2] = c}
                    IN  Cardinality(left) <= 1 /\ \A i \in left : mTasks[t][i][1] = "OUT"
  BY DEF LeftoverIsOneWrite
<1> DEFINE left == {i \in DOMAIN mTasks[t] : mTasks[t][i][2] = c}
<1>1. \A i \in left : mTasks[t][i][1] = "OUT"
  BY DEF Queues
<1>2. \A i, j \in left : i = j
  <2>1. left \subseteq Nat
    BY DEF TypeOK
  <2>2. \A i, j \in left : ~(j > i)
    BY <1>1 DEF Queues
  <2> QED
    BY <2>1, <2>2
<1>3. Cardinality(left) <= 1
  <2>1. CASE left = {}
    BY <2>1, FS_EmptySet
  <2>2. CASE left # {}
    <3>1. PICK i : left = {i}
      BY <1>2, <2>2
    <3>2. Cardinality({i}) = 1
      BY FS_Singleton
    <3> QED
      BY <3>1, <3>2
  <2> QED
    BY <2>1, <2>2
<1> QED
  BY <1>1, <1>3

\* The server before it has started anything.
LEMMA InitCore ==
  ASSUME Init
  PROVE  Core
<1> USE DEF Init, PoolInit
<1>1. 0 \in Threads /\ None \notin Clients
  BY ThreadNumsAssumption, ConstantsAssumption DEF Threads
<1>2. PoolTypeOK
  BY <1>1 DEF PoolTypeOK
<1>3. PoolInv
  BY <1>1, ThreadNumsAssumption DEF PoolInv, Uncreated, HasLoop, Threads
<1>4. TypeOK
  <2>1. <<>> \in Seq(Task)
    OBVIOUS
  <2>2. {sent, executed, answered} \subseteq [Clients -> Nat]
    BY ConstantsAssumption
  <2> QED
    BY <1>2, <2>1, <2>2 DEF TypeOK
<1>5. Lives
  BY <1>1 DEF Lives
<1>6. Queues /\ RegisteredIsAlive /\ HandedToLoop /\ FdMapAgrees
  BY DEF Queues, RegisteredIsAlive, HandedToLoop, FdMapAgrees
<1> QED
  BY <1>3, <1>4, <1>5, <1>6 DEF Core

\* Every step.
LEMMA StepCore ==
  ASSUME Core, [Next]_vars
  PROVE  Core'
<1>1. ASSUME NEW t \in Threads, IOThread(t)
      PROVE  Core'
  BY <1>1, StartThreadStep, RunAddStep, RunUnconnectedStep, RunFreedStep, ReadErrorStep,
     ReadEOFStep, ReadExecuteStep, WriteStep, WriteKilledStep, ClearConnStep, EpollWaitStep
     DEF IOThread, RunCallback
<1>2. CASE Main
  BY <1>2, StartPoolStep, SetConnectedStep, AcceptFailsStep, AcceptStep, ClearStep DEF Main
<1>3. CASE UNCHANGED vars
  <2>1. PoolTypeOK' /\ PoolInv' /\ PoolGoesOn
    BY <1>3, PoolKept DEF Core, TypeOK, vars
  <2>2. TypeOK'
    BY <1>3, <2>1 DEF Core, TypeOK, vars, served, tables, loops, kernel, traffic
  <2> QED
    BY <1>3, <2>1, <2>2, Undisturbed DEF vars, served, loops
<1> QED
  BY <1>1, <1>2, <1>3, ClientStep DEF Next

\* Whatever the interleaving of main thread, IO threads and clients, for any
\* numbers of them: the states of connections, the main thread's tables, the
\* queues and what is registered with epoll fit together.
THEOREM Invariance == Spec => []ServerInv
<1>1. Init => Core
  BY InitCore
<1>2. Core /\ [Next]_vars => Core'
  BY StepCore
<1>3. Core => ServerInv
  BY LeftoverFacts DEF Core, ServerInv
<1> QED
  BY <1>1, <1>2, <1>3, PTL DEF Spec

\* No connection is constructed with a loop that is not there yet
\* (io_thread.h:31), however many threads start and however slowly.
THEOREM LoopIsThere == Spec => []HandedToLoop
BY Invariance, PTL DEF ServerInv

\* The FdEvent that the main thread looks up by a descriptor and deletes is
\* that of the connection it destroys (tcp_server.cpp:86).
THEOREM TablesAgree == Spec => []FdMapAgrees
BY Invariance, PTL DEF ServerInv

\* epoll never returns a pointer to an FdEvent that is deleted or whose
\* connection is closed (eventloop.cpp:65).
THEOREM NoneDangling == Spec => []RegisteredIsAlive
BY Invariance, PTL DEF ServerInv

\* One onWrite is all that can be run of a connection after it is closed or
\* destroyed.
THEOREM OneWriteLeft == Spec => []LeftoverIsOneWrite
BY Invariance, PTL DEF ServerInv
=============================================================================
