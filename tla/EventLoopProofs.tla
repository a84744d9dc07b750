-------------------------- MODULE EventLoopProofs --------------------------
(***************************************************************************)
(* Proofs about EventLoop, for any sets of threads and descriptors: its    *)
(* inductive invariant IInv, and with it that callbacks are queued at most *)
(* once, that no edge of an edge-triggered descriptor is lost, and that    *)
(* the two queues implement one queue of tasks.                            *)
(***************************************************************************)
EXTENDS EventLoop, TLAPS, SequenceTheorems

-----------------------------------------------------------------------------
(***************************************************************************)
(* Membership in a queue and in what is left or made of it.                *)
(***************************************************************************)
\* Nothing is in an empty queue.
LEMMA InEmpty ==
  ASSUME NEW x
  PROVE  ~In(x, <<>>) /\ AtMostOnce(x, <<>>)
BY DEF In, AtMostOnce

\* What a push makes of membership and uniqueness in a queue.
LEMMA InAppend ==
  ASSUME NEW S, NEW q \in Seq(S), NEW y \in S
  PROVE  /\ Append(q, y) \in Seq(S)
         /\ \A x : In(x, Append(q, y)) <=> In(x, q) \/ x = y
         /\ \A x : AtMostOnce(x, q) /\ x # y => AtMostOnce(x, Append(q, y))
         /\ ~In(y, q) => AtMostOnce(y, Append(q, y))
BY DEF In, AtMostOnce

\* What a pop makes of membership and uniqueness in a queue.
LEMMA InTail ==
  ASSUME NEW S, NEW q \in Seq(S), q # <<>>
  PROVE  /\ Tail(q) \in Seq(S)
         /\ In(Head(q), q)
         /\ \A x : In(x, Tail(q)) => In(x, q)
         /\ \A x : In(x, q) => x = Head(q) \/ In(x, Tail(q))
         /\ \A x : AtMostOnce(x, q) => AtMostOnce(x, Tail(q))
         /\ AtMostOnce(Head(q), q) => ~In(Head(q), Tail(q))
<1>1. Tail(q) \in Seq(S) /\ Len(q) > 0 /\ Len(Tail(q)) = Len(q) - 1
  OBVIOUS
<1>2. \A i \in 1 .. Len(q) - 1 : Tail(q)[i] = q[i + 1]
  OBVIOUS
<1>3. DOMAIN q = 1 .. Len(q) /\ DOMAIN Tail(q) = 1 .. Len(q) - 1 /\ Head(q) = q[1]
  BY <1>1
<1>4. In(Head(q), q)
  BY <1>1, <1>3 DEF In
<1>5. \A x : In(x, Tail(q)) => In(x, q)
  BY <1>1, <1>2, <1>3 DEF In
<1>6. \A x : In(x, q) => x = Head(q) \/ In(x, Tail(q))
  <2> SUFFICES ASSUME NEW x, In(x, q), x # Head(q)
               PROVE  In(x, Tail(q))
    OBVIOUS
  <2>1. PICK i \in 1 .. Len(q) : q[i] = x
    BY <1>3 DEF In
  <2>2. i # 1 /\ i - 1 \in 1 .. Len(q) - 1 /\ Tail(q)[i - 1] = x
    BY <2>1, <1>1, <1>2, <1>3
  <2> QED
    BY <2>2, <1>3 DEF In
<1>7. \A x : AtMostOnce(x, q) => AtMostOnce(x, Tail(q))
  <2> SUFFICES ASSUME NEW x, AtMostOnce(x, q),
                      NEW i \in 1 .. Len(q) - 1, NEW j \in 1 .. Len(q) - 1,
                      Tail(q)[i] = x, Tail(q)[j] = x
               PROVE  i = j
    BY <1>3 DEF AtMostOnce
  <2>1. q[i + 1] = x /\ q[j + 1] = x /\ i + 1 \in DOMAIN q /\ j + 1 \in DOMAIN q
    BY <1>1, <1>2, <1>3
  <2>2. i + 1 = j + 1
    BY <2>1 DEF AtMostOnce
  <2> QED
    BY <2>2
<1>8. AtMostOnce(Head(q), q) => ~In(Head(q), Tail(q))
  <2> SUFFICES ASSUME AtMostOnce(Head(q), q),
                      NEW i \in 1 .. Len(q) - 1, Tail(q)[i] = Head(q)
               PROVE  FALSE
    BY <1>3 DEF In
  <2>1. q[i + 1] = q[1] /\ i + 1 \in DOMAIN q /\ 1 \in DOMAIN q
    BY <1>1, <1>2, <1>3
  <2> QED
    BY <2>1, <1>3 DEF AtMostOnce
<1> QED
  BY <1>1, <1>4, <1>5, <1>6, <1>7, <1>8

-----------------------------------------------------------------------------
(***************************************************************************)
(* The two ways a step changes the queues: it takes the front task of the  *)
(* local queue, or it pushes one on mPendingTasks.                         *)
(***************************************************************************)
\* What running the front task of the local queue leaves queued.
LEMMA TakeFacts ==
  ASSUME TypeOK, NEW task, Take(task)
  PROVE  /\ pc = "run" /\ pc' = "run"
         /\ mPendingTasks' = mPendingTasks
         /\ triggered' = triggered /\ current' = current
         /\ tmpTasks' \in Seq(Task)
         /\ In(task, tmpTasks)
         /\ \A x : In(x, tmpTasks') => In(x, tmpTasks)
         /\ \A x : In(x, tmpTasks) => x = task \/ In(x, tmpTasks')
         /\ \A x : AtMostOnce(x, tmpTasks) => AtMostOnce(x, tmpTasks')
         /\ AtMostOnce(task, tmpTasks) => ~In(task, tmpTasks')
BY InTail DEF Take, TypeOK, scan

\* What addTask makes of mPendingTasks.
LEMMA PushFacts ==
  ASSUME TypeOK, NEW task \in Task, mPendingTasks' = Append(mPendingTasks, task)
  PROVE  /\ mPendingTasks' \in Seq(Task)
         /\ \A x : In(x, mPendingTasks') <=> In(x, mPendingTasks) \/ x = task
         /\ \A x : AtMostOnce(x, mPendingTasks) /\ x # task
                     => AtMostOnce(x, mPendingTasks')
         /\ ~In(task, mPendingTasks) => AtMostOnce(task, mPendingTasks')
BY InAppend DEF TypeOK

\* The tasks of a descriptor are tasks, its callbacks are callbacks.
LEMMA TaskFacts ==
  ASSUME NEW fd \in Fds
  PROVE  /\ \A kind \in {"add", "del", "IN", "OUT"} : <<kind, fd>> \in Task
         /\ \A bit \in {"IN", "OUT"} : <<bit, fd>> \in Callbacks
BY DEF Task, Callbacks

\* A task posted by another thread is none of the callbacks.
LEMMA PostedIsNoCallback ==
  ASSUME NEW fd \in Fds, NEW kind \in {"add", "del"}
  PROVE  \A g \in Fds, bit \in {"IN", "OUT"} : <<bit, g>> # <<kind, fd>>
OBVIOUS

\* The bit of an event that Loop() looks at first is one of its bits.
LEMMA FirstBitFacts ==
  ASSUME NEW bits \in SUBSET Bits, bits # {}
  PROVE  FirstBit(bits) \in bits
<1>1. \E bit \in bits : \/ bit = "IN"
                        \/ bit = "OUT" /\ "IN" \notin bits
                        \/ bit = "ERR" /\ bits = {"ERR"}
  BY DEF Bits
<1> QED
  BY <1>1 DEF FirstBit

\* The kinds of descriptors are apart.
LEMMA FdFacts == /\ ServerFds \subseteq Conns /\ ClientFds \subseteq Conns
                 /\ Conns \subseteq Fds /\ LevelFds \subseteq Fds /\ WakeFd \in Fds
                 /\ WakeFd \notin Conns /\ LevelFds \cap Conns = {} /\ NoFd \notin Fds
                 /\ WakeFd \notin LevelFds /\ ServerFds \cap ClientFds = {}
BY ConstantsAssumption DEF Conns, Fds

\* Taking a task never disturbs the phases or the uniqueness of callbacks.
LEMMA TakeQueues ==
  ASSUME IInv, NEW task, Take(task)
  PROVE  PhaseInv' /\ NoDuplicateCallback'
<1>1. TypeOK /\ PhaseInv /\ NoDuplicateCallback
  BY DEF IInv
<1>2. PhaseInv'
  BY <1>1, TakeFacts DEF PhaseInv
<1>3. NoDuplicateCallback'
  BY <1>1, TakeFacts DEF NoDuplicateCallback, InQueue
<1> QED
  BY <1>2, <1>3

\* Taking a task keeps AddedOnce, if no FdEvent gets or loses its whole mask
\* and what stays new stays out of epoll and keeps its state.
LEMMA TakeAdds ==
  ASSUME IInv, NEW task, Take(task),
         \A g \in Fds : /\ mEpollEvent'[g] = {} <=> mEpollEvent[g] = {}
                        /\ "IN" \in mEpollEvent[g] => "IN" \in mEpollEvent'[g]
                        /\ New(g) /\ New(g)' => /\ g \notin mListenFds'
                                                /\ mState'[g] = mState[g]
  PROVE  AddedOnce'
<1>1. TypeOK /\ AddedOnce
  BY DEF IInv
<1> SUFFICES ASSUME NEW g \in Fds
             PROVE  LET add == <<"add", g>>
                    IN  /\ AtMostOnce(add, tmpTasks') /\ AtMostOnce(add, mPendingTasks')
                        /\ ~(In(add, tmpTasks') /\ In(add, mPendingTasks'))
                        /\ mEpollEvent'[g] # {} => "IN" \in mEpollEvent'[g]
                        /\ InQueue(add)' => mEpollEvent'[g] # {}
                        /\ New(g)' => /\ g \in ServerFds \ mListenFds'
                                      /\ mState'[g] # "Closed"
                                      /\ triggered'[g] = {}
                                      /\ \A bit \in {"IN", "OUT"} : ~InQueue(<<bit, g>>)'
  BY DEF AddedOnce
<1>2. \A x : InQueue(x)' => InQueue(x)
  BY <1>1, TakeFacts DEF InQueue
<1>3. New(g)' => New(g)
  BY <1>2 DEF New
<1> QED
  BY <1>1, <1>2, <1>3, TakeFacts DEF AddedOnce

\* A connection whose callback is queued is not new: it is neither waiting to
\* be added nor without a mask.
LEMMA CalledIsNotNew ==
  ASSUME IInv, NEW fd \in Fds, NEW bit \in {"IN", "OUT"}, Take(<<bit, fd>>)
  PROVE  ~New(fd) /\ mEpollEvent[fd] # {} /\ "IN" \in mEpollEvent[fd]
<1>1. TypeOK /\ AddedOnce
  BY DEF IInv
<1>2. InQueue(<<bit, fd>>)
  BY <1>1, TakeFacts DEF InQueue
<1> QED
  BY <1>1, <1>2 DEF AddedOnce, New

\* Pushing an add or delete task concerns no callback.
LEMMA PushQueues ==
  ASSUME IInv, NEW fd \in Fds, NEW kind \in {"add", "del"},
         mPendingTasks' = Append(mPendingTasks, <<kind, fd>>),
         UNCHANGED <<tmpTasks, pc, triggered>>
  PROVE  /\ PhaseInv' /\ NoDuplicateCallback'
         /\ \A x : InQueue(x)' <=> InQueue(x) \/ x = <<kind, fd>>
<1>1. TypeOK /\ PhaseInv /\ NoDuplicateCallback
  BY DEF IInv
<1>2. <<kind, fd>> \in Task
  BY TaskFacts
<1>3. \A x : InQueue(x)' <=> InQueue(x) \/ x = <<kind, fd>>
  BY <1>1, <1>2, PushFacts DEF InQueue
<1>4. PhaseInv'
  <2>1. \A task \in Callbacks : task # <<kind, fd>>
    BY DEF Callbacks
  <2>2. \A task \in Callbacks : In(task, mPendingTasks') => In(task, mPendingTasks)
    BY <1>1, <1>2, <2>1, PushFacts
  <2> QED
    BY <1>1, <2>2 DEF PhaseInv
<1>5. NoDuplicateCallback'
  <2> SUFFICES ASSUME NEW bit \in {"IN", "OUT"}, NEW g \in Fds
               PROVE  LET task == <<bit, g>>
                      IN  /\ AtMostOnce(task, tmpTasks') /\ AtMostOnce(task, mPendingTasks')
                          /\ ~(In(task, tmpTasks') /\ In(task, mPendingTasks'))
                          /\ bit \in triggered'[g] => ~InQueue(task)'
    BY DEF NoDuplicateCallback
  <2>1. <<bit, g>> # <<kind, fd>>
    BY PostedIsNoCallback
  <2> QED
    BY <1>1, <1>2, <1>3, <2>1, PushFacts DEF NoDuplicateCallback
<1> QED
  BY <1>3, <1>4, <1>5

-----------------------------------------------------------------------------
\* A loop whose constructor has just run satisfies the invariant.
LEMMA Initially == Init => IInv
<1> SUFFICES ASSUME Init PROVE IInv
  OBVIOUS
<1>1. TypeOK
  <2>1. mEpollEvent \in [Fds -> SUBSET {"IN", "OUT"}] /\ interest = mEpollEvent
    BY DEF Init
  <2>2. mListenFds \in SUBSET Fds /\ current \in Fds \cup {NoFd} /\ ready \in SUBSET Conns
    BY DEF Init
  <2>3. calls \in [Threads -> 0 .. MaxCalls] /\ accepted \in [Threads -> ServerFds \cup {NoFd}]
    BY ConstantsAssumption DEF Init
  <2>4. tmpTasks \in Seq(Task) /\ mPendingTasks \in Seq(Task)
    BY DEF Init
  <2>7. level \in [Fds -> SUBSET Bits]
    <3>1. "OUT" \in Bits /\ level = [fd \in Fds |-> IF fd \in Conns THEN {"OUT"} ELSE {}]
      BY DEF Init, Bits
    <3>2. \A fd \in Fds : (IF fd \in Conns THEN {"OUT"} ELSE {}) \in SUBSET Bits
      BY <3>1
    <3> QED
      BY <3>1, <3>2
  <2>5. /\ triggered \in [Fds -> SUBSET Bits]
        /\ interest \in [Fds -> SUBSET {"IN", "OUT"}]
        /\ caller \in [Threads -> {"idle", "stop", "wakeup"}]
    BY <2>1 DEF Init
  <2>6. /\ mState \in [Conns -> {"NotConnected", "Connected", "Closed"}]
        /\ peer \in [Conns -> {"open", "closed", "reset"}]
        /\ mIsLooping \in BOOLEAN /\ pc = "idle"
    BY DEF Init
  <2> QED
    BY <2>1, <2>2, <2>3, <2>4, <2>5, <2>6, <2>7 DEF TypeOK
<1>2. tmpTasks = <<>> /\ mPendingTasks = <<>>
  BY DEF Init
<1>3. \A x : /\ ~In(x, tmpTasks) /\ ~In(x, mPendingTasks)
             /\ AtMostOnce(x, tmpTasks) /\ AtMostOnce(x, mPendingTasks)
  BY <1>2, InEmpty
<1>4. PhaseInv /\ NoDuplicateCallback
  BY <1>2, <1>3 DEF Init, PhaseInv, NoDuplicateCallback, InQueue
<1>5. AddedOnce
  BY <1>3, FdFacts DEF Init, AddedOnce, New, InQueue
<1>6. ClosedIsDeleted /\ EarlyListensToRead /\ NoLostError
  BY FdFacts DEF Init, ClosedIsDeleted, EarlyListensToRead, NoLostError
<1> QED
  BY <1>1, <1>4, <1>5, <1>6 DEF IInv

-----------------------------------------------------------------------------
\* Every step of Loop(), of a callback, of another thread, of a peer or of
\* the kernel keeps the invariant.
LEMMA Inductive == IInv /\ [Next]_vars => IInv'
<1> SUFFICES ASSUME IInv, [Next]_vars PROVE IInv'
  OBVIOUS
<1>0. /\ TypeOK /\ PhaseInv /\ NoDuplicateCallback /\ AddedOnce
      /\ ClosedIsDeleted /\ EarlyListensToRead /\ NoLostError
  BY DEF IInv
<1> USE FdFacts DEF owner, kernel, scan, others
<1>1. ASSUME Loop PROVE IInv'
  <2>1. TypeOK'
    BY <1>0, <1>1 DEF TypeOK, Bits, Loop
  <2>2. PhaseInv' /\ NoDuplicateCallback'
    BY <1>0, <1>1 DEF PhaseInv, NoDuplicateCallback, InQueue, Loop
  <2>3. AddedOnce' /\ ClosedIsDeleted'
    BY <1>0, <1>1 DEF AddedOnce, ClosedIsDeleted, New, InQueue, TypeOK, Loop
  <2>4. EarlyListensToRead' /\ NoLostError'
    BY <1>0, <1>1 DEF EarlyListensToRead, NoLostError, TypeOK, Loop
  <2> QED
    BY <2>1, <2>2, <2>3, <2>4 DEF IInv
<1>2. ASSUME NEW fd \in ClientFds, OneCall(fd) PROVE IInv'
  <2>1. TypeOK'
    BY <1>0, <1>2 DEF TypeOK, Bits, OneCall, Register
  <2>2. PhaseInv' /\ NoDuplicateCallback'
    BY <1>0, <1>2 DEF PhaseInv, NoDuplicateCallback, InQueue, OneCall, Register
  <2>3. AddedOnce' /\ ClosedIsDeleted'
    <3>1. fd \notin ServerFds /\ ~New(fd) /\ mEpollEvent[fd] # {}
      BY <1>0 DEF AddedOnce, New
    <3>2. \A g \in Fds : mEpollEvent'[g] = IF g = fd THEN mEpollEvent[g] \cup {"OUT"}
                                                    ELSE mEpollEvent[g]
      BY <1>0, <1>2 DEF OneCall, TypeOK
    <3> QED
      BY <1>0, <1>2, <3>1, <3>2
      DEF AddedOnce, ClosedIsDeleted, New, InQueue, OneCall, Register
  <2>4. EarlyListensToRead' /\ NoLostError'
    BY <1>0, <1>2 DEF EarlyListensToRead, NoLostError, TypeOK, OneCall, Register
  <2> QED
    BY <2>1, <2>2, <2>3, <2>4 DEF IInv
<1>3. ASSUME Check PROVE IInv'
  <2>1. TypeOK'
    BY <1>0, <1>3 DEF TypeOK, Bits, Check
  <2>2. PhaseInv' /\ NoDuplicateCallback'
    BY <1>0, <1>3 DEF PhaseInv, NoDuplicateCallback, InQueue, Check
  <2>3. AddedOnce' /\ ClosedIsDeleted'
    BY <1>0, <1>3 DEF AddedOnce, ClosedIsDeleted, New, InQueue, TypeOK, Check
  <2>4. EarlyListensToRead' /\ NoLostError'
    BY <1>0, <1>3 DEF EarlyListensToRead, NoLostError, TypeOK, Check
  <2> QED
    BY <2>1, <2>2, <2>3, <2>4 DEF IInv
<1>4. ASSUME Swap PROVE IInv'
  <2>1. TypeOK'
    BY <1>0, <1>4 DEF TypeOK, Bits, Reported, Take, Swap
  <2>2. PhaseInv'
    BY <1>0, <1>4, InEmpty DEF PhaseInv, Swap
  <2>3. NoDuplicateCallback'
    BY <1>0, <1>4 DEF NoDuplicateCallback, InQueue, PhaseInv, Swap
  <2>4. AddedOnce'
    BY <1>0, <1>4 DEF AddedOnce, New, InQueue, TypeOK, Swap
  <2>5. ClosedIsDeleted'
    BY <1>0, <1>4 DEF ClosedIsDeleted, TypeOK, Swap
  <2>6. EarlyListensToRead'
    BY <1>0, <1>4 DEF EarlyListensToRead, TypeOK, Swap
  <2>7. NoLostError'
    BY <1>0, <1>4 DEF NoLostError, Reported, TypeOK, Available, Swap
  <2> QED
    BY <2>1, <2>2, <2>3, <2>4, <2>5, <2>6, <2>7 DEF IInv
<1>5. ASSUME NEW fd \in Fds, RunAdd(fd) PROVE IInv'
  <2>0. Take(<<"add", fd>>)
    BY <1>5 DEF RunAdd, Register
  <2>1. TypeOK'
    BY <1>0, <1>5, <2>0, TakeFacts DEF TypeOK, Bits, Take, RunAdd, Register
  <2>2. PhaseInv' /\ NoDuplicateCallback'
    BY <2>0, TakeQueues
  <2>3. InQueue(<<"add", fd>>) /\ <<"IN", fd>> # <<"add", fd>>
    BY <1>0, <2>0, TakeFacts DEF InQueue
  <2>4. AddedOnce'
    <3>1. mEpollEvent[fd] # {} /\ ~InQueue(<<"add", fd>>)'
      BY <1>0, <2>0, <2>3, TakeFacts DEF AddedOnce, InQueue
    <3>2. mEpollEvent' = mEpollEvent /\ mState' = mState /\ mListenFds' = mListenFds \cup {fd}
      BY <1>5 DEF RunAdd, Register
    <3>3. ~New(fd)'
      BY <3>1, <3>2 DEF New
    <3> QED
      BY <1>0, <2>0, <3>2, <3>3, TakeAdds DEF AddedOnce
  <2>5. ClosedIsDeleted'
    BY <1>0, <1>5, <2>0, <2>3 DEF ClosedIsDeleted, AddedOnce, New, TypeOK, RunAdd, Register
  <2>6. EarlyListensToRead'
    BY <1>0, <1>5 DEF EarlyListensToRead, TypeOK, Register, RunAdd
  <2>7. NoLostError'
    BY <1>0, <1>5, <2>0, TakeFacts DEF NoLostError, TypeOK, RunAdd, Register
  <2> QED
    BY <2>1, <2>2, <2>4, <2>5, <2>6, <2>7 DEF IInv
<1>6. ASSUME NEW fd \in Fds, RunDelete(fd) PROVE IInv'
  <2>0. Take(<<"del", fd>>)
    BY <1>6 DEF RunDelete, Unregister
  <2>1. TypeOK'
    BY <1>0, <1>6, <2>0, TakeFacts DEF TypeOK, Bits, Take, RunDelete, Unregister
  <2>2. PhaseInv' /\ NoDuplicateCallback'
    BY <2>0, TakeQueues
  <2>3. InQueue(<<"del", fd>>) /\ <<"IN", fd>> # <<"del", fd>>
    BY <1>0, <2>0, TakeFacts DEF InQueue
  <2>4. AddedOnce'
    BY <1>0, <1>6, <2>0, <2>3, TakeAdds DEF AddedOnce, TypeOK, RunDelete, Unregister
  <2>5. ClosedIsDeleted'
    BY <1>0, <1>6, <2>0, <2>3 DEF ClosedIsDeleted, AddedOnce, New, TypeOK, RunDelete, Unregister
  <2>6. EarlyListensToRead'
    BY <1>0, <1>6 DEF EarlyListensToRead, TypeOK, RunDelete, Unregister
  <2>7. NoLostError'
    BY <1>0, <1>6, <2>0, TakeFacts DEF NoLostError, TypeOK, RunDelete, Unregister
  <2> QED
    BY <2>1, <2>2, <2>4, <2>5, <2>6, <2>7 DEF IInv
<1>7. ASSUME RunWakeUp PROVE IInv'
  <2>0. Take(<<"IN", WakeFd>>)
    BY <1>7 DEF RunWakeUp
  <2>1. TypeOK'
    BY <1>0, <1>7, <2>0, TakeFacts DEF TypeOK, Bits, Take, RunWakeUp
  <2>2. PhaseInv' /\ NoDuplicateCallback'
    BY <2>0, TakeQueues
  <2>3. ~New(WakeFd) /\ mEpollEvent[WakeFd] # {} /\ "IN" \in mEpollEvent[WakeFd]
    BY <2>0, CalledIsNotNew
  <2>4. AddedOnce'
    BY <1>0, <1>7, <2>0, <2>3, TakeAdds DEF AddedOnce, TypeOK, RunWakeUp
  <2>5. ClosedIsDeleted'
    BY <1>0, <1>7, <2>0, <2>3 DEF ClosedIsDeleted, AddedOnce, New, TypeOK, RunWakeUp
  <2>6. EarlyListensToRead'
    BY <1>0, <1>7 DEF EarlyListensToRead, TypeOK, RunWakeUp
  <2>7. NoLostError'
    BY <1>0, <1>7, <2>0, TakeFacts DEF NoLostError, TypeOK, RunWakeUp
  <2> QED
    BY <2>1, <2>2, <2>4, <2>5, <2>6, <2>7 DEF IInv
<1>8. ASSUME NEW fd \in LevelFds, RunLevel(fd) PROVE IInv'
  <2>0. Take(<<"IN", fd>>)
    BY <1>8 DEF RunLevel
  <2>1. TypeOK'
    <3>1. level' \in [Fds -> SUBSET Bits]
      <4>1. \/ level' = level
            \/ level' = [level EXCEPT ![fd] = @ \ {"IN"}]
        BY <1>8 DEF RunLevel
      <4>2. level \in [Fds -> SUBSET Bits]
        BY <1>0 DEF TypeOK
      <4> QED
        BY <4>1, <4>2
    <3> QED
      BY <1>0, <1>8, <2>0, <3>1, TakeFacts DEF TypeOK, Take, RunLevel
  <2>2. PhaseInv' /\ NoDuplicateCallback'
    BY <2>0, TakeQueues
  <2>3. ~New(fd) /\ mEpollEvent[fd] # {} /\ "IN" \in mEpollEvent[fd]
    BY <2>0, CalledIsNotNew
  <2>4. AddedOnce'
    BY <1>0, <1>8, <2>0, <2>3, TakeAdds DEF AddedOnce, TypeOK, RunLevel
  <2>5. ClosedIsDeleted'
    BY <1>0, <1>8, <2>0, <2>3 DEF ClosedIsDeleted, AddedOnce, New, TypeOK, RunLevel
  <2>6. EarlyListensToRead'
    BY <1>0, <1>8 DEF EarlyListensToRead, TypeOK, RunLevel
  <2>7. NoLostError'
    BY <1>0, <1>8, <2>0, TakeFacts DEF NoLostError, TypeOK, RunLevel
  <2> QED
    BY <2>1, <2>2, <2>4, <2>5, <2>6, <2>7 DEF IInv
<1>9. ASSUME NEW fd \in Conns, RunUnconnected(fd) PROVE IInv'
  <2>0. PICK bit \in {"IN", "OUT"} : Take(<<bit, fd>>)
    BY <1>9 DEF RunUnconnected
  <2>1. TypeOK'
    BY <1>0, <1>9, <2>0, TakeFacts DEF TypeOK, Bits, Take, RunUnconnected
  <2>2. PhaseInv' /\ NoDuplicateCallback'
    BY <2>0, TakeQueues
  <2>3. ~New(fd) /\ mEpollEvent[fd] # {} /\ "IN" \in mEpollEvent[fd]
    BY <2>0, CalledIsNotNew
  <2>4. AddedOnce'
    BY <1>0, <1>9, <2>0, <2>3, TakeAdds DEF AddedOnce, TypeOK, RunUnconnected
  <2>5. ClosedIsDeleted'
    BY <1>0, <1>9, <2>0, <2>3 DEF ClosedIsDeleted, AddedOnce, New, TypeOK, RunUnconnected
  <2>6. EarlyListensToRead'
    BY <1>0, <1>9 DEF EarlyListensToRead, TypeOK, RunUnconnected
  <2>7. NoLostError'
    BY <1>0, <1>9, <2>0, TakeFacts DEF NoLostError, TypeOK, RunUnconnected
  <2> QED
    BY <2>1, <2>2, <2>4, <2>5, <2>6, <2>7 DEF IInv
<1>10. ASSUME NEW fd \in Conns, ReadError(fd) PROVE IInv'
  <2>0. Take(<<"IN", fd>>)
    BY <1>10 DEF ReadError
  <2>1. TypeOK'
    BY <1>0, <1>10, <2>0, TakeFacts DEF TypeOK, Bits, Take, ReadError
  <2>2. PhaseInv' /\ NoDuplicateCallback'
    BY <2>0, TakeQueues
  <2>3. ~New(fd) /\ mEpollEvent[fd] # {} /\ "IN" \in mEpollEvent[fd]
    BY <2>0, CalledIsNotNew
  <2>4. AddedOnce'
    BY <1>0, <1>10, <2>0, <2>3, TakeAdds DEF AddedOnce, TypeOK, ReadError
  <2>5. ClosedIsDeleted'
    BY <1>0, <1>10, <2>0, <2>3 DEF ClosedIsDeleted, AddedOnce, New, TypeOK, ReadError
  <2>6. EarlyListensToRead'
    BY <1>0, <1>10 DEF EarlyListensToRead, TypeOK, ReadError
  <2>7. NoLostError'
    BY <1>0, <1>10, <2>0, TakeFacts DEF NoLostError, TypeOK, ReadError
  <2> QED
    BY <2>1, <2>2, <2>4, <2>5, <2>6, <2>7 DEF IInv
<1>11. ASSUME NEW fd \in Conns, ReadEOF(fd) PROVE IInv'
  <2>0. Take(<<"IN", fd>>)
    BY <1>11 DEF ReadEOF, Unregister
  <2>1. TypeOK'
    BY <1>0, <1>11, <2>0, TakeFacts DEF TypeOK, Bits, Take, ReadEOF, Unregister
  <2>2. PhaseInv' /\ NoDuplicateCallback'
    BY <2>0, TakeQueues
  <2>3. ~New(fd) /\ mEpollEvent[fd] # {} /\ "IN" \in mEpollEvent[fd]
    BY <2>0, CalledIsNotNew
  <2>4. AddedOnce'
    <3>1. /\ mEpollEvent' = mEpollEvent /\ mListenFds' = mListenFds \ {fd}
          /\ \A g \in Conns : g # fd => mState'[g] = mState[g]
      BY <1>0, <1>11 DEF ReadEOF, Unregister, TypeOK
    <3> QED
      BY <1>0, <2>0, <2>3, <3>1, TakeAdds DEF AddedOnce
  <2>5. ClosedIsDeleted'
    BY <1>0, <1>11, <2>0, <2>3 DEF ClosedIsDeleted, AddedOnce, New, TypeOK, ReadEOF, Unregister
  <2>6. EarlyListensToRead'
    BY <1>0, <1>11 DEF EarlyListensToRead, TypeOK, ReadEOF, Unregister
  <2>7. NoLostError'
    BY <1>0, <1>11, <2>0, TakeFacts DEF NoLostError, TypeOK, ReadEOF, Unregister
  <2> QED
    BY <2>1, <2>2, <2>4, <2>5, <2>6, <2>7 DEF IInv
<1>12. ASSUME NEW fd \in ServerFds, ReadExecute(fd) PROVE IInv'
  <2>0. Take(<<"IN", fd>>)
    BY <1>12 DEF ReadExecute, Register
  <2>1. TypeOK'
    BY <1>0, <1>12, <2>0, TakeFacts DEF TypeOK, Bits, Take, ReadExecute, Register
  <2>2. PhaseInv' /\ NoDuplicateCallback'
    BY <2>0, TakeQueues
  <2>3. ~New(fd) /\ mEpollEvent[fd] # {} /\ "IN" \in mEpollEvent[fd]
    BY <2>0, CalledIsNotNew
  <2>4. AddedOnce'
    <3>1. mListenFds' = mListenFds \cup {fd} /\ mState' = mState
      BY <1>12 DEF ReadExecute, Register
    <3>2. \A g \in Fds : mEpollEvent'[g] = IF g = fd THEN mEpollEvent[g] \cup {"OUT"}
                                                    ELSE mEpollEvent[g]
      BY <1>0, <1>12 DEF ReadExecute, TypeOK
    <3>3. \A g \in Fds :
             /\ mEpollEvent'[g] = {} <=> mEpollEvent[g] = {}
             /\ "IN" \in mEpollEvent[g] => "IN" \in mEpollEvent'[g]
      BY <1>0, <2>3, <3>2 DEF AddedOnce
    <3>4. \A g \in Fds : New(g) => g \notin mListenFds'
      BY <1>0, <2>3, <3>1 DEF AddedOnce
    <3>5. \A g \in Fds :
            New(g) /\ New(g)' => g \notin mListenFds' /\ mState'[g] = mState[g]
      BY <3>1, <3>4
    <3> QED
      BY <2>0, <3>3, <3>5, TakeAdds
  <2>5. ClosedIsDeleted'
    BY <1>0, <1>12, <2>0, <2>3 DEF ClosedIsDeleted, AddedOnce, New, TypeOK, ReadExecute, Register
  <2>6. EarlyListensToRead'
    BY <1>0, <1>12 DEF EarlyListensToRead, TypeOK, Register, ReadExecute
  <2>7. NoLostError'
    BY <1>0, <1>12, <2>0, TakeFacts DEF NoLostError, TypeOK, ReadExecute, Register
  <2> QED
    BY <2>1, <2>2, <2>4, <2>5, <2>6, <2>7 DEF IInv
<1>13. ASSUME NEW fd \in ClientFds, ReadStop(fd) PROVE IInv'
  <2>0. Take(<<"IN", fd>>)
    BY <1>13 DEF ReadStop
  <2>1. TypeOK'
    BY <1>0, <1>13, <2>0, TakeFacts DEF TypeOK, Bits, Take, ReadStop
  <2>2. PhaseInv' /\ NoDuplicateCallback'
    BY <2>0, TakeQueues
  <2>3. ~New(fd) /\ mEpollEvent[fd] # {} /\ "IN" \in mEpollEvent[fd]
    BY <2>0, CalledIsNotNew
  <2>4. AddedOnce'
    BY <1>0, <1>13, <2>0, <2>3, TakeAdds DEF AddedOnce, TypeOK, ReadStop
  <2>5. ClosedIsDeleted'
    BY <1>0, <1>13, <2>0, <2>3 DEF ClosedIsDeleted, AddedOnce, New, TypeOK, ReadStop
  <2>6. EarlyListensToRead'
    BY <1>0, <1>13 DEF EarlyListensToRead, TypeOK, ReadStop
  <2>7. NoLostError'
    BY <1>0, <1>13, <2>0, TakeFacts DEF NoLostError, TypeOK, ReadStop
  <2> QED
    BY <2>1, <2>2, <2>4, <2>5, <2>6, <2>7 DEF IInv
<1>14. ASSUME NEW fd \in Conns, WriteAll(fd) PROVE IInv'
  <2>0. Take(<<"OUT", fd>>)
    BY <1>14 DEF WriteAll, Register
  <2>1. TypeOK'
    BY <1>0, <1>14, <2>0, TakeFacts DEF TypeOK, Bits, Take, WriteAll, Register
  <2>2. PhaseInv' /\ NoDuplicateCallback'
    BY <2>0, TakeQueues
  <2>3. ~New(fd) /\ mEpollEvent[fd] # {} /\ "IN" \in mEpollEvent[fd]
    BY <2>0, CalledIsNotNew
  <2>4. AddedOnce'
    <3>1. mListenFds' = mListenFds \cup {fd} /\ mState' = mState
      BY <1>14 DEF WriteAll, Register
    <3>2. \A g \in Fds : mEpollEvent'[g] = IF g = fd THEN mEpollEvent[g] \ {"OUT"}
                                                    ELSE mEpollEvent[g]
      BY <1>0, <1>14 DEF WriteAll, TypeOK
    <3>3. \A g \in Fds :
             /\ (mEpollEvent'[g] = {}) <=> (mEpollEvent[g] = {})
             /\ "IN" \in mEpollEvent[g] => "IN" \in mEpollEvent'[g]
      <4> SUFFICES ASSUME NEW g \in Fds
                   PROVE  /\ (mEpollEvent'[g] = {}) <=> (mEpollEvent[g] = {})
                          /\ "IN" \in mEpollEvent[g] => "IN" \in mEpollEvent'[g]
        OBVIOUS
      <4>1. CASE g = fd
        <5>1. "IN" \in mEpollEvent'[g] /\ "IN" \in mEpollEvent[g]
          BY <2>3, <3>2, <4>1
        <5> QED
          BY <5>1
      <4>2. CASE g # fd
        BY <3>2, <4>2
      <4> QED
        BY <4>1, <4>2
    <3>4. \A g \in Fds : New(g) => g \notin mListenFds'
      BY <1>0, <2>3, <3>1 DEF AddedOnce
    <3>5. \A g \in Fds :
            New(g) /\ New(g)' => g \notin mListenFds' /\ mState'[g] = mState[g]
      BY <3>1, <3>4
    <3> QED
      BY <2>0, <3>3, <3>5, TakeAdds
  <2>5. ClosedIsDeleted'
    BY <1>0, <1>14, <2>0, <2>3 DEF ClosedIsDeleted, AddedOnce, New, TypeOK, WriteAll, Register
  <2>6. EarlyListensToRead'
    BY <1>0, <1>14 DEF EarlyListensToRead, TypeOK, Register, WriteAll
  <2>7. NoLostError'
    BY <1>0, <1>14, <2>0, TakeFacts DEF NoLostError, TypeOK, WriteAll, Register
  <2> QED
    BY <2>1, <2>2, <2>4, <2>5, <2>6, <2>7 DEF IInv
<1>15. ASSUME NEW fd \in Conns, WriteAgain(fd) PROVE IInv'
  <2>0. Take(<<"OUT", fd>>)
    BY <1>15 DEF WriteAgain
  <2>1. TypeOK'
    BY <1>0, <1>15, <2>0, TakeFacts DEF TypeOK, Bits, Take, WriteAgain
  <2>2. PhaseInv' /\ NoDuplicateCallback'
    BY <2>0, TakeQueues
  <2>3. ~New(fd) /\ mEpollEvent[fd] # {} /\ "IN" \in mEpollEvent[fd]
    BY <2>0, CalledIsNotNew
  <2>4. AddedOnce'
    BY <1>0, <1>15, <2>0, <2>3, TakeAdds DEF AddedOnce, TypeOK, WriteAgain
  <2>5. ClosedIsDeleted'
    BY <1>0, <1>15, <2>0, <2>3 DEF ClosedIsDeleted, AddedOnce, New, TypeOK, WriteAgain
  <2>6. EarlyListensToRead'
    BY <1>0, <1>15 DEF EarlyListensToRead, TypeOK, WriteAgain
  <2>7. NoLostError'
    BY <1>0, <1>15, <2>0, TakeFacts DEF NoLostError, TypeOK, WriteAgain
  <2> QED
    BY <2>1, <2>2, <2>4, <2>5, <2>6, <2>7 DEF IInv
<1>16. ASSUME Drained PROVE IInv'
  <2>1. TypeOK'
    BY <1>0, <1>16 DEF TypeOK, Bits, Drained
  <2>2. PhaseInv' /\ NoDuplicateCallback'
    BY <1>0, <1>16 DEF PhaseInv, NoDuplicateCallback, InQueue, Drained
  <2>3. AddedOnce' /\ ClosedIsDeleted'
    BY <1>0, <1>16 DEF AddedOnce, ClosedIsDeleted, New, InQueue, TypeOK, Drained
  <2>4. EarlyListensToRead' /\ NoLostError'
    BY <1>0, <1>16 DEF EarlyListensToRead, NoLostError, TypeOK, Drained
  <2> QED
    BY <2>1, <2>2, <2>3, <2>4 DEF IInv
<1>17. ASSUME EpollWait PROVE IInv'
  <2>0. PICK S \in SUBSET Available :
          /\ triggered' = [g \in Fds |-> IF g \in S THEN Reported(g) ELSE {}]
          /\ ready' = ready \ S
    BY <1>17 DEF EpollWait
  <2>1. /\ pc = "wait" /\ pc' = "dispatch"
        /\ UNCHANGED <<mIsLooping, mPendingTasks, mEpollEvent, mState, tmpTasks, current,
                       mListenFds, interest, level, peer, others>>
    BY <1>17 DEF EpollWait
  <2>2. S \subseteq mListenFds /\ \A g \in Fds : triggered[g] = {}
    BY <1>0, <2>0, <2>1 DEF Available, PhaseInv
  <2>3. \A bit \in {"IN", "OUT"}, g \in Fds : ~InQueue(<<bit, g>>)
    BY <1>0, <2>1, InEmpty DEF PhaseInv, InQueue, Callbacks
  <2>4. TypeOK'
    <3>1. \A g \in Fds : Reported(g) \subseteq Bits
      BY <1>0 DEF Reported, TypeOK
    <3>2. triggered' \in [Fds -> SUBSET Bits]
      BY <2>0, <3>1
    <3> QED
      BY <1>0, <2>0, <2>1, <3>2 DEF TypeOK
  <2>5. PhaseInv' /\ NoDuplicateCallback'
    BY <1>0, <2>1, <2>3 DEF PhaseInv, NoDuplicateCallback, InQueue
  <2>6. AddedOnce' /\ ClosedIsDeleted'
    BY <1>0, <2>0, <2>1, <2>2 DEF AddedOnce, ClosedIsDeleted, New, InQueue
  <2>7. EarlyListensToRead'
    BY <1>0, <1>17 DEF EarlyListensToRead, TypeOK, EpollWait
  <2>8. NoLostError'
    <3> SUFFICES ASSUME NEW c \in Conns, c \in mListenFds', "ERR" \in level'[c], c \notin ready'
                 PROVE  "ERR" \in triggered'[c]
      BY DEF NoLostError
    <3>1. c \in ready /\ "ERR" \in level[c]
      BY <1>0, <2>1, <2>2 DEF NoLostError
    <3> QED
      BY <2>0, <3>1 DEF Reported
  <2> QED
    BY <2>4, <2>5, <2>6, <2>7, <2>8 DEF IInv
<1>18. ASSUME NEW fd \in Fds, Dispatch(fd) PROVE IInv'
  <2> DEFINE bit == FirstBit(triggered[fd])
             task == <<bit, fd>>
  <2>1. bit \in triggered[fd] /\ bit \in Bits
    BY <1>0, <1>18, FirstBitFacts DEF Dispatch, TypeOK
  <2> HIDE DEF bit
  <2>2. /\ DispatchBit(fd, bit) /\ pc = "dispatch"
        /\ UNCHANGED <<owner, mEpollEvent, mState, others>>
    BY <1>18 DEF Dispatch, bit
  <2>3. /\ triggered' \in [Fds -> SUBSET Bits] /\ current' \in Fds \cup {NoFd}
        /\ triggered'[fd] = triggered[fd] \ {bit}
        /\ \A g \in Fds : g # fd => triggered'[g] = triggered[g]
    BY <1>0, <2>2 DEF DispatchBit, TypeOK
  <2>4. \A x : ~In(x, tmpTasks) /\ ~In(x, tmpTasks') /\ AtMostOnce(x, tmpTasks')
    BY <1>0, <2>2, InEmpty DEF PhaseInv
  <2>5. ~New(fd)
    BY <1>0, <2>1 DEF AddedOnce
  <2>6. CASE bit # "ERR"
    <3>1. mPendingTasks' = Append(mPendingTasks, task) /\ UNCHANGED kernel
      BY <2>2, <2>6 DEF DispatchBit
    <3>2. bit \in {"IN", "OUT"} /\ task \in Task /\ ~InQueue(task)
      BY <1>0, <2>1, <2>6 DEF Bits, Task, NoDuplicateCallback
    <3>3. /\ mPendingTasks' \in Seq(Task)
          /\ \A x : In(x, mPendingTasks') <=> In(x, mPendingTasks) \/ x = task
          /\ \A x : AtMostOnce(x, mPendingTasks) /\ x # task => AtMostOnce(x, mPendingTasks')
          /\ AtMostOnce(task, mPendingTasks')
      BY <1>0, <3>1, <3>2, PushFacts DEF InQueue
    <3>4. \A x : InQueue(x)' <=> InQueue(x) \/ x = task
      BY <2>4, <3>3 DEF InQueue
    <3>5. TypeOK' /\ PhaseInv'
      BY <1>0, <2>2, <2>3, <3>1, <3>3 DEF TypeOK, PhaseInv
    <3>6. NoDuplicateCallback'
      <4> SUFFICES ASSUME NEW b \in {"IN", "OUT"}, NEW g \in Fds
                   PROVE  LET t == <<b, g>>
                          IN  /\ AtMostOnce(t, tmpTasks') /\ AtMostOnce(t, mPendingTasks')
                              /\ ~(In(t, tmpTasks') /\ In(t, mPendingTasks'))
                              /\ b \in triggered'[g] => ~InQueue(t)'
        BY DEF NoDuplicateCallback
      <4>1. CASE b = bit /\ g = fd
        BY <2>3, <2>4, <3>3, <4>1
      <4>2. CASE <<b, g>> # task
        BY <1>0, <2>3, <2>4, <3>3, <3>4, <4>2 DEF NoDuplicateCallback
      <4> QED
        BY <4>1, <4>2
    <3>7. AddedOnce' /\ ClosedIsDeleted'
      <4>1. \A g \in Fds : <<"add", g>> # task
        BY <3>2
      <4>2. \A g \in Fds : New(g)' <=> New(g)
        BY <2>2, <3>4, <4>1 DEF New
      <4>3. \A g \in Fds, b \in {"IN", "OUT"} : g # fd => <<b, g>> # task
        OBVIOUS
      <4> QED
        BY <1>0, <2>2, <2>3, <2>4, <2>5, <3>1, <3>3, <3>4, <4>1, <4>2, <4>3
        DEF AddedOnce, ClosedIsDeleted
    <3>8. EarlyListensToRead' /\ NoLostError'
      <4>2. \A c \in Conns : "ERR" \in triggered[c] => "ERR" \in triggered'[c]
        BY <2>3, <2>6
      <4> QED
        BY <1>0, <2>2, <3>1, <4>2 DEF EarlyListensToRead, NoLostError
    <3> QED
      BY <3>5, <3>6, <3>7, <3>8 DEF IInv
  <2>7. CASE bit = "ERR"
    <3>1. Unregister(fd) /\ UNCHANGED <<mPendingTasks, level, peer>>
      BY <2>2, <2>7 DEF DispatchBit
    <3>2. TypeOK' /\ PhaseInv'
      BY <1>0, <2>2, <2>3, <3>1 DEF TypeOK, PhaseInv, Unregister
    <3>3. \A g \in Fds, b \in {"IN", "OUT"} : b \in triggered'[g] <=> b \in triggered[g]
      BY <2>3, <2>7
    <3>4. NoDuplicateCallback' /\ ClosedIsDeleted'
      BY <1>0, <2>2, <3>1, <3>3
      DEF NoDuplicateCallback, ClosedIsDeleted, InQueue, Unregister
    <3>5. AddedOnce'
      BY <1>0, <2>2, <2>3, <2>5, <3>1 DEF AddedOnce, New, InQueue, Unregister
    <3>6. EarlyListensToRead' /\ NoLostError'
      BY <1>0, <2>2, <2>3, <3>1, <3>3
      DEF EarlyListensToRead, NoLostError, Unregister
    <3> QED
      BY <3>2, <3>4, <3>5, <3>6 DEF IInv
  <2> QED
    BY <2>6, <2>7
<1>19. ASSUME Dispatched PROVE IInv'
  <2>1. TypeOK'
    BY <1>0, <1>19 DEF TypeOK, Bits, Dispatched
  <2>2. PhaseInv' /\ NoDuplicateCallback'
    BY <1>0, <1>19 DEF PhaseInv, NoDuplicateCallback, InQueue, Dispatched
  <2>3. AddedOnce' /\ ClosedIsDeleted'
    BY <1>0, <1>19 DEF AddedOnce, ClosedIsDeleted, New, InQueue, TypeOK, Dispatched
  <2>4. EarlyListensToRead' /\ NoLostError'
    BY <1>0, <1>19 DEF EarlyListensToRead, NoLostError, TypeOK, Dispatched
  <2> QED
    BY <2>1, <2>2, <2>3, <2>4 DEF IInv
<1>20. ASSUME NEW t \in Threads, NEW fd \in ServerFds, AddFdEvent(t, fd) PROVE IInv'
  <2>1. /\ mPendingTasks' = Append(mPendingTasks, <<"add", fd>>) /\ mEpollEvent[fd] = {}
        /\ UNCHANGED <<owner, mState, scan, kernel, calls>>
    BY <1>20 DEF AddFdEvent, AddTask
  <2>2. mEpollEvent'[fd] = {"IN"} /\ \A g \in Fds : g # fd => mEpollEvent'[g] = mEpollEvent[g]
    BY <1>0, <1>20 DEF AddFdEvent, TypeOK
  <2>3. TypeOK'
    BY <1>0, <1>20, <2>1, TaskFacts, PushFacts DEF TypeOK, AddFdEvent, AddTask
  <2>4. /\ PhaseInv' /\ NoDuplicateCallback'
        /\ \A x : InQueue(x)' <=> InQueue(x) \/ x = <<"add", fd>>
    BY <2>1, PushQueues
  <2>5. AddedOnce'
    <3>1. ~InQueue(<<"add", fd>>) /\ New(fd)
      BY <1>0, <2>1 DEF AddedOnce, New
    <3>2. \A g \in Fds : New(g)' => New(g)
      BY <2>1, <2>2, <2>4, <3>1 DEF New
    <3>3. \A g \in Fds :
            /\ AtMostOnce(<<"add", g>>, mPendingTasks')
            /\ g # fd => (In(<<"add", g>>, mPendingTasks')
                            => In(<<"add", g>>, mPendingTasks))
      BY <1>0, <2>1, <3>1, TaskFacts, PushFacts DEF AddedOnce, InQueue
    <3> SUFFICES ASSUME NEW g \in Fds
                 PROVE  LET add == <<"add", g>>
                        IN  /\ AtMostOnce(add, tmpTasks') /\ AtMostOnce(add, mPendingTasks')
                            /\ ~(In(add, tmpTasks') /\ In(add, mPendingTasks'))
                            /\ mEpollEvent'[g] # {} => "IN" \in mEpollEvent'[g]
                            /\ InQueue(add)' => mEpollEvent'[g] # {}
                            /\ New(g)' => /\ g \in ServerFds \ mListenFds'
                                          /\ mState'[g] # "Closed"
                                          /\ triggered'[g] = {}
                                          /\ \A bit \in {"IN", "OUT"} : ~InQueue(<<bit, g>>)'
      BY DEF AddedOnce
    <3>4. AtMostOnce(<<"add", g>>, tmpTasks') /\ AtMostOnce(<<"add", g>>, mPendingTasks')
      <4>1. tmpTasks' = tmpTasks /\ AtMostOnce(<<"add", g>>, tmpTasks)
        BY <1>0, <2>1 DEF AddedOnce
      <4> QED
        BY <3>3, <4>1
    <3>5. ~(In(<<"add", g>>, tmpTasks') /\ In(<<"add", g>>, mPendingTasks'))
      <4>1. /\ tmpTasks' = tmpTasks
            /\ ~(In(<<"add", g>>, tmpTasks) /\ In(<<"add", g>>, mPendingTasks))
        BY <1>0, <2>1 DEF AddedOnce
      <4>2. g = fd => ~In(<<"add", g>>, tmpTasks)
        BY <3>1 DEF InQueue
      <4> QED
        BY <3>3, <4>1, <4>2
    <3>6. mEpollEvent'[g] # {} => "IN" \in mEpollEvent'[g]
      BY <1>0, <2>2 DEF AddedOnce
    <3>7. InQueue(<<"add", g>>)' => mEpollEvent'[g] # {}
      <4>1. g # fd => (InQueue(<<"add", g>>)' => InQueue(<<"add", g>>))
        BY <2>4
      <4> QED
        BY <1>0, <2>2, <4>1 DEF AddedOnce
    <3>8. New(g)' => /\ g \in ServerFds \ mListenFds'
                     /\ mState'[g] # "Closed"
                     /\ triggered'[g] = {}
                     /\ \A bit \in {"IN", "OUT"} : ~InQueue(<<bit, g>>)'
      BY <1>0, <2>1, <2>4, <3>2, PostedIsNoCallback DEF AddedOnce
    <3> QED
      BY <3>4, <3>5, <3>6, <3>7, <3>8
  <2>6. ClosedIsDeleted' /\ EarlyListensToRead' /\ NoLostError'
    BY <1>0, <2>1, <2>2, <2>4 DEF ClosedIsDeleted, EarlyListensToRead, NoLostError
  <2> QED
    BY <2>3, <2>4, <2>5, <2>6 DEF IInv
<1>21. ASSUME NEW t \in Threads, NEW fd \in ServerFds, DeleteFdEvent(t, fd) PROVE IInv'
  <2>1. /\ mPendingTasks' = Append(mPendingTasks, <<"del", fd>>)
        /\ UNCHANGED <<owner, mEpollEvent, mState, scan, kernel>>
    BY <1>21 DEF DeleteFdEvent, AddTask
  <2>2. TypeOK'
    <3>1. calls' \in [Threads -> 0 .. MaxCalls]
      BY <1>0, <1>21, ConstantsAssumption DEF TypeOK, DeleteFdEvent, Call
    <3> QED
      BY <1>0, <1>21, <2>1, <3>1, TaskFacts, PushFacts DEF TypeOK, DeleteFdEvent, AddTask
  <2>3. /\ PhaseInv' /\ NoDuplicateCallback'
        /\ \A x : InQueue(x)' <=> InQueue(x) \/ x = <<"del", fd>>
    BY <2>1, PushQueues
  <2>4. AddedOnce'
    <3>1. \A g \in Fds : <<"add", g>> # <<"del", fd>>
      OBVIOUS
    <3>2. \A g \in Fds : New(g)' <=> New(g)
      BY <2>1, <2>3, <3>1 DEF New
    <3>3. \A g \in Fds :
            /\ AtMostOnce(<<"add", g>>, mPendingTasks)
                 => AtMostOnce(<<"add", g>>, mPendingTasks')
            /\ In(<<"add", g>>, mPendingTasks') => In(<<"add", g>>, mPendingTasks)
      BY <1>0, <2>1, <3>1, TaskFacts, PushFacts
    <3>4. \A g \in Fds : InQueue(<<"add", g>>)' => InQueue(<<"add", g>>)
      BY <2>3, <3>1
    <3>5. \A g \in Fds, bit \in {"IN", "OUT"} : InQueue(<<bit, g>>)' => InQueue(<<bit, g>>)
      BY <2>3, PostedIsNoCallback
    <3> SUFFICES ASSUME NEW g \in Fds
                 PROVE  LET add == <<"add", g>>
                        IN  /\ AtMostOnce(add, tmpTasks') /\ AtMostOnce(add, mPendingTasks')
                            /\ ~(In(add, tmpTasks') /\ In(add, mPendingTasks'))
                            /\ mEpollEvent'[g] # {} => "IN" \in mEpollEvent'[g]
                            /\ InQueue(add)' => mEpollEvent'[g] # {}
                            /\ New(g)' => /\ g \in ServerFds \ mListenFds'
                                          /\ mState'[g] # "Closed"
                                          /\ triggered'[g] = {}
                                          /\ \A bit \in {"IN", "OUT"} : ~InQueue(<<bit, g>>)'
      BY DEF AddedOnce
    <3> DEFINE add == <<"add", g>>
    <3>6. /\ AtMostOnce(add, tmpTasks) /\ AtMostOnce(add, mPendingTasks)
          /\ ~(In(add, tmpTasks) /\ In(add, mPendingTasks)) /\ tmpTasks' = tmpTasks
      BY <1>0, <2>1 DEF AddedOnce
    <3>7. /\ mEpollEvent'[g] # {} => "IN" \in mEpollEvent'[g]
          /\ InQueue(add)' => mEpollEvent'[g] # {}
      BY <1>0, <2>1, <3>4 DEF AddedOnce
    <3>8. New(g)' => /\ g \in ServerFds \ mListenFds'
                     /\ mState'[g] # "Closed"
                     /\ triggered'[g] = {}
                     /\ \A bit \in {"IN", "OUT"} : ~InQueue(<<bit, g>>)'
      BY <1>0, <2>1, <3>2, <3>5 DEF AddedOnce
    <3> QED
      BY <3>3, <3>6, <3>7, <3>8
  <2>5. ClosedIsDeleted' /\ EarlyListensToRead' /\ NoLostError'
    BY <1>0, <2>1, <2>3 DEF ClosedIsDeleted, EarlyListensToRead, NoLostError
  <2> QED
    BY <2>2, <2>3, <2>4, <2>5 DEF IInv
<1>22. ASSUME NEW t \in Threads, Wakeup(t) PROVE IInv'
  <2>1. TypeOK'
    BY <1>0, <1>22 DEF TypeOK, Bits, Wakeup
  <2>2. PhaseInv' /\ NoDuplicateCallback'
    BY <1>0, <1>22 DEF PhaseInv, NoDuplicateCallback, InQueue, Wakeup
  <2>3. AddedOnce' /\ ClosedIsDeleted'
    BY <1>0, <1>22 DEF AddedOnce, ClosedIsDeleted, New, InQueue, TypeOK, Wakeup
  <2>4. EarlyListensToRead' /\ NoLostError'
    BY <1>0, <1>22 DEF EarlyListensToRead, NoLostError, TypeOK, Wakeup
  <2> QED
    BY <2>1, <2>2, <2>3, <2>4 DEF IInv
<1>23. ASSUME NEW t \in Threads, StopCheck(t) PROVE IInv'
  <2>1. TypeOK'
    <3>1. calls' \in [Threads -> 0 .. MaxCalls]
      BY <1>0, <1>23, ConstantsAssumption DEF TypeOK, StopCheck, Call
    <3>2. caller' \in [Threads -> {"idle", "stop", "wakeup"}]
      BY <1>0, <1>23 DEF TypeOK, StopCheck
    <3> QED
      BY <1>0, <1>23, <3>1, <3>2 DEF TypeOK, StopCheck
  <2>2. PhaseInv' /\ NoDuplicateCallback'
    BY <1>0, <1>23 DEF PhaseInv, NoDuplicateCallback, InQueue, StopCheck, Call
  <2>3. AddedOnce' /\ ClosedIsDeleted'
    BY <1>0, <1>23 DEF AddedOnce, ClosedIsDeleted, New, InQueue, TypeOK, StopCheck, Call
  <2>4. EarlyListensToRead' /\ NoLostError'
    BY <1>0, <1>23 DEF EarlyListensToRead, NoLostError, TypeOK, StopCheck, Call
  <2> QED
    BY <2>1, <2>2, <2>3, <2>4 DEF IInv
<1>24. ASSUME NEW t \in Threads, StopSet(t) PROVE IInv'
  <2>1. TypeOK'
    BY <1>0, <1>24 DEF TypeOK, Bits, StopSet
  <2>2. PhaseInv' /\ NoDuplicateCallback'
    BY <1>0, <1>24 DEF PhaseInv, NoDuplicateCallback, InQueue, StopSet
  <2>3. AddedOnce' /\ ClosedIsDeleted'
    BY <1>0, <1>24 DEF AddedOnce, ClosedIsDeleted, New, InQueue, TypeOK, StopSet
  <2>4. EarlyListensToRead' /\ NoLostError'
    BY <1>0, <1>24 DEF EarlyListensToRead, NoLostError, TypeOK, StopSet
  <2> QED
    BY <2>1, <2>2, <2>3, <2>4 DEF IInv
<1>25. ASSUME NEW fd \in Conns \cup LevelFds, NEW bit \in {"IN", "OUT"}, Arrive(fd, bit) PROVE IInv'
  <2>1. TypeOK'
    BY <1>0, <1>25 DEF TypeOK, Bits, Reported, Take, Arrive, Raise
  <2>2. PhaseInv'
    BY <1>0, <1>25 DEF PhaseInv, InQueue, Arrive, Raise
  <2>3. NoDuplicateCallback'
    BY <1>0, <1>25 DEF NoDuplicateCallback, InQueue, PhaseInv, Arrive, Raise
  <2>4. AddedOnce'
    BY <1>0, <1>25 DEF AddedOnce, New, InQueue, TypeOK, Arrive, Raise
  <2>5. ClosedIsDeleted'
    BY <1>0, <1>25 DEF ClosedIsDeleted, TypeOK, Arrive, Raise
  <2>6. EarlyListensToRead'
    BY <1>0, <1>25 DEF EarlyListensToRead, TypeOK, Arrive, Raise
  <2>7. NoLostError'
    BY <1>0, <1>25 DEF NoLostError, Reported, TypeOK, Available, Arrive, Raise
  <2> QED
    BY <2>1, <2>2, <2>3, <2>4, <2>5, <2>6, <2>7 DEF IInv
<1>26. ASSUME NEW fd \in Conns, PeerClose(fd) PROVE IInv'
  <2>1. TypeOK'
    BY <1>0, <1>26 DEF TypeOK, Bits, Reported, Take, PeerClose, Raise
  <2>2. PhaseInv'
    BY <1>0, <1>26 DEF PhaseInv, InQueue, PeerClose, Raise
  <2>3. NoDuplicateCallback'
    BY <1>0, <1>26 DEF NoDuplicateCallback, InQueue, PhaseInv, PeerClose, Raise
  <2>4. AddedOnce'
    BY <1>0, <1>26 DEF AddedOnce, New, InQueue, TypeOK, PeerClose, Raise
  <2>5. ClosedIsDeleted'
    BY <1>0, <1>26 DEF ClosedIsDeleted, TypeOK, PeerClose, Raise
  <2>6. EarlyListensToRead'
    BY <1>0, <1>26 DEF EarlyListensToRead, TypeOK, PeerClose, Raise
  <2>7. NoLostError'
    BY <1>0, <1>26 DEF NoLostError, Reported, TypeOK, Available, PeerClose, Raise
  <2> QED
    BY <2>1, <2>2, <2>3, <2>4, <2>5, <2>6, <2>7 DEF IInv
<1>27. ASSUME NEW fd \in Conns, PeerReset(fd) PROVE IInv'
  <2>1. TypeOK'
    BY <1>0, <1>27 DEF TypeOK, Bits, Reported, Take, PeerReset, Raise
  <2>2. PhaseInv'
    BY <1>0, <1>27 DEF PhaseInv, InQueue, PeerReset, Raise
  <2>3. NoDuplicateCallback'
    BY <1>0, <1>27 DEF NoDuplicateCallback, InQueue, PhaseInv, PeerReset, Raise
  <2>4. AddedOnce'
    BY <1>0, <1>27 DEF AddedOnce, New, InQueue, TypeOK, PeerReset, Raise
  <2>5. ClosedIsDeleted'
    BY <1>0, <1>27 DEF ClosedIsDeleted, TypeOK, PeerReset, Raise
  <2>6. EarlyListensToRead'
    BY <1>0, <1>27 DEF EarlyListensToRead, TypeOK, PeerReset, Raise
  <2>7. NoLostError'
    BY <1>0, <1>27 DEF NoLostError, Reported, TypeOK, Available, PeerReset, Raise
  <2> QED
    BY <2>1, <2>2, <2>3, <2>4, <2>5, <2>6, <2>7 DEF IInv
<1>28. ASSUME EpollInterrupted PROVE IInv'
  <2>1. TypeOK'
    BY <1>0, <1>28 DEF TypeOK, Bits, EpollInterrupted
  <2>2. PhaseInv' /\ NoDuplicateCallback'
    BY <1>0, <1>28 DEF PhaseInv, NoDuplicateCallback, InQueue, EpollInterrupted
  <2>3. AddedOnce' /\ ClosedIsDeleted'
    BY <1>0, <1>28 DEF AddedOnce, ClosedIsDeleted, New, InQueue, TypeOK, EpollInterrupted
  <2>4. EarlyListensToRead' /\ NoLostError'
    BY <1>0, <1>28 DEF EarlyListensToRead, NoLostError, TypeOK, EpollInterrupted
  <2> QED
    BY <2>1, <2>2, <2>3, <2>4 DEF IInv
<1>30. ASSUME NEW fd \in LevelFds, TimeoutStop(fd) PROVE IInv'
  <2>0. Take(<<"IN", fd>>)
    BY <1>30 DEF TimeoutStop
  <2>1. TypeOK'
    BY <1>0, <1>30, <2>0, TakeFacts DEF TypeOK, Bits, Take, TimeoutStop
  <2>2. PhaseInv' /\ NoDuplicateCallback'
    BY <2>0, TakeQueues
  <2>3. AddedOnce'
    BY <1>0, <1>30, <2>0, TakeAdds DEF AddedOnce, TypeOK, TimeoutStop
  <2>4. ClosedIsDeleted'
    BY <1>0, <1>30 DEF ClosedIsDeleted, TimeoutStop
  <2>5. \A c \in Conns : level'[c] = level[c] /\ fd # c
    BY <1>0, <1>30, FdFacts DEF TypeOK, TimeoutStop
  <2>6. EarlyListensToRead'
    BY <1>0, <1>30 DEF EarlyListensToRead, TypeOK, TimeoutStop
  <2>7. NoLostError'
    BY <1>0, <1>30, <2>0, <2>5, TakeFacts DEF NoLostError, TypeOK, TimeoutStop
  <2> QED
    BY <2>1, <2>2, <2>3, <2>4, <2>6, <2>7 DEF IInv
<1>31. ASSUME NEW t \in Threads, SetState(t) PROVE IInv'
  <2>1. TypeOK'
    BY <1>0, <1>31 DEF TypeOK, SetState
  <2>2. PhaseInv' /\ NoDuplicateCallback'
    BY <1>0, <1>31 DEF PhaseInv, NoDuplicateCallback, InQueue, SetState
  <2>3. \A c \in Conns : mState'[c] \in {mState[c], "Connected"}
    BY <1>0, <1>31 DEF TypeOK, SetState
  <2>4. AddedOnce' /\ ClosedIsDeleted'
    BY <1>0, <1>31, <2>3 DEF AddedOnce, ClosedIsDeleted, New, InQueue, SetState
  <2>5. EarlyListensToRead' /\ NoLostError'
    BY <1>0, <1>31, <2>3 DEF EarlyListensToRead, NoLostError, SetState
  <2> QED
    BY <2>1, <2>2, <2>4, <2>5 DEF IInv
<1>29. CASE UNCHANGED vars
  BY <1>0, <1>29 DEF vars, IInv, TypeOK, PhaseInv, NoDuplicateCallback, AddedOnce,
    ClosedIsDeleted, EarlyListensToRead, NoLostError, New, InQueue
<1> QED
  BY <1>1, <1>2, <1>3, <1>4, <1>5, <1>6, <1>7, <1>8, <1>9, <1>10, <1>11, <1>12, <1>13,
    <1>14, <1>15, <1>16, <1>17, <1>18, <1>19, <1>20, <1>21, <1>22, <1>23, <1>24, <1>25, <1>26, <1>27, <1>28, <1>29,
    <1>30, <1>31
  DEF Next, OwnerStep, RunTask, OtherStep, Environment

-----------------------------------------------------------------------------
(***************************************************************************)
(* Edges.  Only a step that takes a callback, or looks at an event, can    *)
(* stop tracking a bit.                                                    *)
(***************************************************************************)
\* A step that leaves the queues, events[] and what epoll holds as they are
\* loses nothing.
LEMMA NothingTouched ==
  ASSUME UNCHANGED <<tmpTasks, mPendingTasks, triggered, ready, mListenFds, interest>>,
         \A c \in Conns : level'[c] = level[c]
  PROVE  NoNewLoss
BY DEF NoNewLoss, Lost, Pending, Tracked, InQueue

\* Taking a task loses no edge, if what is pending after it was pending
\* before, keeps its place on the ready list, and is not the callback taken.
LEMMA TakeEdges ==
  ASSUME TypeOK, NEW task, Take(task),
         \A c \in Conns, bit \in {"IN", "OUT"} :
           Pending(c, bit)' => \/ c \in ready'
                               \/ /\ Pending(c, bit)
                                  /\ c \in ready => c \in ready'
                                  /\ task # <<bit, c>>
                               \/ bit = "IN" /\ ReadTooEarly(c)
  PROVE  NoNewLoss
<1>1. \A x : InQueue(x) => x = task \/ InQueue(x)'
  BY TakeFacts DEF InQueue
<1> QED
  BY <1>1, TakeFacts DEF NoNewLoss, Lost, Tracked

\* A callback that registers its connection again loses no edge.
LEMMA RegisterEdges ==
  ASSUME TypeOK, NEW task, Take(task), NEW fd \in Conns, NEW mask \in SUBSET {"IN", "OUT"},
         \A bit \in {"IN", "OUT"}, c \in Conns : c # fd => task # <<bit, c>>,
         Register(fd, mask, level'[fd]),
         \A c \in Conns : c # fd => level'[c] = level[c]
  PROVE  NoNewLoss
<1> SUFFICES ASSUME NEW c \in Conns, NEW bit \in {"IN", "OUT"}, Pending(c, bit)', c \notin ready'
             PROVE  Pending(c, bit) /\ c \notin ready /\ task # <<bit, c>>
  BY TakeEdges
<1>1. c # fd
  BY FdFacts DEF Pending, Register, TypeOK
<1> QED
  BY <1>1 DEF Pending, Register, TypeOK

\* No step of Loop(), of a callback, of another thread, of a peer or of the
\* kernel loses an edge, but for an onRead that comes too early.
LEMMA Edges == IInv /\ [Next]_vars => NoNewLoss
<1> SUFFICES ASSUME IInv, [Next]_vars PROVE NoNewLoss
  OBVIOUS
<1>0. /\ TypeOK /\ PhaseInv /\ NoDuplicateCallback /\ AddedOnce
      /\ ClosedIsDeleted /\ EarlyListensToRead /\ NoLostError
  BY DEF IInv
<1> USE FdFacts DEF owner, kernel, scan, others
<1>1. CASE \/ Loop \/ Check \/ Drained \/ Dispatched \/ EpollInterrupted \/ UNCHANGED vars
           \/ \E t \in Threads : Wakeup(t) \/ SetState(t) \/ StopCheck(t) \/ StopSet(t)
  <2>1. /\ UNCHANGED <<tmpTasks, mPendingTasks, triggered, ready, mListenFds, interest>>
        /\ \A c \in Conns : level'[c] = level[c]
    BY <1>0, <1>1 DEF Loop, Check, Drained, Dispatched, EpollInterrupted, vars, Wakeup,
      SetState, StopCheck, StopSet, TypeOK
  <2> QED
    BY <2>1, NothingTouched
<1>2. ASSUME NEW fd \in ClientFds, OneCall(fd) PROVE NoNewLoss
  <2>1. /\ UNCHANGED <<tmpTasks, mPendingTasks, triggered, level>>
        /\ Register(fd, mEpollEvent'[fd], level[fd]) /\ mEpollEvent'[fd] \in SUBSET {"IN", "OUT"}
    BY <1>0, <1>2 DEF OneCall, TypeOK
  <2> SUFFICES ASSUME NEW c \in Conns, NEW bit \in {"IN", "OUT"}, Pending(c, bit)', c \notin ready'
               PROVE  Pending(c, bit) /\ c \notin ready
    BY <2>1 DEF NoNewLoss, Lost, Tracked, InQueue
  <2>2. c # fd
    BY <1>0, <2>1 DEF Pending, Register, TypeOK
  <2> QED
    BY <1>0, <2>1, <2>2 DEF Pending, Register, TypeOK
<1>3. CASE Swap
  <2>1. /\ UNCHANGED <<triggered, ready, mListenFds, interest, level>>
        /\ tmpTasks' = mPendingTasks /\ mPendingTasks' = tmpTasks
    BY <1>3 DEF Swap
  <2> QED
    BY <2>1 DEF NoNewLoss, Lost, Pending, Tracked, InQueue
<1>4. ASSUME NEW fd \in Fds, RunAdd(fd) PROVE NoNewLoss
  <2>0. Take(<<"add", fd>>) /\ mEpollEvent[fd] \in SUBSET {"IN", "OUT"}
    BY <1>0, <1>4 DEF RunAdd, TypeOK
  <2> SUFFICES ASSUME NEW c \in Conns, NEW bit \in {"IN", "OUT"}, Pending(c, bit)', c \notin ready'
               PROVE  Pending(c, bit) /\ c \notin ready
    BY <1>0, <2>0, TakeEdges
  <2>1. c # fd
    BY <1>0, <1>4, <2>0 DEF Pending, RunAdd, Register, TypeOK
  <2> QED
    BY <1>0, <1>4, <2>1 DEF Pending, RunAdd, Register, TypeOK
<1>5. ASSUME NEW fd \in Fds, RunDelete(fd) PROVE NoNewLoss
  <2>0. Take(<<"del", fd>>)
    BY <1>5 DEF RunDelete
  <2> QED
    BY <1>0, <1>5, <2>0, TakeEdges DEF Pending, RunDelete, Unregister
<1>6. CASE RunWakeUp
  <2>0. Take(<<"IN", WakeFd>>) /\ \A c \in Conns : level'[c] = level[c]
    BY <1>0, <1>6 DEF RunWakeUp, TypeOK
  <2> QED
    BY <1>0, <1>6, <2>0, TakeEdges DEF Pending, RunWakeUp
<1>7. ASSUME NEW fd \in LevelFds, RunLevel(fd) \/ TimeoutStop(fd) PROVE NoNewLoss
  <2>0. Take(<<"IN", fd>>) /\ UNCHANGED <<mListenFds, interest, ready>>
    BY <1>7 DEF RunLevel, TimeoutStop
  <2>1. level \in [Fds -> SUBSET Bits] /\ fd \notin Conns
    BY <1>0 DEF TypeOK
  <2>2. ASSUME RunLevel(fd) PROVE \A c \in Conns : level'[c] = level[c]
    <3>1. level' = level \/ level' = [level EXCEPT ![fd] = @ \ {"IN"}]
      BY <2>2 DEF RunLevel
    <3> QED
      BY <2>1, <3>1
  <2>3. ASSUME TimeoutStop(fd) PROVE \A c \in Conns : level'[c] = level[c]
    BY <2>1, <2>3 DEF TimeoutStop
  <2> QED
    BY <1>0, <1>7, <2>0, <2>2, <2>3, TakeEdges DEF Pending
<1>8. ASSUME NEW fd \in Conns, RunUnconnected(fd) PROVE NoNewLoss
  <2>0. PICK kind \in {"IN", "OUT"} : Take(<<kind, fd>>)
    BY <1>8 DEF RunUnconnected
  <2>1. UNCHANGED <<mListenFds, interest, ready, level>> /\ mState[fd] # "Connected"
    BY <1>8 DEF RunUnconnected
  <2> SUFFICES ASSUME NEW c \in Conns, NEW bit \in {"IN", "OUT"}, Pending(c, bit)',
                      <<kind, fd>> = <<bit, c>>
               PROVE  bit = "IN" /\ ReadTooEarly(c)
    BY <1>0, <2>0, <2>1, TakeEdges DEF Pending
  <2>2. fd \in mListenFds /\ bit \in interest[fd]
    BY <2>1 DEF Pending
  <2>3. mState[fd] = "NotConnected"
    BY <1>0, <2>1, <2>2 DEF ClosedIsDeleted, TypeOK
  <2>4. bit = "IN"
    BY <1>0, <2>2, <2>3 DEF EarlyListensToRead
  <2> QED
    BY <2>0, <2>3, <2>4 DEF ReadTooEarly
<1>9. ASSUME NEW fd \in Conns, ReadError(fd) PROVE NoNewLoss
  <2>1. /\ Take(<<"IN", fd>>) /\ UNCHANGED <<mListenFds, interest, ready>>
        /\ "ERR" \in level[fd] /\ pc = "run"
        /\ \A c \in Conns : level'[c] \subseteq level[c]
    BY <1>0, <1>9 DEF ReadError, Take, TypeOK
  <2>2. fd \in mListenFds => fd \in ready
    BY <1>0, <2>1 DEF NoLostError, PhaseInv
  <2> QED
    BY <1>0, <2>1, <2>2, TakeEdges DEF Pending
<1>10. ASSUME NEW fd \in Conns, ReadEOF(fd) PROVE NoNewLoss
  <2>0. Take(<<"IN", fd>>)
    BY <1>10 DEF ReadEOF
  <2> QED
    BY <1>0, <1>10, <2>0, TakeEdges DEF Pending, ReadEOF, Unregister
<1>11. ASSUME NEW fd \in ServerFds, ReadExecute(fd) PROVE NoNewLoss
  <2>1. /\ Take(<<"IN", fd>>) /\ Register(fd, mEpollEvent'[fd], level'[fd])
        /\ mEpollEvent'[fd] \in SUBSET {"IN", "OUT"}
        /\ \A c \in Conns : c # fd => level'[c] = level[c]
    BY <1>0, <1>11 DEF ReadExecute, TypeOK
  <2> QED
    BY <1>0, <2>1, RegisterEdges
<1>12. ASSUME NEW fd \in ClientFds, ReadStop(fd) PROVE NoNewLoss
  <2>1. /\ Take(<<"IN", fd>>) /\ UNCHANGED <<mListenFds, interest, ready>>
        /\ "IN" \notin level'[fd]
        /\ \A c \in Conns : level'[c] \subseteq level[c]
    BY <1>0, <1>12 DEF ReadStop, TypeOK
  <2> QED
    BY <1>0, <2>1, TakeEdges DEF Pending
<1>13. ASSUME NEW fd \in Conns, WriteAll(fd) PROVE NoNewLoss
  <2>1. /\ Take(<<"OUT", fd>>) /\ Register(fd, mEpollEvent'[fd], level'[fd])
        /\ mEpollEvent'[fd] \in SUBSET {"IN", "OUT"} /\ level' = level
    BY <1>0, <1>13 DEF WriteAll, TypeOK
  <2> QED
    BY <1>0, <2>1, RegisterEdges
<1>14. ASSUME NEW fd \in Conns, WriteAgain(fd) PROVE NoNewLoss
  <2>1. /\ Take(<<"OUT", fd>>) /\ UNCHANGED <<mListenFds, interest, ready>>
        /\ "OUT" \notin level'[fd]
        /\ \A c \in Conns : level'[c] \subseteq level[c]
    BY <1>0, <1>14 DEF WriteAgain, TypeOK
  <2> QED
    BY <1>0, <2>1, TakeEdges DEF Pending
<1>15. CASE EpollWait
  <2>1. PICK S \in SUBSET Available :
          /\ triggered' = [g \in Fds |-> IF g \in S THEN Reported(g) ELSE {}]
          /\ ready' = ready \ S
    BY <1>15 DEF EpollWait
  <2>2. /\ pc = "wait"
        /\ UNCHANGED <<mPendingTasks, tmpTasks, mListenFds, interest, level>>
    BY <1>15 DEF EpollWait
  <2> SUFFICES ASSUME NEW c \in Conns, NEW bit \in {"IN", "OUT"}, Pending(c, bit)',
                      bit \notin triggered'[c], c \in ready \/ bit \in triggered[c]
               PROVE  c \in ready'
    BY <2>2 DEF NoNewLoss, Lost, Pending, Tracked, InQueue
  <2>3. c \in ready
    BY <1>0, <2>2 DEF PhaseInv
  <2>4. c \notin S
    BY <2>1, <2>2 DEF Pending, Reported
  <2> QED
    BY <2>1, <2>3, <2>4
<1>16. ASSUME NEW fd \in Fds, Dispatch(fd) PROVE NoNewLoss
  <2> DEFINE bit == FirstBit(triggered[fd])
  <2>1. bit \in triggered[fd] /\ bit \in Bits
    BY <1>0, <1>16, FirstBitFacts DEF Dispatch, TypeOK
  <2> HIDE DEF bit
  <2>2. /\ DispatchBit(fd, bit) /\ tmpTasks' = tmpTasks
        /\ triggered'[fd] = triggered[fd] \ {bit}
        /\ \A g \in Fds : g # fd => triggered'[g] = triggered[g]
    BY <1>0, <1>16 DEF Dispatch, bit, DispatchBit, TypeOK
  <2>3. CASE bit # "ERR"
    <3>1. mPendingTasks' = Append(mPendingTasks, <<bit, fd>>) /\ UNCHANGED kernel
      BY <2>2, <2>3 DEF DispatchBit
    <3>2. <<bit, fd>> \in Task
      BY <2>1, <2>3 DEF Bits, Task
    <3>3. \A x : InQueue(x)' <=> InQueue(x) \/ x = <<bit, fd>>
      BY <1>0, <2>2, <3>1, <3>2, PushFacts DEF InQueue
    <3>4. \A c \in Conns, b \in {"IN", "OUT"} :
            b \in triggered[c] => b \in triggered'[c] \/ InQueue(<<b, c>>)'
      BY <2>2, <3>3
    <3> QED
      BY <3>1, <3>3, <3>4 DEF NoNewLoss, Lost, Pending, Tracked
  <2>4. CASE bit = "ERR"
    <3>1. Unregister(fd) /\ UNCHANGED <<mPendingTasks, level>>
      BY <2>2, <2>4 DEF DispatchBit
    <3>2. \A c \in Conns, b \in {"IN", "OUT"} : b \in triggered[c] => b \in triggered'[c]
      BY <2>2, <2>4
    <3> QED
      BY <2>2, <3>1, <3>2 DEF NoNewLoss, Lost, Pending, Tracked, InQueue, Unregister
  <2> QED
    BY <2>3, <2>4
<1>17. ASSUME NEW t \in Threads, NEW fd \in ServerFds, AddFdEvent(t, fd) \/ DeleteFdEvent(t, fd)
       PROVE  NoNewLoss
  <2>1. PICK kind \in {"add", "del"} : mPendingTasks' = Append(mPendingTasks, <<kind, fd>>)
    BY <1>17 DEF AddFdEvent, DeleteFdEvent, AddTask
  <2>2. UNCHANGED <<tmpTasks, triggered, kernel>>
    BY <1>17 DEF AddFdEvent, DeleteFdEvent
  <2>3. \A x : InQueue(x) => InQueue(x)'
    BY <1>0, <2>1, <2>2, TaskFacts, PushFacts DEF InQueue
  <2> QED
    BY <2>2, <2>3 DEF NoNewLoss, Lost, Pending, Tracked
<1>18. ASSUME NEW fd \in Fds, NEW bits \in SUBSET Bits, Raise(fd, bits),
              UNCHANGED <<mPendingTasks, tmpTasks, triggered, mListenFds, interest>>
       PROVE  NoNewLoss
  <2> SUFFICES ASSUME NEW c \in Conns, NEW bit \in {"IN", "OUT"}, Pending(c, bit)', c \notin ready'
               PROVE  Pending(c, bit) /\ c \notin ready
    BY <1>18 DEF NoNewLoss, Lost, Tracked, InQueue
  <2> QED
    BY <1>0, <1>18 DEF Raise, Pending, TypeOK
<1>19. CASE \E fd \in Conns \cup LevelFds :
              PeerClose(fd) \/ PeerReset(fd) \/ Arrive(fd, "IN") \/ Arrive(fd, "OUT")
  <2>1. PICK fd \in Fds, bits \in {{"IN"}, {"OUT"}, Bits} : Raise(fd, bits)
    BY <1>19 DEF PeerClose, PeerReset, Arrive
  <2>2. UNCHANGED <<mPendingTasks, tmpTasks, triggered, mListenFds, interest>>
    BY <1>19 DEF PeerClose, PeerReset, Arrive
  <2> QED
    BY <1>18, <2>1, <2>2 DEF Bits
<1> QED
  BY <1>1, <1>2, <1>3, <1>4, <1>5, <1>6, <1>7, <1>8, <1>9, <1>10, <1>11, <1>12, <1>13,
    <1>14, <1>15, <1>16, <1>17, <1>19
  DEF Next, OwnerStep, RunTask, OtherStep, Environment

-----------------------------------------------------------------------------
\* Every reachable state satisfies the inductive invariant.
THEOREM Invariance == Spec => []IInv
BY Initially, Inductive, PTL DEF Spec

\* The variables keep the types of the members and locals they stand for.
THEOREM TypeCorrect == Spec => []TypeOK
<1>1. IInv => TypeOK
  BY DEF IInv
<1> QED
  BY <1>1, Invariance, PTL

\* One event taken from epoll runs its callback once: Loop() never queues the
\* callback of a bit that is queued already, whoever stops and enters it.
THEOREM CallbackOnce == Spec => []NoDuplicateCallback
<1>1. IInv => NoDuplicateCallback
  BY DEF IInv
<1> QED
  BY <1>1, Invariance, PTL

\* Edge-triggered readiness is never lost between the kernel, events[] and
\* the task queues, for any number of connections and any MAX_EVENT_NUMBER,
\* but for what an onRead before SetState(Connected) leaves unread.
THEOREM EdgeKept == Spec => NoLostEdge
<1>1. Init => \A fd \in Conns, bit \in {"IN", "OUT"} : ~Lost(fd, bit)
  BY FdFacts DEF Init, Lost, Pending
<1> QED
  BY <1>1, Invariance, Edges, PTL DEF Spec, NoLostEdge

-----------------------------------------------------------------------------
(***************************************************************************)
(* The two queues implement TaskQueue.                                     *)
(***************************************************************************)
\* Popping the local queue pops the queue the two make together.
LEMMA ConcatTail ==
  ASSUME NEW S, NEW p \in Seq(S), NEW q \in Seq(S), p # <<>>
  PROVE  p \o q # <<>> /\ Tail(p) \o q = Tail(p \o q)
<1>1. /\ Len(p) > 0 /\ Tail(p) \in Seq(S) /\ Len(Tail(p)) = Len(p) - 1
      /\ \A i \in 1 .. Len(p) - 1 : Tail(p)[i] = p[i + 1]
  OBVIOUS
<1>2. p \o q \in Seq(S) /\ Len(p \o q) = Len(p) + Len(q)
  BY ConcatProperties
<1>3. p \o q # <<>>
  BY <1>1, <1>2
<1>4. /\ Tail(p \o q) \in Seq(S) /\ Len(Tail(p \o q)) = Len(p) + Len(q) - 1
      /\ \A i \in 1 .. Len(p) + Len(q) - 1 : Tail(p \o q)[i] = (p \o q)[i + 1]
  BY <1>2, <1>3
<1>5. /\ Tail(p) \o q \in Seq(S) /\ Len(Tail(p) \o q) = Len(p) - 1 + Len(q)
      /\ \A i \in 1 .. Len(p) - 1 + Len(q) :
           (Tail(p) \o q)[i] = IF i <= Len(p) - 1 THEN Tail(p)[i] ELSE q[i - (Len(p) - 1)]
  BY <1>1, ConcatProperties
<1>6. \A i \in 1 .. Len(p) + Len(q) :
        (p \o q)[i] = IF i <= Len(p) THEN p[i] ELSE q[i - Len(p)]
  BY ConcatProperties
<1>7. \A i \in 1 .. Len(p) + Len(q) - 1 : (Tail(p) \o q)[i] = Tail(p \o q)[i]
  <2> SUFFICES ASSUME NEW i \in 1 .. Len(p) + Len(q) - 1
               PROVE  (Tail(p) \o q)[i] = Tail(p \o q)[i]
    OBVIOUS
  <2>1. /\ Len(p) \in Nat /\ Len(q) \in Nat
        /\ i + 1 \in 1 .. Len(p) + Len(q) /\ i \in 1 .. Len(p) - 1 + Len(q)
    BY <1>1
  <2>2. Tail(p \o q)[i] = IF i + 1 <= Len(p) THEN p[i + 1] ELSE q[(i + 1) - Len(p)]
    BY <2>1, <1>4, <1>6
  <2>3. (Tail(p) \o q)[i] = IF i <= Len(p) - 1 THEN Tail(p)[i] ELSE q[i - (Len(p) - 1)]
    BY <2>1, <1>5
  <2>4. i - (Len(p) - 1) = (i + 1) - Len(p) /\ (i <= Len(p) - 1 <=> i + 1 <= Len(p))
    BY <2>1
  <2>5. i <= Len(p) - 1 => Tail(p)[i] = p[i + 1]
    BY <2>1, <1>1
  <2> QED
    BY <2>2, <2>3, <2>4, <2>5
<1>8. Len(Tail(p) \o q) = Len(Tail(p \o q))
  BY <1>1, <1>4, <1>5
<1> QED
  BY <1>3, <1>4, <1>5, <1>7, <1>8, SeqEqual

\* A push on mPendingTasks is a push on the queue the two make together.
LEMMA ConcatAppend ==
  ASSUME NEW S, NEW p \in Seq(S), NEW q \in Seq(S), NEW x \in S
  PROVE  p \o Append(q, x) = Append(p \o q, x)
<1>1. p \o q \in Seq(S) /\ <<x>> \in Seq(S)
  BY ConcatProperties
<1>2. Append(q, x) = q \o <<x>> /\ Append(p \o q, x) = (p \o q) \o <<x>>
  BY <1>1, AppendIsConcat
<1> QED
  BY <1>1, <1>2, ConcatAssociative

\* The owner's queues and those who post to them implement the one queue of
\* TaskQueue: the swap of Loop() neither reorders nor drops nor repeats.
THEOREM Refinement == Spec => TaskOrder
<1>1. Init => Queue!Init
  <2> SUFFICES ASSUME Init PROVE tmpTasks \o mPendingTasks = <<>>
    BY DEF Queue!Init
  <2>1. tmpTasks = <<>> /\ mPendingTasks = <<>> /\ <<>> \in Seq(Task)
    BY DEF Init
  <2> QED
    BY <2>1, ConcatEmptySeq
<1>2. ASSUME IInv, [Next]_vars PROVE [Queue!Next]_(tmpTasks \o mPendingTasks)
  <2>0. TypeOK /\ PhaseInv
    BY <1>2 DEF IInv
  <2>1. ASSUME NEW task, Take(task) PROVE Queue!Run
    <3>1. /\ tmpTasks # <<>> /\ tmpTasks' = Tail(tmpTasks)
          /\ mPendingTasks' = mPendingTasks
      BY <2>1 DEF Take
    <3> QED
      BY <2>0, <3>1, ConcatTail DEF Queue!Run, TypeOK
  <2>2. ASSUME NEW task \in Task, tmpTasks' = tmpTasks,
               mPendingTasks' = Append(mPendingTasks, task)
        PROVE  Queue!Next
    BY <2>0, <2>2, ConcatAppend DEF Queue!Next, Queue!Post, TypeOK
  <2>3. CASE Swap
    <3>1. tmpTasks = <<>> /\ tmpTasks' = mPendingTasks /\ mPendingTasks' = tmpTasks
      BY <2>0, <2>3 DEF Swap, PhaseInv
    <3> QED
      BY <2>0, <3>1, ConcatEmptySeq DEF TypeOK
  <2>4. CASE RunTask
    <3>1. \E task : Take(task)
      BY <2>4 DEF RunTask, RunAdd, RunDelete, RunWakeUp, RunLevel, RunUnconnected, ReadError,
        ReadEOF, ReadExecute, ReadStop, TimeoutStop, WriteAll, WriteAgain
    <3> QED
      BY <2>1, <3>1 DEF Queue!Next
  <2>5. ASSUME NEW fd \in Fds, Dispatch(fd)
        PROVE  Queue!Next \/ UNCHANGED <<tmpTasks, mPendingTasks>>
    <3>1. tmpTasks' = tmpTasks /\ triggered[fd] \in SUBSET Bits /\ triggered[fd] # {}
      BY <2>0, <2>5 DEF Dispatch, owner, TypeOK
    <3> DEFINE bit == FirstBit(triggered[fd])
    <3>2. bit \in Bits /\ DispatchBit(fd, bit)
      BY <2>5, <3>1, FirstBitFacts DEF Dispatch
    <3>3. \/ bit # "ERR" /\ mPendingTasks' = Append(mPendingTasks, <<bit, fd>>)
          \/ mPendingTasks' = mPendingTasks
      BY <3>2 DEF DispatchBit
    <3>4. bit # "ERR" => <<bit, fd>> \in Task
      BY <3>2 DEF Task, Bits
    <3> HIDE DEF bit
    <3> QED
      BY <2>2, <3>1, <3>3, <3>4
  <2>6. ASSUME NEW t \in Threads, OtherStep(t)
        PROVE  Queue!Next \/ UNCHANGED <<tmpTasks, mPendingTasks>>
    <3>1. ASSUME NEW fd \in ServerFds, AddFdEvent(t, fd) \/ DeleteFdEvent(t, fd)
          PROVE  Queue!Next
      <4>1. <<"add", fd>> \in Task /\ <<"del", fd>> \in Task
        BY FdFacts, TaskFacts
      <4>2. tmpTasks' = tmpTasks /\ \E kind \in {"add", "del"} :
              mPendingTasks' = Append(mPendingTasks, <<kind, fd>>)
        BY <3>1 DEF AddFdEvent, DeleteFdEvent, AddTask, owner
      <4> QED
        BY <2>2, <4>1, <4>2
    <3>2. CASE Wakeup(t) \/ SetState(t) \/ StopCheck(t) \/ StopSet(t)
      BY <3>2 DEF Wakeup, SetState, StopCheck, StopSet, owner
    <3> QED
      BY <2>6, <3>1, <3>2 DEF OtherStep
  <2>7. CASE Loop \/ (\E fd \in ClientFds : OneCall(fd)) \/ Check \/ Drained
               \/ EpollWait \/ Dispatched \/ Environment \/ UNCHANGED vars
    BY <2>7 DEF Loop, OneCall, Check, Drained, EpollWait, Dispatched, Environment,
      PeerClose, PeerReset, Arrive, EpollInterrupted, vars, owner
  <2> QED
    BY <1>2, <2>3, <2>4, <2>5, <2>6, <2>7 DEF Next, OwnerStep
<1> QED
  BY <1>1, <1>2, Invariance, PTL DEF Spec, TaskOrder, Queue!Spec
=============================================================================
