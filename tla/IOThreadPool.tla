---------------------------- MODULE IOThreadPool ----------------------------
(***************************************************************************)
(* net/io_thread and net/io_thread_pool, as TCPServer uses them: its       *)
(* constructor makes the threads one after another, each constructor       *)
(* waiting until the new thread has its event loop, and Start lets them    *)
(* all go before the main thread enters its own loop.                      *)
(*                                                                         *)
(* Both waits are on a condition variable with a predicate.  A flag is set *)
(* under the mutex the waiter tests it under, and notified afterwards: the *)
(* two are steps of their own.                                             *)
(***************************************************************************)
EXTENDS Naturals

CONSTANT ThreadNums  \* mIOThreadPoolNum

ASSUME ThreadNumsAssumption == ThreadNums \in Nat \ {0}

Threads == 0 .. ThreadNums - 1

VARIABLES
  mainAt,     \* main thread: <<what it does next, the thread it does it to>>
  phase,      \* per thread, what IOThread::loop does next; "none" before it
  mInitDone,  \* threads that have said that their mEventLoop is there
  mStart,     \* threads that have been told to start
  mIndex      \* the thread that GetIOThread returns next

pool == <<mainAt, phase, mInitDone, mStart, mIndex>>

PoolTypeOK ==
  /\ mainAt \in {"create", "test", "asleep", "start", "notify"} \X Threads \cup {<<"loop", 0>>}
  /\ phase \in [Threads -> {"none", "make", "tell", "notify", "test", "asleep", "loop"}]
  /\ mInitDone \subseteq Threads
  /\ mStart \subseteq Threads
  /\ mIndex \in Threads

PoolInit ==
  /\ mainAt = <<"create", 0>>
  /\ phase = [t \in Threads |-> "none"]
  /\ mInitDone = {}
  /\ mStart = {}
  /\ mIndex = 0

\* The main thread goes on with the next thread, or with what follows the last.
NextOr(step, t, after) == IF t + 1 < ThreadNums THEN <<step, t + 1>> ELSE <<after, 0>>

-----------------------------------------------------------------------------
(***************************************************************************)
(* The main thread: IOThreadPool::Init, then Start.                        *)
(***************************************************************************)
CreateThread(t) ==
  /\ mainAt = <<"create", t>>
  /\ phase' = [phase EXCEPT ![t] = "make"]
  /\ mainAt' = <<"test", t>>
  /\ UNCHANGED <<mInitDone, mStart, mIndex>>

\* Mutant: the constructor does not wait.
InitialisedUnseen(t) == TRUE

\* What the constructor of a thread waits for.
Initialised(t) == t \in mInitDone

WaitInit(t) ==
  /\ mainAt = <<"test", t>>
  /\ mainAt' = IF Initialised(t) THEN NextOr("create", t, "start") ELSE <<"asleep", t>>
  /\ UNCHANGED <<phase, mInitDone, mStart, mIndex>>

SetStart(t) ==
  /\ mainAt = <<"start", t>>
  /\ mStart' = mStart \cup {t}
  /\ mainAt' = <<"notify", t>>
  /\ UNCHANGED <<phase, mInitDone, mIndex>>

NotifyStart(t) ==
  /\ mainAt = <<"notify", t>>
  /\ phase' = [phase EXCEPT ![t] = IF @ = "asleep" THEN "test" ELSE @]
  /\ mainAt' = NextOr("start", t, "loop")
  /\ UNCHANGED <<mInitDone, mStart, mIndex>>

MainStarts == \E t \in Threads : CreateThread(t) \/ WaitInit(t) \/ SetStart(t) \/ NotifyStart(t)

-----------------------------------------------------------------------------
(***************************************************************************)
(* A thread: IOThread::loop up to EventLoop::Loop.                         *)
(***************************************************************************)
MakeLoop(t) ==
  /\ phase[t] = "make"
  /\ phase' = [phase EXCEPT ![t] = "tell"]
  /\ UNCHANGED <<mainAt, mInitDone, mStart, mIndex>>

SetInitDone(t) ==
  /\ phase[t] = "tell"
  /\ mInitDone' = mInitDone \cup {t}
  /\ phase' = [phase EXCEPT ![t] = "notify"]
  /\ UNCHANGED <<mainAt, mStart, mIndex>>

NotifyInit(t) ==
  /\ phase[t] = "notify"
  /\ mainAt' = IF mainAt = <<"asleep", t>> THEN <<"test", t>> ELSE mainAt
  /\ phase' = [phase EXCEPT ![t] = "test"]
  /\ UNCHANGED <<mInitDone, mStart, mIndex>>

\* Mutant: the thread waits for the notification without testing mStart.
SleepFirst(t) == "asleep"

\* What the wait of a thread comes to when it tests its predicate.
TestStart(t) == IF t \in mStart THEN "loop" ELSE "asleep"

WaitStart(t) ==
  /\ phase[t] = "test"
  /\ phase' = [phase EXCEPT ![t] = TestStart(t)]
  /\ UNCHANGED <<mainAt, mInitDone, mStart, mIndex>>

ThreadStarts(t) == MakeLoop(t) \/ SetInitDone(t) \/ NotifyInit(t) \/ WaitStart(t)

PoolNext == MainStarts \/ \E t \in Threads : ThreadStarts(t)

-----------------------------------------------------------------------------
\* The thread has its event loop, and runs it.
HasLoop(t) == phase[t] \notin {"none", "make"}
Looping(t) == phase[t] = "loop"
MainLooping == mainAt = <<"loop", 0>>

\* A thread that the main thread has yet to create.
Uncreated(t) ==
  \/ mainAt = <<"create", t>>
  \/ mainAt[1] \in {"create", "test", "asleep"} /\ t > mainAt[2]

\* The threads are created in turn, and each has its loop before the next is
\* created and before any is told to start.
PoolInv ==
  /\ \A t \in mInitDone : HasLoop(t)
  /\ \A t \in Threads : Uncreated(t) => phase[t] = "none"
  /\ \A t \in Threads :
       HasLoop(t) \/ (mainAt[1] \in {"create", "test", "asleep"} /\ t >= mainAt[2])

\* Mutant: the pool's index does not wrap.
NextIndexNoWrap == mIndex + 1

\* GetIOThread returns the thread of mIndex and moves on.
NextIndex == (mIndex + 1) % ThreadNums

GetIOThread ==
  /\ mIndex' = NextIndex
  /\ UNCHANGED <<mainAt, phase, mInitDone, mStart>>
=============================================================================
