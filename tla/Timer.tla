------------------------------- MODULE Timer -------------------------------
(***************************************************************************)
(* net/timer and net/timer_event: the multimap of TimerEvents of one       *)
(* EventLoop, the timerfd that is armed for the earliest of them, and      *)
(* onTimer, which the loop runs when the timerfd has expired.              *)
(*                                                                         *)
(* Everything here runs on the thread that owns the loop (the lock_guards  *)
(* of timer.cpp:20, 48 and 83 declare a function and lock nothing).  Times *)
(* are relative: due[e] is the arrive time of e minus GetNowMs(), so time  *)
(* can pass for ever in finitely many states.  The order of events with    *)
(* the same arrive time is left open.                                      *)
(***************************************************************************)
EXTENDS Integers, FiniteSets

CONSTANTS Events,       \* TimerEvent objects
          Interval,     \* per event, its mInterval
          Periodic,     \* per event, isRepeated of its constructor
          Cancellable,  \* events whose user may call SetCancel (nobody does yet)
          Grace,        \* the 100 ms after which an overdue event is tried
          MaxSteps      \* bound: times the wall clock is set back

ASSUME ConstantsAssumption ==
  /\ Interval \in [Events -> Nat]
  /\ Periodic \in [Events -> BOOLEAN]
  /\ Cancellable \subseteq Events
  /\ Grace \in Nat \ {0}
  /\ MaxSteps \in Nat

VARIABLES
  mPendingEvents,  \* the events of the multimap
  due,             \* per event, mArriveTime - now
  mIsRepeated,     \* per event
  outDateEvent,    \* the batch onTimer is running, {} outside it
  left,            \* timerfd: time to the expiry, 0 when disarmed
  expired,         \* timerfd: readable
  called,          \* onTimer is in the loop's task queue
  steps,           \* times the wall clock was set back
  ran              \* per event, the parity of the runs of its callback

fd    == <<left, expired>>
vars  == <<mPendingEvents, due, mIsRepeated, outDateEvent, fd, called, steps,
           ran>>

\* How far an overdue event is counted: far enough to be overdue, and before
\* every event that is added, however often the clock is set back.
Floor == -(MaxSteps + 2)

TypeOK ==
  /\ mPendingEvents \in SUBSET Events
  /\ due \in [Events -> Int]
  /\ mIsRepeated \in [Events -> BOOLEAN]
  /\ outDateEvent \in SUBSET Events
  /\ left \in Nat
  /\ expired \in BOOLEAN
  /\ called \in BOOLEAN
  /\ steps \in 0 .. MaxSteps
  /\ ran \in [Events -> 0 .. 1]

Init ==
  /\ mPendingEvents = {}
  /\ due = [e \in Events |-> Interval[e]]
  /\ mIsRepeated = Periodic
  /\ outDateEvent = {}
  /\ left = 0
  /\ expired = FALSE
  /\ called = FALSE
  /\ steps = 0
  /\ ran = [e \in Events |-> 0]

\* begin() of the multimap: no pending event arrives before e.
First(e, S, d) == e \in S /\ \A f \in S : d[e] <= d[f]

\* Mutant: an event that is due now arms the timerfd with 0, which disarms it.
ResetNoGrace(S, d) ==
  /\ \E e \in S : First(e, S, d) /\ left' = IF d[e] > 0 THEN d[e] ELSE 0
  /\ expired' = FALSE

\* resetTimerFd: the timerfd is armed for the earliest event; whatever it
\* had counted is forgotten.
ResetTimerFd(S, d) ==
  /\ \E e \in S : First(e, S, d) /\ left' = IF d[e] > 0 THEN d[e] ELSE Grace
  /\ expired' = FALSE

\* AddTimerEvent, with arrive time now + d: the timerfd is armed again only
\* if the new event becomes the earliest.
Insert(e, d) ==
  /\ due' = [due EXCEPT ![e] = d]
  /\ mPendingEvents' = mPendingEvents \cup {e}
  /\ IF \A f \in mPendingEvents : d < due[f]
     THEN ResetTimerFd(mPendingEvents', due')
     ELSE UNCHANGED fd

\* A TimerEvent is constructed and added; it was constructed age ticks ago,
\* and is not overdue already.
AddTimerEvent(e, age) ==
  /\ outDateEvent = {}
  /\ e \notin mPendingEvents
  /\ Insert(e, Interval[e] - age)
  /\ mIsRepeated' = [mIsRepeated EXCEPT ![e] = Periodic[e]]
  /\ UNCHANGED <<outDateEvent, called, steps, ran>>

\* SetCancel assigns mIsRepeated; mIsCanceled stays false for ever.
SetCancel(e, val) ==
  /\ e \in Cancellable
  /\ e \in mPendingEvents \cup outDateEvent
  /\ mIsRepeated' = [mIsRepeated EXCEPT ![e] = val]
  /\ UNCHANGED <<mPendingEvents, due, outDateEvent, fd, called, steps, ran>>

\* epoll reports the timerfd (level-triggered), the loop queues onTimer.
Trigger ==
  /\ expired
  /\ ~called
  /\ outDateEvent = {}
  /\ called' = TRUE
  /\ UNCHANGED <<mPendingEvents, due, mIsRepeated, outDateEvent, fd, steps, ran>>

\* Mutant: the events that are due are not erased from the multimap.
OnTimerKeeps ==
  /\ called
  /\ outDateEvent = {}
  /\ called' = FALSE
  /\ expired' = FALSE
  /\ outDateEvent' = {e \in mPendingEvents : due[e] <= 0}
  /\ UNCHANGED <<mPendingEvents, due, mIsRepeated, left, steps, ran>>

\* onTimer reads the timerfd and moves the events that are due to its batch.
OnTimer ==
  /\ called
  /\ outDateEvent = {}
  /\ called' = FALSE
  /\ expired' = FALSE
  /\ outDateEvent' = {e \in mPendingEvents : due[e] <= 0}
  /\ mPendingEvents' = mPendingEvents \ outDateEvent'
  /\ UNCHANGED <<due, mIsRepeated, left, steps, ran>>

\* Mutant: a repeated event is added again without ResetArriveTime.
RunEventAsWas(e) ==
  /\ First(e, outDateEvent, due)
  /\ outDateEvent' = outDateEvent \ {e}
  /\ \/ mIsRepeated[e] /\ Insert(e, due[e])
     \/ ~mIsRepeated[e] /\ UNCHANGED <<mPendingEvents, due, fd>>
  /\ ran' = [ran EXCEPT ![e] = 1 - @]
  /\ UNCHANGED <<mIsRepeated, called, steps>>

\* One round of onTimer's loop: the callback, and a repeated event is added
\* again with an arrive time counted from now.
RunEvent(e) ==
  /\ First(e, outDateEvent, due)
  /\ outDateEvent' = outDateEvent \ {e}
  /\ \/ /\ mIsRepeated[e]
        /\ Insert(e, Interval[e])
     \/ /\ ~mIsRepeated[e]
        /\ UNCHANGED <<mPendingEvents, due, fd>>
  /\ ran' = [ran EXCEPT ![e] = 1 - @]
  /\ UNCHANGED <<mIsRepeated, called, steps>>

\* A millisecond passes, for both clocks.
Tick ==
  /\ due' = [e \in Events |-> IF e \in mPendingEvents /\ due[e] > Floor
                              THEN due[e] - 1 ELSE due[e]]
  /\ left' = IF left > 0 THEN left - 1 ELSE 0
  /\ expired' = (expired \/ left = 1)
  /\ UNCHANGED <<mPendingEvents, mIsRepeated, outDateEvent, called, steps, ran>>

\* The wall clock, which GetNowMs reads, is set back; CLOCK_MONOTONIC, which
\* drives the timerfd, is not.
StepBack ==
  /\ steps < MaxSteps
  /\ steps' = steps + 1
  /\ due' = [e \in Events |-> IF e \in mPendingEvents THEN due[e] + 1 ELSE due[e]]
  /\ UNCHANGED <<mPendingEvents, mIsRepeated, outDateEvent, fd, called, ran>>

Owner == Trigger \/ OnTimer \/ \E e \in Events : RunEvent(e)

Next ==
  \/ Owner
  \/ Tick
  \/ StepBack
  \/ \E e \in Events : \/ \E age \in 0 .. Interval[e] : AddTimerEvent(e, age)
                       \/ \E val \in BOOLEAN : SetCancel(e, val)

Spec == Init /\ [][Next]_vars

\* Time passes, and the thread that owns the loop runs it.
FairSpec == Spec /\ WF_vars(Tick) /\ WF_vars(Owner)

-----------------------------------------------------------------------------
\* The batch was due when it was taken from the multimap, and is no longer in
\* it.
BatchInv ==
  /\ mPendingEvents \cap outDateEvent = {}
  /\ \A e \in outDateEvent : due[e] <= 0

\* The timerfd is never early: unless the wall clock was set back, onTimer
\* finds an event to run whenever it is called.  Otherwise it would return
\* without arming the timerfd again (timer.cpp:44-63).
ExpiryIsDue ==
  steps = 0 =>
    /\ expired \/ called => \E e \in mPendingEvents : due[e] <= 0
    /\ left > 0 => /\ ~expired /\ ~called
                   /\ \E e \in mPendingEvents : due[e] <= left

IInv == TypeOK /\ BatchInv /\ ExpiryIsDue

\* The timer fires each event once per time it was added, never before it is
\* due, and adds a repeated one again as it fires it.
Service == INSTANCE TimerService
  WITH scheduled <- mPendingEvents \cup outDateEvent, repeated <- mIsRepeated

TimerContract == Service!Spec

\* A pending event is taken from the multimap, to be run, at last: what the
\* README (lines 331-333) uses the timer for.
PendingEventRuns ==
  \A e \in Events : e \in mPendingEvents ~> e \notin mPendingEvents

\* Unless the wall clock is set back, a timerfd that is armed leads to an
\* event that is run: neither arming it again nor reading it stalls the timer.
ArmedRuns ==
  (steps = 0 /\ (left > 0 \/ expired)) ~> (steps > 0 \/ outDateEvent # {})
=============================================================================
