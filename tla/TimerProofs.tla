---------------------------- MODULE TimerProofs ----------------------------
(***************************************************************************)
(* Proofs about Timer, for any events, intervals and number of clock steps *)
(* back: its inductive invariant, and that it implements TimerService.     *)
(***************************************************************************)
EXTENDS Timer, TLAPS

\* What adding an event does.  An event that is not overdue re-arms the
\* timerfd only if nothing pending is due, so never while onTimer is called.
LEMMA InsertFacts ==
  ASSUME IInv, NEW e \in Events, NEW d \in Nat, Insert(e, d), UNCHANGED <<called, steps>>
  PROVE  /\ due' \in [Events -> Int] /\ due'[e] = d
         /\ \A f \in Events : f # e => due'[f] = due[f]
         /\ mPendingEvents' = mPendingEvents \cup {e}
         /\ left' \in Nat /\ expired' \in BOOLEAN
         /\ e \notin mPendingEvents => ExpiryIsDue'
<1>0. TypeOK /\ ExpiryIsDue
  BY DEF IInv
<1>1. due' = [due EXCEPT ![e] = d] /\ mPendingEvents' = mPendingEvents \cup {e}
  BY DEF Insert
<1>2. /\ due' \in [Events -> Int] /\ due'[e] = d
      /\ \A f \in Events : f # e => due'[f] = due[f]
  BY <1>0, <1>1 DEF TypeOK
<1>3. CASE \A f \in mPendingEvents : d < due[f]
  <2>1. ResetTimerFd(mPendingEvents', due')
    BY <1>3 DEF Insert
  <2>2. PICK x \in mPendingEvents' : left' = IF due'[x] > 0 THEN due'[x] ELSE Grace
    BY <2>1 DEF ResetTimerFd, First
  <2>3. x \in Events /\ due'[x] \in Int
    BY <1>0, <1>1, <1>2 DEF TypeOK
  <2>4. left' \in Nat /\ due'[x] <= left' /\ expired' = FALSE
    BY <2>1, <2>2, <2>3, ConstantsAssumption DEF ResetTimerFd
  <2>5. steps = 0 => ~called
    BY <1>0, <1>3 DEF ExpiryIsDue, TypeOK
  <2>6. ExpiryIsDue'
    BY <2>2, <2>4, <2>5 DEF ExpiryIsDue
  <2> QED
    BY <1>1, <1>2, <2>4, <2>6
<1>4. CASE ~ \A f \in mPendingEvents : d < due[f]
  <2>1. left' = left /\ expired' = expired
    BY <1>4 DEF Insert, fd
  <2>2. e \notin mPendingEvents => ExpiryIsDue'
    <3> SUFFICES ASSUME e \notin mPendingEvents PROVE ExpiryIsDue'
      OBVIOUS
    <3>1. \A f \in mPendingEvents : f \in mPendingEvents' /\ due'[f] = due[f]
      BY <1>0, <1>1, <1>2 DEF TypeOK
    <3> QED
      BY <1>0, <2>1, <3>1 DEF ExpiryIsDue
  <2> QED
    BY <1>0, <1>1, <1>2, <2>1, <2>2 DEF TypeOK
<1> QED
  BY <1>3, <1>4

\* A timer without events satisfies the invariant.
LEMMA Initially == Init => IInv
<1> SUFFICES ASSUME Init PROVE IInv
  OBVIOUS
<1>2. due \in [Events -> Int]
  BY ConstantsAssumption DEF Init
<1>1. mIsRepeated \in [Events -> BOOLEAN]
  BY ConstantsAssumption DEF Init
<1>5. ran \in [Events -> 0 .. 1] /\ steps \in 0 .. MaxSteps
  BY ConstantsAssumption DEF Init
<1>3. TypeOK
  BY <1>1, <1>2, <1>5 DEF Init, TypeOK
<1>4. BatchInv /\ ExpiryIsDue
  BY DEF Init, BatchInv, ExpiryIsDue
<1> QED
  BY <1>3, <1>4 DEF IInv

\* Adding, firing, cancelling and both clocks keep the invariant.
LEMMA Inductive == IInv /\ [Next]_vars => IInv'
<1> SUFFICES ASSUME IInv, [Next]_vars PROVE IInv'
  OBVIOUS
<1>0. TypeOK /\ BatchInv /\ ExpiryIsDue
  BY DEF IInv
<1>1. ASSUME NEW e \in Events, NEW age \in 0 .. Interval[e], AddTimerEvent(e, age)
      PROVE  IInv'
  <2>1. /\ Interval[e] - age \in Nat /\ Insert(e, Interval[e] - age)
        /\ e \notin mPendingEvents /\ outDateEvent = {}
        /\ UNCHANGED <<outDateEvent, called, steps>>
    BY <1>1, ConstantsAssumption DEF AddTimerEvent
  <2>2. /\ due' \in [Events -> Int] /\ mPendingEvents' = mPendingEvents \cup {e}
        /\ left' \in Nat /\ expired' \in BOOLEAN /\ ExpiryIsDue'
    BY <2>1, InsertFacts
  <2>4. mIsRepeated' \in [Events -> BOOLEAN]
    BY <1>0, <1>1, ConstantsAssumption DEF TypeOK, AddTimerEvent
  <2>3. TypeOK'
    BY <1>0, <1>1, <2>1, <2>2, <2>4 DEF TypeOK, AddTimerEvent
  <2> QED
    BY <2>1, <2>2, <2>3 DEF IInv, BatchInv
<1>2. ASSUME NEW e \in Events, NEW val \in BOOLEAN, SetCancel(e, val) PROVE IInv'
  BY <1>0, <1>2 DEF SetCancel, IInv, TypeOK, BatchInv, ExpiryIsDue, fd
<1>3. CASE Trigger
  BY <1>0, <1>3 DEF Trigger, IInv, TypeOK, BatchInv, ExpiryIsDue, fd
<1>4. CASE OnTimer
  <2>1. TypeOK' /\ BatchInv'
    BY <1>0, <1>4 DEF OnTimer, TypeOK, BatchInv
  <2>2. ExpiryIsDue'
    BY <1>0, <1>4 DEF OnTimer, TypeOK, ExpiryIsDue
  <2> QED
    BY <2>1, <2>2 DEF IInv
<1>5. ASSUME NEW e \in Events, RunEvent(e) PROVE IInv'
  <2>1. /\ e \in outDateEvent /\ outDateEvent' = outDateEvent \ {e}
        /\ e \notin mPendingEvents
        /\ UNCHANGED <<mIsRepeated, called, steps>>
        /\ ran' \in [Events -> 0 .. 1]
    BY <1>0, <1>5 DEF RunEvent, First, BatchInv, TypeOK
  <2>2. CASE Insert(e, Interval[e])
    <3>1. /\ due' \in [Events -> Int] /\ mPendingEvents' = mPendingEvents \cup {e}
          /\ \A f \in Events : f # e => due'[f] = due[f]
          /\ left' \in Nat /\ expired' \in BOOLEAN /\ ExpiryIsDue'
      BY <2>1, <2>2, ConstantsAssumption, InsertFacts
    <3>2. TypeOK'
      BY <1>0, <2>1, <3>1 DEF TypeOK
    <3>3. BatchInv'
      BY <1>0, <2>1, <3>1 DEF TypeOK, BatchInv
    <3> QED
      BY <3>1, <3>2, <3>3 DEF IInv
  <2>3. CASE UNCHANGED <<mPendingEvents, due, fd>>
    BY <1>0, <2>1, <2>3 DEF IInv, TypeOK, BatchInv, ExpiryIsDue, fd
  <2> QED
    BY <1>5, <2>2, <2>3 DEF RunEvent
<1>6. CASE Tick
  <2>1. Floor \in Int /\ Floor <= -2
    BY ConstantsAssumption DEF Floor
  <2>2. \A e \in Events :
          due'[e] = IF e \in mPendingEvents /\ due[e] > Floor THEN due[e] - 1 ELSE due[e]
    BY <1>6 DEF Tick
  <2>3. due' \in [Events -> Int]
    BY <1>0, <1>6, <2>1 DEF Tick, TypeOK
  <2>4. TypeOK'
    BY <1>0, <1>6, <2>3 DEF Tick, TypeOK
  <2>5. BatchInv'
    BY <1>0, <1>6, <2>2 DEF Tick, TypeOK, BatchInv
  <2>6. ExpiryIsDue'
    <3>1. \A e \in mPendingEvents : \A n \in Nat \ {0} :
            (due[e] <= 0 => due'[e] <= 0) /\ (due[e] <= n => due'[e] <= n - 1)
      BY <1>0, <2>1, <2>2 DEF TypeOK
    <3> QED
      BY <1>0, <1>6, <3>1 DEF Tick, TypeOK, ExpiryIsDue
  <2> QED
    BY <2>4, <2>5, <2>6 DEF IInv
<1>7. CASE StepBack
  <2>1. TypeOK' /\ steps' # 0
    BY <1>0, <1>7, ConstantsAssumption DEF StepBack, TypeOK, fd
  <2>2. BatchInv'
    BY <1>0, <1>7 DEF StepBack, TypeOK, BatchInv
  <2> QED
    BY <2>1, <2>2 DEF IInv, ExpiryIsDue
<1>8. CASE UNCHANGED vars
  BY <1>0, <1>8 DEF vars, IInv, TypeOK, BatchInv, ExpiryIsDue, fd
<1> QED
  BY <1>1, <1>2, <1>3, <1>4, <1>5, <1>6, <1>7, <1>8 DEF Next, Owner

\* onTimer is only called when an event is due, as long as the wall clock is
\* not set back, and no event is in the batch and in the multimap.
THEOREM Invariance == Spec => []IInv
BY Initially, Inductive, PTL DEF Spec

\* onTimer fires each event once per time it was added and never early, and
\* adds a repeated event again as it fires it.
THEOREM Contract == Spec => TimerContract
<1>1. Init => Service!Init
  BY ConstantsAssumption DEF Init, Service!Init
<1>2. ASSUME IInv, [Next]_vars PROVE [Service!Next]_(Service!vars)
  <2>0. TypeOK /\ BatchInv
    BY <1>2 DEF IInv
  <2>1. ASSUME NEW e \in Events, NEW age \in 0 .. Interval[e], AddTimerEvent(e, age)
        PROVE  Service!Schedule(e)
    <3>1. /\ due' = [due EXCEPT ![e] = Interval[e] - age]
          /\ mPendingEvents' = mPendingEvents \cup {e}
          /\ e \notin mPendingEvents /\ outDateEvent = {} /\ outDateEvent' = {} /\ ran' = ran
      BY <2>1 DEF AddTimerEvent, Insert
    <3>2. due'[e] = Interval[e] - age /\ due' = [due EXCEPT ![e] = due'[e]]
      BY <2>0, <3>1 DEF TypeOK
    <3>3. due'[e] \in Int /\ due'[e] <= Interval[e]
      BY <3>2, ConstantsAssumption
    <3>4. \/ mIsRepeated' = [mIsRepeated EXCEPT ![e] = TRUE]
          \/ mIsRepeated' = [mIsRepeated EXCEPT ![e] = FALSE]
      <4>1. mIsRepeated' = [mIsRepeated EXCEPT ![e] = Periodic[e]]
        BY <2>1 DEF AddTimerEvent
      <4>2. Periodic[e] = TRUE \/ Periodic[e] = FALSE
        BY ConstantsAssumption
      <4> QED
        BY <4>1, <4>2, Zenon
    <3> QED
      BY <3>1, <3>2, <3>3, <3>4 DEF Service!Schedule
  <2>2. ASSUME NEW e \in Events, NEW val \in BOOLEAN, SetCancel(e, val)
        PROVE  Service!Change(e)
    BY <2>2 DEF SetCancel, Service!Change
  <2>3. CASE Trigger
    BY <2>3 DEF Trigger, Service!vars
  <2>4. CASE OnTimer
    BY <2>0, <2>4 DEF OnTimer, TypeOK, Service!vars
  <2>5. ASSUME NEW e \in Events, RunEvent(e) PROVE Service!Fire(e)
    <3>1. /\ e \in outDateEvent /\ due[e] <= 0 /\ e \notin mPendingEvents
          /\ outDateEvent' = outDateEvent \ {e} /\ UNCHANGED mIsRepeated
          /\ ran' = [ran EXCEPT ![e] = 1 - @]
      BY <2>0, <2>5 DEF RunEvent, First, BatchInv
    <3>2. CASE mIsRepeated[e] /\ Insert(e, Interval[e])
      BY <3>1, <3>2 DEF Insert, Service!Fire
    <3>3. CASE ~mIsRepeated[e] /\ UNCHANGED <<mPendingEvents, due, fd>>
      BY <3>1, <3>3 DEF Service!Fire
    <3> QED
      BY <2>5, <3>2, <3>3 DEF RunEvent
  <2>6. CASE Tick \/ StepBack
    <3>1. \E d \in {-1, 1} : /\ due' \in [Events -> Int]
                             /\ \A e \in Events : due'[e] \in {due[e], due[e] + d}
      <4>1. CASE Tick
        <5>1. /\ due' \in [Events -> Int]
              /\ \A e \in Events : due'[e] \in {due[e], due[e] + -1}
          BY <2>0, <4>1 DEF Tick, TypeOK
        <5> QED
          BY <5>1
      <4>2. CASE StepBack
        <5>1. /\ due' \in [Events -> Int]
              /\ \A e \in Events : due'[e] \in {due[e], due[e] + 1}
          BY <2>0, <4>2 DEF StepBack, TypeOK
        <5> QED
          BY <5>1
      <4> QED
        BY <2>6, <4>1, <4>2
    <3>2. UNCHANGED <<mPendingEvents, outDateEvent, mIsRepeated, ran>>
      BY <2>6 DEF Tick, StepBack
    <3> QED
      BY <3>1, <3>2 DEF Service!Next, Service!Clock
  <2>7. CASE UNCHANGED vars
    BY <2>7 DEF vars, Service!vars
  <2> QED
    BY <1>2, <2>1, <2>2, <2>3, <2>4, <2>5, <2>6, <2>7 DEF Next, Owner, Service!Next
<1> QED
  BY <1>1, <1>2, Invariance, PTL DEF Spec, TimerContract, Service!Spec
=============================================================================
