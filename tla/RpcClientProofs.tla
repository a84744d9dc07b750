-------------------------- MODULE RpcClientProofs --------------------------
(***************************************************************************)
(* Proofs about RpcClient, for any number of calls and any timeout: what a *)
(* call that begins clean comes to, what its closure can read in the       *)
(* controller, and that a connection that is used is there.                *)
(***************************************************************************)
EXTENDS RpcClient, TLAPS, FiniteSetTheorems, SequenceTheorems

-----------------------------------------------------------------------------
(***************************************************************************)
(* The timer of the loop.                                                  *)
(***************************************************************************)
TimerTypes ==
  /\ mPendingEvents \in SUBSET Calls
  /\ due \in [Calls -> Int]
  /\ outDateEvent \in SUBSET Calls
  /\ left \in Nat
  /\ expired \in BOOLEAN
  /\ ran \in [Calls -> 0 .. 1]

\* The timer's type invariant, without its constant parts.
LEMMA TimerTyped == T!TypeOK <=> TimerTypes
<1>1. [k \in Calls |-> FALSE] \in [Calls -> BOOLEAN] /\ 0 \in 0 .. 0
  OBVIOUS
<1>2. Queued("timer") \in BOOLEAN
  BY DEF Queued
<1> QED
  BY <1>1, <1>2 DEF T!TypeOK, TimerTypes

\* The same after a step.
LEMMA TimerTypedNext == TimerTypes' => T!TypeOK'
<1>1. [k \in Calls |-> FALSE] \in [Calls -> BOOLEAN] /\ 0 \in 0 .. 0
  OBVIOUS
<1>2. Queued("timer")' \in BOOLEAN
  BY DEF Queued
<1> QED
  BY <1>1, <1>2 DEF T!TypeOK, TimerTypes

\* Arming the timerfd.
LEMMA ArmFacts ==
  ASSUME NEW S \in SUBSET Calls, NEW d \in [Calls -> Int], T!ResetTimerFd(S, d)
  PROVE  left' \in Nat /\ expired' \in BOOLEAN
<1>1. PICK x \in S : left' = IF d[x] > 0 THEN d[x] ELSE Grace
  BY DEF T!ResetTimerFd, T!First
<1>2. d[x] \in Int /\ Grace \in Nat
  BY ConstantsAssumption
<1>3. left' \in Nat
  BY <1>1, <1>2
<1>4. expired' = FALSE
  BY DEF T!ResetTimerFd
<1> QED
  BY <1>3, <1>4

\* A call adds its timeout.
LEMMA AddFacts ==
  ASSUME TimerTypes, NEW k \in Calls, T!AddTimerEvent(k, 0)
  PROVE  /\ TimerTypes'
         /\ mPendingEvents' = mPendingEvents \cup {k}
         /\ UNCHANGED <<outDateEvent, ran>>
<1>1. Timeout - 0 \in Int /\ [j \in Calls |-> Timeout][k] = Timeout
  BY ConstantsAssumption
<1>2. /\ due' = [due EXCEPT ![k] = Timeout - 0]
      /\ mPendingEvents' = mPendingEvents \cup {k}
      /\ \/ T!ResetTimerFd(mPendingEvents', due')
         \/ UNCHANGED <<left, expired>>
      /\ UNCHANGED <<outDateEvent, ran>>
  BY <1>1 DEF T!AddTimerEvent, T!Insert, T!fd
<1>3. due' \in [Calls -> Int] /\ mPendingEvents' \in SUBSET Calls
  BY <1>1, <1>2 DEF TimerTypes
<1>4. left' \in Nat /\ expired' \in BOOLEAN
  BY <1>2, <1>3, ArmFacts DEF TimerTypes
<1> QED
  BY <1>2, <1>3, <1>4 DEF TimerTypes

\* onTimer takes its batch.
LEMMA OnTimerFacts ==
  ASSUME TimerTypes, T!OnTimer
  PROVE  /\ TimerTypes'
         /\ outDateEvent = {}
         /\ outDateEvent' \subseteq mPendingEvents
         /\ mPendingEvents' = mPendingEvents \ outDateEvent'
         /\ ran' = ran
BY DEF T!OnTimer, TimerTypes

\* A timeout is run, and is not added again.
LEMMA RunFacts ==
  ASSUME TimerTypes, NEW k \in Calls, T!RunEvent(k)
  PROVE  /\ TimerTypes'
         /\ k \in outDateEvent /\ outDateEvent' = outDateEvent \ {k}
         /\ mPendingEvents' = mPendingEvents
         /\ ran' = [ran EXCEPT ![k] = 1 - @]
<1>1. [j \in Calls |-> FALSE][k] = FALSE
  OBVIOUS
<1> QED
  BY <1>1 DEF T!RunEvent, T!First, T!fd, TimerTypes

\* A tick moves no event.
LEMMA TickFacts ==
  ASSUME TimerTypes, T!Tick
  PROVE  TimerTypes' /\ UNCHANGED <<mPendingEvents, outDateEvent, ran>>
<1>1. due' \in [Calls -> Int]
  BY DEF T!Tick, TimerTypes
<1>2. left' \in Nat /\ expired' \in BOOLEAN
  BY DEF T!Tick, TimerTypes
<1> QED
  BY <1>1, <1>2 DEF T!Tick, TimerTypes

-----------------------------------------------------------------------------
(***************************************************************************)
(* Controllers and the beginning of a call.                                *)
(***************************************************************************)
Controllers == [mErrorCode : ErrorCodes, mMsgId : 0 .. MaxCalls, mIsFailed : BOOLEAN,
                mIsCanceled : BOOLEAN, mIsFinished : BOOLEAN]

\* What the member functions leave of a controller.
LEMMA ControllerFacts ==
  ASSUME NEW c \in Controllers, NEW id \in 0 .. MaxCalls, NEW code \in ErrorCodes
  PROVE  /\ Reset(c) \in Controllers /\ Reset(c) = NewController
         /\ Named(c, id) \in Controllers
         /\ Named(c, id) = [c EXCEPT !.mMsgId = Named(c, id).mMsgId]
         /\ SetFinished(c) \in Controllers
         /\ SetFinished(c).mErrorCode = c.mErrorCode
         /\ SetFinished(c).mIsFailed = c.mIsFailed
         /\ SetFinished(c).mIsFinished
         /\ Fail(c, code) \in Controllers
         /\ Fail(c, code).mErrorCode = code
         /\ Fail(c, code).mIsFailed /\ Fail(c, code).mIsFinished
<1>1. 0 \in 0 .. MaxCalls /\ "none" \in ErrorCodes
  BY ConstantsAssumption DEF ErrorCodes
<1>2. Reset(c) \in Controllers /\ Reset(c) = NewController
  BY <1>1 DEF Reset, NewController, Controllers
<1>3. /\ Named(c, id) \in Controllers
      /\ Named(c, id) = [c EXCEPT !.mMsgId = Named(c, id).mMsgId]
  BY DEF Named, SetMsgId, Controllers
<1>4. /\ SetFinished(c) \in Controllers
      /\ SetFinished(c).mErrorCode = c.mErrorCode
      /\ SetFinished(c).mIsFailed = c.mIsFailed
      /\ SetFinished(c).mIsFinished
  BY DEF SetFinished, Controllers
<1>5. /\ Fail(c, code) \in Controllers
      /\ Fail(c, code).mErrorCode = code
      /\ Fail(c, code).mIsFailed /\ Fail(c, code).mIsFinished
  BY DEF Fail, StartCancel, SetError, SetFinished, Controllers
<1> QED
  BY <1>2, <1>3, <1>4, <1>5

\* A call begins with a controller that is new, or an earlier call's, or that
\* after a Reset.
LEMMA BeginFacts ==
  ASSUME TypeOK, NEW c \in Usable, NEW state \in States(c), NEW id \in Ids,
         Begin(c, state, id)
  PROVE  /\ call' = call + 1 /\ call' \in Calls /\ call \in 0 .. MaxCalls
         /\ c \in Calls /\ state \in Controllers
         /\ Named(state, id) \in Controllers
         /\ Named(state, id).mErrorCode = state.mErrorCode
         /\ Named(state, id).mIsFailed = state.mIsFailed
         /\ Named(state, id).mIsFinished = state.mIsFinished
         /\ msgId' \in [Calls -> 0 .. MaxCalls]
         /\ controller' = [controller EXCEPT ![call + 1] = c]
         /\ controller' \in [Calls -> 0 .. MaxCalls]
         /\ clean' \in BOOLEAN
<1>1. call' = call + 1 /\ call' \in Calls /\ call \in 0 .. MaxCalls /\ c \in Calls
  <2>1. call' = call + 1 /\ call < MaxCalls /\ call \in 0 .. MaxCalls
    BY DEF Begin, TypeOK
  <2>2. MaxCalls \in Nat
    BY ConstantsAssumption
  <2> QED
    BY <2>1, <2>2 DEF Calls, Usable
<1>0. 0 \in 0 .. MaxCalls /\ "none" \in ErrorCodes
  BY ConstantsAssumption DEF ErrorCodes
<1>2. id \in 0 .. MaxCalls
  <2>1. msgId \in [Calls -> 0 .. MaxCalls] /\ call + 1 \in Calls
    BY <1>1 DEF TypeOK
  <2>2. call + 1 \in 0 .. MaxCalls /\ 1 .. call \subseteq Calls
    BY <1>1, ConstantsAssumption DEF Calls
  <2> QED
    BY <2>1, <2>2 DEF Ids
<1>3. mController[c] \in Controllers
  BY <1>1 DEF TypeOK, Controllers
<1>4. state \in Controllers
  BY <1>0, <1>3, ControllerFacts DEF States
<1>5. /\ Named(state, id) \in Controllers
      /\ Named(state, id) = [state EXCEPT !.mMsgId = Named(state, id).mMsgId]
  BY <1>0, <1>2, <1>4, ControllerFacts
<1>6. /\ Named(state, id).mErrorCode = state.mErrorCode
      /\ Named(state, id).mIsFailed = state.mIsFailed
      /\ Named(state, id).mIsFinished = state.mIsFinished
      /\ Named(state, id).mMsgId \in 0 .. MaxCalls
  BY <1>4, <1>5 DEF Controllers
<1>7. /\ msgId' \in [Calls -> 0 .. MaxCalls]
      /\ controller' = [controller EXCEPT ![call + 1] = c]
      /\ controller' \in [Calls -> 0 .. MaxCalls]
  BY <1>1, <1>6 DEF Begin, TypeOK, Calls
<1>8. clean' \in BOOLEAN
  BY DEF Begin
<1> QED
  BY <1>1, <1>4, <1>5, <1>6, <1>7, <1>8

-----------------------------------------------------------------------------
(***************************************************************************)
(* What is left as it is when the variables it speaks of are.              *)
(***************************************************************************)
\* What a finished call has come to.
LEMMA OutcomeKept ==
  ASSUME CleanCallIsAnswered, OutcomeIsTrue, ~InCall' => ~InCall,
         UNCHANGED <<result, mRecvBuffer, ran>>
  PROVE  CleanCallIsAnswered' /\ OutcomeIsTrue'
BY DEF CleanCallIsAnswered, OutcomeIsTrue, result

\* What the controller and the closure know.
LEMMA OwnOutcomeKept ==
  ASSUME OwnOutcome, UNCHANGED <<result, mPendingEvents, outDateEvent, ran>>
  PROVE  OwnOutcome'
BY DEF OwnOutcome, TimedOut, result

\* The request and its response.
LEMMA OwnResponseKept ==
  ASSUME OwnResponse, UNCHANGED <<call, request, mRecvBuffer, inbox, asked, rest>>
  PROVE  OwnResponse'
BY DEF OwnResponse

\* The loop and what it has received.
LEMMA LeftForAReasonKept ==
  ASSUME LeftForAReason, UNCHANGED <<tasks, inbox, eof, ran, call, mIsLooping, mRecvBuffer>>
  PROVE  LeftForAReason'
BY DEF LeftForAReason, Queued

\* The timer, when it is left alone.
LEMMA TimersKept ==
  ASSUME TypeOK, UNCHANGED timer
  PROVE  T!TypeOK'
BY TimerTyped, TimerTypedNext DEF TypeOK, TimerTypes, timer

-----------------------------------------------------------------------------
(***************************************************************************)
(* The user connects and disconnects, the server closes.                   *)
(***************************************************************************)
\* The first connect() of an idle channel.
LEMMA TCPConnectStep == ClientInv /\ TCPConnect => ClientInv'
<1> SUFFICES ASSUME ClientInv, TCPConnect PROVE ClientInv'
  OBVIOUS
<1>0. TypeOK /\ ConnectedIsReached /\ LoopInv /\ FailedIsFinished
  BY DEF ClientInv
<1>1. /\ pc = "idle" /\ mState = "NotConnected" /\ pc' \in {"idle", "connect", "exited"}
      /\ UNCHANGED <<timer, tasks, mIsLooping, woken, result, request, mRecvBuffer, ready, peer>>
  BY DEF TCPConnect
<1>2. ~InCall /\ ~InCall'
  BY <1>1 DEF InCall
<1>3. TypeOK'
  BY <1>0, <1>1, TimersKept DEF TypeOK, TCPConnect, timer, result, peer
<1>4. ConnectedIsReached'
  BY <1>0 DEF ConnectedIsReached, TCPConnect
<1>5. LoopInv' /\ FailedIsFinished'
  BY <1>0, <1>1, <1>2 DEF LoopInv, FailedIsFinished, timer, result
<1>6. CleanCallIsAnswered' /\ OutcomeIsTrue'
  BY <1>1, <1>2, OutcomeKept DEF ClientInv, timer
<1> QED
  BY <1>2, <1>3, <1>4, <1>5, <1>6 DEF ClientInv

\* The connection is believed only when the second connect() says so.
LEMMA ConnectAgainStep == ClientInv /\ ConnectAgain => ClientInv'
<1> SUFFICES ASSUME ClientInv, ConnectAgain PROVE ClientInv'
  OBVIOUS
<1>0. TypeOK /\ ConnectedIsReached /\ LoopInv /\ FailedIsFinished
  BY DEF ClientInv
<1>1. /\ pc = "connect" /\ pc' \in {"idle", "exited"}
      /\ UNCHANGED <<timer, tasks, mIsLooping, woken, result, request, mRecvBuffer, ready, peer>>
  BY DEF ConnectAgain
<1>2. ~InCall /\ ~InCall'
  BY <1>1 DEF InCall
<1>3. TypeOK'
  BY <1>0, <1>1, TimersKept DEF TypeOK, ConnectAgain, timer, result, peer
<1>4. ConnectedIsReached'
  BY <1>0 DEF ConnectedIsReached, ConnectAgain, Reached
<1>5. LoopInv' /\ FailedIsFinished'
  BY <1>0, <1>1, <1>2 DEF LoopInv, FailedIsFinished, timer, result
<1>6. CleanCallIsAnswered' /\ OutcomeIsTrue'
  BY <1>1, <1>2, OutcomeKept DEF ClientInv, timer
<1> QED
  BY <1>2, <1>3, <1>4, <1>5, <1>6 DEF ClientInv

\* Nothing is in a call when the user disconnects.
LEMMA TCPDisConnectStep == ClientInv /\ TCPDisConnect => ClientInv'
<1> SUFFICES ASSUME ClientInv, TCPDisConnect PROVE ClientInv'
  OBVIOUS
<1>0. TypeOK /\ ConnectedIsReached /\ LoopInv /\ FailedIsFinished
  BY DEF ClientInv
<1>1. pc = "idle" /\ UNCHANGED <<timer, loop, result, request, mRecvBuffer, peer>>
  BY DEF TCPDisConnect
<1>2. ~InCall /\ ~InCall'
  BY <1>1 DEF InCall, loop
<1>3. TypeOK'
  BY <1>0, <1>1, TimersKept DEF TypeOK, TCPDisConnect, timer, loop, result, peer
<1>4. ConnectedIsReached'
  BY DEF ConnectedIsReached, TCPDisConnect
<1>5. LoopInv' /\ FailedIsFinished'
  BY <1>0, <1>1, <1>2 DEF LoopInv, FailedIsFinished, timer, result, loop
<1>6. CleanCallIsAnswered' /\ OutcomeIsTrue'
  BY <1>1, <1>2, OutcomeKept DEF ClientInv, timer
<1> QED
  BY <1>2, <1>3, <1>4, <1>5, <1>6 DEF ClientInv

\* What the kernel and the server's FIN do is nothing to a call but an eof.
LEMMA OutsideStep ==
  ASSUME ClientInv, TypeOK', ConnectedIsReached',
         UNCHANGED <<timer, loop, result, mRecvBuffer, request, inbox, asked, rest>>,
         eof => eof'
  PROVE  ClientInv'
<1>0. LoopInv /\ FailedIsFinished /\ CleanCallIsAnswered /\ OutcomeIsTrue
  BY DEF ClientInv
<1>1. LoopInv' /\ FailedIsFinished'
  BY <1>0 DEF LoopInv, FailedIsFinished, timer, result, loop, InCall
<1>2. InCall' = InCall /\ clean' = clean
  BY DEF InCall, loop, result
<1>3. CleanCallIsAnswered' /\ OutcomeIsTrue'
  BY <1>0, <1>2, OutcomeKept DEF timer
<1>4. clean /\ InCall => OwnOutcome' /\ OwnResponse'
  BY OwnOutcomeKept, OwnResponseKept DEF ClientInv, timer, result
<1>5. clean /\ InCall => LeftForAReason'
  BY DEF ClientInv, LeftForAReason, Queued, timer, loop, result
<1> QED
  BY <1>1, <1>2, <1>3, <1>4, <1>5 DEF ClientInv

\* The kernel is through with connect().
LEMMA HandshakeStep == ClientInv /\ Handshake => ClientInv'
<1> SUFFICES ASSUME ClientInv, Handshake PROVE ClientInv'
  OBVIOUS
<1>1. TypeOK'
  BY TimersKept DEF ClientInv, TypeOK, Handshake, timer, loop, result, peer
<1>2. ConnectedIsReached'
  BY DEF ClientInv, ConnectedIsReached, Handshake
<1> QED
  BY <1>1, <1>2, OutsideStep DEF Handshake, peer

\* The server closes.
LEMMA CloseStep == ClientInv /\ Close => ClientInv'
<1> SUFFICES ASSUME ClientInv, Close PROVE ClientInv'
  OBVIOUS
<1>1. TypeOK'
  BY TimersKept DEF ClientInv, TypeOK, Close, timer, loop, result, peer
<1>2. ConnectedIsReached'
  BY DEF ClientInv, ConnectedIsReached, Close
<1> QED
  BY <1>1, <1>2, OutsideStep DEF Close

-----------------------------------------------------------------------------
(***************************************************************************)
(* The server answers, and time passes.                                    *)
(***************************************************************************)
\* One more piece of a response.
LEMMA PieceFacts ==
  ASSUME NEW received \in Seq(Pieces), NEW arrived \in Seq(Pieces), NEW piece \in Pieces
  PROVE  /\ Append(arrived, piece) \in Seq(Pieces) /\ Append(arrived, piece) # <<>>
         /\ received \o Append(arrived, piece) = Append(received \o arrived, piece)
OBVIOUS

\* A pair, one after the other.
LEMMA PairFacts ==
  ASSUME NEW head, NEW tail
  PROVE  Append(<<head>>, tail) = <<head, tail>>
<1> DEFINE S == {head, tail}
<1>1. <<head>> \in Seq(S) /\ Len(<<head>>) = 1 /\ <<head, tail>> \in Seq(S)
      /\ Len(<<head, tail>>) = 2
  OBVIOUS
<1>2. /\ Append(<<head>>, tail) \in Seq(S) /\ Len(Append(<<head>>, tail)) = 2
      /\ Append(<<head>>, tail)[1] = head /\ Append(<<head>>, tail)[2] = tail
  BY <1>1, AppendProperties
<1>3. \A i \in 1 .. 2 : Append(<<head>>, tail)[i] = <<head, tail>>[i]
  BY <1>2
<1>4. \A s, t \in Seq(S) : Len(s) = 2 /\ Len(t) = 2 /\ (\A i \in 1 .. 2 : s[i] = t[i]) => s = t
  BY SeqEqual
<1> HIDE DEF S
<1> QED
  BY <1>1, <1>2, <1>3, <1>4

\* A piece arrives that fits the request it answers.
LEMMA PieceStep ==
  ASSUME ClientInv, TypeOK', NEW piece \in Pieces, inbox' = Append(inbox, piece),
         UNCHANGED <<timer, loop, result, socket, mState, request, mRecvBuffer, eof>>,
         clean /\ InCall => OwnResponse'
  PROVE  ClientInv'
<1>0. TypeOK /\ ConnectedIsReached /\ LoopInv /\ FailedIsFinished
      /\ CleanCallIsAnswered /\ OutcomeIsTrue
  BY DEF ClientInv
<1>1. ConnectedIsReached' /\ LoopInv' /\ FailedIsFinished'
  BY <1>0 DEF ConnectedIsReached, LoopInv, FailedIsFinished, timer, result, loop, InCall
<1>2. InCall' = InCall /\ clean' = clean
  BY DEF InCall, loop, result
<1>3. CleanCallIsAnswered' /\ OutcomeIsTrue'
  BY <1>0, <1>2, OutcomeKept DEF timer
<1>4. clean /\ InCall => OwnOutcome'
  BY OwnOutcomeKept DEF ClientInv, timer, result
<1>5. inbox' # <<>>
  <2>1. inbox \in Seq(Pieces)
    BY <1>0 DEF TypeOK
  <2> QED
    BY <2>1
<1>6. clean /\ InCall => LeftForAReason'
  BY <1>5 DEF ClientInv, LeftForAReason, Queued, timer, loop, result
<1> QED
  BY <1>1, <1>2, <1>3, <1>4, <1>6 DEF ClientInv

\* The oldest request is answered, and in a clean call there is one.
LEMMA AnswerStep == ClientInv /\ Answer => ClientInv'
<1> SUFFICES ASSUME ClientInv, Answer PROVE ClientInv'
  OBVIOUS
<1>0. TypeOK
  BY DEF ClientInv
<1>1. /\ rest = 0 /\ asked # <<>> /\ asked' = Tail(asked)
      /\ UNCHANGED <<timer, loop, result, socket, mState, request, mRecvBuffer, eof>>
  BY DEF Answer
<1>2. /\ mRecvBuffer \in Seq(Pieces) /\ inbox \in Seq(Pieces) /\ asked \in Seq(Calls)
      /\ Head(asked) \in Calls /\ asked' \in Seq(Calls) /\ ready' \in BOOLEAN
  <2>1. /\ mRecvBuffer \in Seq(Pieces) /\ inbox \in Seq(Pieces) /\ asked \in Seq(Calls)
    BY <1>0 DEF TypeOK
  <2>2. ready' \in BOOLEAN
    BY DEF Answer, Arrive
  <2> QED
    BY <1>1, <2>1, <2>2
<1>3. PICK kind \in {"whole", "head"} :
        /\ inbox' = Append(inbox, <<Head(asked), kind>>)
        /\ rest' = IF kind = "whole" THEN rest ELSE Head(asked)
  BY DEF Answer, Arrive
<1>4. <<Head(asked), kind>> \in Pieces
  BY <1>2 DEF Pieces
<1>5. rest' \in 0 .. MaxCalls /\ inbox' \in Seq(Pieces)
  BY <1>0, <1>2, <1>3, <1>4 DEF TypeOK, Calls
<1>6. TypeOK'
  BY <1>0, <1>1, <1>2, <1>5, TimersKept DEF TypeOK, timer, loop, result
<1>7. ASSUME clean, InCall PROVE OwnResponse'
  <2>1. OwnResponse
    BY <1>7 DEF ClientInv
  <2>2. ~request /\ asked = <<call>> /\ mRecvBuffer \o inbox = <<>>
    BY <1>1, <2>1 DEF OwnResponse
  <2>3. Head(asked) = call /\ asked' = <<>>
    BY <1>1, <2>2
  <2>4. mRecvBuffer \o inbox' = <<<<call, kind>>>>
    BY <1>2, <1>3, <1>4, <2>2, <2>3, PieceFacts
  <2> QED
    BY <1>1, <1>3, <2>2, <2>3, <2>4 DEF OwnResponse, result
<1> QED
  BY <1>1, <1>3, <1>4, <1>6, <1>7, PieceStep

\* The second piece follows the first.
LEMMA AnswerRestStep == ClientInv /\ AnswerRest => ClientInv'
<1> SUFFICES ASSUME ClientInv, AnswerRest PROVE ClientInv'
  OBVIOUS
<1>0. TypeOK
  BY DEF ClientInv
<1>1. /\ rest # 0 /\ rest' = 0 /\ inbox' = Append(inbox, <<rest, "tail">>)
      /\ UNCHANGED <<timer, loop, result, socket, mState, request, mRecvBuffer, asked, eof>>
  BY DEF AnswerRest, Arrive
<1>2. /\ mRecvBuffer \in Seq(Pieces) /\ inbox \in Seq(Pieces) /\ rest \in 0 .. MaxCalls
      /\ ready' \in BOOLEAN /\ rest' \in 0 .. MaxCalls
  BY <1>0, <1>1, ConstantsAssumption DEF TypeOK, AnswerRest, Arrive
<1>4. <<rest, "tail">> \in Pieces
  BY <1>1, <1>2 DEF Pieces, Calls
<1>5. inbox' \in Seq(Pieces)
  BY <1>1, <1>2, <1>4
<1>6. TypeOK'
  BY <1>0, <1>1, <1>2, <1>5, TimersKept DEF TypeOK, timer, loop, result
<1>7. ASSUME clean, InCall PROVE OwnResponse'
  <2>1. OwnResponse
    BY <1>7 DEF ClientInv
  <2>2. ~request /\ asked = <<>> /\ rest = call /\ mRecvBuffer \o inbox = <<<<call, "head">>>>
    BY <1>1, <2>1 DEF OwnResponse
  <2>4. mRecvBuffer \o inbox' = <<<<call, "head">>, <<call, "tail">>>>
    <3>1. mRecvBuffer \o inbox' = Append(<<<<call, "head">>>>, <<call, "tail">>)
      <4>1. mRecvBuffer \o inbox' = Append(mRecvBuffer \o inbox, <<rest, "tail">>)
        BY <1>1, <1>2, <1>4, PieceFacts
      <4> QED
        BY <4>1, <2>2
    <3> QED
      BY <3>1, PairFacts
  <2> QED
    BY <1>1, <2>2, <2>4 DEF OwnResponse, result
<1> QED
  BY <1>1, <1>4, <1>6, <1>7, PieceStep

\* Time passes.
LEMMA TickStep == ClientInv /\ Tick => ClientInv'
<1> SUFFICES ASSUME ClientInv, Tick PROVE ClientInv'
  OBVIOUS
<1>0. /\ TypeOK /\ ConnectedIsReached /\ LoopInv /\ FailedIsFinished
      /\ CleanCallIsAnswered /\ OutcomeIsTrue
  BY DEF ClientInv
<1>1. TimerTypes' /\ UNCHANGED <<mPendingEvents, outDateEvent, ran, loop, result, conn, peer>>
  BY <1>0, TimerTyped, TickFacts DEF Tick, TypeOK
<1>2. TypeOK'
  <2>1. T!TypeOK'
    BY <1>1, TimerTypedNext
  <2> QED
    BY <1>0, <1>1, <2>1 DEF TypeOK, loop, result, conn, peer
<1>3. ConnectedIsReached' /\ LoopInv' /\ FailedIsFinished'
  BY <1>0, <1>1
     DEF ConnectedIsReached, LoopInv, FailedIsFinished, result, loop, conn, InCall
<1>4. InCall' = InCall /\ clean' = clean
  BY <1>1 DEF InCall, loop, result
<1>5. CleanCallIsAnswered' /\ OutcomeIsTrue'
  BY <1>0, <1>1, <1>4, OutcomeKept DEF conn
<1>6. clean /\ InCall => OwnOutcome' /\ OwnResponse' /\ LeftForAReason'
  BY <1>1, OwnOutcomeKept, OwnResponseKept, LeftForAReasonKept
     DEF ClientInv, loop, result, conn, peer
<1> QED
  BY <1>2, <1>3, <1>4, <1>5, <1>6 DEF ClientInv

-----------------------------------------------------------------------------
(***************************************************************************)
(* A call begins.                                                          *)
(***************************************************************************)
\* The state its controller is in, and what that says of errors.
LEMMA StateFacts ==
  ASSUME TypeOK, FailedIsFinished, NEW c \in Calls, NEW state \in States(c)
  PROVE  state.mIsFailed \/ state.mErrorCode # "none" => state.mIsFinished
BY DEF FailedIsFinished, States, Reset, NewController

\* The traces of the calls made, and of those to come.
LEMMA BeginLoopInv ==
  ASSUME TypeOK, LoopInv, NEW c \in Usable, NEW state \in States(c), NEW id \in Ids,
         Begin(c, state, id),
         NEW count, done' = [done EXCEPT ![call'] = count] \/ done' = done,
         NEW codes, seen' = [seen EXCEPT ![call'] = codes] \/ seen' = seen,
         given' = given, ran' = ran, outDateEvent' = outDateEvent,
         mPendingEvents' = mPendingEvents \/ mPendingEvents' = mPendingEvents \cup {call'},
         pc' \in {"idle", "run", "crashed"}
  PROVE  LoopInv'
<1>1. /\ call' = call + 1 /\ call' \in Calls /\ call \in 0 .. MaxCalls /\ c \in Calls
      /\ controller' = [controller EXCEPT ![call + 1] = c]
  BY BeginFacts
<1>2. Calls \subseteq Nat \ {0} /\ call \in Nat
  BY <1>1 DEF Calls
<1>3. outDateEvent = {} /\ pc = "idle"
  BY DEF LoopInv, Begin
<1>4. ASSUME NEW k \in mPendingEvents' \cup outDateEvent'
      PROVE  k <= call' /\ ran'[k] = 0
  <2>1. mPendingEvents \subseteq Calls
    BY TimerTyped DEF TypeOK, TimerTypes
  <2>2. CASE k = call'
    BY <1>1, <1>2, <2>2 DEF LoopInv
  <2>3. CASE k # call'
    <3>1. k \in mPendingEvents /\ k \in Calls
      BY <1>3, <1>4, <2>1, <2>3
    <3>2. k <= call /\ ran[k] = 0
      BY <3>1 DEF LoopInv
    <3> QED
      BY <1>1, <1>2, <3>1, <3>2
  <2> QED
    BY <2>2, <2>3
<1>5. \A k \in 1 .. call' : controller'[k] # 0
  BY <1>1, <1>2 DEF LoopInv, TypeOK, Calls
<1>6. ASSUME NEW k \in Calls, k > call'
      PROVE  ran'[k] = 0 /\ done'[k] = 0 /\ seen'[k] = {} /\ given'[k] = {}
  <2>1. k > call /\ k # call'
    BY <1>1, <1>2, <1>6
  <2>2. ran[k] = 0 /\ done[k] = 0 /\ seen[k] = {} /\ given[k] = {}
    BY <2>1 DEF LoopInv
  <2> QED
    BY <2>1, <2>2 DEF TypeOK
<1>7. call' > 0
  BY <1>1, <1>2
<1> QED
  BY <1>3, <1>4, <1>5, <1>6, <1>7 DEF LoopInv

\* A call that is not sent ends at once, with an error.
LEMMA CannotSerializeStep ==
  ASSUME ClientInv, NEW c \in Usable, NEW state \in States(c), NEW id \in Ids,
         CannotSerialize(c, state, id)
  PROVE  ClientInv'
<1>0. TypeOK /\ ConnectedIsReached /\ LoopInv /\ FailedIsFinished
  BY DEF ClientInv
<1> DEFINE failed == Fail(Named(state, id), "failed")
<1>1. /\ Begin(c, state, id)
      /\ mController' = [mController EXCEPT ![c] = failed]
      /\ done' = [done EXCEPT ![call'] = 1]
      /\ seen' = [seen EXCEPT ![call'] = {"failed"}]
      /\ UNCHANGED <<timer, loop, given, conn, peer>>
  BY DEF CannotSerialize
<1>2. /\ call' = call + 1 /\ call' \in Calls /\ call \in 0 .. MaxCalls /\ c \in Calls
      /\ Named(state, id) \in Controllers
      /\ msgId' \in [Calls -> 0 .. MaxCalls]
      /\ controller' = [controller EXCEPT ![call + 1] = c]
      /\ controller' \in [Calls -> 0 .. MaxCalls]
      /\ clean' \in BOOLEAN
  BY <1>0, <1>1, BeginFacts
<1>3. "failed" \in ErrorCodes /\ 0 \in 0 .. MaxCalls
  BY ConstantsAssumption DEF ErrorCodes
<1>4. failed \in Controllers /\ failed.mIsFailed /\ failed.mIsFinished
  BY <1>2, <1>3, ControllerFacts
<1> HIDE DEF failed
<1>5. mController' \in [Calls -> Controllers]
  BY <1>0, <1>1, <1>2, <1>4 DEF TypeOK, Controllers
<1>6. done' \in [Calls -> Nat] /\ seen' \in [Calls -> SUBSET ErrorCodes]
  BY <1>0, <1>1, <1>3 DEF TypeOK
<1>7. T!TypeOK'
  BY <1>0, <1>1, TimersKept DEF loop
<1>8. call' \in 0 .. MaxCalls
  BY <1>2 DEF Calls
<1>9. TypeOK'
  BY <1>0, <1>1, <1>2, <1>5, <1>6, <1>7, <1>8 DEF TypeOK, Controllers, loop, conn, peer
<1>10. pc = "idle" /\ pc' = "idle" /\ ~InCall'
  BY <1>1 DEF Begin, loop, InCall
<1>11. LoopInv'
  BY <1>0, <1>1, <1>10, BeginLoopInv DEF timer
<1>12. ConnectedIsReached' /\ FailedIsFinished'
  BY <1>0, <1>1, <1>2, <1>4 DEF ConnectedIsReached, FailedIsFinished, TypeOK, conn
<1>13. /\ done'[call'] = 1 /\ seen'[call'] = {"failed"}
       /\ given'[call'] = {} /\ controller'[call'] = c /\ mController'[c] = failed
  <2>1. call' > call
    BY <1>2
  <2>2. given[call'] = {}
    BY <1>0, <1>2, <2>1 DEF LoopInv
  <2> QED
    BY <1>0, <1>1, <1>2, <2>2 DEF TypeOK
<1>14. CleanCallIsAnswered' /\ OutcomeIsTrue'
  BY <1>4, <1>13 DEF CleanCallIsAnswered, OutcomeIsTrue
<1> QED
  BY <1>9, <1>10, <1>11, <1>12, <1>14 DEF ClientInv

\* A call that is sent begins with its request and its timeout.
LEMMA OneCallStep ==
  ASSUME ClientInv, NEW c \in Usable, NEW state \in States(c), NEW id \in Ids,
         OneCall(c, state, id)
  PROVE  ClientInv'
<1>0. TypeOK /\ ConnectedIsReached /\ LoopInv /\ FailedIsFinished
  BY DEF ClientInv
<1> DEFINE named == Named(state, id)
<1>1. /\ Begin(c, state, id)
      /\ mController' = [mController EXCEPT ![c] = named]
      /\ T!AddTimerEvent(call', 0)
      /\ UNCHANGED <<tasks, woken, done, seen, given, socket, mState, mRecvBuffer, peer>>
      /\ \/ /\ mState = "Connected"
            /\ request' = TRUE /\ ready' = TRUE /\ mIsLooping' = TRUE /\ pc' = "run"
         \/ /\ mState # "Connected"
            /\ pc' = "crashed"
            /\ UNCHANGED <<request, ready, mIsLooping>>
  BY DEF OneCall
<1>2. /\ call' = call + 1 /\ call' \in Calls /\ call \in 0 .. MaxCalls /\ c \in Calls
      /\ named \in Controllers
      /\ named.mErrorCode = state.mErrorCode
      /\ named.mIsFailed = state.mIsFailed
      /\ named.mIsFinished = state.mIsFinished
      /\ msgId' \in [Calls -> 0 .. MaxCalls]
      /\ controller' = [controller EXCEPT ![call + 1] = c]
      /\ controller' \in [Calls -> 0 .. MaxCalls]
      /\ clean' \in BOOLEAN
  BY <1>0, <1>1, BeginFacts
<1> HIDE DEF named
<1>3. state.mIsFailed \/ state.mErrorCode # "none" => state.mIsFinished
  BY <1>0, <1>2, StateFacts
<1>4. TimerTypes
  BY <1>0, TimerTyped DEF TypeOK
<1>5. /\ TimerTypes' /\ mPendingEvents' = mPendingEvents \cup {call'}
      /\ UNCHANGED <<outDateEvent, ran>>
  BY <1>1, <1>2, <1>4, AddFacts
<1>6. T!TypeOK'
  BY <1>5, TimerTypedNext
<1>7. call' \in 0 .. MaxCalls /\ mController' \in [Calls -> Controllers]
  BY <1>0, <1>1, <1>2 DEF TypeOK, Controllers, Calls
<1>8. TypeOK'
  BY <1>0, <1>1, <1>2, <1>6, <1>7 DEF TypeOK, Controllers, peer
<1>9. LoopInv'
  BY <1>0, <1>1, <1>5, BeginLoopInv
<1>10. ConnectedIsReached' /\ FailedIsFinished'
  BY <1>0, <1>1, <1>2, <1>3 DEF ConnectedIsReached, FailedIsFinished, TypeOK
<1>11. clean' => NothingLeft /\ mState = "Connected" /\ Unused(c, state)
  BY <1>1 DEF Begin
<1>12. /\ controller'[call'] = c /\ mController'[c] = named /\ given'[call'] = {}
       /\ done'[call'] = 0 /\ ran'[call'] = 0 /\ seen'[call'] = {}
       /\ outDateEvent' = {}
  BY <1>0, <1>1, <1>2, <1>5 DEF TypeOK, LoopInv, Calls, Begin
<1>13. ASSUME clean' PROVE OwnOutcome'
  <2>1. ASSUME NEW k \in (mPendingEvents' \cup outDateEvent') \ {call'}
        PROVE  controller'[k] # controller'[call'] /\ ~TimedOut(k)'
    <3>1. k \in mPendingEvents /\ k \in Calls /\ k <= call /\ k \in 1 .. call
      BY <1>0, <1>4, <1>5, <1>12, <2>1 DEF LoopInv, TimerTypes, Calls
    <3>2. controller[k] # c /\ controller[k] \in Calls
      <4>1. controller[k] # c
        BY <1>11, <1>13, <3>1 DEF Unused
      <4>2. controller[k] \in 0 .. MaxCalls /\ controller[k] # 0
        BY <1>0, <3>1 DEF LoopInv, TypeOK
      <4> QED
        BY <4>1, <4>2, ConstantsAssumption DEF Calls
    <3>3. mController[controller[k]].mIsFinished
      BY <1>11, <1>13, <3>1 DEF NothingLeft
    <3>4. controller'[k] = controller[k]
      BY <1>0, <1>2, <3>1 DEF TypeOK, Calls
    <3>5. mController'[controller[k]] = mController[controller[k]]
      BY <1>0, <1>1, <3>2 DEF TypeOK
    <3> QED
      BY <1>12, <3>2, <3>3, <3>4, <3>5 DEF TimedOut
  <2>2. ~named.mIsFinished /\ ~named.mIsFailed /\ named.mErrorCode = "none"
    BY <1>2, <1>3, <1>11, <1>13 DEF Unused
  <2>3. named.mIsFailed \in BOOLEAN /\ named.mIsFinished \in BOOLEAN
    BY <1>2 DEF Controllers
  <2> QED
    BY <1>12, <2>1, <2>2, <2>3 DEF OwnOutcome
<1>14. ASSUME clean', pc' = "run" PROVE OwnResponse' /\ LeftForAReason'
  <2>1. /\ mRecvBuffer = <<>> /\ inbox = <<>> /\ asked = <<>> /\ rest = 0
        /\ ToSet(tasks) \subseteq {"wake"}
    BY <1>11, <1>14 DEF NothingLeft
  <2>2. <<>> \o <<>> = <<>>
    OBVIOUS
  <2>3. OwnResponse'
    BY <1>1, <1>14, <2>1, <2>2 DEF OwnResponse, peer
  <2>4. LeftForAReason'
    BY <1>1, <1>14, <2>1 DEF LeftForAReason, Queued, ToSet
  <2> QED
    BY <2>3, <2>4
<1>15. CASE mState = "Connected"
  BY <1>1, <1>8, <1>9, <1>10, <1>13, <1>14, <1>15
     DEF ClientInv, InCall, CleanCallIsAnswered, OutcomeIsTrue
<1>16. CASE mState # "Connected"
  BY <1>1, <1>8, <1>9, <1>10, <1>11, <1>16
     DEF ClientInv, InCall, CleanCallIsAnswered, OutcomeIsTrue
<1> QED
  BY <1>15, <1>16

\* A call begins.
LEMMA CallMethodStep == ClientInv /\ CallMethod => ClientInv'
BY CannotSerializeStep, OneCallStep DEF CallMethod

-----------------------------------------------------------------------------
(***************************************************************************)
(* The loop and its callbacks.                                             *)
(***************************************************************************)
\* The first callback is taken from the queue, and only one of them reads.
LEMMA TakeFacts ==
  ASSUME TypeOK, NEW task, Take(task)
  PROVE  /\ tasks' \in Seq(Tasks) /\ pc = "run" /\ outDateEvent = {}
         /\ Queued(task)
         /\ \A other : Queued(other)' => Queued(other)
         /\ LeftForAReason => \A i, j \in DOMAIN tasks' :
                                tasks'[i] = "read" /\ tasks'[j] = "read" => i = j
         /\ LeftForAReason /\ task = "read" => ~Queued("read")'
<1>1. /\ tasks \in Seq(Tasks) /\ tasks # <<>> /\ tasks[1] = task /\ tasks' = Tail(tasks)
      /\ pc = "run" /\ outDateEvent = {}
  BY DEF TypeOK, Take
<1>2. /\ tasks' \in Seq(Tasks) /\ Len(tasks) \in Nat \ {0} /\ Len(tasks') = Len(tasks) - 1
      /\ DOMAIN tasks = 1 .. Len(tasks) /\ DOMAIN tasks' = 1 .. Len(tasks')
      /\ \A i \in DOMAIN tasks' : tasks'[i] = tasks[i + 1] /\ i + 1 \in DOMAIN tasks
  BY <1>1
<1>3. Queued(task)
  BY <1>1, <1>2 DEF Queued, ToSet
<1>4. ASSUME NEW other, Queued(other)' PROVE Queued(other)
  BY <1>2, <1>4 DEF Queued, ToSet
<1>5. ASSUME LeftForAReason, NEW i \in DOMAIN tasks', NEW j \in DOMAIN tasks',
             tasks'[i] = "read", tasks'[j] = "read"
      PROVE  i = j
  <2>1. i + 1 = j + 1
    BY <1>2, <1>5 DEF LeftForAReason
  <2> QED
    BY <1>2, <2>1
<1>6. ASSUME LeftForAReason, task = "read", Queued("read")' PROVE FALSE
  <2>1. PICK i \in DOMAIN tasks' : tasks'[i] = "read"
    BY <1>6 DEF Queued, ToSet
  <2>2. i + 1 = 1
    BY <1>1, <1>2, <1>6, <2>1 DEF LeftForAReason
  <2> QED
    BY <1>2, <2>2
<1> QED
  BY <1>1, <1>2, <1>3, <1>4, <1>5, <1>6

\* The loop's invariant, when a callback is run that leaves the calls alone.
LEMMA RunLoopInv ==
  ASSUME LoopInv, pc = "run", pc' = "run",
         UNCHANGED <<mPendingEvents, outDateEvent, ran, call, controller, done, seen, given>>
  PROVE  LoopInv' /\ InCall /\ InCall'
BY DEF LoopInv, InCall

\* A callback that does nothing to the calls or the connection.
LEMMA TakeStep ==
  ASSUME ClientInv, NEW task, Take(task), woken' \in BOOLEAN,
         UNCHANGED <<timer, pc, mIsLooping, result, conn, peer>>
  PROVE  ClientInv'
<1>0. TypeOK /\ ConnectedIsReached /\ LoopInv /\ FailedIsFinished
  BY DEF ClientInv
<1>1. /\ tasks' \in Seq(Tasks) /\ pc = "run"
      /\ Queued("read")' => Queued("read")
      /\ LeftForAReason => \A i, j \in DOMAIN tasks' :
                             tasks'[i] = "read" /\ tasks'[j] = "read" => i = j
  BY <1>0, TakeFacts
<1>2. TypeOK'
  BY <1>0, <1>1, TimersKept DEF TypeOK, timer, result, conn, peer
<1>3. LoopInv' /\ InCall /\ InCall'
  BY <1>0, <1>1, RunLoopInv DEF timer, result
<1>4. ConnectedIsReached' /\ FailedIsFinished'
  BY <1>0 DEF ConnectedIsReached, FailedIsFinished, result, conn
<1>5. clean' => OwnOutcome' /\ OwnResponse'
  BY <1>3, OwnOutcomeKept, OwnResponseKept DEF ClientInv, timer, result, conn, peer
<1>6. clean' => LeftForAReason'
  BY <1>1, <1>3 DEF ClientInv, LeftForAReason, timer, result, conn, peer
<1> QED
  BY <1>2, <1>3, <1>4, <1>5, <1>6 DEF ClientInv, CleanCallIsAnswered, OutcomeIsTrue

\* The eventfd is read.
LEMMA RunWakeUpStep == ClientInv /\ RunWakeUp => ClientInv'
BY TakeStep DEF RunWakeUp

\* onRead and onWrite of a closed connection return at once.
LEMMA CallbackOfClosedStep == ClientInv /\ CallbackOfClosed => ClientInv'
<1> SUFFICES ASSUME ClientInv, CallbackOfClosed PROVE ClientInv'
  OBVIOUS
<1>1. woken' \in BOOLEAN
  BY DEF ClientInv, TypeOK, CallbackOfClosed
<1> QED
  BY <1>1, TakeStep DEF CallbackOfClosed

\* What arrived is added to what was received.
LEMMA ReceiveFacts ==
  ASSUME NEW received \in Seq(Pieces), NEW arrived \in Seq(Pieces)
  PROVE  /\ received \o arrived \in Seq(Pieces)
         /\ (received \o arrived) \o <<>> = received \o arrived
         /\ received # <<>> \/ arrived # <<>> => received \o arrived # <<>>
OBVIOUS

\* What was read stays, and is a reason to leave the loop.
LEMMA OnReadStep == ClientInv /\ OnRead => ClientInv'
<1> SUFFICES ASSUME ClientInv, OnRead PROVE ClientInv'
  OBVIOUS
<1>0. TypeOK /\ ConnectedIsReached /\ LoopInv /\ FailedIsFinished
  BY DEF ClientInv
<1>1. /\ Take("read") /\ mState = "Connected"
      /\ mRecvBuffer' = mRecvBuffer \o inbox /\ inbox' = <<>>
      /\ UNCHANGED <<timer, pc, result, socket, request, eof, asked, rest>>
  BY DEF OnRead
<1>2. /\ tasks' \in Seq(Tasks) /\ pc = "run" /\ Queued("read")
      /\ LeftForAReason => \A i, j \in DOMAIN tasks' :
                             tasks'[i] = "read" /\ tasks'[j] = "read" => i = j
      /\ LeftForAReason => ~Queued("read")'
  BY <1>0, <1>1, TakeFacts
<1>3. /\ mRecvBuffer \in Seq(Pieces) /\ inbox \in Seq(Pieces) /\ inbox' \in Seq(Pieces)
      /\ mRecvBuffer' \in Seq(Pieces) /\ mRecvBuffer' \o inbox' = mRecvBuffer \o inbox
      /\ mRecvBuffer # <<>> \/ inbox # <<>> => mRecvBuffer' # <<>>
  BY <1>0, <1>1, ReceiveFacts DEF TypeOK
<1>4. /\ mState' \in {"Connected", "Closed"}
      /\ {mIsLooping', woken', ready'} \subseteq BOOLEAN
      /\ eof \/ ~mIsLooping'
      /\ eof => UNCHANGED mIsLooping
  BY <1>0, <1>1 DEF TypeOK, OnRead, Stop
<1>5. TypeOK'
  BY <1>0, <1>1, <1>2, <1>3, <1>4, TimersKept DEF TypeOK, timer, result
<1>6. LoopInv' /\ InCall /\ InCall'
  BY <1>0, <1>1, <1>2, RunLoopInv DEF timer, result
<1>7. ConnectedIsReached' /\ FailedIsFinished'
  BY <1>0, <1>1, <1>4 DEF ConnectedIsReached, FailedIsFinished, result
<1>8. clean' => OwnOutcome'
  BY <1>1, <1>6, OwnOutcomeKept DEF ClientInv, timer, result
<1>9. clean' => OwnResponse'
  BY <1>1, <1>3, <1>6 DEF ClientInv, OwnResponse, result
<1>10. ASSUME clean' PROVE LeftForAReason'
  <2>1. LeftForAReason
    BY <1>1, <1>6, <1>10 DEF ClientInv, result
  <2>2. ran[call] = 0 /\ ~mIsLooping' => mRecvBuffer' # <<>>
    BY <1>2, <1>3, <1>4, <2>1 DEF LeftForAReason
  <2> QED
    BY <1>1, <1>2, <2>1, <2>2 DEF LeftForAReason, timer, result
<1> QED
  BY <1>5, <1>6, <1>7, <1>8, <1>9, <1>10 DEF ClientInv, CleanCallIsAnswered, OutcomeIsTrue

\* The request is with the server.
LEMMA OnWriteStep == ClientInv /\ OnWrite => ClientInv'
<1> SUFFICES ASSUME ClientInv, OnWrite PROVE ClientInv'
  OBVIOUS
<1>0. TypeOK /\ ConnectedIsReached /\ LoopInv /\ FailedIsFinished
  BY DEF ClientInv
<1>1. /\ Take("write") /\ request' = FALSE
      /\ asked' = IF request THEN Append(asked, call) ELSE asked
      /\ ready' = (ready \/ inbox # <<>> \/ eof)
      /\ UNCHANGED <<timer, pc, mIsLooping, woken, result, socket, mState, mRecvBuffer,
                     inbox, eof, rest>>
  BY DEF OnWrite
<1>2. /\ tasks' \in Seq(Tasks) /\ pc = "run"
      /\ Queued("read")' => Queued("read")
      /\ LeftForAReason => \A i, j \in DOMAIN tasks' :
                             tasks'[i] = "read" /\ tasks'[j] = "read" => i = j
  BY <1>0, <1>1, TakeFacts
<1>3. LoopInv' /\ InCall /\ InCall'
  BY <1>0, <1>1, <1>2, RunLoopInv DEF timer, result
<1>4. asked' \in Seq(Calls)
  <2>1. asked \in Seq(Calls) /\ call \in Calls
    BY <1>0, <1>3 DEF TypeOK, LoopInv, Calls
  <2> QED
    BY <1>1, <2>1
<1>5. TypeOK'
  BY <1>0, <1>1, <1>2, <1>4, TimersKept DEF TypeOK, timer, result
<1>6. ConnectedIsReached' /\ FailedIsFinished'
  BY <1>0, <1>1 DEF ConnectedIsReached, FailedIsFinished, result
<1>7. clean' => OwnOutcome'
  BY <1>1, <1>3, OwnOutcomeKept DEF ClientInv, timer, result
<1>8. ASSUME clean' PROVE OwnResponse'
  <2>1. OwnResponse
    BY <1>1, <1>3, <1>8 DEF ClientInv, result
  <2>2. CASE request
    <3>1. asked = <<>> /\ Append(<<>>, call) = <<call>>
      BY <2>1, <2>2 DEF OwnResponse
    <3> QED
      BY <1>1, <2>1, <2>2, <3>1 DEF OwnResponse, result
  <2>3. CASE ~request
    BY <1>1, <2>1, <2>3 DEF OwnResponse, result
  <2> QED
    BY <2>2, <2>3
<1>9. clean' => LeftForAReason'
  BY <1>1, <1>2, <1>3 DEF ClientInv, LeftForAReason, timer, result
<1> QED
  BY <1>3, <1>5, <1>6, <1>7, <1>8, <1>9 DEF ClientInv, CleanCallIsAnswered, OutcomeIsTrue

\* Events that are due change hands.
LEMMA OnTimerStep == ClientInv /\ OnTimer => ClientInv'
<1> SUFFICES ASSUME ClientInv, OnTimer PROVE ClientInv'
  OBVIOUS
<1>0. TypeOK /\ ConnectedIsReached /\ LoopInv /\ FailedIsFinished
  BY DEF ClientInv
<1>1. /\ Take("timer") /\ T!OnTimer
      /\ UNCHANGED <<pc, mIsLooping, woken, result, conn, peer>>
  BY DEF OnTimer
<1>2. /\ tasks' \in Seq(Tasks) /\ pc = "run"
      /\ Queued("read")' => Queued("read")
      /\ LeftForAReason => \A i, j \in DOMAIN tasks' :
                             tasks'[i] = "read" /\ tasks'[j] = "read" => i = j
  BY <1>0, <1>1, TakeFacts
<1>3. /\ TimerTypes' /\ outDateEvent = {} /\ outDateEvent' \subseteq mPendingEvents
      /\ mPendingEvents' = mPendingEvents \ outDateEvent' /\ ran' = ran
  BY <1>0, <1>1, TimerTyped, OnTimerFacts DEF TypeOK
<1>4. mPendingEvents' \cup outDateEvent' = mPendingEvents \cup outDateEvent
  BY <1>3
<1>5. TypeOK'
  BY <1>0, <1>1, <1>2, <1>3, TimerTypedNext DEF TypeOK, result, conn, peer
<1>6. InCall /\ InCall' /\ call' > 0
  BY <1>0, <1>1, <1>2 DEF InCall, LoopInv, result
<1>7. LoopInv'
  BY <1>0, <1>1, <1>2, <1>3, <1>4, <1>6 DEF LoopInv, result
<1>8. ConnectedIsReached' /\ FailedIsFinished'
  BY <1>0, <1>1 DEF ConnectedIsReached, FailedIsFinished, result, conn
<1>9. clean' => OwnOutcome'
  BY <1>1, <1>3, <1>4, <1>6 DEF ClientInv, OwnOutcome, TimedOut, result
<1>10. clean' => OwnResponse'
  BY <1>1, <1>6, OwnResponseKept DEF ClientInv, result, conn, peer
<1>11. clean' => LeftForAReason'
  BY <1>1, <1>2, <1>3, <1>6 DEF ClientInv, LeftForAReason, result, conn, peer
<1> QED
  BY <1>5, <1>6, <1>7, <1>8, <1>9, <1>10, <1>11 DEF ClientInv, CleanCallIsAnswered, OutcomeIsTrue

\* The event that runs is of a call that was made, has not run before, and has
\* a controller.
LEMMA EventFacts ==
  ASSUME TypeOK, LoopInv, NEW k \in Calls, T!RunEvent(k)
  PROVE  /\ TimerTypes' /\ pc = "run" /\ InCall /\ call \in Calls
         /\ k \in outDateEvent /\ k <= call /\ ran[k] = 0 /\ controller[k] \in Calls
         /\ outDateEvent' = outDateEvent \ {k} /\ mPendingEvents' = mPendingEvents
         /\ k \notin mPendingEvents
         /\ ran' = [ran EXCEPT ![k] = 1] /\ ran \in [Calls -> 0 .. 1]
<1>1. TimerTypes
  BY TimerTyped DEF TypeOK
<1>2. /\ TimerTypes' /\ k \in outDateEvent /\ outDateEvent' = outDateEvent \ {k}
      /\ mPendingEvents' = mPendingEvents /\ ran' = [ran EXCEPT ![k] = 1 - @]
  BY <1>1, RunFacts
<1>3. pc = "run" /\ InCall /\ k <= call /\ ran[k] = 0 /\ k \notin mPendingEvents
  BY <1>2 DEF LoopInv, InCall
<1>4. call \in Calls /\ k \in 1 .. call
  BY <1>3 DEF LoopInv, TypeOK, Calls
<1>5. controller[k] # 0 /\ controller[k] \in 0 .. MaxCalls
  BY <1>4 DEF LoopInv, TypeOK
<1>6. controller[k] \in Calls
  BY <1>5, ConstantsAssumption DEF Calls
<1>7. 1 - 0 = 1
  OBVIOUS
<1>8. ran' = [ran EXCEPT ![k] = 1] /\ ran \in [Calls -> 0 .. 1]
  BY <1>1, <1>2, <1>3, <1>7 DEF TimerTypes
<1> QED
  BY <1>2, <1>3, <1>4, <1>6, <1>8

\* In a clean call, only the timeout of that call has an effect.
LEMMA RunEventStep ==
  ASSUME ClientInv, NEW k \in Calls, RunEvent(k)
  PROVE  ClientInv'
<1>0. TypeOK /\ ConnectedIsReached /\ LoopInv /\ FailedIsFinished
  BY DEF ClientInv
<1> DEFINE c == controller[k]
           failed == Fail(mController[c], "timeout")
<1>1. /\ UNCHANGED <<pc, tasks, call, msgId, controller, given, clean, conn, peer>>
      /\ T!RunEvent(k)
      /\ \/ /\ ~TimedOut(k)
            /\ UNCHANGED <<done, mController, seen, mIsLooping, woken>>
         \/ /\ TimedOut(k)
            /\ mController' = [mController EXCEPT ![c] = failed]
            /\ done' = [done EXCEPT ![k] = @ + 1]
            /\ seen' = [seen EXCEPT ![k] = @ \cup {"timeout"}]
            /\ mIsLooping' = FALSE /\ woken' = (woken \/ mIsLooping)
  BY DEF RunEvent, StopEventLoop, Stop
<1>2. /\ TimerTypes' /\ pc = "run" /\ InCall /\ call \in Calls
      /\ k \in outDateEvent /\ k <= call /\ ran[k] = 0 /\ c \in Calls
      /\ outDateEvent' = outDateEvent \ {k} /\ mPendingEvents' = mPendingEvents
      /\ k \notin mPendingEvents
      /\ ran' = [ran EXCEPT ![k] = 1] /\ ran \in [Calls -> 0 .. 1]
  BY <1>0, <1>1, EventFacts
<1>3. "timeout" \in ErrorCodes /\ 0 \in 0 .. MaxCalls
  BY ConstantsAssumption DEF ErrorCodes
<1>4. /\ failed \in Controllers /\ failed.mErrorCode = "timeout"
      /\ failed.mIsFailed /\ failed.mIsFinished
  <2>1. mController[c] \in Controllers
    BY <1>0, <1>2 DEF TypeOK, Controllers
  <2> QED
    BY <1>3, <2>1, ControllerFacts
<1> HIDE DEF failed, c
<1>5. /\ mController' \in [Calls -> Controllers]
      /\ done' \in [Calls -> Nat] /\ seen' \in [Calls -> SUBSET ErrorCodes]
      /\ {mIsLooping', woken'} \subseteq BOOLEAN
  <2>1. /\ mController \in [Calls -> Controllers] /\ done \in [Calls -> Nat]
        /\ seen \in [Calls -> SUBSET ErrorCodes] /\ {mIsLooping, woken} \subseteq BOOLEAN
    BY <1>0 DEF TypeOK, Controllers
  <2>2. CASE TimedOut(k)
    <3>1. /\ mController' = [mController EXCEPT ![c] = failed]
          /\ done' = [done EXCEPT ![k] = @ + 1]
          /\ seen' = [seen EXCEPT ![k] = @ \cup {"timeout"}]
          /\ mIsLooping' = FALSE /\ woken' = (woken \/ mIsLooping)
      BY <1>1, <2>2
    <3>2. {mIsLooping', woken'} \subseteq BOOLEAN
      BY <3>1
    <3>3. mController' \in [Calls -> Controllers]
      BY <1>4, <2>1, <3>1
    <3>4. done' \in [Calls -> Nat]
      BY <2>1, <3>1
    <3>5. seen' \in [Calls -> SUBSET ErrorCodes]
      BY <1>3, <2>1, <3>1
    <3> QED
      BY <3>2, <3>3, <3>4, <3>5
  <2>3. CASE ~TimedOut(k)
    BY <1>1, <2>1, <2>3
  <2> QED
    BY <2>2, <2>3
<1>6. TypeOK'
  BY <1>0, <1>1, <1>2, <1>5, TimerTypedNext DEF TypeOK, Controllers, conn, peer
<1>7. InCall' /\ pc' = "run"
  BY <1>1, <1>2 DEF InCall
<1>8. LoopInv'
  <2>1. ASSUME NEW j \in mPendingEvents' \cup outDateEvent'
        PROVE  j <= call' /\ ran'[j] = 0
    <3>1. j \in mPendingEvents \cup outDateEvent /\ j # k
      BY <1>2
    <3>2. j <= call /\ ran[j] = 0
      BY <1>0, <3>1 DEF LoopInv
    <3> QED
      BY <1>1, <1>2, <3>1, <3>2
  <2>2. ASSUME NEW j \in Calls, j > call'
        PROVE  ran'[j] = 0 /\ done'[j] = 0 /\ seen'[j] = {} /\ given'[j] = {}
    <3>1. j > call /\ j # k
      BY <1>1, <1>2, <2>2 DEF Calls
    <3>2. ran[j] = 0 /\ done[j] = 0 /\ seen[j] = {} /\ given[j] = {}
      BY <1>0, <3>1 DEF LoopInv
    <3> QED
      BY <1>0, <1>1, <1>2, <3>1, <3>2 DEF TypeOK
  <2>3. mPendingEvents' \cap outDateEvent' = {}
    BY <1>0, <1>2 DEF LoopInv
  <2>4. \A j \in 1 .. call' : controller'[j] # 0
    BY <1>0, <1>1 DEF LoopInv
  <2>5. call' > 0
    BY <1>1, <1>2 DEF Calls
  <2> QED
    BY <1>7, <2>1, <2>2, <2>3, <2>4, <2>5 DEF LoopInv
<1>9. ConnectedIsReached' /\ FailedIsFinished'
  BY <1>0, <1>1, <1>2, <1>4 DEF ConnectedIsReached, FailedIsFinished, TypeOK, conn
<1>10. ASSUME clean' PROVE OwnOutcome'
  <2>1. OwnOutcome
    BY <1>1, <1>2, <1>10 DEF ClientInv
  <2>2. CASE k = call
    <3>1. c = controller[call] /\ TimedOut(k)
      BY <1>2, <2>1, <2>2 DEF OwnOutcome, TimedOut, c
    <3>2. /\ mController' = [mController EXCEPT ![c] = failed]
          /\ done' = [done EXCEPT ![k] = @ + 1]
          /\ seen' = [seen EXCEPT ![k] = @ \cup {"timeout"}]
      BY <1>1, <3>1
    <3>3. done[call] = 0 /\ seen[call] \subseteq {} /\ given[call] = {}
      BY <1>2, <2>1, <2>2 DEF OwnOutcome
    <3>4. /\ done'[call] = 1 /\ ran'[call] = 1 /\ seen'[call] = {"timeout"}
          /\ mController'[controller'[call]] = failed
      BY <1>0, <1>1, <1>2, <2>2, <3>1, <3>2, <3>3 DEF TypeOK
    <3>5. ASSUME NEW j \in (mPendingEvents' \cup outDateEvent') \ {call'}
          PROVE  controller'[j] # controller'[call'] /\ ~TimedOut(j)'
      <4>1. controller[j] # controller[call] /\ ~TimedOut(j)
        BY <1>1, <1>2, <2>1, <3>5 DEF OwnOutcome
      <4>2. mController'[controller[j]] = mController[controller[j]]
        BY <1>0, <1>2, <3>1, <3>2, <4>1 DEF TypeOK
      <4> QED
        BY <1>1, <4>1, <4>2 DEF TimedOut
    <3>6. {"timeout"} = {"timeout"} \ {"none"}
      OBVIOUS
    <3> QED
      BY <1>1, <1>4, <3>3, <3>4, <3>5, <3>6 DEF OwnOutcome
  <2>3. CASE k # call
    <3>1. ~TimedOut(k)
      BY <1>2, <2>1, <2>3 DEF OwnOutcome
    <3>2. UNCHANGED <<call, controller, given, done, mController, seen>>
      BY <1>1, <3>1
    <3>3. ran'[call] = ran[call]
      BY <1>2, <2>3
    <3> QED
      BY <1>2, <2>1, <3>2, <3>3 DEF OwnOutcome, TimedOut
  <2> QED
    BY <2>2, <2>3
<1>11. clean' => OwnResponse'
  BY <1>1, <1>2, OwnResponseKept DEF ClientInv, conn, peer
<1>12. ASSUME clean' PROVE LeftForAReason'
  <2>1. OwnOutcome /\ LeftForAReason
    BY <1>1, <1>2, <1>12 DEF ClientInv
  <2>2. ASSUME ran'[call] = 0 PROVE UNCHANGED mIsLooping /\ ran[call] = 0
    <3>1. k # call /\ ran[call] = 0
      BY <1>2, <2>2
    <3>2. ~TimedOut(k)
      BY <1>2, <2>1, <3>1 DEF OwnOutcome
    <3> QED
      BY <1>1, <3>1, <3>2
  <2> QED
    BY <1>1, <2>1, <2>2 DEF LeftForAReason, Queued, conn, peer
<1> QED
  BY <1>6, <1>7, <1>8, <1>9, <1>10, <1>11, <1>12 DEF ClientInv, CleanCallIsAnswered, OutcomeIsTrue

\* What epoll_wait and the end of a turn have in common: only the queue, the
\* ready list and where the thread is change.
LEMMA TurnStep ==
  ASSUME ClientInv, tasks' \in Seq(Tasks), ready' \in BOOLEAN,
         UNCHANGED <<timer, mIsLooping, woken, result, socket, mState, request, mRecvBuffer,
                     peer>>,
         InCall, outDateEvent = {}, pc' \in {"run", "wait", "return"},
         pc' = "wait" => tasks' = <<>>, pc' = "return" => ~mIsLooping,
         Queued("read")' => inbox # <<>> \/ eof,
         \A i, j \in DOMAIN tasks' : tasks'[i] = "read" /\ tasks'[j] = "read" => i = j
  PROVE  ClientInv'
<1>0. TypeOK /\ ConnectedIsReached /\ LoopInv /\ FailedIsFinished
  BY DEF ClientInv
<1>1. InCall'
  BY DEF InCall
<1>2. TypeOK'
  BY <1>0, TimersKept DEF TypeOK, timer, result, peer
<1>3. call' > 0
  BY <1>0 DEF LoopInv, result
<1>4. LoopInv'
  BY <1>0, <1>3 DEF LoopInv, timer, result
<1>5. ConnectedIsReached' /\ FailedIsFinished'
  BY <1>0 DEF ConnectedIsReached, FailedIsFinished, result
<1>6. clean' => OwnOutcome' /\ OwnResponse'
  BY OwnOutcomeKept, OwnResponseKept DEF ClientInv, timer, result, peer
<1>7. clean' => LeftForAReason'
  BY DEF ClientInv, LeftForAReason, timer, result, peer
<1> QED
  BY <1>1, <1>2, <1>4, <1>5, <1>6, <1>7 DEF ClientInv, CleanCallIsAnswered, OutcomeIsTrue

\* The loop has run what there was.
LEMMA DrainedStep == ClientInv /\ Drained => ClientInv'
<1> SUFFICES ASSUME ClientInv, Drained PROVE ClientInv'
  OBVIOUS
<1>1. /\ InCall /\ tasks' = <<>> /\ tasks' \in Seq(Tasks) /\ ready' \in BOOLEAN
  BY DEF Drained, InCall, ClientInv, TypeOK, conn
<1>2. ~Queued("read")' /\ DOMAIN tasks' = {}
  BY <1>1 DEF Queued, ToSet
<1> QED
  BY <1>1, <1>2, TurnStep DEF Drained, conn

\* A batch has each callback once, and only those for what was reported.
LEMMA BatchFacts ==
  ASSUME NEW batch \in Batches
  PROVE  /\ batch \in Seq(Tasks)
         /\ \A i \in DOMAIN batch : Reports(batch[i])
         /\ \A i, j \in DOMAIN batch : batch[i] = batch[j] => i = j
<1> DEFINE n == Cardinality(Reported)
<1>1. batch \in [1 .. n -> Reported] /\ \A i, j \in 1 .. n : i # j => batch[i] # batch[j]
  BY DEF Batches, SetToSeqs
<1>2. IsFiniteSet(Tasks) /\ Reported \subseteq Tasks
  <2>1. IsFiniteSet({"read"}) /\ IsFiniteSet({"write"}) /\ IsFiniteSet({"timer"})
        /\ IsFiniteSet({"wake"})
    BY FS_Singleton
  <2>2. Tasks = (({"read"} \cup {"write"}) \cup {"timer"}) \cup {"wake"}
    BY DEF Tasks
  <2> QED
    BY <2>1, <2>2, FS_Union DEF Reported
<1>3. n \in Nat
  BY <1>2, FS_Subset, FS_CardinalityType
<1> HIDE DEF n
<1>4. batch \in Seq(Tasks) /\ DOMAIN batch = 1 .. n
  BY <1>1, <1>2, <1>3
<1> QED
  BY <1>1, <1>4 DEF Reported

\* The loop goes on or is left with the callbacks for what was reported.
LEMMA EpollWaitStep == ClientInv /\ EpollWait => ClientInv'
<1> SUFFICES ASSUME ClientInv, EpollWait PROVE ClientInv'
  OBVIOUS
<1>1. /\ pc = "wait" /\ tasks' \in Batches /\ ready' = FALSE
      /\ pc' = IF mIsLooping THEN "run" ELSE "return"
      /\ UNCHANGED <<timer, mIsLooping, woken, result, socket, mState, request, mRecvBuffer,
                     peer>>
  BY DEF EpollWait
<1>2. InCall /\ outDateEvent = {}
  BY <1>1 DEF ClientInv, LoopInv, InCall
<1>3. /\ tasks' \in Seq(Tasks)
      /\ \A i, j \in DOMAIN tasks' : tasks'[i] = tasks'[j] => i = j
      /\ \A i \in DOMAIN tasks' : Reports(tasks'[i])
  BY <1>1, BatchFacts
<1>4. Queued("read")' => inbox # <<>> \/ eof
  BY <1>3 DEF Queued, ToSet, Reports
<1> QED
  BY <1>1, <1>2, <1>3, <1>4, TurnStep

-----------------------------------------------------------------------------
(***************************************************************************)
(* A call returns.                                                         *)
(***************************************************************************)
\* What is decoded are finitely many responses of calls, and what is kept is
\* again pieces of responses.
LEMMA DecodeFacts ==
  ASSUME TypeOK, NEW taken \in SUBSET Responses
  PROVE  /\ Cardinality(taken) \in Nat /\ IsFiniteSet(taken)
         /\ taken # {} => Cardinality(taken) > 0
         /\ {mRecvBuffer[i][1] : i \in taken} \in SUBSET Calls
         /\ Incomplete(mRecvBuffer) \in Seq(Pieces)
<1>1. /\ mRecvBuffer \in Seq(Pieces) /\ DOMAIN mRecvBuffer = 1 .. Len(mRecvBuffer)
      /\ Len(mRecvBuffer) \in Nat
  BY DEF TypeOK
<1>2. IsFiniteSet(1 .. Len(mRecvBuffer)) /\ taken \subseteq 1 .. Len(mRecvBuffer)
  BY <1>1, FS_Interval DEF Responses
<1>3. IsFiniteSet(taken) /\ Cardinality(taken) \in Nat
  BY <1>2, FS_Subset, FS_CardinalityType
<1>4. taken # {} => Cardinality(taken) > 0
  BY <1>3, FS_EmptySet
<1>5. \A i \in taken : mRecvBuffer[i] \in Pieces /\ mRecvBuffer[i][1] \in Calls
  BY <1>1, <1>2 DEF Pieces
<1>6. Incomplete(mRecvBuffer) \in Seq(Pieces)
  <2>1. CASE mRecvBuffer = <<>>
    BY <2>1 DEF Incomplete
  <2>2. CASE mRecvBuffer # <<>>
    <3>1. Last(mRecvBuffer) \in Pieces
      BY <1>1, <2>2 DEF Last
    <3> QED
      BY <3>1 DEF Incomplete
  <2> QED
    BY <2>1, <2>2
<1> QED
  BY <1>3, <1>4, <1>5, <1>6

\* A call that began clean has received at most one response, and that is its
\* own; it is complete unless a first piece of it is kept.
LEMMA ReceivedFacts ==
  ASSUME TypeOK, OwnResponse
  PROVE  /\ \A i \in DOMAIN mRecvBuffer : mRecvBuffer[i][1] = call
         /\ \A i, j \in DOMAIN mRecvBuffer :
              mRecvBuffer[i][2] # "head" /\ mRecvBuffer[j][2] # "head" => i = j
         /\ mRecvBuffer # <<>> /\ Incomplete(mRecvBuffer) = <<>> => Responses # {}
<1> DEFINE pieces == mRecvBuffer \o inbox
<1>1. /\ mRecvBuffer \in Seq(Pieces) /\ inbox \in Seq(Pieces)
      /\ DOMAIN mRecvBuffer = 1 .. Len(mRecvBuffer) /\ Len(mRecvBuffer) \in Nat
      /\ Len(inbox) \in Nat
  BY DEF TypeOK
<1>2. /\ Len(pieces) = Len(mRecvBuffer) + Len(inbox)
      /\ \A i \in 1 .. Len(mRecvBuffer) : pieces[i] = mRecvBuffer[i]
  BY <1>1
<1>3. /\ Len(pieces) \in 0 .. 2
      /\ \A i \in 1 .. Len(pieces) : pieces[i][1] = call
      /\ \A i \in 1 .. Len(pieces) : pieces[i][2] # "head" => i = Len(pieces)
  <2>1. pieces \in {<<>>, <<<<call, "head">>>>, <<<<call, "whole">>>>,
                    <<<<call, "head">>, <<call, "tail">>>>}
    BY DEF OwnResponse
  <2> HIDE DEF pieces
  <2>2. CASE pieces = <<>>
    BY <2>2
  <2>3. CASE pieces = <<<<call, "head">>>>
    BY <2>3
  <2>4. CASE pieces = <<<<call, "whole">>>>
    BY <2>4
  <2>5. CASE pieces = <<<<call, "head">>, <<call, "tail">>>>
    BY <2>5
  <2> QED
    BY <2>1, <2>2, <2>3, <2>4, <2>5
<1>4. ASSUME NEW i \in DOMAIN mRecvBuffer PROVE mRecvBuffer[i][1] = call
  BY <1>1, <1>2, <1>3
<1>5. ASSUME NEW i \in DOMAIN mRecvBuffer, NEW j \in DOMAIN mRecvBuffer,
             mRecvBuffer[i][2] # "head", mRecvBuffer[j][2] # "head"
      PROVE  i = j
  <2>1. i \in 1 .. Len(pieces) /\ j \in 1 .. Len(pieces)
    BY <1>1, <1>2
  <2>2. pieces[i][2] # "head" /\ pieces[j][2] # "head"
    BY <1>1, <1>2, <1>5
  <2> HIDE DEF pieces
  <2> QED
    BY <1>3, <2>1, <2>2
<1>6. ASSUME mRecvBuffer # <<>>, Incomplete(mRecvBuffer) = <<>> PROVE Responses # {}
  <2>1. Len(mRecvBuffer) \in DOMAIN mRecvBuffer
    BY <1>1, <1>6
  <2>2. mRecvBuffer[Len(mRecvBuffer)][2] # "head"
    BY <1>6 DEF Incomplete, Last
  <2> QED
    BY <1>4, <2>1, <2>2 DEF Responses
<1> QED
  BY <1>4, <1>5, <1>6

\* The responses are decoded and the call returns.
LEMMA ReturnStep == ClientInv /\ Return => ClientInv'
<1> SUFFICES ASSUME ClientInv, Return PROVE ClientInv'
  OBVIOUS
<1>0. TypeOK /\ ConnectedIsReached /\ LoopInv /\ FailedIsFinished
  BY DEF ClientInv
<1>1. PICK taken \in SUBSET Responses :
        /\ AllGood(taken) \/ LastFails(taken)
        /\ done' = [done EXCEPT ![call] = @ + Cardinality(taken)]
        /\ given' = [given EXCEPT ![call] = {mRecvBuffer[i][1] : i \in taken}]
  BY DEF Return
<1>2. /\ pc = "return" /\ pc' = "idle" /\ mRecvBuffer' = Incomplete(mRecvBuffer)
      /\ UNCHANGED <<timer, tasks, mIsLooping, woken, call, msgId, controller, clean, socket,
                     mState, request, ready, peer>>
  BY DEF Return
<1>3. InCall /\ ~InCall' /\ ~mIsLooping /\ call \in Calls
  BY <1>0, <1>2 DEF InCall, LoopInv, TypeOK, Calls
<1>4. /\ Cardinality(taken) \in Nat /\ IsFiniteSet(taken)
      /\ taken # {} => Cardinality(taken) > 0
      /\ {mRecvBuffer[i][1] : i \in taken} \in SUBSET Calls
      /\ mRecvBuffer' \in Seq(Pieces)
  BY <1>0, <1>2, DecodeFacts
<1> DEFINE c == controller[call]
           good == IF Cardinality(taken) = 1 THEN {} ELSE {mController[c].mErrorCode}
           failed == Fail(mController[c], "failed")
           finished == SetFinished(mController[c])
<1>5. \/ taken = {} /\ taken = Responses /\ UNCHANGED <<mController, seen>>
      \/ /\ taken # {} /\ mController' = [mController EXCEPT ![c] = finished]
         /\ seen' = [seen EXCEPT ![call] = @ \cup {mController[c].mErrorCode}]
      \/ /\ taken # {} /\ mController' = [mController EXCEPT ![c] = failed]
         /\ seen' = [seen EXCEPT ![call] = @ \cup good \cup {"failed"}]
  BY <1>1 DEF AllGood, LastFails
<1>6. c \in Calls
  <2>1. c # 0
    <3>1. call \in 1 .. call
      BY <1>3 DEF Calls
    <3> QED
      BY <1>0, <3>1 DEF LoopInv
  <2>2. c \in 0 .. MaxCalls
    BY <1>0, <1>3 DEF TypeOK
  <2> QED
    BY <2>1, <2>2, ConstantsAssumption DEF Calls
<1>7. "failed" \in ErrorCodes /\ 0 \in 0 .. MaxCalls /\ mController[c] \in Controllers
      /\ mController[c].mErrorCode \in ErrorCodes
  BY <1>0, <1>6, ConstantsAssumption DEF TypeOK, ErrorCodes, Controllers
<1>8. /\ finished \in Controllers /\ finished.mIsFinished
      /\ finished.mErrorCode = mController[c].mErrorCode
      /\ finished.mIsFailed = mController[c].mIsFailed
      /\ failed \in Controllers /\ failed.mIsFinished /\ failed.mIsFailed
      /\ failed.mErrorCode = "failed"
  BY <1>7, ControllerFacts
<1> HIDE DEF failed, finished
<1>9. mController' \in [Calls -> Controllers] /\ seen' \in [Calls -> SUBSET ErrorCodes]
  <2>1. mController \in [Calls -> Controllers] /\ seen \in [Calls -> SUBSET ErrorCodes]
        /\ good \subseteq ErrorCodes
    BY <1>0, <1>7 DEF TypeOK, Controllers
  <2> HIDE DEF good, c
  <2> QED
    BY <1>3, <1>5, <1>6, <1>7, <1>8, <2>1
<1>10. done' \in [Calls -> Nat] /\ given' \in [Calls -> SUBSET Calls]
  <2>1. done \in [Calls -> Nat] /\ given \in [Calls -> SUBSET Calls]
    BY <1>0 DEF TypeOK
  <2>2. done' \in [Calls -> Nat]
    <3> DEFINE n == Cardinality(taken)
    <3>1. done' = [done EXCEPT ![call] = @ + n] /\ n \in Nat
      BY <1>1, <1>4
    <3> HIDE DEF n
    <3>2. done[call] + n \in Nat
      BY <1>3, <2>1, <3>1
    <3> QED
      BY <2>1, <3>1, <3>2
  <2>3. given' \in [Calls -> SUBSET Calls]
    BY <1>1, <1>4, <2>1
  <2> QED
    BY <2>2, <2>3
<1>11. TypeOK'
  BY <1>0, <1>2, <1>4, <1>9, <1>10, TimersKept DEF TypeOK, Controllers, peer
<1>12. LoopInv'
  <2>1. ASSUME NEW k \in Calls, k > call'
        PROVE  ran'[k] = 0 /\ done'[k] = 0 /\ seen'[k] = {} /\ given'[k] = {}
    <3>1. k > call /\ k # call
      BY <1>2, <1>3, <2>1 DEF Calls
    <3>2. ran[k] = 0 /\ done[k] = 0 /\ seen[k] = {} /\ given[k] = {}
      BY <1>0, <3>1 DEF LoopInv
    <3>3. seen'[k] = seen[k]
      BY <1>0, <1>5, <3>1 DEF TypeOK
    <3> QED
      BY <1>0, <1>1, <1>2, <3>1, <3>2, <3>3 DEF TypeOK, timer
  <2> QED
    BY <1>0, <1>2, <1>3, <2>1 DEF LoopInv, timer
<1>13. ConnectedIsReached' /\ FailedIsFinished'
  <2>1. ASSUME NEW d \in Calls, mController'[d].mIsFailed \/ mController'[d].mErrorCode # "none"
        PROVE  mController'[d].mIsFinished
    <3>1. CASE d = c
      BY <1>0, <1>5, <1>6, <1>8, <2>1, <3>1 DEF FailedIsFinished, TypeOK
    <3>2. CASE d # c
      BY <1>0, <1>5, <2>1, <3>2 DEF FailedIsFinished, TypeOK
    <3> QED
      BY <3>1, <3>2
  <2> QED
    BY <1>0, <1>2, <2>1 DEF ConnectedIsReached, FailedIsFinished
<1>14. ASSUME clean' PROVE CleanCallIsAnswered' /\ OutcomeIsTrue'
  <2>1. OwnOutcome /\ OwnResponse /\ LeftForAReason
    BY <1>2, <1>3, <1>14 DEF ClientInv
  <2>2. /\ \A i \in taken : mRecvBuffer[i][1] = call
        /\ \A i, j \in taken : i = j
        /\ mRecvBuffer # <<>> /\ mRecvBuffer' = <<>> => Responses # {}
    BY <1>0, <1>1, <1>2, <2>1, ReceivedFacts DEF Responses
  <2>3. taken # {} => Cardinality(taken) = 1
    <3>1. ASSUME NEW i \in taken PROVE taken = {i}
      BY <2>2
    <3> QED
      BY <3>1, FS_Singleton
  <2>4. given'[call] = {mRecvBuffer[i][1] : i \in taken}
    BY <1>0, <1>1, <1>3 DEF TypeOK
  <2>5. given'[call] \subseteq {call} /\ (taken # {} => given'[call] = {call})
    BY <2>2, <2>4
  <2>6. done'[call] = ran[call] + Cardinality(taken) /\ ran[call] \in 0 .. 1
    BY <1>0, <1>1, <1>3, <2>1, TimerTyped DEF TypeOK, TimerTypes, OwnOutcome
  <2>7. taken = {} => Cardinality(taken) = 0
    BY FS_EmptySet
  <2>8. mRecvBuffer' = <<>> /\ ran[call] = 0 => taken # {}
    BY <1>3, <1>5, <2>1, <2>2 DEF LeftForAReason
  <2>9. CleanCallIsAnswered'
    <3>1. mRecvBuffer' = <<>> => done'[call] > 0
      BY <1>4, <2>3, <2>6, <2>8
    <3>2. mRecvBuffer' = <<>> /\ ran[call] = 0 => done'[call] = 1
      BY <2>3, <2>6, <2>8
    <3> QED
      BY <1>2, <2>5, <3>1, <3>2 DEF CleanCallIsAnswered, timer
  <2> DEFINE code == mController[c].mErrorCode
  <2>10. /\ seen[call] = {code} \ {"none"}
         /\ code = IF ran[call] = 1 THEN "timeout" ELSE "none"
         /\ mController[c].mIsFailed <=> ran[call] = 1
    BY <2>1 DEF OwnOutcome
  <2>11. \/ taken = {} /\ seen'[call] = seen[call] /\ mController'[c] = mController[c]
         \/ taken # {} /\ seen'[call] = seen[call] \cup {code} /\ mController'[c] = finished
         \/ /\ taken # {} /\ seen'[call] = seen[call] \cup {"failed"}
            /\ mController'[c] = failed
    BY <1>0, <1>3, <1>5, <1>6, <2>3 DEF TypeOK
  <2>12. controller'[call'] = c
    BY <1>2
  <2> HIDE DEF c
  <2>13. OutcomeIsTrue'
    <3>1. "none" \in seen'[call] => given'[call] # {}
      BY <2>5, <2>10, <2>11
    <3>2. "timeout" \in seen'[call] => ran[call] = 1
      BY <2>10, <2>11
    <3>3. mController'[c].mIsFailed <=> seen'[call] \ {"none"} # {}
      BY <1>8, <2>10, <2>11
    <3> QED
      BY <1>2, <2>12, <3>1, <3>2, <3>3 DEF OutcomeIsTrue, timer
  <2> QED
    BY <2>9, <2>13
<1> QED
  BY <1>3, <1>11, <1>12, <1>13, <1>14 DEF ClientInv, CleanCallIsAnswered, OutcomeIsTrue

-----------------------------------------------------------------------------
(***************************************************************************)
(* The invariant.                                                          *)
(***************************************************************************)
\* It holds at first.
LEMMA Initially == Init => ClientInv
<1> SUFFICES ASSUME Init PROVE ClientInv
  OBVIOUS
<1>1. T!Init
  BY DEF Init
<1>2. TimerTypes
  <2>1. due \in [Calls -> Int]
    <3>1. due = [k \in Calls |-> [j \in Calls |-> Timeout][k]]
      BY <1>1 DEF T!Init
    <3>2. Timeout \in Int /\ \A k \in Calls : [j \in Calls |-> Timeout][k] = Timeout
      BY ConstantsAssumption
    <3> QED
      BY <3>1, <3>2
  <2>2. mPendingEvents = {} /\ outDateEvent = {} /\ left = 0 /\ expired = FALSE
        /\ ran = [k \in Calls |-> 0]
    BY <1>1 DEF T!Init
  <2>3. expired \in BOOLEAN
    BY <2>2
  <2>4. ran \in [Calls -> 0 .. 1] /\ left \in Nat
    BY <2>2
  <2> QED
    BY <2>1, <2>2, <2>3, <2>4 DEF TimerTypes
<1>3. mPendingEvents = {} /\ outDateEvent = {} /\ ran = [k \in Calls |-> 0]
  BY <1>1 DEF T!Init
<1>4. 0 \in 0 .. MaxCalls /\ "none" \in ErrorCodes
  BY ConstantsAssumption DEF ErrorCodes
<1>5. TypeOK
  <2>1. T!TypeOK
    BY <1>2, TimerTyped
  <2>2. mController \in [Calls -> Controllers]
    BY <1>4 DEF Init, NewController, Controllers
  <2>3. <<>> \in Seq(Tasks) /\ <<>> \in Seq(Pieces) /\ <<>> \in Seq(Calls)
    OBVIOUS
  <2> QED
    BY <1>4, <2>1, <2>2, <2>3 DEF Init, TypeOK, Controllers
<1>6. ~InCall
  BY DEF Init, InCall
<1>7. LoopInv
  BY <1>3, <1>6 DEF Init, LoopInv
<1>8. ConnectedIsReached /\ FailedIsFinished /\ CleanCallIsAnswered /\ OutcomeIsTrue
  BY DEF Init, ConnectedIsReached, FailedIsFinished, NewController, CleanCallIsAnswered,
         OutcomeIsTrue
<1> QED
  BY <1>5, <1>6, <1>7, <1>8 DEF ClientInv

\* It holds when nothing happens.
LEMMA Stuttering == ClientInv /\ UNCHANGED vars => ClientInv'
<1> SUFFICES ASSUME ClientInv, UNCHANGED vars PROVE ClientInv'
  OBVIOUS
<1>0. TypeOK
  BY DEF ClientInv
<1>1. TypeOK'
  BY <1>0, TimersKept DEF TypeOK, vars, loop, result, conn, peer
<1>2. ConnectedIsReached'
  BY DEF ClientInv, ConnectedIsReached, vars, conn
<1> QED
  BY <1>1, <1>2, OutsideStep DEF vars, conn, peer

\* It holds after every step.
LEMMA Inductive == ClientInv /\ [Next]_vars => ClientInv'
<1> SUFFICES ASSUME ClientInv, [Next]_vars PROVE ClientInv'
  OBVIOUS
<1>1. CASE TCPConnect \/ ConnectAgain \/ CallMethod \/ TCPDisConnect
  BY <1>1, TCPConnectStep, ConnectAgainStep, CallMethodStep, TCPDisConnectStep
<1>2. CASE RunWakeUp \/ OnRead \/ OnWrite \/ CallbackOfClosed \/ OnTimer
  BY <1>2, RunWakeUpStep, OnReadStep, OnWriteStep, CallbackOfClosedStep, OnTimerStep
<1>3. CASE \E k \in Calls : RunEvent(k)
  BY <1>3, RunEventStep
<1>4. CASE Drained \/ EpollWait \/ Return
  BY <1>4, DrainedStep, EpollWaitStep, ReturnStep
<1>5. CASE Handshake \/ Answer \/ AnswerRest \/ Close \/ Tick
  BY <1>5, HandshakeStep, AnswerStep, AnswerRestStep, CloseStep, TickStep
<1>6. CASE UNCHANGED vars
  BY <1>6, Stuttering
<1> QED
  BY <1>1, <1>2, <1>3, <1>4, <1>5, <1>6 DEF Next, ClientStep

\* The user's thread, its loop, its timer and the responses that are on their
\* way fit together: in a call that began with nothing left over, the loop is
\* left only for that call's timeout or with something received, there is one
\* response at most and it is that call's (rpc_channel.cpp:37, tcp_client.cpp:33).
THEOREM Invariance == Spec => []ClientInv
<1>1. Init => ClientInv
  BY Initially
<1>2. ClientInv /\ [Next]_vars => ClientInv'
  BY Inductive
<1> QED
  BY <1>1, <1>2, PTL DEF Spec

\* A call that began with nothing left over has run its closure when it
\* returns, once unless it timed out, and with no response but its own, unless
\* a part of its response is all that came (rpc_channel.cpp:81).
THEOREM Answered == Spec => []CleanCallIsAnswered
<1>1. ClientInv => CleanCallIsAnswered
  BY DEF ClientInv
<1> QED
  BY <1>1, Invariance, PTL

\* What the closure of such a call reads in the controller is what happened:
\* success only with a response, a timeout only if its own has run
\* (rpc_channel.cpp:61, rpc_contoller.cpp:10).
THEOREM OutcomeTrue == Spec => []OutcomeIsTrue
<1>1. ClientInv => OutcomeIsTrue
  BY DEF ClientInv
<1> QED
  BY <1>1, Invariance, PTL

\* A connection is used only once the kernel has it: the second connect() is
\* believed, not the first (tcp_client.cpp:80).
THEOREM ConnectionReached == Spec => []ConnectedIsReached
<1>1. ClientInv => ConnectedIsReached
  BY DEF ClientInv
<1> QED
  BY <1>1, Invariance, PTL
=============================================================================
