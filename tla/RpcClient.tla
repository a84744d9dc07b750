----------------------------- MODULE RpcClient -----------------------------
(***************************************************************************)
(* rpc/rpc_channel, rpc/rpc_controller, tcp/tcp_client and the client side *)
(* of tcp/connection: one RpcChannel, whose user connects it and makes one *)
(* call after the other, each with a controller of its own or with that of *)
(* an earlier call, Reset or not.  The channel's EventLoop runs only       *)
(* inside a call; its Timer is the module Timer.                           *)
(*                                                                         *)
(* Everything is on the user's thread, so the two queues of the loop are   *)
(* one (EventLoop's TaskOrder).  A call is its number, and so is the       *)
(* controller it came with first.  A response is on its way as a whole or  *)
(* in two pieces.  A request fits in the socket buffer, and the connection *)
(* is not reset.                                                           *)
(***************************************************************************)
EXTENDS RpcController, Integers, Sequences, SequencesExt, FiniteSets

CONSTANTS MaxCalls,  \* bound: calls made
          Timeout,   \* RpcController's mTimeout
          Grace      \* the 100 ms of the timer

ASSUME ConstantsAssumption == {MaxCalls, Timeout, Grace} \subseteq Nat \ {0}

Calls == 1 .. MaxCalls

VARIABLES
  mPendingEvents, due, outDateEvent, left, expired, ran,  \* Timer: one event per call
  pc,          \* where the user's thread is
  tasks,       \* callbacks in the queue of the loop
  mIsLooping,
  woken,       \* the eventfd is readable
  call,        \* the last call made, 0 before the first
  msgId,       \* per call, the id of its request
  done,        \* per call, how often its closure was run
  controller,  \* per call, the controller it was made with
  mController, \* the controllers
  seen,        \* per call, the error codes its closure found in the controller
  given,       \* per call, the calls whose responses it took as its own
  socket,      \* kernel: what has become of connect()
  mState,      \* of the connection
  request,     \* mSendBuffer holds the request of call
  mRecvBuffer, \* pieces of responses
  ready,       \* the socket is on epoll's ready list
  inbox, eof,  \* the socket: pieces that arrived, and a FIN after them
  asked,       \* the server: requests not answered
  rest,        \* the server: the response half sent, or 0
  clean        \* call began with nothing left over by earlier ones

timer  == <<mPendingEvents, due, outDateEvent, left, expired, ran>>
loop   == <<pc, tasks, mIsLooping, woken>>
result == <<call, msgId, done, controller, mController, seen, given, clean>>
conn   == <<socket, mState, request, mRecvBuffer, ready>>
peer   == <<inbox, eof, asked, rest>>
vars   == <<timer, loop, result, conn, peer>>

Queued(task) == task \in ToSet(tasks)

T == INSTANCE Timer WITH
  Events <- Calls, Interval <- [k \in Calls |-> Timeout],
  Periodic <- [k \in Calls |-> FALSE], Cancellable <- {}, MaxSteps <- 0,
  mIsRepeated <- [k \in Calls |-> FALSE], called <- Queued("timer"), steps <- 0

Tasks == {"read", "write", "timer", "wake"}

Pieces == Calls \X {"whole", "head", "tail"}

TypeOK ==
  /\ T!TypeOK
  /\ pc \in {"idle", "connect", "run", "wait", "return", "crashed", "exited"}
  /\ tasks \in Seq(Tasks)
  /\ {mIsLooping, woken, request, ready, eof} \subseteq BOOLEAN
  /\ call \in 0 .. MaxCalls
  /\ msgId \in [Calls -> 0 .. MaxCalls]
  /\ done \in [Calls -> Nat]
  /\ controller \in [Calls -> 0 .. MaxCalls]
  /\ mController \in [Calls -> [mErrorCode : ErrorCodes, mMsgId : 0 .. MaxCalls,
                                mIsFailed : BOOLEAN, mIsCanceled : BOOLEAN,
                                mIsFinished : BOOLEAN]]
  /\ seen \in [Calls -> SUBSET ErrorCodes]
  /\ given \in [Calls -> SUBSET Calls]
  /\ socket \in {"new", "syn", "connected", "refused", "closed"}
  /\ mState \in {"NotConnected", "Connected", "Closed"}
  /\ {mRecvBuffer, inbox} \subseteq Seq(Pieces)
  /\ asked \in Seq(Calls)
  /\ rest \in 0 .. MaxCalls
  /\ clean \in BOOLEAN

\* The constructors have run.
Init ==
  /\ pc = "idle" /\ tasks = <<>> /\ mIsLooping = FALSE /\ woken = FALSE
  /\ T!Init
  /\ call = 0
  /\ msgId = [k \in Calls |-> 0]
  /\ done = [k \in Calls |-> 0]
  /\ controller = [k \in Calls |-> 0]
  /\ mController = [k \in Calls |-> NewController]
  /\ seen = [k \in Calls |-> {}]
  /\ given = [k \in Calls |-> {}]
  /\ socket = "new" /\ mState = "NotConnected"
  /\ request = FALSE /\ mRecvBuffer = <<>> /\ ready = FALSE
  /\ inbox = <<>> /\ eof = FALSE /\ asked = <<>> /\ rest = 0
  /\ clean = TRUE

-----------------------------------------------------------------------------
(***************************************************************************)
(* TCPConnect.                                                             *)
(***************************************************************************)
\* Mutant: a connect() that is still going on counts as a success.
ReachedOrGoingOn == socket \in {"connected", "syn"}

\* The second connect() returns 0; otherwise it says EALREADY, or why the
\* first has failed.
Reached == socket = "connected"

\* The first connect() of a non-blocking socket.  An error of connect(), also
\* that of a socket TCPDisConnect has closed, ends the process.
TCPConnect ==
  /\ pc = "idle" /\ mState = "NotConnected"
  /\ \/ /\ socket = "new"
        /\ socket' = "connected"
        /\ mState' = "Connected"
        /\ UNCHANGED pc
     \/ /\ socket = "new"
        /\ socket' = "syn"
        /\ pc' = "connect"
        /\ UNCHANGED mState
     \/ /\ pc' = "exited"
        /\ UNCHANGED <<socket, mState>>
  /\ UNCHANGED <<timer, tasks, mIsLooping, woken, result, request, mRecvBuffer, ready,
                 peer>>

\* onConnect calls connect() again at once.
ConnectAgain ==
  /\ pc = "connect"
  /\ \/ /\ Reached
        /\ mState' = "Connected"
        /\ pc' = "idle"
     \/ /\ ~Reached
        /\ pc' = "exited"
        /\ UNCHANGED mState
  /\ UNCHANGED <<timer, tasks, mIsLooping, woken, result, socket, request, mRecvBuffer,
                 ready, peer>>

Handshake ==
  /\ socket = "syn"
  /\ socket' \in {"connected", "refused"}
  /\ UNCHANGED <<timer, loop, result, mState, request, mRecvBuffer, ready, peer>>

-----------------------------------------------------------------------------
(***************************************************************************)
(* CallMethod.                                                             *)
(***************************************************************************)
\* No callback but the eventfd's, no response and no unfinished call is left.
NothingLeft ==
  /\ ToSet(tasks) \subseteq {"wake"}
  /\ <<mRecvBuffer, inbox, asked, rest>> = <<<<>>, <<>>, <<>>, 0>>
  /\ \A k \in 1 .. call : mController[controller[k]].mIsFinished

\* A controller is not finished yet, and no timeout of an earlier call has it.
Unused(c, state) ==
  ~state.mIsFinished /\ \A k \in mPendingEvents : controller[k] # c

\* GetMsgID seeds its generator with the second: calls within a second have
\* the same id, and an id may be that of any earlier call.
Ids == {call + 1} \cup {msgId[k] : k \in 1 .. call}

\* The controllers the user has, and the states the next call may find one in.
Usable == Calls \cap ({call + 1} \cup {controller[k] : k \in 1 .. call})

States(c) == {mController[c], Reset(mController[c])}

Named(state, id) == IF state.mMsgId = 0 THEN SetMsgId(state, id) ELSE state

Begin(c, state, id) ==
  /\ pc = "idle"
  /\ call < MaxCalls
  /\ call' = call + 1
  /\ controller' = [controller EXCEPT ![call'] = c]
  /\ msgId' = [msgId EXCEPT ![call'] = Named(state, id).mMsgId]
  /\ clean' = (NothingLeft /\ mState = "Connected" /\ Unused(c, state))

\* The request cannot be serialized: the closure is run, and nothing is sent.
CannotSerialize(c, state, id) ==
  /\ Begin(c, state, id)
  /\ mController' = [mController EXCEPT ![c] = Fail(Named(state, id), "failed")]
  /\ done' = [done EXCEPT ![call'] = 1]
  /\ seen' = [seen EXCEPT ![call'] = {"failed"}]
  /\ UNCHANGED <<timer, loop, given, conn, peer>>

\* OneCall enters Loop() with the socket registered for writing, or leaves
\* recvData null, which Decode dereferences.
OneCall(c, state, id) ==
  /\ Begin(c, state, id)
  /\ mController' = [mController EXCEPT ![c] = Named(state, id)]
  /\ UNCHANGED tasks
  /\ T!AddTimerEvent(call', 0)
  /\ \/ /\ mState = "Connected"
        /\ request' = TRUE
        /\ ready' = TRUE
        /\ mIsLooping' = TRUE
        /\ pc' = "run"
     \/ /\ mState # "Connected"
        /\ pc' = "crashed"
        /\ UNCHANGED <<request, ready, mIsLooping>>
  /\ UNCHANGED <<woken, done, seen, given, socket, mState, mRecvBuffer, peer>>

CallMethod ==
  \E c \in Usable : \E state \in States(c), id \in Ids :
    CannotSerialize(c, state, id) \/ OneCall(c, state, id)

\* Decode takes the complete responses off the front of the buffer: those with
\* the id of this call, as positions in it, and what it leaves.
Responses == {i \in DOMAIN mRecvBuffer :
  mRecvBuffer[i][2] # "head" /\ msgId[mRecvBuffer[i][1]] = msgId[call]}

Incomplete(q) == IF q # <<>> /\ Last(q)[2] = "head" THEN <<Last(q)>> ELSE <<>>

\* done is run for every response with the id of this call...
AllGood(taken) ==
  LET c == controller[call]
  IN  /\ taken = Responses
      /\ IF taken = {} THEN UNCHANGED <<mController, seen>>
         ELSE /\ mController' = [mController EXCEPT ![c] = SetFinished(@)]
              /\ seen' = [seen EXCEPT ![call] = @ \cup {mController[c].mErrorCode}]

\* ...up to one with an error or that cannot be parsed.
LastFails(taken) ==
  LET c == controller[call]
      good == IF Cardinality(taken) = 1 THEN {} ELSE {mController[c].mErrorCode}
  IN  /\ taken # {}
      /\ \A i \in taken, j \in Responses : j < i => j \in taken
      /\ mController' = [mController EXCEPT ![c] = Fail(@, "failed")]
      /\ seen' = [seen EXCEPT ![call] = @ \cup good \cup {"failed"}]

\* The rest of CallMethod.
Return ==
  /\ pc = "return"
  /\ \E taken \in SUBSET Responses :
       /\ AllGood(taken) \/ LastFails(taken)
       /\ done' = [done EXCEPT ![call] = @ + Cardinality(taken)]
       /\ given' = [given EXCEPT ![call] = {mRecvBuffer[i][1] : i \in taken}]
  /\ mRecvBuffer' = Incomplete(mRecvBuffer)
  /\ pc' = "idle"
  /\ UNCHANGED <<timer, tasks, mIsLooping, woken, call, msgId, controller, clean, socket,
                 mState, request, ready, peer>>

\* TCPDisConnect: its Stop() finds no loop running.
TCPDisConnect ==
  /\ pc = "idle"
  /\ mState # "NotConnected"
  /\ mState' = "NotConnected"
  /\ socket' = "closed"
  /\ ready' = FALSE
  /\ UNCHANGED <<timer, loop, result, request, mRecvBuffer, peer>>

-----------------------------------------------------------------------------
(***************************************************************************)
(* The loop and its callbacks.                                             *)
(***************************************************************************)
Take(task) ==
  /\ pc = "run"
  /\ outDateEvent = {}
  /\ tasks # <<>> /\ Head(tasks) = task
  /\ tasks' = Tail(tasks)

Stop ==
  /\ mIsLooping' = FALSE
  /\ woken' = (woken \/ mIsLooping)

RunWakeUp ==
  /\ Take("wake")
  /\ woken' = FALSE
  /\ UNCHANGED <<timer, pc, mIsLooping, result, conn, peer>>

\* onRead: everything there is, then clear() after a FIN, else Stop().
OnRead ==
  /\ Take("read")
  /\ mState = "Connected"
  /\ mRecvBuffer' = mRecvBuffer \o inbox
  /\ inbox' = <<>>
  /\ \/ /\ eof
        /\ mState' = "Closed"
        /\ ready' = FALSE
        /\ UNCHANGED <<mIsLooping, woken>>
     \/ /\ ~eof
        /\ Stop
        /\ UNCHANGED <<mState, ready>>
  /\ UNCHANGED <<timer, pc, result, socket, request, eof, asked, rest>>

\* onWrite: the request goes out, and the socket is registered again for
\* reading only, which puts it on the ready list if there is something to read.
OnWrite ==
  /\ Take("write")
  /\ mState = "Connected"
  /\ request' = FALSE
  /\ asked' = IF request THEN Append(asked, call) ELSE asked
  /\ ready' = (ready \/ inbox # <<>> \/ eof)
  /\ UNCHANGED <<timer, pc, mIsLooping, woken, result, socket, mState, mRecvBuffer,
                 inbox, eof, rest>>

CallbackOfClosed ==
  /\ mState # "Connected"
  /\ Take("read") \/ Take("write")
  /\ UNCHANGED <<timer, pc, mIsLooping, woken, result, conn, peer>>

OnTimer ==
  /\ Take("timer")
  /\ T!OnTimer
  /\ UNCHANGED <<pc, mIsLooping, woken, result, conn, peer>>

\* Mutant: the timeout does not look whether the call is finished.
AnyCall(k) == TRUE

TimedOut(k) == ~mController[controller[k]].mIsFinished

\* Mutant: the timeout does not stop the loop.
KeepLooping == UNCHANGED <<mIsLooping, woken>>

StopEventLoop == Stop

\* The timeout of call k, on its controller, in whichever call it is run and
\* whatever call has the controller now.
RunEvent(k) ==
  /\ UNCHANGED <<pc, tasks, call, msgId, controller, given, clean, conn, peer>>
  /\ T!RunEvent(k)
  /\ \/ /\ ~TimedOut(k)
        /\ UNCHANGED <<done, mController, seen, mIsLooping, woken>>
     \/ /\ TimedOut(k)
        /\ mController' = [mController EXCEPT ![controller[k]] = Fail(@, "timeout")]
        /\ done' = [done EXCEPT ![k] = @ + 1]
        /\ seen' = [seen EXCEPT ![k] = @ \cup {"timeout"}]
        /\ StopEventLoop

Drained ==
  /\ pc = "run"
  /\ tasks = <<>> /\ outDateEvent = {}
  /\ pc' = "wait"
  /\ UNCHANGED <<timer, tasks, mIsLooping, woken, result, conn, peer>>

\* The callbacks for what epoll reports of the socket, the timerfd and the
\* eventfd.  The socket listens for writability until the request is sent.
Reports(task) ==
  \/ task = "read"  /\ ready /\ (inbox # <<>> \/ eof)
  \/ task = "write" /\ ready /\ request
  \/ task = "timer" /\ expired
  \/ task = "wake"  /\ woken

Reported == {task \in Tasks : Reports(task)}

\* Descriptors come in any order, and onRead of one before its onWrite.
Batches ==
  {batch \in SetToSeqs(Reported) :
     \A i \in DOMAIN batch :
       batch[i] = "write" /\ "read" \in Reported => i > 1 /\ batch[i - 1] = "read"}

\* epoll_wait and the dispatch; then Loop() goes on or returns to OneCall.
EpollWait ==
  /\ pc = "wait"
  /\ Reported # {}
  /\ tasks' \in Batches
  /\ ready' = FALSE
  /\ pc' = IF mIsLooping THEN "run" ELSE "return"
  /\ UNCHANGED <<timer, mIsLooping, woken, result, socket, mState, request, mRecvBuffer,
                 peer>>

ClientStep ==
  \/ RunWakeUp \/ OnRead \/ OnWrite \/ CallbackOfClosed \/ OnTimer
  \/ \E k \in Calls : RunEvent(k)
  \/ Drained \/ EpollWait \/ Return

-----------------------------------------------------------------------------
(***************************************************************************)
(* The server and time.                                                    *)
(***************************************************************************)
Arrive(piece) ==
  /\ inbox' = Append(inbox, piece)
  /\ ready' = (mState = "Connected")

\* The oldest request is answered, in one piece or two.
Answer ==
  /\ ~eof /\ rest = 0 /\ asked # <<>>
  /\ asked' = Tail(asked)
  /\ \/ /\ Arrive(<<Head(asked), "whole">>)
        /\ UNCHANGED rest
     \/ /\ Arrive(<<Head(asked), "head">>)
        /\ rest' = Head(asked)
  /\ UNCHANGED <<timer, loop, result, socket, mState, request, mRecvBuffer, eof>>

AnswerRest ==
  /\ ~eof /\ rest # 0
  /\ Arrive(<<rest, "tail">>)
  /\ rest' = 0
  /\ UNCHANGED <<timer, loop, result, socket, mState, request, mRecvBuffer, asked, eof>>

Close ==
  /\ ~eof /\ socket = "connected"
  /\ eof' = TRUE
  /\ ready' = (mState = "Connected")
  /\ UNCHANGED <<timer, loop, result, socket, mState, request, mRecvBuffer, inbox, asked,
                 rest>>

Tick ==
  /\ UNCHANGED <<loop, result, conn, peer>>
  /\ T!Tick

Next ==
  \/ TCPConnect \/ ConnectAgain \/ CallMethod \/ TCPDisConnect \/ ClientStep
  \/ Handshake \/ Answer \/ AnswerRest \/ Close \/ Tick

Spec == Init /\ [][Next]_vars

\* The thread inside a call is scheduled, and time passes.  The server need
\* not answer.
FairSpec == Spec /\ WF_vars(ClientStep) /\ WF_vars(Tick)

-----------------------------------------------------------------------------
InCall == pc \in {"run", "wait", "return"}

\* A connection is used only once the kernel has it: the second connect() of
\* onConnect (tcp_client.cpp:80) is not asked before the first is through and
\* believed.
ConnectedIsReached == mState # "NotConnected" => socket = "connected"

\* A call that the timerfd is armed for returns, whatever the server does and
\* whatever callbacks earlier calls left in the queue, unless its controller
\* was finished by an earlier call and not Reset, which its timeout takes for
\* its own end (rpc_channel.cpp:61).
ArmedCallReturns ==
  (InCall /\ left > 0 /\ left = due[call] /\ TimedOut(call)) ~> ~InCall

\* A call that began with nothing left over has run its closure when it
\* returns, unless a part of its response is all that has come: once if it has
\* not timed out, and with no other call's response, although ids repeat.
CleanCallIsAnswered ==
  (~InCall /\ call > 0 /\ clean /\ mRecvBuffer = <<>>) =>
    /\ done[call] > 0
    /\ ran[call] = 0 => done[call] = 1
    /\ given[call] \subseteq {call}

\* What the closure reads in the controller is what has happened, also when
\* the controller was Reset and used again: success only with a response, a
\* timeout only if that of this call has run, and Failed() if and only if
\* some run of the closure was told an error.
OutcomeIsTrue ==
  (~InCall /\ call > 0 /\ clean) =>
    /\ "none" \in seen[call] => given[call] # {}
    /\ "timeout" \in seen[call] => ran[call] = 1
    /\ mController[controller[call]].mIsFailed <=> seen[call] \ {"none"} # {}

\* Between calls the loop is at rest, and its timer has events of calls that
\* were made and have not timed out; a call that was made has a controller, and
\* one to come has left no trace.
LoopInv ==
  /\ outDateEvent # {} => pc = "run"
  /\ pc = "wait" => tasks = <<>>
  /\ pc = "return" => ~mIsLooping
  /\ InCall => call > 0
  /\ mPendingEvents \cap outDateEvent = {}
  /\ \A k \in mPendingEvents \cup outDateEvent : k <= call /\ ran[k] = 0
  /\ \A k \in 1 .. call : controller[k] # 0
  /\ \A k \in Calls : k > call => /\ ran[k] = 0 /\ done[k] = 0
                                  /\ seen[k] = {} /\ given[k] = {}

\* A controller with an error is finished.
FailedIsFinished ==
  \A c \in Calls : mController[c].mIsFailed \/ mController[c].mErrorCode # "none"
                     => mController[c].mIsFinished

\* Inside a call that began clean, other calls' timeouts find their controllers
\* finished, and have not that of this call; what the controller and the
\* closure know is whether the timeout of this call has run.
OwnOutcome ==
  LET c == mController[controller[call]]
  IN  /\ \A k \in (mPendingEvents \cup outDateEvent) \ {call} :
           controller[k] # controller[call] /\ ~TimedOut(k)
      /\ given[call] = {}
      /\ done[call] = ran[call]
      /\ c.mIsFinished <=> ran[call] = 1
      /\ c.mIsFailed <=> ran[call] = 1
      /\ c.mErrorCode = IF ran[call] = 1 THEN "timeout" ELSE "none"
      /\ seen[call] = {c.mErrorCode} \ {"none"}

\* The request, or what has become of it: there is one response at most, in one
\* piece or two.
OwnResponse ==
  LET pieces == mRecvBuffer \o inbox
  IN  \/ request /\ asked = <<>> /\ rest = 0 /\ pieces = <<>>
      \/ ~request /\ asked = <<call>> /\ rest = 0 /\ pieces = <<>>
      \/ ~request /\ asked = <<>> /\ rest = call /\ pieces = <<<<call, "head">>>>
      \/ /\ ~request /\ asked = <<>> /\ rest = 0
         /\ pieces \in {<<<<call, "whole">>>>, <<<<call, "head">>, <<call, "tail">>>>}

\* The loop is left for the timeout of this call, or with something received.
LeftForAReason ==
  /\ \A i, j \in DOMAIN tasks : tasks[i] = "read" /\ tasks[j] = "read" => i = j
  /\ Queued("read") => inbox # <<>> \/ eof
  /\ ran[call] = 0 /\ ~mIsLooping => mRecvBuffer # <<>>

ClientInv ==
  /\ TypeOK /\ ConnectedIsReached /\ LoopInv /\ FailedIsFinished
  /\ clean /\ InCall => OwnOutcome /\ OwnResponse /\ LeftForAReason
  /\ CleanCallIsAnswered /\ OutcomeIsTrue

\* Every call on an open connection ends with its closure run, by the response
\* or by the timeout:
\* "如果没有得到调用结果，返回超时错误给客户端" (README.md:333).
CallIsAnswered == \A k \in Calls : (call = k /\ InCall) ~> done[k] > 0
=============================================================================
