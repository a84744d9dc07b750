----------------------------- MODULE EventLoop -----------------------------
(***************************************************************************)
(* net/eventloop, net/fd_event and net/wakeup_event: one EventLoop, the    *)
(* thread that owns it, other threads that call its public functions, and  *)
(* the epoll instance and eventfd under it.                                *)
(*                                                                         *)
(* A task is a pair <<kind, fd>>: "add" and "del" are the closures that    *)
(* AddFdEventToEpoll and DeleteFdEventFromEpoll post from another thread,  *)
(* "IN" and "OUT" are the read and write callback of fd's FdEvent.  An     *)
(* FdEvent is named by its fd: closing and reusing descriptors is left out *)
(* here.  The callbacks are those the repository installs: onRead and      *)
(* onWrite of a TCPConnection (of a server or of a client), the callback   *)
(* of the eventfd, and, for a level-triggered descriptor (the listening    *)
(* socket, the timerfd), one that consumes what it was called for.         *)
(***************************************************************************)
EXTENDS Naturals, Sequences, FiniteSets

CONSTANTS Threads,    \* threads other than the one that owns the loop
          ServerFds,  \* sockets of TCPConnectionByServer connections
          ClientFds,  \* sockets of TCPConnectionByClient connections
          LevelFds,   \* descriptors registered without EPOLLET
          WakeFd,     \* the eventfd of mWakeUpEvent
          NoFd,       \* no event of the epoll_wait result is half dispatched
          MaxEvents,  \* MAX_EVENT_NUMBER
          MaxCalls    \* bound: calls of Stop and Delete by another thread

Conns == ServerFds \cup ClientFds
Fds   == Conns \cup LevelFds \cup {WakeFd}

ASSUME ConstantsAssumption ==
  /\ ServerFds \cap ClientFds = {}
  /\ Conns \cap LevelFds = {}
  /\ WakeFd \notin Conns \cup LevelFds
  /\ NoFd \notin Fds
  /\ MaxEvents \in Nat \ {0}
  /\ MaxCalls \in Nat

Bits == {"IN", "OUT", "ERR"}

Task == {"add", "del", "IN", "OUT"} \X Fds

VARIABLES
  mIsLooping,     \* the flag Loop() tests and Stop() clears
  mPendingTasks,  \* the queue under mMutex
  mListenFds,     \* descriptors registered with epoll
  mEpollEvent,    \* per FdEvent, the IN/OUT bits of its mask
  mState,         \* per connection, TCPConnectionState
  tmpTasks,       \* Loop()'s local queue
  pc,             \* where the owner is in Loop(); "idle" outside it
  triggered,      \* per fd, bits of the events[] array not yet looked at
  current,        \* fd of the event being dispatched, or NoFd
  interest,       \* kernel: the mask epoll holds for a registered fd
  ready,          \* kernel: edge-triggered fds on the epoll ready list
  level,          \* kernel: the readiness a poll of the fd reports
  peer,           \* per connection, what its peer has done with it
  caller,         \* per other thread, where it is inside a call
  accepted,       \* per other thread, the connection it has constructed and
                  \* not yet set Connected, or NoFd
  calls           \* per other thread, calls of Stop and Delete so far

owner  == <<mIsLooping, tmpTasks, pc>>
kernel == <<mListenFds, interest, ready, level, peer>>
scan   == <<triggered, current>>
others == <<caller, accepted, calls>>
vars   == <<owner, mPendingTasks, mEpollEvent, mState, scan, kernel, others>>

TypeOK ==
  /\ mIsLooping \in BOOLEAN
  /\ mPendingTasks \in Seq(Task)
  /\ mListenFds \in SUBSET Fds
  /\ mEpollEvent \in [Fds -> SUBSET {"IN", "OUT"}]
  /\ mState \in [Conns -> {"NotConnected", "Connected", "Closed"}]
  /\ tmpTasks \in Seq(Task)
  /\ pc \in {"idle", "check", "swap", "run", "wait", "dispatch"}
  /\ triggered \in [Fds -> SUBSET Bits]
  /\ current \in Fds \cup {NoFd}
  /\ interest \in [Fds -> SUBSET {"IN", "OUT"}]
  /\ ready \in SUBSET Conns
  /\ level \in [Fds -> SUBSET Bits]
  /\ peer \in [Conns -> {"open", "closed", "reset"}]
  /\ caller \in [Threads -> {"idle", "stop", "wakeup"}]
  /\ accepted \in [Threads -> ServerFds \cup {NoFd}]
  /\ calls \in [Threads -> 0 .. MaxCalls]

(***************************************************************************)
(* The kernel.  EPOLLERR is reported whatever the mask says.  An           *)
(* edge-triggered fd is reported only while it is on the ready list: it is *)
(* put there when a bit of its mask becomes ready, and by an ADD or MOD    *)
(* that finds one ready.                                                   *)
(***************************************************************************)
Reported(fd) == level[fd] \cap (interest[fd] \cup {"ERR"})

Available == {fd \in mListenFds : /\ Reported(fd) # {}
                                  /\ fd \in Conns => fd \in ready}

Raise(fd, bits) ==
  /\ level' = [level EXCEPT ![fd] = @ \cup bits]
  /\ ready' = IF /\ fd \in Conns \cap mListenFds
                 /\ bits \cap (interest[fd] \cup {"ERR"}) # {}
              THEN ready \cup {fd} ELSE ready

\* addFdEventToEpoll: EPOLL_CTL_ADD or EPOLL_CTL_MOD with the FdEvent's mask
\* as it is now; lv is the readiness of fd at that moment.
Register(fd, mask, lv) ==
  /\ mListenFds' = mListenFds \cup {fd}
  /\ interest' = [interest EXCEPT ![fd] = mask]
  /\ ready' = IF fd \in Conns /\ lv \cap (mask \cup {"ERR"}) # {}
              THEN ready \cup {fd} ELSE ready

\* deleteFdEventFromEpoll: nothing if fd is not in mListenFds.
Unregister(fd) ==
  /\ mListenFds' = mListenFds \ {fd}
  /\ ready' = ready \ {fd}
  /\ UNCHANGED interest

\* The constructors have run: the eventfd, the timer and the other
\* descriptors their owner registers before it loops are in epoll, and a
\* TCPClient has registered its socket for reading and connected it.  The
\* connections of a server are still to be accepted: NotConnected is the state
\* their constructor gives them (connection.cpp:15).
Init ==
  /\ mIsLooping = FALSE
  /\ mPendingTasks = <<>>
  /\ mListenFds = Fds \ ServerFds
  /\ mEpollEvent = [fd \in Fds |-> IF fd \in ServerFds THEN {} ELSE {"IN"}]
  /\ mState = [c \in Conns |-> IF c \in ServerFds THEN "NotConnected" ELSE "Connected"]
  /\ tmpTasks = <<>>
  /\ pc = "idle"
  /\ triggered = [fd \in Fds |-> {}]
  /\ current = NoFd
  /\ interest = mEpollEvent
  /\ ready = {}
  /\ level = [fd \in Fds |-> IF fd \in Conns THEN {"OUT"} ELSE {}]
  /\ peer = [c \in Conns |-> "open"]
  /\ caller = [t \in Threads |-> "idle"]
  /\ accepted = [t \in Threads |-> NoFd]
  /\ calls = [t \in Threads |-> 0]

-----------------------------------------------------------------------------
(***************************************************************************)
(* The owner: Loop().                                                      *)
(***************************************************************************)
Loop ==
  /\ pc = "idle"
  /\ mIsLooping' = TRUE
  /\ pc' = "check"
  /\ UNCHANGED <<mPendingTasks, mEpollEvent, mState, tmpTasks, scan, kernel, others>>

\* TCPClient::OneCall: ListenWriteEvent on the owner's thread, then Loop().
OneCall(fd) ==
  /\ pc = "idle"
  /\ mState[fd] = "Connected"
  /\ mEpollEvent' = [mEpollEvent EXCEPT ![fd] = @ \cup {"OUT"}]
  /\ Register(fd, mEpollEvent'[fd], level[fd])
  /\ mIsLooping' = TRUE
  /\ pc' = "check"
  /\ UNCHANGED <<mPendingTasks, mState, tmpTasks, scan, level, peer, others>>

Check ==
  /\ pc = "check"
  /\ pc' = IF mIsLooping THEN "swap" ELSE "idle"
  /\ UNCHANGED <<mIsLooping, mPendingTasks, mEpollEvent, mState, tmpTasks, scan,
                 kernel, others>>

\* Mutant: the queue is copied, not swapped.
SwapCopies ==
  /\ pc = "swap"
  /\ tmpTasks' = mPendingTasks
  /\ pc' = "run"
  /\ UNCHANGED <<mIsLooping, mPendingTasks, mEpollEvent, mState, scan, kernel, others>>

Swap ==
  /\ pc = "swap"
  /\ tmpTasks' = mPendingTasks
  /\ mPendingTasks' = tmpTasks
  /\ pc' = "run"
  /\ UNCHANGED <<mIsLooping, mEpollEvent, mState, scan, kernel, others>>

\* Pop the front task, which the rest of the action executes.
Take(task) ==
  /\ pc = "run"
  /\ tmpTasks # <<>>
  /\ Head(tmpTasks) = task
  /\ tmpTasks' = Tail(tmpTasks)
  /\ UNCHANGED <<pc, mPendingTasks, scan, others>>

RunAdd(fd) ==
  /\ Take(<<"add", fd>>)
  /\ Register(fd, mEpollEvent[fd], level[fd])
  /\ UNCHANGED <<mIsLooping, mEpollEvent, mState, level, peer>>

RunDelete(fd) ==
  /\ Take(<<"del", fd>>)
  /\ Unregister(fd)
  /\ UNCHANGED <<mIsLooping, mEpollEvent, mState, level, peer>>

\* The eventfd's callback reads until EAGAIN, whatever was written to it.
RunWakeUp ==
  /\ Take(<<"IN", WakeFd>>)
  /\ level' = [level EXCEPT ![WakeFd] = {}]
  /\ UNCHANGED <<mIsLooping, mListenFds, mEpollEvent, mState, interest, ready, peer>>

\* onAccept or onTimer: one readiness is consumed, there may be another.
RunLevel(fd) ==
  /\ Take(<<"IN", fd>>)
  /\ level' \in {level, [level EXCEPT ![fd] = @ \ {"IN"}]}
  /\ UNCHANGED <<mIsLooping, mListenFds, mEpollEvent, mState, interest, ready, peer>>

\* A callback of a connection that clear() has closed, or that the accepting
\* thread has not yet set Connected, returns at once: what it was called for
\* is consumed.
RunUnconnected(fd) ==
  /\ mState[fd] # "Connected"
  /\ \E kind \in {"IN", "OUT"} : Take(<<kind, fd>>)
  /\ UNCHANGED <<mIsLooping, mEpollEvent, mState, kernel>>

\* onRead, read() fails: the error is consumed and nothing else happens.
ReadError(fd) ==
  /\ mState[fd] = "Connected"
  /\ "ERR" \in level[fd]
  /\ Take(<<"IN", fd>>)
  /\ level' = [level EXCEPT ![fd] = @ \ {"ERR"}]
  /\ UNCHANGED <<mIsLooping, mListenFds, mEpollEvent, mState, interest, ready, peer>>

\* Mutant: clear() closes the socket and leaves it in mListenFds.
ReadEOFKeepsFd(fd) ==
  /\ mState[fd] = "Connected"
  /\ peer[fd] # "open" /\ "ERR" \notin level[fd]
  /\ Take(<<"IN", fd>>)
  /\ mState' = [mState EXCEPT ![fd] = "Closed"]
  /\ UNCHANGED <<mIsLooping, mEpollEvent, kernel>>

\* onRead, read() returns 0 after what was there to read: clear().
ReadEOF(fd) ==
  /\ mState[fd] = "Connected"
  /\ peer[fd] # "open" /\ "ERR" \notin level[fd]
  /\ Take(<<"IN", fd>>)
  /\ Unregister(fd)
  /\ mState' = [mState EXCEPT ![fd] = "Closed"]
  /\ UNCHANGED <<mIsLooping, mEpollEvent, level, peer>>

\* Mutant: one read() instead of reading to EAGAIN.
ReadStopOnce(fd) ==
  /\ mState[fd] = "Connected"
  /\ peer[fd] = "open"
  /\ Take(<<"IN", fd>>)
  /\ mIsLooping' = FALSE
  /\ level' = [level EXCEPT ![WakeFd] = IF mIsLooping THEN {"IN"} ELSE @]
  /\ UNCHANGED <<mListenFds, mEpollEvent, mState, interest, ready, peer>>

\* onRead of a server connection reads to EAGAIN, executes, and listens for
\* writability: ListenWriteEvent.
ReadExecute(fd) ==
  /\ mState[fd] = "Connected"
  /\ peer[fd] = "open"
  /\ Take(<<"IN", fd>>)
  /\ level' = [level EXCEPT ![fd] = @ \ {"IN"}]
  /\ mEpollEvent' = [mEpollEvent EXCEPT ![fd] = @ \cup {"OUT"}]
  /\ Register(fd, mEpollEvent'[fd], level'[fd])
  /\ UNCHANGED <<mIsLooping, mState, peer>>

\* onRead of a client connection reads to EAGAIN and calls Stop() on its own
\* loop, which writes to the eventfd unless the loop is already stopped.
ReadStop(fd) ==
  /\ mState[fd] = "Connected"
  /\ peer[fd] = "open"
  /\ Take(<<"IN", fd>>)
  /\ mIsLooping' = FALSE
  /\ level' = [level EXCEPT ![fd] = @ \ {"IN"},
                            ![WakeFd] = IF mIsLooping THEN {"IN"} ELSE @]
  /\ UNCHANGED <<mListenFds, mEpollEvent, mState, interest, ready, peer>>

\* onTimer of a client runs the timeout of a call, which calls Stop().
TimeoutStop(fd) ==
  /\ ClientFds # {}
  /\ Take(<<"IN", fd>>)
  /\ mIsLooping' = FALSE
  /\ level' = [level EXCEPT ![fd] = {},
                            ![WakeFd] = IF mIsLooping THEN {"IN"} ELSE @]
  /\ UNCHANGED <<mListenFds, mEpollEvent, mState, interest, ready, peer>>

\* onWrite, the send buffer is empty in the end: CancelListenWriteEvent.
WriteAll(fd) ==
  /\ mState[fd] = "Connected"
  /\ Take(<<"OUT", fd>>)
  /\ mEpollEvent' = [mEpollEvent EXCEPT ![fd] = @ \ {"OUT"}]
  /\ Register(fd, mEpollEvent'[fd], level[fd])
  /\ UNCHANGED <<mIsLooping, mState, level, peer>>

\* onWrite, write() says EAGAIN: the socket buffer is full.
WriteAgain(fd) ==
  /\ mState[fd] = "Connected"
  /\ "ERR" \notin level[fd]
  /\ Take(<<"OUT", fd>>)
  /\ level' = [level EXCEPT ![fd] = @ \ {"OUT"}]
  /\ UNCHANGED <<mIsLooping, mListenFds, mEpollEvent, mState, interest, ready, peer>>

RunTask ==
  \/ \E fd \in Fds : RunAdd(fd) \/ RunDelete(fd)
  \/ RunWakeUp
  \/ \E fd \in LevelFds : RunLevel(fd) \/ TimeoutStop(fd)
  \/ \E fd \in Conns : \/ RunUnconnected(fd) \/ ReadError(fd) \/ ReadEOF(fd)
                       \/ WriteAll(fd) \/ WriteAgain(fd)
  \/ \E fd \in ServerFds : ReadExecute(fd)
  \/ \E fd \in ClientFds : ReadStop(fd)

\* Mutant: a round may leave tasks in the local queue.
DrainedEarly ==
  /\ pc = "run"
  /\ pc' = "wait"
  /\ UNCHANGED <<mIsLooping, mPendingTasks, mEpollEvent, mState, tmpTasks, scan,
                 kernel, others>>

Drained ==
  /\ pc = "run"
  /\ tmpTasks = <<>>
  /\ pc' = "wait"
  /\ UNCHANGED <<mIsLooping, mPendingTasks, mEpollEvent, mState, tmpTasks, scan,
                 kernel, others>>

\* epoll_wait with an infinite timeout: it returns when a registered fd is
\* available, with at most MaxEvents events, all it could report of each.
EpollWait ==
  /\ pc = "wait"
  /\ \E S \in (SUBSET Available) \ {{}} :
       /\ Cardinality(S) <= MaxEvents
       /\ S # Available => Cardinality(S) = MaxEvents
       /\ triggered' = [fd \in Fds |-> IF fd \in S THEN Reported(fd) ELSE {}]
       /\ ready' = ready \ S
  /\ pc' = "dispatch"
  /\ UNCHANGED <<mIsLooping, mPendingTasks, mEpollEvent, mState, tmpTasks, current,
                 mListenFds, interest, level, peer, others>>

\* A signal ends epoll_wait with EINTR, no event is dispatched.
EpollInterrupted ==
  /\ pc = "wait"
  /\ Available = {}
  /\ pc' = "check"
  /\ UNCHANGED <<mIsLooping, mPendingTasks, mEpollEvent, mState, tmpTasks, scan,
                 kernel, others>>

\* The three tests of one event, in order: IN and OUT queue a callback, ERR
\* deletes the fd (no error callback is ever installed).  The next event may
\* be any of the others.
FirstBit(bits) == CHOOSE bit \in bits : \/ bit = "IN"
                                        \/ bit = "OUT" /\ "IN" \notin bits
                                        \/ bit = "ERR" /\ bits = {"ERR"}

\* Mutants: "else if" between the tests of IN and OUT; a callback queued for
\* an error although none is installed.
DispatchOneBit(fd, bit) ==
  /\ current' = NoFd
  /\ triggered' = [triggered EXCEPT ![fd] = {}]
  /\ mPendingTasks' = Append(mPendingTasks, <<bit, fd>>)
  /\ UNCHANGED kernel

DispatchErrorTask(fd, bit) ==
  /\ current' = IF triggered[fd] = {bit} THEN NoFd ELSE fd
  /\ triggered' = [triggered EXCEPT ![fd] = @ \ {bit}]
  /\ mPendingTasks' = Append(mPendingTasks, <<bit, fd>>)
  /\ UNCHANGED kernel

DispatchBit(fd, bit) ==
  /\ current' = IF triggered[fd] = {bit} THEN NoFd ELSE fd
  /\ triggered' = [triggered EXCEPT ![fd] = @ \ {bit}]
  /\ \/ /\ bit # "ERR"
        /\ mPendingTasks' = Append(mPendingTasks, <<bit, fd>>)
        /\ UNCHANGED kernel
     \/ /\ bit = "ERR"
        /\ Unregister(fd)
        /\ UNCHANGED <<mPendingTasks, level, peer>>

Dispatch(fd) ==
  /\ pc = "dispatch"
  /\ triggered[fd] # {}
  /\ current \in {NoFd, fd}
  /\ DispatchBit(fd, FirstBit(triggered[fd]))
  /\ UNCHANGED <<owner, mEpollEvent, mState, others>>

Dispatched ==
  /\ pc = "dispatch"
  /\ \A fd \in Fds : triggered[fd] = {}
  /\ pc' = "check"
  /\ UNCHANGED <<mIsLooping, mPendingTasks, mEpollEvent, mState, tmpTasks, scan,
                 kernel, others>>

OwnerStep ==
  \/ Check \/ Swap \/ RunTask \/ Drained \/ EpollWait \/ Dispatched
  \/ \E fd \in Fds : Dispatch(fd)

-----------------------------------------------------------------------------
(***************************************************************************)
(* Other threads.  addTask pushes under mMutex and calls Wakeup() after    *)
(* releasing it.                                                           *)
(***************************************************************************)
\* The thread is neither inside a call nor in the middle of onAccept.
Free(t) == caller[t] = "idle" /\ accepted[t] = NoFd

AddTask(t, task) ==
  /\ Free(t)
  /\ mPendingTasks' = Append(mPendingTasks, task)
  /\ caller' = [caller EXCEPT ![t] = "wakeup"]

\* onAccept, the constructor of a server TCPConnection, run by the accepting
\* thread: SetFdEvent on an FdEvent just made, then AddFdEventToEpoll.
AddFdEvent(t, fd) ==
  /\ mEpollEvent[fd] = {}
  /\ mEpollEvent' = [mEpollEvent EXCEPT ![fd] = {"IN"}]
  /\ AddTask(t, <<"add", fd>>)
  /\ accepted' = [accepted EXCEPT ![t] = fd]
  /\ UNCHANGED <<owner, mState, scan, kernel, calls>>

\* The statement of onAccept behind the constructor; what it does after that
\* is with tables the owner has no part in.
SetState(t) ==
  /\ caller[t] = "idle"
  /\ accepted[t] # NoFd
  /\ mState' = [mState EXCEPT ![accepted[t]] = "Connected"]
  /\ accepted' = [accepted EXCEPT ![t] = NoFd]
  /\ UNCHANGED <<owner, mPendingTasks, mEpollEvent, scan, kernel, caller, calls>>

Call(t) ==
  /\ calls[t] < MaxCalls
  /\ calls' = [calls EXCEPT ![t] = @ + 1]

DeleteFdEvent(t, fd) ==
  /\ Call(t)
  /\ AddTask(t, <<"del", fd>>)
  /\ UNCHANGED <<owner, mEpollEvent, mState, scan, kernel, accepted>>

Wakeup(t) ==
  /\ caller[t] = "wakeup"
  /\ caller' = [caller EXCEPT ![t] = "idle"]
  /\ level' = [level EXCEPT ![WakeFd] = {"IN"}]
  /\ UNCHANGED <<owner, mPendingTasks, mEpollEvent, mState, scan, mListenFds,
                 interest, ready, peer, accepted, calls>>

StopCheck(t) ==
  /\ Free(t)
  /\ Call(t)
  /\ caller' = IF mIsLooping THEN [caller EXCEPT ![t] = "stop"] ELSE caller
  /\ UNCHANGED <<owner, mPendingTasks, mEpollEvent, mState, scan, kernel, accepted>>

StopSet(t) ==
  /\ caller[t] = "stop"
  /\ mIsLooping' = FALSE
  /\ caller' = [caller EXCEPT ![t] = "wakeup"]
  /\ UNCHANGED <<mPendingTasks, mEpollEvent, mState, tmpTasks, pc, scan, kernel,
                 accepted, calls>>

OtherStep(t) ==
  \/ \E fd \in ServerFds : AddFdEvent(t, fd) \/ DeleteFdEvent(t, fd)
  \/ Wakeup(t)
  \/ SetState(t)
  \/ StopCheck(t)
  \/ StopSet(t)

-----------------------------------------------------------------------------
(***************************************************************************)
(* The peers: data to read, room to write, a FIN, a reset.                 *)
(***************************************************************************)
Arrive(fd, bit) ==
  /\ fd \in Conns => \/ peer[fd] = "open"
                     \/ peer[fd] = "closed" /\ bit = "OUT"
  /\ Raise(fd, {bit})
  /\ UNCHANGED <<owner, mPendingTasks, mEpollEvent, mState, scan, mListenFds,
                 interest, peer, others>>

PeerClose(fd) ==
  /\ peer[fd] = "open"
  /\ peer' = [peer EXCEPT ![fd] = "closed"]
  /\ Raise(fd, {"IN"})
  /\ UNCHANGED <<owner, mPendingTasks, mEpollEvent, mState, scan, mListenFds,
                 interest, others>>

PeerReset(fd) ==
  /\ peer[fd] # "reset"
  /\ peer' = [peer EXCEPT ![fd] = "reset"]
  /\ Raise(fd, Bits)
  /\ UNCHANGED <<owner, mPendingTasks, mEpollEvent, mState, scan, mListenFds,
                 interest, others>>

Environment ==
  \/ \E fd \in Conns : \/ PeerClose(fd) \/ PeerReset(fd)
                       \/ \E bit \in {"IN", "OUT"} : Arrive(fd, bit)
  \/ \E fd \in LevelFds : Arrive(fd, "IN")
  \/ EpollInterrupted

Next ==
  \/ Loop
  \/ \E fd \in ClientFds : OneCall(fd)
  \/ OwnerStep
  \/ \E t \in Threads : OtherStep(t)
  \/ Environment

Spec == Init /\ [][Next]_vars

\* The owner's thread is scheduled, and a thread that is inside a call
\* finishes it.  Nobody has to call Loop(), and the peers owe nothing.
Fairness ==
  /\ WF_vars(OwnerStep)
  /\ \A t \in Threads : WF_vars(Wakeup(t) \/ SetState(t) \/ StopSet(t))

FairSpec == Spec /\ Fairness

-----------------------------------------------------------------------------
In(task, q) == \E i \in DOMAIN q : q[i] = task

AtMostOnce(task, q) ==
  \A i, j \in DOMAIN q : q[i] = task /\ q[j] = task => i = j

InQueue(task) == In(task, tmpTasks) \/ In(task, mPendingTasks)

Callbacks == {"IN", "OUT"} \X Fds

\* The kernel owes the owner a report of fd's bit.
Pending(fd, bit) == fd \in mListenFds /\ bit \in level[fd] \cap interest[fd]

\* Every task handed to the loop is run, in the order of the pushes and once:
\* the two queues and their swap (eventloop.cpp:46-56) behave as one queue.
Queue == INSTANCE TaskQueue WITH queue <- tmpTasks \o mPendingTasks

TaskOrder == Queue!Spec

\* A callback is in the queues at most once, and never while the same bit
\* waits in events[]: each event taken from epoll runs its callback once,
\* even if the loop was stopped and entered again in between.
NoDuplicateCallback ==
  \A bit \in {"IN", "OUT"}, fd \in Fds :
    LET task == <<bit, fd>>
    IN  /\ AtMostOnce(task, tmpTasks) /\ AtMostOnce(task, mPendingTasks)
        /\ ~(In(task, tmpTasks) /\ In(task, mPendingTasks))
        /\ bit \in triggered[fd] => ~InQueue(task)

\* A report of fd's bit is on its way to the callback: the descriptor is on
\* the ready list, or the bit is in events[], or the callback is queued.
Tracked(fd, bit) == fd \in ready \/ bit \in triggered[fd] \/ InQueue(<<bit, fd>>)

Lost(fd, bit) == Pending(fd, bit) /\ ~Tracked(fd, bit)

\* onRead is run before the accepting thread's SetState(Connected), and returns
\* with nothing read (connection.cpp:69).
ReadTooEarly(fd) == mState[fd] = "NotConnected" /\ Take(<<"IN", fd>>)

\* No edge is lost but one: a registered edge-triggered descriptor that is
\* ready for something it listens for is on its way to being handled, whatever
\* is run, registered, stopped or refused, unless it is a readable one whose
\* onRead came before its connection was Connected.  Registering again after
\* each change of the mask (connection.cpp:40, 48, 64) is what re-arms it.
NoNewLoss ==
  \A fd \in Conns, bit \in {"IN", "OUT"} :
    Lost(fd, bit)' => Lost(fd, bit) \/ (bit = "IN" /\ ReadTooEarly(fd))

NoLostEdge ==
  /\ \A fd \in Conns, bit \in {"IN", "OUT"} : ~Lost(fd, bit)
  /\ [][NoNewLoss]_vars

\* The parts of the inductive invariant behind the properties above.

\* Where the owner is says which queues can hold what: the local queue is
\* empty outside the run phase, events[] outside the dispatch phase, and the
\* callbacks of a round are all run before the next epoll_wait.
PhaseInv ==
  /\ pc # "run" => tmpTasks = <<>>
  /\ pc # "dispatch" => \A fd \in Fds : triggered[fd] = {}
  /\ pc \in {"run", "wait"} => \A task \in Callbacks : ~In(task, mPendingTasks)

\* A server connection before its add task has run.
New(fd) == mEpollEvent[fd] = {} \/ InQueue(<<"add", fd>>)

\* Each connection is added once, and nothing is called for it before.
AddedOnce ==
  \A fd \in Fds :
    LET add == <<"add", fd>>
    IN  /\ AtMostOnce(add, tmpTasks) /\ AtMostOnce(add, mPendingTasks)
        /\ ~(In(add, tmpTasks) /\ In(add, mPendingTasks))
        /\ mEpollEvent[fd] # {} => "IN" \in mEpollEvent[fd]
        /\ InQueue(add) => mEpollEvent[fd] # {}
        /\ New(fd) => /\ fd \in ServerFds \ mListenFds
                      /\ mState[fd] # "Closed"
                      /\ triggered[fd] = {}
                      /\ \A bit \in {"IN", "OUT"} : ~InQueue(<<bit, fd>>)

\* clear() deletes before it closes, and nothing adds a closed connection.
ClosedIsDeleted ==
  \A fd \in Conns : mState[fd] = "Closed" => fd \notin mListenFds

\* Writability is listened for only once the connection is Connected.
EarlyListensToRead ==
  \A fd \in Conns : mState[fd] = "NotConnected" =>
    "OUT" \notin mEpollEvent[fd] \cup interest[fd]

\* An error of a registered connection will be, or is being, reported.
NoLostError ==
  \A fd \in Conns :
    fd \in mListenFds /\ "ERR" \in level[fd]
      => fd \in ready \/ "ERR" \in triggered[fd]

IInv == /\ TypeOK /\ PhaseInv /\ NoDuplicateCallback /\ AddedOnce
        /\ ClosedIsDeleted /\ EarlyListensToRead /\ NoLostError

\* While the loop runs, what is ready to be read on a connection is read, or
\* the descriptor leaves epoll, or the loop returns.
ReadinessHandled ==
  \A fd \in Conns :
    (Pending(fd, "IN") /\ pc # "idle") ~> (~Pending(fd, "IN") \/ pc = "idle")

\* A task posted by another thread is run, or the loop is stopped: the
\* wakeup is there for that (comment at eventloop.cpp:108-109).
PostedTaskRuns ==
  \A fd \in ServerFds :
    (InQueue(<<"add", fd>>) /\ pc # "idle")
      ~> (~InQueue(<<"add", fd>>) \/ pc = "idle")
=============================================================================
