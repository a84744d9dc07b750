# Verification of ytheServer in TLA+

ytheServer is an RPC framework in C++: a reactor on epoll, a timer, an
asynchronous logger, a TCP server with IO threads, a TCP client, a buffer and a
coder for its own protocol, and a channel that plugs it into protobuf.  This
directory has TLA+ modules of it, translated from the source, TLC
configurations that check them on small instances, and proofs that TLAPS
checks for every value of the constants.

Paths below are relative to the repository; `net/...` and the like stand for
`src/net/...` in it.  `README.md:n` with a line number is the repository's.

## 1. The system

| Component | State | Operations |
|---|---|---|
| EventLoop, FdEvent, WakeUpEvent (`net/`) | mPendingTasks under mMutex, mIsLooping, mListenFds and the epoll instance behind it, an eventfd; per FdEvent the mask and the callbacks | Loop, Stop, Wakeup, AddFdEventToEpoll, DeleteFdEventFromEpoll, AddTimerEvent |
| Timer, TimerEvent (`net/`) | multimap of pending events by wall-clock time, a timerfd on the monotonic clock | AddTimerEvent, onTimer, resetTimerFd, SetCancel |
| TCPConnection (`tcp/connection`) | mState, two TCPBuffers, the FdEvent's listen mask | onRead, onWrite, execute, clear, Listen*/Cancel* |
| TCPServer, TCPAcceptor (`tcp/`) | mConnClients, mClientFdEventsMap, the listening socket, a 10 s timer event | onAccept, onClearClientTimerFunc, Start |
| IOThread, IOThreadPool (`net/`) | a thread with an EventLoop each, mInitDone and mStart with a condition variable each, the round-robin mIndex | Init, Start, Join, GetIOThread |
| TCPClient (`tcp/tcp_client`) | a connection and an EventLoop that runs only inside OneCall | TCPConnect, OneCall, TCPDisConnect, AddTimerEvent |
| RpcChannel, RpcController (`rpc/`) | per call a controller (id, mIsFinished, error) that may have been another call's, a timeout event | CallMethod, Reset |
| TCPBuffer (`tcp/buffer`) | a vector, mReadIndex, mWriteIndex | Write/ReadFromBuffer, Move*Index, ResizeBuffer, adjustBuffer |
| TinyPBCoder (`coder/`) | none | Encode, Decode |
| RpcDispatcher (`rpc/`) | the services, registered before Start | Dispatch, RegisterService |
| Logger, AsyncLogger (`log/`) | mBuffer, the queue of blocks under a mutex and a condition variable, mIsStop, the file's date and number, the FILE | PushLog, syncLoop, stop, loop, Flush |
| Config, IPNetAddr, utils | set once at start | - |

**How they interact.**  Every thread's loop is single-threaded; threads meet in
`EventLoop::addTask`, which appends to another loop's queue under its mutex and
writes its eventfd.  The server's main thread accepts, constructs the
TCPConnection - which registers itself with the loop of an IO thread, before
the next statement makes it Connected - and later destroys the connections whose state it reads as Closed; the IO thread
runs their onRead and onWrite and sets that state.  The client's loop runs in
the user's thread, inside a call, and is stopped by onRead or by the call's
timeout.  All threads append to the logger's buffer; the main thread's timer
moves it as a block to a queue that a thread of its own writes to files.

**What is hard, and what makes each component correct.**

- *EventLoop*: tasks posted while the loop runs, in the two queues that are
  swapped; edge-triggered readiness, which is reported once; callbacks left in
  the queue when Loop() is left and entered again; errors that delete a
  descriptor whose callbacks are queued.  Correct: tasks run once and in order,
  no edge of a connection that is Connected is forgotten by both kernel and loop,
  a posted task runs.
- *Timer*: two clocks, one timerfd for many events, events that add themselves
  again.  Correct: each event fires once per time it was added, not early, and
  at last.
- *IOThreadPool*: threads that are made, wait and are told to start, and a
  client that connects meanwhile.  Correct: every thread gets into its loop, and
  no connection is handed to one that has none.
- *TCPConnection, TCPServer, IOThread*: three threads of control and a client
  act on one connection without locks; descriptors are used again.  Correct:
  requests are answered, closed connections reclaimed, and nobody uses what is
  destroyed.
- *TCPClient, RpcChannel, RpcController*: calls that time out while their
  answers are on the way, leftovers of one call met by the next, a controller
  used again while the timeout of its last call is pending.  Correct: a call
  returns, its closure is run once, with its own answer, and finds in the
  controller what has happened.
- *TCPBuffer*: indexes, growth, compaction.  Correct: it is a queue of bytes.
- *Logger*: lines pass through two buffers, a queue and numbered files; shutdown
  and restart.  Correct: no line lost, doubled or out of order.
- *TinyPBCoder, RpcDispatcher*: framing by markers and lengths in a byte stream
  that arrives in pieces; four lookups that can fail in turn.  Correct: what is
  decoded is what was encoded, and each request is answered, once, in order,
  with the answer it is due.

`PROJECT.json` lists the hazards one by one, at their lines, with the properties
aimed at them.

## 2. Modules

| Module | Models | Composition |
|---|---|---|
| `TaskQueue` | abstract: one FIFO queue of tasks | refined by EventLoop |
| `EventLoop` | net/eventloop, fd_event, wakeup_event, and connections as callbacks | - |
| `TimerService` | abstract: events scheduled and fired | refined by Timer |
| `Timer` | net/timer, timer_event | - |
| `AsyncLogger` | log/logger, log/async_logger | - |
| `RpcController` | rpc/rpc_controller, as operators on a record | - |
| `RpcClient` | rpc/rpc_channel, tcp/tcp_client, the client's connection | extends RpcController, instantiates Timer |
| `IOThreadPool` | net/io_thread, net/io_thread_pool | - |
| `TCPServer` | tcp/tcp_server, acceptor, connection, the IO threads' loops, clients | extends IOThreadPool; uses the loop as one queue, which is EventLoop's theorem |
| `ByteQueue` | abstract: a queue of bytes | refined by TCPBuffer |
| `TCPBufferOps` | the member functions of tcp/buffer | - |
| `TCPBuffer` | the calls its users make, in any order | extends TCPBufferOps |
| `TinyPBCoder` | coder/tinypb_coder: Encode and a round of Decode | extends TCPBufferOps |
| `RpcDispatcher` | rpc/rpc_dispatcher | - |
| `RpcService` | abstract: requests and their answers | refined by RpcConnection |
| `RpcConnection` | a connection byte by byte: CallMethod's encoding, both onWrite, onRead, execute | extends TinyPBCoder and RpcDispatcher |
| `TCPBufferOpsProofs` | lemmas about the member functions of a buffer | extends TCPBufferOps; used by the two below |
| `EventLoopProofs`, `TimerProofs`, `TCPBufferProofs`, `TCPServerProofs`, `AsyncLoggerProofs`, `RpcClientProofs`, `RpcConnectionProofs` | theorems | extend the module |
| `MC...` | constants and symmetry for TLC | extend the module |

Names of variables and actions are the code's where it has one.  An operator
introduced by a comment "Mutant" is a wrong version of the one it stands
before; no specification uses it.  `PROJECT.json` names, for each checked
property, a mutant that violates it.

**EventLoop.**  The granularity is that of the code's critical sections: `Check`
(the test of mIsLooping), `Swap`, one `Run...`/`Read...`/`Write...` per task of
the local queue, `Drained`, `EpollWait`, `DispatchBit` per bit of an event;
other threads do `AddTask` and `Wakeup` as separate steps, since the mutex is
released between them.  The kernel side keeps, per descriptor, the mask
(`interest`), whether it is on the ready list (`ready`) and what a poll would
say (`level`); EPOLL_CTL_MOD puts an edge-triggered descriptor that is ready
back on the list, as Linux does.  Descriptors are not reused here.  A server
connection is `NotConnected` from its constructor, whose `AddFdEvent` posts the
registration, until the accepting thread's next step, `SetState`; in between the
owner may register it, have it reported and call onRead, which returns at once
(`RunUnconnected`, the step of a closed connection's callbacks too).

**Timer.**  Times are kept relative to now, so that time can pass for ever in a
finite model: `due[e]` is the time an event has left on the wall clock, `left`
what the timerfd has left on its own.  `StepBack` sets the wall clock back.
`Grace` is the 100 ms the code waits for an event that is overdue.

**AsyncLogger.**  A line is its number.  `PushBegin`/`PushEnd` split a push_back
that is preempted; a `MoveBuffer` in between - the swap is not under the mutex,
see section 6 - may lose lines, or end the process.  `Open` is fopen, which may
fail; between two files `mFile` is closed, and the `Flush` of a main thread on
its way out may find it so.  `Stop`, `SetStop`, `Flush` and `Join` are that way,
`Restart` a new process that meets the old files.

**RpcClient.**  One channel, whose user connects - `TCPConnect` and
`ConnectAgain` are the two calls of connect() - and calls again and again, each
time with a new controller or an earlier call's, Reset or not (`States`), on the
`Timer` of its loop.  A response is in flight as a whole or as a head and a
tail, and the server may answer it with an error or with what cannot be parsed
(`LastFails`).  Every callback that an earlier call left behind is still in
`tasks` when the next one enters the loop.  `clean` marks a call that finds
nothing of earlier ones; what is promised is promised to such a call.

**IOThreadPool, TCPServer.**  The main thread makes the threads one after
another, waiting for each, and starts them; each thread has a `phase`, with the
flag and its notification as steps of their own.  A thread in its loop is
`Looping`, and the main thread accepts only from `MainLooping` on.  Connections
are told apart from descriptors, and the kernel hands out the lowest free one.
`Accept` ends where the constructor has posted the registration, and
`SetConnected` is the rest of onAccept; clear() is two steps (`ReadEOF`,
`ClearConn`) as the main thread can see one without the other.  Requests and
answers are counts.  A callback of a connection that is freed finds the old
state or ends the process (`RunFreed`).

**TCPBufferOps, TCPBuffer.**  The member functions are operators on a record of
the members; the actions are the calls its users make.  The array is kept byte
by byte, since what matters is which byte ends where.

**TinyPBCoder, RpcDispatcher, RpcConnection.**  A byte is a digit, and the
integers of a frame have two of them instead of four bytes: enough for an
integer to be half there, to equal a start byte, or to reach beyond the array.
`Starts`, `Matches` and `startIndex` are the scan for a frame, `Layout` the
indexes of its fields, `Parses` the tests between them.  A round of Decode's loop
is `DecodeMessage` if it pushes a message, and `DecodeOutside` if it reads what is
not the buffer's: the process may crash or, if the garbage there looks like an
end byte, push messages for ever.  `Execute` is the round that ends the loop and
the rest of execute().  `Dispatch` keeps the order of the early returns; the
abstract `RpcService` says only which requests are served, by the full names
of the registered methods.  `Call` replaces the client's send buffer, as OneCall
does.  `TinyPBProtocol` is the struct without its length
members: nothing reads them but the call of Encode or Decode that sets them.

## 3. Runs

Every run ends within three minutes on two cores.  Those marked V are meant to
be violated: section 6.

| Run | Shows | Bounds |
|---|---|---|
| loop_io | TypeOK; NoDuplicateCallback: an edge leads to one callback; NoLostEdge: readiness of a connection that is with the kernel, in the events array or in a queue gets lost in one step only, an onRead before its connection is Connected (finding 4); IInv, the inductive invariant; TaskOrder: mPendingTasks and tmpTasks are one FIFO | two server connections, one other thread, an events array of 2 with 3 descriptors, so that it can be too small |
| loop_client | the same edge properties, where that one step cannot occur, when callbacks and the timeout stop the loop and it is entered again, any number of times; ReadinessHandled: what can be read is read if the owner is scheduled | a client connection, the timerfd, one other thread |
| loop_wakeup V | PostedTaskRuns | two connections handed over by one thread |
| timer_all | IInv; TimerContract: refinement of TimerService; ArmedRuns: an armed timerfd leads to an event | three events of different intervals, two repeated, one cancellable; two steps back |
| timer_two V | PendingEventRuns | two events, no step back |
| log_all | Pipeline: every line logged is in a file, in the queue or in a buffer, but for those the swap or the end of their process took, and the files of one process, by date and number, are in the order of the lines; LogInv: no line twice, no file out of order, with its strengthening; FullFileIsDone; BufferedIsWritten: no notification is missed, as long as the timer runs syncLoop; StopEnds: a process that leaves main() ends unless the writing thread is asleep | 4 lines, files of 2, two dates, two logging threads, one restart |
| rpc_all | CleanCallIsAnswered: a call that starts with nothing left over has run its closure when it returns, once unless it timed out and with no other call's answer, unless a part of the answer is all that came; OutcomeIsTrue: the closure reads in the controller what has happened; ConnectedIsReached: no call uses a connection the kernel does not have; ClientInv, the inductive invariant; ArmedCallReturns | two calls, with two controllers or one, a timeout of 2 ticks |
| rpc_answer V | CallIsAnswered | one call |
| server_all | PoolStarts: every thread gets into its loop; HandedToLoop: no connection is handed to a thread without one; ServerInv, the inductive invariant; FdMapAgrees: the two tables agree although descriptors recur; RegisteredIsAlive: no epoll holds a closed or destroyed connection; LeftoverIsOneWrite; RequestAnswered: each request is answered while its connection stays open; FinReclaimed | two clients that connect, send, close, reset, of which one may send a next request, at any moment of the answer to its first; two descriptors, two IO threads; after an answer, mask and ready list are as before the request, so a third request meets what the second met |
| server_early V | RequestIsRead | one client, one thread |
| buffer_all | BufferInv: indexes, compaction, zeros beyond the write index; Bounded memory; ByteOrder: refinement of ByteQueue; CallsAreExact | capacities 1, 2, 3, 6, chunks of up to 3 of two byte values, 5 bytes held |
| connection_all | StreamInv: the bytes in both buffers and the socket are the frames of the requests not decoded, and what is decoded are the first requests, field by field; Unsplit, a part of StreamInv: nothing with a second start byte is decoded in part; NothingLeft: no request that has come whole is left when onRead returns; AnsweredInOrder: refinement of RpcService; the two together are the inductive invariant; BeyondIfTooLong: the scan reads beyond the array only for a request that does not fit behind the read index; Answered: every request's answer is written | two requests of seven kinds, one with a frame in its payload; buffers of the length of a short frame, so that they grow, are compacted and are read beyond; pieces of 3 bytes or all |

**Why these bounds are enough.**  The faults these properties speak of need few
actors: two tasks to be out of order, one other thread to post between two
statements, a second call to meet the leftovers of a first, a second connection
to get a descriptor again, a file to fill and a second one to be opened, a
buffer to be full, grown and compacted.  Each mutant - a dropped copy, an
event dispatched for one of its bits, a read that stops short of EAGAIN, an
entry left in a map, an index not wrapped, an end byte left in a buffer - is
found within them.  Three
clients on two descriptors (5.3 million states) satisfied the safety properties
of TCPServer too, and so did the 20 million first states of RpcClient with three
calls.  The proofs lift the bounds from the safety properties altogether.

Bounds that are part of a module and not of the code are named in it: MaxCalls
(calls of another thread in EventLoop; calls made in RpcClient), MaxSteps
(settings of the clock), MaxLines, MaxDate, MaxRestarts, MaxRequests, MaxLen,
Pieces (what read and write take when not all).

**Deadlock** is checked except in AsyncLogger, RpcClient, TCPServer and
RpcConnection, which may really stop: nobody has to log, call or connect again, and the process may
end.

## 4. Fairness

Weak fairness is assumed of threads that are runnable: the owner of a loop that
has tasks or reported events, another thread in the middle of a post, the
thread inside a call, the writing thread, a logging thread in the middle of a
push, a thread of the pool on the way to its loop, the main thread while it
starts the pool, in the middle of onAccept and on its way out of main().  It is assumed of time (`Tick`).
Nothing is assumed of the environment - peers need not send, answer or close,
nobody needs to log, condition variables do not wake up on their own.  The
kernel's scheduler justifies the first, the clock the second.

RpcConnection writes weak fairness out, with the guard of an action in place of
ENABLED, which TLC evaluates too slowly there; the guards are those of the
actions.

Three points are stated with their assumption in view.  TCPServer does not assume
that a posted "add" is run while a loop blocks (run loop_wakeup shows that it
may not be), so RequestAnswered and FinReclaimed speak of connections already
registered.  FinReclaimed has the fairness of `Clear` as its hypothesis, and
BufferedIsWritten that of `SyncLoop`, since the server's timer can stall
(section 6) and a client need not register the logger's event at all; without
the hypothesis neither holds.  RpcConnection says what holds while the
stream is `clean`: no request was cut off by the next one, and no part of a
request with a second start byte in it was decoded (section 6).

## 5. Proofs

TLAPS (Z3, Zenon, LS4) checks them.  Every safety property of a run, invariant,
action property or refinement, is a theorem.  The only assumptions are those
named in the modules, which TLC evaluates in its runs.  `ConstantsAssumption` and
`ThreadNumsAssumption` say that bounds are natural numbers, that there is a
thread, a descriptor, a call, and that the clients of TCPServer are finitely
many - the pigeonhole that gives epoll's events a finite batch.
`ByteAssumption`, `CoderAssumption`, `DispatcherAssumption` and
`ConnectionAssumption` say what RpcConnection is about: bytes are 0 .. Base - 1,
with two that differ for start and end, neither of them what a vector is filled
with; names and answers are strings of bytes, and no service name has a dot in it
(section 6); the length of a request and its error code fit into the
integer of a frame, and a code of the dispatcher into a byte; a buffer's capacity is not 0.

**EventLoopProofs.**  `IInv` is TypeOK, what the program counter says of the
queues and of the events array, that a descriptor new to the loop has one add
task at most, that a closed connection has no registration and no add task
left, that one not yet Connected listens to reading only, and that an error
not yet reported is still with the kernel, next to NoDuplicateCallback, which is
not inductive alone: that no callback is queued
twice needs the batch to be drained before the next epoll_wait.
`Invariance` proves it step by step, one lemma
per action; `TypeCorrect` and `CallbackOnce` follow.
`EdgeKept` is about steps, as the code does lose an edge: `Edges` takes each
action from a state of IInv and shows that what is ready and registered after
it was lost before, or is still on its way, or was left unread by an onRead
before SetState.  It needs from IInv that a callback which gives up - for a closed connection, or
on an error - leaves nothing registered or an error still to be reported, and that
the onWrite of a connection that is not yet Connected is never due.
`Refinement` maps `tmpTasks \o mPendingTasks` to TaskQueue's queue: a swap is a
stutter, since it happens only when the local queue is empty.

**TimerProofs.**  `Invariance`: TypeOK, the batch of onTimer was due, and while
the wall clock is steady an expired timerfd has an event that is due.  `Contract`:
every step of Timer is a step of TimerService or a stutter.

**TCPBufferOpsProofs, TCPBufferProofs.**  The lemmas follow the member functions;
the connection's proofs rest on them too.  `Sound` is the
state of a buffer between two calls and `Loose` that inside one, where the read
index may have passed the middle; each lemma says what a function does to
`Contents`, to the size and to soundness: `MovedFacts`, `AdjustFacts`,
`ResizeFacts`, `MoveReadFacts`, `StoreFacts`, `WriteFacts`, `MakeRoomFacts`.
`Bounded` is not inductive without the history variable `peak` and without
soundness: that a full buffer is more than half full of unread bytes is what
bounds a doubling, and `GrowthFacts` is the arithmetic of the 1.5 in
WriteToBuffer.  The theorems are `Invariance` (BufferInv), `MemoryBounded`
(Bounded), `Refinement` (ByteOrder) and `Exactness` (CallsAreExact).

**TCPServerProofs.**  `ServerInv` holds in every reachable state.  Its parts are
`PoolInv`, on the start: a thread that said it is initialised has its loop, and one
that has not been made has done nothing; `Lives`, on the connections: who has a
descriptor, a thread, a place in mConnClients, and what the state says of it;
and `Queues`, on what the IO threads have still to run: a connection's add task
stands before its registration and alone, its onRead before its onWrite, and a
closed connection has an onWrite at most.  HandedToLoop, FdMapAgrees,
RegisteredIsAlive and LeftoverIsOneWrite are what they give together; none is
inductive alone: that the map has no stale entry needs that two connections
never have one descriptor, and that needs close() to come after the descriptor
has left epoll, which is the order of clear(), with the queue in between.
`Core` is the invariant without LeftoverIsOneWrite, which follows from it
(Cardinality of the positions in a queue).

**AsyncLoggerProofs.**  `LogInv` adds to WrittenOnce the order of what is still on
its way (`InOrder`: files before the block in the writing thread's hands, that
before the queue, that before mBuffer, that before a line just being pushed) and
the numbering of files (`Numbered`: files of smaller numbers have lines, those of
later ones have none in the first run of the process).  The swap that races with a push may lose lines
but not turn them round; that is the part a test would hardly reach.  That the
number of a file stays in range is a pigeonhole: each file before it has a line
of its own (`NumberBound`).  `FullFiles` is the action property, from the same
invariant.  `NothingElseIsLost` is Pipeline, inductive beside LogInv: each move of
a block from buffer to queue to the thread's hands to the file keeps the set of
lines that are somewhere, and that a later file has nothing in it when a block is
written is Numbered again.

**RpcClientProofs.**  `ClientInv` says of a call that began clean: other calls'
timeouts that are pending or in the batch find their own controllers finished,
and no such controller is this call's, while `ran` decides what this call's own
controller and closure know (`OwnOutcome`); its request, its server's debt and the
pieces in socket and buffer are one of five combinations (`OwnResponse`); and the
loop is left for the call's own timeout or with something received
(`LeftForAReason`), for which the queue may have one onRead only, put there for a
reason.  CleanCallIsAnswered is the last step of that chain, in `ReturnStep`.
The timer enters through what its actions do to its variables (`AddFacts`,
`OnTimerFacts`, `RunFacts`, `TickFacts`).

**RpcConnectionProofs.**  The stream of requests is proved byte by byte, for
messages of any bytes.  It takes three layers.

- *Sequences of frames.*  `Frames` and `Encode` are recursive functions, and the
  library's induction theorems take an operator as a parameter, which the
  provers cannot instantiate; so induction is the least element of a set that is
  written down (`Least`, from the well-foundedness of Nat; `Induct`).  With it
  `FramesAppend`, `FramesConcat` and `EncodeFacts` hold for all sequences.
- *Frames.*  `FrameFacts` is the layout of a frame, position by position.
  `WholeFacts`: Decode's round inverts Frame - a frame at the read index is found,
  read back field by field, whatever bytes it has, and exactly its bytes are
  taken.  `PartFacts`: a part of a frame without a second start byte is not taken
  for a message, because what is beyond the write index is zeros, which is the
  last conjunct of a buffer's `Loose`.  `DispatchFacts`: the early returns of Dispatch are
  the answers RpcService allows, by what the first dot does to a name put
  together from a service and a method.
- *The stream.*  `IInv` is StreamInv with NothingLeft, and one lemma per action
  proves it.  `Levi` compares two ways to cut the same bytes: the unread bytes
  begin with the first request's frame or are a part of it (`FirstFrame`).  Aligned
  is not inductive without `Unsplit`: `clean` is decided where reading ends, and
  Decode goes on in later steps, none of which may meet a split frame
  although each changes what is in the buffer (`SplitFirst`, `SplitRest`).
  `RequestsAnsweredInOrder` is the refinement of RpcService.

`NothingElseIsBeyond` and `ShortRequestsAreSafe` are about Decode's reads beyond
the array (section 6).  A whole request has none (`WholeInside`).  For a part, the
bytes of the length that have not come are zeros, so the scan reads a length that is at
most the right one (`PartLength`), and the end byte is looked for beyond the
array only if the request ends there (`PartOutside`).  As the array never gets
smaller and half of it is always behind the read index, requests of up to half
the capacity are safe.  No run checks the last: its instance has longer requests.

**Model-checked only.**  The liveness properties - ReadinessHandled, ArmedRuns,
BufferedIsWritten, StopEnds, ArmedCallReturns, PoolStarts, RequestAnswered,
FinReclaimed, Answered: TLAPS 1.4.5 does not prove liveness under fairness, nor
ENABLED.

## 6. Where the code and its documents disagree

Four runs show a violation of what the repository says of the program:

1. **A posted task may not run** (loop_wakeup; net/eventloop.cpp:58).  A thread
   posts after the swap and writes the eventfd before its callback runs; the
   callback drains it, and epoll_wait blocks with the task queued.  For the
   server this is a connection that is accepted and never registered until
   something else wakes the thread.
2. **The timer stalls** (timer_two; net/timer.cpp:62).  onTimer never arms the
   timerfd, only AddTimerEvent of a new earliest event does.  The server's own
   two events run for ever only as long as each is the earliest as it is added.
3. **A call may return with neither a result nor an error** (rpc_answer;
   rpc/rpc_channel.cpp:86), when the response arrives in two pieces.
4. **A request may never be read** (server_early; tcp/tcp_server.cpp:72): onRead
   runs before the state is Connected and consumes the edge.  NoLostEdge says
   that no other step of the loop, and none of its callbacks, does the like.

Others were met while modelling and are described by the models without a run:

- `std::lock_guard<std::mutex> lock(std::mutex);` (log/logger.cpp:60) declares a
  function, so the swap of the log buffer races with PushLog, although
  README.md:215 says several threads may write at once; a line may be lost
  (`PushBegin`, `MoveBuffer`), and Pipeline says that no other is.
- Decode scans on behind a frame that is not complete and can take a start byte
  inside it for a frame (coder/tinypb_coder.cpp:107-120): a request that comes in
  two reads and holds a frame in its payload is lost, and one never made is
  executed.  With `clean` left out of AnsweredInOrder, connection_all shows it.
  The length is used as an index untested (113), so that a request longer than
  the buffer that comes in parts is looked for beyond it; shorter than half of
  its capacity it never is (BeyondIfTooLong, section 5).
- A frame whose inner lengths do not agree with its own stays at the front of the
  buffer; all behind it wait (coder/tinypb_coder.cpp:133-167).
- A service in a protobuf package is registered as `package.Service` and looked
  up as `package` (rpc/rpc_dispatcher.cpp:82, 93): it is never found.
  DispatcherAssumption excludes it.
- `SetCancel` sets mIsRepeated (net/timer_event.h:27): a cancelled event runs.
- The timerfd is on CLOCK_MONOTONIC, event times on system_clock: after a step
  back of the wall clock onTimer may find nothing due and never be called again
  (`StepBack`; ArmedRuns excludes it).
- `Logger::stop` sets mIsStop without notifying, and ~AsyncLogger then skips its
  notify and joins a thread that may be waiting (log/logger.cpp:39,
  log/async_logger.cpp:17-20); the block queued last is not written
  (async_logger.cpp:47); after a restart on the same day numbering starts at 0
  and a full file may be appended to (async_logger.cpp:78).
- Stop() by a loop's own callback leaves the eventfd readable; its callback may
  drain a later Stop's wakeup, and epoll_wait blocks with mIsLooping false
  (net/eventloop.cpp:96).  With the timerfd armed the call still ends.
- An answer and the timeout in one batch run `done` twice; a call on a closed
  connection dereferences null (tcp/tcp_client.cpp:66, rpc_channel.cpp:86); ids
  repeat within a second (utils/utils.cpp:63), so that a late answer can be taken for
  a later call's.
- The timeout of a call has a pointer to its controller (rpc/rpc_channel.cpp:61).
  If the controller is Reset and used again before that timeout has run - the
  call having returned with an answer - the timeout finds it unfinished: the
  closure of the old call is run once more and the new call is cancelled.  Used
  again without a Reset, the controller is finished, so the new call's own
  timeout does nothing, and without an answer the call hangs.  `Unused` and
  ArmedCallReturns exclude the two.  An answer that comes with the timeout leaves
  ERROR_RPC_CALL_TIMEOUT in the controller.
- onConnect calls connect() again as soon as the first one said EINPROGRESS
  (tcp/tcp_client.cpp:80): a peer that is slower is EALREADY and ends the process.
- fflush in ~Logger may meet a FILE that the writing thread has closed and not
  yet replaced (log/async_logger.h:41).
- A read error leaves a connection Connected for ever (tcp/connection.cpp:94); a
  request that arrives together with a FIN is not executed (99-103); a write
  error moves the read index by -1 and ends in SIGPIPE (142); a failed
  accept is not looked at (tcp/tcp_server.cpp:64); an onWrite left over from a
  destroyed connection reads freed memory (86).
- tcp/buffer.h:57 says the buffer is compacted at 1/3 of its capacity; the code
  and README.md:576 at 1/2.  A buffer of capacity 0 could not grow in onRead:
  TCPBuffer assumes capacities that are not 0.

## 7. Not modelled

- The end of the server and of its threads: Start never returns, so Join and the
  destructors of TCPServer, IOThreadPool and IOThread are reached by no program of
  the repository, and that of TCPClient only as a program ends.  The logger's are
  modelled.
- A call from a second thread on one channel, and RegisterService after the
  start: nothing in the repository does either.
- Config, IPNetAddr, formatting in utils and in the logger's macros: no
  behaviour.  compute.pb is generated.
- Data races on plain bools and enums (mIsLooping, mState) are taken as atomic
  reads and writes, which is what they are on the platforms epoll is on.

## 8. Plan

1. *Done*: EventLoop, Timer, AsyncLogger, RpcController and RpcClient,
   IOThreadPool and TCPServer, TCPBuffer, TinyPBCoder, RpcDispatcher and
   RpcConnection, with proofs of the safety properties of all.
2. The client's side of RpcConnection: Decode of the responses in CallMethod, in
   place of the heads and tails of RpcClient.
3. TCPServer over EventLoop: that the queue of an IO thread as TCPServer has it
   is what EventLoop implements, as a refinement that TLC checks.

## 9. Running it

    tlc -config MCTCPServer_all.cfg MCTCPServer
    tlapm EventLoopProofs.tla

Each cfg begins with a comment on its instance.  Proofs take ten to twenty
minutes in all, RpcConnectionProofs and TCPServerProofs the most of it.
