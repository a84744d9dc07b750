----------------------------- MODULE TCPServer -----------------------------
(***************************************************************************)
(* tcp/tcp_server, tcp/acceptor and tcp/connection: a server whose main    *)
(* thread starts the pool of IO threads, accepts connections and clears    *)
(* the closed ones, the IO threads, which run the callbacks of their       *)
(* connections, and the clients.  The server listens before its pool is    *)
(* made, and accepts when all threads have been told to start.             *)
(*                                                                         *)
(* The loop of an IO thread is one queue of tasks (theorem Refinement of   *)
(* EventLoopProofs): <<"add", c>> is what the constructor of connection c  *)
(* posts from the main thread, <<"IN", c>> and <<"OUT", c>> are onRead and *)
(* onWrite.  Connections are told apart from their descriptors, which the  *)
(* kernel hands out again.  A request and an answer are each read, written *)
(* and counted whole, and answers fit in the socket's buffer.              *)
(***************************************************************************)
EXTENDS IOThreadPool, Sequences, FiniteSets, SequencesExt

CONSTANTS Clients,      \* connections the clients make, each once
          MaxFds,       \* descriptors the process may have for connections
          MaxRequests,  \* bound: per client, its requests
          None

ASSUME ConstantsAssumption ==
  /\ MaxFds \in Nat \ {0}
  /\ MaxRequests \in [Clients -> Nat]
  /\ IsFiniteSet(Clients)
  /\ None \notin Clients /\ None \notin Nat

Fds     == 1 .. MaxFds
Task    == {"add", "IN", "OUT"} \X Clients

VARIABLES
  mConnClients,        \* connections the server holds a shared_ptr to
  mClientFdEventsMap,  \* per descriptor, whose FdEvent it maps to, or None
  accepting,           \* connection onAccept is in the middle of, or None
  mState,              \* TCPConnectionState; "none" and "freed" around it
  mConnFd,             \* descriptor of a connection, None without one
  mThread,             \* IO thread of a connection, None without one
  mEpollEvent,         \* mask of a connection's FdEvent
  mTasks,              \* per IO thread, its queue of tasks
  mListenFds,          \* per IO thread, descriptors registered with its epoll
  clearing,            \* per IO thread, connection it is in clear() of, or None
  armed,               \* kernel: connections on the ready list of their epoll
  peer,                \* kernel: what the client has done
  error,               \* kernel: connections with an error nobody was told
  sent,                \* per client, requests sent
  executed,            \* per client, requests read and executed
  answered,            \* per client, answers written to its socket
  running,             \* FALSE once the process has been killed
  missed               \* history: connections called back before Connected

tables  == <<mConnClients, mClientFdEventsMap, accepting, mConnFd, mThread>>
loops   == <<mTasks, mListenFds, clearing>>
kernel  == <<armed, peer, error>>
traffic == <<sent, executed, answered>>
served  == <<tables, mState, mEpollEvent, loops, kernel, traffic, running, missed>>
vars    == <<pool, served>>

TypeOK ==
  /\ PoolTypeOK
  /\ mConnClients \in SUBSET Clients
  /\ mClientFdEventsMap \in [Fds -> Clients \cup {None}]
  /\ accepting \in Clients \cup {None}
  /\ mState \in [Clients -> {"none", "NotConnected", "Connected", "Closed", "freed"}]
  /\ mConnFd \in [Clients -> Fds \cup {None}]
  /\ mThread \in [Clients -> Threads \cup {None}]
  /\ mEpollEvent \in [Clients -> SUBSET {"IN", "OUT"}]
  /\ mTasks \in [Threads -> Seq(Task)]
  /\ mListenFds \in [Threads -> SUBSET Fds]
  /\ clearing \in [Threads -> Clients \cup {None}]
  /\ armed \in SUBSET Clients
  /\ peer \in [Clients -> {"away", "open", "closed", "reset"}]
  /\ error \in SUBSET Clients
  /\ {sent, executed, answered} \subseteq [Clients -> Nat]
  /\ running \in BOOLEAN
  /\ missed \in SUBSET Clients

Init ==
  /\ PoolInit
  /\ mConnClients = {}
  /\ mClientFdEventsMap = [f \in Fds |-> None]
  /\ accepting = None
  /\ mState = [c \in Clients |-> "none"]
  /\ mConnFd = [c \in Clients |-> None]
  /\ mThread = [c \in Clients |-> None]
  /\ mEpollEvent = [c \in Clients |-> {}]
  /\ mTasks = [t \in Threads |-> <<>>]
  /\ mListenFds = [t \in Threads |-> {}]
  /\ clearing = [t \in Threads |-> None]
  /\ armed = {}
  /\ peer = [c \in Clients |-> "away"]
  /\ error = {}
  /\ sent = [c \in Clients |-> 0]
  /\ executed = sent
  /\ answered = sent
  /\ running = TRUE
  /\ missed = {}

-----------------------------------------------------------------------------
(***************************************************************************)
(* epoll.  A registration lasts until it is deleted or the socket closed.  *)
(***************************************************************************)
Registered(c) ==
  mThread[c] # None /\ mConnFd[c] # None /\ mConnFd[c] \in mListenFds[mThread[c]]

Readiness(c) ==
  {"OUT"} \cup (IF sent[c] > executed[c] \/ peer[c] # "open" THEN {"IN"} ELSE {})
          \cup (IF c \in error THEN {"ERR"} ELSE {})

Reported(c) == Readiness(c) \cap (mEpollEvent[c] \cup {"ERR"})

Available(t) == {c \in armed : mThread[c] = t /\ Registered(c)}

\* A mask after the calls of FdEvent.  All sockets are edge-triggered: the
\* constructor sets EPOLLET and nobody cancels it.
SetFdEvent(mask, event) == mask \cup {event}

\* Mutant: the complement of the bit is forgotten, which is all that stays.
CancelTheOthers(mask, event) == mask \cap {event}

CancelFdEvent(mask, event) == mask \ {event}

\* addFdEventToEpoll with the FdEvent's mask as it has become, after which
\* the socket is ready for what ready says.
Register(t, c, mask, ready) ==
  /\ mEpollEvent' = [mEpollEvent EXCEPT ![c] = mask]
  /\ mListenFds' = [mListenFds EXCEPT ![t] = @ \cup {mConnFd[c]}]
  /\ armed' = IF ready \cap (mask \cup {"ERR"}) # {} THEN armed \cup {c} ELSE armed \ {c}

\* Something happens at the socket that epoll would report as bits.
Raise(c, bits) ==
  armed' = IF Registered(c) /\ bits \cap (mEpollEvent[c] \cup {"ERR"}) # {}
           THEN armed \cup {c} ELSE armed

-----------------------------------------------------------------------------
(***************************************************************************)
(* The main thread.                                                        *)
(***************************************************************************)
Waiting == {c \in Clients : mState[c] = "none" /\ peer[c] # "away"}

FreeFds == Fds \ {mConnFd[c] : c \in Clients}

\* The main thread is in its loop, and not in the middle of onAccept.
Accepting == running /\ MainLooping /\ accepting = None

\* onAccept up to the end of the connection's constructor, which posts the
\* add task; its mask is set before.  The kernel hands out the lowest free
\* descriptor.
Accept(c) ==
  /\ Accepting
  /\ c \in Waiting
  /\ accepting' = c
  /\ \E f \in FreeFds : /\ \A g \in FreeFds : f <= g
                        /\ mConnFd' = [mConnFd EXCEPT ![c] = f]
  /\ mThread' = [mThread EXCEPT ![c] = mIndex]
  /\ GetIOThread
  /\ mState' = [mState EXCEPT ![c] = "NotConnected"]
  /\ mEpollEvent' = [mEpollEvent EXCEPT ![c] = SetFdEvent({}, "IN")]
  /\ mTasks' = [mTasks EXCEPT ![mIndex] = Append(@, <<"add", c>>)]
  /\ UNCHANGED <<mConnClients, mClientFdEventsMap, mListenFds, clearing, kernel,
                 traffic, running, missed>>

\* The rest of onAccept; only its first statement matters to an IO thread.
SetConnected ==
  /\ running
  /\ accepting # None
  /\ mState' = [mState EXCEPT ![accepting] = "Connected"]
  /\ mConnClients' = mConnClients \cup {accepting}
  /\ mClientFdEventsMap' = [mClientFdEventsMap EXCEPT ![mConnFd[accepting]] = accepting]
  /\ accepting' = None
  /\ UNCHANGED <<pool, mConnFd, mThread, mEpollEvent, loops, kernel, traffic,
                 running, missed>>

\* accept() fails, for want of a descriptor or of memory: the null address is
\* logged, or epoll_ctl refuses -1 and the IO thread exits.
AcceptFails ==
  /\ Accepting
  /\ Waiting # {}
  /\ running' = FALSE
  /\ UNCHANGED <<pool, tables, mState, mEpollEvent, loops, kernel, traffic, missed>>

\* Mutant: the entry of the map is not erased, and an old one is kept.
EntryKept(c) == mClientFdEventsMap

\* The map without the entry of c, which is looked up by its descriptor.
EntryErased(c) == [mClientFdEventsMap EXCEPT ![mConnFd[c]] = None]

\* onClearClientTimerFunc, for one of the connections it goes over: the socket
\* is closed, the FdEvent deleted and the connection destroyed.
Clear(c) ==
  /\ Accepting
  /\ c \in mConnClients
  /\ mState[c] = "Closed"
  /\ mClientFdEventsMap' = EntryErased(c)
  /\ mConnClients' = mConnClients \ {c}
  /\ mConnFd' = [mConnFd EXCEPT ![c] = None]
  /\ mState' = [mState EXCEPT ![c] = "freed"]
  /\ armed' = armed \ {c}
  /\ UNCHANGED <<pool, accepting, mThread, mEpollEvent, loops, peer, error, traffic,
                 running, missed>>

\* The constructor of TCPServer and the start of its threads.
StartPool ==
  /\ running
  /\ MainStarts
  /\ UNCHANGED served

Main == \/ StartPool \/ SetConnected \/ AcceptFails
        \/ \E c \in Clients : Accept(c) \/ Clear(c)

-----------------------------------------------------------------------------
(***************************************************************************)
(* An IO thread.                                                           *)
(***************************************************************************)
StartThread(t) ==
  /\ running
  /\ ThreadStarts(t)
  /\ UNCHANGED served

Take(t, task) ==
  /\ running
  /\ Looping(t)
  /\ clearing[t] = None
  /\ mTasks[t] # <<>>
  /\ Head(mTasks[t]) = task
  /\ mTasks' = [mTasks EXCEPT ![t] = Tail(@)]

RunAdd(t, c) ==
  /\ Take(t, <<"add", c>>)
  /\ Register(t, c, mEpollEvent[c], Readiness(c))
  /\ UNCHANGED <<pool, tables, mState, clearing, peer, error, traffic, running, missed>>

\* onRead and onWrite return at once unless the state is Connected.
RunUnconnected(t, c) ==
  /\ mState[c] \in {"NotConnected", "Closed"}
  /\ \E bit \in {"IN", "OUT"} : Take(t, <<bit, c>>)
  /\ missed' = IF mState[c] = "NotConnected" THEN missed \cup {c} ELSE missed
  /\ UNCHANGED <<pool, tables, mState, mEpollEvent, mListenFds, clearing, kernel, traffic,
                 running>>

\* A callback of a connection that is destroyed reads freed memory: it finds
\* the old state and returns, or the process is killed.
RunFreed(t, c) ==
  /\ mState[c] = "freed"
  /\ \E bit \in {"IN", "OUT"} : Take(t, <<bit, c>>)
  /\ running' \in BOOLEAN
  /\ UNCHANGED <<pool, tables, mState, mEpollEvent, mListenFds, clearing, kernel, traffic,
                 missed>>

\* onRead, read() fails: the error is consumed, the connection stays as it is.
ReadError(t, c) ==
  /\ mState[c] = "Connected"
  /\ c \in error
  /\ Take(t, <<"IN", c>>)
  /\ error' = error \ {c}
  /\ UNCHANGED <<pool, tables, mState, mEpollEvent, mListenFds, clearing, armed, peer,
                 traffic, running, missed>>

\* Mutant: a FIN after a request is left for the next edge.
ClearedIfIdle(t, c) == IF sent[c] = executed[c] THEN [clearing EXCEPT ![t] = c] ELSE clearing

\* clear() is entered.
Cleared(t, c) == [clearing EXCEPT ![t] = c]

\* onRead, read() returns 0: what was read before it is not executed.
ReadEOF(t, c) ==
  /\ mState[c] = "Connected"
  /\ peer[c] # "open" /\ c \notin error
  /\ Take(t, <<"IN", c>>)
  /\ clearing' = Cleared(t, c)
  /\ UNCHANGED <<pool, tables, mState, mEpollEvent, mListenFds, kernel, traffic, running,
                 missed>>

\* Mutant: the descriptor stays in epoll, to go when it is closed.
Undeleted(t, c) == mListenFds

\* deleteFdEventFromEpoll.
Deleted(t, c) == [mListenFds EXCEPT ![t] = @ \ {mConnFd[c]}]

\* The rest of clear(): deleteFdEventFromEpoll, then the state.
ClearConn(t) ==
  /\ running
  /\ clearing[t] # None
  /\ mListenFds' = Deleted(t, clearing[t])
  /\ armed' = armed \ {clearing[t]}
  /\ mState' = [mState EXCEPT ![clearing[t]] = "Closed"]
  /\ clearing' = [clearing EXCEPT ![t] = None]
  /\ UNCHANGED <<pool, tables, mEpollEvent, mTasks, peer, error, traffic,
                 running, missed>>

\* Mutant: execute() leaves the answer for the next writable edge.
KeepListening(mask) == mask

ListenWriteEvent(mask) == SetFdEvent(mask, "OUT")

\* onRead reads all there is, executes it and listens for writability, also
\* when there was nothing to read.
ReadExecute(t, c) ==
  /\ mState[c] = "Connected"
  /\ peer[c] = "open"
  /\ Take(t, <<"IN", c>>)
  /\ executed' = [executed EXCEPT ![c] = sent[c]]
  /\ Register(t, c, ListenWriteEvent(mEpollEvent[c]), {"OUT"})
  /\ UNCHANGED <<pool, tables, mState, clearing, peer, error, sent, answered,
                 running, missed>>

\* onWrite: the answers are written, and writability is no longer listened for.
Write(t, c) ==
  /\ mState[c] = "Connected"
  /\ peer[c] # "reset" \/ answered[c] = executed[c]
  /\ Take(t, <<"OUT", c>>)
  /\ answered' = [answered EXCEPT ![c] = executed[c]]
  /\ Register(t, c, CancelFdEvent(mEpollEvent[c], "OUT"), Readiness(c))
  /\ UNCHANGED <<pool, tables, mState, clearing, peer, error, sent, executed,
                 running, missed>>

\* onWrite with something to write after a reset: write() fails, the loop goes
\* on to write again, and SIGPIPE, which nobody handles, ends the process.
WriteKilled(t, c) ==
  /\ mState[c] = "Connected"
  /\ peer[c] = "reset" /\ answered[c] < executed[c]
  /\ Take(t, <<"OUT", c>>)
  /\ running' = FALSE
  /\ UNCHANGED <<pool, tables, mState, mEpollEvent, mListenFds, clearing, kernel,
                 traffic, missed>>

\* What epoll_wait returns to t, as the callbacks that its dispatch queues: the
\* connections in any order, and onRead of each before its onWrite.
Callbacks(t) == {task \in {"IN", "OUT"} \X Available(t) : task[1] \in Reported(task[2])}

Batches(t) ==
  {batch \in SetToSeqs(Callbacks(t)) :
     \A i \in DOMAIN batch :
       LET read == <<"IN", batch[i][2]>>
       IN  read \in Callbacks(t) \ {batch[i]} => i > 1 /\ batch[i - 1] = read}

\* Mutant: epoll_wait between two callbacks of a batch.
AnyTime(t) == TRUE

NoCallback(t) == \A i \in DOMAIN mTasks[t] : mTasks[t][i][1] = "add"

\* epoll_wait is entered when every callback has been run; an error deletes the
\* descriptor.
EpollWait(t) ==
  /\ running
  /\ Looping(t)
  /\ clearing[t] = None
  /\ NoCallback(t)
  /\ Available(t) # {}
  /\ \E batch \in Batches(t) : mTasks' = [mTasks EXCEPT ![t] = @ \o batch]
  /\ mListenFds' =
       [mListenFds EXCEPT ![t] = @ \ {mConnFd[c] : c \in Available(t) \cap error}]
  /\ armed' = armed \ Available(t)
  /\ UNCHANGED <<pool, tables, mState, mEpollEvent, clearing, peer, error, traffic,
                 running, missed>>

RunCallback(t) ==
  \E c \in Clients : \/ RunUnconnected(t, c) \/ RunFreed(t, c)
                     \/ ReadError(t, c) \/ ReadEOF(t, c) \/ ReadExecute(t, c)
                     \/ Write(t, c) \/ WriteKilled(t, c)

IOThread(t) ==
  \/ StartThread(t)
  \/ \E c \in Clients : RunAdd(t, c)
  \/ RunCallback(t)
  \/ ClearConn(t)
  \/ EpollWait(t)

-----------------------------------------------------------------------------
(***************************************************************************)
(* The clients.  A connection is made by the kernel before it is accepted, *)
(* and can be used and ended at once.                                      *)
(***************************************************************************)
Connect(c) ==
  /\ peer[c] = "away"
  /\ peer' = [peer EXCEPT ![c] = "open"]
  /\ UNCHANGED <<pool, tables, mState, mEpollEvent, loops, armed, error, traffic,
                 running, missed>>

Send(c) ==
  /\ peer[c] = "open"
  /\ sent[c] < MaxRequests[c]
  /\ sent' = [sent EXCEPT ![c] = @ + 1]
  /\ Raise(c, {"IN"})
  /\ UNCHANGED <<pool, tables, mState, mEpollEvent, loops, peer, error, executed, answered,
                 running, missed>>

Close(c) ==
  /\ peer[c] = "open"
  /\ peer' = [peer EXCEPT ![c] = "closed"]
  /\ Raise(c, {"IN"})
  /\ UNCHANGED <<pool, tables, mState, mEpollEvent, loops, error, traffic,
                 running, missed>>

Reset(c) ==
  /\ peer[c] \in {"open", "closed"}
  /\ mState[c] # "freed"
  /\ peer' = [peer EXCEPT ![c] = "reset"]
  /\ error' = error \cup {c}
  /\ Raise(c, {"IN", "OUT", "ERR"})
  /\ UNCHANGED <<pool, tables, mState, mEpollEvent, loops, traffic, running, missed>>

Client(c) == Connect(c) \/ Send(c) \/ Close(c) \/ Reset(c)

Next ==
  \/ Main
  \/ \E t \in Threads : IOThread(t)
  \/ \E c \in Clients : Client(c)

Spec == Init /\ [][Next]_vars

\* A thread that is not waiting goes on, and so does a loop that has events or
\* callbacks to run; the main thread starts the pool and finishes an onAccept.
\* That a posted add is run is not assumed: a loop can block with one in its
\* queue (PostedTaskRuns of EventLoop).
Busy(t) == ~Looping(t) \/ ~NoCallback(t) \/ Available(t) # {} \/ clearing[t] # None

Fairness ==
  /\ WF_vars(StartPool)
  /\ WF_vars(SetConnected)
  /\ \A t \in Threads : WF_vars(Busy(t) /\ IOThread(t))

FairSpec == Spec /\ Fairness

-----------------------------------------------------------------------------
\* The states of a connection, the main thread's tables and what an IO thread
\* is in the middle of fit together, whichever thread has got how far.
Lives ==
  /\ \A c \in Clients :
       /\ mConnFd[c] = None <=> mState[c] \in {"none", "freed"}
       /\ mThread[c] = None <=> mState[c] = "none"
       /\ accepting = c <=> mState[c] = "NotConnected"
       /\ c \in mConnClients <=> mState[c] \in {"Connected", "Closed"}
       /\ mThread[c] # None => MainLooping
  /\ \A c, d \in Clients : mConnFd[c] = mConnFd[d] /\ mConnFd[c] # None => c = d
  /\ \A t \in Threads, c \in Clients :
       clearing[t] = c => mThread[c] = t /\ mState[c] = "Connected"

\* A thread's queue has each task once; the add of a connection is there
\* alone and before it is registered; its onRead comes before its onWrite, and
\* only while it is neither closed nor being cleared.
Queues ==
  \A t \in Threads : \A i \in DOMAIN mTasks[t] :
    LET c == mTasks[t][i][2]
    IN  /\ mThread[c] = t
        /\ mTasks[t][i][1] # "OUT" =>
             mState[c] \in {"NotConnected", "Connected"} /\ clearing[t] # c
        /\ mTasks[t][i][1] = "add" => mConnFd[c] \notin mListenFds[t]
        /\ \A j \in DOMAIN mTasks[t] :
             j > i /\ mTasks[t][j][2] = c => mTasks[t][i][1] = "IN" /\ mTasks[t][j][1] = "OUT"

\* The map and the set of connections agree, although descriptors are reused:
\* the FdEvent that onClearClientTimerFunc looks up by a descriptor and
\* deletes (tcp_server.cpp:86) is that of the connection it erases.
FdMapAgrees ==
  /\ \A c \in mConnClients : mConnFd[c] # None /\ mClientFdEventsMap[mConnFd[c]] = c
  /\ \A f \in Fds : mClientFdEventsMap[f] # None =>
       mClientFdEventsMap[f] \in mConnClients /\ mConnFd[mClientFdEventsMap[f]] = f

\* What an IO thread has in its epoll is the descriptor of a connection of its
\* own that is not closed, let alone destroyed by the main thread: the pointer
\* epoll returns (eventloop.cpp:65) is to a live FdEvent, and a descriptor
\* used again is not taken for registered (eventloop.cpp:121).
RegisteredIsAlive ==
  \A t \in Threads : \A f \in mListenFds[t] :
    \E c \in Clients : /\ mConnFd[c] = f /\ mThread[c] = t
                       /\ mState[c] \in {"NotConnected", "Connected"}

\* All that can be left of a closed connection in its thread's queue, for
\* which its destruction does not wait, is one call of onWrite: the one epoll
\* reported together with the end of the stream.
LeftoverIsOneWrite ==
  \A c \in Clients, t \in Threads :
    mState[c] \in {"Closed", "freed"} =>
      LET left == {i \in DOMAIN mTasks[t] : mTasks[t][i][2] = c}
      IN  Cardinality(left) <= 1 /\ \A i \in left : mTasks[t][i][1] = "OUT"

\* A connection is constructed with the loop of a thread that has made one
\* (io_thread.h:31 reads the pointer without a lock), however long it takes
\* the threads to start and however early the clients come.
HandedToLoop == \A c \in Clients : mThread[c] # None => HasLoop(mThread[c])

\* All of it, which every step preserves.
ServerInv ==
  /\ TypeOK /\ PoolInv /\ Lives /\ Queues
  /\ HandedToLoop /\ FdMapAgrees /\ RegisteredIsAlive /\ LeftoverIsOneWrite

\* Every IO thread gets into its loop: no notification of a start is lost.
PoolStarts == \A t \in Threads : <>(Looping(t) \/ ~running)

\* A connection that its IO thread has and that it never called back too early.
Served(c) == mState[c] = "Connected" /\ Registered(c) /\ c \notin missed

\* What ends a connection, or everything.
Ended(c) == peer[c] # "open" \/ ~running

\* While a connection that is served stays open, each request its client has
\* sent is executed and answered, wherever in the answer to the one before it
\* its edge comes, and no later event is needed for it.
RequestAnswered ==
  \A c \in Clients : \A n \in 1 .. MaxRequests[c] :
    (Served(c) /\ sent[c] >= n) ~> (answered[c] >= n \/ Ended(c))

\* A served connection that its client closes is destroyed, provided that the
\* timer that clears closed connections keeps running.
FinReclaimed ==
  (\A c \in Clients : WF_vars(Clear(c))) =>
    \A c \in Clients :
      (Served(c) /\ peer[c] = "closed")
        ~> (mState[c] = "freed" \/ peer[c] = "reset" \/ ~running)

\* What the client of a connection in epoll has sent is read and made into
\* requests, as connection.h:75 says of the callback for readable events.
RequestIsRead ==
  \A c \in Clients :
    (mState[c] = "Connected" /\ Registered(c) /\ executed[c] < sent[c])
      ~> (executed[c] = sent[c] \/ Ended(c))
=============================================================================
