\* The loop of a TCPClient, with the timerfd in it: it is entered for each
\* call and stopped by onRead, and keeps what it had queued.
CONSTANTS
  c1 = c1
  t1 = t1
  timer = timer
  wake = wake
  none = none
  Threads = {t1}
  ServerFds = {}
  ClientFds = {c1}
  LevelFds = {timer}
  WakeFd = wake
  NoFd = none
  MaxEvents = 3
  MaxCalls = 1
SPECIFICATION FairSpec
INVARIANT NoDuplicateCallback
PROPERTIES NoLostEdge ReadinessHandled
