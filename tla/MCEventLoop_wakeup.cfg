\* The promise of the wakeup: two connections handed over by the
\* accepting thread, and no other call of it.
CONSTANTS
  c1 = c1
  c2 = c2
  t1 = t1
  wake = wake
  none = none
  Threads = {t1}
  ServerFds = {c1, c2}
  ClientFds = {}
  LevelFds = {}
  WakeFd = wake
  NoFd = none
  MaxEvents = 3
  MaxCalls = 0
SPECIFICATION FairSpec
PROPERTIES PostedTaskRuns
