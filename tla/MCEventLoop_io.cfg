\* An IO thread's loop: two connections, one accepting thread, and an
\* events[] array smaller than what can be ready at once.
CONSTANTS
  t1 = t1
  c1 = c1
  c2 = c2
  wake = wake
  none = none
  Threads = {t1}
  ServerFds = {c1, c2}
  ClientFds = {}
  LevelFds = {}
  WakeFd = wake
  NoFd = none
  MaxEvents = 2
  MaxCalls = 1
SPECIFICATION Spec
SYMMETRY Symmetry
INVARIANTS TypeOK NoDuplicateCallback IInv
PROPERTIES NoLostEdge TaskOrder
