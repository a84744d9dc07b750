\* Two clients, one with a next request, two descriptors, two IO threads.
CONSTANTS
  c1 = c1
  c2 = c2
  none = none
  Clients = {c1, c2}
  MaxFds = 2
  ThreadNums = 2
  MaxRequests <- NextRequest
  None = none
SPECIFICATION FairSpec
CHECK_DEADLOCK FALSE
INVARIANTS ServerInv HandedToLoop FdMapAgrees RegisteredIsAlive LeftoverIsOneWrite
PROPERTIES PoolStarts RequestAnswered FinReclaimed
