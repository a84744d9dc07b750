\* One client that sends at once, one IO thread.
CONSTANTS
  c1 = c1
  c2 = c2
  none = none
  Clients = {c1}
  MaxFds = 1
  ThreadNums = 1
  MaxRequests <- NextRequest
  None = none
SPECIFICATION FairSpec
CHECK_DEADLOCK FALSE
PROPERTIES RequestIsRead
