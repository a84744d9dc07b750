\* One call.
CONSTANTS
  MaxCalls = 1
  Timeout = 2
  Grace = 1
SPECIFICATION FairSpec
PROPERTY CallIsAnswered
CHECK_DEADLOCK FALSE
