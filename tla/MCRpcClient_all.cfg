\* Two calls, the second within the second of the first or later; responses
\* whole, in pieces, late or never; a server that closes.
CONSTANTS
  MaxCalls = 2
  Timeout = 2
  Grace = 1
SPECIFICATION FairSpec
INVARIANTS ClientInv CleanCallIsAnswered OutcomeIsTrue ConnectedIsReached
PROPERTY ArmedCallReturns
CHECK_DEADLOCK FALSE
