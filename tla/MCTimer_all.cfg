\* The events of a server and a client, and a clock set back.
CONSTANTS
  clear = clear
  sync = sync
  call = call
  Events = {clear, sync, call}
  Periodic <- Repeating
  Interval <- Intervals
  Cancellable = {call}
  Grace = 1
  MaxSteps = 2
SPECIFICATION FairSpec
INVARIANT IInv
PROPERTIES TimerContract ArmedRuns
