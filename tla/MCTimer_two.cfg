\* The two events of a server.
CONSTANTS
  clear = clear
  sync = sync
  call = call
  Events = {clear, sync}
  Periodic <- Repeating
  Interval <- Intervals
  Cancellable = {}
  Grace = 1
  MaxSteps = 0
SPECIFICATION FairSpec
PROPERTY PendingEventRuns
