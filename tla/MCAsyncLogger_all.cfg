\* Two logging threads, files that fill up, a change of date; main() returns,
\* and the process is started again.
CONSTANTS
  Others = {1}
  MaxLines = 4
  mFileMaxSize = 2
  MaxDate = 2
  MaxRestarts = 1
SPECIFICATION FairSpec
INVARIANTS LogInv Pipeline
PROPERTIES FullFileIsDone BufferedIsWritten StopEnds
CHECK_DEADLOCK FALSE
