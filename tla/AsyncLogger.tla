---------------------------- MODULE AsyncLogger ----------------------------
(***************************************************************************)
(* log/logger and log/async_logger, writing to files (mIsPrint is false):  *)
(* the threads that log, the main thread, whose timer moves the buffer to  *)
(* the queue of blocks and which destroys the Logger when it leaves        *)
(* main(), the writing thread, and the log files.                          *)
(*                                                                         *)
(* A line of the log is its number, in the order the lines took            *)
(* Logger::mMutex; its length is 1.  A file is named by its date and       *)
(* number.  A process that crashed or ended may be started again, with the *)
(* files as they are.                                                      *)
(***************************************************************************)
EXTENDS Naturals, Sequences, SequencesExt

CONSTANTS Others,        \* threads other than the main one that log
          MaxLines,      \* bound: lines logged
          mFileMaxSize,  \* lines in a file that is full
          MaxDate,       \* bound: the last day
          MaxRestarts    \* bound: restarts of the process

ASSUME ConstantsAssumption ==
  /\ {MaxLines, mFileMaxSize, MaxDate} \subseteq Nat \ {0}
  /\ MaxRestarts \in Nat

VARIABLES
  lines,      \* lines logged so far
  mBuffer,    \* Logger::mBuffer
  pushing,    \* a thread inside push_back, or {}
  torn,       \* mBuffer was swapped during that push_back
  lost,       \* lines no longer in the process and not in a file
  main,       \* the main thread: running or where it is in ~Logger
  mBlockQue,  \* blocks for the writing thread
  mIsStop,
  worker,     \* where the writing thread is in loop()
  logBuffer,  \* the block it took
  mDate, mNo, \* date (0: none yet) and number of the file
  mFile,      \* the FILE: "none" yet, "open", or "closed" and dangling
  today,      \* the date
  files,      \* the lines of each file
  restarts

logger == <<lines, mBuffer, pushing, torn, lost>>
async  == <<mBlockQue, mIsStop>>
disk   == <<mDate, mNo, mFile, files>>
vars   == <<logger, main, async, worker, logBuffer, disk, today, restarts>>

Lines == 1 .. MaxLines

FileNames == (1 .. MaxDate) \X (0 .. MaxLines)

TypeOK ==
  /\ lines \in 0 .. MaxLines
  /\ mBuffer \in Seq(Lines)
  /\ pushing \in SUBSET Others
  /\ torn \in BOOLEAN
  /\ lost \subseteq Lines
  /\ main \in {"running", "stop", "flush", "join", "ended", "crashed"}
  /\ mBlockQue \in Seq(Seq(Lines))
  /\ mIsStop \in BOOLEAN
  /\ worker \in {"check", "wait", "blocked", "date", "openDay", "size", "openNext", "write",
                 "done"}
  /\ logBuffer \in Seq(Lines)
  /\ mDate \in 0 .. MaxDate
  /\ mNo \in 0 .. MaxLines
  /\ mFile \in {"none", "open", "closed"}
  /\ today \in 1 .. MaxDate
  /\ files \in [FileNames -> Seq(Lines)]
  /\ restarts \in 0 .. MaxRestarts

\* Logger::Init and the constructor, which waits until the writing thread is
\* in loop(), have run.
Init ==
  /\ lines = 0
  /\ mBuffer = <<>> /\ pushing = {} /\ torn = FALSE /\ lost = {}
  /\ main = "running"
  /\ mBlockQue = <<>> /\ mIsStop = FALSE
  /\ worker = "check" /\ logBuffer = <<>>
  /\ mDate = 0 /\ mNo = 0 /\ mFile = "none"
  /\ today = 1
  /\ files = [f \in FileNames |-> <<>>]
  /\ restarts = 0

Alive == main \notin {"ended", "crashed"}

-----------------------------------------------------------------------------
\* PushLog on the main thread, which cannot be in syncLoop at the same time.
PushLog ==
  /\ main = "running"
  /\ pushing = {}
  /\ lines < MaxLines
  /\ lines' = lines + 1
  /\ mBuffer' = Append(mBuffer, lines + 1)
  /\ UNCHANGED <<pushing, torn, lost, main, async, worker, logBuffer, disk, today, restarts>>

\* PushLog on another thread: mMutex is held, push_back has begun.
PushBegin(t) ==
  /\ main = "running"
  /\ pushing = {}
  /\ lines < MaxLines
  /\ lines' = lines + 1
  /\ pushing' = {t}
  /\ UNCHANGED <<mBuffer, torn, lost, main, async, worker, logBuffer, disk, today, restarts>>

\* push_back ends.  Had syncLoop swapped the vector under it, which is a data
\* race, the line is built in memory mBuffer no longer has: it is lost, or
\* mBuffer is left with pointers that crash the process.
PushEnd(t) ==
  /\ Alive
  /\ t \in pushing
  /\ pushing' = {}
  /\ torn' = FALSE
  /\ \/ /\ ~torn
        /\ mBuffer' = Append(mBuffer, lines)
        /\ UNCHANGED <<main, lost>>
     \/ /\ torn
        /\ lost' = lost \cup {lines}
        /\ main' \in {main, "crashed"}
        /\ UNCHANGED mBuffer
  /\ UNCHANGED <<lines, async, worker, logBuffer, disk, today, restarts>>

\* What the swap of syncLoop leaves in mBuffer.
Swapped == <<>>

\* Mutant: PushLogBuffer notifies nobody.
NotNotified == worker

Notified == IF worker = "blocked" THEN "wait" ELSE worker

\* The swap of syncLoop, without mMutex (logger.cpp:60 locks nothing), and
\* PushLogBuffer, which wakes the writing thread.
MoveBuffer ==
  /\ mBuffer' = Swapped
  /\ torn' = (pushing # {})
  /\ \/ /\ mBuffer = <<>>
        /\ UNCHANGED <<mBlockQue, worker>>
     \/ /\ mBuffer # <<>>
        /\ mBlockQue' = Append(mBlockQue, mBuffer)
        /\ worker' = Notified
  /\ UNCHANGED <<lines, pushing, lost>>

\* The timer runs syncLoop.
SyncLoop ==
  /\ main = "running"
  /\ MoveBuffer
  /\ UNCHANGED <<main, mIsStop, logBuffer, disk, today, restarts>>

\* ~Logger: stop() calls syncLoop, AsyncLogger::Stop and Flush; ~AsyncLogger
\* finds mIsStop set, so it notifies nobody, and joins the thread.
Stop ==
  /\ main = "running"
  /\ MoveBuffer
  /\ main' = "stop"
  /\ UNCHANGED <<mIsStop, logBuffer, disk, today, restarts>>

SetStop ==
  /\ main = "stop"
  /\ mIsStop' = TRUE
  /\ main' = "flush"
  /\ UNCHANGED <<logger, mBlockQue, worker, logBuffer, disk, today, restarts>>

\* fflush of a FILE that the writing thread has closed and not yet replaced
\* may crash.
Flush ==
  /\ main = "flush"
  /\ \/ main' = "join"
     \/ mFile = "closed" /\ main' = "crashed"
  /\ UNCHANGED <<logger, async, worker, logBuffer, disk, today, restarts>>

Join ==
  /\ main = "join"
  /\ worker = "done"
  /\ main' = "ended"
  /\ UNCHANGED <<logger, async, worker, logBuffer, disk, today, restarts>>

-----------------------------------------------------------------------------
(***************************************************************************)
(* The writing thread: loop().                                             *)
(***************************************************************************)
\* Mutant: the loop is while(true).
NeverDone == FALSE

Done == mIsStop

Check ==
  /\ Alive
  /\ worker = "check"
  /\ worker' = IF Done THEN "done" ELSE "wait"
  /\ UNCHANGED <<logger, main, async, logBuffer, disk, today, restarts>>

\* Mutant: the block is read and not popped.
Unpopped == mBlockQue

Popped == Tail(mBlockQue)

\* mCondition.wait tests its predicate under mMutex; when it holds, the front
\* block is taken.  If it holds for mIsStop alone, front() and pop() of the
\* empty queue are undefined: the block is taken for an empty one, or the
\* process crashes.
Wait ==
  /\ Alive
  /\ worker = "wait"
  /\ \/ /\ mBlockQue # <<>>
        /\ logBuffer' = Head(mBlockQue)
        /\ mBlockQue' = Popped
        /\ worker' = "date"
        /\ UNCHANGED main
     \/ /\ mBlockQue = <<>>
        /\ ~mIsStop
        /\ worker' = "blocked"
        /\ UNCHANGED <<main, mBlockQue, logBuffer>>
     \/ /\ mBlockQue = <<>>
        /\ mIsStop
        /\ \/ worker' = "check" /\ UNCHANGED main
           \/ main' = "crashed" /\ UNCHANGED worker
        /\ UNCHANGED <<mBlockQue, logBuffer>>
  /\ UNCHANGED <<logger, mIsStop, disk, today, restarts>>

SpuriousWakeup ==
  /\ Alive
  /\ worker = "blocked"
  /\ worker' = "wait"
  /\ UNCHANGED <<logger, main, async, logBuffer, disk, today, restarts>>

\* A block on a new day has the file closed.
TestDate ==
  /\ Alive
  /\ worker = "date"
  /\ \/ /\ mDate = today
        /\ worker' = "size"
        /\ UNCHANGED disk
     \/ /\ mDate # today
        /\ worker' = "openDay"
        /\ mDate' = today
        /\ mNo' = 0
        /\ mFile' = IF mFile = "none" THEN "none" ELSE "closed"
        /\ UNCHANGED files
  /\ UNCHANGED <<logger, main, async, logBuffer, today, restarts>>

\* Mutant: a file is full only when it is beyond its size.
BeyondFull == Len(files[<<mDate, mNo>>]) > mFileMaxSize

IsFull == Len(files[<<mDate, mNo>>]) >= mFileMaxSize

\* A full file is closed; the number of the next is not tested any more.
TestSize ==
  /\ Alive
  /\ worker = "size"
  /\ \/ /\ ~IsFull
        /\ worker' = "write"
        /\ UNCHANGED disk
     \/ /\ IsFull
        /\ worker' = "openNext"
        /\ mFile' = "closed"
        /\ mNo' = mNo + 1
        /\ UNCHANGED <<mDate, files>>
  /\ UNCHANGED <<logger, main, async, logBuffer, today, restarts>>

\* Mutant: the mode of fopen is "w".
OpenedAnew == [files EXCEPT ![<<mDate, mNo>>] = <<>>]

\* The mode is "a": a file that is there keeps its lines.
Opened == files

\* fopen.  When it fails, ftell or fwrite of a null FILE crashes.
Open ==
  /\ Alive
  /\ worker \in {"openDay", "openNext"}
  /\ \/ /\ mFile' = "open"
        /\ files' = Opened
        /\ worker' = IF worker = "openDay" THEN "size" ELSE "write"
        /\ UNCHANGED main
     \/ main' = "crashed" /\ UNCHANGED <<mFile, files, worker>>
  /\ UNCHANGED <<logger, async, logBuffer, mDate, mNo, today, restarts>>

Write ==
  /\ Alive
  /\ worker = "write"
  /\ files' = [files EXCEPT ![<<mDate, mNo>>] = @ \o logBuffer]
  /\ logBuffer' = <<>>
  /\ worker' = "check"
  /\ UNCHANGED <<logger, main, async, mDate, mNo, mFile, today, restarts>>

WorkerStep == Check \/ Wait \/ TestDate \/ TestSize \/ Open \/ Write

-----------------------------------------------------------------------------
Midnight ==
  /\ today < MaxDate
  /\ today' = today + 1
  /\ UNCHANGED <<logger, main, async, worker, logBuffer, disk, restarts>>

IsWritten(line) == \E f \in FileNames : line \in ToSet(files[f])

Written == {line \in Lines : IsWritten(line)}

\* The process is killed, or has ended or crashed, and is started again.
Restart ==
  /\ restarts < MaxRestarts
  /\ restarts' = restarts + 1
  /\ lost' = (1 .. lines) \ Written
  /\ mBuffer' = <<>> /\ pushing' = {} /\ torn' = FALSE
  /\ main' = "running"
  /\ mBlockQue' = <<>> /\ mIsStop' = FALSE
  /\ worker' = "check" /\ logBuffer' = <<>>
  /\ mDate' = 0 /\ mNo' = 0 /\ mFile' = "none"
  /\ UNCHANGED <<lines, today, files>>

Next ==
  \/ PushLog
  \/ \E t \in Others : PushBegin(t) \/ PushEnd(t)
  \/ SyncLoop \/ Stop \/ SetStop \/ Flush \/ Join
  \/ WorkerStep \/ SpuriousWakeup
  \/ Midnight \/ Restart

Spec == Init /\ [][Next]_vars

\* The threads are scheduled.  Nobody has to log, a condition variable need
\* not wake up for nothing, and the timer need not fire again: syncLoop is an
\* event of a timer that may stall, and a client may never register it.
FairSpec ==
  /\ Spec
  /\ WF_vars(SetStop \/ Flush \/ Join) /\ WF_vars(WorkerStep)
  /\ \A t \in Others : WF_vars(PushEnd(t))

-----------------------------------------------------------------------------
Rising(s) == \A i, j \in DOMAIN s : i < j => s[i] < s[j]
Before(s, r) == \A x \in ToSet(s), y \in ToSet(r) : x < y

\* Whatever races, stops or crashes: no line is written twice, and the lines
\* of one file are in order.
WrittenOnce ==
  /\ \A f, g \in FileNames : f # g => ToSet(files[f]) \cap ToSet(files[g]) = {}
  /\ \A f \in FileNames : Rising(files[f])

\* What is on its way is in order, behind what is in the files and before a
\* line that is just being pushed.
InOrder ==
  /\ pushing # {} => lines > 0
  /\ Rising(logBuffer) /\ Rising(mBuffer) /\ Before(logBuffer, mBuffer)
  /\ \A i \in DOMAIN mBlockQue : /\ Rising(mBlockQue[i])
                                 /\ Before(logBuffer, mBlockQue[i])
                                 /\ Before(mBlockQue[i], mBuffer)
  /\ \A i, j \in DOMAIN mBlockQue : i < j => Before(mBlockQue[i], mBlockQue[j])
  /\ \A f \in FileNames : /\ Before(files[f], logBuffer)
                          /\ Before(files[f], mBuffer)
                          /\ \A i \in DOMAIN mBlockQue : Before(files[f], mBlockQue[i])
  /\ LET last == <<IF pushing = {} THEN lines + 1 ELSE lines>>
     IN  /\ Before(logBuffer, last) /\ Before(mBuffer, last)
         /\ \A i \in DOMAIN mBlockQue : Before(mBlockQue[i], last)
         /\ \A f \in FileNames : Before(files[f], last)

\* Files are numbered as they fill up.  In one run of the process, nothing is
\* in a file of a later day or number, and none is written to when it is full.
Numbered ==
  /\ mDate <= today
  /\ worker \in {"openDay", "size", "openNext", "write"} => mDate > 0
  /\ \A n \in 0 .. MaxLines : n < mNo => files[<<mDate, n>>] # <<>>
  /\ restarts = 0 =>
       /\ \A f \in FileNames : f[1] > mDate => files[f] = <<>>
       /\ \A n \in 0 .. MaxLines : n > mNo /\ mDate > 0 => files[<<mDate, n>>] = <<>>
       /\ worker = "openNext" => files[<<mDate, mNo>>] = <<>>
       /\ worker = "write" => Len(files[<<mDate, mNo>>]) < mFileMaxSize

\* A file that has reached its size gets no more lines, in one run of the
\* process: "判断文件大小是否达到上限，若达到上限则文件序号加 1 写入新文件中"
\* (async_logger.cpp:77).  A new process starts again with number 0 and
\* tests the size once, so it may add to a full file.
FullFileIsDone ==
  [][restarts' = 0 =>
       \A f \in FileNames : Len(files[f]) >= mFileMaxSize => files'[f] = files[f]]_vars

LogInv == TypeOK /\ WrittenOnce /\ InOrder /\ Numbered

\* The lines in the blocks of a queue.
Held(que) == UNION {ToSet(que[i]) : i \in DOMAIN que}

\* What is in the process, whole, and what has been logged so far: all but the
\* line that is just being pushed.
OnTheWay == ToSet(logBuffer) \cup Held(mBlockQue) \cup ToSet(mBuffer)

Logged == 1 .. lines \ IF pushing = {} THEN {} ELSE {lines}

NamedBefore(f, g) == f[1] < g[1] \/ (f[1] = g[1] /\ f[2] < g[2])

\* Every line is in the process or in a file, and in one run of the process the
\* files, in the order of their dates and numbers, are in the order of the
\* lines: the two buffers, the queue and the opening of files lose nothing.
\* The only lines lost are those whose push_back met the unlocked swap
\* (logger.cpp:60) and those that were in a process that was started anew.
Pipeline ==
  /\ worker \in {"check", "wait", "blocked", "done"} => logBuffer = <<>>
  /\ Logged = Written \cup OnTheWay \cup lost
  /\ lost \cap (Written \cup OnTheWay) = {}
  /\ restarts = 0 =>
       \A f, g \in FileNames : NamedBefore(f, g) => Before(files[f], files[g])

\* A line that is in the process reaches a file, or main() returns or the
\* process dies first, provided that the timer that runs syncLoop keeps
\* running: the writing thread misses no notification.
BufferedIsWritten ==
  WF_vars(SyncLoop) =>
    \A line \in Lines :
      line <= lines ~> line \in Written \cup lost \/ main # "running"

\* A process that leaves main() ends, if the writing thread is not asleep when
\* mIsStop is set: the join is for a thread that sees the flag on its way
\* round, whatever it was doing.  A thread that is asleep is told nothing
\* (logger.cpp:39, async_logger.cpp:17).
StopEnds ==
  (mIsStop /\ worker # "blocked") ~> (main \in {"ended", "crashed"} \/ ~mIsStop)
=============================================================================
