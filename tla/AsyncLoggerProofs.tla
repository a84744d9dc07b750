------------------------- MODULE AsyncLoggerProofs -------------------------
(***************************************************************************)
(* Proofs about AsyncLogger, for any numbers of threads, lines, days and   *)
(* restarts and any size of a file: whatever is preempted, stopped, killed *)
(* or crashes, lines are written at most once and in order, and in one run *)
(* of the process a full file is left alone.                               *)
(***************************************************************************)
EXTENDS AsyncLogger, TLAPS, FiniteSetTheorems, SequenceTheorems

-----------------------------------------------------------------------------
(***************************************************************************)
(* Blocks of lines.                                                        *)
(***************************************************************************)
\* What is in a sequence with an element at its end.
LEMMA AppendSet ==
  ASSUME NEW S, NEW q \in Seq(S), NEW x \in S
  PROVE  Append(q, x) \in Seq(S) /\ ToSet(Append(q, x)) = ToSet(q) \cup {x}
<1>1. /\ Append(q, x) \in Seq(S) /\ Len(q) \in Nat
      /\ DOMAIN Append(q, x) = DOMAIN q \cup {Len(q) + 1}
      /\ Append(q, x)[Len(q) + 1] = x
      /\ \A i \in DOMAIN q : Append(q, x)[i] = q[i]
  OBVIOUS
<1> QED
  BY <1>1 DEF ToSet

\* What is in two sequences, one behind the other.
LEMMA ConcatSet ==
  ASSUME NEW S, NEW q \in Seq(S), NEW r \in Seq(S)
  PROVE  q \o r \in Seq(S) /\ ToSet(q \o r) = ToSet(q) \cup ToSet(r)
<1>1. /\ q \o r \in Seq(S) /\ Len(q) \in Nat
      /\ \A i \in DOMAIN (q \o r) :
           \/ i \in DOMAIN q /\ (q \o r)[i] = q[i]
           \/ i - Len(q) \in DOMAIN r /\ (q \o r)[i] = r[i - Len(q)]
  OBVIOUS
<1>2. \A i \in DOMAIN q : i \in DOMAIN (q \o r) /\ (q \o r)[i] = q[i]
  OBVIOUS
<1>3. \A i \in DOMAIN r : i + Len(q) \in DOMAIN (q \o r) /\ (q \o r)[i + Len(q)] = r[i]
  OBVIOUS
<1>4. \A y \in ToSet(q \o r) : y \in ToSet(q) \cup ToSet(r)
  BY <1>1 DEF ToSet
<1>5. \A y \in ToSet(q) : y \in ToSet(q \o r)
  BY <1>2 DEF ToSet
<1>6. \A y \in ToSet(r) : y \in ToSet(q \o r)
  BY <1>3 DEF ToSet
<1> QED
  BY <1>1, <1>4, <1>5, <1>6

\* What it is to be before one line.
LEMMA BeforeOne ==
  ASSUME NEW s, NEW x
  PROVE  Before(s, <<x>>) <=> \A y \in ToSet(s) : y < x
<1>1. ToSet(<<x>>) = {x}
  BY DEF ToSet
<1> QED
  BY <1>1 DEF Before

\* A block to which a later line, or later lines, are added.
LEMMA RisingFacts ==
  ASSUME NEW q \in Seq(Nat), NEW r \in Seq(Nat), NEW x \in Nat, Rising(q)
  PROVE  /\ Rising(<<>>)
         /\ Before(q, <<x>>) => Rising(Append(q, x))
         /\ Rising(r) /\ Before(q, r) => Rising(q \o r)
<1>1. Rising(<<>>)
  BY DEF Rising
<1>2. ASSUME Before(q, <<x>>)
      PROVE  Rising(Append(q, x))
  <2>1. /\ Len(q) \in Nat /\ DOMAIN q = 1 .. Len(q)
        /\ DOMAIN Append(q, x) = 1 .. Len(q) + 1
        /\ Append(q, x)[Len(q) + 1] = x
        /\ \A i \in DOMAIN q : Append(q, x)[i] = q[i]
    OBVIOUS
  <2>2. \A i \in DOMAIN q : q[i] < x
    BY <1>2 DEF Before, ToSet
  <2> QED
    BY <2>1, <2>2 DEF Rising
<1>3. ASSUME Rising(r), Before(q, r)
      PROVE  Rising(q \o r)
  <2>1. /\ Len(q) \in Nat /\ DOMAIN (q \o r) \subseteq Nat
        /\ \A i \in DOMAIN (q \o r) :
             \/ i \in DOMAIN q /\ (q \o r)[i] = q[i] /\ i <= Len(q)
             \/ i - Len(q) \in DOMAIN r /\ (q \o r)[i] = r[i - Len(q)] /\ i > Len(q)
    OBVIOUS
  <2>2. \A i \in DOMAIN q, j \in DOMAIN r : q[i] < r[j]
    BY <1>3 DEF Before, ToSet
  <2> SUFFICES ASSUME NEW i \in DOMAIN (q \o r), NEW j \in DOMAIN (q \o r), i < j
               PROVE  (q \o r)[i] < (q \o r)[j]
    BY DEF Rising
  <2>3. CASE i <= Len(q) /\ j <= Len(q)
    BY <2>1, <2>3 DEF Rising
  <2>4. CASE i <= Len(q) /\ j > Len(q)
    BY <2>1, <2>2, <2>4
  <2>5. CASE i > Len(q)
    <3>1. j > Len(q) /\ i - Len(q) < j - Len(q)
      BY <2>1, <2>5
    <3> QED
      BY <1>3, <2>1, <2>5, <3>1 DEF Rising
  <2> QED
    BY <2>1, <2>3, <2>4, <2>5
<1> QED
  BY <1>1, <1>2, <1>3

\* Nothing is before or behind nothing.
LEMMA BeforeEmpty ==
  ASSUME NEW s
  PROVE  Before(<<>>, s) /\ Before(s, <<>>)
BY DEF Before, ToSet

-----------------------------------------------------------------------------
(***************************************************************************)
(* The lines: WrittenOnce and InOrder.                                     *)
(***************************************************************************)
\* The line that is logged next, or is just being pushed.
NextLine == IF pushing = {} THEN lines + 1 ELSE lines

\* Everything that is in the process or in a file comes before that line.
LEMMA LastFacts ==
  ASSUME TypeOK, InOrder
  PROVE  /\ NextLine \in Nat /\ (pushing # {} => NextLine \in Lines)
         /\ \A x \in ToSet(logBuffer) \cup ToSet(mBuffer) : x < NextLine
         /\ \A i \in DOMAIN mBlockQue : \A x \in ToSet(mBlockQue[i]) : x < NextLine
         /\ \A f \in FileNames : \A x \in ToSet(files[f]) : x < NextLine
<1>1. NextLine \in Nat /\ (pushing # {} => NextLine \in Lines)
  BY ConstantsAssumption DEF TypeOK, InOrder, NextLine, Lines
<1>2. /\ Before(logBuffer, <<NextLine>>) /\ Before(mBuffer, <<NextLine>>)
      /\ \A i \in DOMAIN mBlockQue : Before(mBlockQue[i], <<NextLine>>)
      /\ \A f \in FileNames : Before(files[f], <<NextLine>>)
  BY DEF InOrder, NextLine
<1> QED
  BY <1>1, <1>2, BeforeOne

\* A step that moves no line.
LEMMA LinesKept ==
  ASSUME WrittenOnce, InOrder,
         UNCHANGED <<lines, pushing, mBuffer, mBlockQue, logBuffer, files>>
  PROVE  WrittenOnce' /\ InOrder'
BY DEF WrittenOnce, InOrder

\* The types of the blocks.
LEMMA BlockTypes ==
  ASSUME TypeOK
  PROVE  /\ Lines \subseteq Nat
         /\ mBuffer \in Seq(Nat) /\ logBuffer \in Seq(Nat)
         /\ \A i \in DOMAIN mBlockQue : mBlockQue[i] \in Seq(Lines) /\ mBlockQue[i] \in Seq(Nat)
         /\ \A f \in FileNames : files[f] \in Seq(Lines) /\ files[f] \in Seq(Nat)
<1>1. Lines \subseteq Nat
  BY DEF Lines
<1>2. \A q \in Seq(Lines) : q \in Seq(Nat)
  BY <1>1, SeqMonotonic
<1> QED
  BY <1>1, <1>2 DEF TypeOK

\* A line gets to the end of mBuffer, or the push of one begins.
LEMMA LinePushed ==
  ASSUME TypeOK, WrittenOnce, InOrder,
         \/ mBuffer' = Append(mBuffer, NextLine) /\ pushing' = {}
         \/ mBuffer' = mBuffer,
         \/ lines' = lines /\ pushing' = {} /\ pushing # {}
         \/ lines' = lines + 1 /\ pushing = {},
         UNCHANGED <<mBlockQue, logBuffer, files>>
  PROVE  WrittenOnce' /\ InOrder'
<1>1. /\ NextLine \in Nat
      /\ \A x \in ToSet(logBuffer) \cup ToSet(mBuffer) : x < NextLine
      /\ \A i \in DOMAIN mBlockQue : \A x \in ToSet(mBlockQue[i]) : x < NextLine
      /\ \A f \in FileNames : \A x \in ToSet(files[f]) : x < NextLine
  BY LastFacts
<1>2. lines \in Nat /\ lines' \in Nat /\ NextLine <= NextLine' /\ (pushing' # {} => lines' > 0)
      /\ NextLine' \in Nat
  BY DEF TypeOK, NextLine
<1>3. mBuffer \in Seq(Nat) /\ \A x \in ToSet(mBuffer) : x \in Nat
  BY BlockTypes DEF ToSet
<1>4. \A x \in ToSet(mBuffer') : x \in ToSet(mBuffer) \/ (x = NextLine /\ NextLine < NextLine')
  <2>1. CASE mBuffer' = Append(mBuffer, NextLine) /\ pushing' = {}
    <3>1. ToSet(mBuffer') = ToSet(mBuffer) \cup {NextLine}
      BY <1>1, <1>3, <2>1, AppendSet
    <3>2. NextLine < NextLine'
      <4>1. lines \in Nat /\ NextLine' = lines' + 1
        BY <1>2, <2>1 DEF NextLine
      <4>2. CASE lines' = lines /\ pushing # {}
        BY <4>1, <4>2 DEF NextLine
      <4>3. CASE lines' = lines + 1 /\ pushing = {}
        BY <4>1, <4>3 DEF NextLine
      <4> QED
        BY <4>2, <4>3
    <3> QED
      BY <3>1, <3>2
  <2>2. CASE mBuffer' = mBuffer
    BY <2>2
  <2> QED
    BY <2>1, <2>2
<1>5. Rising(mBuffer')
  <2>1. Before(mBuffer, <<NextLine>>)
    BY DEF InOrder, NextLine
  <2> QED
    BY <1>1, <1>3, <2>1, RisingFacts DEF InOrder
<1>6. /\ \A x \in ToSet(logBuffer) : x \in Nat
      /\ \A i \in DOMAIN mBlockQue : \A x \in ToSet(mBlockQue[i]) : x \in Nat
      /\ \A f \in FileNames : \A x \in ToSet(files[f]) : x \in Nat
  BY BlockTypes DEF ToSet
<1>7. /\ Before(logBuffer, mBuffer')
      /\ \A i \in DOMAIN mBlockQue : Before(mBlockQue[i], mBuffer')
      /\ \A f \in FileNames : Before(files[f], mBuffer')
  BY <1>1, <1>4 DEF InOrder, Before
<1>8. \A x \in Nat : x < NextLine => x < NextLine'
  BY <1>1, <1>2
<1>9. /\ Before(logBuffer, <<NextLine'>>) /\ Before(mBuffer', <<NextLine'>>)
      /\ \A i \in DOMAIN mBlockQue : Before(mBlockQue[i], <<NextLine'>>)
      /\ \A f \in FileNames : Before(files[f], <<NextLine'>>)
  BY <1>1, <1>3, <1>4, <1>6, <1>8, BeforeOne
<1>10. WrittenOnce'
  BY DEF WrittenOnce
<1>11. InOrder'
  BY <1>2, <1>5, <1>7, <1>9 DEF InOrder, NextLine
<1> QED
  BY <1>10, <1>11

\* The buffer becomes the last block.
LEMMA BufferMoved ==
  ASSUME TypeOK, WrittenOnce, InOrder, MoveBuffer, UNCHANGED <<logBuffer, files>>
  PROVE  WrittenOnce' /\ InOrder'
<1>1. mBuffer' = <<>> /\ UNCHANGED <<lines, pushing>>
  BY DEF MoveBuffer, Swapped
<1>2. \/ mBlockQue' = mBlockQue
      \/ mBlockQue' = Append(mBlockQue, mBuffer)
  BY DEF MoveBuffer
<1>3. \A s : Before(<<>>, s) /\ Before(s, <<>>)
  BY BeforeEmpty
<1>4. Rising(<<>>)
  BY DEF Rising
<1>5. mBlockQue \in Seq(Seq(Lines)) /\ mBuffer \in Seq(Lines)
  BY DEF TypeOK
<1>6. \A i \in DOMAIN mBlockQue' :
        \/ /\ i \in DOMAIN mBlockQue /\ mBlockQue'[i] = mBlockQue[i]
        \/ /\ mBlockQue'[i] = mBuffer /\ \A j \in DOMAIN mBlockQue' : j <= i
  <2>1. CASE mBlockQue' = Append(mBlockQue, mBuffer)
    <3>1. /\ Len(mBlockQue) \in Nat /\ DOMAIN mBlockQue = 1 .. Len(mBlockQue)
          /\ DOMAIN mBlockQue' = 1 .. Len(mBlockQue) + 1
          /\ mBlockQue'[Len(mBlockQue) + 1] = mBuffer
          /\ \A i \in DOMAIN mBlockQue : mBlockQue'[i] = mBlockQue[i]
      BY <1>5, <2>1
    <3> QED
      BY <3>1
  <2> QED
    BY <1>2, <2>1
<1>7. DOMAIN mBlockQue' \subseteq Nat
  BY <1>2, <1>5
<1>8. \A i \in DOMAIN mBlockQue' : /\ Rising(mBlockQue'[i])
                                   /\ Before(logBuffer, mBlockQue'[i])
                                   /\ Before(mBlockQue'[i], <<NextLine>>)
                                   /\ \A f \in FileNames : Before(files[f], mBlockQue'[i])
  BY <1>6 DEF InOrder, NextLine
<1>9. \A i, j \in DOMAIN mBlockQue' : i < j => Before(mBlockQue'[i], mBlockQue'[j])
  BY <1>6, <1>7 DEF InOrder
<1>10. NextLine' = NextLine
  BY <1>1 DEF NextLine
<1>11. WrittenOnce'
  BY DEF WrittenOnce
<1>12. InOrder'
  BY <1>1, <1>3, <1>4, <1>8, <1>9, <1>10 DEF InOrder, NextLine
<1> QED
  BY <1>11, <1>12

\* The front block is taken.
LEMMA BlockTaken ==
  ASSUME TypeOK, WrittenOnce, InOrder, mBlockQue # <<>>,
         logBuffer' = Head(mBlockQue), mBlockQue' = Tail(mBlockQue),
         UNCHANGED <<lines, pushing, mBuffer, files>>
  PROVE  WrittenOnce' /\ InOrder'
<1>1. mBlockQue \in Seq(Seq(Lines))
  BY DEF TypeOK
<1>2. /\ logBuffer' = mBlockQue[1] /\ 1 \in DOMAIN mBlockQue
      /\ \A i \in DOMAIN mBlockQue' :
           /\ i + 1 \in DOMAIN mBlockQue /\ mBlockQue'[i] = mBlockQue[i + 1] /\ i + 1 > 1
  <2>1. Len(mBlockQue) > 0 /\ Len(Tail(mBlockQue)) = Len(mBlockQue) - 1
    BY <1>1
  <2>2. \A i \in 1 .. Len(mBlockQue) - 1 : Tail(mBlockQue)[i] = mBlockQue[i + 1]
    BY <1>1
  <2>3. /\ DOMAIN mBlockQue = 1 .. Len(mBlockQue)
        /\ DOMAIN Tail(mBlockQue) = 1 .. Len(mBlockQue) - 1
        /\ Head(mBlockQue) = mBlockQue[1]
    BY <1>1, <2>1
  <2> QED
    BY <2>1, <2>2, <2>3
<1>3. DOMAIN mBlockQue' \subseteq Nat
  BY <1>1
<1>4. \A i, j \in DOMAIN mBlockQue' : i < j => Before(mBlockQue'[i], mBlockQue'[j])
  BY <1>2, <1>3 DEF InOrder
<1>5. \A i \in DOMAIN mBlockQue' : /\ Rising(mBlockQue'[i])
                                   /\ Before(logBuffer', mBlockQue'[i])
                                   /\ Before(mBlockQue'[i], mBuffer)
                                   /\ Before(mBlockQue'[i], <<NextLine>>)
                                   /\ \A f \in FileNames : Before(files[f], mBlockQue'[i])
  BY <1>2 DEF InOrder, NextLine
<1>6. /\ Rising(logBuffer') /\ Before(logBuffer', mBuffer) /\ Before(logBuffer', <<NextLine>>)
      /\ \A f \in FileNames : Before(files[f], logBuffer')
  BY <1>2 DEF InOrder, NextLine
<1>7. NextLine' = NextLine
  BY DEF NextLine
<1>8. WrittenOnce'
  BY DEF WrittenOnce
<1>9. InOrder'
  BY <1>4, <1>5, <1>6, <1>7 DEF InOrder, NextLine
<1> QED
  BY <1>8, <1>9

\* The block is written.
LEMMA BlockWritten ==
  ASSUME TypeOK, WrittenOnce, InOrder, NEW f \in FileNames,
         files' = [files EXCEPT ![f] = @ \o logBuffer], logBuffer' = <<>>,
         UNCHANGED <<lines, pushing, mBuffer, mBlockQue>>
  PROVE  WrittenOnce' /\ InOrder' /\ files' \in [FileNames -> Seq(Lines)]
<1>1. files[f] \in Seq(Lines) /\ logBuffer \in Seq(Lines) /\ Lines \subseteq Nat
  BY DEF TypeOK, Lines
<1>2. /\ files[f] \o logBuffer \in Seq(Lines)
      /\ ToSet(files[f] \o logBuffer) = ToSet(files[f]) \cup ToSet(logBuffer)
  BY <1>1, ConcatSet
<1>3. \A g \in FileNames : files'[g] = IF g = f THEN files[f] \o logBuffer ELSE files[g]
  BY DEF TypeOK
<1>4. \A g \in FileNames : \A x \in ToSet(files'[g]) :
        x \in ToSet(files[g]) \/ (g = f /\ x \in ToSet(logBuffer))
  BY <1>2, <1>3
<1>5. Rising(files[f] \o logBuffer)
  <2>1. files[f] \in Seq(Nat) /\ logBuffer \in Seq(Nat)
    BY BlockTypes
  <2>2. Rising(files[f]) /\ Rising(logBuffer) /\ Before(files[f], logBuffer)
    BY DEF WrittenOnce, InOrder
  <2> QED
    BY <2>1, <2>2, RisingFacts
<1>6. \A x \in ToSet(logBuffer) : x \in Nat
  BY BlockTypes DEF ToSet
<1>7. \A g \in FileNames : ToSet(files[g]) \cap ToSet(logBuffer) = {}
  <2>1. \A g \in FileNames : Before(files[g], logBuffer)
    BY DEF InOrder
  <2>2. \A x \in ToSet(logBuffer) : ~(x < x)
    BY <1>6
  <2> QED
    BY <2>1, <2>2 DEF Before
<1>8. WrittenOnce'
  <2>1. \A g \in FileNames : Rising(files'[g])
    BY <1>3, <1>5 DEF WrittenOnce
  <2>2. \A g, h \in FileNames : g # h => ToSet(files'[g]) \cap ToSet(files'[h]) = {}
    BY <1>4, <1>7 DEF WrittenOnce
  <2> QED
    BY <2>1, <2>2 DEF WrittenOnce
<1>9. NextLine' = NextLine
  BY DEF NextLine
<1>10. \A g \in FileNames : /\ Before(files'[g], mBuffer) /\ Before(files'[g], <<NextLine>>)
                            /\ \A i \in DOMAIN mBlockQue : Before(files'[g], mBlockQue[i])
  BY <1>4 DEF InOrder, Before, NextLine
<1>11. Rising(<<>>) /\ \A s : Before(<<>>, s) /\ Before(s, <<>>)
  BY BeforeEmpty DEF Rising
<1>12. InOrder'
  BY <1>9, <1>10, <1>11 DEF InOrder, NextLine
<1>13. files' \in [FileNames -> Seq(Lines)]
  BY <1>2 DEF TypeOK
<1> QED
  BY <1>8, <1>12, <1>13

-----------------------------------------------------------------------------
(***************************************************************************)
(* The numbers of files.                                                   *)
(***************************************************************************)
\* A step that leaves the file alone.
LEMMA NumberedKept ==
  ASSUME Numbered, UNCHANGED <<mDate, mNo, files, today, restarts>>,
         worker' = worker \/ worker' \notin {"openDay", "size", "openNext", "write"}
  PROVE  Numbered'
BY DEF Numbered

\* When a file has lines, and so have all with smaller numbers, there are
\* lines for the number of the next: each file has one of its own.
LEMMA NumberBound ==
  ASSUME TypeOK, WrittenOnce, Numbered, mDate > 0, files[<<mDate, mNo>>] # <<>>
  PROVE  mNo + 1 <= MaxLines
<1> DEFINE first == [n \in 0 .. mNo |-> files[<<mDate, n>>][1]]
<1>1. mNo \in Nat /\ MaxLines \in Nat /\ mNo <= MaxLines
  BY ConstantsAssumption DEF TypeOK
<1>2. \A n \in 0 .. mNo : /\ <<mDate, n>> \in FileNames
                          /\ files[<<mDate, n>>] \in Seq(Lines)
                          /\ files[<<mDate, n>>] # <<>>
  <2> SUFFICES ASSUME NEW n \in 0 .. mNo
               PROVE  /\ <<mDate, n>> \in FileNames
                      /\ files[<<mDate, n>>] \in Seq(Lines)
                      /\ files[<<mDate, n>>] # <<>>
    OBVIOUS
  <2>1. n \in 0 .. MaxLines /\ mDate \in 1 .. MaxDate
    BY <1>1, ConstantsAssumption DEF TypeOK
  <2>2. <<mDate, n>> \in FileNames
    BY <2>1 DEF FileNames
  <2>3. files[<<mDate, n>>] # <<>>
    BY <1>1, <2>1 DEF Numbered
  <2> QED
    BY <2>2, <2>3 DEF TypeOK
<1>3. \A n \in 0 .. mNo : first[n] \in Lines /\ first[n] \in ToSet(files[<<mDate, n>>])
  <2> SUFFICES ASSUME NEW n \in 0 .. mNo
               PROVE  first[n] \in Lines /\ first[n] \in ToSet(files[<<mDate, n>>])
    OBVIOUS
  <2>1. 1 \in DOMAIN files[<<mDate, n>>] /\ files[<<mDate, n>>][1] \in Lines
    BY <1>2
  <2> QED
    BY <2>1 DEF ToSet
<1>4. \A m, n \in 0 .. mNo : m # n => first[m] # first[n]
  <2> SUFFICES ASSUME NEW m \in 0 .. mNo, NEW n \in 0 .. mNo, m # n
               PROVE  first[m] # first[n]
    OBVIOUS
  <2>1. <<mDate, m>> # <<mDate, n>>
    OBVIOUS
  <2>2. ToSet(files[<<mDate, m>>]) \cap ToSet(files[<<mDate, n>>]) = {}
    BY <1>2, <2>1 DEF WrittenOnce
  <2> QED
    BY <1>3, <2>2
<1>5. first \in [0 .. mNo -> 1 .. MaxLines]
  BY <1>3 DEF Lines
<1> HIDE DEF first
<1>6. IsFiniteSet(1 .. MaxLines) /\ Cardinality(1 .. MaxLines) = MaxLines
  BY <1>1, FS_Interval
<1>7. IsFiniteSet(0 .. mNo) /\ Cardinality(0 .. mNo) = mNo + 1
  BY <1>1, FS_Interval
<1>8. first \in Injection(0 .. mNo, 1 .. MaxLines)
  BY <1>4, <1>5 DEF Injection, IsInjective
<1>9. Cardinality(0 .. mNo) <= Cardinality(1 .. MaxLines)
  BY <1>6, <1>8, FS_Injection
<1> QED
  BY <1>6, <1>7, <1>9

-----------------------------------------------------------------------------
(***************************************************************************)
(* The steps.                                                              *)
(***************************************************************************)
\* PushLog on the main thread.
LEMMA PushLogStep ==
  ASSUME LogInv, PushLog
  PROVE  LogInv'
<1>1. /\ pushing = {} /\ lines < MaxLines /\ lines' = lines + 1
      /\ mBuffer' = Append(mBuffer, lines + 1)
      /\ UNCHANGED <<pushing, torn, lost, main, async, worker, logBuffer, disk, today, restarts>>
  BY DEF PushLog
<1>2. lines + 1 \in Lines /\ lines' \in 0 .. MaxLines
  BY <1>1, ConstantsAssumption DEF LogInv, TypeOK, Lines
<1>3. mBuffer' \in Seq(Lines)
  BY <1>1, <1>2, AppendSet DEF LogInv, TypeOK
<1>4. TypeOK'
  BY <1>1, <1>2, <1>3 DEF LogInv, TypeOK, async, disk
<1>5. WrittenOnce' /\ InOrder'
  BY <1>1, LinePushed DEF LogInv, NextLine, async, disk
<1>6. Numbered'
  BY <1>1, NumberedKept DEF LogInv, disk
<1> QED
  BY <1>4, <1>5, <1>6 DEF LogInv

\* A push on another thread begins.
LEMMA PushBeginStep ==
  ASSUME LogInv, NEW t \in Others, PushBegin(t)
  PROVE  LogInv'
<1>1. /\ pushing = {} /\ lines < MaxLines /\ lines' = lines + 1 /\ pushing' = {t}
      /\ UNCHANGED <<mBuffer, torn, lost, main, async, worker, logBuffer, disk, today, restarts>>
  BY DEF PushBegin
<1>2. lines' \in 0 .. MaxLines
  BY <1>1, ConstantsAssumption DEF LogInv, TypeOK
<1>3. TypeOK'
  BY <1>1, <1>2 DEF LogInv, TypeOK, async, disk
<1>4. NextLine' = NextLine /\ lines' > 0
  BY <1>1 DEF LogInv, TypeOK, NextLine
<1>5. WrittenOnce' /\ InOrder'
  BY <1>1, <1>4 DEF LogInv, WrittenOnce, InOrder, NextLine, async, disk
<1>6. Numbered'
  BY <1>1, NumberedKept DEF LogInv, disk
<1> QED
  BY <1>3, <1>5, <1>6 DEF LogInv

\* A push ends, in the buffer or in memory that is no longer there.
LEMMA PushEndStep ==
  ASSUME LogInv, NEW t \in Others, PushEnd(t)
  PROVE  LogInv'
<1>1. /\ pushing # {} /\ pushing' = {} /\ torn' = FALSE
      /\ \/ mBuffer' = Append(mBuffer, lines) /\ UNCHANGED <<main, lost>>
         \/ mBuffer' = mBuffer /\ lost' = lost \cup {lines} /\ main' \in {main, "crashed"}
      /\ UNCHANGED <<lines, async, worker, logBuffer, disk, today, restarts>>
  BY DEF PushEnd
<1>2. NextLine = lines /\ lines \in Lines
  BY <1>1, LastFacts DEF LogInv, NextLine
<1>3. mBuffer' \in Seq(Lines) /\ lost' \subseteq Lines
  <2>1. mBuffer \in Seq(Lines) /\ lost \subseteq Lines
    BY DEF LogInv, TypeOK
  <2>2. Append(mBuffer, lines) \in Seq(Lines)
    BY <1>2, <2>1, AppendSet
  <2> QED
    BY <1>1, <1>2, <2>1, <2>2
<1>4. TypeOK'
  BY <1>1, <1>3 DEF LogInv, TypeOK, async, disk
<1>5. WrittenOnce' /\ InOrder'
  BY <1>1, <1>2, LinePushed DEF LogInv, async, disk
<1>6. Numbered'
  BY <1>1, NumberedKept DEF LogInv, disk
<1> QED
  BY <1>4, <1>5, <1>6 DEF LogInv

\* syncLoop, on the timer or in ~Logger.
LEMMA MoveBufferStep ==
  ASSUME LogInv, MoveBuffer, main' \in {main, "stop"},
         UNCHANGED <<mIsStop, logBuffer, disk, today, restarts>>
  PROVE  LogInv'
<1>1. /\ mBuffer' = <<>> /\ torn' \in BOOLEAN
      /\ \/ UNCHANGED <<mBlockQue, worker>>
         \/ mBlockQue' = Append(mBlockQue, mBuffer) /\ worker' \in {worker, "wait"}
      /\ UNCHANGED <<lines, pushing, lost>>
  BY DEF MoveBuffer, Swapped, Notified
<1>2. mBlockQue' \in Seq(Seq(Lines)) /\ <<>> \in Seq(Lines)
  <2>1. mBlockQue \in Seq(Seq(Lines)) /\ mBuffer \in Seq(Lines)
    BY DEF LogInv, TypeOK
  <2>2. Append(mBlockQue, mBuffer) \in Seq(Seq(Lines))
    BY <2>1, AppendSet
  <2> QED
    BY <1>1, <2>1, <2>2
<1>3. TypeOK'
  BY <1>1, <1>2 DEF LogInv, TypeOK, disk
<1>4. WrittenOnce' /\ InOrder'
  BY BufferMoved DEF LogInv, disk
<1>5. Numbered'
  BY <1>1, NumberedKept DEF LogInv, disk
<1> QED
  BY <1>3, <1>4, <1>5 DEF LogInv

\* The end of main() and what the writing thread does between two blocks.
LEMMA ControlStep ==
  ASSUME LogInv, SetStop \/ Flush \/ Join \/ Check \/ SpuriousWakeup
  PROVE  LogInv'
<1>1. /\ UNCHANGED <<logger, mBlockQue, logBuffer, disk, today, restarts>>
      /\ mIsStop' \in BOOLEAN
      /\ main' \in {main, "flush", "join", "ended", "crashed"}
      /\ worker' \in {worker, "done", "wait"}
  BY DEF LogInv, TypeOK, SetStop, Flush, Join, Check, SpuriousWakeup, async
<1>2. TypeOK'
  BY <1>1 DEF LogInv, TypeOK, logger, disk
<1>3. WrittenOnce' /\ InOrder'
  BY <1>1, LinesKept DEF LogInv, logger, disk
<1>4. Numbered'
  BY <1>1, NumberedKept DEF LogInv, disk
<1> QED
  BY <1>2, <1>3, <1>4 DEF LogInv

\* The writing thread waits for a block and takes it.
LEMMA WaitStep ==
  ASSUME LogInv, Wait
  PROVE  LogInv'
<1>1. /\ UNCHANGED <<logger, mIsStop, disk, today, restarts>>
      /\ worker' \in {worker, "date", "blocked", "check"} /\ main' \in {main, "crashed"}
      /\ \/ mBlockQue # <<>> /\ logBuffer' = Head(mBlockQue) /\ mBlockQue' = Tail(mBlockQue)
         \/ UNCHANGED <<mBlockQue, logBuffer>>
  BY DEF Wait, Popped
<1>2. mBlockQue' \in Seq(Seq(Lines)) /\ logBuffer' \in Seq(Lines)
  <2>1. mBlockQue \in Seq(Seq(Lines)) /\ logBuffer \in Seq(Lines)
    BY DEF LogInv, TypeOK
  <2>2. mBlockQue # <<>> =>
          Head(mBlockQue) \in Seq(Lines) /\ Tail(mBlockQue) \in Seq(Seq(Lines))
    BY <2>1, HeadTailProperties
  <2> QED
    BY <1>1, <2>1, <2>2
<1>3. TypeOK'
  BY <1>1, <1>2 DEF LogInv, TypeOK, logger, disk
<1>4. WrittenOnce' /\ InOrder'
  BY <1>1, LinesKept, BlockTaken DEF LogInv, logger, disk
<1>5. Numbered'
  BY <1>1, NumberedKept DEF LogInv, disk
<1> QED
  BY <1>3, <1>4, <1>5 DEF LogInv

\* The writing thread tests the date.
LEMMA TestDateStep ==
  ASSUME LogInv, TestDate
  PROVE  LogInv'
<1>1. /\ UNCHANGED <<logger, main, async, logBuffer, files, today, restarts>>
      /\ \/ mDate = today /\ worker' = "size" /\ UNCHANGED <<mDate, mNo, mFile>>
         \/ /\ mDate # today /\ worker' = "openDay" /\ mDate' = today /\ mNo' = 0
            /\ mFile' \in {"none", "closed"}
  BY DEF TestDate, disk
<1>2. today \in 1 .. MaxDate /\ mDate \in 0 .. MaxDate /\ MaxLines \in Nat /\ MaxDate \in Nat
  BY ConstantsAssumption DEF LogInv, TypeOK
<1>3. TypeOK'
  BY <1>1, <1>2 DEF LogInv, TypeOK, logger, async
<1>4. WrittenOnce' /\ InOrder'
  BY <1>1, LinesKept DEF LogInv, logger, async
<1>5. Numbered'
  <2>1. CASE mDate = today /\ worker' = "size" /\ UNCHANGED <<mDate, mNo, mFile>>
    BY <1>1, <1>2, <2>1 DEF LogInv, Numbered
  <2>2. CASE mDate # today /\ worker' = "openDay" /\ mDate' = today /\ mNo' = 0
    <3>1. mDate < today
      BY <1>2, <2>2 DEF LogInv, Numbered
    <3>2. ASSUME restarts = 0
          PROVE  /\ \A f \in FileNames : f[1] > today => files[f] = <<>>
                 /\ \A n \in 0 .. MaxLines : files[<<today, n>>] = <<>>
      <4>1. \A f \in FileNames : f[1] > mDate => files[f] = <<>>
        BY <3>2 DEF LogInv, Numbered
      <4>2. \A n \in 0 .. MaxLines : <<today, n>> \in FileNames /\ <<today, n>>[1] > mDate
        BY <1>2, <3>1 DEF FileNames
      <4>3. \A f \in FileNames : f[1] > today => f[1] > mDate
        BY <1>2, <3>1 DEF FileNames
      <4> QED
        BY <4>1, <4>2, <4>3
    <3> QED
      BY <1>1, <1>2, <2>2, <3>2 DEF Numbered
  <2> QED
    BY <1>1, <2>1, <2>2
<1> QED
  BY <1>3, <1>4, <1>5 DEF LogInv

\* The writing thread tests the size.
LEMMA TestSizeStep ==
  ASSUME LogInv, TestSize
  PROVE  LogInv'
<1>1. /\ UNCHANGED <<logger, main, async, logBuffer, mDate, files, today, restarts>>
      /\ worker = "size"
      /\ \/ /\ ~(Len(files[<<mDate, mNo>>]) >= mFileMaxSize)
            /\ worker' = "write" /\ UNCHANGED <<mNo, mFile>>
         \/ /\ Len(files[<<mDate, mNo>>]) >= mFileMaxSize
            /\ worker' = "openNext" /\ mFile' = "closed" /\ mNo' = mNo + 1
  BY DEF TestSize, IsFull, disk
<1>2. mDate \in 1 .. MaxDate /\ mNo \in 0 .. MaxLines /\ MaxLines \in Nat /\ MaxDate \in Nat
  BY <1>1, ConstantsAssumption DEF LogInv, TypeOK, Numbered
<1>3. files[<<mDate, mNo>>] \in Seq(Lines)
  BY <1>2 DEF LogInv, TypeOK, FileNames
<1>4. WrittenOnce' /\ InOrder'
  BY <1>1, LinesKept DEF LogInv, logger, async
<1>5. CASE /\ ~(Len(files[<<mDate, mNo>>]) >= mFileMaxSize)
           /\ worker' = "write" /\ UNCHANGED <<mNo, mFile>>
  <2>1. Len(files[<<mDate, mNo>>]) < mFileMaxSize
    BY <1>3, <1>5, ConstantsAssumption
  <2>2. TypeOK'
    BY <1>1, <1>5 DEF LogInv, TypeOK, logger, async
  <2>3. Numbered'
    BY <1>1, <1>5, <2>1, <1>2 DEF LogInv, Numbered
  <2> QED
    BY <1>4, <2>2, <2>3 DEF LogInv
<1>6. CASE /\ Len(files[<<mDate, mNo>>]) >= mFileMaxSize
           /\ worker' = "openNext" /\ mFile' = "closed" /\ mNo' = mNo + 1
  <2>1. files[<<mDate, mNo>>] # <<>>
    BY <1>6, ConstantsAssumption
  <2>2. mNo + 1 <= MaxLines
    BY <1>2, <2>1, NumberBound DEF LogInv
  <2>3. TypeOK'
    BY <1>1, <1>2, <1>6, <2>2 DEF LogInv, TypeOK, logger, async
  <2>4. \A n \in 0 .. MaxLines : n < mNo + 1 => files[<<mDate, n>>] # <<>>
    BY <1>2, <2>1 DEF LogInv, Numbered
  <2>5. restarts = 0 => \A n \in 0 .. MaxLines : n > mNo => files[<<mDate, n>>] = <<>>
    BY <1>2 DEF LogInv, Numbered
  <2>6. Numbered'
    BY <1>1, <1>2, <1>6, <2>2, <2>4, <2>5 DEF LogInv, Numbered
  <2> QED
    BY <1>4, <2>3, <2>6 DEF LogInv
<1> QED
  BY <1>1, <1>5, <1>6

\* fopen.
LEMMA OpenStep ==
  ASSUME LogInv, Open
  PROVE  LogInv'
<1>1. /\ UNCHANGED <<logger, async, logBuffer, mDate, mNo, files, today, restarts>>
      /\ mFile' \in {mFile, "open"} /\ main' \in {main, "crashed"}
      /\ \/ worker' = worker
         \/ worker = "openDay" /\ worker' = "size"
         \/ worker = "openNext" /\ worker' = "write"
  BY DEF Open, Opened
<1>2. TypeOK'
  BY <1>1 DEF LogInv, TypeOK, logger, async
<1>3. WrittenOnce' /\ InOrder'
  BY <1>1, LinesKept DEF LogInv, logger, async
<1>4. Numbered'
  <2>1. CASE worker' = worker
    BY <1>1, <2>1, NumberedKept DEF LogInv
  <2>2. CASE worker = "openDay" /\ worker' = "size"
    BY <1>1, <2>2 DEF LogInv, Numbered
  <2>3. CASE worker = "openNext" /\ worker' = "write"
    <3>1. restarts = 0 => Len(files[<<mDate, mNo>>]) < mFileMaxSize
      BY <2>3, ConstantsAssumption DEF LogInv, Numbered
    <3> QED
      BY <1>1, <2>3, <3>1 DEF LogInv, Numbered
  <2> QED
    BY <1>1, <2>1, <2>2, <2>3
<1> QED
  BY <1>2, <1>3, <1>4 DEF LogInv

\* fwrite.
LEMMA WriteStep ==
  ASSUME LogInv, Write
  PROVE  LogInv'
<1> DEFINE file == <<mDate, mNo>>
<1>1. /\ worker = "write" /\ worker' = "check"
      /\ files' = [files EXCEPT ![file] = @ \o logBuffer] /\ logBuffer' = <<>>
      /\ UNCHANGED <<logger, main, async, mDate, mNo, mFile, today, restarts>>
  BY DEF Write
<1>2. /\ mDate \in 1 .. MaxDate /\ mNo \in 0 .. MaxLines /\ MaxLines \in Nat /\ MaxDate \in Nat
      /\ file \in FileNames
  BY <1>1, ConstantsAssumption DEF LogInv, TypeOK, Numbered, FileNames
<1>3. WrittenOnce' /\ InOrder' /\ files' \in [FileNames -> Seq(Lines)]
  BY <1>1, <1>2, BlockWritten DEF LogInv, logger, async
<1>4. TypeOK'
  BY <1>1, <1>3 DEF LogInv, TypeOK, logger, async
<1>5. \A n \in 0 .. MaxLines : n # mNo => files'[<<mDate, n>>] = files[<<mDate, n>>]
  BY <1>1, <1>2 DEF LogInv, TypeOK, FileNames
<1>6. \A f \in FileNames : f[1] > mDate => files'[f] = files[f]
  BY <1>1, <1>2 DEF LogInv, TypeOK, FileNames
<1>7. Numbered'
  BY <1>1, <1>2, <1>5, <1>6 DEF LogInv, TypeOK, Numbered
<1> QED
  BY <1>3, <1>4, <1>7 DEF LogInv

\* Another day.
LEMMA MidnightStep ==
  ASSUME LogInv, Midnight
  PROVE  LogInv'
<1>1. /\ today < MaxDate /\ today' = today + 1
      /\ UNCHANGED <<logger, main, async, worker, logBuffer, disk, restarts>>
  BY DEF Midnight
<1>2. today \in 1 .. MaxDate /\ mDate \in 0 .. MaxDate /\ MaxDate \in Nat
  BY ConstantsAssumption DEF LogInv, TypeOK
<1>3. TypeOK'
  BY <1>1, <1>2 DEF LogInv, TypeOK, logger, async, disk
<1>4. WrittenOnce' /\ InOrder'
  BY <1>1, LinesKept DEF LogInv, logger, async, disk
<1>5. Numbered'
  BY <1>1, <1>2 DEF LogInv, Numbered, disk
<1> QED
  BY <1>3, <1>4, <1>5 DEF LogInv

\* A new process.
LEMMA RestartStep ==
  ASSUME LogInv, Restart
  PROVE  LogInv'
<1>1. /\ restarts < MaxRestarts /\ restarts' = restarts + 1
      /\ lost' = (1 .. lines) \ Written
      /\ mBuffer' = <<>> /\ pushing' = {} /\ torn' = FALSE
      /\ main' = "running"
      /\ mBlockQue' = <<>> /\ mIsStop' = FALSE
      /\ worker' = "check" /\ logBuffer' = <<>>
      /\ mDate' = 0 /\ mNo' = 0 /\ mFile' = "none"
      /\ UNCHANGED <<lines, today, files>>
  BY DEF Restart
<1>2. /\ restarts \in Nat /\ MaxRestarts \in Nat /\ MaxLines \in Nat /\ MaxDate \in Nat
      /\ today \in 1 .. MaxDate /\ lines \in 0 .. MaxLines
  BY ConstantsAssumption DEF LogInv, TypeOK
<1>3. TypeOK'
  <2>1. lost' \subseteq Lines
    BY <1>1, <1>2 DEF Lines
  <2>2. <<>> \in Seq(Lines) /\ <<>> \in Seq(Seq(Lines))
    OBVIOUS
  <2> QED
    <3>1. restarts' \in 0 .. MaxRestarts /\ mDate' \in 0 .. MaxDate /\ mNo' \in 0 .. MaxLines
      BY <1>1, <1>2
    <3>2. /\ lines' \in 0 .. MaxLines /\ today' \in 1 .. MaxDate
          /\ files' \in [FileNames -> Seq(Lines)]
      BY <1>1 DEF LogInv, TypeOK
    <3> QED
      BY <1>1, <2>1, <2>2, <3>1, <3>2 DEF TypeOK
<1>4. WrittenOnce'
  BY <1>1 DEF LogInv, WrittenOnce
<1>5. InOrder'
  <2>1. \A s : Before(<<>>, s) /\ Before(s, <<>>)
    BY BeforeEmpty
  <2>2. \A f \in FileNames : Before(files[f], <<lines + 1>>)
    <3>1. NextLine \in Nat /\ NextLine <= lines + 1
      BY <1>2 DEF NextLine
    <3>2. \A f \in FileNames : \A x \in ToSet(files[f]) : x < NextLine /\ x \in Nat
      BY LastFacts, BlockTypes DEF LogInv, ToSet
    <3>3. \A f \in FileNames : \A x \in ToSet(files[f]) : x < lines + 1
      BY <1>2, <3>1, <3>2
    <3> QED
      BY <3>3, BeforeOne
  <2>3. Rising(<<>>)
    BY DEF Rising
  <2> QED
    BY <1>1, <2>1, <2>2, <2>3 DEF InOrder
<1>6. Numbered'
  BY <1>1, <1>2 DEF Numbered
<1> QED
  BY <1>3, <1>4, <1>5, <1>6 DEF LogInv

\* Every step.
LEMMA StepInv ==
  ASSUME LogInv, [Next]_vars
  PROVE  LogInv'
<1>1. CASE SyncLoop
  BY <1>1, MoveBufferStep DEF SyncLoop
<1>2. CASE Stop
  BY <1>2, MoveBufferStep DEF Stop
<1>3. CASE UNCHANGED vars
  <2>1. TypeOK'
    BY <1>3 DEF LogInv, TypeOK, vars, logger, async, disk
  <2>2. WrittenOnce' /\ InOrder'
    BY <1>3, LinesKept DEF LogInv, vars, logger, async, disk
  <2>3. Numbered'
    BY <1>3, NumberedKept DEF LogInv, vars, disk
  <2> QED
    BY <2>1, <2>2, <2>3 DEF LogInv
<1>4. CASE WorkerStep
  BY <1>4, ControlStep, WaitStep, TestDateStep, TestSizeStep, OpenStep, WriteStep DEF WorkerStep
<1> QED
  BY <1>1, <1>2, <1>3, <1>4, PushLogStep, PushBeginStep, PushEndStep, ControlStep,
     MidnightStep, RestartStep DEF Next

\* The first process, before it has logged anything.
LEMMA InitInv ==
  ASSUME Init
  PROVE  LogInv
<1>1. \A s : Before(<<>>, s) /\ Before(s, <<>>)
  BY BeforeEmpty
<1>2. Rising(<<>>)
  BY DEF Rising
<1>3. /\ MaxLines \in Nat /\ MaxDate \in Nat /\ MaxRestarts \in Nat /\ mFileMaxSize > 0
      /\ 1 \in 1 .. MaxDate
  BY ConstantsAssumption
<1>4. \A f \in FileNames : files[f] = <<>>
  BY DEF Init
<1>5. TypeOK
  <2>1. <<>> \in Seq(Lines) /\ <<>> \in Seq(Seq(Lines))
    OBVIOUS
  <2>2. files \in [FileNames -> Seq(Lines)]
    BY <2>1 DEF Init
  <2> QED
    <3>1. /\ lines \in 0 .. MaxLines /\ mDate \in 0 .. MaxDate /\ mNo \in 0 .. MaxLines
          /\ today \in 1 .. MaxDate /\ restarts \in 0 .. MaxRestarts
      BY <1>3 DEF Init
    <3>2. /\ mBuffer \in Seq(Lines) /\ logBuffer \in Seq(Lines)
          /\ mBlockQue \in Seq(Seq(Lines))
          /\ pushing \in SUBSET Others /\ lost \subseteq Lines
      BY <2>1 DEF Init
    <3> QED
      BY <2>2, <3>1, <3>2 DEF Init, TypeOK
<1>6. WrittenOnce
  <2>1. ToSet(<<>>) = {}
    BY DEF ToSet
  <2> QED
    BY <1>2, <1>4, <2>1 DEF WrittenOnce
<1>7. InOrder
  BY <1>1, <1>2, <1>4 DEF Init, InOrder
<1>8. Numbered
  BY <1>3, <1>4 DEF Init, Numbered
<1> QED
  BY <1>5, <1>6, <1>7, <1>8 DEF LogInv

-----------------------------------------------------------------------------
(***************************************************************************)
(* No line is lost on its way: Pipeline.                                   *)
(***************************************************************************)
\* What is in a queue to which a block is added, and in one whose front is
\* taken.
LEMMA QueueSets ==
  ASSUME NEW S, NEW que \in Seq(Seq(S)), NEW b \in Seq(S)
  PROVE  /\ Held(Append(que, b)) = Held(que) \cup ToSet(b)
         /\ que # <<>> => Held(que) = ToSet(Head(que)) \cup Held(Tail(que))
<1>1. Held(Append(que, b)) = Held(que) \cup ToSet(b)
  <2>1. /\ DOMAIN Append(que, b) = DOMAIN que \cup {Len(que) + 1}
        /\ Append(que, b)[Len(que) + 1] = b
        /\ \A i \in DOMAIN que : Append(que, b)[i] = que[i]
    OBVIOUS
  <2>2. \A x : (\E i \in DOMAIN Append(que, b) : x \in ToSet(Append(que, b)[i]))
                 <=> (\E i \in DOMAIN que : x \in ToSet(que[i])) \/ x \in ToSet(b)
    BY <2>1
  <2> QED
    BY <2>2 DEF Held
<1>2. ASSUME que # <<>>
      PROVE  Held(que) = ToSet(Head(que)) \cup Held(Tail(que))
  <2>1. /\ Len(que) \in Nat /\ Len(que) > 0 /\ DOMAIN que = 1 .. Len(que)
        /\ DOMAIN Tail(que) = 1 .. Len(que) - 1
        /\ Head(que) = que[1]
    BY <1>2
  <2>2. \A i \in 1 .. Len(que) - 1 : Tail(que)[i] = que[i + 1]
    BY <1>2
  <2>3. \A x : x \in Held(que) => x \in ToSet(Head(que)) \cup Held(Tail(que))
    <3> SUFFICES ASSUME NEW i \in DOMAIN que, NEW x \in ToSet(que[i])
                 PROVE  x \in ToSet(Head(que)) \cup Held(Tail(que))
      BY DEF Held
    <3>1. CASE i = 1
      BY <2>1, <3>1
    <3>2. CASE i # 1
      <4>1. i - 1 \in DOMAIN Tail(que) /\ Tail(que)[i - 1] = que[i]
        BY <2>1, <2>2, <3>2
      <4> QED
        BY <4>1 DEF Held
    <3> QED
      BY <3>1, <3>2
  <2>4. \A x : x \in Held(Tail(que)) => x \in Held(que)
    <3>1. \A i \in DOMAIN Tail(que) : i + 1 \in DOMAIN que /\ Tail(que)[i] = que[i + 1]
      BY <2>1, <2>2
    <3> QED
      BY <3>1 DEF Held
  <2>5. \A x : x \in ToSet(Head(que)) => x \in Held(que)
    <3>1. 1 \in DOMAIN que
      BY <2>1
    <3> QED
      BY <2>1, <3>1 DEF Held
  <2> QED
    BY <2>3, <2>4, <2>5
<1> QED
  BY <1>1, <1>2

\* There is nothing in nothing.
LEMMA EmptySets == ToSet(<<>>) = {} /\ Held(<<>>) = {}
BY DEF ToSet, Held

\* A step that moves no line keeps Pipeline, if it does not end the work on a
\* block.
LEMMA PipelineKept ==
  ASSUME Pipeline,
         UNCHANGED <<lines, pushing, mBuffer, lost, mBlockQue, logBuffer, files, restarts>>,
         \/ worker \in {"check", "wait", "blocked", "done"}
         \/ worker' \notin {"check", "wait", "blocked", "done"}
         \/ worker' = worker
  PROVE  Pipeline'
<1>1. Written' = Written /\ OnTheWay' = OnTheWay /\ Logged' = Logged
  BY DEF Written, IsWritten, OnTheWay, Logged
<1> QED
  BY <1>1 DEF Pipeline

\* The pushing of a line.
LEMMA PipelinePush ==
  ASSUME LogInv, Pipeline, PushLog \/ \E t \in Others : PushBegin(t) \/ PushEnd(t)
  PROVE  Pipeline'
<1>1. lines \in Nat /\ mBuffer \in Seq(Lines) /\ Lines \subseteq Nat
  BY ConstantsAssumption DEF LogInv, TypeOK, Lines
<1>2. UNCHANGED <<worker, logBuffer, mBlockQue, files, restarts>>
  BY DEF PushLog, PushBegin, PushEnd, async, disk
<1>3. Written' = Written
  BY <1>2 DEF Written, IsWritten
<1>4. Written \cup OnTheWay \cup lost = Logged
  BY DEF Pipeline
<1>5. CASE PushLog
  <2>1. /\ pushing = {} /\ pushing' = {} /\ lines' = lines + 1 /\ lines + 1 \in Lines
        /\ mBuffer' = Append(mBuffer, lines + 1) /\ lost' = lost
    BY <1>1, <1>5, ConstantsAssumption DEF PushLog, Lines
  <2>2. ToSet(mBuffer') = ToSet(mBuffer) \cup {lines + 1}
    BY <1>1, <2>1, AppendSet
  <2>3. OnTheWay' = OnTheWay \cup {lines + 1}
    BY <1>2, <2>2 DEF OnTheWay
  <2>4. Logged' = Logged \cup {lines + 1} /\ lines + 1 \notin Logged
    BY <1>1, <2>1 DEF Logged
  <2>5. Logged' = Written' \cup OnTheWay' \cup lost'
    BY <1>3, <1>4, <2>1, <2>3, <2>4
  <2>6. lost' \cap (Written' \cup OnTheWay') = {}
    BY <1>3, <1>4, <2>1, <2>3, <2>4 DEF Pipeline
  <2> QED
    BY <1>2, <2>5, <2>6 DEF Pipeline
<1>6. ASSUME NEW t \in Others, PushBegin(t)
      PROVE  Pipeline'
  <2>1. /\ pushing = {} /\ pushing' # {} /\ lines' = lines + 1
        /\ UNCHANGED <<mBuffer, lost>>
    BY <1>6 DEF PushBegin
  <2>2. Logged' = Logged
    BY <1>1, <2>1 DEF Logged
  <2>3. OnTheWay' = OnTheWay
    BY <1>2, <2>1 DEF OnTheWay
  <2> QED
    BY <1>2, <1>3, <2>1, <2>2, <2>3 DEF Pipeline
<1>7. ASSUME NEW t \in Others, PushEnd(t)
      PROVE  Pipeline'
  <2>1. /\ pushing # {} /\ pushing' = {} /\ lines' = lines /\ lines > 0
        /\ \/ mBuffer' = Append(mBuffer, lines) /\ lost' = lost
           \/ mBuffer' = mBuffer /\ lost' = lost \cup {lines}
    BY <1>7 DEF PushEnd, LogInv, InOrder
  <2>2. lines \in Lines
    BY <1>1, <2>1, ConstantsAssumption DEF LogInv, TypeOK, Lines
  <2>3. Logged' = Logged \cup {lines} /\ lines \notin Logged
    BY <1>1, <2>1 DEF Logged
  <2>4. \/ OnTheWay' = OnTheWay \cup {lines} /\ lost' = lost
        \/ OnTheWay' = OnTheWay /\ lost' = lost \cup {lines}
    <3>1. CASE mBuffer' = Append(mBuffer, lines) /\ lost' = lost
      <4>1. ToSet(mBuffer') = ToSet(mBuffer) \cup {lines}
        BY <1>1, <2>2, <3>1, AppendSet
      <4> QED
        BY <1>2, <3>1, <4>1 DEF OnTheWay
    <3>2. CASE mBuffer' = mBuffer /\ lost' = lost \cup {lines}
      BY <1>2, <3>2 DEF OnTheWay
    <3> QED
      BY <2>1, <3>1, <3>2
  <2>5. Logged' = Written' \cup OnTheWay' \cup lost'
    BY <1>3, <1>4, <2>3, <2>4
  <2>6. lost' \cap (Written' \cup OnTheWay') = {}
    BY <1>3, <1>4, <2>3, <2>4 DEF Pipeline
  <2> QED
    BY <1>2, <2>5, <2>6 DEF Pipeline
<1> QED
  BY <1>5, <1>6, <1>7

\* The buffer becomes a block, or the front block is taken.
LEMMA PipelineMove ==
  ASSUME LogInv, Pipeline, SyncLoop \/ Stop \/ Wait
  PROVE  Pipeline'
<1>1. mBlockQue \in Seq(Seq(Lines)) /\ mBuffer \in Seq(Lines)
  BY DEF LogInv, TypeOK
<1>2. UNCHANGED <<lines, pushing, lost, files, restarts>>
  BY DEF SyncLoop, Stop, MoveBuffer, Wait, logger, disk
<1>3. Written' = Written /\ Logged' = Logged
  BY <1>2 DEF Written, IsWritten, Logged
<1>4. CASE SyncLoop \/ Stop
  <2>1. /\ mBuffer' = <<>> /\ logBuffer' = logBuffer
        /\ \/ worker' = worker
           \/ worker = "blocked" /\ worker' = "wait"
        /\ \/ mBuffer = <<>> /\ mBlockQue' = mBlockQue
           \/ mBlockQue' = Append(mBlockQue, mBuffer)
    BY <1>4 DEF SyncLoop, Stop, MoveBuffer, Swapped, Notified
  <2>2. Held(mBlockQue') \cup ToSet(mBuffer') = Held(mBlockQue) \cup ToSet(mBuffer)
    <3>1. CASE mBuffer = <<>> /\ mBlockQue' = mBlockQue
      BY <2>1, <3>1
    <3>2. CASE mBlockQue' = Append(mBlockQue, mBuffer)
      <4>1. Held(mBlockQue') = Held(mBlockQue) \cup ToSet(mBuffer) /\ ToSet(mBuffer') = {}
        BY <1>1, <2>1, <3>2, QueueSets, EmptySets
      <4> QED
        BY <4>1
    <3> QED
      BY <2>1, <3>1, <3>2
  <2>3. OnTheWay' = OnTheWay
    BY <2>1, <2>2 DEF OnTheWay
  <2> QED
    BY <1>2, <1>3, <2>1, <2>3 DEF Pipeline
<1>5. CASE Wait
  <2>1. /\ worker = "wait" /\ logBuffer = <<>> /\ mBuffer' = mBuffer
        /\ \/ /\ mBlockQue # <<>> /\ worker' = "date"
              /\ logBuffer' = Head(mBlockQue) /\ mBlockQue' = Tail(mBlockQue)
           \/ UNCHANGED <<mBlockQue, logBuffer>>
    BY <1>5 DEF Wait, Popped, Pipeline, logger
  <2>2. ToSet(logBuffer') \cup Held(mBlockQue') = ToSet(logBuffer) \cup Held(mBlockQue)
    BY <1>1, <2>1, QueueSets, EmptySets
  <2>3. OnTheWay' = OnTheWay
    BY <2>1, <2>2 DEF OnTheWay
  <2> QED
    BY <1>2, <1>3, <2>1, <2>3 DEF Pipeline
<1> QED
  BY <1>4, <1>5

\* A block gets into the file, behind everything that is in the files of this
\* process, and there is nothing in those after it.
LEMMA PipelineWrite ==
  ASSUME LogInv, Pipeline, Write
  PROVE  Pipeline'
<1> DEFINE file == <<mDate, mNo>>
<1>1. /\ worker = "write" /\ worker' = "check"
      /\ files' = [files EXCEPT ![file] = @ \o logBuffer] /\ logBuffer' = <<>>
      /\ UNCHANGED <<lines, pushing, mBuffer, lost, mBlockQue, restarts>>
  BY DEF Write, logger, async
<1>2. /\ mDate \in 1 .. MaxDate /\ mNo \in 0 .. MaxLines /\ MaxLines \in Nat /\ MaxDate \in Nat
      /\ file \in FileNames
  BY <1>1, ConstantsAssumption DEF LogInv, TypeOK, Numbered, FileNames
<1>3. files[file] \in Seq(Lines) /\ logBuffer \in Seq(Lines)
  BY <1>2 DEF LogInv, TypeOK
<1>4. ToSet(files[file] \o logBuffer) = ToSet(files[file]) \cup ToSet(logBuffer)
  BY <1>3, ConcatSet
<1>5. \A g \in FileNames :
        ToSet(files'[g]) = ToSet(files[g]) \cup IF g = file THEN ToSet(logBuffer) ELSE {}
  <2>1. \A g \in FileNames : files'[g] = IF g = file THEN files[file] \o logBuffer ELSE files[g]
    BY <1>1, <1>2 DEF LogInv, TypeOK
  <2> QED
    BY <1>4, <2>1
<1>6. Written' = Written \cup ToSet(logBuffer)
  <2>1. ToSet(logBuffer) \subseteq Lines
    BY <1>3 DEF ToSet
  <2>2. \A line \in Lines : IsWritten(line)' <=> IsWritten(line) \/ line \in ToSet(logBuffer)
    BY <1>2, <1>5 DEF IsWritten
  <2> QED
    BY <2>1, <2>2 DEF Written
<1>7. OnTheWay = OnTheWay' \cup ToSet(logBuffer)
  BY <1>1, EmptySets DEF OnTheWay
<1>8. Logged' = Logged
  BY <1>1 DEF Logged
<1>9. ASSUME restarts = 0, NEW f \in FileNames, NEW g \in FileNames, NamedBefore(f, g)
      PROVE  Before(files'[f], files'[g])
  <2>1. Before(files[f], files[g]) /\ Before(files[f], logBuffer)
    BY <1>9 DEF LogInv, InOrder, Pipeline
  <2>2. CASE f = file
    <3>1. files[g] = <<>>
      <4>1. g[1] \in 1 .. MaxDate /\ g[2] \in 0 .. MaxLines /\ g = <<g[1], g[2]>>
        BY DEF FileNames
      <4>2. g[1] > mDate \/ (g[1] = mDate /\ g[2] > mNo)
        BY <1>2, <1>9, <2>2, <4>1 DEF NamedBefore
      <4> QED
        BY <1>2, <1>9, <4>1, <4>2 DEF LogInv, Numbered
    <3>2. g # file
      BY <1>2, <1>9, <2>2 DEF NamedBefore
    <3>3. ToSet(files'[g]) = {}
      BY <1>5, <3>1, <3>2, EmptySets
    <3> QED
      BY <3>3 DEF Before
  <2>3. CASE f # file
    BY <1>5, <2>1, <2>3 DEF Before
  <2> QED
    BY <2>2, <2>3
<1> QED
  BY <1>1, <1>6, <1>7, <1>8, <1>9 DEF Pipeline

\* A new process: what was in the old one is lost.
LEMMA PipelineRestart ==
  ASSUME LogInv, Pipeline, Restart
  PROVE  Pipeline'
<1>1. /\ restarts' = restarts + 1 /\ lost' = (1 .. lines) \ Written
      /\ mBuffer' = <<>> /\ pushing' = {} /\ mBlockQue' = <<>> /\ logBuffer' = <<>>
      /\ UNCHANGED <<lines, files>>
  BY DEF Restart
<1>2. Written' = Written
  BY <1>1 DEF Written, IsWritten
<1>3. OnTheWay' = {}
  BY <1>1, EmptySets DEF OnTheWay
<1>4. Logged' = 1 .. lines /\ Written \subseteq 1 .. lines
  BY <1>1 DEF Logged, Pipeline
<1>5. restarts' # 0
  BY <1>1 DEF LogInv, TypeOK
<1> QED
  BY <1>1, <1>2, <1>3, <1>4, <1>5 DEF Pipeline

\* Every step.
LEMMA PipelineStep ==
  ASSUME LogInv, Pipeline, [Next]_vars
  PROVE  Pipeline'
<1>1. CASE UNCHANGED vars
  BY <1>1, PipelineKept DEF vars, logger, async, disk
<1>2. CASE SetStop \/ Flush \/ Join \/ Midnight
  BY <1>2, PipelineKept DEF SetStop, Flush, Join, Midnight, logger, async, disk
<1>3. CASE Check \/ SpuriousWakeup
  BY <1>3, PipelineKept DEF Check, SpuriousWakeup, logger, async, disk
<1>4. CASE TestDate \/ TestSize \/ Open
  BY <1>4, PipelineKept DEF TestDate, TestSize, Open, Opened, logger, async, disk
<1> QED
  BY <1>1, <1>2, <1>3, <1>4, PipelinePush, PipelineMove, PipelineWrite, PipelineRestart
     DEF Next, WorkerStep

\* Before anything is logged.
LEMMA PipelineInit ==
  ASSUME Init
  PROVE  Pipeline
<1>1. \A f \in FileNames : files[f] = <<>>
  BY DEF Init
<1>2. Written = {}
  BY <1>1, EmptySets DEF Written, IsWritten
<1>3. OnTheWay = {} /\ Logged = {} /\ lost = {} /\ logBuffer = <<>>
  BY EmptySets DEF Init, OnTheWay, Logged
<1> QED
  BY <1>1, <1>2, <1>3, BeforeEmpty DEF Pipeline

-----------------------------------------------------------------------------
(***************************************************************************)
(* Theorems.                                                               *)
(***************************************************************************)
\* Whatever is preempted, stopped, killed or crashes, and however often the
\* process is started again: no line is in two places of the files, and those
\* of a file are in the order in which they were logged.
THEOREM Invariance == Spec => []LogInv
<1>1. LogInv /\ [Next]_vars => LogInv'
  BY StepInv
<1> QED
  BY <1>1, InitInv, PTL DEF Spec

\* Every line that was logged is in a file or on its way to one, but for those
\* whose push_back met the unlocked swap (logger.cpp:60) or whose process was
\* started anew; and the files of one process, read in the order of their dates
\* and numbers, have the lines in the order in which they were logged.
THEOREM NothingElseIsLost == Spec => []Pipeline
<1>1. LogInv /\ Pipeline /\ [Next]_vars => Pipeline'
  BY PipelineStep
<1> QED
  BY <1>1, PipelineInit, Invariance, PTL DEF Spec

\* In one run of the process no line is added to a file that has reached its
\* size (async_logger.cpp:77).
THEOREM FullFiles == Spec => FullFileIsDone
<1> DEFINE Kept == restarts' = 0 =>
                      \A f \in FileNames :
                        Len(files[f]) >= mFileMaxSize => files'[f] = files[f]
<1>1. ASSUME LogInv, Next
      PROVE  Kept
  <2>1. CASE Write
    <3> SUFFICES ASSUME restarts' = 0, NEW f \in FileNames, Len(files[f]) >= mFileMaxSize
                 PROVE  files'[f] = files[f]
      OBVIOUS
    <3>1. /\ worker = "write" /\ restarts = 0
          /\ files' = [files EXCEPT ![<<mDate, mNo>>] = @ \o logBuffer]
      BY <2>1 DEF Write
    <3>2. Len(files[<<mDate, mNo>>]) < mFileMaxSize
      BY <1>1, <3>1 DEF LogInv, Numbered
    <3>3. files[f] \in Seq(Lines) /\ Len(files[f]) \in Nat
      BY <1>1 DEF LogInv, TypeOK
    <3>4. f # <<mDate, mNo>>
      BY <3>2, <3>3, ConstantsAssumption
    <3> QED
      BY <1>1, <3>1, <3>4 DEF LogInv, TypeOK
  <2>2. CASE ~Write
    <3>1. UNCHANGED files
      BY <1>1, <2>2 DEF Next, PushLog, PushBegin, PushEnd, SyncLoop, Stop, MoveBuffer, SetStop,
         Flush, Join, WorkerStep, Check, Wait, TestDate, TestSize, Open, Opened,
         SpuriousWakeup, Midnight, Restart, disk
    <3> QED
      BY <3>1
  <2> QED
    BY <2>1, <2>2
<1>2. LogInv /\ [Next]_vars => [Kept]_vars
  BY <1>1
<1> QED
  BY <1>2, Invariance, PTL DEF Spec, FullFileIsDone
=============================================================================
