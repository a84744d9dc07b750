-------------------------- MODULE TCPBufferProofs --------------------------
(***************************************************************************)
(* Proofs about TCPBuffer, for buffers of any capacity, any byte strings   *)
(* and any sizes asked for: its invariant, the bound on its memory, and    *)
(* that it is a queue of bytes.                                            *)
(***************************************************************************)
EXTENDS TCPBuffer, TCPBufferOpsProofs

-----------------------------------------------------------------------------
(***************************************************************************)
(* The inductive invariant: the buffer is sound and has memory, it holds   *)
(* no more than the most it has held, and its memory is bounded by that.   *)
(***************************************************************************)
IInv ==
  /\ Sound(buf)
  /\ made \in Sizes
  /\ peak \in Nat
  /\ Size(buf) # 0
  /\ ReadAble(buf) <= peak
  /\ Bounded

\* What Change leaves of the invariant to show: the new buffer is sound and its
\* array the old one, or larger but less than four times what it holds.
LEMMA ChangeKeeps ==
  ASSUME IInv, NEW b, Sound(b), Change(b),
         Size(b) # 0, Size(b) = Size(buf) \/ Size(b) < 4 * ReadAble(b)
  PROVE  IInv'
<1>1. /\ buf' = b /\ made' = made
      /\ peak' = IF ReadAble(b) > peak THEN ReadAble(b) ELSE peak
  BY DEF Change
<1>2. ReadAble(b) \in Nat /\ Size(b) \in Nat /\ Size(buf) \in Nat /\ peak \in Nat
  BY ContentsFacts DEF IInv, Sound
<1>3. peak' \in Nat /\ peak <= peak' /\ ReadAble(b) <= peak'
  BY <1>1, <1>2
<1>4. made \in Nat /\ made \in Sizes
  BY ConstantsAssumption DEF IInv
<1>5. Size(b) = made \/ Size(b) < 4 * peak'
  <2>1. CASE Size(b) = Size(buf)
    <3>1. Size(buf) = made \/ Size(buf) < 4 * peak
      BY DEF IInv, Bounded
    <3> QED
      BY <1>2, <1>3, <2>1, <3>1
  <2>2. CASE Size(b) < 4 * ReadAble(b)
    BY <1>2, <1>3, <2>2
  <2> QED
    BY <2>1, <2>2
<1>6. Sound(buf)' /\ Size(buf)' = Size(b) /\ ReadAble(buf)' = ReadAble(b)
  BY <1>1 DEF Sound, Loose, Size, ReadAble
<1> QED
  BY <1>1, <1>3, <1>4, <1>5, <1>6 DEF IInv, Bounded

\* One lemma for each action: it keeps the invariant and does its part.
LEMMA WriteStep ==
  ASSUME IInv, NEW bytes \in Chunks, Write(bytes)
  PROVE  IInv' /\ Queue!Put(bytes)
<1> DEFINE m == WriteToBuffer(buf, bytes)
<1>1. Sound(buf) /\ bytes \in Seq(Byte) /\ Size(buf) \in Nat /\ Size(buf) # 0
  BY ConstantsAssumption, ContentsFacts DEF IInv, Sound
<1>2. /\ Sound(m) /\ Contents(m) = Contents(buf) \o bytes
      /\ ReadAble(m) = ReadAble(buf) + Len(bytes)
      /\ Size(m) = Size(buf) \/ Size(m) < 4 * ReadAble(m)
      /\ Size(m) # 0
  <2>1. /\ Sound(m) /\ Contents(m) = Contents(buf) \o bytes
        /\ ReadAble(m) = ReadAble(buf) + Len(bytes)
        /\ Size(m) = Size(buf) \/ Size(m) < 4 * ReadAble(m)
        /\ Size(buf) <= Size(m)
    BY <1>1, WriteFacts
  <2>2. Size(m) \in Nat
    BY <2>1, ContentsFacts DEF Sound
  <2> HIDE DEF m
  <2> QED
    BY <1>1, <2>1, <2>2
<1>3. Change(m)
  BY DEF Write
<1> HIDE DEF m
<1>4. buf' = m
  BY <1>3 DEF Change
<1> QED
  BY <1>2, <1>3, <1>4, ChangeKeeps DEF Queue!Put, Contents

\* onRead makes room and puts what it reads behind what is there.
LEMMA ReceiveStep ==
  ASSUME IInv, NEW bytes \in Chunks, Receive(bytes)
  PROVE  IInv' /\ Queue!Put(bytes)
<1> DEFINE r == MakeRoom(buf)
           m == MoveWriteIndex(Store(r, bytes), Len(bytes))
<1>1. Sound(buf) /\ bytes \in Seq(Byte) /\ Size(buf) # 0 /\ Len(bytes) \in Nat
  BY ConstantsAssumption DEF IInv
<1>2. /\ Sound(r) /\ Contents(r) = Contents(buf) /\ ReadAble(r) = ReadAble(buf)
      /\ Size(r) = Size(buf) \/ Size(r) < 4 * ReadAble(r)
      /\ Size(r) # 0
  BY <1>1, MakeRoomFacts
<1>3. Len(bytes) <= WriteAble(r) /\ Change(m)
  <2>1. WriteAble(r) \in Nat
    BY <1>2, ContentsFacts DEF Sound
  <2>2. Len(bytes) \in 1 .. WriteAble(r) /\ Change(m)
    BY DEF Receive
  <2> HIDE DEF r, m
  <2> QED
    BY <1>1, <2>1, <2>2
<1> HIDE DEF r
<1>4. /\ Sound(m) /\ Contents(m) = Contents(r) \o bytes
      /\ ReadAble(m) = ReadAble(r) + Len(bytes) /\ Size(m) = Size(r)
  BY <1>1, <1>2, <1>3, StoreFacts
<1> HIDE DEF m
<1>5. Size(m) # 0 /\ (Size(m) = Size(buf) \/ Size(m) < 4 * ReadAble(m))
  <2>1. ReadAble(r) \in Nat /\ ReadAble(m) \in Nat /\ Size(r) \in Nat
    BY <1>2, <1>4, ContentsFacts DEF Sound
  <2> QED
    BY <1>1, <1>2, <1>4, <2>1
<1>6. buf' = m
  BY <1>3 DEF Change
<1> QED
  BY <1>2, <1>3, <1>4, <1>5, <1>6, ChangeKeeps DEF Queue!Put, Contents

\* MoveReadIndex keeps the invariant and takes what it is told, or nothing.
LEMMA TakeStep ==
  ASSUME IInv, NEW size \in Nat, Change(MoveReadIndex(buf, size))
  PROVE  /\ IInv'
         /\ Queue!Drop(IF size <= ReadAble(buf) THEN size ELSE 0)
<1> DEFINE m == MoveReadIndex(buf, size)
<1>1. /\ Sound(buf) /\ Size(buf) # 0
      /\ ReadAble(buf) \in Nat /\ Contents(buf) \in Seq(Byte)
  BY ContentsFacts DEF IInv, Sound
<1>2. /\ Sound(m) /\ Size(m) = Size(buf)
      /\ size <= ReadAble(buf) =>
           Contents(m) = SubSeq(Contents(buf), size + 1, Len(Contents(buf)))
      /\ size > ReadAble(buf) => m = buf
  BY <1>1, MoveReadFacts
<1> HIDE DEF m
<1>3. buf' = m /\ Change(m)
  BY DEF Change, m
<1>4. IInv'
  BY <1>1, <1>2, <1>3, ChangeKeeps
<1>5. Contents(buf)' = Contents(m)
  BY <1>3 DEF Contents
<1>6. CASE size <= ReadAble(buf)
  BY <1>2, <1>4, <1>5, <1>6 DEF Queue!Drop
<1>7. CASE ~(size <= ReadAble(buf))
  <2>1. Contents(m) = SubSeq(Contents(buf), 0 + 1, Len(Contents(buf)))
    BY <1>1, <1>2, <1>7, TakeNone
  <2> QED
    BY <1>4, <1>5, <1>7, <2>1 DEF Queue!Drop
<1> QED
  BY <1>6, <1>7

\* onWrite drops what it is told to, or nothing.
LEMMA AdvanceStep ==
  ASSUME IInv, NEW size \in Nat, Advance(size)
  PROVE  /\ IInv'
         /\ Queue!Drop(IF size <= ReadAble(buf) THEN size ELSE 0)
BY TakeStep DEF Advance

\* ReadFromBuffer drops what is there of what it is told to.
LEMMA ReadStep ==
  ASSUME IInv, NEW size \in Nat, Read(size)
  PROVE  /\ IInv'
         /\ Queue!Drop(IF size <= ReadAble(buf) THEN size ELSE ReadAble(buf))
<1>1. ReadAble(buf) \in Nat /\ Contents(buf) \in Seq(Byte) /\ Sound(buf) /\ Size(buf) # 0
      /\ Len(Contents(buf)) = ReadAble(buf)
  BY ContentsFacts DEF IInv, Sound
<1>2. CASE ReadAble(buf) = 0
  <2>1. Change(buf) /\ buf' = buf
    BY <1>2 DEF Read, ReadFromBuffer, Change
  <2>2. IInv'
    BY <1>1, <2>1, ChangeKeeps
  <2>3. Contents(buf)' = SubSeq(Contents(buf), 0 + 1, Len(Contents(buf)))
    BY <1>1, <2>1, TakeNone DEF Contents
  <2>4. (IF size <= ReadAble(buf) THEN size ELSE ReadAble(buf)) = 0
    BY <1>2
  <2> QED
    BY <2>2, <2>3, <2>4 DEF Queue!Drop
<1>3. CASE ReadAble(buf) # 0
  <2> DEFINE k == IF size < ReadAble(buf) THEN size ELSE ReadAble(buf)
  <2>1. Change(MoveReadIndex(buf, k))
    BY <1>3 DEF Read, ReadFromBuffer
  <2>2. /\ k \in Nat /\ k <= ReadAble(buf)
        /\ k = IF size <= ReadAble(buf) THEN size ELSE ReadAble(buf)
    BY <1>1
  <2> HIDE DEF k
  <2>3. IInv' /\ Queue!Drop(IF k <= ReadAble(buf) THEN k ELSE 0)
    BY <2>1, <2>2, TakeStep
  <2> QED
    BY <2>2, <2>3
<1> QED
  BY <1>2, <1>3

\* Every step does one of these.
LEMMA StepFacts ==
  ASSUME IInv, [Next]_vars
  PROVE  IInv' /\ [Queue!Next]_(Contents(buf))
<1>1. CASE UNCHANGED vars
  BY <1>1 DEF vars, IInv, Sound, Loose, Size, ReadAble, Bounded, Contents
<1>2. ASSUME NEW bytes \in Chunks, Write(bytes) \/ Receive(bytes)
      PROVE  IInv' /\ Queue!Next
  BY <1>2, WriteStep, ReceiveStep DEF Queue!Next
<1>3. ASSUME NEW size \in 0 .. MaxLen + 1, Advance(size) \/ Read(size)
      PROVE  IInv' /\ Queue!Next
  <2>1. size \in Nat /\ ReadAble(buf) \in Nat /\ Len(Contents(buf)) = ReadAble(buf)
    BY ConstantsAssumption, ContentsFacts DEF IInv, Sound
  <2>2. PICK n \in 0 .. Len(Contents(buf)) : IInv' /\ Queue!Drop(n)
    <3>1. CASE Advance(size)
      <4> DEFINE n == IF size <= ReadAble(buf) THEN size ELSE 0
      <4>1. n \in 0 .. Len(Contents(buf))
        BY <2>1
      <4> QED
        BY <2>1, <3>1, <4>1, AdvanceStep
    <3>2. CASE Read(size)
      <4> DEFINE n == IF size <= ReadAble(buf) THEN size ELSE ReadAble(buf)
      <4>1. n \in 0 .. Len(Contents(buf))
        BY <2>1
      <4> QED
        BY <2>1, <3>2, <4>1, ReadStep
    <3> QED
      BY <1>3, <3>1, <3>2
  <2> QED
    BY <2>2 DEF Queue!Next
<1> QED
  BY <1>1, <1>2, <1>3 DEF Next

\* A new buffer is empty, sound and of the size it is made with.
LEMMA InitFacts ==
  ASSUME Init
  PROVE  IInv /\ Contents(buf) = <<>>
<1>1. made \in Nat /\ made # 0 /\ made \in Sizes /\ buf = New(made) /\ peak = 0
  BY ConstantsAssumption DEF Init
<1>2. Size(buf) = made /\ ReadAble(buf) = 0 /\ Sound(buf) /\ Contents(buf) = <<>>
  BY <1>1, NewFacts
<1> QED
  BY <1>1, <1>2 DEF IInv, Bounded

-----------------------------------------------------------------------------
\* The indexes of a buffer stay in order and in its array, less than half of
\* the array is behind the read index, and beyond the write index there is
\* never an old byte (buffer.cpp:12-89): the invariant of MCTCPBuffer_all.
THEOREM Invariance == Spec => []BufferInv
<1>1. IInv => BufferInv
  BY DEF IInv, Sound, Loose, BufferInv, TypeOK, IndexesInOrder, NothingStale
<1> QED
  BY <1>1, InitFacts, StepFacts, PTL DEF Spec

\* Whatever is written, received and taken, the array of a buffer is the one it
\* was made with or less than four times the most bytes it has had to hold.
THEOREM MemoryBounded == Spec => []Bounded
<1>1. IInv => Bounded
  BY DEF IInv
<1> QED
  BY <1>1, InitFacts, StepFacts, PTL DEF Spec

\* A buffer is a queue of bytes: every step of it puts bytes at the back, takes
\* bytes from the front, or leaves what it holds as it is.
THEOREM Refinement == Spec => ByteOrder
<1>1. Init => Queue!Init
  BY InitFacts DEF Queue!Init
<1> QED
  BY <1>1, InitFacts, StepFacts, PTL DEF Spec, ByteOrder, Queue!Spec

\* And each call puts or takes exactly the bytes it is told to.
THEOREM Exactness == Spec => CallsAreExact
<1> DEFINE Exact ==
      /\ \A bytes \in Chunks : Write(bytes) \/ Receive(bytes) => Queue!Put(bytes)
      /\ \A size \in 0 .. MaxLen + 1 :
           /\ Advance(size) => Queue!Drop(IF size <= ReadAble(buf) THEN size ELSE 0)
           /\ Read(size) => Queue!Drop(IF size <= ReadAble(buf) THEN size ELSE ReadAble(buf))
<1>1. IInv /\ [Next]_vars => [Exact]_vars
  <2>1. \A size \in 0 .. MaxLen + 1 : size \in Nat
    BY ConstantsAssumption
  <2> QED
    BY <2>1, WriteStep, ReceiveStep, AdvanceStep, ReadStep
<1> QED
  BY <1>1, InitFacts, StepFacts, PTL DEF Spec, CallsAreExact
=============================================================================
