--------------------------- MODULE TCPBufferOps ---------------------------
(***************************************************************************)
(* The member functions of tcp/buffer, as operators on a record of the     *)
(* three members.  The array is a sequence, so that the cell the code      *)
(* calls i is element i + 1.                                               *)
(***************************************************************************)
EXTENDS Naturals, Sequences

CONSTANTS Byte,  \* values of a char
          Zero   \* what a new vector is filled with

ASSUME ByteAssumption == Zero \in Byte

Size(b)      == Len(b.mBuffer)
ReadAble(b)  == b.mWriteIndex - b.mReadIndex
WriteAble(b) == Size(b) - b.mWriteIndex
Contents(b)  == SubSeq(b.mBuffer, b.mReadIndex + 1, b.mWriteIndex)

New(size) == [mBuffer |-> [i \in 1 .. size |-> Zero], mReadIndex |-> 0, mWriteIndex |-> 0]

\* While a call moves an index: the indexes are in order and in the array, and
\* behind the write index there is nothing old.
Loose(b) ==
  /\ b \in [mBuffer : Seq(Byte), mReadIndex : Nat, mWriteIndex : Nat]
  /\ b.mReadIndex <= b.mWriteIndex
  /\ b.mWriteIndex <= Size(b)
  /\ \A i \in b.mWriteIndex + 1 .. Size(b) : b.mBuffer[i] = Zero

\* Between two calls, less than half of the array is before the read index.
Sound(b) == Loose(b) /\ (b.mReadIndex = 0 \/ b.mReadIndex < Size(b) \div 2)

-----------------------------------------------------------------------------
\* Mutants: the copy starts at the front of the old array; it is made in the
\* old array, with what was there left behind it.
MovedFromFront(b, size) ==
  [mBuffer |-> [i \in 1 .. size |-> IF i <= ReadAble(b) THEN b.mBuffer[i] ELSE Zero],
   mReadIndex |-> 0,
   mWriteIndex |-> ReadAble(b)]

MovedInPlace(b, size) ==
  [mBuffer |-> [i \in 1 .. size |->
                  IF i <= ReadAble(b) THEN b.mBuffer[b.mReadIndex + i]
                  ELSE IF i <= Size(b) THEN b.mBuffer[i] ELSE Zero],
   mReadIndex |-> 0,
   mWriteIndex |-> ReadAble(b)]

\* What can be read is copied to the start of a new array.
Moved(b, size) ==
  [mBuffer |-> [i \in 1 .. size |->
                  IF i <= ReadAble(b) THEN b.mBuffer[b.mReadIndex + i] ELSE Zero],
   mReadIndex |-> 0,
   mWriteIndex |-> ReadAble(b)]

ResizeBuffer(b, newSize) == IF newSize < Size(b) THEN b ELSE Moved(b, newSize)

\* Mutant: the array is never compacted.
AdjustNever(b) == b

adjustBuffer(b) == IF b.mReadIndex < Size(b) \div 2 THEN b ELSE Moved(b, Size(b))

MoveReadIndex(b, size) ==
  IF b.mReadIndex + size > b.mWriteIndex
  THEN b
  ELSE adjustBuffer([b EXCEPT !.mReadIndex = @ + size])

MoveWriteIndex(b, size) ==
  IF b.mWriteIndex + size > Size(b)
  THEN b
  ELSE adjustBuffer([b EXCEPT !.mWriteIndex = @ + size])

\* copy_n or read() at the write index; there is room for the bytes.
Store(b, bytes) ==
  [b EXCEPT !.mBuffer = [i \in 1 .. Size(b) |->
     IF i > b.mWriteIndex /\ i <= b.mWriteIndex + Len(bytes)
     THEN bytes[i - b.mWriteIndex]
     ELSE b.mBuffer[i]]]

\* Mutant: room is made for what is there, not for what comes.
WriteTooLong(b, bytes) ==
  LET newSize == (3 * b.mWriteIndex) \div 2
      room    == IF Len(bytes) > WriteAble(b) THEN ResizeBuffer(b, newSize) ELSE b
  IN  MoveWriteIndex(Store(room, bytes), Len(bytes))

\* newSize is 1.5 times what is needed, rounded down.
WriteToBuffer(b, bytes) ==
  LET newSize == (3 * (b.mWriteIndex + Len(bytes))) \div 2
      room    == IF Len(bytes) > WriteAble(b) THEN ResizeBuffer(b, newSize) ELSE b
  IN  MoveWriteIndex(Store(room, bytes), Len(bytes))

ReadFromBuffer(b, size) ==
  IF ReadAble(b) = 0
  THEN b
  ELSE MoveReadIndex(b, IF size < ReadAble(b) THEN size ELSE ReadAble(b))

\* onRead before each read(): a full buffer is doubled.
MakeRoom(b) == IF WriteAble(b) = 0 THEN ResizeBuffer(b, 2 * Size(b)) ELSE b
=============================================================================
