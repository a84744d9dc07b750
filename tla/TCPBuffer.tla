----------------------------- MODULE TCPBuffer -----------------------------
(***************************************************************************)
(* tcp/buffer: a byte array with a read and a write index, as its users    *)
(* TCPConnection and TinyPBCoder drive it.                                 *)
(***************************************************************************)
EXTENDS TCPBufferOps

CONSTANTS Sizes,   \* capacities a buffer may be made with
          Chunks,  \* byte strings written or received at a time
          MaxLen   \* bound: bytes in the buffer

ASSUME ConstantsAssumption ==
  /\ Sizes \subseteq Nat \ {0}
  /\ Chunks \subseteq Seq(Byte)
  /\ MaxLen \in Nat

VARIABLES
  buf,   \* the members mBuffer, mReadIndex and mWriteIndex
  made,  \* history: the capacity it was made with
  peak   \* history: the most bytes that were in it at a time

vars == <<buf, made, peak>>

-----------------------------------------------------------------------------
Init ==
  /\ made \in Sizes
  /\ buf = New(made)
  /\ peak = 0

Change(b) ==
  /\ buf' = b
  /\ peak' = IF ReadAble(b) > peak THEN ReadAble(b) ELSE peak
  /\ UNCHANGED made

\* Bound: no more than MaxLen bytes are kept in the buffer.
Small(bytes) == ReadAble(buf) + Len(bytes) <= MaxLen

\* Encode writes a message.
Write(bytes) ==
  /\ Small(bytes)
  /\ Change(WriteToBuffer(buf, bytes))

\* onRead receives what read() has put into the array, at least one byte and
\* no more than fit.
Receive(bytes) ==
  /\ Small(bytes)
  /\ Len(bytes) \in 1 .. WriteAble(MakeRoom(buf))
  /\ Change(MoveWriteIndex(Store(MakeRoom(buf), bytes), Len(bytes)))

\* onWrite has written, or Decode has parsed, the first size bytes.
Advance(size) == Change(MoveReadIndex(buf, size))

Read(size) == Change(ReadFromBuffer(buf, size))

Next ==
  \/ \E bytes \in Chunks : Write(bytes) \/ Receive(bytes)
  \/ \E size \in 0 .. MaxLen + 1 : Advance(size) \/ Read(size)

Spec == Init /\ [][Next]_vars

-----------------------------------------------------------------------------
TypeOK ==
  /\ buf \in [mBuffer : Seq(Byte), mReadIndex : Nat, mWriteIndex : Nat]
  /\ made \in Sizes
  /\ peak \in Nat

\* The indexes stay in order and in the array, and less than half of it is
\* behind the read index.
IndexesInOrder ==
  /\ buf.mReadIndex <= buf.mWriteIndex
  /\ buf.mWriteIndex <= Size(buf)
  /\ buf.mReadIndex = 0 \/ buf.mReadIndex < Size(buf) \div 2

\* Decode reads the length of a message that has not all come, and the byte
\* at its end, beyond the write index (tinypb_coder.cpp:110-114): what it
\* finds there in the array is never an old byte.
NothingStale == \A i \in buf.mWriteIndex + 1 .. Size(buf) : buf.mBuffer[i] = Zero

\* The memory of a buffer is bounded by what it had to hold: it grows past the
\* size it was made with only to less than four times its most bytes.
Bounded == Size(buf) = made \/ Size(buf) < 4 * peak

BufferInv == TypeOK /\ IndexesInOrder /\ NothingStale

\* The buffer is a queue of bytes, whatever is resized and compacted.
Queue == INSTANCE ByteQueue WITH queue <- Contents(buf)

ByteOrder == Queue!Spec

\* And each call does its part: what is written or received is put at the
\* back, whole, and as much is taken from the front as the call says, or, if
\* there is less, all (ReadFromBuffer) or nothing (MoveReadIndex).
CallsAreExact ==
  [][/\ \A bytes \in Chunks : Write(bytes) \/ Receive(bytes) => Queue!Put(bytes)
     /\ \A size \in 0 .. MaxLen + 1 :
          /\ Advance(size) => Queue!Drop(IF size <= ReadAble(buf) THEN size ELSE 0)
          /\ Read(size) => Queue!Drop(IF size <= ReadAble(buf) THEN size ELSE ReadAble(buf))]_vars
=============================================================================
