------------------------- MODULE TCPBufferOpsProofs -------------------------
(***************************************************************************)
(* What the member functions of a TCPBuffer do to what it holds, for       *)
(* buffers of any capacity and any bytes, and sequences of bytes.          *)
(***************************************************************************)
EXTENDS TCPBufferOps, TLAPS, SequenceTheorems

-----------------------------------------------------------------------------
\* What is in a buffer, byte by byte.
LEMMA ContentsFacts ==
  ASSUME NEW b, Loose(b)
  PROVE  /\ Contents(b) \in Seq(Byte)
         /\ Len(Contents(b)) = ReadAble(b)
         /\ ReadAble(b) \in Nat /\ WriteAble(b) \in Nat /\ Size(b) \in Nat
         /\ \A i \in 1 .. ReadAble(b) : Contents(b)[i] = b.mBuffer[b.mReadIndex + i]
<1> DEFINE r == b.mReadIndex
           w == b.mWriteIndex
           s == b.mBuffer
<1>1. s \in Seq(Byte) /\ r \in Nat /\ w \in Nat /\ r <= w /\ w <= Len(s) /\ Len(s) \in Nat
  BY DEF Loose, Size
<1>2. \A i \in r + 1 .. w : s[i] \in Byte
  BY <1>1
<1> HIDE DEF r, w, s
<1>3. /\ SubSeq(s, r + 1, w) \in Seq(Byte)
      /\ Len(SubSeq(s, r + 1, w)) = IF r + 1 <= w THEN w - (r + 1) + 1 ELSE 0
      /\ \A i \in 1 .. w - (r + 1) + 1 : SubSeq(s, r + 1, w)[i] = s[r + 1 + i - 1]
  <2>1. r + 1 \in Int /\ w \in Int
    BY <1>1
  <2> QED
    BY <1>2, <2>1, SubSeqProperties
<1>4. w - (r + 1) + 1 = w - r /\ (r + 1 <= w \/ w - r = 0)
  BY <1>1
<1>5. \A i \in 1 .. w - r : SubSeq(s, r + 1, w)[i] = s[r + i]
  BY <1>1, <1>3, <1>4
<1> QED
  BY <1>1, <1>3, <1>4, <1>5 DEF Contents, ReadAble, WriteAble, Size, r, w, s

\* Two buffers with the same number of bytes, equal one by one, hold the same.
LEMMA SameContents ==
  ASSUME NEW b, NEW c, Loose(b), Loose(c), ReadAble(b) = ReadAble(c),
         \A i \in 1 .. ReadAble(b) :
           b.mBuffer[b.mReadIndex + i] = c.mBuffer[c.mReadIndex + i]
  PROVE  Contents(b) = Contents(c)
BY ContentsFacts, SeqEqual

\* A new buffer is empty, sound and of the size it is made with.
LEMMA NewFacts ==
  ASSUME NEW size \in Nat
  PROVE  LET b == New(size)
         IN  Sound(b) /\ Size(b) = size /\ ReadAble(b) = 0 /\ Contents(b) = <<>>
<1> DEFINE a == [i \in 1 .. size |-> Zero]
           b == New(size)
<1>1. a \in Seq(Byte) /\ Len(a) = size /\ \A i \in 1 .. size : a[i] = Zero
  BY ByteAssumption
<1>2. b = [mBuffer |-> a, mReadIndex |-> 0, mWriteIndex |-> 0]
  BY DEF New
<1> HIDE DEF a, b
<1>3. b.mBuffer = a /\ b.mReadIndex = 0 /\ b.mWriteIndex = 0
      /\ b \in [mBuffer : Seq(Byte), mReadIndex : Nat, mWriteIndex : Nat]
  BY <1>1, <1>2
<1>4. Size(b) = size /\ ReadAble(b) = 0 /\ Sound(b)
  BY <1>1, <1>3 DEF Size, ReadAble, Sound, Loose
<1>5. Contents(b) \in Seq(Byte) /\ Len(Contents(b)) = 0
  BY <1>4, ContentsFacts DEF Sound
<1> QED
  BY <1>4, <1>5, EmptySeq DEF b

\* Copying to a new array that is large enough keeps what is in the buffer.
LEMMA MovedFacts ==
  ASSUME NEW b, Loose(b), NEW size \in Nat, ReadAble(b) <= size
  PROVE  LET m == Moved(b, size)
         IN  /\ Sound(m) /\ Contents(m) = Contents(b)
             /\ ReadAble(m) = ReadAble(b) /\ Size(m) = size /\ m.mReadIndex = 0
<1> DEFINE m == Moved(b, size)
<1>1. /\ b.mBuffer \in Seq(Byte) /\ b.mReadIndex \in Nat /\ b.mWriteIndex \in Nat
      /\ b.mReadIndex <= b.mWriteIndex /\ b.mWriteIndex <= Len(b.mBuffer)
      /\ ReadAble(b) \in Nat /\ ReadAble(b) = b.mWriteIndex - b.mReadIndex
  BY ContentsFacts DEF Loose, Size, ReadAble
<1> DEFINE a == [i \in 1 .. size |-> IF i <= ReadAble(b)
                                      THEN b.mBuffer[b.mReadIndex + i] ELSE Zero]
<1>2. \A i \in 1 .. size : a[i] \in Byte
  <2> SUFFICES ASSUME NEW i \in 1 .. size PROVE a[i] \in Byte
    OBVIOUS
  <2>1. CASE i <= ReadAble(b)
    <3>1. b.mReadIndex + i \in 1 .. Len(b.mBuffer)
      BY <1>1, <2>1
    <3> QED
      BY <1>1, <2>1, <3>1
  <2>2. CASE ~(i <= ReadAble(b))
    BY <2>2, ByteAssumption
  <2> QED
    BY <2>1, <2>2
<1>3. a \in Seq(Byte) /\ Len(a) = size
  BY <1>2
<1>4. \A i \in 1 .. size : a[i] = IF i <= ReadAble(b)
                                  THEN b.mBuffer[b.mReadIndex + i] ELSE Zero
  OBVIOUS
<1>5. m = [mBuffer |-> a, mReadIndex |-> 0, mWriteIndex |-> ReadAble(b)]
  BY DEF Moved
<1> HIDE DEF m, a
<1>6. m.mReadIndex = 0 /\ m.mWriteIndex = ReadAble(b) /\ m.mBuffer = a
  BY <1>5
<1>7. Size(m) = size /\ ReadAble(m) = ReadAble(b)
  BY <1>1, <1>6, <1>3 DEF Size, ReadAble
<1>8. Loose(m)
  <2>1. m \in [mBuffer : Seq(Byte), mReadIndex : Nat, mWriteIndex : Nat]
    BY <1>1, <1>5, <1>3
  <2>2. \A i \in m.mWriteIndex + 1 .. Size(m) : m.mBuffer[i] = Zero
    BY <1>1, <1>6, <1>7, <1>4
  <2> QED
    BY <1>1, <1>6, <1>7, <2>1, <2>2 DEF Loose
<1>9. \A i \in 1 .. ReadAble(m) : m.mBuffer[m.mReadIndex + i] = b.mBuffer[b.mReadIndex + i]
  BY <1>1, <1>6, <1>7, <1>4
<1>10. Contents(m) = Contents(b)
  BY <1>7, <1>8, <1>9, SameContents
<1> QED
  BY <1>6, <1>7, <1>8, <1>10 DEF Sound, m

\* adjustBuffer makes a buffer sound and keeps what is in it.
LEMMA AdjustFacts ==
  ASSUME NEW b, Loose(b)
  PROVE  LET m == adjustBuffer(b)
         IN  /\ Sound(m) /\ Contents(m) = Contents(b)
             /\ ReadAble(m) = ReadAble(b) /\ Size(m) = Size(b)
<1>1. CASE b.mReadIndex < Size(b) \div 2
  BY <1>1 DEF adjustBuffer, Sound
<1>2. CASE ~(b.mReadIndex < Size(b) \div 2)
  <2>1. Size(b) \in Nat /\ ReadAble(b) <= Size(b)
    BY ContentsFacts DEF Loose, ReadAble
  <2> QED
    BY <1>2, <2>1, MovedFacts DEF adjustBuffer
<1> QED
  BY <1>1, <1>2

\* ResizeBuffer to no less than the capacity keeps what is in the buffer.
LEMMA ResizeFacts ==
  ASSUME NEW b, Sound(b), NEW size \in Nat, Size(b) <= size
  PROVE  LET m == ResizeBuffer(b, size)
         IN  /\ Sound(m) /\ Contents(m) = Contents(b)
             /\ ReadAble(m) = ReadAble(b) /\ Size(m) = size /\ m.mReadIndex = 0
<1>1. Loose(b) /\ Size(b) \in Nat /\ ReadAble(b) <= size /\ ~(size < Size(b))
  BY ContentsFacts DEF Sound, Loose, ReadAble
<1> QED
  BY <1>1, MovedFacts DEF ResizeBuffer

-----------------------------------------------------------------------------
\* MoveReadIndex takes as many bytes from the front as it is told, and none if
\* there are less.
LEMMA MoveReadFacts ==
  ASSUME NEW b, Sound(b), NEW size \in Nat
  PROVE  LET m == MoveReadIndex(b, size)
         IN  /\ Sound(m) /\ Size(m) = Size(b)
             /\ size <= ReadAble(b) =>
                  /\ Contents(m) = SubSeq(Contents(b), size + 1, Len(Contents(b)))
                  /\ ReadAble(m) = ReadAble(b) - size
             /\ size > ReadAble(b) => m = b
<1>1. /\ Loose(b) /\ ReadAble(b) \in Nat /\ Size(b) \in Nat
      /\ b.mReadIndex \in Nat /\ b.mWriteIndex \in Nat /\ b.mBuffer \in Seq(Byte)
      /\ ReadAble(b) = b.mWriteIndex - b.mReadIndex
  BY ContentsFacts DEF Sound, Loose, ReadAble
<1>2. CASE size > ReadAble(b)
  <2>1. b.mReadIndex + size > b.mWriteIndex
    BY <1>1, <1>2
  <2> QED
    BY <1>1, <1>2, <2>1 DEF MoveReadIndex
<1>3. CASE size <= ReadAble(b)
  <2> DEFINE c == [b EXCEPT !.mReadIndex = @ + size]
  <2>1. ~(b.mReadIndex + size > b.mWriteIndex)
    BY <1>1, <1>3
  <2>2. /\ c.mBuffer = b.mBuffer /\ c.mReadIndex = b.mReadIndex + size
        /\ c.mWriteIndex = b.mWriteIndex /\ Size(c) = Size(b)
        /\ c \in [mBuffer : Seq(Byte), mReadIndex : Nat, mWriteIndex : Nat]
    BY <1>1 DEF Loose, Size
  <2> HIDE DEF c
  <2>3. Loose(c) /\ ReadAble(c) = ReadAble(b) - size
    BY <1>1, <2>1, <2>2 DEF Loose, ReadAble
  <2>4. Contents(c) = SubSeq(Contents(b), size + 1, Len(Contents(b)))
    <3> DEFINE q == Contents(b)
               n == ReadAble(b)
    <3>1. q \in Seq(Byte) /\ Len(q) = n /\ n \in Nat
      BY <1>1, ContentsFacts
    <3>2. \A i \in 1 .. n : q[i] = b.mBuffer[b.mReadIndex + i]
      BY <1>1, ContentsFacts
    <3>3. Contents(c) \in Seq(Byte) /\ Len(Contents(c)) = n - size
      BY <2>3, ContentsFacts
    <3>4. \A i \in 1 .. n - size : Contents(c)[i] = b.mBuffer[b.mReadIndex + size + i]
      BY <2>2, <2>3, ContentsFacts
    <3> HIDE DEF q, n
    <3>5. /\ SubSeq(q, size + 1, n) \in Seq(Byte)
          /\ Len(SubSeq(q, size + 1, n)) = n - size
          /\ \A i \in 1 .. n - size : SubSeq(q, size + 1, n)[i] = q[size + i]
      <4>1. size + 1 \in Int /\ n \in Int /\ \A i \in size + 1 .. n : q[i] \in Byte
        BY <3>1
      <4>2. /\ SubSeq(q, size + 1, n) \in Seq(Byte)
            /\ Len(SubSeq(q, size + 1, n)) = IF size + 1 <= n THEN n - (size + 1) + 1 ELSE 0
            /\ \A i \in 1 .. n - (size + 1) + 1 :
                 SubSeq(q, size + 1, n)[i] = q[size + 1 + i - 1]
        BY <4>1, SubSeqProperties
      <4>3. n - (size + 1) + 1 = n - size /\ (size + 1 <= n \/ n - size = 0)
        BY <3>1, <1>3 DEF n
      <4>4. \A i \in 1 .. n - size : size + 1 + i - 1 = size + i
        BY <3>1
      <4> QED
        BY <4>2, <4>3, <4>4
    <3>6. \A i \in 1 .. n - size : Contents(c)[i] = SubSeq(q, size + 1, n)[i]
      <4> SUFFICES ASSUME NEW i \in 1 .. n - size
                   PROVE  Contents(c)[i] = SubSeq(q, size + 1, n)[i]
        OBVIOUS
      <4>1. size + i \in 1 .. n /\ b.mReadIndex + size + i = b.mReadIndex + (size + i)
        BY <1>1, <3>1
      <4> QED
        BY <3>2, <3>4, <3>5, <4>1
    <3>7. Contents(c) = SubSeq(q, size + 1, n)
      BY <3>3, <3>5, <3>6, SeqEqual
    <3> QED
      BY <3>1, <3>7 DEF q
  <2>5. MoveReadIndex(b, size) = adjustBuffer(c)
    BY <2>1 DEF MoveReadIndex, c
  <2>6. /\ Sound(adjustBuffer(c)) /\ Contents(adjustBuffer(c)) = Contents(c)
        /\ ReadAble(adjustBuffer(c)) = ReadAble(c) /\ Size(adjustBuffer(c)) = Size(c)
    BY <2>3, AdjustFacts
  <2>7. ~(size > ReadAble(b))
    BY <1>1, <1>3
  <2> QED
    BY <2>2, <2>3, <2>4, <2>5, <2>6, <2>7
<1> QED
  BY <1>1, <1>2, <1>3

\* Bytes for which there is room are put at the back.
LEMMA StoreFacts ==
  ASSUME NEW b, Sound(b), NEW bytes \in Seq(Byte), Len(bytes) <= WriteAble(b)
  PROVE  LET m == MoveWriteIndex(Store(b, bytes), Len(bytes))
         IN  /\ Sound(m) /\ Contents(m) = Contents(b) \o bytes
             /\ ReadAble(m) = ReadAble(b) + Len(bytes) /\ Size(m) = Size(b)
<1> DEFINE n == Len(bytes)
           w == b.mWriteIndex
           a == [i \in 1 .. Size(b) |-> IF i > w /\ i <= w + n THEN bytes[i - w]
                                       ELSE b.mBuffer[i]]
           s == [b EXCEPT !.mBuffer = a]
           c == [s EXCEPT !.mWriteIndex = @ + n]
<1>1. /\ Loose(b) /\ ReadAble(b) \in Nat /\ Size(b) \in Nat /\ n \in Nat
      /\ b.mReadIndex \in Nat /\ w \in Nat /\ b.mBuffer \in Seq(Byte)
      /\ ReadAble(b) = w - b.mReadIndex /\ Size(b) = Len(b.mBuffer)
      /\ b.mReadIndex <= w /\ w + n <= Size(b)
      /\ b \in [mBuffer : Seq(Byte), mReadIndex : Nat, mWriteIndex : Nat]
  BY ContentsFacts DEF Sound, Loose, ReadAble, WriteAble, Size
<1>2. \A i \in 1 .. Size(b) : a[i] \in Byte
  <2> SUFFICES ASSUME NEW i \in 1 .. Size(b) PROVE a[i] \in Byte
    OBVIOUS
  <2>1. CASE i > w /\ i <= w + n
    <3>1. i - w \in 1 .. n
      BY <1>1, <2>1
    <3> QED
      BY <2>1, <3>1
  <2>2. CASE ~(i > w /\ i <= w + n)
    BY <1>1, <2>2
  <2> QED
    BY <2>1, <2>2
<1>3. a \in Seq(Byte) /\ Len(a) = Size(b)
  BY <1>1, <1>2
<1>4. \A i \in 1 .. Size(b) : a[i] = IF i > w /\ i <= w + n THEN bytes[i - w] ELSE b.mBuffer[i]
  OBVIOUS
<1>5. Store(b, bytes) = s
  BY DEF Store
<1> HIDE DEF a
<1>6. /\ s.mBuffer = a /\ s.mReadIndex = b.mReadIndex /\ s.mWriteIndex = w
      /\ s \in [mBuffer : Seq(Byte), mReadIndex : Nat, mWriteIndex : Nat]
  BY <1>1, <1>3
<1> HIDE DEF s
<1>7. /\ c.mBuffer = a /\ c.mReadIndex = b.mReadIndex /\ c.mWriteIndex = w + n
      /\ c \in [mBuffer : Seq(Byte), mReadIndex : Nat, mWriteIndex : Nat]
  <2>1. w + n \in Nat
    BY <1>1
  <2> HIDE DEF n, w
  <2> QED
    BY <1>6, <2>1
<1>8. MoveWriteIndex(Store(b, bytes), n) = adjustBuffer(c)
  <2>1. Size(s) = Size(b) /\ ~(s.mWriteIndex + n > Size(s))
    BY <1>1, <1>3, <1>6 DEF Size
  <2> QED
    BY <1>5, <2>1 DEF MoveWriteIndex
<1> HIDE DEF c, n, w
<1>9. Loose(c) /\ ReadAble(c) = ReadAble(b) + n /\ Size(c) = Size(b)
  <2>1. Size(c) = Size(b) /\ ReadAble(c) = ReadAble(b) + n
    BY <1>1, <1>3, <1>7 DEF Size, ReadAble
  <2>2. \A i \in w + n + 1 .. Size(b) : a[i] = Zero
    <3> SUFFICES ASSUME NEW i \in w + n + 1 .. Size(b) PROVE a[i] = Zero
      OBVIOUS
    <3>1. i \in 1 .. Size(b) /\ i \in w + 1 .. Size(b) /\ ~(i <= w + n)
      BY <1>1
    <3>2. b.mBuffer[i] = Zero
      BY <1>1, <3>1 DEF Loose, w
    <3> QED
      BY <1>4, <3>1, <3>2
  <2> QED
    BY <1>1, <1>7, <2>1, <2>2 DEF Loose
<1>10. Contents(c) = Contents(b) \o bytes
  <2> DEFINE q == Contents(b)
             k == ReadAble(b)
             r == b.mReadIndex
  <2>1. /\ q \in Seq(Byte) /\ Len(q) = k
        /\ \A i \in 1 .. k : q[i] = b.mBuffer[r + i]
    BY <1>1, ContentsFacts
  <2>2. /\ Contents(c) \in Seq(Byte) /\ Len(Contents(c)) = k + n
        /\ \A i \in 1 .. k + n : Contents(c)[i] = a[r + i]
    BY <1>7, <1>9, ContentsFacts
  <2>3. k \in Nat /\ r \in Nat /\ w = r + k /\ bytes \in Seq(Byte) /\ Len(bytes) = n
    BY <1>1 DEF n
  <2> HIDE DEF q, k, r
  <2>4. /\ q \o bytes \in Seq(Byte) /\ Len(q \o bytes) = k + n
        /\ \A i \in 1 .. k + n : (q \o bytes)[i] = IF i <= k THEN q[i] ELSE bytes[i - k]
    BY <2>1, <2>3, ConcatProperties
  <2>5. \A i \in 1 .. k + n : Contents(c)[i] = (q \o bytes)[i]
    <3> SUFFICES ASSUME NEW i \in 1 .. k + n PROVE Contents(c)[i] = (q \o bytes)[i]
      OBVIOUS
    <3>1. r + i \in 1 .. Size(b) /\ Contents(c)[i] = a[r + i]
      BY <1>1, <2>2, <2>3
    <3>2. CASE i <= k
      <4>1. ~(r + i > w) /\ i \in 1 .. k
        BY <2>3, <3>2
      <4> QED
        BY <1>4, <2>1, <2>4, <3>1, <3>2, <4>1
    <3>3. CASE ~(i <= k)
      <4>1. r + i > w /\ r + i <= w + n /\ (r + i) - w = i - k
        BY <1>1, <2>3, <3>3
      <4> QED
        BY <1>4, <2>4, <3>1, <3>3, <4>1
    <3> QED
      BY <3>2, <3>3
  <2>6. Contents(c) = q \o bytes
    BY <2>2, <2>4, <2>5, SeqEqual
  <2> QED
    BY <2>6 DEF q
<1>11. /\ Sound(adjustBuffer(c)) /\ Contents(adjustBuffer(c)) = Contents(c)
       /\ ReadAble(adjustBuffer(c)) = ReadAble(c) /\ Size(adjustBuffer(c)) = Size(c)
  BY <1>9, AdjustFacts
<1> QED
  BY <1>8, <1>9, <1>10, <1>11 DEF n

\* Half as much again as x is more than what the array had and what it has to
\* hold, x less what has been read, and less than four times the latter.
LEMMA GrowthFacts ==
  ASSUME NEW x \in Nat, NEW y \in Nat, y < x,
         NEW r \in Nat, r = 0 \/ r < y \div 2
  PROVE  LET z == (3 * x) \div 2
         IN  z \in Nat /\ y <= z /\ z < 4 * (x - r) /\ x - r <= z
<1> DEFINE z == (3 * x) \div 2
           h == y \div 2
<1>1. z \in Nat /\ 2 * z <= 3 * x /\ 3 * x <= 2 * z + 1
  OBVIOUS
<1>2. h \in Nat /\ 2 * h <= y
  OBVIOUS
<1>3. r = 0 \/ r < h
  OBVIOUS
<1> HIDE DEF z, h
<1>4. r = 0 \/ 2 * r < y
  BY <1>2, <1>3
<1>5. x <= z
  BY <1>1
<1>6. z < 4 * (x - r)
  <2>1. 2 * z < 8 * (x - r)
    <3>1. CASE r = 0
      BY <1>1, <3>1
    <3>2. CASE 2 * r < y
      BY <1>1, <3>2
    <3> QED
      BY <1>4, <3>1, <3>2
  <2> QED
    BY <1>1, <2>1
<1> QED
  BY <1>1, <1>5, <1>6 DEF z

\* WriteToBuffer puts all its bytes at the back; an array that has to grow
\* stays smaller than four times what the buffer then holds.
LEMMA WriteFacts ==
  ASSUME NEW b, Sound(b), NEW bytes \in Seq(Byte)
  PROVE  LET m == WriteToBuffer(b, bytes)
         IN  /\ Sound(m) /\ Contents(m) = Contents(b) \o bytes
             /\ ReadAble(m) = ReadAble(b) + Len(bytes)
             /\ Size(b) <= Size(m)
             /\ Size(m) = Size(b) \/ Size(m) < 4 * ReadAble(m)
<1> DEFINE n == Len(bytes)
           w == b.mWriteIndex
           newSize == (3 * (w + n)) \div 2
<1>1. /\ Loose(b) /\ ReadAble(b) \in Nat /\ Size(b) \in Nat /\ n \in Nat /\ WriteAble(b) \in Nat
      /\ b.mReadIndex \in Nat /\ w \in Nat
      /\ ReadAble(b) = w - b.mReadIndex /\ WriteAble(b) = Size(b) - w
      /\ b.mReadIndex <= w /\ w <= Size(b)
      /\ b.mReadIndex = 0 \/ b.mReadIndex < Size(b) \div 2
  BY ContentsFacts DEF Sound, Loose, ReadAble, WriteAble
<1>2. CASE n > WriteAble(b)
  <2> DEFINE m == ResizeBuffer(b, newSize)
  <2>1. newSize \in Nat /\ Size(b) <= newSize /\ newSize < 4 * (ReadAble(b) + n)
        /\ ReadAble(b) + n <= newSize
    <3>1. Size(b) < w + n
      BY <1>1, <1>2
    <3>2. ReadAble(b) + n = (w + n) - b.mReadIndex
      BY <1>1
    <3> DEFINE x == w + n
    <3>3. /\ x \in Nat /\ Size(b) \in Nat /\ Size(b) < x /\ b.mReadIndex \in Nat
          /\ b.mReadIndex = 0 \/ b.mReadIndex < Size(b) \div 2
      BY <1>1, <3>1
    <3>4. newSize = (3 * x) \div 2 /\ ReadAble(b) + n = x - b.mReadIndex
      BY <3>2
    <3> HIDE DEF x, newSize
    <3> QED
      BY <3>3, <3>4, GrowthFacts
  <2>2. /\ Sound(m) /\ Contents(m) = Contents(b)
        /\ ReadAble(m) = ReadAble(b) /\ Size(m) = newSize /\ m.mReadIndex = 0
    BY <2>1, ResizeFacts
  <2>3. WriteToBuffer(b, bytes) = MoveWriteIndex(Store(m, bytes), n)
    BY <1>2 DEF WriteToBuffer
  <2> HIDE DEF m, newSize
  <2>4. n <= WriteAble(m)
    <3>1. WriteAble(m) = Size(m) - m.mWriteIndex /\ ReadAble(m) = m.mWriteIndex - m.mReadIndex
          /\ m.mWriteIndex \in Nat
      BY <2>2 DEF WriteAble, ReadAble, Sound, Loose
    <3> QED
      BY <1>1, <2>1, <2>2, <3>1
  <2> QED
    BY <2>1, <2>2, <2>3, <2>4, StoreFacts
<1>3. CASE ~(n > WriteAble(b))
  <2>1. WriteToBuffer(b, bytes) = MoveWriteIndex(Store(b, bytes), n)
    BY <1>3 DEF WriteToBuffer
  <2>2. Len(bytes) <= WriteAble(b)
    BY <1>1, <1>3
  <2>3. Size(b) <= Size(b)
    BY <1>1
  <2> DEFINE m == MoveWriteIndex(Store(b, bytes), n)
  <2>4. /\ Sound(m) /\ Contents(m) = Contents(b) \o bytes
        /\ ReadAble(m) = ReadAble(b) + n /\ Size(m) = Size(b)
    BY <2>2, StoreFacts
  <2> QED
    BY <2>1, <2>3, <2>4
<1> QED
  BY <1>2, <1>3

\* A full buffer is doubled before read(), and was more than half full of
\* bytes that are still to be read.
LEMMA MakeRoomFacts ==
  ASSUME NEW b, Sound(b), Size(b) # 0
  PROVE  LET m == MakeRoom(b)
         IN  /\ Sound(m) /\ Contents(m) = Contents(b) /\ ReadAble(m) = ReadAble(b)
             /\ Size(m) = Size(b) \/ Size(m) < 4 * ReadAble(m)
             /\ Size(m) \in Nat /\ Size(m) >= Size(b) /\ Size(m) # 0
<1>1. /\ Loose(b) /\ ReadAble(b) \in Nat /\ Size(b) \in Nat /\ WriteAble(b) \in Nat
      /\ b.mReadIndex \in Nat /\ b.mWriteIndex \in Nat
      /\ ReadAble(b) = b.mWriteIndex - b.mReadIndex /\ WriteAble(b) = Size(b) - b.mWriteIndex
      /\ b.mReadIndex = 0 \/ b.mReadIndex < Size(b) \div 2
  BY ContentsFacts DEF Sound, Loose, ReadAble, WriteAble
<1>2. CASE WriteAble(b) = 0
  <2>1. 2 * Size(b) \in Nat /\ Size(b) <= 2 * Size(b) /\ 2 * Size(b) < 4 * ReadAble(b)
    BY <1>1, <1>2
  <2> QED
    BY <1>1, <1>2, <2>1, ResizeFacts DEF MakeRoom
<1>3. CASE WriteAble(b) # 0
  BY <1>1, <1>3 DEF MakeRoom
<1> QED
  BY <1>2, <1>3

\* To take nothing from the front is to leave all.
LEMMA TakeNone ==
  ASSUME NEW q \in Seq(Byte)
  PROVE  SubSeq(q, 1, Len(q)) = q
<1>1. \A i \in 1 .. Len(q) : q[i] \in Byte
  OBVIOUS
<1>2. /\ SubSeq(q, 1, Len(q)) \in Seq(Byte)
      /\ Len(SubSeq(q, 1, Len(q))) = Len(q)
      /\ \A i \in 1 .. Len(q) : SubSeq(q, 1, Len(q))[i] = q[i]
  OBVIOUS
<1> QED
  BY <1>2, SeqEqual
=============================================================================
