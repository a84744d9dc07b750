------------------------ MODULE RpcConnectionProofs ------------------------
(***************************************************************************)
(* Proofs about RpcConnection, for any messages whose lengths fit into the *)
(* integers of a frame, any services, any capacity of the buffers and any  *)
(* pieces in which bytes are written and read: the frames stay in line, no *)
(* whole request is left in the buffer, and each request is answered once, *)
(* in order, with an answer of its own.                                    *)
(***************************************************************************)
EXTENDS RpcConnection, TCPBufferOpsProofs, WellFoundedInduction, TLAPS

-----------------------------------------------------------------------------
(***************************************************************************)
(* Natural numbers: induction in the form of the least element of a set,   *)
(* which needs no operator for a parameter.                                *)
(***************************************************************************)
\* The order of the natural numbers, as a set of pairs.
Less == {p \in Nat \X Nat : p[1] < p[2]}

\* A set of natural numbers that is not empty has a least element.
LEMMA Least ==
  ASSUME NEW T \in SUBSET Nat, T # {}
  PROVE  \E x \in T : \A y \in T : x <= y
<1>1. Less = OpToRel(<, Nat)
  BY DEF Less, OpToRel
<1>2. IsWellFoundedOn(Less, Nat)
  BY <1>1, NatLessThanWellFounded
<1>3. PICK x \in T : \A y \in T : ~(<<y, x>> \in Less)
  BY <1>2, WFMin
<1>4. \A y \in T : <<y, x>> \in Nat \X Nat /\ <<y, x>>[1] = y /\ <<y, x>>[2] = x
  OBVIOUS
<1>5. \A y \in T : ~(y < x)
  BY <1>3, <1>4 DEF Less
<1> QED
  BY <1>5

\* A set that has 0, and with a number the next, has them all.
LEMMA Induct ==
  ASSUME NEW T \in SUBSET Nat, 0 \in T, \A n \in T : n + 1 \in T
  PROVE  T = Nat
<1> SUFFICES ASSUME Nat \ T # {} PROVE FALSE
  OBVIOUS
<1>1. PICK x \in Nat \ T : \A y \in Nat \ T : x <= y
  BY Least
<1>2. x - 1 \in Nat
  BY <1>1
<1>3. x - 1 \in T
  BY <1>1, <1>2
<1>4. x - 1 + 1 = x
  BY <1>1
<1> QED
  BY <1>1, <1>3, <1>4

\* Min is the number that is in the set and not more than any.
LEMMA MinIs ==
  ASSUME NEW T \in SUBSET Nat, NEW x \in T, \A y \in T : x <= y
  PROVE  Min(T) = x
<1>1. \A z \in T : (\A y \in T : z <= y) => z = x
  OBVIOUS
<1> QED
  BY <1>1 DEF Min

\* Min is in a set that is not empty.
LEMMA MinIn ==
  ASSUME NEW T \in SUBSET Nat, T # {}
  PROVE  Min(T) \in T /\ \A y \in T : Min(T) <= y
BY Least, MinIs

-----------------------------------------------------------------------------
(***************************************************************************)
(* The two recursive definitions: the frames of a sequence of messages,    *)
(* and a buffer into which they are encoded.                               *)
(***************************************************************************)
\* The function that FlattenSeq defines exists for every sequence.
LEMMA FlattenIs ==
  ASSUME NEW S, NEW q \in Seq(S), Len(q) > 0
  PROVE  \E f : /\ f = [i \in 1 .. Len(q) |-> IF i = 1 THEN q[i] ELSE f[i-1] \o q[i]]
                /\ FlattenSeq(q) = f[Len(q)]
<1> DEFINE Rec(n, f) == f = [i \in 1 .. n |-> IF i = 1 THEN q[i] ELSE f[i-1] \o q[i]]
           T == {n \in Nat : \E f : Rec(n + 1, f)}
<1>1. 0 \in T
  <2>1. Rec(0 + 1, [i \in 1 .. 0 + 1 |-> q[i]])
    OBVIOUS
  <2> QED
    BY <2>1
<1>2. ASSUME NEW n \in Nat, NEW f, Rec(n + 1, f)
      PROVE  \E g : Rec(n + 1 + 1, g)
  <2> DEFINE g == [i \in 1 .. n + 1 + 1 |-> IF i = n + 1 + 1 THEN f[n + 1] \o q[i] ELSE f[i]]
  <2>1. \A i \in 1 .. n + 1 + 1 : g[i] = IF i = 1 THEN q[i] ELSE g[i-1] \o q[i]
    <3> TAKE i \in 1 .. n + 1 + 1
    <3>1. CASE i = n + 1 + 1
      <4>1. i # 1 /\ i - 1 = n + 1 /\ n + 1 \in 1 .. n + 1 + 1 /\ n + 1 # n + 1 + 1
        BY <3>1
      <4> QED
        BY <3>1, <4>1
    <3>2. CASE i # n + 1 + 1
      <4>1. i \in 1 .. n + 1
        BY <3>2
      <4>2. i # 1 => i - 1 \in 1 .. n + 1 + 1 /\ i - 1 # n + 1 + 1
        BY <3>2
      <4>3. f[i] = IF i = 1 THEN q[i] ELSE f[i-1] \o q[i]
        BY <1>2, <4>1
      <4> QED
        BY <3>2, <4>2, <4>3
    <3> QED
      BY <3>1, <3>2
  <2>2. g = [i \in 1 .. n + 1 + 1 |-> g[i]]
    OBVIOUS
  <2> HIDE DEF g
  <2>3. Rec(n + 1 + 1, g)
    BY <2>1, <2>2
  <2> QED
    BY <2>3
<1> HIDE DEF Rec
<1>3. T \in SUBSET Nat /\ \A n \in T : n + 1 \in T
  BY <1>2
<1>4. T = Nat
  BY <1>1, <1>3, Induct
<1>5. Len(q) - 1 \in Nat /\ Len(q) - 1 + 1 = Len(q)
  OBVIOUS
<1>6. \E f : Rec(Len(q), f)
  BY <1>4, <1>5
<1>7. FlattenSeq(q) = (CHOOSE f : Rec(Len(q), f))[Len(q)]
  BY DEF FlattenSeq, Rec
<1>8. Rec(Len(q), CHOOSE f : Rec(Len(q), f))
  BY <1>6
<1> QED
  BY <1>7, <1>8 DEF Rec

\* One sequence more is put behind the others.
LEMMA FlattenAppend ==
  ASSUME NEW S, NEW q \in Seq(Seq(S)), NEW x \in Seq(S)
  PROVE  /\ FlattenSeq(<<>>) = <<>>
         /\ FlattenSeq(q) \in Seq(S)
         /\ FlattenSeq(Append(q, x)) = FlattenSeq(q) \o x
<1> DEFINE p == Append(q, x)
<1>1. /\ p \in Seq(Seq(S)) /\ Len(p) = Len(q) + 1 /\ Len(q) \in Nat
      /\ \A i \in 1 .. Len(q) : p[i] = q[i]
      /\ p[Len(q) + 1] = x
  BY AppendProperties
<1> HIDE DEF p
<1>2. FlattenSeq(<<>>) = <<>>
  BY DEF FlattenSeq
<1>3. PICK g : /\ g = [i \in 1 .. Len(p) |-> IF i = 1 THEN p[i] ELSE g[i-1] \o p[i]]
               /\ FlattenSeq(p) = g[Len(p)]
  <2>1. Len(p) > 0
    BY <1>1
  <2> QED
    BY <1>1, <2>1, FlattenIs
<1>4. \A i \in 1 .. Len(p) : g[i] = IF i = 1 THEN p[i] ELSE g[i-1] \o p[i]
  BY <1>3
<1>5. CASE Len(q) = 0
  <2>1. q = <<>>
    BY <1>5
  <2>2. Len(p) = 1 /\ p[1] = x
    BY <1>1, <1>5
  <2>3. g[1] = x
    BY <1>4, <2>2
  <2>4. FlattenSeq(p) = x /\ <<>> \o x = x /\ <<>> \in Seq(S)
    BY <1>3, <2>2, <2>3, ConcatEmptySeq, EmptySeq
  <2> QED
    BY <1>2, <2>1, <2>4 DEF p
<1>6. CASE Len(q) > 0
  <2>1. PICK f : /\ f = [i \in 1 .. Len(q) |-> IF i = 1 THEN q[i] ELSE f[i-1] \o q[i]]
                 /\ FlattenSeq(q) = f[Len(q)]
    BY <1>6, FlattenIs
  <2>2. \A i \in 1 .. Len(q) : f[i] = IF i = 1 THEN q[i] ELSE f[i-1] \o q[i]
    BY <2>1
  <2> DEFINE T == {n \in Nat : n + 1 <= Len(q) => f[n + 1] \in Seq(S) /\ g[n + 1] = f[n + 1]}
  <2>3. 0 \in T
    <3>1. f[1] = q[1] /\ g[1] = p[1] /\ q[1] \in Seq(S)
      BY <1>1, <1>4, <1>6, <2>2
    <3> QED
      BY <1>1, <1>6, <3>1
  <2>4. \A n \in T : n + 1 \in T
    <3> SUFFICES ASSUME NEW n \in T, n + 1 + 1 <= Len(q)
                 PROVE  f[n + 1 + 1] \in Seq(S) /\ g[n + 1 + 1] = f[n + 1 + 1]
      OBVIOUS
    <3>1. /\ n + 1 \in 1 .. Len(q) /\ n + 1 + 1 \in 1 .. Len(q) /\ n + 1 + 1 \in 1 .. Len(p)
          /\ n + 1 + 1 # 1 /\ n + 1 + 1 - 1 = n + 1
      BY <1>1
    <3>2. f[n + 1] \in Seq(S) /\ g[n + 1] = f[n + 1]
      BY <3>1
    <3> DEFINE k == n + 1 + 1
    <3>3. f[k] = f[k - 1] \o q[k] /\ g[k] = g[k - 1] \o p[k]
      <4> HIDE DEF k
      <4> QED
        BY <1>4, <2>2, <3>1 DEF k
    <3>4. q[n + 1 + 1] \in Seq(S) /\ p[n + 1 + 1] = q[n + 1 + 1]
      BY <1>1, <3>1
    <3>5. k - 1 = n + 1
      BY <3>1
    <3>6. f[k] = f[n + 1] \o q[k] /\ g[k] = f[n + 1] \o q[k]
      <4> HIDE DEF k
      <4> QED
        BY <3>2, <3>3, <3>4, <3>5 DEF k
    <3>7. q[k] \in Seq(S)
      BY <3>4
    <3> HIDE DEF k
    <3>8. f[k] \in Seq(S) /\ g[k] = f[k]
      BY <3>2, <3>6, <3>7, ConcatProperties
    <3> QED
      BY <3>8 DEF k
  <2>5. T = Nat
    BY <2>3, <2>4, Induct
  <2>6. Len(q) - 1 \in T
    <3>1. Len(q) - 1 \in Nat
      BY <1>1, <1>6
    <3> HIDE DEF T
    <3> QED
      BY <2>5, <3>1
  <2>7. f[Len(q)] \in Seq(S) /\ g[Len(q)] = f[Len(q)]
    <3>1. Len(q) - 1 + 1 = Len(q) /\ Len(q) <= Len(q)
      BY <1>1
    <3> QED
      BY <2>6, <3>1
  <2>8. g[Len(q) + 1] = g[Len(q)] \o x
    <3>1. /\ Len(q) + 1 \in 1 .. Len(p) /\ Len(q) + 1 # 1
          /\ Len(q) + 1 - 1 = Len(q)
      BY <1>1, <1>6
    <3> DEFINE k == Len(q) + 1
    <3> HIDE DEF k
    <3>2. g[k] = g[k - 1] \o p[k]
      BY <1>4, <3>1 DEF k
    <3> QED
      BY <1>1, <3>1, <3>2 DEF k
  <2> QED
    BY <1>1, <1>2, <1>3, <2>1, <2>7, <2>8 DEF p
<1> QED
  BY <1>1, <1>5, <1>6

-----------------------------------------------------------------------------
(***************************************************************************)
(* A frame: what is where in it.                                           *)
(***************************************************************************)
\* An integer of a frame is two bytes, and can be read back.
LEMMA NetIntFacts ==
  ASSUME NEW n \in Nat
  PROVE  /\ NetInt(n) \in Seq(Byte) /\ Len(NetInt(n)) = IntLen
         /\ n < Base * Base => Base * NetInt(n)[1] + NetInt(n)[2] = n
<1>1. Base \in Nat /\ Base > 0 /\ Byte = 0 .. Base - 1
  BY CoderAssumption
<1> DEFINE d == n \div Base
           e == n % Base
<1>2. d \in Nat /\ e \in 0 .. Base - 1 /\ Base * d + e = n
  BY <1>1
<1> HIDE DEF d, e
<1>3. d % Base \in 0 .. Base - 1
  BY <1>1, <1>2
<1>4. n < Base * Base => d < Base
  BY <1>1, <1>2
<1>5. n < Base * Base => d % Base = d
  BY <1>1, <1>2, <1>4
<1>6. NetInt(n) = <<d % Base, e>>
  BY DEF NetInt, d, e
<1>7. /\ NetInt(n) \in Seq(Byte) /\ Len(NetInt(n)) = 2
      /\ NetInt(n)[1] = d % Base /\ NetInt(n)[2] = e
  BY <1>1, <1>2, <1>3, <1>6
<1> QED
  BY <1>2, <1>5, <1>7 DEF IntLen

\* The array a holds s from index p on.
Holds(a, p, s) == \A i \in 1 .. Len(s) : a[p + i] = s[i]

\* Who holds two sequences holds each of them.
LEMMA HoldsBoth ==
  ASSUME NEW a, NEW p \in Nat, NEW s \in Seq(Byte), NEW t \in Seq(Byte), Holds(a, p, s \o t)
  PROVE  Holds(a, p, s) /\ Holds(a, p + Len(s), t)
<1>1. /\ Len(s \o t) = Len(s) + Len(t) /\ Len(s) \in Nat /\ Len(t) \in Nat
      /\ \A i \in 1 .. Len(s) + Len(t) :
           (s \o t)[i] = IF i <= Len(s) THEN s[i] ELSE t[i - Len(s)]
  BY ConcatProperties
<1>2. \A i \in 1 .. Len(s) + Len(t) : a[p + i] = (s \o t)[i]
  BY <1>1 DEF Holds
<1>3. \A i \in 1 .. Len(s) : a[p + i] = s[i]
  BY <1>1, <1>2
<1>4. ASSUME NEW i \in 1 .. Len(t)
      PROVE  a[p + Len(s) + i] = t[i]
  <2> DEFINE k == Len(s) + i
  <2>1. k \in 1 .. Len(s) + Len(t) /\ ~(k <= Len(s)) /\ k - Len(s) = i /\ p + k = p + Len(s) + i
    BY <1>1
  <2> HIDE DEF k
  <2> QED
    BY <1>1, <1>2, <2>1
<1> QED
  BY <1>3, <1>4 DEF Holds

\* The length of a frame, and its parts in an array that holds it.
LEMMA FrameFacts ==
  ASSUME NEW m \in TinyPBProtocol
  PROVE  LET I  == Len(m.mMsgId)
             M  == Len(m.mMethodName)
             E  == Len(m.mErrInfo)
             L  == Len(Frame(m))
         IN  /\ Frame(m) \in Seq(Byte)
             /\ I \in Nat /\ M \in Nat /\ E \in Nat /\ Len(m.mPbData) \in Nat
             /\ L = 12 + I + M + E + Len(m.mPbData)
             /\ \A a, p : p \in Nat /\ Holds(a, p, Frame(m)) =>
                  /\ a[p + 1] = START
                  /\ Holds(a, p + 1, NetInt(L))
                  /\ Holds(a, p + 3, NetInt(I))
                  /\ Holds(a, p + 5, m.mMsgId)
                  /\ Holds(a, p + 5 + I, NetInt(M))
                  /\ Holds(a, p + 7 + I, m.mMethodName)
                  /\ Holds(a, p + 7 + I + M, NetInt(m.mErrCode))
                  /\ Holds(a, p + 9 + I + M, NetInt(E))
                  /\ Holds(a, p + 11 + I + M, m.mErrInfo)
                  /\ Holds(a, p + 11 + I + M + E, m.mPbData)
                  /\ a[p + L] = END
<1> DEFINE I  == Len(m.mMsgId)
           M  == Len(m.mMethodName)
           E  == Len(m.mErrInfo)
           D  == Len(m.mPbData)
           N  == Fixed + I + M + E + D
           f1 == <<START>>
           f2 == f1 \o NetInt(N)
           f3 == f2 \o NetInt(I)
           f4 == f3 \o m.mMsgId
           f5 == f4 \o NetInt(M)
           f6 == f5 \o m.mMethodName
           f7 == f6 \o NetInt(m.mErrCode)
           f8 == f7 \o NetInt(E)
           f9 == f8 \o m.mErrInfo
           fa == f9 \o m.mPbData
           fb == fa \o <<END>>
<1>1. /\ m.mMsgId \in Seq(Byte) /\ m.mMethodName \in Seq(Byte) /\ m.mErrInfo \in Seq(Byte)
      /\ m.mPbData \in Seq(Byte) /\ m.mErrCode \in Nat
      /\ I \in Nat /\ M \in Nat /\ E \in Nat /\ D \in Nat /\ N \in Nat
      /\ N = 12 + I + M + E + D
  BY DEF TinyPBProtocol, Fixed, IntLen
<1>2. /\ NetInt(N) \in Seq(Byte) /\ Len(NetInt(N)) = 2
      /\ NetInt(I) \in Seq(Byte) /\ Len(NetInt(I)) = 2
      /\ NetInt(M) \in Seq(Byte) /\ Len(NetInt(M)) = 2
      /\ NetInt(E) \in Seq(Byte) /\ Len(NetInt(E)) = 2
      /\ NetInt(m.mErrCode) \in Seq(Byte) /\ Len(NetInt(m.mErrCode)) = 2
  <2>1. \A n \in Nat : NetInt(n) \in Seq(Byte) /\ Len(NetInt(n)) = 2
    BY NetIntFacts DEF IntLen
  <2> HIDE DEF N, I, M, E
  <2> QED
    BY <1>1, <2>1
<1>3. <<START>> \in Seq(Byte) /\ <<END>> \in Seq(Byte) /\ Len(<<START>>) = 1 /\ Len(<<END>>) = 1
  BY CoderAssumption
<1>4. Frame(m) = fb
  BY DEF Frame
<1> HIDE DEF N
<1>5. \A s \in Seq(Byte), t \in Seq(Byte) :
         s \o t \in Seq(Byte) /\ Len(s \o t) = Len(s) + Len(t)
  BY ConcatProperties
<1> HIDE DEF I, M, E, D
<1>6. f1 \in Seq(Byte) /\ Len(f1) = 1
  BY <1>3
<1> HIDE DEF f1
<1>7. f2 \in Seq(Byte) /\ Len(f2) = 3
  <2>1. f2 \in Seq(Byte) /\ Len(f2) = Len(f1) + Len(NetInt(N))
    BY <1>2, <1>5, <1>6
  <2> HIDE DEF f2
  <2> QED
    BY <1>1, <1>2, <1>6, <2>1
<1> HIDE DEF f2
<1>8. f3 \in Seq(Byte) /\ Len(f3) = 5
  <2>1. f3 \in Seq(Byte) /\ Len(f3) = Len(f2) + Len(NetInt(I))
    BY <1>2, <1>5, <1>7
  <2> HIDE DEF f3
  <2> QED
    BY <1>1, <1>2, <1>7, <2>1
<1> HIDE DEF f3
<1>9. f4 \in Seq(Byte) /\ Len(f4) = 5 + I
  BY <1>1, <1>5, <1>8 DEF I
<1> HIDE DEF f4
<1>10. f5 \in Seq(Byte) /\ Len(f5) = 7 + I
  <2>1. f5 \in Seq(Byte) /\ Len(f5) = Len(f4) + Len(NetInt(M))
    BY <1>2, <1>5, <1>9
  <2> HIDE DEF f5
  <2> QED
    BY <1>1, <1>2, <1>9, <2>1
<1> HIDE DEF f5
<1>11. f6 \in Seq(Byte) /\ Len(f6) = 7 + I + M
  BY <1>1, <1>5, <1>10 DEF M
<1> HIDE DEF f6
<1>12. f7 \in Seq(Byte) /\ Len(f7) = 9 + I + M
  <2>1. f7 \in Seq(Byte) /\ Len(f7) = Len(f6) + Len(NetInt(m.mErrCode))
    BY <1>2, <1>5, <1>11
  <2> HIDE DEF f7
  <2> QED
    BY <1>1, <1>2, <1>11, <2>1
<1> HIDE DEF f7
<1>13. f8 \in Seq(Byte) /\ Len(f8) = 11 + I + M
  <2>1. f8 \in Seq(Byte) /\ Len(f8) = Len(f7) + Len(NetInt(E))
    BY <1>2, <1>5, <1>12
  <2> HIDE DEF f8
  <2> QED
    BY <1>1, <1>2, <1>12, <2>1
<1> HIDE DEF f8
<1>14. f9 \in Seq(Byte) /\ Len(f9) = 11 + I + M + E
  BY <1>1, <1>5, <1>13 DEF E
<1> HIDE DEF f9
<1>15. fa \in Seq(Byte) /\ Len(fa) = 11 + I + M + E + D
  BY <1>1, <1>5, <1>14 DEF D
<1> HIDE DEF fa
<1>16. fb \in Seq(Byte) /\ Len(fb) = 12 + I + M + E + D
  <2> DEFINE e == <<END>>
  <2>1. e \in Seq(Byte) /\ Len(e) = 1
    BY <1>3
  <2>2. fb \in Seq(Byte) /\ Len(fb) = Len(fa) + Len(e)
    BY <1>5, <1>15, <2>1
  <2> HIDE DEF e, fb
  <2> QED
    BY <1>1, <1>15, <2>1, <2>2
<1>17. ASSUME NEW a, NEW p \in Nat, Holds(a, p, fb)
      PROVE  /\ a[p + 1] = START
             /\ Holds(a, p + 1, NetInt(N))
             /\ Holds(a, p + 3, NetInt(I))
             /\ Holds(a, p + 5, m.mMsgId)
             /\ Holds(a, p + 5 + I, NetInt(M))
             /\ Holds(a, p + 7 + I, m.mMethodName)
             /\ Holds(a, p + 7 + I + M, NetInt(m.mErrCode))
             /\ Holds(a, p + 9 + I + M, NetInt(E))
             /\ Holds(a, p + 11 + I + M, m.mErrInfo)
             /\ Holds(a, p + 11 + I + M + E, m.mPbData)
             /\ a[p + (12 + I + M + E + D)] = END
  <2>1. Holds(a, p, fa) /\ Holds(a, p + Len(fa), <<END>>)
    BY <1>3, <1>17, <1>15, HoldsBoth
  <2>2. Holds(a, p, f9) /\ Holds(a, p + Len(f9), m.mPbData)
    BY <1>1, <2>1, <1>14, HoldsBoth DEF fa
  <2>3. Holds(a, p, f8) /\ Holds(a, p + Len(f8), m.mErrInfo)
    BY <1>1, <2>2, <1>13, HoldsBoth DEF f9
  <2>4. Holds(a, p, f7) /\ Holds(a, p + Len(f7), NetInt(E))
    BY <1>1, <1>2, <2>3, <1>12, HoldsBoth DEF f8
  <2>5. Holds(a, p, f6) /\ Holds(a, p + Len(f6), NetInt(m.mErrCode))
    BY <1>1, <1>2, <2>4, <1>11, HoldsBoth DEF f7
  <2>6. Holds(a, p, f5) /\ Holds(a, p + Len(f5), m.mMethodName)
    BY <1>1, <2>5, <1>10, HoldsBoth DEF f6
  <2>7. Holds(a, p, f4) /\ Holds(a, p + Len(f4), NetInt(M))
    BY <1>1, <1>2, <2>6, <1>9, HoldsBoth DEF f5
  <2>8. Holds(a, p, f3) /\ Holds(a, p + Len(f3), m.mMsgId)
    BY <1>1, <2>7, <1>8, HoldsBoth DEF f4
  <2>9. Holds(a, p, f2) /\ Holds(a, p + Len(f2), NetInt(I))
    BY <1>1, <1>2, <2>8, <1>7, HoldsBoth DEF f3
  <2>10. Holds(a, p, f1) /\ Holds(a, p + Len(f1), NetInt(N))
    BY <1>1, <1>2, <2>9, <1>6, HoldsBoth DEF f2
  <2>11. a[p + 1] = START
    BY <2>10, <1>3 DEF Holds, f1
  <2>12. a[p + Len(fa) + 1] = END
    BY <2>1, <1>3 DEF Holds
  <2>13. a[p + (12 + I + M + E + D)] = END
    <3>1. p + Len(fa) + 1 = p + (12 + I + M + E + D)
      BY <1>1, <1>15
    <3> QED
      BY <2>12, <3>1
  <2>14. /\ p + Len(f1) = p + 1 /\ p + Len(f2) = p + 3 /\ p + Len(f3) = p + 5
        /\ p + Len(f4) = p + 5 + I /\ p + Len(f5) = p + 7 + I /\ p + Len(f6) = p + 7 + I + M
        /\ p + Len(f7) = p + 9 + I + M /\ p + Len(f8) = p + 11 + I + M
        /\ p + Len(f9) = p + 11 + I + M + E
    BY <1>1, <1>6, <1>7, <1>8, <1>9, <1>10, <1>11, <1>12, <1>13, <1>14
  <2> QED
    BY <2>10, <2>9, <2>8, <2>7, <2>6, <2>5, <2>4, <2>3, <2>2, <2>11, <2>13, <2>14
<1> HIDE DEF fb
<1>18. Len(Frame(m)) = N
  BY <1>1, <1>4, <1>16
<1> DEFINE L == Len(Frame(m))
<1>19. ASSUME NEW a, NEW p \in Nat, Holds(a, p, Frame(m))
       PROVE  /\ a[p + 1] = START
              /\ Holds(a, p + 1, NetInt(L))
              /\ Holds(a, p + 3, NetInt(I))
              /\ Holds(a, p + 5, m.mMsgId)
              /\ Holds(a, p + 5 + I, NetInt(M))
              /\ Holds(a, p + 7 + I, m.mMethodName)
              /\ Holds(a, p + 7 + I + M, NetInt(m.mErrCode))
              /\ Holds(a, p + 9 + I + M, NetInt(E))
              /\ Holds(a, p + 11 + I + M, m.mErrInfo)
              /\ Holds(a, p + 11 + I + M + E, m.mPbData)
              /\ a[p + L] = END
  <2>1. Holds(a, p, fb)
    BY <1>4, <1>19
  <2>2. 12 + I + M + E + D = L /\ N = L
    BY <1>1, <1>18
  <2> HIDE DEF L
  <2>3. a[p + L] = END /\ Holds(a, p + 1, NetInt(L))
    BY <1>17, <2>1, <2>2
  <2> QED
    BY <1>17, <2>1, <2>3
<1> QED
  BY <1>1, <1>4, <1>16, <1>18, <1>19 DEF I, M, E, D

-----------------------------------------------------------------------------
(***************************************************************************)
(* The frames of a sequence of messages.                                   *)
(***************************************************************************)
\* Bytes that are put one behind the other may be taken together in any way.
LEMMA Associative ==
  \A s \in Seq(Byte), t \in Seq(Byte), u \in Seq(Byte) : (s \o t) \o u = s \o (t \o u)
BY ConcatAssociative

\* They are bytes, and none without messages.
LEMMA FramesSeq ==
  ASSUME NEW ms \in Seq(TinyPBProtocol)
  PROVE  Frames(ms) \in Seq(Byte) /\ Frames(<<>>) = <<>>
<1> DEFINE q == [i \in DOMAIN ms |-> Frame(ms[i])]
<1>1. \A n \in TinyPBProtocol : Frame(n) \in Seq(Byte)
  BY FrameFacts
<1>2. DOMAIN ms = 1 .. Len(ms) /\ \A i \in 1 .. Len(ms) : ms[i] \in TinyPBProtocol
  BY LenProperties
<1>3. q \in Seq(Seq(Byte))
  BY <1>1, <1>2
<1> HIDE DEF q
<1>4. <<>> \in Seq(Byte)
  BY EmptySeq
<1>5. FlattenSeq(<<>>) = <<>> /\ FlattenSeq(q) \in Seq(Byte)
  BY <1>3, <1>4, FlattenAppend
<1>6. [i \in DOMAIN <<>> |-> Frame(<<>>[i])] = <<>>
  OBVIOUS
<1> QED
  BY <1>5, <1>6 DEF Frames, q

\* The frame of one message more is put behind the others.
LEMMA FramesAppend ==
  ASSUME NEW ms \in Seq(TinyPBProtocol), NEW m \in TinyPBProtocol
  PROVE  Frames(Append(ms, m)) = Frames(ms) \o Frame(m)
<1> DEFINE q == [i \in DOMAIN ms |-> Frame(ms[i])]
           p == [i \in DOMAIN Append(ms, m) |-> Frame(Append(ms, m)[i])]
<1>1. \A n \in TinyPBProtocol : Frame(n) \in Seq(Byte)
  BY FrameFacts
<1>2. /\ Append(ms, m) \in Seq(TinyPBProtocol)
      /\ Len(Append(ms, m)) = Len(ms) + 1 /\ Len(ms) \in Nat
      /\ \A i \in 1 .. Len(ms) : Append(ms, m)[i] = ms[i]
      /\ Append(ms, m)[Len(ms) + 1] = m
  BY AppendProperties
<1>3. /\ DOMAIN ms = 1 .. Len(ms) /\ DOMAIN Append(ms, m) = 1 .. Len(ms) + 1
      /\ \A i \in 1 .. Len(ms) : ms[i] \in TinyPBProtocol
      /\ \A i \in 1 .. Len(ms) + 1 : Append(ms, m)[i] \in TinyPBProtocol
  BY <1>2, LenProperties
<1>4. q \in Seq(Seq(Byte)) /\ Len(q) = Len(ms) /\ \A i \in 1 .. Len(ms) : q[i] = Frame(ms[i])
  BY <1>1, <1>2, <1>3
<1>5. /\ p \in Seq(Seq(Byte)) /\ Len(p) = Len(ms) + 1
      /\ \A i \in 1 .. Len(ms) + 1 : p[i] = Frame(Append(ms, m)[i])
  BY <1>1, <1>2, <1>3
<1> HIDE DEF q, p
<1>6. p = Append(q, Frame(m))
  <2>1. /\ Append(q, Frame(m)) \in Seq(Seq(Byte))
        /\ Len(Append(q, Frame(m))) = Len(ms) + 1
        /\ \A i \in 1 .. Len(ms) : Append(q, Frame(m))[i] = q[i]
        /\ Append(q, Frame(m))[Len(ms) + 1] = Frame(m)
    BY <1>1, <1>4, AppendProperties
  <2>2. \A i \in 1 .. Len(ms) + 1 : p[i] = Append(q, Frame(m))[i]
    <3> TAKE i \in 1 .. Len(ms) + 1
    <3>1. i \in 1 .. Len(ms) \/ i = Len(ms) + 1
      BY <1>2
    <3> QED
      BY <1>2, <1>4, <1>5, <2>1, <3>1
  <2> QED
    BY <1>5, <2>1, <2>2, SeqEqual
<1>7. FlattenSeq(Append(q, Frame(m))) = FlattenSeq(q) \o Frame(m)
  BY <1>1, <1>4, FlattenAppend
<1> QED
  BY <1>6, <1>7 DEF Frames, p, q

\* The frames of two sequences, one behind the other.
LEMMA FramesConcat ==
  ASSUME NEW ms \in Seq(TinyPBProtocol), NEW ns \in Seq(TinyPBProtocol)
  PROVE  Frames(ms \o ns) = Frames(ms) \o Frames(ns)
<1> DEFINE T == {n \in Nat : \A s \in Seq(TinyPBProtocol) :
                              Len(s) = n => Frames(ms \o s) = Frames(ms) \o Frames(s)}
<1>1. 0 \in T
  <2>1. \A s \in Seq(TinyPBProtocol) : Len(s) = 0 => s = <<>>
    OBVIOUS
  <2>2. ms \o <<>> = ms /\ Frames(ms) \o Frames(<<>>) = Frames(ms)
    BY FramesSeq, ConcatEmptySeq
  <2> QED
    BY <2>1, <2>2
<1>2. ASSUME NEW n \in T
      PROVE  n + 1 \in T
  <2> SUFFICES ASSUME NEW s \in Seq(TinyPBProtocol), Len(s) = n + 1
               PROVE  Frames(ms \o s) = Frames(ms) \o Frames(s)
    <3>1. n + 1 \in Nat
      OBVIOUS
    <3> QED
      BY <3>1, Zenon
  <2>1. PICK r \in Seq(TinyPBProtocol), m \in TinyPBProtocol : s = Append(r, m)
    <3>1. s # <<>>
      OBVIOUS
    <3> QED
      BY <3>1, SequenceEmptyOrAppend
  <2>2. Len(r) = n
    BY <2>1, AppendProperties
  <2>3. Frames(ms \o r) = Frames(ms) \o Frames(r)
    BY <2>2
  <2>4. ms \o s = Append(ms \o r, m) /\ ms \o r \in Seq(TinyPBProtocol)
    <3>1. <<m>> \in Seq(TinyPBProtocol)
      OBVIOUS
    <3>2. ms \o r \in Seq(TinyPBProtocol)
      BY ConcatProperties
    <3>3. s = r \o <<m>> /\ Append(ms \o r, m) = (ms \o r) \o <<m>>
      BY <2>1, <3>2, AppendIsConcat
    <3> QED
      BY <3>1, <3>2, <3>3, ConcatAssociative
  <2>5. /\ Frames(ms \o s) = Frames(ms \o r) \o Frame(m)
        /\ Frames(s) = Frames(r) \o Frame(m)
    BY <2>1, <2>4, FramesAppend
  <2>6. Frames(ms) \in Seq(Byte) /\ Frames(r) \in Seq(Byte) /\ Frame(m) \in Seq(Byte)
    BY FramesSeq, FrameFacts
  <2>7. (Frames(ms) \o Frames(r)) \o Frame(m) = Frames(ms) \o (Frames(r) \o Frame(m))
    BY <2>6, Associative
  <2> QED
    BY <2>3, <2>5, <2>7
<1> HIDE DEF T
<1>3. T = Nat
  <2>1. T \in SUBSET Nat
    BY DEF T
  <2> QED
    BY <1>1, <1>2, <2>1, Induct
<1>4. Len(ns) \in T
  BY <1>3
<1> QED
  BY <1>4 DEF T

\* The first frame, and the others behind it.
LEMMA FramesFirst ==
  ASSUME NEW ms \in Seq(TinyPBProtocol), ms # <<>>
  PROVE  Frames(ms) = Frame(ms[1]) \o Frames(SubSeq(ms, 2, Len(ms)))
<1> DEFINE r == SubSeq(ms, 2, Len(ms))
<1>1. Len(ms) \in Nat /\ Len(ms) >= 1 /\ ms[1] \in TinyPBProtocol
  BY EmptySeq
<1>2. r \in Seq(TinyPBProtocol) /\ ms = <<ms[1]>> \o r
  <2>1. 1 \in 1 .. Len(ms) /\ Len(ms) \in 1 .. Len(ms)
    BY <1>1
  <2>2. SubSeq(ms, 1, Len(ms)) = <<ms[1]>> \o SubSeq(ms, 1 + 1, Len(ms))
    BY <2>1, SubSeqRecursiveFirst
  <2>3. SubSeq(ms, 1, Len(ms)) = ms
    BY SubSeqFull
  <2>4. r \in Seq(TinyPBProtocol)
    BY <1>1
  <2> QED
    BY <2>2, <2>3, <2>4
<1> HIDE DEF r
<1>3. Frames(<<ms[1]>>) = Frame(ms[1])
  <2>1. <<>> \in Seq(TinyPBProtocol) /\ Append(<<>>, ms[1]) = <<ms[1]>>
    OBVIOUS
  <2>2. Frames(<<ms[1]>>) = Frames(<<>>) \o Frame(ms[1])
    BY <1>1, <2>1, FramesAppend
  <2> QED
    BY <1>1, <2>1, <2>2, FramesSeq, FrameFacts, ConcatEmptySeq
<1>4. <<ms[1]>> \in Seq(TinyPBProtocol)
  BY <1>1
<1>5. Frames(<<ms[1]>> \o r) = Frames(<<ms[1]>>) \o Frames(r)
  BY <1>2, <1>4, FramesConcat
<1> QED
  BY <1>2, <1>3, <1>5 DEF r

-----------------------------------------------------------------------------
(***************************************************************************)
(* A buffer into which messages are encoded.                               *)
(***************************************************************************)
\* The function that Encode defines exists for every sequence.
LEMMA EncodeIs ==
  ASSUME NEW ms \in Seq(TinyPBProtocol), NEW b
  PROVE  \E f : /\ f = [i \in 0 .. Len(ms) |->
                          IF i = 0 THEN b ELSE WriteToBuffer(f[i - 1], Frame(ms[i]))]
                /\ Encode(ms, b) = f[Len(ms)]
<1> DEFINE Rec(n, f) == f = [i \in 0 .. n |->
                               IF i = 0 THEN b ELSE WriteToBuffer(f[i - 1], Frame(ms[i]))]
           T == {n \in Nat : \E f : Rec(n, f)}
<1>1. 0 \in T
  <2>1. Rec(0, [i \in 0 .. 0 |-> b])
    OBVIOUS
  <2> QED
    BY <2>1
<1>2. ASSUME NEW n \in Nat, NEW f, Rec(n, f)
      PROVE  \E g : Rec(n + 1, g)
  <2> DEFINE g == [i \in 0 .. n + 1 |-> IF i = n + 1 THEN WriteToBuffer(f[n], Frame(ms[i])) ELSE f[i]]
  <2>1. \A i \in 0 .. n + 1 : g[i] = IF i = 0 THEN b ELSE WriteToBuffer(g[i - 1], Frame(ms[i]))
    <3> TAKE i \in 0 .. n + 1
    <3>1. CASE i = n + 1
      <4>1. i # 0 /\ i - 1 = n /\ n \in 0 .. n + 1 /\ n # n + 1
        BY <3>1
      <4>2. g[i] = WriteToBuffer(f[n], Frame(ms[i])) /\ g[n] = f[n]
        BY <3>1, <4>1
      <4> HIDE DEF g
      <4> QED
        BY <4>1, <4>2
    <3>2. CASE i # n + 1
      <4>1. i \in 0 .. n
        BY <3>2
      <4>2. i # 0 => i - 1 \in 0 .. n + 1 /\ i - 1 # n + 1
        BY <3>2
      <4>3. f[i] = IF i = 0 THEN b ELSE WriteToBuffer(f[i - 1], Frame(ms[i]))
        BY <1>2, <4>1
      <4>4. g[i] = f[i] /\ (i # 0 => g[i - 1] = f[i - 1])
        BY <3>2, <4>2
      <4> HIDE DEF g
      <4> QED
        BY <4>3, <4>4
    <3> QED
      BY <3>1, <3>2
  <2>2. g = [i \in 0 .. n + 1 |-> g[i]]
    OBVIOUS
  <2> HIDE DEF g
  <2>3. Rec(n + 1, g)
    BY <2>1, <2>2
  <2> QED
    BY <2>3
<1> HIDE DEF Rec
<1>3. T \in SUBSET Nat /\ \A n \in T : n + 1 \in T
  BY <1>2
<1>4. T = Nat
  BY <1>1, <1>3, Induct
<1>5. Len(ms) \in Nat
  OBVIOUS
<1>6. \E f : Rec(Len(ms), f)
  BY <1>4, <1>5
<1>7. Encode(ms, b) = (CHOOSE f : Rec(Len(ms), f))[Len(ms)]
  BY DEF Encode, Rec
<1>8. Rec(Len(ms), CHOOSE f : Rec(Len(ms), f))
  BY <1>6
<1> QED
  BY <1>7, <1>8 DEF Rec

\* Encode puts the frames of the messages at the back of a buffer.
LEMMA EncodeFacts ==
  ASSUME NEW ms \in Seq(TinyPBProtocol), NEW b, Sound(b)
  PROVE  Sound(Encode(ms, b)) /\ Contents(Encode(ms, b)) = Contents(b) \o Frames(ms)
<1>1. PICK f : /\ f = [i \in 0 .. Len(ms) |->
                         IF i = 0 THEN b ELSE WriteToBuffer(f[i - 1], Frame(ms[i]))]
               /\ Encode(ms, b) = f[Len(ms)]
  BY EncodeIs
<1>2. \A i \in 0 .. Len(ms) : f[i] = IF i = 0 THEN b ELSE WriteToBuffer(f[i - 1], Frame(ms[i]))
  BY <1>1
<1> DEFINE T == {n \in Nat : n <= Len(ms) =>
                   Sound(f[n]) /\ Contents(f[n]) = Contents(b) \o Frames(SubSeq(ms, 1, n))}
<1>3. Contents(b) \in Seq(Byte) /\ Len(ms) \in Nat
  BY ContentsFacts DEF Sound
<1>4. 0 \in T
  <2>1. f[0] = b
    BY <1>2, <1>3
  <2>2. SubSeq(ms, 1, 0) = <<>>
    BY SubSeqEmpty
  <2>3. Contents(b) \o Frames(SubSeq(ms, 1, 0)) = Contents(b)
    BY <1>3, <2>2, FramesSeq, ConcatEmptySeq
  <2> QED
    BY <2>1, <2>3
<1>5. \A n \in T : n + 1 \in T
  <2> SUFFICES ASSUME NEW n \in T PROVE n + 1 \in T
    OBVIOUS
  <2> SUFFICES ASSUME n + 1 <= Len(ms)
               PROVE  /\ Sound(f[n + 1])
                      /\ Contents(f[n + 1]) = Contents(b) \o Frames(SubSeq(ms, 1, n + 1))
    OBVIOUS
  <2> DEFINE k == n + 1
             r == SubSeq(ms, 1, n)
             m == ms[n + 1]
  <2>1. n \in Nat /\ n <= Len(ms) /\ k \in 0 .. Len(ms) /\ k \in 1 .. Len(ms) /\ k # 0 /\ k - 1 = n
    BY <1>3
  <2>2. Sound(f[n]) /\ Contents(f[n]) = Contents(b) \o Frames(r)
    BY <2>1
  <2>3. f[k] = WriteToBuffer(f[n], Frame(m))
    BY <1>2, <2>1
  <2>4. m \in TinyPBProtocol /\ Frame(m) \in Seq(Byte)
    <3>1. m \in TinyPBProtocol
      BY <2>1
    <3> QED
      BY <3>1, FrameFacts
  <2>5. SubSeq(ms, 1, k) = Append(r, m) /\ r \in Seq(TinyPBProtocol)
    <3>1. SubSeq(ms, 1, k) = SubSeq(ms, 1, k - 1) \o <<ms[k]>>
      <4>1. 1 \in 1 .. Len(ms) /\ k \in 1 .. Len(ms)
        BY <2>1
      <4> QED
        BY <4>1, SubSeqRecursiveSecond
    <3>2. r \in Seq(TinyPBProtocol)
      BY <2>1
    <3> QED
      BY <2>1, <2>4, <3>1, <3>2, AppendIsConcat
  <2>6. Frames(r) \in Seq(Byte) /\ Frames(SubSeq(ms, 1, k)) = Frames(r) \o Frame(m)
    BY <2>4, <2>5, FramesSeq, FramesAppend
  <2> HIDE DEF r, m, k
  <2>7. /\ Sound(f[k]) /\ Contents(f[k]) = (Contents(b) \o Frames(r)) \o Frame(m)
    BY <2>2, <2>3, <2>4, WriteFacts
  <2>8. Contents(f[k]) = Contents(b) \o Frames(SubSeq(ms, 1, k))
    <3>1. (Contents(b) \o Frames(r)) \o Frame(m) = Contents(b) \o (Frames(r) \o Frame(m))
      BY <1>3, <2>4, <2>6, Associative
    <3> QED
      BY <2>6, <2>7, <3>1
  <2> QED
    BY <2>7, <2>8 DEF k
<1> HIDE DEF T
<1>6. T = Nat
  <2>1. T \in SUBSET Nat
    BY DEF T
  <2> QED
    BY <1>4, <1>5, <2>1, Induct
<1>7. Len(ms) \in T
  BY <1>3, <1>6
<1>8. SubSeq(ms, 1, Len(ms)) = ms /\ Len(ms) <= Len(ms)
  BY <1>3, SubSeqFull
<1>9. Sound(f[Len(ms)]) /\ Contents(f[Len(ms)]) = Contents(b) \o Frames(ms)
  BY <1>7, <1>8 DEF T
<1> QED
  BY <1>1, <1>9

-----------------------------------------------------------------------------
(***************************************************************************)
(* One round of Decode's loop.                                             *)
(***************************************************************************)
\* The cells of the array are bytes, and one with something in it is before
\* the write index.
LEMMA AtFacts ==
  ASSUME NEW b, Sound(b)
  PROVE  /\ \A i : At(b, i) \in 0 .. Base - 1 /\ GetInt32(b, i) \in Nat
         /\ \A i : At(b, i) # 0 => i \in 0 .. b.mWriteIndex - 1
         /\ \A i \in 0 .. Size(b) - 1 : At(b, i) = b.mBuffer[i + 1]
         /\ b.mReadIndex \in Nat /\ b.mWriteIndex \in Nat /\ Size(b) \in Nat
         /\ b.mReadIndex <= b.mWriteIndex /\ b.mWriteIndex <= Size(b)
         /\ \A i \in 1 .. Size(b) : b.mBuffer[i] \in 0 .. Base - 1
         /\ ReadAble(b) = b.mWriteIndex - b.mReadIndex
         /\ Starts(b) \in SUBSET Nat /\ Matches(b) \in SUBSET Nat
<1>1. /\ Base \in Nat /\ Base > 1 /\ Byte = 0 .. Base - 1 /\ Zero = 0
  BY CoderAssumption
<1>2. /\ b.mReadIndex \in Nat /\ b.mWriteIndex \in Nat /\ Size(b) \in Nat
      /\ b.mReadIndex <= b.mWriteIndex /\ b.mWriteIndex <= Size(b)
      /\ ReadAble(b) = b.mWriteIndex - b.mReadIndex
      /\ \A i \in b.mWriteIndex + 1 .. Size(b) : b.mBuffer[i] = 0
      /\ b.mBuffer \in Seq(0 .. Base - 1) /\ Len(b.mBuffer) = Size(b)
  BY <1>1 DEF Sound, Loose, Size, ReadAble
<1>3. \A i \in 1 .. Size(b) : b.mBuffer[i] \in 0 .. Base - 1
  BY <1>2, ElementOfSeq
<1>4. \A i \in 0 .. Size(b) - 1 : At(b, i) = b.mBuffer[i + 1]
  BY DEF At
<1>5. \A i : i \notin 0 .. Size(b) - 1 => At(b, i) = 0
  BY <1>1 DEF At
<1>6. ASSUME NEW i \in 0 .. Size(b) - 1
      PROVE  At(b, i) \in 0 .. Base - 1 /\ (At(b, i) # 0 => i \in 0 .. b.mWriteIndex - 1)
  <2>1. i + 1 \in 1 .. Size(b)
    BY <1>2
  <2>2. b.mBuffer[i + 1] \in 0 .. Base - 1
    BY <1>3, <2>1
  <2>3. b.mBuffer[i + 1] # 0 => i + 1 <= b.mWriteIndex
    BY <1>2, <2>1
  <2> QED
    BY <1>2, <1>4, <2>2, <2>3
<1>7. \A i : At(b, i) \in 0 .. Base - 1
  BY <1>1, <1>5, <1>6
<1>8. \A i : At(b, i) # 0 => i \in 0 .. b.mWriteIndex - 1
  BY <1>5, <1>6
<1>9. ASSUME NEW i PROVE GetInt32(b, i) \in Nat
  <2>1. At(b, i) \in Nat /\ At(b, i + 1) \in Nat
    BY <1>1, <1>7
  <2> QED
    BY <1>1, <2>1 DEF GetInt32
<1>10. Starts(b) \in SUBSET Nat /\ Matches(b) \in SUBSET Nat
  BY <1>2 DEF Starts, Matches
<1> QED
  BY <1>2, <1>4, <1>7, <1>8, <1>9, <1>10, <1>3

\* An integer in the array is read back.
LEMMA IntHeld ==
  ASSUME NEW b, Sound(b), NEW p \in Nat, p + 2 <= Size(b),
         NEW n \in Nat, n < Base * Base, Holds(b.mBuffer, p, NetInt(n))
  PROVE  GetInt32(b, p) = n
<1>1. Len(NetInt(n)) = 2 /\ Base * NetInt(n)[1] + NetInt(n)[2] = n
  BY NetIntFacts DEF IntLen
<1>2. b.mBuffer[p + 1] = NetInt(n)[1] /\ b.mBuffer[p + 2] = NetInt(n)[2]
  BY <1>1 DEF Holds
<1>3. At(b, p) = b.mBuffer[p + 1] /\ At(b, p + 1) = b.mBuffer[p + 2]
  <2>1. p \in 0 .. Size(b) - 1 /\ p + 1 \in 0 .. Size(b) - 1 /\ p + 1 + 1 = p + 2
    BY AtFacts
  <2> QED
    BY <2>1, AtFacts
<1> QED
  BY <1>1, <1>2, <1>3 DEF GetInt32

\* And so is a string.
LEMMA BytesHeld ==
  ASSUME NEW b, Sound(b), NEW p \in Nat, NEW s \in Seq(Byte), p + Len(s) <= Size(b),
         Holds(b.mBuffer, p, s)
  PROVE  Bytes(b, p, p + Len(s)) = s
<1> DEFINE a == b.mBuffer
           n == Len(s)
<1>1. n \in Nat /\ \A i \in 1 .. n : a[p + i] = s[i] /\ s[i] \in Byte
  BY DEF Holds
<1>2. \A i \in p + 1 .. p + n : a[i] \in Byte
  <2> TAKE i \in p + 1 .. p + n
  <2>1. i - p \in 1 .. n /\ p + (i - p) = i
    BY <1>1
  <2> QED
    BY <1>1, <2>1
<1> HIDE DEF a, n
<1> DEFINE f == p + 1
           l == p + n
           q == SubSeq(a, f, l)
<1>3. /\ q \in Seq(Byte)
      /\ Len(q) = IF f <= l THEN l - f + 1 ELSE 0
      /\ \A i \in 1 .. l - f + 1 : q[i] = a[f + i - 1]
  <2>1. f \in Int /\ l \in Int /\ \A i \in f .. l : a[i] \in Byte
    BY <1>1, <1>2
  <2> HIDE DEF f, l
  <2> QED
    BY <2>1, SubSeqProperties
<1>4. l - f + 1 = n /\ (f <= l \/ n = 0)
  BY <1>1
<1> HIDE DEF q
<1>5. Len(q) = n
  BY <1>1, <1>3, <1>4
<1>6. \A i \in 1 .. n : q[i] = s[i]
  <2> TAKE i \in 1 .. n
  <2>1. f + i - 1 = p + i
    BY <1>1
  <2> HIDE DEF f, l
  <2> QED
    BY <1>1, <1>3, <1>4, <2>1
<1>7. q = s
  BY <1>3, <1>5, <1>6, SeqEqual DEF n
<1> QED
  BY <1>7 DEF Bytes, a, n, q

\* What is read from the array, inside of it, are bytes.
LEMMA BytesFacts ==
  ASSUME NEW b, Sound(b), NEW from \in Nat, NEW to \in Nat, to <= Size(b)
  PROVE  Bytes(b, from, to) \in Seq(Byte)
<1>1. (\A i \in 1 .. Size(b) : b.mBuffer[i] \in Byte) /\ Size(b) \in Nat
  BY AtFacts, CoderAssumption
<1>2. \A i \in from + 1 .. to : b.mBuffer[i] \in Byte
  BY <1>1
<1>3. SubSeq(b.mBuffer, from + 1, to) \in Seq(Byte)
  <2>1. from + 1 \in Int /\ to \in Int
    OBVIOUS
  <2> QED
    BY <1>2, <2>1, SubSeqProperties
<1> QED
  BY <1>3 DEF Bytes

\* The indexes of Layout, one after the other.
LEMMA LayoutFacts ==
  ASSUME NEW b
  PROVE  /\ Layout(b)[1] = startIndex(b) + 1 + IntLen
         /\ Layout(b)[2] = Layout(b)[1] + IntLen + GetInt32(b, Layout(b)[1])
         /\ Layout(b)[3] = Layout(b)[2] + IntLen + GetInt32(b, Layout(b)[2])
         /\ Layout(b)[4] = Layout(b)[3] + IntLen
         /\ Layout(b)[5] = Layout(b)[4] + IntLen + GetInt32(b, Layout(b)[4])
BY DEF Layout

\* Whatever a round takes for a message is one, and what it takes it from is a
\* sound buffer still.
LEMMA DecodedFacts ==
  ASSUME NEW b, Sound(b), Parses(b), Layout(b)[5] <= endIndex(b)
  PROVE  /\ Message(b) \in TinyPBProtocol
         /\ Sound(Consumed(b)) /\ Size(Consumed(b)) = Size(b)
         /\ startIndex(b) \in Starts(b)
         /\ endIndex(b) \in Nat /\ endIndex(b) < b.mWriteIndex
<1>1. startIndex(b) \in Matches(b)
  BY AtFacts, MinIn DEF Parses, parseSuccess, startIndex
<1>2. /\ startIndex(b) \in Starts(b) /\ startIndex(b) \in Nat
      /\ At(b, endIndex(b)) = END
  BY <1>1, AtFacts DEF Matches, endIndex
<1>3. endIndex(b) \in 0 .. b.mWriteIndex - 1
  BY <1>2, AtFacts, CoderAssumption
<1>4. /\ endIndex(b) \in Nat /\ endIndex(b) < b.mWriteIndex /\ endIndex(b) <= Size(b)
      /\ Size(b) \in Nat
  BY <1>3, AtFacts
<1> DEFINE at == Layout(b)
<1>5. /\ at[1] = startIndex(b) + 1 + 2
      /\ at[2] = at[1] + 2 + GetInt32(b, at[1])
      /\ at[3] = at[2] + 2 + GetInt32(b, at[2])
      /\ at[4] = at[3] + 2
      /\ at[5] = at[4] + 2 + GetInt32(b, at[4])
  BY LayoutFacts DEF IntLen
<1>6. /\ at[1] < endIndex(b) /\ at[2] < endIndex(b) /\ at[3] < endIndex(b)
      /\ at[4] < endIndex(b) /\ at[5] <= endIndex(b)
  <2>1. \A k \in 1 .. 4 : Layout(b)[k] < endIndex(b)
    BY DEF Parses
  <2> QED
    BY <2>1
<1> HIDE DEF at
<1>7. /\ GetInt32(b, at[1]) \in Nat /\ GetInt32(b, at[2]) \in Nat /\ GetInt32(b, at[3]) \in Nat
      /\ GetInt32(b, at[4]) \in Nat
  BY AtFacts
<1>8. at[1] \in Nat /\ at[2] \in Nat /\ at[3] \in Nat /\ at[4] \in Nat /\ at[5] \in Nat
  BY <1>2, <1>5, <1>7
<1>9. Message(b) \in TinyPBProtocol
  <2> DEFINE i == Bytes(b, at[1] + IntLen, at[2])
             n == Bytes(b, at[2] + IntLen, at[3])
             e == Bytes(b, at[4] + IntLen, at[5])
             d == Bytes(b, at[5], endIndex(b))
             c == GetInt32(b, at[3])
  <2>1. /\ at[1] + IntLen \in Nat /\ at[2] + IntLen \in Nat /\ at[4] + IntLen \in Nat
        /\ at[2] <= Size(b) /\ at[3] <= Size(b) /\ at[5] <= Size(b)
    BY <1>4, <1>6, <1>8 DEF IntLen
  <2>2. i \in Seq(Byte) /\ n \in Seq(Byte) /\ e \in Seq(Byte) /\ d \in Seq(Byte) /\ c \in Nat
    BY <1>4, <1>7, <1>8, <2>1, BytesFacts
  <2>3. Message(b) = [mMsgId |-> i, mMethodName |-> n, mErrCode |-> c, mErrInfo |-> e, mPbData |-> d]
    BY DEF Message, at
  <2> HIDE DEF i, n, e, d, c
  <2> QED
    BY <2>2, <2>3 DEF TinyPBProtocol
<1>10. Sound(Consumed(b)) /\ Size(Consumed(b)) = Size(b)
  <2>1. endIndex(b) - startIndex(b) + 1 \in Nat
    BY <1>2, <1>4, <1>5, <1>6
  <2> QED
    BY <2>1, MoveReadFacts DEF Consumed
<1> QED
  BY <1>2, <1>4, <1>9, <1>10

\* What is in a buffer is in its array from the read index on.
LEMMA ContentsHeld ==
  ASSUME NEW b, Sound(b)
  PROVE  Holds(b.mBuffer, b.mReadIndex, Contents(b))
BY ContentsFacts DEF Holds, Sound

\* Without its first part, a sequence is what is behind it.
LEMMA SuffixIs ==
  ASSUME NEW s \in Seq(Byte), NEW t \in Seq(Byte)
  PROVE  SubSeq(s \o t, Len(s) + 1, Len(s \o t)) = t
<1> DEFINE q == s \o t
           x == SubSeq(q, Len(s) + 1, Len(q))
<1>1. /\ q \in Seq(Byte) /\ Len(q) = Len(s) + Len(t) /\ Len(s) \in Nat /\ Len(t) \in Nat
      /\ \A i \in 1 .. Len(s) + Len(t) : q[i] = IF i <= Len(s) THEN s[i] ELSE t[i - Len(s)]
  BY ConcatProperties
<1> HIDE DEF q
<1>2. x \in Seq(Byte) /\ Len(x) = Len(t) /\ \A i \in 1 .. Len(t) : x[i] = q[Len(s) + i]
  BY <1>1
<1> HIDE DEF x
<1>3. \A i \in 1 .. Len(t) : x[i] = t[i]
  <2> TAKE i \in 1 .. Len(t)
  <2> DEFINE k == Len(s) + i
  <2>1. k \in 1 .. Len(s) + Len(t) /\ ~(k <= Len(s)) /\ k - Len(s) = i
    BY <1>1
  <2>2. x[i] = q[k]
    BY <1>2
  <2> HIDE DEF k
  <2> QED
    BY <1>1, <2>1, <2>2
<1>4. x = t
  BY <1>2, <1>3, SeqEqual
<1> QED
  BY <1>4 DEF x, q

\* One behind the other, two sequences are as long as both.
LEMMA Lengths ==
  \A s \in Seq(Byte), t \in Seq(Byte) :
    s \o t \in Seq(Byte) /\ Len(s \o t) = Len(s) + Len(t)
BY ConcatProperties

\* A sequence is its first n bytes and those behind them.
LEMMA Halves ==
  ASSUME NEW q \in Seq(Byte), NEW n \in Nat, n <= Len(q)
  PROVE  /\ SubSeq(q, 1, n) \in Seq(Byte) /\ Len(SubSeq(q, 1, n)) = n
         /\ SubSeq(q, n + 1, Len(q)) \in Seq(Byte)
         /\ SubSeq(q, 1, n) \o SubSeq(q, n + 1, Len(q)) = q
<1> DEFINE s == SubSeq(q, 1, n)
           t == SubSeq(q, n + 1, Len(q))
<1>1. Len(q) \in Nat
  OBVIOUS
<1>2. s \in Seq(Byte) /\ Len(s) = n
  BY <1>1
<1>3. t \in Seq(Byte)
  <2>1. n + 1 \in Int /\ Len(q) \in Int /\ \A i \in n + 1 .. Len(q) : q[i] \in Byte
    BY <1>1
  <2> QED
    BY <2>1, SubSeqProperties
<1>4. s \o t = q
  <2>1. 1 \in 1 .. Len(q) + 1 /\ n \in 1 - 1 .. Len(q) /\ Len(q) \in n .. Len(q)
    BY <1>1
  <2>2. s \o t = SubSeq(q, 1, Len(q))
    BY <2>1, ConcatAdjacentSubSeq
  <2> QED
    BY <2>2, SubSeqFull
<1> QED
  BY <1>2, <1>3, <1>4

\* The bytes of s \o t = u \o v that are both in s and in v.
Common(s, t, u, v) == \E x \in Seq(Byte) : s = u \o x /\ v = x \o t

\* Of two ways to cut the same bytes in two, the longer first part begins with
\* the shorter one.
LEMMA Levi ==
  ASSUME NEW s \in Seq(Byte), NEW t \in Seq(Byte), NEW u \in Seq(Byte), NEW v \in Seq(Byte),
         s \o t = u \o v, Len(u) <= Len(s)
  PROVE  Common(s, t, u, v)
<1> DEFINE x == SubSeq(s, Len(u) + 1, Len(s))
<1>1. Len(s) \in Nat /\ Len(u) \in Nat /\ Len(t) \in Nat /\ Len(v) \in Nat
  OBVIOUS
<1>2. SubSeq(s, 1, Len(u)) \o x = s /\ x \in Seq(Byte)
  BY <1>1, Halves
<1>3. SubSeq(s, 1, Len(u)) = u
  <2> DEFINE p == SubSeq(s, 1, Len(u))
  <2>1. p \in Seq(Byte) /\ Len(p) = Len(u) /\ \A i \in 1 .. Len(u) : p[i] = s[i]
    BY <1>1
  <2>2. \A i \in 1 .. Len(u) : p[i] = u[i]
    <3> TAKE i \in 1 .. Len(u)
    <3>1. (s \o t)[i] = s[i]
      <4>1. i \in 1 .. Len(s) + Len(t) /\ i <= Len(s)
        BY <1>1
      <4> QED
        BY <4>1, ConcatProperties
    <3>2. (u \o v)[i] = u[i]
      <4>1. i \in 1 .. Len(u) + Len(v) /\ i <= Len(u)
        BY <1>1
      <4> QED
        BY <4>1, ConcatProperties
    <3> QED
      BY <2>1, <3>1, <3>2
  <2> HIDE DEF p
  <2>3. p = u
    BY <2>1, <2>2, SeqEqual
  <2> QED
    BY <2>3 DEF p
<1>4. s = u \o x
  BY <1>2, <1>3
<1> HIDE DEF x
<1>5. u \o (x \o t) = u \o v /\ x \o t \in Seq(Byte)
  <2>1. x \in Seq(Byte)
    BY <1>2
  <2>2. (u \o x) \o t = u \o (x \o t)
    BY <2>1, Associative, Zenon
  <2> QED
    BY <1>4, <2>1, <2>2, Lengths
<1>6. x \o t = v
  BY <1>2, <1>5, ConcatSimplifications
<1> QED
  BY <1>2, <1>4, <1>6 DEF Common

\* A frame has its fixed part.
LEMMA FrameAtLeast ==
  ASSUME NEW m \in TinyPBProtocol
  PROVE  Len(Frame(m)) \in Nat /\ Len(Frame(m)) >= 12
<1> DEFINE l == Len(Frame(m))
           i == Len(m.mMsgId)
           n == Len(m.mMethodName)
           e == Len(m.mErrInfo)
           d == Len(m.mPbData)
<1>1. l = 12 + i + n + e + d /\ i \in Nat /\ n \in Nat /\ e \in Nat /\ d \in Nat
  BY FrameFacts
<1> HIDE DEF l, i, n, e, d
<1>2. l \in Nat /\ l >= 12
  BY <1>1
<1> QED
  BY <1>2 DEF l

\* A request that has come whole is found at the read index, is read back
\* field by field, and exactly its frame is taken from the buffer.
LEMMA WholeFacts ==
  ASSUME NEW b, Sound(b), NEW m \in Messages, NEW x \in Seq(Byte),
         Contents(b) = Frame(m) \o x
  PROVE  /\ ReadAble(b) >= Len(Frame(m)) /\ Len(Frame(m)) > 0
         /\ Parses(b) /\ Layout(b)[5] <= endIndex(b)
         /\ Message(b) = m
         /\ Contents(Consumed(b)) = x
         /\ startIndex(b) = b.mReadIndex
         /\ endIndex(b) = b.mReadIndex + Len(Frame(m)) - 1
         /\ b.mReadIndex + Len(Frame(m)) <= b.mWriteIndex
<1> DEFINE r == b.mReadIndex
           w == b.mWriteIndex
           a == b.mBuffer
           I == Len(m.mMsgId)
           M == Len(m.mMethodName)
           E == Len(m.mErrInfo)
           D == Len(m.mPbData)
           L == Len(Frame(m))
           B == Base * Base
<1>1. /\ m \in TinyPBProtocol /\ m.mErrCode < B /\ L < B
  BY ConnectionAssumption
<1>2. /\ Frame(m) \in Seq(Byte)
      /\ I \in Nat /\ M \in Nat /\ E \in Nat /\ D \in Nat
      /\ L = 12 + I + M + E + D
  BY <1>1, FrameFacts
<1>3. L \in Nat
  BY <1>2, LenProperties
<1>4. /\ r \in Nat /\ w \in Nat /\ Size(b) \in Nat /\ w <= Size(b) /\ ReadAble(b) = w - r
      /\ Len(Contents(b)) = w - r
  BY AtFacts, ContentsFacts DEF Sound
<1>5. r + L <= w
  <2> DEFINE f == Frame(m)
  <2>1. Contents(b) = f \o x /\ f \in Seq(Byte) /\ Len(f) = L
    BY <1>2
  <2> HIDE DEF f
  <2> HIDE DEF L, r, w
  <2>2. Len(f \o x) = Len(f) + Len(x)
    BY <2>1, Lengths
  <2>3. Len(x) \in Nat
    OBVIOUS
  <2>4. w - r = L + Len(x)
    BY <1>4, <2>1, <2>2
  <2> DEFINE n == Len(x)
  <2> HIDE DEF n
  <2>5. n \in Nat /\ w - r = L + n
    BY <2>3, <2>4 DEF n
  <2> QED
    BY <1>4, <1>3, <2>5
<1>6. Holds(a, r, Frame(m))
  BY <1>2, <1>4, ContentsHeld, HoldsBoth
<1>7. /\ a[r + 1] = START
      /\ Holds(a, r + 1, NetInt(L))
      /\ Holds(a, r + 3, NetInt(I))
      /\ Holds(a, r + 5, m.mMsgId)
      /\ Holds(a, r + 5 + I, NetInt(M))
      /\ Holds(a, r + 7 + I, m.mMethodName)
      /\ Holds(a, r + 7 + I + M, NetInt(m.mErrCode))
      /\ Holds(a, r + 9 + I + M, NetInt(E))
      /\ Holds(a, r + 11 + I + M, m.mErrInfo)
      /\ Holds(a, r + 11 + I + M + E, m.mPbData)
      /\ a[r + L] = END
  BY <1>1, <1>4, <1>6, FrameFacts
<1>8. /\ m.mMsgId \in Seq(Byte) /\ m.mMethodName \in Seq(Byte) /\ m.mErrCode \in Nat
      /\ m.mErrInfo \in Seq(Byte) /\ m.mPbData \in Seq(Byte)
  BY <1>1 DEF TinyPBProtocol
<1>9. B \in Nat
  BY CoderAssumption
<1> HIDE DEF r, w, a, I, M, E, D, L, B
<1>10. /\ I < B /\ M < B /\ E < B
      /\ r + 11 + I + M + E + D < Size(b)
      /\ r + 12 + I + M + E + D <= Size(b)
  BY <1>1, <1>2, <1>4, <1>5, <1>9
<1>11. /\ GetInt32(b, r + 1) = L
       /\ GetInt32(b, r + 3) = I
       /\ GetInt32(b, r + 5 + I) = M
       /\ GetInt32(b, r + 7 + I + M) = m.mErrCode
       /\ GetInt32(b, r + 9 + I + M) = E
  <2>1. \A p \in Nat, n \in Nat :
          p + 2 <= Size(b) /\ n < B /\ Holds(a, p, NetInt(n)) => GetInt32(b, p) = n
    BY IntHeld DEF a, B
  <2>2. L \in Nat
    BY <1>2
  <2>3. /\ r + 1 \in Nat /\ r + 3 \in Nat /\ r + 5 + I \in Nat /\ r + 7 + I + M \in Nat
        /\ r + 9 + I + M \in Nat
    BY <1>2, <1>4
  <2>4. /\ r + 1 + 2 <= Size(b) /\ r + 3 + 2 <= Size(b) /\ r + 5 + I + 2 <= Size(b)
        /\ r + 7 + I + M + 2 <= Size(b) /\ r + 9 + I + M + 2 <= Size(b)
    <3> DEFINE z == Size(b)
    <3>1. /\ r \in Nat /\ I \in Nat /\ M \in Nat /\ E \in Nat /\ D \in Nat /\ z \in Nat
          /\ r + 12 + I + M + E + D <= z
      BY <1>2, <1>4, <1>10
    <3> HIDE DEF z
    <3>2. /\ r + 1 + 2 <= z /\ r + 3 + 2 <= z /\ r + 5 + I + 2 <= z
          /\ r + 7 + I + M + 2 <= z /\ r + 9 + I + M + 2 <= z
      BY <3>1
    <3> QED
      BY <3>2 DEF z
  <2> QED
    BY <1>1, <1>2, <1>7, <1>8, <1>10, <2>1, <2>2, <2>3, <2>4
<1>12. startIndex(b) = r /\ r \in Matches(b)
  <2>1. At(b, r) = START /\ At(b, r + L - 1) = END
    <3>1. r \in 0 .. Size(b) - 1 /\ r + L - 1 \in 0 .. Size(b) - 1 /\ r + L - 1 + 1 = r + L
      BY <1>2, <1>4, <1>10
    <3>2. \A i \in 0 .. Size(b) - 1 : At(b, i) = a[i + 1]
      BY AtFacts DEF a
    <3> QED
      BY <1>7, <3>1, <3>2
  <2>2. r \in Starts(b)
    <3>1. r \in r .. w - 1
      BY <1>2, <1>4, <1>5
    <3> QED
      BY <2>1, <3>1 DEF Starts, r, w
  <2>3. EndOf(b, r) = r + L - 1 /\ EndOf(b, r) >= 0
    <3>1. EndOf(b, r) = r + GetInt32(b, r + 1) - 1
      BY DEF EndOf
    <3>2. EndOf(b, r) = r + L - 1
      BY <1>11, <3>1
    <3>3. r \in Nat /\ L \in Nat /\ L > 0
      BY <1>2, <1>4
    <3> QED
      BY <3>2, <3>3
  <2>4. r \in Matches(b)
    BY <2>1, <2>2, <2>3 DEF Matches
  <2>5. \A i \in Matches(b) : r <= i
    BY <1>4 DEF Matches, Starts, r
  <2> QED
    BY <2>4, <2>5, MinIs, AtFacts DEF startIndex
<1>13. endIndex(b) = r + L - 1
  BY <1>2, <1>4, <1>11, <1>12 DEF endIndex, EndOf
<1>14. /\ Layout(b)[1] = r + 3 /\ Layout(b)[2] = r + 5 + I /\ Layout(b)[3] = r + 7 + I + M
       /\ Layout(b)[4] = r + 9 + I + M /\ Layout(b)[5] = r + 11 + I + M + E
  <2> DEFINE at == Layout(b)
  <2>1. r \in Nat /\ I \in Nat /\ M \in Nat /\ E \in Nat
    BY <1>2, <1>4
  <2>2. /\ at[1] = r + 1 + 2
        /\ at[2] = at[1] + 2 + GetInt32(b, at[1])
        /\ at[3] = at[2] + 2 + GetInt32(b, at[2])
        /\ at[4] = at[3] + 2
        /\ at[5] = at[4] + 2 + GetInt32(b, at[4])
    BY <1>12, LayoutFacts, Zenon DEF IntLen
  <2> HIDE DEF at
  <2>3. at[1] = r + 3
    BY <2>1, <2>2
  <2>4. at[2] = r + 5 + I
    <3>1. at[2] = r + 3 + 2 + I
      BY <1>11, <2>2, <2>3
    <3> QED
      BY <2>1, <3>1
  <2>5. at[3] = r + 7 + I + M
    <3>1. at[3] = r + 5 + I + 2 + M
      BY <1>11, <2>2, <2>4
    <3> QED
      BY <2>1, <3>1
  <2>6. at[4] = r + 9 + I + M
    BY <2>1, <2>2, <2>5
  <2>7. at[5] = r + 11 + I + M + E
    <3>1. at[5] = r + 9 + I + M + 2 + E
      BY <1>11, <2>2, <2>6
    <3> QED
      BY <2>1, <3>1
  <2> QED
    BY <2>3, <2>4, <2>5, <2>6, <2>7 DEF at
<1>15. Parses(b) /\ Layout(b)[5] <= endIndex(b)
  <2>1. \A k \in 1 .. 4 : Layout(b)[k] < endIndex(b)
    <3>1. /\ Layout(b)[1] < endIndex(b) /\ Layout(b)[2] < endIndex(b)
          /\ Layout(b)[3] < endIndex(b) /\ Layout(b)[4] < endIndex(b)
      BY <1>2, <1>4, <1>13, <1>14
    <3>2. \A k \in 1 .. 4 : k = 1 \/ k = 2 \/ k = 3 \/ k = 4
      OBVIOUS
    <3> QED
      BY <3>1, <3>2
  <2>2. parseSuccess(b)
    BY <1>12 DEF parseSuccess
  <2>3. Layout(b)[5] <= endIndex(b)
    BY <1>2, <1>4, <1>13, <1>14
  <2> QED
    BY <2>1, <2>2, <2>3 DEF Parses
<1>16. Message(b) = m
  <2>1. /\ Bytes(b, r + 5, r + 5 + I) = m.mMsgId
        /\ Bytes(b, r + 7 + I, r + 7 + I + M) = m.mMethodName
        /\ Bytes(b, r + 11 + I + M, r + 11 + I + M + E) = m.mErrInfo
        /\ Bytes(b, r + 11 + I + M + E, r + 11 + I + M + E + D) = m.mPbData
    <3>1. \A p \in Nat, s \in Seq(Byte) :
            p + Len(s) <= Size(b) /\ Holds(a, p, s) => Bytes(b, p, p + Len(s)) = s
      BY BytesHeld DEF a
    <3>2. /\ r + 5 \in Nat /\ r + 5 + I <= Size(b)
          /\ r + 7 + I \in Nat /\ r + 7 + I + M <= Size(b)
          /\ r + 11 + I + M \in Nat /\ r + 11 + I + M + E <= Size(b)
          /\ r + 11 + I + M + E \in Nat /\ r + 11 + I + M + E + D <= Size(b)
      BY <1>2, <1>4, <1>10
    <3>3. Bytes(b, r + 5, r + 5 + I) = m.mMsgId
      BY <1>7, <1>8, <3>1, <3>2 DEF I
    <3>4. Bytes(b, r + 7 + I, r + 7 + I + M) = m.mMethodName
      BY <1>7, <1>8, <3>1, <3>2 DEF M
    <3>5. Bytes(b, r + 11 + I + M, r + 11 + I + M + E) = m.mErrInfo
      BY <1>7, <1>8, <3>1, <3>2 DEF E
    <3>6. Bytes(b, r + 11 + I + M + E, r + 11 + I + M + E + D) = m.mPbData
      BY <1>7, <1>8, <3>1, <3>2 DEF D
    <3> QED
      BY <3>3, <3>4, <3>5, <3>6
  <2>2. /\ r + 3 + 2 = r + 5 /\ r + 5 + I + 2 = r + 7 + I /\ r + 9 + I + M + 2 = r + 11 + I + M
        /\ endIndex(b) = r + 11 + I + M + E + D
    BY <1>2, <1>4, <1>13
  <2>3. /\ Bytes(b, Layout(b)[1] + IntLen, Layout(b)[2]) = m.mMsgId
        /\ Bytes(b, Layout(b)[2] + IntLen, Layout(b)[3]) = m.mMethodName
        /\ GetInt32(b, Layout(b)[3]) = m.mErrCode
        /\ Bytes(b, Layout(b)[4] + IntLen, Layout(b)[5]) = m.mErrInfo
        /\ Bytes(b, Layout(b)[5], endIndex(b)) = m.mPbData
    BY <1>11, <1>14, <2>1, <2>2 DEF IntLen
  <2>4. Message(b) = [mMsgId |-> m.mMsgId, mMethodName |-> m.mMethodName, mErrCode |-> m.mErrCode,
                      mErrInfo |-> m.mErrInfo, mPbData |-> m.mPbData]
    BY <2>3 DEF Message
  <2> QED
    BY <1>1, <2>4 DEF TinyPBProtocol
<1>17. Contents(Consumed(b)) = x
  <2>1. endIndex(b) - startIndex(b) + 1 = L /\ L \in Nat
    BY <1>2, <1>4, <1>12, <1>13
  <2>2. L <= ReadAble(b)
    BY <1>2, <1>4, <1>5
  <2>3. Contents(Consumed(b)) = SubSeq(Contents(b), L + 1, Len(Contents(b)))
    BY <2>1, <2>2, MoveReadFacts DEF Consumed
  <2> DEFINE f == Frame(m)
  <2>4. SubSeq(f \o x, L + 1, Len(f \o x)) = x
    <3>1. f \in Seq(Byte) /\ Len(f) = L
      BY <1>2 DEF L
    <3> HIDE DEF f
    <3> QED
      BY <3>1, SuffixIs
  <2> QED
    BY <2>3, <2>4
<1>18. ReadAble(b) >= L /\ L > 0
  BY <1>2, <1>4, <1>5
<1> QED
  BY <1>5, <1>12, <1>13, <1>15, <1>16, <1>17, <1>18 DEF L, r, w

\* Nothing beyond the array is read for a request that has come whole.
LEMMA WholeInside ==
  ASSUME NEW b, Sound(b), NEW m \in Messages, NEW x \in Seq(Byte),
         Contents(b) = Frame(m) \o x
  PROVE  ~Outside(b) /\ ~Overrun(b)
<1> DEFINE r == b.mReadIndex
           L == Len(Frame(m))
           z == Size(b)
<1>1. /\ Parses(b) /\ Layout(b)[5] <= endIndex(b)
      /\ startIndex(b) = r /\ endIndex(b) = r + L - 1 /\ r + L <= b.mWriteIndex
  BY WholeFacts
<1>2. r \in Nat /\ z \in Nat /\ b.mWriteIndex \in Nat /\ b.mWriteIndex <= z
  BY AtFacts
<1>3. L \in Nat /\ L >= 12
  BY ConnectionAssumption, FrameAtLeast
<1>4. \A i \in Scanned(b) : i = r
  <2>1. \A i \in Starts(b) : i >= r /\ i \in Nat
    BY <1>2 DEF Starts
  <2>2. parseSuccess(b)
    BY <1>1 DEF Parses
  <2> QED
    BY <1>1, <1>2, <2>1, <2>2 DEF Scanned
<1>5. EndOf(b, r) = r + L - 1
  BY <1>1 DEF endIndex
<1>6. ~Outside(b)
  <2>1. ~(r + 2 >= z) /\ ~(r + L - 1 >= z)
    <3> HIDE DEF r, L, z
    <3> QED
      BY <1>1, <1>2, <1>3
  <2> QED
    BY <1>4, <1>5, <2>1 DEF Outside, IntLen
<1>7. ~Overrun(b)
  <2>1. \A k \in 1 .. 4 : Layout(b)[k] < endIndex(b)
    BY <1>1 DEF Parses
  <2>2. endIndex(b) < z /\ endIndex(b) \in Nat
    <3> HIDE DEF r, L, z
    <3> QED
      BY <1>1, <1>2, <1>3
  <2>3. ASSUME NEW k \in 2 .. 5, Layout(b)[k] > IF k < 5 THEN z ELSE endIndex(b)
        PROVE  FALSE
    <3>1. startIndex(b) \in Nat
      BY <1>1, <1>2
    <3>2. /\ Layout(b)[2] \in Nat /\ Layout(b)[3] \in Nat /\ Layout(b)[4] \in Nat
          /\ Layout(b)[5] \in Nat
      <4>1. \A i \in Nat : \A j : i + 2 + GetInt32(b, j) \in Nat /\ i + 2 \in Nat
        BY AtFacts
      <4>2. Layout(b)[1] \in Nat
        BY <3>1, LayoutFacts DEF IntLen
      <4>3. Layout(b)[2] \in Nat
        BY <4>1, <4>2, LayoutFacts, Zenon DEF IntLen
      <4>4. Layout(b)[3] \in Nat
        BY <4>1, <4>3, LayoutFacts, Zenon DEF IntLen
      <4>5. Layout(b)[4] \in Nat
        BY <4>1, <4>4, LayoutFacts, Zenon DEF IntLen
      <4> QED
        BY <4>1, <4>3, <4>4, <4>5, LayoutFacts, Zenon DEF IntLen
    <3>3. CASE k < 5
      <4>1. k \in 1 .. 4 /\ Layout(b)[k] \in Nat
        <5>1. k = 2 \/ k = 3 \/ k = 4
          BY <3>3
        <5> QED
          BY <3>2, <5>1
      <4>2. Layout(b)[k] < endIndex(b) /\ Layout(b)[k] > z
        BY <2>1, <2>3, <3>3, <4>1
      <4> HIDE DEF z
      <4> QED
        BY <1>2, <2>2, <4>1, <4>2
    <3>4. CASE k = 5
      <4>1. Layout(b)[5] > endIndex(b)
        BY <2>3, <3>4
      <4> QED
        BY <1>1, <2>2, <3>2, <4>1
    <3> QED
      BY <3>3, <3>4
  <2> QED
    BY <2>3 DEF Overrun
<1> QED
  BY <1>6, <1>7

\* The only start byte of such a part is its first byte.
LEMMA PartStarts ==
  ASSUME NEW b, Sound(b), NEW j \in Starts(b),
         \A i \in 2 .. Len(Contents(b)) : Contents(b)[i] # START
  PROVE  j = b.mReadIndex
<1> DEFINE r == b.mReadIndex
           w == b.mWriteIndex
           q == Contents(b)
           i == j + 1 - r
           z == Size(b)
<1>1. /\ r \in Nat /\ w \in Nat /\ z \in Nat /\ r <= w /\ w <= z
      /\ Len(q) = w - r
      /\ \A k \in 1 .. w - r : q[k] = b.mBuffer[r + k]
  BY AtFacts, ContentsFacts DEF Sound
<1>2. j \in r .. w - 1 /\ At(b, j) = START
  BY DEF Starts
<1>3. i \in 1 .. w - r /\ r + i = j + 1 /\ j \in 0 .. z - 1
  <2>1. i = j + 1 - r
    OBVIOUS
  <2> HIDE DEF i, z, r, w
  <2> QED
    BY <1>1, <1>2, <2>1
<1>4. At(b, j) = b.mBuffer[j + 1]
  BY <1>3, AtFacts
<1>5. q[i] = START
  <2> HIDE DEF i, q
  <2> QED
    BY <1>1, <1>2, <1>3, <1>4
<1>6. ~(i \in 2 .. Len(q))
  <2> HIDE DEF i
  <2> QED
    BY <1>5
<1> QED
  BY <1>1, <1>2, <1>3, <1>6

\* The scan finds a message and the first test of its length is passed.
Begins(b) == parseSuccess(b) /\ Layout(b)[1] < endIndex(b)

\* A part of a request in which no other byte is a start byte is not taken for
\* a message: the length is known to the scan only when all of it has come,
\* and then the end byte is looked for behind the write index.
LEMMA PartFacts ==
  ASSUME NEW b, Sound(b), NEW m \in Messages, NEW x \in Seq(Byte), x # <<>>,
         Frame(m) = Contents(b) \o x,
         \A i \in 2 .. Len(Contents(b)) : Contents(b)[i] # START
  PROVE  ~Parses(b) /\ ~Overrun(b)
<1> SUFFICES ASSUME Begins(b) PROVE FALSE
  BY DEF Parses, Overrun, Begins
<1> DEFINE r == b.mReadIndex
           w == b.mWriteIndex
           q == Contents(b)
           L == Len(Frame(m))
<1>1. /\ r \in Nat /\ w \in Nat /\ Size(b) \in Nat /\ r <= w /\ w <= Size(b)
      /\ q \in Seq(Byte) /\ Len(q) = w - r
      /\ \A i \in 1 .. w - r : q[i] = b.mBuffer[r + i]
  BY AtFacts, ContentsFacts DEF Sound
<1>2. startIndex(b) \in Matches(b)
  BY AtFacts, MinIn DEF Begins, parseSuccess, startIndex
<1>3. /\ startIndex(b) \in r .. w - 1 /\ At(b, startIndex(b)) = START
      /\ At(b, endIndex(b)) = END
  BY <1>2 DEF Matches, Starts, endIndex
<1>4. endIndex(b) \in 0 .. w - 1
  <2>1. END # 0
    BY CoderAssumption
  <2>2. \A i : At(b, i) # 0 => i \in 0 .. b.mWriteIndex - 1
    BY AtFacts
  <2> QED
    BY <1>3, <2>1, <2>2
<1>5. startIndex(b) = r
  BY <1>2, PartStarts DEF Matches
<1>6. r + 3 < endIndex(b)
  <2>1. Layout(b)[1] = r + 3
    BY <1>1, <1>5, LayoutFacts DEF IntLen
  <2> QED
    BY <2>1 DEF Begins
<1>7. w - r > 4
  BY <1>1, <1>4, <1>6
<1>8. m \in TinyPBProtocol /\ L < Base * Base /\ Frame(m) \in Seq(Byte)
  BY ConnectionAssumption, FrameFacts
<1>9. L \in Nat
  BY <1>8, LenProperties
<1>10. L > w - r
  <2> DEFINE n == Len(x)
             k == Len(q)
  <2>1. L = k + n
    BY <1>1, Lengths
  <2>2. n \in Nat /\ n # 0
    BY EmptySeq
  <2> HIDE DEF n, q, L
  <2>3. k = w - r
    BY <1>1
  <2> HIDE DEF k
  <2> QED
    BY <1>1, <1>9, <2>1, <2>2, <2>3
<1>11. GetInt32(b, r + 1) = L
  <2>1. Frame(m) \in Seq(Byte) /\ Holds(Frame(m), 0, Frame(m))
    BY <1>8 DEF Holds
  <2>2. Holds(Frame(m), 0 + 1, NetInt(L))
    BY <1>8, <2>1, FrameFacts
  <2>3. Len(NetInt(L)) = 2
    BY <1>9, NetIntFacts DEF IntLen
  <2>4. Frame(m)[2] = NetInt(L)[1] /\ Frame(m)[3] = NetInt(L)[2]
    <3>1. 1 \in 1 .. 2 /\ 2 \in 1 .. 2 /\ 0 + 1 + 1 = 2 /\ 0 + 1 + 2 = 3
      OBVIOUS
    <3> DEFINE f == Frame(m)
               s == NetInt(L)
    <3>2. \A i \in 1 .. 2 : f[0 + 1 + i] = s[i]
      BY <2>2, <2>3 DEF Holds
    <3> HIDE DEF f, s
    <3>3. f[0 + 1 + 1] = s[1] /\ f[0 + 1 + 2] = s[2]
      BY <3>1, <3>2
    <3> QED
      BY <3>1, <3>3 DEF f, s
  <2>5. Frame(m)[2] = q[2] /\ Frame(m)[3] = q[3]
    <3>1. /\ \A i \in 1 .. Len(q) + Len(x) : (q \o x)[i] = IF i <= Len(q) THEN q[i] ELSE x[i - Len(q)]
          /\ Len(x) \in Nat
      BY <1>1, ConcatProperties
    <3>2. 2 \in 1 .. Len(q) + Len(x) /\ 2 <= Len(q) /\ 3 \in 1 .. Len(q) + Len(x) /\ 3 <= Len(q)
      BY <1>1, <1>7, <3>1
    <3>3. (q \o x)[2] = q[2] /\ (q \o x)[3] = q[3]
      BY <3>1, <3>2
    <3> QED
      BY <3>3
  <2>6. q[2] = b.mBuffer[r + 2] /\ q[3] = b.mBuffer[r + 3]
    <3>1. 2 \in 1 .. w - r /\ 3 \in 1 .. w - r
      BY <1>1, <1>7
    <3> HIDE DEF q, r, w
    <3> QED
      BY <1>1, <3>1
  <2>7. Holds(b.mBuffer, r + 1, NetInt(L))
    <3>1. r + 1 + 1 = r + 2 /\ r + 1 + 2 = r + 3
      BY <1>1
    <3>2. \A i \in 1 .. 2 : i = 1 \/ i = 2
      OBVIOUS
    <3> QED
      BY <2>3, <2>4, <2>5, <2>6, <3>1, <3>2 DEF Holds
  <2>8. r + 1 \in Nat /\ r + 1 + 2 <= Size(b)
    BY <1>1, <1>7
  <2> QED
    BY <1>8, <1>9, <2>7, <2>8, IntHeld
<1>12. endIndex(b) = r + L - 1
  BY <1>5, <1>11 DEF endIndex, EndOf
<1> HIDE DEF r, w, L, q
<1> QED
  BY <1>1, <1>4, <1>9, <1>10, <1>12

\* What the scan reads for the length of a part is not more than the length:
\* the bytes that have not come are zeros.
LEMMA PartLength ==
  ASSUME NEW b, Sound(b), NEW m \in Messages, NEW x \in Seq(Byte),
         Frame(m) = Contents(b) \o x
  PROVE  GetInt32(b, b.mReadIndex + 1) <= Len(Frame(m))
<1> DEFINE r == b.mReadIndex
           w == b.mWriteIndex
           q == Contents(b)
           f == Frame(m)
           L == Len(f)
           s == NetInt(L)
<1>1. /\ r \in Nat /\ w \in Nat /\ Size(b) \in Nat /\ r <= w /\ w <= Size(b)
      /\ q \in Seq(Byte) /\ Len(q) = w - r
      /\ \A i \in 1 .. w - r : q[i] = b.mBuffer[r + i]
  BY AtFacts, ContentsFacts DEF Sound
<1>2. m \in TinyPBProtocol /\ L < Base * Base /\ f \in Seq(Byte) /\ L \in Nat
  BY ConnectionAssumption, FrameFacts, LenProperties
<1>3. f[2] = s[1] /\ f[3] = s[2] /\ Base * s[1] + s[2] = L
  <2>1. Holds(f, 0, f)
    BY DEF Holds
  <2>2. Holds(f, 0 + 1, s)
    BY <1>2, <2>1, FrameFacts
  <2>3. Len(s) = 2 /\ Base * s[1] + s[2] = L
    BY <1>2, NetIntFacts DEF IntLen
  <2>4. \A i \in 1 .. 2 : f[0 + 1 + i] = s[i]
    BY <2>2, <2>3 DEF Holds
  <2>5. f[0 + 1 + 1] = s[1] /\ f[0 + 1 + 2] = s[2]
    <3>1. 1 \in 1 .. 2 /\ 2 \in 1 .. 2
      OBVIOUS
    <3> HIDE DEF f, s
    <3> QED
      BY <2>4, <3>1
  <2>6. 0 + 1 + 1 = 2 /\ 0 + 1 + 2 = 3
    OBVIOUS
  <2> QED
    BY <2>3, <2>5, <2>6
<1>4. ASSUME NEW i \in {2, 3}
      PROVE  At(b, r + i - 1) \in {0, f[i]}
  <2> DEFINE z == Size(b)
  <2>1. i \in Nat /\ i > 0 /\ z \in Nat
    BY <1>1
  <2>2. CASE i <= w - r
    <3>1. r + i - 1 \in 0 .. z - 1 /\ r + i - 1 + 1 = r + i /\ i \in 1 .. w - r
      <4>1. w <= z
        BY <1>1
      <4> HIDE DEF z, r, w
      <4> QED
        BY <1>1, <2>2, <2>1, <4>1
    <3>2. At(b, r + i - 1) = q[i]
      <4> HIDE DEF q, r, w
      <4>1. At(b, r + i - 1) = b.mBuffer[r + i]
        BY <3>1, AtFacts
      <4> QED
        BY <1>1, <3>1, <4>1
    <3>3. (q \o x)[i] = q[i]
      <4>1. /\ \A k \in 1 .. Len(q) + Len(x) : (q \o x)[k] = IF k <= Len(q) THEN q[k] ELSE x[k - Len(q)]
            /\ Len(x) \in Nat
        BY <1>1, ConcatProperties
      <4>2. i \in 1 .. Len(q) + Len(x) /\ i <= Len(q)
        <5> DEFINE n == Len(x)
                   k == Len(q)
        <5>1. n \in Nat /\ k = w - r
          BY <1>1, <4>1
        <5> HIDE DEF n, k, q, r, w
        <5>2. i \in 1 .. k + n /\ i <= k
          BY <1>1, <3>1, <5>1
        <5> QED
          BY <5>2 DEF n, k
      <4> QED
        BY <4>1, <4>2
    <3> QED
      BY <3>2, <3>3
  <2>3. CASE i > w - r
    <3>1. ~(r + i - 1 \in 0 .. w - 1)
      <4> HIDE DEF r, w
      <4> QED
        BY <1>1, <2>3, <2>1
    <3> QED
      BY <3>1, AtFacts
  <2>4. i <= w - r \/ i > w - r
    <3> HIDE DEF r, w
    <3> QED
      BY <1>1, <2>1
  <2> QED
    BY <2>2, <2>3, <2>4
<1>5. At(b, r + 1) \in {0, s[1]} /\ At(b, r + 1 + 1) \in {0, s[2]}
  <2>1. r + 2 - 1 = r + 1 /\ r + 3 - 1 = r + 1 + 1
    BY <1>1
  <2> HIDE DEF r, f, s
  <2>2. At(b, r + 2 - 1) \in {0, f[2]} /\ At(b, r + 3 - 1) \in {0, f[3]}
    BY <1>4
  <2> QED
    BY <1>3, <2>1, <2>2
<1>6. Base \in Nat /\ s[1] \in Nat /\ s[2] \in Nat
  <2>1. s \in Seq(Byte) /\ Len(s) = 2 /\ Byte \subseteq Nat /\ Base \in Nat
    BY <1>2, NetIntFacts, CoderAssumption DEF IntLen
  <2> HIDE DEF s
  <2>2. 1 \in 1 .. 2 /\ 2 \in 1 .. 2
    OBVIOUS
  <2>3. s[1] \in Byte /\ s[2] \in Byte
    BY <2>1, <2>2, ElementOfSeq
  <2> QED
    BY <2>1, <2>3
<1> DEFINE c == At(b, r + 1)
           d == At(b, r + 1 + 1)
<1>7. Base * c \in {0, Base * s[1]} /\ d \in {0, s[2]} /\ Base * s[1] \in Nat
  BY <1>5, <1>6
<1>8. GetInt32(b, r + 1) = Base * c + d
  BY DEF GetInt32
<1> DEFINE y == Base * c
           z == Base * s[1]
           t == s[2]
<1>9. y \in {0, z} /\ z \in Nat /\ z + t = L /\ d \in {0, t} /\ t \in Nat
  BY <1>3, <1>6, <1>7
<1> HIDE DEF c, d, L, s, y, z, t
<1>10. y + d <= L
  BY <1>9
<1> QED
  BY <1>8, <1>10 DEF y, L

\* For such a part the scan reads beyond the array only if the request does not
\* fit behind the read index.
LEMMA PartOutside ==
  ASSUME NEW b, Sound(b), NEW m \in Messages, NEW x \in Seq(Byte), x # <<>>,
         Frame(m) = Contents(b) \o x,
         \A i \in 2 .. Len(Contents(b)) : Contents(b)[i] # START,
         Outside(b)
  PROVE  b.mReadIndex + Len(Frame(m)) > Size(b)
<1> DEFINE r == b.mReadIndex
           w == b.mWriteIndex
           q == Contents(b)
           L == Len(Frame(m))
<1>1. /\ r \in Nat /\ w \in Nat /\ Size(b) \in Nat /\ r <= w /\ w <= Size(b)
      /\ q \in Seq(Byte) /\ Len(q) = w - r
      /\ \A i \in 1 .. w - r : q[i] = b.mBuffer[r + i]
  BY AtFacts, ContentsFacts DEF Sound
<1>2. PICK j \in Starts(b) : j + 2 >= Size(b) \/ EndOf(b, j) >= Size(b)
  BY DEF Outside, Scanned, IntLen
<1>3. j = r
  BY <1>2, PartStarts
<1>4. L \in Nat /\ L >= 12
  BY ConnectionAssumption, FrameAtLeast
<1>5. GetInt32(b, r + 1) <= L /\ GetInt32(b, r + 1) \in Nat
  BY PartLength, AtFacts
<1> DEFINE g == GetInt32(b, r + 1)
<1>6. r + 2 >= Size(b) \/ r + g - 1 >= Size(b)
  BY <1>2, <1>3 DEF EndOf
<1> HIDE DEF g, L, r, w
<1>7. g <= L /\ g \in Nat
  BY <1>5 DEF g
<1>8. r + L > Size(b)
  BY <1>1, <1>4, <1>6, <1>7
<1> QED
  BY <1>8 DEF r, L

-----------------------------------------------------------------------------
(***************************************************************************)
(* The dispatcher.                                                         *)
(***************************************************************************)
\* The service's name has no dot: a name put together of a service's and a
\* method's is taken apart again into these.
LEMMA NamePutTogether ==
  ASSUME NEW s \in DOMAIN mServiceMap, NEW k \in mServiceMap[s],
         NEW name, name = s \o <<Dot>> \o k
  PROVE  /\ Len(s) + 1 \in DOMAIN name /\ name[Len(s) + 1] = Dot
         /\ serviceName(name) = s /\ methodName(name) = k
<1> DEFINE n == Len(s)
           d == n + 1
           t == s \o <<Dot>>
<1>1. s \in Seq(Byte) /\ k \in Seq(Byte) /\ Dot \in Byte
  BY ConnectionAssumption
<1>2. n \in Nat /\ Len(k) \in Nat /\ \A i \in 1 .. n : s[i] # Dot
  BY <1>1, DispatcherAssumption
<1>3. <<Dot>> \in Seq(Byte) /\ Len(<<Dot>>) = 1 /\ <<Dot>>[1] = Dot
  BY <1>1
<1>4. t \in Seq(Byte) /\ t[d] = Dot /\ \A i \in 1 .. n : t[i] = s[i]
  <2>1. \A i \in 1 .. n + 1 : t[i] = IF i <= n THEN s[i] ELSE <<Dot>>[i - n]
    BY <1>1, <1>3, ConcatProperties
  <2>2. d \in 1 .. n + 1 /\ ~(d <= n) /\ d - n = 1
    BY <1>2
  <2>3. t[d] = <<Dot>>[1]
    <3> HIDE DEF d, t
    <3> QED
      BY <2>1, <2>2
  <2>4. \A i \in 1 .. n : i \in 1 .. n + 1 /\ i <= n
    BY <1>2
  <2>5. t \in Seq(Byte)
    BY <1>1, <1>3, ConcatProperties
  <2> HIDE DEF t, d
  <2> QED
    BY <1>3, <2>1, <2>3, <2>4, <2>5
<1>5. Len(t) = d
  BY <1>1, <1>3, Lengths
<1> HIDE DEF t
<1>6. /\ name \in Seq(Byte) /\ Len(name) = d + Len(k)
      /\ \A i \in 1 .. d + Len(k) : name[i] = IF i <= d THEN t[i] ELSE k[i - d]
  BY <1>1, <1>4, <1>5, ConcatProperties DEF t
<1>7. d \in 1 .. d + Len(k) /\ DOMAIN name = 1 .. d + Len(k)
  BY <1>2, <1>6
<1>8. name[d] = Dot /\ \A i \in 1 .. n : name[i] # Dot
  <2>1. \A i \in 1 .. n : i \in 1 .. d + Len(k) /\ i <= d
    BY <1>2
  <2>2. d <= d
    BY <1>2
  <2> HIDE DEF d
  <2> QED
    BY <1>2, <1>4, <1>6, <1>7, <2>1, <2>2
<1>9. FirstDot(name) = d
  <2> DEFINE T == {i \in DOMAIN name : name[i] = Dot}
  <2>1. T \in SUBSET Nat /\ d \in T
    BY <1>7, <1>8
  <2>2. \A i \in T : d <= i
    BY <1>2, <1>7, <1>8
  <2>3. Min(T) = d
    <3> HIDE DEF T, d
    <3> QED
      BY <2>1, <2>2, MinIs
  <2> QED
    BY <2>3 DEF FirstDot
<1>10. serviceName(name) = s
  <2> DEFINE q == SubSeq(name, 1, n)
  <2>1. q \in Seq(Byte) /\ Len(q) = n /\ \A i \in 1 .. n : q[i] = name[i]
    BY <1>2, <1>6
  <2>2. \A i \in 1 .. n : name[i] = s[i]
    <3>1. \A i \in 1 .. n : i \in 1 .. d + Len(k) /\ i <= d
      BY <1>2
    <3> HIDE DEF d
    <3> QED
      BY <1>4, <1>6, <3>1
  <2> HIDE DEF q
  <2>3. q = s
    BY <1>1, <2>1, <2>2, SeqEqual
  <2>4. d - 1 = n
    BY <1>2
  <2> QED
    BY <1>9, <2>3, <2>4 DEF serviceName, q
<1>11. methodName(name) = k
  <2>1. SubSeq(t \o k, Len(t) + 1, Len(t \o k)) = k
    BY <1>1, <1>4, SuffixIs
  <2> QED
    BY <1>5, <1>9, <2>1 DEF methodName, t
<1> QED
  BY <1>7, <1>8, <1>10, <1>11

\* A name that is taken apart at a dot is its two halves with one between.
LEMMA NameTakenApart ==
  ASSUME NEW name \in Seq(Byte), {i \in DOMAIN name : name[i] = Dot} # {}
  PROVE  name = serviceName(name) \o <<Dot>> \o methodName(name)
<1> DEFINE T == {i \in DOMAIN name : name[i] = Dot}
           d == FirstDot(name)
<1>1. d \in T
  <2>1. T \in SUBSET Nat /\ T # {}
    OBVIOUS
  <2> HIDE DEF T
  <2>2. Min(T) \in T
    BY <2>1, MinIn
  <2> QED
    BY <2>2 DEF FirstDot, T
<1>2. d \in 1 .. Len(name) /\ name[d] = Dot /\ Len(name) \in Nat
  BY <1>1
<1> HIDE DEF d
<1>3. SubSeq(name, 1, d) = SubSeq(name, 1, d - 1) \o <<name[d]>>
  <2>1. 1 \in 1 .. Len(name) /\ d \in 1 .. Len(name)
    BY <1>2
  <2> QED
    BY <2>1, SubSeqRecursiveSecond
<1>4. SubSeq(name, 1, d) \o SubSeq(name, d + 1, Len(name)) = SubSeq(name, 1, Len(name))
  <2>1. 1 \in 1 .. Len(name) + 1 /\ d \in 1 - 1 .. Len(name) /\ Len(name) \in d .. Len(name)
    BY <1>2
  <2> QED
    BY <2>1, ConcatAdjacentSubSeq
<1>5. SubSeq(name, 1, Len(name)) = name
  BY SubSeqFull
<1> QED
  BY <1>2, <1>3, <1>4, <1>5 DEF serviceName, methodName, d

\* The response to a request is a message, and an answer to it: a name that
\* is split at its first dot is that of a method that is registered, or none.
LEMMA DispatchFacts ==
  ASSUME NEW m \in TinyPBProtocol
  PROVE  Dispatch(m) \in TinyPBProtocol /\ Service!Answers(Dispatch(m), m)
<1> DEFINE name    == m.mMethodName
           resp    == [m EXCEPT !.mErrCode = 0, !.mErrInfo = <<>>, !.mPbData = <<>>]
           service == serviceName(name)
           method  == methodName(name)
           dots    == {i \in DOMAIN name : name[i] = Dot}
<1>1. /\ m.mMsgId \in Seq(Byte) /\ name \in Seq(Byte) /\ m.mErrCode \in Nat
      /\ m.mErrInfo \in Seq(Byte) /\ m.mPbData \in Seq(Byte)
  BY DEF TinyPBProtocol
<1>2. /\ resp \in TinyPBProtocol
      /\ resp.mMsgId = m.mMsgId /\ resp.mMethodName = name /\ resp.mErrCode = 0
  <2>1. PICK i \in Seq(Byte), n \in Seq(Byte), c \in Nat, e \in Seq(Byte), d \in Seq(Byte) :
          m = [mMsgId |-> i, mMethodName |-> n, mErrCode |-> c, mErrInfo |-> e, mPbData |-> d]
    BY DEF TinyPBProtocol
  <2>2. /\ resp = [mMsgId |-> i, mMethodName |-> n, mErrCode |-> 0,
                   mErrInfo |-> <<>>, mPbData |-> <<>>]
        /\ i = m.mMsgId /\ n = name
    <3>1. i = m.mMsgId /\ n = name
      BY <2>1
    <3> DEFINE z == <<>>
               r == [m EXCEPT !.mErrCode = 0]
               t == [r EXCEPT !.mErrInfo = z]
    <3>2. resp = [t EXCEPT !.mPbData = z]
      OBVIOUS
    <3> HIDE DEF resp, z
    <3>3. r = [mMsgId |-> i, mMethodName |-> n, mErrCode |-> 0, mErrInfo |-> e, mPbData |-> d]
      BY <2>1
    <3> HIDE DEF r
    <3>4. t = [mMsgId |-> i, mMethodName |-> n, mErrCode |-> 0, mErrInfo |-> z, mPbData |-> d]
      BY <3>3
    <3> HIDE DEF t
    <3>5. resp = [mMsgId |-> i, mMethodName |-> n, mErrCode |-> 0, mErrInfo |-> z, mPbData |-> z]
      BY <3>2, <3>4
    <3> QED
      BY <3>1, <3>5 DEF z
  <2>3. <<>> \in Seq(Byte)
    BY EmptySeq
  <2> HIDE DEF resp
  <2> QED
    BY <1>1, <2>2, <2>3 DEF TinyPBProtocol
<1> HIDE DEF resp
<1>3. ASSUME NEW e \in {ERROR_FAILED_DESERIALIZE, ERROR_FAILED_SERIALIZE, ERROR_SERVICE_NOT_FOUND,
                        ERROR_METHOD_NOT_FOUND, ERROR_PARSE_SERVICE_NAME}
      PROVE  LET r == setTinyPBError(resp, e)
             IN  /\ r \in TinyPBProtocol /\ r.mMsgId = m.mMsgId /\ r.mMethodName = name
                 /\ r.mErrCode # 0
  <2>1. e \in Nat /\ e # 0 /\ e <= 10
    BY DEF ERROR_FAILED_DESERIALIZE, ERROR_FAILED_SERIALIZE, ERROR_SERVICE_NOT_FOUND,
           ERROR_METHOD_NOT_FOUND, ERROR_PARSE_SERVICE_NAME
  <2>2. e \in Byte
    BY <2>1, ConnectionAssumption, CoderAssumption DEF ERROR_PARSE_SERVICE_NAME
  <2>3. <<e>> \in Seq(Byte)
    BY <2>2
  <2> QED
    BY <1>2, <2>1, <2>3 DEF setTinyPBError, TinyPBProtocol
<1>4. dots = {} => name \notin Methods
  <2> SUFFICES ASSUME name \in Methods PROVE dots # {}
    OBVIOUS
  <2>1. PICK s \in DOMAIN mServiceMap : \E k \in mServiceMap[s] : name = s \o <<Dot>> \o k
    BY DEF Methods
  <2>2. PICK k \in mServiceMap[s] : name = s \o <<Dot>> \o k
    BY <2>1
  <2>3. Len(s) + 1 \in dots
    BY <2>2, NamePutTogether
  <2> QED
    BY <2>3
<1>5. dots # {} => (name \in Methods <=> service \in DOMAIN mServiceMap /\ method \in mServiceMap[service])
  <2> SUFFICES ASSUME dots # {}
               PROVE  name \in Methods <=> service \in DOMAIN mServiceMap /\ method \in mServiceMap[service]
    OBVIOUS
  <2>1. ASSUME name \in Methods
        PROVE  service \in DOMAIN mServiceMap /\ method \in mServiceMap[service]
    <3>1. PICK s \in DOMAIN mServiceMap : \E k \in mServiceMap[s] : name = s \o <<Dot>> \o k
      BY <2>1 DEF Methods
    <3>2. PICK k \in mServiceMap[s] : name = s \o <<Dot>> \o k
      BY <3>1
    <3>3. service = s /\ method = k
      BY <3>2, NamePutTogether
    <3> QED
      BY <3>3
  <2>2. ASSUME service \in DOMAIN mServiceMap, method \in mServiceMap[service]
        PROVE  name \in Methods
    <3>1. name = service \o <<Dot>> \o method
      BY <1>1, NameTakenApart
    <3> HIDE DEF service, method
    <3>2. name \in {service \o <<Dot>> \o k : k \in mServiceMap[service]}
      BY <2>2, <3>1
    <3>3. {service \o <<Dot>> \o k : k \in mServiceMap[service]}
            \in {{s \o <<Dot>> \o k : k \in mServiceMap[s]} : s \in DOMAIN mServiceMap}
      BY <2>2
    <3> QED
      BY <3>2, <3>3 DEF Methods
  <2> QED
    BY <2>1, <2>2
<1>6. Parseable = DOMAIN Serve /\ \A pb \in Parseable : Serve[pb] \in Seq(Byte)
  BY DispatcherAssumption, ConnectionAssumption
<1>7. (\A i \in DOMAIN name : name[i] # Dot) <=> dots = {}
  OBVIOUS
<1> DEFINE good == [resp EXCEPT !.mPbData = Serve[m.mPbData]]
<1>8. Service!Served(m) <=> name \in Methods /\ m.mPbData \in Parseable /\ Serve[m.mPbData] \in Serializable
  BY DEF Service!Served
<1>9. m.mPbData \in Parseable =>
        /\ good \in TinyPBProtocol /\ good.mMsgId = m.mMsgId /\ good.mMethodName = name
        /\ good.mErrCode = 0 /\ good.mPbData = Serve[m.mPbData]
  BY <1>2, <1>6 DEF TinyPBProtocol
<1>10. Dispatch(m) = IF dots = {}
                     THEN setTinyPBError(resp, ERROR_PARSE_SERVICE_NAME)
                     ELSE IF service \notin DOMAIN mServiceMap
                     THEN setTinyPBError(resp, ERROR_SERVICE_NOT_FOUND)
                     ELSE IF method \notin mServiceMap[service]
                     THEN setTinyPBError(resp, ERROR_METHOD_NOT_FOUND)
                     ELSE IF m.mPbData \notin Parseable
                     THEN setTinyPBError(resp, ERROR_FAILED_DESERIALIZE)
                     ELSE IF Serve[m.mPbData] \notin Serializable
                     THEN setTinyPBError(resp, ERROR_FAILED_SERIALIZE)
                     ELSE good
  BY <1>7 DEF Dispatch, resp
<1> HIDE DEF good, service, method, dots
<1>11. CASE Service!Served(m)
  <2>1. dots # {} /\ service \in DOMAIN mServiceMap /\ method \in mServiceMap[service]
    BY <1>4, <1>5, <1>8, <1>11
  <2>2. m.mPbData \in Parseable /\ Serve[m.mPbData] \in Serializable
    BY <1>8, <1>11
  <2>3. Dispatch(m) = good
    BY <1>10, <2>1, <2>2
  <2> QED
    BY <1>9, <1>11, <2>2, <2>3 DEF Service!Answers
<1>12. CASE ~Service!Served(m)
  <2>1. \E e \in {ERROR_FAILED_DESERIALIZE, ERROR_FAILED_SERIALIZE, ERROR_SERVICE_NOT_FOUND,
                  ERROR_METHOD_NOT_FOUND, ERROR_PARSE_SERVICE_NAME} :
          Dispatch(m) = setTinyPBError(resp, e)
    BY <1>5, <1>8, <1>10, <1>12
  <2>2. PICK e \in {ERROR_FAILED_DESERIALIZE, ERROR_FAILED_SERIALIZE, ERROR_SERVICE_NOT_FOUND,
                    ERROR_METHOD_NOT_FOUND, ERROR_PARSE_SERVICE_NAME} :
               Dispatch(m) = setTinyPBError(resp, e)
    BY <2>1
  <2> QED
    BY <1>3, <1>12, <2>2 DEF Service!Answers
<1> QED
  BY <1>11, <1>12

-----------------------------------------------------------------------------
(***************************************************************************)
(* What is left of a sequence of requests, and of a stream that is split.  *)
(***************************************************************************)
\* The requests behind the first n, and one less.
LEMMA RestFacts ==
  ASSUME NEW S, NEW q \in Seq(S), NEW n \in Nat, n <= Len(q)
  PROVE  LET r == SubSeq(q, n + 1, Len(q))
         IN  /\ r \in Seq(S) /\ Len(r) = Len(q) - n
             /\ \A i \in 1 .. Len(q) - n : r[i] = q[n + i]
             /\ n < Len(q) => SubSeq(r, 2, Len(r)) = SubSeq(q, n + 1 + 1, Len(q))
<1> DEFINE r == SubSeq(q, n + 1, Len(q))
<1>1. Len(q) \in Nat /\ \A i \in 1 .. Len(q) : q[i] \in S
  OBVIOUS
<1>2. r \in Seq(S) /\ Len(r) = Len(q) - n /\ \A i \in 1 .. Len(q) - n : r[i] = q[n + i]
  BY <1>1
<1>3. ASSUME n < Len(q) PROVE SubSeq(r, 2, Len(r)) = SubSeq(q, n + 1 + 1, Len(q))
  <2> DEFINE s == SubSeq(r, 2, Len(r))
             t == SubSeq(q, n + 1 + 1, Len(q))
  <2>1. t \in Seq(S) /\ Len(t) = Len(q) - n - 1 /\ \A i \in 1 .. Len(q) - n - 1 : t[i] = q[n + 1 + i]
    BY <1>1, <1>3
  <2> HIDE DEF r, t
  <2>2. s \in Seq(S) /\ Len(s) = Len(q) - n - 1 /\ \A i \in 1 .. Len(q) - n - 1 : s[i] = r[1 + i]
    BY <1>1, <1>2, <1>3
  <2> HIDE DEF s
  <2>3. \A i \in 1 .. Len(q) - n - 1 : s[i] = t[i]
    <3> TAKE i \in 1 .. Len(q) - n - 1
    <3>1. 1 + i \in 1 .. Len(q) - n /\ n + (1 + i) = n + 1 + i
      BY <1>1
    <3> QED
      BY <1>2, <2>1, <2>2, <3>1
  <2> QED
    BY <2>1, <2>2, <2>3, SeqEqual DEF s, t
<1> HIDE DEF r
<1> QED
  BY <1>2, <1>3 DEF r

\* The requests behind the first n, and one more.
LEMMA RestAppend ==
  ASSUME NEW S, NEW q \in Seq(S), NEW n \in Nat, n <= Len(q), NEW m \in S
  PROVE  /\ SubSeq(Append(q, m), n + 1, Len(Append(q, m))) = Append(SubSeq(q, n + 1, Len(q)), m)
         /\ SubSeq(Append(q, m), 1, n) = SubSeq(q, 1, n)
<1> DEFINE r == SubSeq(q, n + 1, Len(q))
           a == Append(q, m)
           k == Len(q)
           s == SubSeq(a, n + 1, k + 1)
           t == Append(r, m)
           u == SubSeq(a, 1, n)
           v == SubSeq(q, 1, n)
<1>1. k \in Nat /\ \A i \in 1 .. k : q[i] \in S
  OBVIOUS
<1>2. r \in Seq(S) /\ Len(r) = k - n /\ \A i \in 1 .. k - n : r[i] = q[n + i]
  BY RestFacts
<1>3. a \in Seq(S) /\ Len(a) = k + 1 /\ (\A i \in 1 .. k : a[i] = q[i]) /\ a[k + 1] = m
  BY AppendProperties
<1>4. v \in Seq(S) /\ Len(v) = n /\ \A i \in 1 .. n : v[i] = q[i]
  BY <1>1
<1>5. t \in Seq(S) /\ Len(t) = k - n + 1 /\ (\A i \in 1 .. k - n : t[i] = r[i]) /\ t[k - n + 1] = m
  <2> HIDE DEF r
  <2> QED
    BY <1>2, AppendProperties
<1> HIDE DEF a, v, t, r
<1>6. u \in Seq(S) /\ Len(u) = n /\ \A i \in 1 .. n : u[i] = a[i]
  BY <1>1, <1>3
<1>7. s \in Seq(S) /\ Len(s) = k - n + 1 /\ \A i \in 1 .. k - n + 1 : s[i] = a[n + i]
  BY <1>1, <1>3
<1> HIDE DEF u, s
<1>8. u = v
  <2>1. \A i \in 1 .. n : i \in 1 .. k
    BY <1>1
  <2>2. \A i \in 1 .. n : u[i] = v[i]
    BY <1>3, <1>4, <1>6, <2>1
  <2> QED
    BY <1>4, <1>6, <2>2, SeqEqual
<1>9. s = t
  <2>1. \A i \in 1 .. k - n + 1 : s[i] = t[i]
    <3> TAKE i \in 1 .. k - n + 1
    <3>1. CASE i \in 1 .. k - n
      <4>1. n + i \in 1 .. k
        BY <1>1, <3>1
      <4>2. s[i] = a[n + i] /\ a[n + i] = q[n + i] /\ t[i] = r[i] /\ r[i] = q[n + i]
        BY <1>2, <1>3, <1>5, <1>7, <3>1, <4>1
      <4> QED
        BY <4>2
    <3>2. CASE i = k - n + 1
      <4>1. n + i = k + 1
        BY <1>1, <3>2
      <4> QED
        BY <1>3, <1>5, <1>7, <3>2, <4>1
    <3> QED
      BY <1>1, <3>1, <3>2
  <2> QED
    BY <1>5, <1>7, <2>1, SeqEqual
<1> QED
  BY <1>3, <1>8, <1>9 DEF a, u, v, s, t, r

\* A request that is made behind all that is there splits nothing.
LEMMA SplitAppend ==
  ASSUME NEW ms \in Seq(TinyPBProtocol), NEW m \in TinyPBProtocol, NEW there \in Seq(Byte),
         Len(there) <= Len(Frames(ms)), SplitIn(there, Append(ms, m))
  PROVE  SplitIn(there, ms)
<1> DEFINE a == Append(ms, m)
           n == Len(ms)
<1>1. /\ a \in Seq(TinyPBProtocol) /\ n \in Nat /\ DOMAIN a = 1 .. n + 1 /\ DOMAIN ms = 1 .. n
      /\ \A i \in 1 .. n : a[i] = ms[i]
  BY AppendProperties
<1>2. PICK k \in DOMAIN a :
        /\ Len(there) < Len(Frames(SubSeq(a, 1, k - 1))) + Len(Frame(a[k]))
        /\ \E i \in Len(Frames(SubSeq(a, 1, k - 1))) + 2 .. Len(there) : there[i] = START
  BY DEF SplitIn
<1>3. k \in 1 .. n + 1 /\ k - 1 \in Nat /\ k - 1 <= n
  BY <1>1, <1>2
<1>4. SubSeq(a, 1, k - 1) = SubSeq(ms, 1, k - 1)
  BY <1>3, RestAppend
<1>5. CASE k = n + 1
  <2>1. SubSeq(ms, 1, k - 1) = ms
    <3>1. k - 1 = n
      BY <1>1, <1>5
    <3> QED
      BY <3>1, SubSeqFull
  <2>2. Len(Frames(ms)) \in Nat /\ Len(there) \in Nat
    BY FramesSeq, LenProperties
  <2> DEFINE f == Len(Frames(ms))
             l == Len(there)
  <2>3. \E i \in f + 2 .. l : there[i] = START
    BY <1>2, <1>4, <2>1
  <2>4. f \in Nat /\ l \in Nat /\ l <= f
    BY <2>2
  <2> HIDE DEF f, l
  <2> QED
    BY <2>3, <2>4
<1>6. CASE k \in 1 .. n
  <2>1. a[k] = ms[k]
    BY <1>1, <1>6
  <2> QED
    BY <1>1, <1>2, <1>4, <1>6, <2>1 DEF SplitIn
<1> QED
  BY <1>1, <1>3, <1>5, <1>6

\* What splits the frames behind the first one splits all of them.
LEMMA SplitRest ==
  ASSUME NEW ms \in Seq(TinyPBProtocol), ms # <<>>, NEW x \in Seq(Byte),
         SplitIn(x, SubSeq(ms, 2, Len(ms)))
  PROVE  SplitIn(Frame(ms[1]) \o x, ms)
<1> DEFINE r == SubSeq(ms, 2, Len(ms))
           f == Frame(ms[1])
           y == f \o x
           n == Len(ms)
<1>1. n \in Nat /\ n >= 1 /\ ms[1] \in TinyPBProtocol
  BY EmptySeq
<1>2. f \in Seq(Byte) /\ Len(f) \in Nat
  BY <1>1, FrameFacts, LenProperties
<1>3. r \in Seq(TinyPBProtocol) /\ Len(r) = n - 1 /\ \A i \in 1 .. n - 1 : r[i] = ms[1 + i]
  <2>1. r = SubSeq(ms, 1 + 1, Len(ms)) /\ 1 \in Nat /\ 1 <= Len(ms)
    BY <1>1
  <2> HIDE DEF r
  <2> QED
    BY <2>1, RestFacts
<1> HIDE DEF r
<1>4. PICK k \in DOMAIN r :
        /\ Len(x) < Len(Frames(SubSeq(r, 1, k - 1))) + Len(Frame(r[k]))
        /\ \E i \in Len(Frames(SubSeq(r, 1, k - 1))) + 2 .. Len(x) : x[i] = START
  BY DEF SplitIn, r
<1> DEFINE g == Frames(SubSeq(r, 1, k - 1))
<1>5. k \in 1 .. n - 1 /\ k + 1 \in DOMAIN ms /\ r[k] = ms[k + 1] /\ k + 1 - 1 = k
  <2>1. k \in DOMAIN r
    BY <1>4
  <2>2. k \in 1 .. n - 1
    BY <1>3, <2>1
  <2>3. k + 1 \in DOMAIN ms /\ 1 + k = k + 1 /\ k + 1 - 1 = k
    BY <1>1, <2>2
  <2> QED
    BY <1>3, <2>2, <2>3
<1>6. g \in Seq(Byte) /\ Len(g) \in Nat
  <2>1. SubSeq(r, 1, k - 1) \in Seq(TinyPBProtocol)
    BY <1>3, <1>5
  <2> QED
    BY <2>1, FramesSeq, LenProperties
<1>7. Frames(SubSeq(ms, 1, k)) = f \o g
  <2> DEFINE p == SubSeq(ms, 1, k)
  <2>1. p \in Seq(TinyPBProtocol) /\ Len(p) = k /\ \A i \in 1 .. k : p[i] = ms[i]
    BY <1>1, <1>5
  <2>2. p # <<>> /\ p[1] = ms[1]
    BY <1>5, <2>1
  <2> DEFINE s == SubSeq(p, 2, Len(p))
             t == SubSeq(r, 1, k - 1)
  <2>3. t \in Seq(TinyPBProtocol) /\ Len(t) = k - 1 /\ \A i \in 1 .. k - 1 : t[i] = r[i]
    BY <1>3, <1>5
  <2> HIDE DEF p, t
  <2>4. s \in Seq(TinyPBProtocol) /\ Len(s) = k - 1 /\ \A i \in 1 .. k - 1 : s[i] = p[1 + i]
    BY <1>5, <2>1
  <2>5. \A i \in 1 .. k - 1 : s[i] = t[i]
    <3> TAKE i \in 1 .. k - 1
    <3>1. 1 + i \in 1 .. k /\ i \in 1 .. n - 1
      BY <1>1, <1>5
    <3> QED
      BY <1>3, <2>1, <2>3, <2>4, <3>1
  <2>6. s = t
    <3> HIDE DEF s
    <3> QED
      BY <2>3, <2>4, <2>5, SeqEqual
  <2>7. Frames(p) = Frame(p[1]) \o Frames(s)
    BY <2>1, <2>2, FramesFirst
  <2> QED
    BY <2>2, <2>6, <2>7 DEF p, t
<1>8. Len(Frames(SubSeq(ms, 1, k))) = Len(f) + Len(g)
  <2> HIDE DEF f, g
  <2> QED
    BY <1>2, <1>6, <1>7, Lengths
<1>9. Len(x) \in Nat /\ Len(y) = Len(f) + Len(x)
  <2> HIDE DEF f
  <2> QED
    BY <1>2, Lengths
<1>10. PICK i \in Len(g) + 2 .. Len(x) : x[i] = START
  BY <1>4
<1>11. y[Len(f) + i] = START
  <2> HIDE DEF f, g
  <2>1. \A j \in 1 .. Len(f) + Len(x) : y[j] = IF j <= Len(f) THEN f[j] ELSE x[j - Len(f)]
    BY <1>2, ConcatProperties
  <2> DEFINE j == Len(f) + i
  <2>2. j \in 1 .. Len(f) + Len(x) /\ ~(j <= Len(f)) /\ j - Len(f) = i
    BY <1>2, <1>6, <1>9, <1>10
  <2> HIDE DEF j, y
  <2> QED
    BY <1>10, <2>1, <2>2 DEF j
<1>12. Len(f) + i \in Len(Frames(SubSeq(ms, 1, k))) + 2 .. Len(y)
  <2> HIDE DEF f, g, y
  <2> QED
    BY <1>2, <1>6, <1>8, <1>9, <1>10
<1>13. Len(y) < Len(Frames(SubSeq(ms, 1, k))) + Len(Frame(ms[k + 1]))
  <2> DEFINE h == Len(Frame(ms[k + 1]))
  <2>1. Len(x) < Len(g) + h
    BY <1>4, <1>5
  <2>2. h \in Nat
    <3>1. ms[k + 1] \in TinyPBProtocol
      BY <1>5
    <3> QED
      BY <3>1, FrameFacts, LenProperties
  <2> DEFINE z == Len(Frames(SubSeq(ms, 1, k)))
  <2> HIDE DEF f, g, y, h, z
  <2>3. z = Len(f) + Len(g) /\ Len(y) = Len(f) + Len(x)
    BY <1>8, <1>9 DEF z
  <2>4. Len(y) < z + h
    BY <1>2, <1>6, <1>9, <2>1, <2>2, <2>3
  <2> QED
    BY <2>4 DEF h, z
<1>14. SplitIn(y, ms)
  <2> DEFINE c == k + 1
  <2>1. /\ Len(y) < Len(Frames(SubSeq(ms, 1, c - 1))) + Len(Frame(ms[c]))
        /\ \E j \in Len(Frames(SubSeq(ms, 1, c - 1))) + 2 .. Len(y) : y[j] = START
    <3>1. c - 1 = k /\ c = k + 1
      BY <1>5
    <3> DEFINE z == Len(Frames(SubSeq(ms, 1, k)))
    <3> HIDE DEF y, f, c, z
    <3>2. \E j \in z + 2 .. Len(y) : y[j] = START
      BY <1>11, <1>12 DEF z
    <3>3. Len(y) < z + Len(Frame(ms[k + 1]))
      BY <1>13 DEF z
    <3>4. z = Len(Frames(SubSeq(ms, 1, c - 1)))
      BY <3>1 DEF z
    <3> QED
      BY <3>1, <3>2, <3>3, <3>4
  <2>2. c \in DOMAIN ms
    BY <1>5
  <2> HIDE DEF c, y
  <2> QED
    BY <2>1, <2>2 DEF SplitIn
<1> QED
  BY <1>14

\* A part of the first frame that has another start byte in it splits it.
LEMMA SplitFirst ==
  ASSUME NEW ms \in Seq(TinyPBProtocol), ms # <<>>, NEW there \in Seq(Byte),
         Len(there) < Len(Frame(ms[1])), ~SplitIn(there, ms)
  PROVE  \A i \in 2 .. Len(there) : there[i] # START
<1>1. 1 \in DOMAIN ms /\ ms[1] \in TinyPBProtocol
  BY EmptySeq
<1>2. SubSeq(ms, 1, 1 - 1) = <<>>
  BY SubSeqEmpty
<1>3. Len(Frames(SubSeq(ms, 1, 1 - 1))) = 0
  <2>1. Frames(<<>>) = <<>> /\ Len(<<>>) = 0
    BY FramesSeq
  <2> QED
    BY <1>2, <2>1
<1>4. Len(Frame(ms[1])) \in Nat /\ Len(there) \in Nat
  BY <1>1, FrameFacts, LenProperties
<1>5. ~ /\ Len(there) < Len(Frames(SubSeq(ms, 1, 1 - 1))) + Len(Frame(ms[1]))
        /\ \E i \in Len(Frames(SubSeq(ms, 1, 1 - 1))) + 2 .. Len(there) : there[i] = START
  BY <1>1 DEF SplitIn
<1>6. 0 + Len(Frame(ms[1])) = Len(Frame(ms[1])) /\ 0 + 2 = 2
  BY <1>4
<1> QED
  BY <1>3, <1>5, <1>6

-----------------------------------------------------------------------------
(***************************************************************************)
(* The last bytes of a sequence.                                           *)
(***************************************************************************)
\* What IsSuffix says of the elements.
LEMMA SuffixElements ==
  ASSUME NEW s \in Seq(Byte), NEW t \in Seq(Byte)
  PROVE  IsSuffix(s, t) <=>
           /\ Len(s) <= Len(t)
           /\ \A j \in 1 .. Len(s) : s[j] = t[Len(t) - Len(s) + j]
<1> DEFINE n == Len(s)
           k == Len(t)
           a == Reverse(s)
           b == Reverse(t)
<1>1. n \in Nat /\ k \in Nat /\ (\A i \in 1 .. n : s[i] \in Byte) /\ (\A i \in 1 .. k : t[i] \in Byte)
  OBVIOUS
<1>2. a \in Seq(Byte) /\ Len(a) = n /\ \A i \in 1 .. n : a[i] = s[n - i + 1]
  BY <1>1 DEF Reverse
<1>3. b \in Seq(Byte) /\ Len(b) = k /\ \A i \in 1 .. k : b[i] = t[k - i + 1]
  BY <1>1 DEF Reverse
<1> HIDE DEF a, b
<1>4. ASSUME n <= k
      PROVE  SubSeq(a, 1, n) = SubSeq(b, 1, n) <=> \A j \in 1 .. n : s[j] = t[k - n + j]
  <2> DEFINE p == SubSeq(a, 1, n)
             q == SubSeq(b, 1, n)
  <2>1. p \in Seq(Byte) /\ Len(p) = n /\ \A i \in 1 .. n : p[i] = a[i]
    BY <1>1, <1>2
  <2>2. q \in Seq(Byte) /\ Len(q) = n /\ \A i \in 1 .. n : q[i] = b[i]
    BY <1>1, <1>3, <1>4
  <2> HIDE DEF p, q, n, k
  <2>3. p = q <=> \A i \in 1 .. n : p[i] = q[i]
    BY <2>1, <2>2, SeqEqual
  <2>4. \A i \in 1 .. n : p[i] = s[n - i + 1] /\ q[i] = t[k - i + 1]
    <3> TAKE i \in 1 .. n
    <3>1. i \in 1 .. k
      BY <1>1, <1>4
    <3> QED
      BY <1>2, <1>3, <2>1, <2>2, <3>1
  <2>5. ASSUME \A j \in 1 .. n : s[j] = t[k - n + j], NEW i \in 1 .. n
        PROVE  p[i] = q[i]
    <3>1. n - i + 1 \in 1 .. n /\ k - n + (n - i + 1) = k - i + 1
      BY <1>1
    <3>2. s[n - i + 1] = t[k - n + (n - i + 1)]
      BY <2>5, <3>1
    <3> QED
      BY <2>4, <3>1, <3>2
  <2>6. ASSUME \A i \in 1 .. n : p[i] = q[i], NEW j \in 1 .. n
        PROVE  s[j] = t[k - n + j]
    <3> DEFINE i == n - j + 1
    <3>1. i \in 1 .. n /\ n - i + 1 = j /\ k - i + 1 = k - n + j
      BY <1>1
    <3> HIDE DEF i
    <3> QED
      BY <2>4, <2>6, <3>1
  <2>7. p = q <=> \A j \in 1 .. n : s[j] = t[k - n + j]
    BY <2>3, <2>5, <2>6
  <2> QED
    BY <2>7 DEF p, q
<1>5. IsSuffix(s, t) <=> n <= k /\ SubSeq(a, 1, n) = SubSeq(b, 1, n)
  BY <1>2, <1>3 DEF IsSuffix, IsPrefix, a, b
<1> QED
  BY <1>4, <1>5

\* More bytes are put behind both.
LEMMA SuffixGrows ==
  ASSUME NEW s \in Seq(Byte), NEW t \in Seq(Byte), NEW u \in Seq(Byte), IsSuffix(s, t)
  PROVE  IsSuffix(s \o u, t \o u)
<1> DEFINE n == Len(s)
           k == Len(t)
           l == Len(u)
           p == s \o u
           q == t \o u
<1>1. /\ n \in Nat /\ k \in Nat /\ l \in Nat
      /\ n <= k /\ \A j \in 1 .. n : s[j] = t[k - n + j]
  BY SuffixElements
<1>2. /\ p \in Seq(Byte) /\ Len(p) = n + l
      /\ \A i \in 1 .. n + l : p[i] = IF i <= n THEN s[i] ELSE u[i - n]
  BY ConcatProperties
<1>3. /\ q \in Seq(Byte) /\ Len(q) = k + l
      /\ \A i \in 1 .. k + l : q[i] = IF i <= k THEN t[i] ELSE u[i - k]
  BY ConcatProperties
<1> HIDE DEF p, q, n, k, l
<1>4. ASSUME NEW j \in 1 .. n + l
      PROVE  p[j] = q[Len(q) - Len(p) + j]
  <2> DEFINE i == Len(q) - Len(p) + j
  <2>1. i \in 1 .. k + l /\ i = k - n + j
    BY <1>1, <1>2, <1>3
  <2> HIDE DEF i
  <2>2. CASE j <= n
    <3>1. j \in 1 .. n /\ i <= k
      BY <1>1, <2>1, <2>2
    <3> QED
      BY <1>1, <1>2, <1>3, <2>1, <2>2, <3>1 DEF i
  <2>3. CASE ~(j <= n)
    <3>1. ~(i <= k) /\ i - k = j - n
      BY <1>1, <2>1, <2>3
    <3> QED
      BY <1>2, <1>3, <2>1, <2>3, <3>1 DEF i
  <2> QED
    BY <2>2, <2>3
<1>5. Len(p) <= Len(q)
  BY <1>1, <1>2, <1>3
<1>6. IsSuffix(p, q)
  BY <1>2, <1>3, <1>4, <1>5, SuffixElements
<1> QED
  BY <1>6 DEF p, q

\* The first bytes of the last ones are taken away.
LEMMA SuffixShrinks ==
  ASSUME NEW s \in Seq(Byte), NEW t \in Seq(Byte), NEW m \in Nat, m <= Len(s), IsSuffix(s, t)
  PROVE  IsSuffix(SubSeq(s, m + 1, Len(s)), t)
<1> DEFINE n == Len(s)
           k == Len(t)
           p == SubSeq(s, m + 1, n)
<1>1. /\ n \in Nat /\ k \in Nat
      /\ n <= k /\ \A j \in 1 .. n : s[j] = t[k - n + j]
  BY SuffixElements
<1>2. p \in Seq(Byte) /\ Len(p) = n - m /\ \A i \in 1 .. n - m : p[i] = s[m + i]
  BY RestFacts
<1> HIDE DEF p, n, k
<1>3. ASSUME NEW j \in 1 .. n - m
      PROVE  p[j] = t[k - Len(p) + j]
  <2> DEFINE i == m + j
  <2>1. i \in 1 .. n /\ k - Len(p) + j = k - n + i
    BY <1>1, <1>2 DEF n
  <2>2. p[j] = s[i]
    BY <1>2
  <2> HIDE DEF i
  <2> QED
    BY <1>1, <2>1, <2>2
<1>4. Len(p) <= k
  BY <1>1, <1>2 DEF n
<1>5. IsSuffix(p, t)
  BY <1>2, <1>3, <1>4, SuffixElements DEF k
<1> QED
  BY <1>5 DEF p, n

-----------------------------------------------------------------------------
(***************************************************************************)
(* The inductive invariant, action by action: the frames are in line, and  *)
(* nothing that could have been answered is left when the thread waits.    *)
(***************************************************************************)
IInv == StreamInv /\ NothingLeft

\* The frames of one message are its frame.
LEMMA FramesOne ==
  ASSUME NEW m \in TinyPBProtocol
  PROVE  Frames(<<m>>) = Frame(m)
<1>1. <<>> \in Seq(TinyPBProtocol) /\ Append(<<>>, m) = <<m>>
  BY EmptySeq
<1>2. Frames(<<m>>) = Frames(<<>>) \o Frame(m)
  BY <1>1, FramesAppend
<1>3. Frames(<<>>) = <<>> /\ Frame(m) \in Seq(Byte)
  BY <1>1, FramesSeq, FrameFacts
<1> QED
  BY <1>2, <1>3, ConcatEmptySeq

\* No frame is empty.
LEMMA FrameLength ==
  ASSUME NEW m \in TinyPBProtocol
  PROVE  Frame(m) \in Seq(Byte) /\ Len(Frame(m)) \in Nat /\ Len(Frame(m)) > 0
<1> DEFINE l == Len(Frame(m))
<1>1. l \in Nat /\ l >= 12
  BY FrameAtLeast
<1> HIDE DEF l
<1>2. l \in Nat /\ l > 0
  BY <1>1
<1> QED
  BY <1>2, FrameFacts DEF l

\* The three parts of the stream and what they are parts of.
LEMMA StreamFacts ==
  ASSUME IInv
  PROVE  /\ Contents(mSendBuffer) \in Seq(Byte) /\ Contents(mRecvBuffer) \in Seq(Byte)
         /\ Contents(replyBuffer) \in Seq(Byte) /\ socket \in Seq(Byte)
         /\ Len(Contents(mSendBuffer)) = ReadAble(mSendBuffer) /\ ReadAble(mSendBuffer) \in Nat
         /\ Len(Contents(mRecvBuffer)) = ReadAble(mRecvBuffer) /\ ReadAble(mRecvBuffer) \in Nat
         /\ Len(Contents(replyBuffer)) = ReadAble(replyBuffer) /\ ReadAble(replyBuffer) \in Nat
         /\ requests \in Seq(Messages) /\ requests \in Seq(TinyPBProtocol)
         /\ Len(requests) \in Nat /\ Len(messages) \in Nat
         /\ responses \in Seq(TinyPBProtocol) /\ Frames(responses) \in Seq(Byte)
         /\ clean /\ pc # "ended" =>
              /\ Undecoded \in Seq(Messages) /\ Undecoded \in Seq(TinyPBProtocol)
              /\ Len(Undecoded) = Len(requests) - Len(messages)
              /\ Frames(Undecoded) \in Seq(Byte)
              /\ ReadAble(mRecvBuffer) <= Len(Frames(Undecoded))
<1>1. /\ Sound(mSendBuffer) /\ Sound(mRecvBuffer) /\ Sound(replyBuffer)
      /\ socket \in Seq(Byte) /\ requests \in Seq(Messages)
      /\ messages \in Seq(TinyPBProtocol) /\ responses \in Seq(TinyPBProtocol)
  BY DEF IInv, StreamInv, TypeOK
<1>2. /\ Contents(mSendBuffer) \in Seq(Byte) /\ Contents(mRecvBuffer) \in Seq(Byte)
      /\ Contents(replyBuffer) \in Seq(Byte)
      /\ Len(Contents(mSendBuffer)) = ReadAble(mSendBuffer) /\ ReadAble(mSendBuffer) \in Nat
      /\ Len(Contents(mRecvBuffer)) = ReadAble(mRecvBuffer) /\ ReadAble(mRecvBuffer) \in Nat
      /\ Len(Contents(replyBuffer)) = ReadAble(replyBuffer) /\ ReadAble(replyBuffer) \in Nat
  <2>1. \A b : Sound(b) => /\ Contents(b) \in Seq(Byte) /\ Len(Contents(b)) = ReadAble(b)
                           /\ ReadAble(b) \in Nat
    BY ContentsFacts DEF Sound
  <2> QED
    BY <1>1, <2>1
<1>3. Messages \subseteq TinyPBProtocol
  BY ConnectionAssumption
<1>4. requests \in Seq(TinyPBProtocol) /\ Len(requests) \in Nat /\ Len(messages) \in Nat
  BY <1>1, <1>3, SeqMonotonic, LenProperties
<1>5. Frames(responses) \in Seq(Byte)
  BY <1>1, FramesSeq
<1>6. ASSUME clean, pc # "ended"
      PROVE  /\ Undecoded \in Seq(Messages) /\ Undecoded \in Seq(TinyPBProtocol)
             /\ Len(Undecoded) = Len(requests) - Len(messages)
             /\ Frames(Undecoded) \in Seq(Byte)
             /\ ReadAble(mRecvBuffer) <= Len(Frames(Undecoded))
  <2>1. /\ Len(messages) <= Len(requests)
        /\ Contents(mRecvBuffer) \o socket \o Contents(mSendBuffer) = Frames(Undecoded)
    BY <1>6 DEF IInv, StreamInv, Aligned
  <2>2. Undecoded \in Seq(Messages) /\ Len(Undecoded) = Len(requests) - Len(messages)
    BY <1>1, <1>4, <2>1, RestFacts DEF Undecoded
  <2>3. Undecoded \in Seq(TinyPBProtocol)
    BY <1>3, <2>2, SeqMonotonic
  <2>4. Frames(Undecoded) \in Seq(Byte)
    BY <2>3, FramesSeq
  <2> DEFINE r == Contents(mRecvBuffer)
             s == Contents(mSendBuffer)
  <2>5. r \o socket \in Seq(Byte) /\ Len(r \o socket) = Len(r) + Len(socket)
    BY <1>1, <1>2, Lengths
  <2> DEFINE t == r \o socket
  <2>6. Len(t \o s) = Len(t) + Len(s) /\ t \o s = Frames(Undecoded)
    <3> HIDE DEF t
    <3> QED
      BY <1>2, <2>1, <2>5, Lengths DEF t
  <2>7. Len(socket) \in Nat /\ Len(s) \in Nat /\ Len(r) \in Nat
    BY <1>1, <1>2
  <2> DEFINE l == Len(Frames(Undecoded))
  <2>8. l = Len(r) + Len(socket) + Len(s) /\ Len(r) = ReadAble(mRecvBuffer)
    BY <1>2, <2>5, <2>6
  <2> HIDE DEF r, s, t, l
  <2>9. ReadAble(mRecvBuffer) <= l
    BY <2>7, <2>8
  <2> QED
    BY <2>2, <2>3, <2>4, <2>9 DEF l
<1> QED
  BY <1>1, <1>2, <1>4, <1>5, <1>6

\* A call puts its frame behind the stream, which has no rest of another one
\* in the send buffer while it is clean.
LEMMA CallStep ==
  ASSUME IInv, NEW m \in Messages, Call(m)
  PROVE  IInv' /\ Service!Call(m)
<1>1. /\ mSendBuffer' = Encode(<<m>>, New(BufferSize))
      /\ requests' = Append(requests, m)
      /\ clean' = (clean /\ ~Cut)
      /\ socket' = socket /\ mRecvBuffer' = mRecvBuffer /\ pc' = pc /\ messages' = messages
      /\ replyBuffer' = replyBuffer /\ responses' = responses
  BY DEF Call, server
<1>2. TypeOK /\ Aligned /\ Unsplit /\ RepliesAligned /\ NothingLeft
  BY DEF IInv, StreamInv
<1>3. m \in TinyPBProtocol /\ Frame(m) \in Seq(Byte) /\ Len(Frame(m)) \in Nat /\ Len(Frame(m)) > 0
  BY ConnectionAssumption, FrameLength
<1>4. Sound(mSendBuffer') /\ Contents(mSendBuffer') = Frame(m)
  <2>1. Sound(New(BufferSize)) /\ Contents(New(BufferSize)) = <<>>
    BY NewFacts, ConnectionAssumption
  <2>2. <<m>> \in Seq(TinyPBProtocol)
    BY <1>3
  <2>3. /\ Sound(Encode(<<m>>, New(BufferSize)))
        /\ Contents(Encode(<<m>>, New(BufferSize))) = <<>> \o Frames(<<m>>)
    BY <2>1, <2>2, EncodeFacts
  <2> QED
    BY <1>1, <1>3, <2>3, FramesOne, ConcatEmptySeq
<1>5. TypeOK'
  <2>1. requests' \in Seq(Messages)
    BY <1>1, <1>2, AppendProperties DEF TypeOK
  <2> QED
    BY <1>1, <1>2, <1>4, <2>1 DEF TypeOK
<1>6. RepliesAligned'
  BY <1>1, <1>2 DEF RepliesAligned
<1>7. ASSUME clean', pc' # "ended"
      PROVE  /\ clean /\ pc # "ended" /\ Len(messages) <= Len(requests)
             /\ Undecoded' = Append(Undecoded, m)
             /\ SubSeq(requests', 1, Len(messages)) = SubSeq(requests, 1, Len(messages))
  <2>1. clean /\ pc # "ended"
    BY <1>1, <1>7
  <2>2. Len(messages) <= Len(requests)
    BY <1>2, <2>1 DEF Aligned
  <2>3. /\ requests \in Seq(Messages) /\ Len(messages) \in Nat
    BY StreamFacts
  <2> DEFINE n == Len(messages)
  <2>4. /\ SubSeq(Append(requests, m), n + 1, Len(Append(requests, m)))
             = Append(SubSeq(requests, n + 1, Len(requests)), m)
        /\ SubSeq(Append(requests, m), 1, n) = SubSeq(requests, 1, n)
    <3>1. n \in Nat /\ n <= Len(requests)
      BY <2>2, <2>3
    <3> HIDE DEF n
    <3> QED
      BY <2>3, <3>1, RestAppend
  <2>5. Undecoded' = SubSeq(Append(requests, m), n + 1, Len(Append(requests, m)))
    BY <1>1 DEF Undecoded
  <2> QED
    BY <1>1, <2>1, <2>2, <2>4, <2>5 DEF Undecoded
<1>8. Aligned'
  <2> SUFFICES ASSUME clean', pc' # "ended"
               PROVE  /\ Len(messages) <= Len(requests')
                      /\ messages = SubSeq(requests', 1, Len(messages))
                      /\ Contents(mRecvBuffer) \o socket \o Contents(mSendBuffer') = Frames(Undecoded')
    BY <1>1 DEF Aligned
  <2>1. Len(requests') = Len(requests) + 1 /\ Len(requests) \in Nat /\ Len(messages) \in Nat
    BY <1>1, StreamFacts, AppendProperties
  <2>2. Contents(mSendBuffer) = <<>>
    <3>1. ~Cut
      BY <1>1
    <3>2. Contents(mSendBuffer) \in Seq(Byte) /\ Len(Contents(mSendBuffer)) = ReadAble(mSendBuffer)
          /\ ReadAble(mSendBuffer) \in Nat
      BY StreamFacts
    <3>3. ReadAble(mSendBuffer) = 0
      BY <3>1, <3>2 DEF Cut
    <3> QED
      BY <3>2, <3>3, EmptySeq
  <2>3. Contents(mRecvBuffer) \o socket = Frames(Undecoded)
    <3>1. Contents(mRecvBuffer) \o socket \o <<>> = Frames(Undecoded)
      BY <1>2, <1>7, <2>2 DEF Aligned
    <3>2. Contents(mRecvBuffer) \o socket \in Seq(Byte)
      BY StreamFacts, Lengths
    <3> QED
      BY <3>1, <3>2, ConcatEmptySeq
  <2>4. Frames(Undecoded') = Frames(Undecoded) \o Frame(m)
    BY <1>3, <1>7, StreamFacts, FramesAppend
  <2>5. messages = SubSeq(requests, 1, Len(messages))
    BY <1>2, <1>7 DEF Aligned
  <2>6. Len(messages) <= Len(requests')
    BY <1>7, <2>1
  <2> QED
    BY <1>4, <1>7, <2>3, <2>4, <2>5, <2>6
<1>9. Unsplit'
  <2> SUFFICES ASSUME clean', pc' = "decode", SplitIn(Contents(mRecvBuffer), Undecoded')
               PROVE  FALSE
    BY <1>1 DEF Unsplit
  <2>1. pc' # "ended"
    OBVIOUS
  <2>2. SplitIn(Contents(mRecvBuffer), Append(Undecoded, m)) /\ clean /\ pc # "ended"
    BY <1>7, <2>1
  <2>3. SplitIn(Contents(mRecvBuffer), Undecoded)
    BY <1>3, <2>2, StreamFacts, SplitAppend
  <2> QED
    BY <1>1, <1>2, <2>2, <2>3 DEF Unsplit
<1>10. NothingLeft'
  <2> SUFFICES ASSUME clean', pc = "idle"
               PROVE  ReadAble(mRecvBuffer) < Len(Frame(Head(requests')))
    BY <1>1 DEF NothingLeft
  <2>1. pc' # "ended" /\ clean /\ pc # "ended"
    BY <1>1
  <2>2. requests \in Seq(Messages) /\ Len(requests) \in Nat /\ ReadAble(mRecvBuffer) \in Nat
    BY StreamFacts
  <2>3. CASE requests = <<>>
    <3>1. Len(Undecoded) = 0
      BY <1>7, <2>1, <2>2, <2>3, StreamFacts
    <3>2. Undecoded = <<>>
      BY <2>1, <3>1, StreamFacts, EmptySeq
    <3>3. Frames(Undecoded) = <<>>
      BY <2>1, <3>2, StreamFacts, FramesSeq
    <3>4. Len(<<>>) = 0
      OBVIOUS
    <3>5. ReadAble(mRecvBuffer) <= 0
      BY <2>1, <3>3, <3>4, StreamFacts
    <3>6. Head(requests') = m
      BY <1>1, <2>3
    <3> QED
      BY <1>3, <2>2, <3>5, <3>6
  <2>4. CASE requests # <<>>
    <3>1. Head(requests') = Head(requests)
      BY <1>1, <2>2, <2>4, AppendProperties
    <3> QED
      BY <1>2, <2>1, <2>4, <3>1 DEF NothingLeft
  <2> QED
    BY <2>3, <2>4
<1>11. Service!Call(m)
  BY <1>1 DEF Service!Call
<1> QED
  BY <1>5, <1>6, <1>8, <1>9, <1>10, <1>11 DEF IInv, StreamInv

\* What is taken of something is not more than there is of it.
LEMMA TakenFacts ==
  ASSUME NEW max \in Nat, NEW n \in Taken(max)
  PROVE  n \in Nat /\ 0 < n /\ n <= max
BY ConnectionAssumption DEF Taken

\* Bytes pass from the send buffer to the end of the socket.
LEMMA ClientWriteStep ==
  ASSUME IInv, ClientWrite
  PROVE  IInv' /\ UNCHANGED <<requests, responses>>
<1>1. PICK n \in Taken(ReadAble(mSendBuffer)) :
        /\ socket' = socket \o SubSeq(Contents(mSendBuffer), 1, n)
        /\ mSendBuffer' = MoveReadIndex(mSendBuffer, n)
        /\ mRecvBuffer' = mRecvBuffer /\ pc' = pc /\ messages' = messages
        /\ replyBuffer' = replyBuffer
        /\ requests' = requests /\ responses' = responses /\ clean' = clean
  BY DEF ClientWrite, server
<1>2. TypeOK /\ Aligned /\ Unsplit /\ RepliesAligned /\ NothingLeft
  BY DEF IInv, StreamInv
<1> DEFINE s == Contents(mSendBuffer)
           r == Contents(mRecvBuffer)
           p == SubSeq(s, 1, n)
           q == SubSeq(s, n + 1, Len(s))
<1>3. n \in Nat /\ n <= Len(s) /\ n <= ReadAble(mSendBuffer)
  BY StreamFacts, TakenFacts
<1>4. s \in Seq(Byte) /\ r \in Seq(Byte) /\ socket \in Seq(Byte)
  BY StreamFacts
<1>5. p \in Seq(Byte) /\ q \in Seq(Byte) /\ p \o q = s
  <2> HIDE DEF s
  <2> QED
    BY <1>3, <1>4, Halves
<1>6. Sound(mSendBuffer') /\ Contents(mSendBuffer') = q
  BY <1>1, <1>2, <1>3, MoveReadFacts DEF TypeOK
<1>7. socket' \in Seq(Byte) /\ socket' = socket \o p
  BY <1>1, <1>4, <1>5, Lengths
<1> HIDE DEF s, r, p, q
<1>8. r \o (socket \o p) \o q = r \o socket \o s
  <2>1. r \o socket \in Seq(Byte)
    BY <1>4, Lengths
  <2>2. (r \o socket) \o p = r \o (socket \o p)
    <3>1. r \in Seq(Byte) /\ socket \in Seq(Byte) /\ p \in Seq(Byte)
      BY <1>4, <1>5
    <3> QED
      BY <3>1, Associative, Zenon
  <2>3. ((r \o socket) \o p) \o q = (r \o socket) \o (p \o q)
    BY <1>5, <2>1, Associative, Zenon
  <2> QED
    BY <1>5, <2>2, <2>3
<1>9. TypeOK'
  BY <1>1, <1>2, <1>6, <1>7 DEF TypeOK
<1>10. Undecoded' = Undecoded
  BY <1>1 DEF Undecoded
<1>11. Aligned'
  BY <1>1, <1>2, <1>6, <1>7, <1>8, <1>10 DEF Aligned, r, s
<1>12. Unsplit' /\ RepliesAligned' /\ NothingLeft'
  BY <1>1, <1>2, <1>10 DEF Unsplit, RepliesAligned, NothingLeft
<1> QED
  BY <1>1, <1>9, <1>11, <1>12 DEF IInv, StreamInv

\* What is written of the responses is taken from the front.
LEMMA ServerWriteStep ==
  ASSUME IInv, ServerWrite
  PROVE  IInv' /\ UNCHANGED <<requests, responses>>
<1>1. PICK n \in Taken(ReadAble(replyBuffer)) :
        /\ replyBuffer' = MoveReadIndex(replyBuffer, n)
        /\ mSendBuffer' = mSendBuffer /\ socket' = socket /\ mRecvBuffer' = mRecvBuffer
        /\ pc' = pc /\ messages' = messages
        /\ requests' = requests /\ responses' = responses /\ clean' = clean
  BY DEF ServerWrite, client
<1>2. TypeOK /\ Aligned /\ Unsplit /\ RepliesAligned /\ NothingLeft
  BY DEF IInv, StreamInv
<1> DEFINE s == Contents(replyBuffer)
           t == Frames(responses)
<1>3. n \in Nat /\ n <= Len(s) /\ n <= ReadAble(replyBuffer)
  BY StreamFacts, TakenFacts
<1>4. s \in Seq(Byte) /\ t \in Seq(Byte) /\ IsSuffix(s, t)
  BY <1>2, StreamFacts DEF RepliesAligned
<1>5. Sound(replyBuffer') /\ Contents(replyBuffer') = SubSeq(s, n + 1, Len(s))
  BY <1>1, <1>2, <1>3, MoveReadFacts DEF TypeOK
<1> HIDE DEF s, t
<1>6. IsSuffix(SubSeq(s, n + 1, Len(s)), t)
  BY <1>3, <1>4, SuffixShrinks
<1>7. TypeOK'
  BY <1>1, <1>2, <1>5 DEF TypeOK
<1>8. Undecoded' = Undecoded
  BY <1>1 DEF Undecoded
<1>9. RepliesAligned'
  BY <1>1, <1>5, <1>6 DEF RepliesAligned, t
<1>10. Aligned' /\ Unsplit' /\ NothingLeft'
  BY <1>1, <1>2, <1>8 DEF Aligned, Unsplit, NothingLeft
<1> QED
  BY <1>1, <1>7, <1>9, <1>10 DEF IInv, StreamInv

\* Bytes pass from the socket to the receive buffer, in which there is room.
LEMMA ReadStep ==
  ASSUME IInv, Read
  PROVE  /\ IInv' /\ UNCHANGED <<requests, responses>>
         /\ Size(mRecvBuffer') \in Nat /\ Size(mRecvBuffer') >= Size(mRecvBuffer)
<1> DEFINE room == MakeRoom(mRecvBuffer)
           max  == Min({Len(socket), WriteAble(room)})
<1>1. PICK n \in Taken(max) :
        /\ mRecvBuffer' = MoveWriteIndex(Store(room, SubSeq(socket, 1, n)), n)
        /\ socket' = SubSeq(socket, n + 1, Len(socket))
        /\ pc \in {"idle", "read"} /\ pc' = "read"
        /\ mSendBuffer' = mSendBuffer /\ messages' = messages /\ replyBuffer' = replyBuffer
        /\ requests' = requests /\ responses' = responses /\ clean' = clean
  BY DEF Read, client
<1>2. TypeOK /\ Aligned /\ RepliesAligned
  BY DEF IInv, StreamInv
<1>3. /\ Sound(room) /\ Contents(room) = Contents(mRecvBuffer) /\ Size(room) # 0
      /\ Size(room) \in Nat /\ Size(room) >= Size(mRecvBuffer)
  BY <1>2, MakeRoomFacts DEF TypeOK
<1> DEFINE s == Contents(mSendBuffer)
           r == Contents(mRecvBuffer)
           p == SubSeq(socket, 1, n)
           q == SubSeq(socket, n + 1, Len(socket))
<1>4. s \in Seq(Byte) /\ r \in Seq(Byte) /\ socket \in Seq(Byte)
  BY StreamFacts
<1> HIDE DEF room
<1>5. n \in Nat /\ n <= Len(socket) /\ n <= WriteAble(room)
  <2>1. WriteAble(room) \in Nat /\ Len(socket) \in Nat
    BY <1>3, <1>4, ContentsFacts, LenProperties DEF Sound
  <2> DEFINE T == {Len(socket), WriteAble(room)}
  <2>2. T \in SUBSET Nat /\ T # {} /\ Len(socket) \in T /\ WriteAble(room) \in T
    BY <2>1
  <2> HIDE DEF T
  <2>3. Min(T) \in T /\ \A y \in T : Min(T) <= y
    BY <2>2, MinIn
  <2>4. max \in Nat /\ max <= Len(socket) /\ max <= WriteAble(room)
    BY <2>2, <2>3 DEF T
  <2> HIDE DEF max
  <2>5. n \in Nat /\ n <= max
    BY <2>4, TakenFacts
  <2> QED
    BY <2>1, <2>4, <2>5
<1> HIDE DEF max
<1>6. p \in Seq(Byte) /\ Len(p) = n /\ q \in Seq(Byte) /\ p \o q = socket
  BY <1>4, <1>5, Halves
<1> HIDE DEF s, r, p, q
<1>7. /\ Sound(mRecvBuffer') /\ Contents(mRecvBuffer') = r \o p
      /\ Size(mRecvBuffer') = Size(room) /\ Size(mRecvBuffer') # 0
  <2>1. LET c == MoveWriteIndex(Store(room, p), Len(p))
        IN  Sound(c) /\ Contents(c) = Contents(room) \o p /\ Size(c) = Size(room)
    BY <1>3, <1>5, <1>6, StoreFacts
  <2>2. mRecvBuffer' = MoveWriteIndex(Store(room, p), Len(p))
    BY <1>1, <1>6 DEF p
  <2> QED
    BY <1>3, <2>1, <2>2 DEF r
<1>8. (r \o p) \o q \o s = r \o socket \o s
  <2>1. (r \o p) \o q = r \o (p \o q)
    <3>1. r \in Seq(Byte) /\ p \in Seq(Byte) /\ q \in Seq(Byte)
      BY <1>4, <1>6
    <3> QED
      BY <3>1, Associative, Zenon
  <2> QED
    BY <1>6, <2>1
<1>9. TypeOK'
  <2>1. socket' \in Seq(Byte)
    BY <1>1, <1>6 DEF q
  <2>2. messages = <<>>
    BY <1>1, <1>2 DEF TypeOK
  <2> QED
    BY <1>1, <1>2, <1>7, <2>1, <2>2 DEF TypeOK
<1>10. Undecoded' = Undecoded
  BY <1>1 DEF Undecoded
<1>11. Aligned'
  <2> SUFFICES ASSUME clean
               PROVE  /\ Len(messages) <= Len(requests)
                      /\ messages = SubSeq(requests, 1, Len(messages))
                      /\ Contents(mRecvBuffer') \o socket' \o Contents(mSendBuffer)
                           = Frames(Undecoded)
    BY <1>1, <1>10 DEF Aligned
  <2>1. pc # "ended"
    BY <1>1
  <2>2. /\ Len(messages) <= Len(requests)
        /\ messages = SubSeq(requests, 1, Len(messages))
        /\ r \o socket \o s = Frames(Undecoded)
    BY <1>2, <2>1 DEF Aligned, r, s
  <2>3. Contents(mRecvBuffer') \o socket' \o Contents(mSendBuffer) = (r \o p) \o q \o s
    BY <1>1, <1>7 DEF q, s
  <2> QED
    BY <1>8, <2>2, <2>3
<1>12. Unsplit' /\ NothingLeft'
  BY <1>1 DEF Unsplit, NothingLeft
<1>13. RepliesAligned'
  BY <1>1, <1>2 DEF RepliesAligned
<1> QED
  BY <1>1, <1>3, <1>7, <1>9, <1>11, <1>12, <1>13 DEF IInv, StreamInv

\* The buffer is made longer before execute() begins, with what was in it.
LEMMA ReadAgainStep ==
  ASSUME IInv, ReadAgain
  PROVE  /\ IInv' /\ UNCHANGED <<requests, responses>>
         /\ Size(mRecvBuffer') \in Nat /\ Size(mRecvBuffer') >= Size(mRecvBuffer)
<1>1. /\ mRecvBuffer' = MakeRoom(mRecvBuffer)
      /\ pc = "read" /\ pc' = "decode" /\ clean' = (clean /\ ~Split)
      /\ mSendBuffer' = mSendBuffer /\ socket' = socket /\ messages' = messages
      /\ replyBuffer' = replyBuffer /\ requests' = requests /\ responses' = responses
  BY DEF ReadAgain, client
<1>2. TypeOK /\ Aligned /\ RepliesAligned
  BY DEF IInv, StreamInv
<1>3. /\ Sound(mRecvBuffer') /\ Contents(mRecvBuffer') = Contents(mRecvBuffer)
      /\ Size(mRecvBuffer') # 0 /\ Size(mRecvBuffer') \in Nat
      /\ Size(mRecvBuffer') >= Size(mRecvBuffer)
  BY <1>1, <1>2, MakeRoomFacts DEF TypeOK
<1>4. TypeOK'
  BY <1>1, <1>2, <1>3 DEF TypeOK
<1>5. Undecoded' = Undecoded
  BY <1>1 DEF Undecoded
<1>6. Aligned'
  BY <1>1, <1>2, <1>3, <1>5 DEF Aligned
<1>7. Undecoded = requests
  <2>1. messages = <<>> /\ Len(<<>>) = 0 /\ 0 + 1 = 1
    BY <1>1, <1>2 DEF TypeOK
  <2>2. SubSeq(requests, 1, Len(requests)) = requests
    BY StreamFacts, SubSeqFull
  <2> QED
    BY <2>1, <2>2 DEF Undecoded
<1>8. Unsplit'
  BY <1>1, <1>3, <1>5, <1>7 DEF Unsplit, Split
<1>9. RepliesAligned' /\ NothingLeft'
  BY <1>1, <1>2 DEF RepliesAligned, NothingLeft
<1> QED
  BY <1>1, <1>3, <1>4, <1>6, <1>8, <1>9 DEF IInv, StreamInv

\* While the stream is clean, what can be read begins with a part of the first
\* frame that is not decoded, or with all of it and what is behind.
LEMMA FirstFrame ==
  ASSUME IInv, clean, pc = "decode", ReadAble(mRecvBuffer) > 0
  PROVE  LET f == Frame(Undecoded[1])
             r == Contents(mRecvBuffer)
             t == socket \o Contents(mSendBuffer)
             rest == SubSeq(Undecoded, 2, Len(Undecoded))
         IN  /\ Undecoded # <<>> /\ Undecoded[1] \in Messages
             /\ \/ \E x \in Seq(Byte) : r = f \o x /\ Frames(rest) = x \o t
                \/ \E x \in Seq(Byte) : f = r \o x /\ x # <<>> /\ Len(r) < Len(f)
<1> DEFINE u == Undecoded
           f == Frame(u[1])
           r == Contents(mRecvBuffer)
           s == Contents(mSendBuffer)
           t == socket \o s
           rest == SubSeq(u, 2, Len(u))
           g == Frames(rest)
<1>1. /\ r \in Seq(Byte) /\ s \in Seq(Byte) /\ socket \in Seq(Byte)
      /\ Len(r) = ReadAble(mRecvBuffer) /\ ReadAble(mRecvBuffer) \in Nat
      /\ u \in Seq(Messages) /\ u \in Seq(TinyPBProtocol)
      /\ ReadAble(mRecvBuffer) <= Len(Frames(u))
  BY StreamFacts
<1>2. r \o socket \o s = Frames(u)
  BY DEF IInv, StreamInv, Aligned
<1> HIDE DEF u, r, s
<1>3. u # <<>>
  <2> SUFFICES ASSUME u = <<>> PROVE FALSE
    OBVIOUS
  <2>1. Frames(u) = <<>> /\ Len(<<>>) = 0
    BY <1>1, FramesSeq
  <2>2. Len(Frames(u)) = 0
    BY <2>1
  <2> QED
    BY <1>1, <2>2
<1>4. u[1] \in Messages /\ u[1] \in TinyPBProtocol
  BY <1>1, <1>3, ConnectionAssumption, EmptySeq
<1>5. f \in Seq(Byte) /\ Len(f) \in Nat
  BY <1>4, FrameFacts, LenProperties
<1>6. rest \in Seq(TinyPBProtocol)
  <2>1. 1 \in Nat /\ 1 <= Len(u) /\ 1 + 1 = 2
    BY <1>1, <1>3, EmptySeq
  <2>2. SubSeq(u, 1 + 1, Len(u)) \in Seq(TinyPBProtocol)
    BY <1>1, <2>1, RestFacts
  <2> QED
    BY <2>1, <2>2
<1>7. g \in Seq(Byte)
  BY <1>6, FramesSeq
<1>8. Frames(u) = f \o g
  BY <1>1, <1>3, FramesFirst
<1>9. t \in Seq(Byte) /\ r \o t = f \o g
  <2>1. t \in Seq(Byte)
    BY <1>1, Lengths
  <2>2. (r \o socket) \o s = r \o (socket \o s)
    BY <1>1, Associative
  <2> QED
    BY <1>2, <1>8, <2>1, <2>2
<1> HIDE DEF f, g, t, rest
<1>10. CASE Len(f) <= Len(r)
  <2>1. r \in Seq(Byte) /\ t \in Seq(Byte) /\ f \in Seq(Byte) /\ g \in Seq(Byte)
    BY <1>1, <1>5, <1>7, <1>9
  <2>2. r \o t = f \o g
    BY <1>9
  <2>3. Common(r, t, f, g)
    BY <1>10, <2>1, <2>2, Levi
  <2>4. \E x \in Seq(Byte) : r = f \o x /\ g = x \o t
    BY <2>3 DEF Common
  <2> QED
    BY <1>3, <1>4, <2>4 DEF u, f, r, t, s, g, rest
<1>11. CASE Len(r) < Len(f)
  <2>1. r \in Seq(Byte) /\ t \in Seq(Byte) /\ f \in Seq(Byte) /\ g \in Seq(Byte)
    BY <1>1, <1>5, <1>7, <1>9
  <2>2. Len(r) <= Len(f)
    BY <1>1, <1>5, <1>11
  <2>3. f \o g = r \o t
    BY <1>9
  <2>4. Common(f, g, r, t)
    BY <2>1, <2>2, <2>3, Levi
  <2>5. PICK x \in Seq(Byte) : f = r \o x /\ t = x \o g
    BY <2>4 DEF Common
  <2>6. x # <<>>
    <3>1. Len(f) = Len(r) + Len(x) /\ Len(x) \in Nat
      <4>1. Len(r \o x) = Len(r) + Len(x)
        BY <2>1, Lengths
      <4> QED
        BY <2>5, <4>1, LenProperties
    <3> DEFINE l == Len(x)
    <3>2. l # 0
      <4>1. Len(f) = Len(r) + l /\ l \in Nat
        BY <3>1
      <4> HIDE DEF l
      <4> QED
        BY <1>1, <1>11, <4>1
    <3> QED
      BY <3>2
  <2>7. \E y \in Seq(Byte) : f = r \o y /\ y # <<>> /\ Len(r) < Len(f)
    BY <1>11, <2>5, <2>6
  <2> QED
    BY <1>3, <1>4, <2>7 DEF u, f, r
<1>12. Len(f) <= Len(r) \/ Len(r) < Len(f)
  BY <1>1, <1>5
<1> QED
  BY <1>10, <1>11, <1>12

\* In a state of the invariant, only a request that does not fit behind the read
\* index makes the scan read beyond the array.
LEMMA BeyondFacts ==
  ASSUME IInv
  PROVE  BeyondIfTooLong
<1> DEFINE b == mRecvBuffer
           u == Undecoded
<1> SUFFICES ASSUME clean, pc = "decode", ReadAble(b) > 0, Outside(b) \/ Overrun(b)
             PROVE  u # <<>> /\ b.mReadIndex + Len(Frame(Head(u))) > Size(b)
  BY DEF BeyondIfTooLong
<1>1. Sound(b)
  BY DEF IInv, StreamInv, TypeOK
<1>2. /\ u # <<>> /\ u[1] \in Messages
      /\ \/ \E x \in Seq(Byte) : Contents(b) = Frame(u[1]) \o x
         \/ \E x \in Seq(Byte) : /\ Frame(u[1]) = Contents(b) \o x /\ x # <<>>
                                 /\ Len(Contents(b)) < Len(Frame(u[1]))
  BY FirstFrame
<1>3. ~ \E x \in Seq(Byte) : Contents(b) = Frame(u[1]) \o x
  BY <1>1, <1>2, WholeInside
<1>4. PICK x \in Seq(Byte) : /\ Frame(u[1]) = Contents(b) \o x /\ x # <<>>
                             /\ Len(Contents(b)) < Len(Frame(u[1]))
  BY <1>2, <1>3
<1>5. \A i \in 2 .. Len(Contents(b)) : Contents(b)[i] # START
  <2>1. u \in Seq(TinyPBProtocol) /\ Contents(b) \in Seq(Byte)
    BY StreamFacts
  <2>2. ~SplitIn(Contents(b), u)
    BY DEF IInv, StreamInv, Unsplit
  <2> QED
    BY <1>2, <1>4, <2>1, <2>2, SplitFirst
<1>6. Outside(b)
  BY <1>1, <1>2, <1>4, <1>5, PartFacts
<1>7. b.mReadIndex + Len(Frame(u[1])) > Size(b)
  BY <1>1, <1>2, <1>4, <1>5, <1>6, PartOutside
<1>8. Head(u) = u[1]
  OBVIOUS
<1> QED
  BY <1>2, <1>7, <1>8

\* Decode pushes the first request that is not yet pushed, and nothing else: a
\* part of one is not taken for a message.
LEMMA DecodeMessageStep ==
  ASSUME IInv, DecodeMessage
  PROVE  /\ IInv' /\ UNCHANGED <<requests, responses>>
         /\ Size(mRecvBuffer') \in Nat /\ Size(mRecvBuffer') >= Size(mRecvBuffer)
<1> DEFINE b == mRecvBuffer
           n == Len(messages)
           u == Undecoded
           rest == SubSeq(u, 2, Len(u))
<1>1. /\ pc = "decode" /\ ReadAble(b) > 0 /\ Parses(b) /\ Layout(b)[5] <= endIndex(b)
      /\ messages' = Append(messages, Message(b)) /\ mRecvBuffer' = Consumed(b)
      /\ mSendBuffer' = mSendBuffer /\ socket' = socket /\ pc' = pc
      /\ replyBuffer' = replyBuffer
      /\ requests' = requests /\ responses' = responses /\ clean' = clean
  BY DEF DecodeMessage, client
<1>2. TypeOK /\ Aligned /\ Unsplit /\ RepliesAligned
  BY DEF IInv, StreamInv
<1>3. Sound(b)
  BY <1>2 DEF TypeOK
<1>4. TypeOK'
  <2>1. /\ Message(b) \in TinyPBProtocol
        /\ Sound(mRecvBuffer') /\ Size(mRecvBuffer') # 0
    BY <1>1, <1>2, <1>3, DecodedFacts DEF TypeOK
  <2>2. messages' \in Seq(TinyPBProtocol)
    BY <1>1, <1>2, <2>1, AppendProperties DEF TypeOK
  <2> QED
    BY <1>1, <1>2, <2>1, <2>2 DEF TypeOK
<1>5. ASSUME clean
      PROVE  /\ Len(messages') = n + 1 /\ n + 1 <= Len(requests)
             /\ messages' = SubSeq(requests, 1, n + 1)
             /\ Undecoded' = rest
             /\ Contents(mRecvBuffer') \o socket \o Contents(mSendBuffer) = Frames(rest)
             /\ ~SplitIn(Contents(mRecvBuffer'), rest)
  <2>1. /\ requests \in Seq(Messages) /\ Len(requests) \in Nat /\ n \in Nat
        /\ u \in Seq(Messages) /\ u \in Seq(TinyPBProtocol) /\ Len(u) = Len(requests) - n
        /\ Contents(b) \in Seq(Byte) /\ Contents(mSendBuffer) \in Seq(Byte) /\ socket \in Seq(Byte)
    BY <1>1, <1>5, StreamFacts
  <2>2. /\ u # <<>> /\ u[1] \in Messages
        /\ \/ \E x \in Seq(Byte) : /\ Contents(b) = Frame(u[1]) \o x
                                   /\ Frames(rest) = x \o (socket \o Contents(mSendBuffer))
           \/ \E x \in Seq(Byte) : /\ Frame(u[1]) = Contents(b) \o x /\ x # <<>>
                                   /\ Len(Contents(b)) < Len(Frame(u[1]))
    BY <1>1, <1>5, FirstFrame
  <2>3. ~SplitIn(Contents(b), u)
    BY <1>1, <1>2, <1>5 DEF Unsplit
  <2>4. ~ \E x \in Seq(Byte) : /\ Frame(u[1]) = Contents(b) \o x /\ x # <<>>
                               /\ Len(Contents(b)) < Len(Frame(u[1]))
    <3> SUFFICES ASSUME NEW x \in Seq(Byte), Frame(u[1]) = Contents(b) \o x, x # <<>>,
                        Len(Contents(b)) < Len(Frame(u[1]))
                 PROVE  FALSE
      OBVIOUS
    <3>1. \A i \in 2 .. Len(Contents(b)) : Contents(b)[i] # START
      BY <2>1, <2>2, <2>3, SplitFirst
    <3>2. ~Parses(b)
      BY <1>3, <2>2, <3>1, PartFacts
    <3> QED
      BY <1>1, <3>2
  <2>5. PICK x \in Seq(Byte) : /\ Contents(b) = Frame(u[1]) \o x
                               /\ Frames(rest) = x \o (socket \o Contents(mSendBuffer))
    BY <2>2, <2>4
  <2>6. Message(b) = u[1] /\ Contents(mRecvBuffer') = x
    BY <1>1, <1>3, <2>2, <2>5, WholeFacts
  <2>7. Len(u) > 0 /\ n < Len(requests) /\ n <= Len(requests)
    <3>1. Len(u) # 0 /\ Len(u) \in Nat
      BY <2>1, <2>2, EmptySeq
    <3> HIDE DEF u, n
    <3> QED
      BY <2>1, <3>1
  <2>8. u[1] = requests[n + 1] /\ rest = SubSeq(requests, n + 1 + 1, Len(requests))
    <3>1. u = SubSeq(requests, n + 1, Len(requests))
      BY DEF Undecoded
    <3>2. 1 \in 1 .. Len(requests) - n
      BY <2>1, <2>7
    <3> HIDE DEF u, n
    <3>3. /\ \A i \in 1 .. Len(requests) - n : u[i] = requests[n + i]
          /\ SubSeq(u, 2, Len(u)) = SubSeq(requests, n + 1 + 1, Len(requests))
      BY <2>1, <2>7, <3>1, RestFacts
    <3> QED
      BY <3>2, <3>3
  <2>9. messages' = SubSeq(requests, 1, n + 1) /\ Len(messages') = n + 1
    <3>1. messages = SubSeq(requests, 1, n)
      BY <1>1, <1>2, <1>5 DEF Aligned
    <3>2. messages' = Append(messages, requests[n + 1])
      BY <1>1, <2>6, <2>8
    <3> HIDE DEF n
    <3>3. 1 \in 1 .. Len(requests) /\ n + 1 \in 1 .. Len(requests) /\ n + 1 - 1 = n
      BY <2>1, <2>7
    <3>4. SubSeq(requests, 1, n + 1) = SubSeq(requests, 1, n) \o <<requests[n + 1]>>
      BY <2>1, <3>3, SubSeqRecursiveSecond
    <3>5. messages \in Seq(Messages) /\ Len(messages) = n
      BY <2>1, <2>7, <3>1
    <3>6. requests[n + 1] \in Messages
      BY <2>1, <3>3
    <3> QED
      BY <3>1, <3>2, <3>4, <3>5, <3>6, AppendIsConcat, AppendProperties
  <2>10. Undecoded' = rest
    BY <1>1, <2>8, <2>9 DEF Undecoded
  <2>11. Contents(mRecvBuffer') \o socket \o Contents(mSendBuffer) = Frames(rest)
    BY <2>1, <2>5, <2>6, Associative
  <2>12. ~SplitIn(x, rest)
    BY <2>1, <2>2, <2>3, <2>5, SplitRest
  <2>13. n + 1 <= Len(requests)
    BY <2>1, <2>7
  <2> QED
    BY <2>6, <2>9, <2>10, <2>11, <2>12, <2>13
<1>8. Size(mRecvBuffer') \in Nat /\ Size(mRecvBuffer') >= Size(mRecvBuffer)
  BY <1>1, <1>3, DecodedFacts, AtFacts
<1> HIDE DEF n, rest
<1>6. Aligned' /\ Unsplit'
  BY <1>1, <1>5 DEF Aligned, Unsplit
<1>7. RepliesAligned' /\ NothingLeft'
  BY <1>1, <1>2 DEF RepliesAligned, NothingLeft
<1> QED
  BY <1>1, <1>4, <1>6, <1>7, <1>8 DEF IInv, StreamInv

\* The rest of execute() answers what was pushed, which are the first requests,
\* puts the frames behind those that wait, and leaves no whole request behind.
LEMMA ExecuteStep ==
  ASSUME IInv, Execute
  PROVE  /\ IInv'
         /\ clean' => Service!Next \/ UNCHANGED <<requests, responses>>
<1> DEFINE n     == Len(messages)
           resps == [i \in DOMAIN messages |-> Dispatch(messages[i])]
<1>1. /\ pc = "decode" /\ DecodeEnds
      /\ replyBuffer' = Encode(resps, replyBuffer) /\ responses' = responses \o resps
      /\ requests' = SubSeq(requests, n + 1, Len(requests))
      /\ messages' = <<>> /\ pc' = "idle"
      /\ mSendBuffer' = mSendBuffer /\ socket' = socket /\ mRecvBuffer' = mRecvBuffer
      /\ clean' = clean
  BY DEF Execute
<1>2. TypeOK /\ Aligned /\ RepliesAligned
  BY DEF IInv, StreamInv
<1>3. /\ requests \in Seq(Messages) /\ Len(requests) \in Nat
      /\ messages \in Seq(TinyPBProtocol) /\ n \in Nat
      /\ responses \in Seq(TinyPBProtocol) /\ Len(responses) \in Nat
  BY <1>2, StreamFacts, LenProperties DEF TypeOK
<1>4. /\ resps \in Seq(TinyPBProtocol) /\ Len(resps) = n
      /\ \A i \in 1 .. n : resps[i] = Dispatch(messages[i]) /\ messages[i] \in TinyPBProtocol
  <2>1. DOMAIN messages = 1 .. n /\ \A i \in 1 .. n : messages[i] \in TinyPBProtocol
    BY <1>3
  <2>2. \A i \in 1 .. n : Dispatch(messages[i]) \in TinyPBProtocol
    BY <2>1, DispatchFacts
  <2> HIDE DEF n
  <2> QED
    BY <1>3, <2>1, <2>2
<1> HIDE DEF resps
<1>5. TypeOK'
  <2>1. requests' \in Seq(Messages)
    <3>1. CASE n <= Len(requests)
      <4> HIDE DEF n
      <4> QED
        BY <1>1, <1>3, <3>1, RestFacts
    <3>2. CASE ~(n <= Len(requests))
      <4>1. Len(requests) < n + 1
        BY <1>3, <3>2
      <4>2. requests' = <<>>
        BY <1>1, <1>3, <4>1, SubSeqEmpty
      <4> QED
        BY <4>2, EmptySeq
    <3> QED
      BY <3>1, <3>2
  <2>2. Sound(replyBuffer')
    BY <1>1, <1>2, <1>4, EncodeFacts DEF TypeOK
  <2>3. responses' \in Seq(TinyPBProtocol)
    BY <1>1, <1>3, <1>4, ConcatProperties
  <2>4. messages' \in Seq(TinyPBProtocol)
    BY <1>1, EmptySeq
  <2> QED
    BY <1>1, <1>2, <2>1, <2>2, <2>3, <2>4 DEF TypeOK
<1>6. RepliesAligned'
  <2> DEFINE s == Contents(replyBuffer)
             t == Frames(responses)
             u == Frames(resps)
  <2>1. s \in Seq(Byte) /\ t \in Seq(Byte) /\ u \in Seq(Byte) /\ IsSuffix(s, t)
    BY <1>2, <1>4, StreamFacts, FramesSeq DEF RepliesAligned
  <2>2. Contents(replyBuffer') = s \o u
    BY <1>1, <1>2, <1>4, EncodeFacts DEF TypeOK
  <2>3. Frames(responses') = t \o u
    BY <1>1, <1>3, <1>4, FramesConcat
  <2> HIDE DEF s, t, u
  <2>4. IsSuffix(s \o u, t \o u)
    BY <2>1, SuffixGrows
  <2> QED
    BY <2>2, <2>3, <2>4 DEF RepliesAligned
<1>7. ASSUME clean
      PROVE  /\ requests' = Undecoded /\ Undecoded' = Undecoded
             /\ n <= Len(requests) /\ Undecoded \in Seq(Messages)
  <2>1. requests' = Undecoded
    BY <1>1 DEF Undecoded
  <2>2. Undecoded \in Seq(Messages) /\ n <= Len(requests)
    BY <1>1, <1>2, <1>7, StreamFacts DEF Aligned
  <2>3. Undecoded' = SubSeq(requests', Len(<<>>) + 1, Len(requests'))
    BY <1>1 DEF Undecoded
  <2>4. Len(<<>>) + 1 = 1
    OBVIOUS
  <2>5. SubSeq(requests', 1, Len(requests')) = requests'
    BY <2>1, <2>2, SubSeqFull
  <2> QED
    BY <2>1, <2>2, <2>3, <2>4, <2>5
<1>8. Aligned'
  <2> SUFFICES ASSUME clean
               PROVE  /\ Len(<<>>) <= Len(requests')
                      /\ <<>> = SubSeq(requests', 1, Len(<<>>))
                      /\ Contents(mRecvBuffer) \o socket \o Contents(mSendBuffer) = Frames(Undecoded')
    BY <1>1 DEF Aligned
  <2>1. Contents(mRecvBuffer) \o socket \o Contents(mSendBuffer) = Frames(Undecoded)
    BY <1>1, <1>2 DEF Aligned
  <2>2. Len(requests') \in Nat /\ Len(<<>>) = 0
    BY <1>7, LenProperties
  <2>3. SubSeq(requests', 1, 0) = <<>>
    BY <1>7, SubSeqEmpty
  <2> QED
    BY <1>7, <2>1, <2>2, <2>3
<1>9. Unsplit'
  BY <1>1 DEF Unsplit
<1>10. NothingLeft'
  <2> SUFFICES ASSUME clean, Undecoded # <<>>
               PROVE  ReadAble(mRecvBuffer) < Len(Frame(Head(Undecoded)))
    BY <1>1, <1>7 DEF NothingLeft
  <2> DEFINE m == Undecoded[1]
             b == mRecvBuffer
  <2>1. m \in Messages /\ m \in TinyPBProtocol /\ Head(Undecoded) = m
    BY <1>7, ConnectionAssumption, EmptySeq
  <2>2. Len(Frame(m)) \in Nat /\ Len(Frame(m)) > 0
    BY <2>1, FrameLength
  <2>3. /\ Sound(b) /\ ReadAble(b) \in Nat /\ Len(Contents(b)) = ReadAble(b)
    BY <1>2, StreamFacts DEF TypeOK
  <2>4. CASE ReadAble(b) = 0
    BY <2>1, <2>2, <2>4
  <2>5. CASE ReadAble(b) > 0
    <3>1. ~Parses(b)
      BY <1>1, <2>5 DEF DecodeEnds
    <3>2. ~ \E x \in Seq(Byte) : Contents(b) = Frame(m) \o x
      BY <2>1, <2>3, <3>1, WholeFacts
    <3>3. Len(Contents(b)) < Len(Frame(m))
      BY <1>1, <2>5, <3>2, FirstFrame
    <3> QED
      BY <2>1, <2>3, <3>3
  <2> QED
    BY <2>3, <2>4, <2>5
<1>11. ASSUME clean
       PROVE  Service!Next \/ UNCHANGED <<requests, responses>>
  <2>1. /\ Len(responses') = Len(responses) + n
        /\ \A i \in 1 .. Len(responses) + n :
             responses'[i] = IF i <= Len(responses) THEN responses[i]
                             ELSE resps[i - Len(responses)]
        /\ responses' \in Seq(TinyPBProtocol)
    <3> DEFINE c == responses \o resps
    <3>1. /\ Len(c) = Len(responses) + Len(resps) /\ c \in Seq(TinyPBProtocol)
          /\ \A i \in 1 .. Len(responses) + Len(resps) :
               c[i] = IF i <= Len(responses) THEN responses[i] ELSE resps[i - Len(responses)]
      BY <1>3, <1>4, ConcatProperties
    <3>2. responses' = c
      BY <1>1
    <3> HIDE DEF c, n
    <3> QED
      BY <1>4, <3>1, <3>2
  <2>2. SubSeq(responses', 1, Len(responses)) = responses
    <3> DEFINE p == SubSeq(responses', 1, Len(responses))
    <3> HIDE DEF n
    <3>1. /\ p \in Seq(TinyPBProtocol) /\ Len(p) = Len(responses)
          /\ \A i \in 1 .. Len(responses) : p[i] = responses'[i]
      BY <1>3, <2>1
    <3>2. \A i \in 1 .. Len(responses) : i \in 1 .. Len(responses) + n /\ i <= Len(responses)
      BY <1>3
    <3>3. \A i \in 1 .. Len(responses) : p[i] = responses[i]
      BY <2>1, <3>1, <3>2
    <3> HIDE DEF p
    <3>4. p = responses
      BY <1>3, <3>1, <3>3, SeqEqual
    <3> QED
      BY <3>4 DEF p
  <2>3. ASSUME NEW i \in 1 .. n
        PROVE  Service!Answers(responses'[Len(responses) + i], requests[i])
    <3> DEFINE k == Len(responses) + i
    <3>1. k \in 1 .. Len(responses) + n /\ ~(k <= Len(responses)) /\ k - Len(responses) = i
      BY <1>3
    <3> HIDE DEF k
    <3>2. responses'[k] = Dispatch(messages[i])
      BY <1>4, <2>1, <3>1
    <3>3. messages[i] = requests[i]
      <4>1. messages = SubSeq(requests, 1, n)
        BY <1>1, <1>2, <1>11 DEF Aligned
      <4>2. \A j \in 1 .. n : SubSeq(requests, 1, n)[j] = requests[j]
        BY <1>3, <1>7, <1>11
      <4> HIDE DEF n
      <4> QED
        BY <4>1, <4>2
    <3>4. Service!Answers(Dispatch(messages[i]), messages[i])
      BY <1>4, DispatchFacts
    <3> QED
      BY <3>2, <3>3, <3>4 DEF k
  <2>4. CASE n = 0
    <3>1. resps = <<>> /\ responses' = responses
      BY <1>1, <1>3, <1>4, <2>4, EmptySeq, ConcatEmptySeq
    <3>2. requests' = requests
      <4>1. n + 1 = 1
        BY <2>4
      <4> HIDE DEF n
      <4> QED
        BY <1>1, <1>3, <4>1, SubSeqFull
    <3> QED
      BY <3>1, <3>2
  <2>5. CASE n # 0
    <3>1. n \in 1 .. Len(requests)
      BY <1>3, <1>7, <1>11, <2>5
    <3>2. Service!Execute(n)
      BY <1>1, <2>1, <2>2, <2>3 DEF Service!Execute
    <3> QED
      BY <3>1, <3>2 DEF Service!Next
  <2> QED
    BY <2>4, <2>5
<1> QED
  BY <1>1, <1>5, <1>6, <1>8, <1>9, <1>10, <1>11 DEF IInv, StreamInv

\* At the start there is nothing anywhere.
LEMMA InitStream ==
  ASSUME Init
  PROVE  IInv /\ Service!Init
<1>1. /\ mSendBuffer = New(BufferSize) /\ mRecvBuffer = New(BufferSize)
      /\ replyBuffer = New(BufferSize)
      /\ socket = <<>> /\ pc = "idle" /\ messages = <<>> /\ requests = <<>> /\ responses = <<>>
      /\ clean = TRUE
  BY DEF Init
<1>2. LET b == New(BufferSize)
      IN  Sound(b) /\ Size(b) = BufferSize /\ ReadAble(b) = 0 /\ Contents(b) = <<>>
  BY ConnectionAssumption, NewFacts
<1>3. /\ <<>> \in Seq(Byte) /\ <<>> \in Seq(Messages) /\ <<>> \in Seq(TinyPBProtocol)
      /\ Len(<<>>) = 0 /\ SubSeq(<<>>, 1, 0) = <<>>
  BY EmptySeq, SubSeqEmpty
<1>4. TypeOK
  BY <1>1, <1>2, <1>3, ConnectionAssumption DEF TypeOK
<1>5. Frames(<<>>) = <<>> /\ <<>> \o <<>> = <<>>
  BY <1>3, FramesSeq, ConcatEmptySeq
<1>6. Undecoded = <<>>
  <2>1. Undecoded = SubSeq(<<>>, 0 + 1, 0)
    BY <1>1, <1>3 DEF Undecoded
  <2>2. 0 + 1 = 1
    OBVIOUS
  <2> QED
    BY <1>3, <2>1, <2>2
<1>7. Aligned
  BY <1>1, <1>2, <1>3, <1>5, <1>6 DEF Aligned
<1>8. Unsplit /\ NothingLeft
  BY <1>1 DEF Unsplit, NothingLeft
<1>9. RepliesAligned
  <2> DEFINE e == <<>>
  <2>1. e \in Seq(Byte) /\ Len(e) = 0
    BY <1>3
  <2> HIDE DEF e
  <2>2. Len(e) <= Len(e) /\ \A j \in 1 .. Len(e) : e[j] = e[Len(e) - Len(e) + j]
    BY <2>1
  <2>3. IsSuffix(e, e)
    BY <2>1, <2>2, SuffixElements
  <2> USE DEF e
  <2> QED
    BY <1>1, <1>2, <1>5, <2>3 DEF RepliesAligned
<1> QED
  BY <1>1, <1>4, <1>7, <1>8, <1>9 DEF IInv, StreamInv, Service!Init

\* Every step keeps the invariant, and is one of the service as long as the
\* stream is clean.
LEMMA StreamStep ==
  ASSUME IInv, [Next]_vars
  PROVE  IInv' /\ [clean' => Service!Next]_<<requests, responses>>
<1>1. CASE \E m \in Messages : Call(m)
  BY <1>1, CallStep DEF Service!Next
<1>2. CASE ClientWrite
  BY <1>2, ClientWriteStep
<1>3. CASE Read
  BY <1>3, ReadStep
<1>4. CASE ReadAgain
  BY <1>4, ReadAgainStep
<1>5. CASE DecodeMessage
  BY <1>5, DecodeMessageStep
<1>6. CASE DecodeOutside
  <2>1. /\ pc' = "ended" /\ mSendBuffer' = mSendBuffer /\ socket' = socket
        /\ mRecvBuffer' = mRecvBuffer /\ messages' = messages /\ replyBuffer' = replyBuffer
        /\ requests' = requests /\ responses' = responses /\ clean' = clean
    BY <1>6 DEF DecodeOutside, client
  <2>2. TypeOK' /\ RepliesAligned'
    BY <2>1 DEF IInv, StreamInv, TypeOK, RepliesAligned
  <2>3. Aligned' /\ Unsplit' /\ NothingLeft'
    BY <2>1 DEF Aligned, Unsplit, NothingLeft
  <2> QED
    BY <2>1, <2>2, <2>3 DEF IInv, StreamInv
<1>7. CASE Execute
  BY <1>7, ExecuteStep
<1>8. CASE ServerWrite
  BY <1>8, ServerWriteStep
<1>9. CASE UNCHANGED vars
  <2>1. /\ pc' = pc /\ mSendBuffer' = mSendBuffer /\ socket' = socket
        /\ mRecvBuffer' = mRecvBuffer /\ messages' = messages /\ replyBuffer' = replyBuffer
        /\ requests' = requests /\ responses' = responses /\ clean' = clean
    BY <1>9 DEF vars
  <2>2. Undecoded' = Undecoded
    BY <2>1 DEF Undecoded
  <2> QED
    BY <2>1, <2>2 DEF IInv, StreamInv, TypeOK, Aligned, Unsplit, RepliesAligned, NothingLeft
<1> QED
  BY <1>1, <1>2, <1>3, <1>4, <1>5, <1>6, <1>7, <1>8, <1>9 DEF Next

-----------------------------------------------------------------------------
\* The inductive invariant holds in every state.
THEOREM Invariance == Spec => []IInv
<1>1. Init => IInv
  BY InitStream
<1>2. IInv /\ [Next]_vars => IInv'
  BY StreamStep
<1> QED
  BY <1>1, <1>2, PTL DEF Spec

\* The buffers and the socket hold the frames of the requests in order, from
\* the byte the server reads next to the one the client wrote last, and the
\* responses' bytes leave in theirs, whatever the pieces (tcp/connection.cpp).
THEOREM StreamIsAligned == Spec => []StreamInv
<1>1. IInv => StreamInv
  BY DEF IInv
<1> QED
  BY <1>1, Invariance, PTL

\* When the IO thread returns to epoll_wait, no request that has come whole is
\* left in the buffer (coder/tinypb_coder.cpp, Decode's loop).
THEOREM NothingIsLeft == Spec => []NothingLeft
<1>1. IInv => NothingLeft
  BY DEF IInv
<1> QED
  BY <1>1, Invariance, PTL

\* Refinement: while the stream is clean, the bytes that go through two
\* buffers and a socket, and execute(), do what RpcService says: each request
\* is answered once, in order, with its own id and by its own method.
THEOREM RequestsAnsweredInOrder == Spec => AnsweredInOrder
<1>1. Init => Service!Init
  BY InitStream
<1>2. IInv /\ [Next]_vars => [clean' => Service!Next]_<<requests, responses>>
  BY StreamStep
<1> QED
  BY <1>1, <1>2, Invariance, PTL DEF Spec, AnsweredInOrder

\* While the stream is clean, the scan reads beyond the array only for a request
\* that is too long to fit behind the read index, of which a part has come
\* (coder/tinypb_coder.cpp:107-114).
THEOREM NothingElseIsBeyond == Spec => []BeyondIfTooLong
<1>1. IInv => BeyondIfTooLong
  BY BeyondFacts
<1> QED
  BY <1>1, Invariance, PTL

-----------------------------------------------------------------------------
(***************************************************************************)
(* What a server is safe from that gets no long requests.                  *)
(***************************************************************************)
\* Decode has ended the process while the stream was clean: some request is
\* longer than half of the capacity the buffers are made with.
EndedByLong == clean /\ pc = "ended" => \E m \in Messages : 2 * Len(Frame(m)) > BufferSize

\* The array of mRecvBuffer is never smaller than it was made.
Capacious == Size(mRecvBuffer) \in Nat /\ Size(mRecvBuffer) >= BufferSize

LEMMA LongInit ==
  ASSUME Init
  PROVE  Capacious /\ EndedByLong
<1>1. pc = "idle" /\ mRecvBuffer = New(BufferSize)
  BY DEF Init
<1>2. BufferSize \in Nat /\ Size(New(BufferSize)) = BufferSize
  BY ConnectionAssumption, NewFacts
<1> QED
  BY <1>1, <1>2 DEF Capacious, EndedByLong

LEMMA LongStep ==
  ASSUME IInv, Capacious, EndedByLong, [Next]_vars
  PROVE  Capacious' /\ EndedByLong'
<1> DEFINE z == Size(mRecvBuffer)
<1>1. BufferSize \in Nat /\ z \in Nat /\ z >= BufferSize
  BY ConnectionAssumption DEF Capacious
<1>2. CASE Read \/ ReadAgain \/ DecodeMessage
  <2>1. Size(mRecvBuffer') \in Nat /\ Size(mRecvBuffer') >= z
    BY <1>2, ReadStep, ReadAgainStep, DecodeMessageStep
  <2>2. pc' # "ended"
    BY <1>2 DEF Read, ReadAgain, DecodeMessage
  <2>3. Capacious'
    <3> DEFINE y == Size(mRecvBuffer')
    <3>1. y \in Nat /\ y >= z
      BY <2>1
    <3> HIDE DEF y, z
    <3>2. y >= BufferSize
      BY <1>1, <3>1
    <3> QED
      BY <3>1, <3>2 DEF y, Capacious
  <2> QED
    BY <2>2, <2>3 DEF EndedByLong
<1>3. CASE DecodeOutside
  <2> DEFINE r == mRecvBuffer.mReadIndex
             L == Len(Frame(Head(Undecoded)))
  <2>1. /\ pc = "decode" /\ ReadAble(mRecvBuffer) > 0
        /\ Outside(mRecvBuffer) \/ Overrun(mRecvBuffer)
        /\ mRecvBuffer' = mRecvBuffer /\ clean' = clean
    BY <1>3 DEF DecodeOutside
  <2>2. Capacious'
    BY <2>1 DEF Capacious
  <2>3. ASSUME clean
        PROVE  \E m \in Messages : 2 * Len(Frame(m)) > BufferSize
    <3>1. Undecoded # <<>> /\ r + L > z
      BY <2>1, <2>3, BeyondFacts DEF BeyondIfTooLong
    <3>2. Sound(mRecvBuffer)
      BY DEF IInv, StreamInv, TypeOK
    <3>3. r \in Nat /\ (r = 0 \/ r < z \div 2)
      BY <3>2, AtFacts DEF Sound
    <3>4. Undecoded[1] \in Messages /\ Head(Undecoded) = Undecoded[1]
      BY <2>1, <2>3, FirstFrame
    <3>5. L \in Nat
      BY <3>4, ConnectionAssumption, FrameAtLeast
    <3> HIDE DEF r, L, z
    <3>6. 2 * L > BufferSize
      BY <1>1, <3>1, <3>3, <3>5
    <3> QED
      BY <3>4, <3>6 DEF L
  <2> QED
    BY <2>1, <2>2, <2>3 DEF EndedByLong
<1>4. CASE (\E m \in Messages : Call(m)) \/ ClientWrite \/ Execute \/ ServerWrite
           \/ UNCHANGED vars
  <2>1. mRecvBuffer' = mRecvBuffer /\ (pc' = "ended" => pc = "ended") /\ (clean' => clean)
    <3>1. CASE \E m \in Messages : Call(m)
      BY <3>1 DEF Call, server
    <3>2. CASE ClientWrite
      BY <3>2 DEF ClientWrite, server
    <3>3. CASE Execute
      BY <3>3 DEF Execute
    <3>4. CASE ServerWrite
      BY <3>4 DEF ServerWrite
    <3>5. CASE UNCHANGED vars
      BY <3>5 DEF vars
    <3> QED
      BY <1>4, <3>1, <3>2, <3>3, <3>4, <3>5
  <2> QED
    BY <2>1 DEF Capacious, EndedByLong
<1> QED
  BY <1>2, <1>3, <1>4 DEF Next

\* Requests of no more than half of the capacity of mRecvBuffer never make the
\* scan read beyond it, in whatever pieces they come and wherever in the buffer
\* they begin: adjustBuffer keeps the other half behind the read index
\* (coder/tinypb_coder.cpp:107-114, tcp/buffer.cpp).
THEOREM ShortRequestsAreSafe == Spec => []EndedByLong
<1>1. Init => Capacious /\ EndedByLong
  BY LongInit
<1>2. IInv /\ Capacious /\ EndedByLong /\ [Next]_vars => (Capacious /\ EndedByLong)'
  BY LongStep
<1> QED
  BY <1>1, <1>2, Invariance, PTL DEF Spec
=============================================================================
