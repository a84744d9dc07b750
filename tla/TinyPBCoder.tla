---------------------------- MODULE TinyPBCoder ----------------------------
(***************************************************************************)
(* coder/tinypb_coder: messages as frames in a TCPBuffer.  A byte is a     *)
(* digit in 0 .. Base - 1, and an integer of the frame is two of them      *)
(* instead of four bytes, most significant first: that is enough for one   *)
(* to come in part and to contain a start or an end byte.                  *)
(***************************************************************************)
EXTENDS TCPBufferOps, Integers, FiniteSetsExt, SequencesExt

CONSTANTS Base,  \* number of values of a byte
          START, \* PB_START
          END    \* PB_END

ASSUME CoderAssumption ==
  /\ Base \in Nat
  /\ Byte = 0 .. Base - 1
  /\ START \in 1 .. Base - 1
  /\ END \in 1 .. Base - 1
  /\ START # END
  /\ Zero = 0

IntLen == 2

\* htonl and GetInt32FromNetByte.
NetInt(n) == <<(n \div Base) % Base, n % Base>>

\* tmp[i].  Whether i is in the array is asked in Outside and Overrun.
At(b, i) == IF i \in 0 .. Size(b) - 1 THEN b.mBuffer[i + 1] ELSE Zero

GetInt32(b, i) == Base * At(b, i) + At(b, i + 1)

-----------------------------------------------------------------------------
TinyPBProtocol ==
  [mMsgId : Seq(Byte), mMethodName : Seq(Byte), mErrCode : Nat,
   mErrInfo : Seq(Byte), mPbData : Seq(Byte)]

\* The markers and the five integers of a frame: 2 + 20 in the code.
Fixed == 2 + 5 * IntLen

Frame(m) ==
  LET packageLen == Fixed + Len(m.mMsgId) + Len(m.mMethodName) + Len(m.mErrInfo) + Len(m.mPbData)
  IN  <<START>> \o NetInt(packageLen)
        \o NetInt(Len(m.mMsgId)) \o m.mMsgId
        \o NetInt(Len(m.mMethodName)) \o m.mMethodName
        \o NetInt(m.mErrCode)
        \o NetInt(Len(m.mErrInfo)) \o m.mErrInfo
        \o m.mPbData \o <<END>>

Encode(messages, b) ==
  LET encoded[i \in 0 .. Len(messages)] ==
        IF i = 0 THEN b ELSE WriteToBuffer(encoded[i - 1], Frame(messages[i]))
  IN  encoded[Len(messages)]

-----------------------------------------------------------------------------
(***************************************************************************)
(* One round of Decode's loop.                                             *)
(***************************************************************************)
\* Where what can be read has a start byte.
Starts(b) == {i \in b.mReadIndex .. b.mWriteIndex - 1 : At(b, i) = START}

\* Mutant: the end byte is looked for behind the frame.
EndBehind(b, i) == i + GetInt32(b, i + 1)

\* j in the code.  It is -1 if the array begins with a start byte whose length
\* has not come; the byte there belongs to malloc and is not an end byte.
EndOf(b, i) == i + GetInt32(b, i + 1) - 1

Matches(b) == {i \in Starts(b) : EndOf(b, i) >= 0 /\ At(b, EndOf(b, i)) = END}

parseSuccess(b) == Matches(b) # {}
startIndex(b)   == Min(Matches(b))

\* The start bytes the scan looks at.
Scanned(b) == {i \in Starts(b) : parseSuccess(b) => i <= startIndex(b)}

\* The scan reads a length or an end byte beyond the array.
Outside(b) ==
  \E i \in Scanned(b) : i + IntLen >= Size(b) \/ EndOf(b, i) >= Size(b)

\* Indexes of the fields after packageLen: msgIdLen, methodNameLen, errCode,
\* errInfoLen and pbData; each but the last must be less than endIndex.
Layout(b) ==
  LET msgIdLen      == startIndex(b) + 1 + IntLen
      methodNameLen == msgIdLen + IntLen + GetInt32(b, msgIdLen)
      errCode       == methodNameLen + IntLen + GetInt32(b, methodNameLen)
      errInfoLen    == errCode + IntLen
      pbData        == errInfoLen + IntLen + GetInt32(b, errInfoLen)
  IN  <<msgIdLen, methodNameLen, errCode, errInfoLen, pbData>>

endIndex(b) == EndOf(b, startIndex(b))

Parses(b) == parseSuccess(b) /\ \A k \in 1 .. 4 : Layout(b)[k] < endIndex(b)

\* A string is copied from beyond the array, or pbDataLen is less than 0.
Overrun(b) ==
  /\ parseSuccess(b)
  /\ \E k \in 2 .. 5 : /\ \A l \in 1 .. k - 1 : Layout(b)[l] < endIndex(b)
                       /\ Layout(b)[k] > IF k < 5 THEN Size(b) ELSE endIndex(b)

\* Bytes from .. to - 1 of the array.
Bytes(b, from, to) == SubSeq(b.mBuffer, from + 1, to)

Message(b) ==
  LET at == Layout(b)
  IN  [mMsgId      |-> Bytes(b, at[1] + IntLen, at[2]),
       mMethodName |-> Bytes(b, at[2] + IntLen, at[3]),
       mErrCode    |-> GetInt32(b, at[3]),
       mErrInfo    |-> Bytes(b, at[4] + IntLen, at[5]),
       mPbData     |-> Bytes(b, at[5], endIndex(b))]

\* Mutant: the end byte is left in the buffer.
ConsumedShort(b) == MoveReadIndex(b, endIndex(b) - startIndex(b))

\* The bytes before startIndex are not counted.
Consumed(b) == MoveReadIndex(b, endIndex(b) - startIndex(b) + 1)
=============================================================================
