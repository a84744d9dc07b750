-------------------------- MODULE MCRpcConnection --------------------------
\* An instance of RpcConnection for TLC.
EXTENDS RpcConnection

MCByte == 0 .. 15

MCServices == (<<5>> :> {<<6>>, <<7>>})

Request(method, pb) ==
  [mMsgId |-> <<8>>, mMethodName |-> method, mErrCode |-> 0, mErrInfo |-> <<>>, mPbData |-> pb]

\* What a frame without strings looks like, and some more.
Inner == <<2, 0, 12, 0, 0, 0, 0, 0, 0, 0, 0, 3>> \o <<1, 1, 1>>

\* The answer to a payload that holds a start byte cannot be serialized.
MCPayloads == {<<>>, <<2>>, Inner}
MCServe    == <<>> :> <<1>> @@ <<2>> :> <<>> @@ Inner :> <<1>>

MCSerializable == {<<1>>}

MCMessages ==
  {Request(<<5, 4, 6>>, <<>>), Request(<<5, 4, 6>>, <<2>>), Request(<<5, 4, 6>>, <<1>>),
   Request(<<5, 4, 6>>, Inner), Request(<<5, 4, 8>>, <<>>),
   Request(<<6, 4, 6>>, <<>>), Request(<<6>>, <<>>)}
=============================================================================
