--------------------------- MODULE RpcConnection ---------------------------
(***************************************************************************)
(* One connection, byte by byte: RpcChannel encodes requests, the client's *)
(* onWrite and the network pass them on in pieces, the server's onRead     *)
(* receives them, execute() decodes, dispatches and encodes the responses, *)
(* and the server's onWrite writes those.  States of the connection and    *)
(* the loops that call the callbacks are the subject of other modules.     *)
(***************************************************************************)
EXTENDS TinyPBCoder, RpcDispatcher

CONSTANTS Messages,   \* requests
          BufferSize, \* capacity the buffers are made with
          Pieces,     \* bound: what read() and write() take if not all they can
          MaxCalls    \* bound: calls of the client

\* Lengths fit into an integer of a frame, and what the server puts into a
\* response are bytes.
ASSUME ConnectionAssumption ==
  /\ Messages \subseteq TinyPBProtocol
  /\ \A m \in Messages : m.mErrCode < Base * Base /\ Len(Frame(m)) < Base * Base
  /\ \A pb \in Parseable : Serve[pb] \in Seq(Byte)
  /\ DOMAIN mServiceMap \subseteq Seq(Byte)
  /\ \A service \in DOMAIN mServiceMap : mServiceMap[service] \subseteq Seq(Byte)
  /\ ERROR_PARSE_SERVICE_NAME < Base
  /\ Dot \in Byte
  /\ BufferSize \in Nat \ {0}
  /\ Pieces \subseteq Nat \ {0}
  /\ MaxCalls \in Nat

VARIABLES
  mSendBuffer, \* of the client's TCPConnection
  socket,      \* bytes written and not read
  mRecvBuffer, \* of the server's TCPConnection
  pc,          \* where the IO thread is in onRead
  messages,    \* what Decode has pushed
  replyBuffer, \* mSendBuffer of the server's TCPConnection
  requests,    \* history: made and not executed
  responses,   \* history: of the requests executed
  clean        \* history: see Cut and Split

server == <<mRecvBuffer, pc, messages, replyBuffer>>
client == <<mSendBuffer, requests>>
vars   == <<mSendBuffer, socket, mRecvBuffer, pc, messages, replyBuffer, requests, responses, clean>>

\* Sizes of what is taken of max bytes at a time.
Taken(max) == {n \in Pieces \cup {max} : 0 < n /\ n <= max}

Frames(ms) == FlattenSeq([i \in DOMAIN ms |-> Frame(ms[i])])

Init ==
  /\ mSendBuffer = New(BufferSize)
  /\ socket = <<>>
  /\ mRecvBuffer = New(BufferSize)
  /\ pc = "idle"
  /\ messages = <<>>
  /\ replyBuffer = New(BufferSize)
  /\ requests = <<>>
  /\ responses = <<>>
  /\ clean = TRUE

-----------------------------------------------------------------------------
(***************************************************************************)
(* The client.                                                             *)
(***************************************************************************)
\* The call before has timed out with its request half written.
Cut == ReadAble(mSendBuffer) > 0

\* CallMethod: OneCall replaces the send buffer by the one with the request.
Call(m) ==
  /\ Len(requests) + Len(responses) < MaxCalls
  /\ mSendBuffer' = Encode(<<m>>, New(BufferSize))
  /\ requests' = Append(requests, m)
  /\ clean' = (clean /\ ~Cut)
  /\ UNCHANGED <<socket, server, responses>>

\* onWrite: write() takes the first n bytes.
ClientWrite ==
  \E n \in Taken(ReadAble(mSendBuffer)) :
    /\ socket' = socket \o SubSeq(Contents(mSendBuffer), 1, n)
    /\ mSendBuffer' = MoveReadIndex(mSendBuffer, n)
    /\ UNCHANGED <<server, requests, responses, clean>>

-----------------------------------------------------------------------------
(***************************************************************************)
(* The server.                                                             *)
(***************************************************************************)
\* onRead: read() takes n bytes, no more than fit.
Read ==
  LET room == MakeRoom(mRecvBuffer)
  IN  /\ pc \in {"idle", "read"}
      /\ \E n \in Taken(Min({Len(socket), WriteAble(room)})) :
           /\ mRecvBuffer' = MoveWriteIndex(Store(room, SubSeq(socket, 1, n)), n)
           /\ socket' = SubSeq(socket, n + 1, Len(socket))
      /\ pc' = "read"
      /\ UNCHANGED <<client, messages, replyBuffer, responses, clean>>

\* What is there of the frames of ms ends inside one, with another start byte
\* in it.
SplitIn(there, ms) ==
  \E k \in DOMAIN ms :
    LET before == Len(Frames(SubSeq(ms, 1, k - 1)))
    IN  /\ Len(there) < before + Len(Frame(ms[k]))
        /\ \E i \in before + 2 .. Len(there) : there[i] = START

Split == SplitIn(Contents(mRecvBuffer), requests)

\* onRead: read() finds nothing more; there is room by now.  execute() begins.
ReadAgain ==
  /\ pc = "read"
  /\ mRecvBuffer' = MakeRoom(mRecvBuffer)
  /\ pc' = "decode"
  /\ clean' = (clean /\ ~Split)
  /\ UNCHANGED <<client, socket, messages, replyBuffer, responses>>

\* Decode: a round of the loop that pushes a message.
DecodeMessage ==
  /\ pc = "decode"
  /\ ReadAble(mRecvBuffer) > 0
  /\ Parses(mRecvBuffer)
  /\ Layout(mRecvBuffer)[5] <= endIndex(mRecvBuffer)
  /\ messages' = Append(messages, Message(mRecvBuffer))
  /\ mRecvBuffer' = Consumed(mRecvBuffer)
  /\ UNCHANGED <<client, socket, pc, replyBuffer, responses, clean>>

\* Decode reads what is not its own: the process crashes, or takes messages
\* from there for ever.
DecodeOutside ==
  /\ pc = "decode"
  /\ ReadAble(mRecvBuffer) > 0
  /\ Outside(mRecvBuffer) \/ Overrun(mRecvBuffer)
  /\ pc' = "ended"
  /\ UNCHANGED <<client, socket, mRecvBuffer, messages, replyBuffer, responses, clean>>

\* Mutant: Decode returns after one message.
DecodeEndsEarly == messages # <<>> \/ ReadAble(mRecvBuffer) = 0 \/ ~Parses(mRecvBuffer)

\* A round of the loop that ends it.
DecodeEnds == ReadAble(mRecvBuffer) = 0 \/ ~Parses(mRecvBuffer)

\* The rest of execute().
Execute ==
  LET resps == [i \in DOMAIN messages |-> Dispatch(messages[i])]
  IN  /\ pc = "decode"
      /\ DecodeEnds
      /\ replyBuffer' = Encode(resps, replyBuffer)
      /\ responses' = responses \o resps
      /\ requests' = SubSeq(requests, Len(messages) + 1, Len(requests))
      /\ messages' = <<>>
      /\ pc' = "idle"
      /\ UNCHANGED <<mSendBuffer, socket, mRecvBuffer, clean>>

\* onWrite.
ServerWrite ==
  /\ pc = "idle"
  /\ \E n \in Taken(ReadAble(replyBuffer)) : replyBuffer' = MoveReadIndex(replyBuffer, n)
  /\ UNCHANGED <<client, socket, mRecvBuffer, pc, messages, responses, clean>>

Next ==
  \/ \E m \in Messages : Call(m)
  \/ ClientWrite
  \/ Read
  \/ ReadAgain
  \/ DecodeMessage
  \/ DecodeOutside
  \/ Execute
  \/ ServerWrite

Spec == Init /\ [][Next]_vars

\* Weak fairness of both threads: []<>~ENABLED A \/ []<><<A>>_vars, with the
\* guard of A for ENABLED A, which TLC evaluates at great length.  Nobody has
\* to call.
FairSpec ==
  /\ Spec
  /\ []<>(ReadAble(mSendBuffer) = 0) \/ []<><<ClientWrite>>_vars
  /\ []<>(pc \notin {"idle", "read"} \/ socket = <<>>) \/ []<><<Read>>_vars
  /\ []<>(pc # "read") \/ []<><<ReadAgain>>_vars
  /\ []<>(pc # "decode") \/ []<><<DecodeMessage \/ DecodeOutside \/ Execute>>_vars
  /\ []<>(pc # "idle" \/ ReadAble(replyBuffer) = 0) \/ []<><<ServerWrite>>_vars

-----------------------------------------------------------------------------
TypeOK ==
  /\ Sound(mSendBuffer) /\ Sound(mRecvBuffer) /\ Sound(replyBuffer)
  /\ Size(mRecvBuffer) # 0
  /\ socket \in Seq(Byte)
  /\ pc \in {"idle", "read", "decode", "ended"}
  /\ requests \in Seq(Messages)
  /\ messages \in Seq(TinyPBProtocol)
  /\ responses \in Seq(TinyPBProtocol)
  /\ clean \in BOOLEAN
  /\ pc \in {"idle", "read"} => messages = <<>>

\* The requests that Decode has not yet pushed.
Undecoded == SubSeq(requests, Len(messages) + 1, Len(requests))

\* The frames stay whole and in line through two buffers and a socket, and
\* what Decode has pushed are the first requests, field by field; unless a
\* request was cut off, or a part of one that holds another start byte was
\* decoded (tinypb_coder.cpp:107-120).
Aligned ==
  clean /\ pc # "ended" =>
    /\ Len(messages) <= Len(requests)
    /\ messages = SubSeq(requests, 1, Len(messages))
    /\ Contents(mRecvBuffer) \o socket \o Contents(mSendBuffer) = Frames(Undecoded)

\* No part of a frame with another start byte is decoded.
Unsplit == clean /\ pc = "decode" => ~SplitIn(Contents(mRecvBuffer), Undecoded)

\* What is still to be written are the last bytes of the responses' frames.
RepliesAligned == IsSuffix(Contents(replyBuffer), Frames(responses))

StreamInv == TypeOK /\ Aligned /\ Unsplit /\ RepliesAligned

\* When onRead returns, no request that has come whole is left in the buffer:
\* the next event may be long in coming (tinypb_coder.cpp:95).
NothingLeft ==
  clean /\ pc = "idle" /\ requests # <<>> =>
    ReadAble(mRecvBuffer) < Len(Frame(Head(requests)))

\* A part of a request is scanned as it is: its length is read where it may not
\* have come, and its end byte looked for where the length says.  While the
\* stream is clean that is beyond the array only for a request too long to fit
\* behind the read index (tinypb_coder.cpp:107-114).
BeyondIfTooLong ==
  /\ clean
  /\ pc = "decode"
  /\ ReadAble(mRecvBuffer) > 0
  /\ Outside(mRecvBuffer) \/ Overrun(mRecvBuffer)
  => /\ Undecoded # <<>>
     /\ mRecvBuffer.mReadIndex + Len(Frame(Head(Undecoded))) > Size(mRecvBuffer)

\* The connection answers requests in order, each once and with an answer of
\* its own, as long as the stream is clean (connection.cpp:149-167).
Methods == UNION {{s \o <<Dot>> \o m : m \in mServiceMap[s]} : s \in DOMAIN mServiceMap}

Service == INSTANCE RpcService

AnsweredInOrder ==
  Service!Init /\ [][clean' => Service!Next]_<<requests, responses>>

\* Every request is answered and the answer written, in whatever pieces the
\* request comes.
Answered ==
  \A k \in 1 .. MaxCalls :
    Len(requests) + Len(responses) >= k
      ~> \/ Len(responses) >= k /\ ReadAble(replyBuffer) = 0
         \/ ~clean
         \/ pc = "ended"
=============================================================================
