---------------------------- MODULE RpcService ----------------------------
(***************************************************************************)
(* What the server promises on one connection: requests are answered once  *)
(* each and in the order they were made, with the id and the method name   *)
(* of the request.  A request is served if its method is registered under  *)
(* that name and its payload can be parsed; else the answer is an error.   *)
(***************************************************************************)
EXTENDS Naturals, Sequences

CONSTANTS Messages,     \* requests
          Methods,      \* full names of the registered methods
          Parseable,    \* payloads a request prototype parses
          Serve,        \* per parseable payload, what the method answers
          Serializable  \* answers that can be serialized

VARIABLES requests,  \* made and not executed
          responses  \* of the requests executed

Served(m) ==
  /\ m.mMethodName \in Methods
  /\ m.mPbData \in Parseable
  /\ Serve[m.mPbData] \in Serializable

Answers(r, m) ==
  /\ r.mMsgId = m.mMsgId
  /\ r.mMethodName = m.mMethodName
  /\ r.mErrCode = 0 <=> Served(m)
  /\ Served(m) => r.mPbData = Serve[m.mPbData]

Init == requests = <<>> /\ responses = <<>>

Call(m) == requests' = Append(requests, m) /\ UNCHANGED responses

Execute(n) ==
  /\ requests' = SubSeq(requests, n + 1, Len(requests))
  /\ Len(responses') = Len(responses) + n
  /\ SubSeq(responses', 1, Len(responses)) = responses
  /\ \A i \in 1 .. n : Answers(responses'[Len(responses) + i], requests[i])

Next == \/ \E m \in Messages : Call(m)
        \/ \E n \in 1 .. Len(requests) : Execute(n)

Spec == Init /\ [][Next]_<<requests, responses>>
=============================================================================
