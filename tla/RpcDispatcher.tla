--------------------------- MODULE RpcDispatcher ---------------------------
(***************************************************************************)
(* rpc/rpc_dispatcher: the response to a request.  The services are        *)
(* registered before the server starts.  The error codes are the last two  *)
(* digits of those in entity/error_code.h, and an error's text is its      *)
(* code.  protobuf and the services are external: which payloads parse,    *)
(* what a method makes of one, and which results can be serialized.        *)
(***************************************************************************)
EXTENDS Naturals, Sequences, FiniteSetsExt

CONSTANTS Dot,          \* the character between service and method
          mServiceMap,  \* per service name, the names of its methods
          Parseable,    \* payloads a request prototype parses
          Serve,        \* per parseable payload, what the method answers
          Serializable  \* answers that can be serialized

ASSUME DispatcherAssumption ==
  /\ \A service \in DOMAIN mServiceMap : \A i \in DOMAIN service : service[i] # Dot
  /\ DOMAIN Serve = Parseable

ERROR_FAILED_DESERIALIZE == 3
ERROR_FAILED_SERIALIZE   == 4
ERROR_SERVICE_NOT_FOUND  == 8
ERROR_METHOD_NOT_FOUND   == 9
ERROR_PARSE_SERVICE_NAME == 10

setTinyPBError(msg, errCode) == [msg EXCEPT !.mErrCode = errCode, !.mErrInfo = <<errCode>>]

\* find_first_of('.'), for a name that has one.
FirstDot(fullName) == Min({i \in DOMAIN fullName : fullName[i] = Dot})

serviceName(fullName) == SubSeq(fullName, 1, FirstDot(fullName) - 1)
methodName(fullName)  == SubSeq(fullName, FirstDot(fullName) + 1, Len(fullName))

\* Mutant: a method is looked up without its service.
DispatchAnyService(req) ==
  LET resp == [req EXCEPT !.mErrCode = 0, !.mErrInfo = <<>>, !.mPbData = <<>>]
  IN  IF \A i \in DOMAIN req.mMethodName : req.mMethodName[i] # Dot
      THEN setTinyPBError(resp, ERROR_PARSE_SERVICE_NAME)
      ELSE IF \A s \in DOMAIN mServiceMap : methodName(req.mMethodName) \notin mServiceMap[s]
      THEN setTinyPBError(resp, ERROR_METHOD_NOT_FOUND)
      ELSE IF req.mPbData \notin Parseable
      THEN setTinyPBError(resp, ERROR_FAILED_DESERIALIZE)
      ELSE [resp EXCEPT !.mPbData = Serve[req.mPbData]]

\* The response has the request's id and method name; each early return is an
\* error; the service runs the closure, which serializes the answer.
Dispatch(req) ==
  LET resp    == [req EXCEPT !.mErrCode = 0, !.mErrInfo = <<>>, !.mPbData = <<>>]
      service == serviceName(req.mMethodName)
      method  == methodName(req.mMethodName)
  IN  IF \A i \in DOMAIN req.mMethodName : req.mMethodName[i] # Dot
      THEN setTinyPBError(resp, ERROR_PARSE_SERVICE_NAME)
      ELSE IF service \notin DOMAIN mServiceMap
      THEN setTinyPBError(resp, ERROR_SERVICE_NOT_FOUND)
      ELSE IF method \notin mServiceMap[service]
      THEN setTinyPBError(resp, ERROR_METHOD_NOT_FOUND)
      ELSE IF req.mPbData \notin Parseable
      THEN setTinyPBError(resp, ERROR_FAILED_DESERIALIZE)
      ELSE IF Serve[req.mPbData] \notin Serializable
      THEN setTinyPBError(resp, ERROR_FAILED_SERIALIZE)
      ELSE [resp EXCEPT !.mPbData = Serve[req.mPbData]]
=============================================================================
