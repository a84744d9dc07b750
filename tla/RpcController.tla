--------------------------- MODULE RpcController ---------------------------
(***************************************************************************)
(* rpc/rpc_controller: what an RpcController remembers of its call, and    *)
(* its member functions as operators on the record.  An id is a number, 0  *)
(* for the empty one.  Texts, addresses and mTimeout are left out, as is   *)
(* NotifyOnCancel, which does nothing.                                     *)
(***************************************************************************)

\* "failed" is any error but a timeout: the server's, or one of serialization.
ErrorCodes == {"none", "timeout", "failed"}

\* A new controller.
NewController == [mErrorCode |-> "none", mMsgId |-> 0, mIsFailed |-> FALSE,
                  mIsCanceled |-> FALSE, mIsFinished |-> FALSE]

\* Mutant: the error of the last call stays.
ResetKeepsError(c) == [NewController EXCEPT !.mErrorCode = c.mErrorCode]

Reset(c) == NewController

StartCancel(c) == [c EXCEPT !.mIsCanceled = TRUE, !.mIsFailed = TRUE, !.mIsFinished = TRUE]

SetError(c, code) == [c EXCEPT !.mErrorCode = code, !.mIsFailed = TRUE]

SetMsgId(c, id) == [c EXCEPT !.mMsgId = id]

SetFinished(c) == [c EXCEPT !.mIsFinished = TRUE]

\* What CallMethod and its timeout do with an error, around running done.
Fail(c, code) == SetFinished(SetError(StartCancel(c), code))
=============================================================================
