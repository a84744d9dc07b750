----------------------------- MODULE TaskQueue -----------------------------
(***************************************************************************)
(* What an EventLoop promises to the threads that hand it work: one queue  *)
(* of tasks, to which a task is added at the back and from which the task  *)
(* at the front is taken and run.  No task is dropped, run twice or        *)
(* overtaken, whatever the two std::queue objects of Loop() do with it.    *)
(***************************************************************************)
EXTENDS Sequences

CONSTANT Task

VARIABLE queue

TypeOK == queue \in Seq(Task)

Init == queue = <<>>

Post(task) == queue' = Append(queue, task)

Run == queue # <<>> /\ queue' = Tail(queue)

Next == Run \/ \E task \in Task : Post(task)

Spec == Init /\ [][Next]_queue
=============================================================================
