----------------------------- MODULE ByteQueue -----------------------------
(***************************************************************************)
(* What a TCPBuffer promises to its users: a queue of bytes.  What is put  *)
(* in comes out in the same order, once, whatever the buffer does with its *)
(* indexes and its memory.                                                 *)
(***************************************************************************)
EXTENDS Naturals, Sequences

CONSTANT Chunks  \* what can be put in at a time

VARIABLE queue

Init == queue = <<>>

Put(bytes) == queue' = queue \o bytes

\* Take the first n bytes.
Drop(n) == queue' = SubSeq(queue, n + 1, Len(queue))

Next == \/ \E bytes \in Chunks : Put(bytes)
        \/ \E n \in 0 .. Len(queue) : Drop(n)

Spec == Init /\ [][Next]_queue
=============================================================================
