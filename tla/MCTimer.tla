------------------------------ MODULE MCTimer ------------------------------
\* Instances of Timer for TLC.
EXTENDS Timer

CONSTANTS clear, sync, call  \* TCPServer's, the Logger's and an RPC's event

\* Log flush 2, client check 3, RPC timeout 1: what matters is that none
\* divides all the others.
Intervals == [e \in Events |-> IF e = clear THEN 3 ELSE IF e = sync THEN 2 ELSE 1]

\* An RPC's event is not repeated.
Repeating == [e \in Events |-> e # call]
=============================================================================
