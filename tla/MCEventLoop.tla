---------------------------- MODULE MCEventLoop ----------------------------
\* Instances of EventLoop for TLC.
EXTENDS EventLoop, TLC

\* The sockets of an IO thread's connections are interchangeable.  Used for
\* invariants and the refinement, not in the runs that check liveness.
Symmetry == Permutations(ServerFds)
=============================================================================
