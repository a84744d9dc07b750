---------------------------- MODULE MCTCPServer ----------------------------
\* Instances of TCPServer for TLC.
EXTENDS TCPServer

CONSTANTS c1, c2

\* The first client has a next request, which follows the first at any moment
\* of its answer; the other interferes with one.
NextRequest == [c \in Clients |-> IF c = c1 THEN 2 ELSE 1]
=============================================================================
