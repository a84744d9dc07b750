---------------------------- MODULE MCTCPBuffer ----------------------------
\* An instance of TCPBuffer for TLC.
EXTENDS TCPBuffer

MCChunks == UNION {[1 .. n -> Byte] : n \in 1 .. 3}
=============================================================================
