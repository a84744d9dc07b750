\* Capacities below, at and above the longest chunk; two byte values, one of
\* them the fill of a new array.
CONSTANTS
  Byte = {0, 1}
  Zero = 0
  Sizes = {1, 2, 3, 6}
  Chunks <- MCChunks
  MaxLen = 5
SPECIFICATION Spec
INVARIANTS BufferInv Bounded
PROPERTIES ByteOrder CallsAreExact
