\* A request of each kind: served, not serialized, not parsed, one whose
\* payload looks like a frame, and three names that are not found.  Buffers
\* are as long as a short frame.  read() and write() take all or 3 bytes.
CONSTANTS
  Byte <- MCByte
  Base = 16
  Zero = 0
  START = 2
  END = 3
  Dot = 4
  mServiceMap <- MCServices
  Parseable <- MCPayloads
  Serve <- MCServe
  Serializable <- MCSerializable
  Messages <- MCMessages
  BufferSize = 16
  Pieces = {3}
  MaxCalls = 2
SPECIFICATION FairSpec
INVARIANTS StreamInv NothingLeft BeyondIfTooLong
PROPERTIES AnsweredInOrder Answered
CHECK_DEADLOCK FALSE
