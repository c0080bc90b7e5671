SPECIFICATION Both
CONSTANTS
  SB_QUEUE = 6
  SB_CHUNK = 2
  Byte = {3, 4}
  Type = {1, 2}
  SB_LOG_TAIL = 3
  LogChunk = 4
  LogByte = {3, 4}
  PipeSize = 6
  Reads = 1
  Rounds = 2
  MaxWritten = 10
INVARIANTS InBounds LastWords
PROPERTY Refinement
