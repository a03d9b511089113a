\* A record may be larger than a SendBuffer.
CONSTANTS
  BufSize = 2
  MaxRecord = 3
  MaxWritten = 6
SPECIFICATION Safety
INVARIANT NothingLeftBehind
