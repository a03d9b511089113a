\* One session, and _pendingRecvBufId is -1 in fresh memory.
CONSTANTS
  Sessions = {1}
  BufCount = 2
  TextSize = 2
  Handshake = 1
  MaxUnits = 6
  Streams <- OneStream
  Garbage <- NoGarbage
SPECIFICATION Safety
INVARIANT CutPacketContinues
CHECK_DEADLOCK FALSE
