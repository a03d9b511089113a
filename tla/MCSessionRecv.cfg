\* _pendingRecvBufId may be -1 or 0 in fresh memory.
CONSTANTS
  Sessions = {1, 2}
  BufCount = 2
  TextSize = 3
  Handshake = 1
  MaxUnits = 5
  Streams <- TwoStreams
  Garbage <- SomeGarbage
SPECIFICATION Safety
INVARIANTS TypeOK OneOwner PacketsInOrder NothingHeldBack
PROPERTY TextLosesNoBuffer
CHECK_DEADLOCK FALSE
