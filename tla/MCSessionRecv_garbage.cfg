\* As MCSessionRecv: the id of session 2 may name the buffer of session 1.
CONSTANTS
  Sessions = {1, 2}
  BufCount = 2
  TextSize = 3
  Handshake = 1
  MaxUnits = 5
  Streams <- TwoStreams
  Garbage <- SomeGarbage
SPECIFICATION Safety
PROPERTY CutDataPreserved
CHECK_DEADLOCK FALSE
