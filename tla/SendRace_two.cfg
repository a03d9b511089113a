CONSTANTS
  Owner = w1
  Others = {w2}
  MaxWritten = 3
SPECIFICATION Spec
INVARIANT NextSendFromOnSend
CHECK_DEADLOCK FALSE
