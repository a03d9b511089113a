\* Two sessions and one entry in the submission queue.
CONSTANTS
  Fds = {f1, f2}
  MaxSessions = 2
  SqDepth = 1
  CqBound = 0
  Talkers = {}
  Others = {}
  OwnAccept = FALSE
SPECIFICATION Spec
PROPERTY ShutdownCompletes
CHECK_DEADLOCK FALSE
