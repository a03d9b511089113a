\* Two sessions, one after the other on the same descriptor; the first talks.
CONSTANTS
  Fds = {f1}
  MaxSessions = 2
  SqDepth = 2
  CqBound = 2
  Talkers = {1}
  Others = {w2}
  OwnAccept = TRUE
SPECIFICATION Spec
INVARIANTS TypeOK NothingOpenAfterJoin
PROPERTIES ClosesOwnSocket DestroyedWhenClosed DisconnectedIsRemoved ShutdownCompletes
CHECK_DEADLOCK FALSE
