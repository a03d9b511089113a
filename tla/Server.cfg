\* Two workers; two connections, added to the second by the first; no data.
CONSTANTS
  Fds = {f1, f2}
  MaxSessions = 2
  SqDepth = 3
  CqBound = 0
  Talkers = {}
  Others = {}
  OwnAccept = FALSE
  NumWorkers = 2
  MaxAccepts = 2
SPECIFICATION ServerSpec
INVARIANTS ServerTypeOK NoConnectionLeft
PROPERTIES ImplementsWorker ServerStops
CHECK_DEADLOCK FALSE
