CONSTANTS
  Threads = {t1, t2}
  Sessions = {s1, s2}
  Maxes = {2}
  MaxRooms = 1
  MaxVanished = 0
SPECIFICATION Spec
PROPERTY RequestsComplete
CHECK_DEADLOCK FALSE
