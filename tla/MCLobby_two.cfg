\* One session, whichever, may vanish from its room.
CONSTANTS
  Threads = {t1, t2}
  Sessions = {s1, s2, s3}
  Maxes = {2}
  MaxRooms = 3
  MaxVanished = 1
SPECIFICATION Safety
SYMMETRY Symmetry
INVARIANTS TypeOK Capacity MapConsistent EmptyRoomIsTransient RoomIdConsistent HostIsMember
PROPERTY ImplementsRoomSet
CHECK_DEADLOCK FALSE
