\* A user id may be the empty string; one of the names is too long.
CONSTANTS
  Sessions = {s1, s2}
  Ids = {Empty, u1}
  Passwords = {p1, p2}
  Names = {n1, long}
  LongNames = {long}
  None = None
  Empty = Empty
SPECIFICATION Spec
SYMMETRY Symmetry
INVARIANTS TypeOK AnswersHold
PROPERTY ImplementsDirectory
