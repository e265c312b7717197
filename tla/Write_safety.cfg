SPECIFICATION Spec
CONSTANTS
  Workers = {w1, w2}
  Socket = tSocket
  Slots = {s1, s2, s3}
  None = None
  MaxWrites = 4
  MaxCloses = 1
INVARIANTS
  UnsentIsQueued
  LinkedIsMarked
  QnCoversList
SYMMETRY Symmetry
CHECK_DEADLOCK FALSE
