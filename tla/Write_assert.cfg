SPECIFICATION Spec
CONSTANTS
  Workers = {w1}
  Socket = tSocket
  Slots = {s1, s2}
  None = None
  MaxWrites = 2
  MaxCloses = 0
INVARIANT QueueAssertions
CHECK_DEADLOCK FALSE
