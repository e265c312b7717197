SPECIFICATION FairSpec
CONSTANTS
  MaxSession = 3
  Repeats = {0, 1, 3}
INVARIANTS
  OneUnderWay
PROPERTY TimeoutEnds
