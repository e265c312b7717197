SPECIFICATION FairSpec
CONSTANTS
  MaxSosn = 4
  Chunk = 2
  Lengths = {1, 3}
  MaxCalls = 4
CHECK_DEADLOCK FALSE
INVARIANTS
  OneHome
  UnsentIsArmed
  BytesFit
  EventsFindSockets
  AssertionsHold
PROPERTIES
  ToldBeforeReuse
  RemovedIsTold
