SPECIFICATION FairSpec
CONSTANTS
  TickCounts = {1, 3}
  Timeouts = {0, 1, 3, 7}
  Repeats = {0, 1, 2}
  FirstPool = 1
  MaxPool = 2
  DelAnywhere = FALSE
  Null = Null
PROPERTIES
  ImplementsDeadlines
  ArmedGetsDone
INVARIANTS
  OneHome
  NearestMissesNone
