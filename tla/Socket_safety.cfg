SPECIFICATION Spec
CONSTANTS
  Workers = {w1, w2}
  Socket = tSocket
  None = None
  FirstFd = 2
  MaxFd = 5
  NSlots = 5
  LateListen = FALSE
  MaxListens = 2
  MaxConns = 2
  MaxCalls = 2
  MaxTraffic = 1
INVARIANTS
  NoLockCycle
  EveryFdHasAHome
  WatchedIsLive
  NothingUnnoticed
SYMMETRY Symmetry
CHECK_DEADLOCK FALSE
