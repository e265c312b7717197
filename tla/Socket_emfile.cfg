SPECIFICATION Spec
CONSTANTS
  Workers = {w1}
  Socket = tSocket
  None = None
  FirstFd = 2
  MaxFd = 3
  NSlots = 3
  LateListen = FALSE
  MaxListens = 1
  MaxConns = 2
  MaxCalls = 0
  MaxTraffic = 1
INVARIANT NothingUnnoticed
CHECK_DEADLOCK FALSE
