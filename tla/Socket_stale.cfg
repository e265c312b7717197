SPECIFICATION Spec
CONSTANTS
  Workers = {w1}
  Socket = tSocket
  None = None
  FirstFd = 2
  MaxFd = 3
  NSlots = 3
  LateListen = FALSE
  MaxListens = 1
  MaxConns = 1
  MaxCalls = 2
  MaxTraffic = 1
INVARIANT EventFindsLiveSocket
CHECK_DEADLOCK FALSE
