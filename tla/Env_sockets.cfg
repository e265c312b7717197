SPECIFICATION FairSpec
CONSTANTS
  Envs = {e1, e2}
  Acceptor = e1
  NSlots = 3
  MaxConns = 2
  MaxCalls = 3
  MaxTraffic = 1
INVARIANTS
  CallbackFound
  ToItsOwner
PROPERTIES
  DataIsRead
  ConnectionAccepted
CHECK_DEADLOCK FALSE
