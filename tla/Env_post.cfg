SPECIFICATION PostSpec
CONSTANTS
  Threads = {t1, t2}
  MaxEnvs = 4
  Grow = 4
  MaxPosts = 1
  Exposed = FALSE
  Payloads <- Packs
  Base = 4
  FixPos = 1
  FixNeg = 1
  FixRaw = 2
  FixLen = 1
  MaxNesting = 2
  Values <- Parts
  Inputs <- Posted
INVARIANTS
  TypeOK
  IdNamesOneEnv
  PostsFindQueue
  VmRunByOne
  DeliveredAsSent
  StreamsAgree
  CutIsRefused
  BuffersHold
CHECK_DEADLOCK FALSE
SYMMETRY AnyWorker
