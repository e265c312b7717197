SPECIFICATION PostSpec
CONSTANTS
  Threads = {t1, t2}
  MaxEnvs = 3
  Grow = 4
  MaxPosts = 1
  Exposed = TRUE
  Payloads <- OnePack
  Base = 4
  FixPos = 1
  FixNeg = 1
  FixRaw = 2
  FixLen = 1
  MaxNesting = 2
  Values <- Parts
  Inputs <- OnePosted
INVARIANT VmRunByOne
CHECK_DEADLOCK FALSE
SYMMETRY AnyWorker
