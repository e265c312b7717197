SPECIFICATION FairSpec
CONSTANTS
  Envs = {e1, e2}
  Workers = {w1, w2}
  Timer = tTimer
  Socket = tSocket
  Msgs = {m1, m2}
  None = None
INVARIANTS
  TypeOK
  ExclusiveEnv
  NoLostEnv
  AssertionsHold
  OneHolder
PROPERTIES
  ImplementsMailbox
  HandledUnlessStarved
