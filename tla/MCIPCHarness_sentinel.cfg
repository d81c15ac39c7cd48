\* The IPC test with AttemptIncStrong instead of AttemptAcquire on the new proxy.
CONSTANTS
  Threads = {t1, t2, t3}
  RawHolders = {}
  WrcIds = {w1}
  NoWrc = NoWrc
  NoThread = NoThread
  MaxOps = 1
  INITIAL_PRIMARY_VALUE <- MCInitialPrimaryValue
  ExtendAtInit = {TRUE}
  OhosPlatform = TRUE
  CanPromoteResults = {TRUE}
  NewAcquire = "AttemptIncStrong"
  QueryAcquire = "AttemptAcquire"
SPECIFICATION IPCSpec
SYMMETRY MCThreadSymmetry
INVARIANT
  IPCAllReleased
