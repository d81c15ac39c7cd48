\* The IPC registry test: threads run RegisterEventThread with AttemptAcquire.
CONSTANTS
  Threads = {t1, t2, t3}
  RawHolders = {}
  WrcIds = {w1}
  NoWrc = NoWrc
  NoThread = NoThread
  MaxOps = 1
  INITIAL_PRIMARY_VALUE <- MCInitialPrimaryValue
  ExtendAtInit = {TRUE}
  OhosPlatform = TRUE
  CanPromoteResults = {TRUE}
  NewAcquire = "AttemptAcquire"
  QueryAcquire = "AttemptAcquire"
SPECIFICATION IPCSpec
SYMMETRY MCThreadSymmetry
INVARIANTS
  IPCTypeOK
  IPCNoUseAfterFree
  ErasedOnlyWhenUnheld
  IPCAllReleased
  LifecycleHooksOnce
  NoFatalDiagnostics
