\* Two threads that both start with the raw pointer of a fresh object of
\* either lifetime, two WeakRefCounter blocks, one handle-creating call each.
\* The specification is FairSpec (weak fairness of every thread: each
\* eventually wraps its raw pointer and releases every handle it holds), so
\* the one run checks the invariants, the refinement and reclamation.  No
\* symmetry: it is unsound for liveness checking.
CONSTANTS
  Threads = {t1, t2}
  RawHolders = {t1, t2}
  WrcIds = {w1, w2}
  NoWrc = NoWrc
  MaxOps = 1
  INITIAL_PRIMARY_VALUE <- MCInitialPrimaryValue
  ExtendAtInit = {FALSE, TRUE}
  OhosPlatform = TRUE
  CanPromoteResults = {TRUE}
SPECIFICATION FairSpec
INVARIANT TypeOK
INVARIANT NoUseAfterFree
INVARIANT HandlesNeverDangle
INVARIANT LifetimeMatchesHandles
INVARIANT LifecycleHooksOnce
INVARIANT NoFatalDiagnostics
PROPERTY ImplementsLifetime
PROPERTY EventuallyReclaimed
