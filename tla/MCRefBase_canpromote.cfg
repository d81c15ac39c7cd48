\* An object of extended lifetime whose CanPromote() override may refuse a
\* promotion.  A refused wptr::promote leaves the weak count pinned
\* (refbase.cpp 425-426), so the RefCounter is never reclaimed even though
\* every thread releases every handle.
CONSTANTS
  Threads = {t1, t2}
  RawHolders = {t1, t2}
  WrcIds = {w1, w2}
  NoWrc = NoWrc
  MaxOps = 1
  INITIAL_PRIMARY_VALUE <- MCInitialPrimaryValue
  ExtendAtInit = {TRUE}
  OhosPlatform = TRUE
  CanPromoteResults = {TRUE, FALSE}
SPECIFICATION FairSpec
PROPERTY EventuallyReclaimed
