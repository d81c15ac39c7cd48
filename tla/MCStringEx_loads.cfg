\* A caller that reuses its buffer: a load may find it empty or holding a byte.
CONSTANTS
  IntBits = 8
  LongBits = 12
  MaxLen = 4
  ReplaceAlphabet <- MCReplaceAlphabet
  TrimAlphabet <- MCTrimAlphabet
  SplitAlphabet <- MCSplitAlphabet
  IntAlphabet <- MCIntAlphabet
  CaseAlphabet <- MCCaseAlphabet
  BetweenAlphabet <- MCBetweenAlphabet
  Seps <- MCSeps
  Lefts <- MCLefts
  Rights <- MCRights
  MAX_FILE_LENGTH = 2
  MaxFileLen = 3
  MaxSaveLen = 2
  FileBytes <- MCFileBytes
  Buffers <- MCUsedBuffers
  MODULE_TIMER = 1
  MODULE_MAPPED_FILE = 2
  IoFaults = FALSE
SPECIFICATION Spec
INVARIANT LoadsReplaceBuffer
