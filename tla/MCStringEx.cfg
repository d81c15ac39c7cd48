\* string_ex, file_ex and the error codes: every function on every input of the bounded domains.
CONSTANTS
  IntBits = 8
  LongBits = 12
  MaxLen = 4
  ReplaceAlphabet <- MCReplaceAlphabet
  TrimAlphabet <- MCTrimAlphabet
  SplitAlphabet <- MCSplitAlphabet
  IntAlphabet <- MCIntAlphabet
  CaseAlphabet <- MCCaseAlphabet
  BetweenAlphabet <- MCBetweenAlphabet
  Seps <- MCSeps
  Lefts <- MCLefts
  Rights <- MCRights
  MAX_FILE_LENGTH = 2
  MaxFileLen = 3
  MaxSaveLen = 2
  FileBytes <- MCFileBytes
  Buffers <- MCFreshBuffers
  IoFaults = FALSE
  MODULE_TIMER = 1
  MODULE_MAPPED_FILE = 2
SPECIFICATION Spec
INVARIANTS
  ReplaceStrMatchesReference
  TrimStrStripsPadding
  SplitStrMatchesReference
  HexRoundTrip
  StrToIntExact
  CaseFoldingConsistent
  SubStrBetweenDelimited
  SavesReportTruth
  RegularLoadsAgree
  SearchMatchesReference
  ErrCodeFieldsDecode
  ErrCodeTablesDistinct
PROPERTIES
  SubStrBetweenProgress
