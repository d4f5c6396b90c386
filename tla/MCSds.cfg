\* Strings of up to five bytes, header types from two bytes on.
SPECIFICATION BothSpec
CONSTANTS
  Limit <- MCLimit
  SDS_MAX_PREALLOC = 4
  StaticBuf = 3
  Args <- MCArgs
  Indices <- MCIndices
  Letters <- MCLetters
  MaxLen = 5
  SplitLines <- MCSplitLines
  Separators <- MCSeparators
  ArgLines <- MCArgLines
  LLONG_MAX = 127
  SDS_LLSTR_SIZE = 5
INVARIANTS
  HeaderSound
  InBlock
  SplitJoin
  ArgsRoundTrip
  SplitSafe
  NumberText
PROPERTIES
  ImplementsByteString
CHECK_DEADLOCK FALSE
