CONSTANTS
  CR = CR
  LF = LF
  Length <- MCLength
  ReaderSize <- MCReaderSize
SPECIFICATION LogSpec
CHECK_DEADLOCK FALSE
INVARIANTS
  LogTypeOK
  LinesAreWhole
  NothingIsHeldBack
