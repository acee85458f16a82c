SPECIFICATION LineSpec
CONSTANTS
  Size = 4
  MaxLines = 4
  MaxLength = 6
INVARIANTS LineTypeOK CommandsAreWholeLines ShortLinesRun
CHECK_DEADLOCK FALSE
