SPECIFICATION FairSpec
CONSTANTS
  IntMax = 31
  CMD_MIN_SIZE = 5
  CMD_MAX_SIZE = 9
  RSP_SIZE = 12
  SndBuf = 1
  MaxLines = 2
  Lines <- MCLines
  Lists <- MCLists
  Modes <- MCModes
CHECK_DEADLOCK FALSE
INVARIANTS WordsAreRun PartsFit
PROPERTIES RunsAsSent LinesAreAnswered
