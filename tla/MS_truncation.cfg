SPECIFICATION StreamSpec
CONSTANTS
  Pieces = 2
  ModelCap = 1
  PumpCap = 1
  ParseCap = 1
INVARIANT NoSilentTruncation
CHECK_DEADLOCK FALSE
