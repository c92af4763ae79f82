SPECIFICATION MCSpec
CONSTANTS
  Calls = {c1, c2, c3}
  Streaming = {c1, c2}
  MaxConcurrent = 2
  TripAfter = 1
  Probes = 2
  Pieces = 5
  ModelCap = 2
  PumpCap = 1
  ParseCap = 1
INVARIANT SlotsAreKept
INVARIANT ProbesAreUnderWay
INVARIANT StreamIsSound
PROPERTY SlotsGoRound
PROPERTY RefinesPipe
PROPERTY StreamFinishes
CHECK_DEADLOCK FALSE
