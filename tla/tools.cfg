SPECIFICATION MCSpec
CONSTANTS
  Runs = {a, b}
  MaxCalls = 2
  MaxRetries = 1
  MaxRunSteps = 16
  ba = ba
  bb = bb
  bc = bc
  bd = bd
  be = be
  None = None
  BagCalls = {ba, bb, bc, bd, be}
  RoundOf <- TwoRounds
  Calls = {1, 2, 3}
  TripAfter = 1
  Probes = 2
INVARIANT GateIsExact
INVARIANT RecordsAreRight
INVARIANT NothingIsHeld
PROPERTY RunsEnd
PROPERTY NothingHangs
CHECK_DEADLOCK FALSE
