SPECIFICATION LoopSpec
CONSTANTS
  Runs = {a, b}
  MaxCalls = 2
  MaxRetries = 1
  MaxRunSteps = 11
INVARIANT OnlyOwnErrorsStop
CHECK_DEADLOCK FALSE
