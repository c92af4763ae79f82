SPECIFICATION SemanticSpec
CONSTANTS
  Requests = {r1, r2, r3}
  alike1 = alike1
  alike2 = alike2
  alone = alone
  quote = quote
  Queries <- AllQueries
  Realtime = {quote}
  Score <- Cosines
  Threshold = 2
  Capacity = 2
  AnswerTTL = 1
  MaxTime = 2
  NoVector = NoVector
  Degraded = Degraded
  None = None
PROPERTY HitsAreSound
INVARIANT ChatIsSound
SYMMETRY Symmetric
CHECK_DEADLOCK FALSE
