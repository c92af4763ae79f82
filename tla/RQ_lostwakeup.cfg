SPECIFICATION FairSpec
CONSTANTS
  r1 = r1
  r2 = r2
  r3 = r3
  r4 = r4
  ka = ka
  kb = kb
  None = None
  Requests = {r1, r2, r3}
  Keys = {r1, r2, r3}
  KeyOf <- AllDistinct
  Prio <- SamePriority
  ChanCap = 2
  HandlerMayAbort = FALSE
PROPERTY EveryCallerIsAnswered
CHECK_DEADLOCK FALSE
