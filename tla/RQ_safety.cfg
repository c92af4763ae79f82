SPECIFICATION Spec
CONSTANTS
  r1 = r1
  r2 = r2
  r3 = r3
  r4 = r4
  ka = ka
  kb = kb
  None = None
  Requests = {r1, r2, r3, r4}
  Keys = {ka, kb}
  KeyOf <- TwiceTheSame
  Prio <- OneUrgent
  ChanCap = 1
  HandlerMayAbort = TRUE
INVARIANT QueueInv
SYMMETRY SameQuestion
CHECK_DEADLOCK FALSE
