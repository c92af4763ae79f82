SPECIFICATION FairSpec
CONSTANTS
  r1 = r1
  r2 = r2
  r3 = r3
  r4 = r4
  ka = ka
  kb = kb
  None = None
  Requests = {r1, r2, r3}
  Keys = {ka, kb}
  KeyOf <- TwiceTheSame
  Prio <- UrgentCopy
  ChanCap = 1
  HandlerMayAbort = FALSE
INVARIANT OwnerReadsToTheEnd
PROPERTY RefinesServeOnce
PROPERTY TurnsAreKept
PROPERTY ServiceGoesOn
CHECK_DEADLOCK FALSE
