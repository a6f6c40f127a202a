CONSTANTS
  c1 = c1
  c2 = c2
  Caller = {c1, c2}
  Checker = {}
  Window = 2
  MinAttempts = 2
  Num = 1
  Den = 2
  OpenFor = 2
  MaxTime = 6
  MaxResults = 4
  MaxAbandons = 1
SPECIFICATION FairSpec
PROPERTIES ProbeDecides
CHECK_DEADLOCK FALSE
