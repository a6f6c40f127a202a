CONSTANTS
  None = None
  w1 = w1
  o1 = o1
  o2 = o2
  Order = {o1, o2}
  Player = {1, 2, 3}
  Consenting = {2}
  Author <- FirstWritesAll
  Worker = {w1}
  MaxPending = 1
  MaxUnresolved = 2
  BatchSize = 2
  RemindAfter = 1
  Term = 2
  Rating = 3
  Penalty = 1
  MaxRequests = 1
  MaxRefusals = 0
  MaxFaults = 1
  MaxChanges = 1
  MaxTime = 3
SPECIFICATION FairSpec
PROPERTIES NothingIsForgotten
CHECK_DEADLOCK FALSE
