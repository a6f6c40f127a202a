CONSTANTS
  None = None
  w1 = w1
  o1 = o1
  o2 = o2
  Order = {o1, o2}
  Player = {1, 2}
  Consenting = {2}
  Author <- FirstWritesAll
  Worker = {w1}
  MaxPending = 2
  MaxUnresolved = 2
  BatchSize = 2
  RemindAfter = 1
  Term = 2
  Rating = 3
  Penalty = 1
  MaxRequests = 2
  MaxRefusals = 2
  MaxFaults = 0
  MaxChanges = 0
  MaxTime = 0
SPECIFICATION Spec
INVARIANT RatingIsJournal
CHECK_DEADLOCK FALSE
