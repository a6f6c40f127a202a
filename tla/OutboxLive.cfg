CONSTANTS
  p1 = p1
  w1 = w1
  None = None
  Row = {1, 2}
  Player = {p1}
  Owner <- OnePlayer
  Kind <- AllMerged
  Ttl <- Short
  Worker = {w1}
  Gid = {1, 2, 3}
  Token = {1, 2, 3}
  Lease = 1
  Backoff = 1
  MaxAttempts = 2
  ClaimSize = 1
  Cap = 2
  CapWindow = 9
  PurgeAfter = 4
  EnqueueUntil = 0
  MaxTime = 3
  MaxFaults = 1
  MaxSkips = 0
  MaxCrashes = 1
  MaxSignals = 1
  MaxTroubles = 2
SPECIFICATION FairSpec
INVARIANTS TypeOK OneContentPerRandomId
PROPERTIES EverySettled
CHECK_DEADLOCK FALSE
