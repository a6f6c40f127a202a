CONSTANTS
  p1 = p1
  w1 = w1
  w2 = w2
  p2 = p2
  None = None
  Row = {1}
  Player = {p1}
  Owner <- OnePlayer
  Kind <- AllSingle
  Ttl <- Long
  Worker = {w1, w2}
  Gid = {1, 2, 3}
  Token = {1, 2, 3}
  Lease = 1
  Backoff = 1
  MaxAttempts = 2
  ClaimSize = 1
  Cap = 2
  CapWindow = 9
  PurgeAfter = 6
  EnqueueUntil = 0
  MaxTime = 3
  MaxFaults = 1
  MaxSkips = 1
  MaxCrashes = 1
  MaxSignals = 1
  MaxTroubles = 4
SPECIFICATION BothSpec
SYMMETRY Workers
INVARIANTS LeaseHasOneHolder AloneOnce CapIsKept
PROPERTIES IsMailbox DeniedIsNeverLeased
CHECK_DEADLOCK FALSE
