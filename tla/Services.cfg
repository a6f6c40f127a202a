CONSTANTS
  s1 = s1
  s2 = s2
  w1 = w1
  w2 = w2
  Coroutine = {"a", "b", "c"}
  Rate = 2
  Player = {1}
  Session = {s1, s2}
  Checker = {s1}
  Batch = 1
  MaxEvents = 3
  MaxFaults = 1
  Reader = {1, 2}
  Watcher = {w1, w2}
  MaxTurn = 4
  MaxResets = 1
  MaxMoods = 1
  Member = {1, 2, 3}
  Answers <- SomeAnswers
  BatchSize = 2
  Ttl = 2
  Retry = 1
  Interval = 2
  MaxLag = 1
SPECIFICATION AllSpec
INVARIANTS TypeOK RateIsKept
PROPERTIES  TurnsAreOnce  NobodyWaitsForEver
CHECK_DEADLOCK FALSE
