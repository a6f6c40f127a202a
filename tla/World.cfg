CONSTANTS
  r1 = r1
  r2 = r2
  w1 = w1
  w2 = w2
  c1 = c1
  c2 = c2
  c3 = c3
  Caller = {c1, c2, c3}
  Checker = {c3}
  Window = 2
  MinAttempts = 2
  Num = 1
  Den = 2
  OpenFor = 2
  MaxTime = 4
  MaxResults = 3
  MaxAbandons = 1
  Applicant = {1}
  Session = {r1, r2}
  Kind = {"flag", "portrait"}
  File = {"x", "y"}
  Raw <- Photos
  Target <- Targets
  MaxPixels = 20
  MaxSide = 6
  MaxFiled = 2
  MaxUploads = 2
  MaxRemovals = 1
  Person = {1, 2}
  Request = {r1, r2}
  MaxPending = 1
  HardCap = 2
  Lifetime = 1
  MaxRows = 1
  MaxStarts = 1
  MaxActs = 3
  Reader = {w1, w2}
  MaxPlayers = 4
  Attempts = 3
  Instance = {"a", "b"}
  Nation = {1, 2}
  Release <- Releases
  MaxTurn = 2
  MaxChanges = 2
  MaxBoots = 2
  Name = {1, 2, 3}
  Spare = {4}
  Sea = {11}
  Patient = TRUE
  MaxEdits = 3
  MaxCareless = 2
  MaxStops = 1
SPECIFICATION AllSpec
INVARIANTS AllTypeOK  WorldOutlivesReleases
PROPERTIES OpeningIsQuiet FailuresStandBehindOpening IdsArePermanent 
PROPERTIES  PicturesAreKept
CHECK_DEADLOCK FALSE
