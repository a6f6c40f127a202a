CONSTANTS
  s1 = s1
  s2 = s2
  a1 = a1
  Scheduler = {s1, s2}
  Admin = {a1}
  NoWorker = NoWorker
  Ghost = Ghost
  Day = 1
  MaxTime = 2
  MaxLog = 4
  MaxFaults = 2
  MaxManual = 1
  MaxResets = 1
  MaxTroubles = 2
  ResetAllowed = TRUE
SPECIFICATION FairSpec
INVARIANTS SingleTick JournalIsSound
PROPERTIES TurnStepsByOne SlotServedOnce SettledRowsFinal PlaysTurnsInOrder DueSlotServed
CHECK_DEADLOCK FALSE
