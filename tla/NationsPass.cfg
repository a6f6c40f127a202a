CONSTANTS
  s1 = s1
  worker = worker
  x = x
  y = y
  Player = {1, 2}
  Admin = {2}
  Province = {1, 2, 3}
  Name = {x, y}
  Wish <- Forms
  Session = {s1}
  Worker = worker
  MinProvinces = 1
  MaxProvinces = 2
  MaxNations = 2
  MaxFiled = 2
  MaxNumber = 2
  MaxOrders = 1
  MaxActs = 4
  MaxOvertaken = 1
SPECIFICATION FairSpec
INVARIANTS TypeOK ReserveIsKept 
PROPERTIES DecisionsAreSound OverdueIsDecided
CHECK_DEADLOCK FALSE
