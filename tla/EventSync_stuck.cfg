SPECIFICATION FairSpec
CONSTANTS
  u1 = u1  u2 = u2
  s1 = s1  s2 = s2
  Users = {u1}
  Sups = {s1}
  MaxEvents = 3
  MaxFrame = 0
  MaxTicks = 1
CHECK_DEADLOCK FALSE
PROPERTIES
  RetriedLater
