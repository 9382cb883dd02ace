SPECIFICATION Spec
CONSTANTS
  u1 = u1  u2 = u2
  s1 = s1  s2 = s2
  Users = {u1, u2}
  Sups = {s1}
  MaxEvents = 4
  MaxFrame = 1
  MaxTicks = 1
CHECK_DEADLOCK FALSE
INVARIANTS
  TypeOK
  ExecutedInStep
  OnlyUnsafeAreLost
