SPECIFICATION Spec
CONSTANTS
  u1 = u1  u2 = u2
  r1 = r1  r2 = r2
  a1 = a1  a2 = a2  a3 = a3  a4 = a4
  s1 = s1  s2 = s2  s3 = s3  s4 = s4
  d0 = d0  d1 = d1
  Users = {u1}
  Rooms = {r1, r2}
  Sups = {a1, a2}
  Stores = {s1, s2}
  Data = {d0, d1}
  InitData = d0
  RoomSups <- AllRoomSups
  MaxList = 1
SYMMETRY Interchangeable
INVARIANTS
  TypeOK
  StoredIsApproved
  AnsweredAtMostOnce
  TimedOutNeverStored
  SuccessIsDurable
  ReportIsRoomQuorum
PROPERTY
  ImplementsRoomSave
