SPECIFICATION Spec
CONSTANTS
  p1 = p1  p2 = p2
  r1 = r1
  s1 = s1  s2 = s2  s3 = s3
  Players = {p1, p2}
  Rooms = {r1}
  Socks = {s1, s2, s3}
  Owner <- AgainOwner
  JoinSock <- AgainJoins
  Expect <- PairExpect
  Preloaded = TRUE
  Says <- AgainSays
  Slow = {s1, s2, s3}
  NoRoom = NoRoom
  NoSock = NoSock
CHECK_DEADLOCK FALSE
INVARIANTS
  SavedAtMostOnce
  StartedRoomSavesAll
  DisconnectRemoves
  EmptyRoomCloses
  HeardInOrder
PROPERTY
  StartReachesAll
