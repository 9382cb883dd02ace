SPECIFICATION Spec
CONSTANTS
  p1 = p1  p2 = p2
  r1 = r1
  s1 = s1  s2 = s2  s3 = s3
  Players = {p1, p2}
  Rooms = {r1}
  Socks = {s1, s2}
  Owner <- PairOwner
  JoinSock <- PairJoins
  Expect <- PairExpect
  Preloaded = FALSE
  Says <- Silent
  Slow = {}
  NoRoom = NoRoom
  NoSock = NoSock
CHECK_DEADLOCK FALSE
INVARIANTS
  DisconnectRemoves
