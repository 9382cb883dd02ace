SPECIFICATION FairSpec
CONSTANTS
  p1 = p1  p2 = p2
  r1 = r1  r2 = r2
  n1 = n1  n2 = n2
  Players = {p1, p2}
  Rooms = {r1, r2}
  Names = {n1, n2}
  Game = g1
  Games = {g1}
  Expect <- TwoRooms
  Offers <- Growing
  Default = n1
  Hash = Hash
  Asks <- HashAndName
  MaxJoins <- Twice
  MaxTries = 4
  Calls = {1, 2}
  Refreshers = {11}
  MaxVersion = 2
  NoRoom = NoRoom
  NoName = NoName
CHECK_DEADLOCK FALSE
INVARIANTS
  TypeOK
  AtMostThreeRetries
  SeatIsWhereUserIs
  NamesAgree
PROPERTIES
  CodeVersionsGrow
  RetriesEnd
  CodeGetsLatest
