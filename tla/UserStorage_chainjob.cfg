SPECIFICATION SpecNoSave
CONSTANTS
  n1 = n1  n2 = n2  n3 = n3
  s1 = s1  s2 = s2  s3 = s3  s4 = s4
  late = late
  Stores = {s1, s2, s3, s4}
  Nodes = {n1, n2, n3}
  NSessions = 1
  Host <- Alone
  Helpers <- Supervised
  FirstDb <- AllHave
  OnChain = TRUE
  Grants = {late}
  GrantedTo <- LateGrant
  MaxErrors = 2
  Expiring = {1, late}
  Offline = {1}
  Busy = {s1}
CHECK_DEADLOCK FALSE
SYMMETRY Same
INVARIANTS
  TypeOK
PROPERTIES
  ReadIsSteady
