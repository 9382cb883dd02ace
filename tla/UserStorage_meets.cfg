SPECIFICATION SpecInTurn
CONSTANTS
  n1 = n1  n2 = n2  n3 = n3
  s1 = s1  s2 = s2  s3 = s3  s4 = s4
  late = late
  Stores = {s1, s2}
  Nodes = {n1, n2, n3}
  NSessions = 3
  Host <- MovesOn
  Helpers <- Unattended
  FirstDb <- AllHave
  OnChain = FALSE
  Grants = {}
  GrantedTo <- NoGrant
  MaxErrors = 1
  Expiring = {}
  Offline = {}
  Busy = {}
CHECK_DEADLOCK FALSE
SYMMETRY Same
INVARIANTS
  
  NothingSavedIsLost
PROPERTIES
  ReadIsSteady
  ImplementsRecord
