SPECIFICATION Spec
CONSTANTS
  ann = ann
  bob = bob
  Authors = {ann, bob}
  AuthorOf <- InTurn
  TimeOf <- Apart
  Lag = 1
  Now = 12
  PageSize = 2
  RebuildLimit = 2
  BackfillLimit = 1
  MaxTries = 2
  Stored = 2
  Requests = {r1, r2}
  NoAuthor = NoAuthor
  MaxFaults = 1
SYMMETRY Symmetry
INVARIANTS
  TypeOK
  
  OnlyFollowed
CHECK_DEADLOCK FALSE
