SPECIFICATION FairSpec
CONSTANTS
  Fans = {f1}
  Limit = 1
  MaxTries = 2
  MaxVideos = 2
  MaxDeletes = 1
  MaxFaults = 1
INVARIANTS
  FansHaveIt
  GhostsExplained
PROPERTIES
  OutboxDrains
CHECK_DEADLOCK FALSE
