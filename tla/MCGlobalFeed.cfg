SPECIFICATION FeedSpec
CONSTANTS
  Fans = {}
  Limit = 2
  MaxTries = 1
  MaxVideos = 3
  MaxDeletes = 1
  MaxFaults = 0
  PageSize = 2
INVARIANTS
  NoHole
  
CHECK_DEADLOCK FALSE
