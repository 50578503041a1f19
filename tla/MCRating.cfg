SPECIFICATION FairSpec
CONSTANTS
  Accounts = {a1, a2}
  Videos = {v1}
  Requests = {r1, r2}
  Workers = {w1}
  NoEvent = NoEvent
  Placeholder = Placeholder
  MaxTries = 2
  MaxFaults = 2
INVARIANTS
  CountsExactUnlessFallback
  LatestAcceptedWins
  
PROPERTIES
  QueueDrains
CHECK_DEADLOCK FALSE
