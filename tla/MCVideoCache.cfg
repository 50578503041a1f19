SPECIFICATION CacheFairSpec
CONSTANTS
  Videos = {v1, v2}
  Readers = {r1, r2}
  Writers = {w1}
  NoReader = NoReader
  NoVideo = NoVideo
  Absent = Absent
  Gone = Gone
  MaxCacheFaults = 1
INVARIANTS
  StaleEntityExplained
PROPERTIES
  ReadsReturn
  CachesConverge
CHECK_DEADLOCK FALSE
