SPECIFICATION Spec
CONSTANTS
  Videos = {v1, v2}
  Setters = {s1}
  Readers = {r1}
  NoVideo = NoVideo
  MaxSets = 2
  MaxFaults = 1
SYMMETRY Symmetry
INVARIANTS
  NothingMadeUp
  NothingForgotten
  
CHECK_DEADLOCK FALSE
