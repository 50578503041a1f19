SPECIFICATION Spec
CONSTANTS
  Videos = {v1}
  Requests = {r1, r2, r3}
  Workers = {w1}
  NoMsg = NoMsg
  MaxTries = 2
  MaxFaults = 2
SYMMETRY Symmetry
INVARIANTS
  CountExactUnlessFallback
  AcceptedKept
  ErasedStaysErased
CHECK_DEADLOCK FALSE
