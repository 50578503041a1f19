SPECIFICATION HeatSpec
CONSTANTS
  MaxRanked = 2
  Readers = {r1, r2}
  Window = 2
  SnapTTL = 1
  Limit = 1
  MaxTries = 2
  MaxEvents = 3
  MaxMinute = 2
  MaxHeatFaults = 1
SYMMETRY Symmetry
INVARIANTS
  HeatConserved
  SnapshotExact
  PagesStable
CHECK_DEADLOCK FALSE
