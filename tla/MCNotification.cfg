SPECIFICATION Spec
CONSTANTS
  ann = ann
  bob = bob
  eve = eve
  Users = {ann, bob}
  Events <- Mixed
  Requests = {r1, r2}
  NoEvent = NoEvent
  NoUser = NoUser
  Absent = Absent
  MaxTries = 2
  MaxFaults = 1
SYMMETRY Symmetry
INVARIANTS
  TypeOK
  PushedOnce
  
  CounterExactUnlessUnsure
CHECK_DEADLOCK FALSE
