SPECIFICATION HubFairSpec
CONSTANTS
  Subscribers = {u1, u2}
  Conns = {c1, c2}
  Pushers = {p1}
  NoSubscriber = NoSubscriber
  NoConn = NoConn
  Capacity = 1
  MaxFailures = 2
  MaxPushes = 3
INVARIANTS
  NoPanic
  RegistrationExact
PROPERTIES
  ImplementsMailbox
  StreamEnds
  PushReturns
CHECK_DEADLOCK FALSE
