SPECIFICATION FairSpec
CONSTANTS
  c1 = c1
  c2 = c2
  u1 = u1
  q1 = q1
  Conns <- OneConn
  Users <- OneUser
  UserOf <- SameUser
  Pushers <- OnePusher
  MaxFaults = 2
PROPERTIES
  IndexHeals
  GoneIsForgotten
\* All connections may be gone and all routes forgotten.
CHECK_DEADLOCK FALSE
