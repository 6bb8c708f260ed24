SPECIFICATION Spec
CONSTANTS
  c1 = c1
  c2 = c2
  u1 = u1
  q1 = q1
  Conns <- TwoConns
  Users <- OneUser
  UserOf <- SameUser
  Pushers <- OnePusher
  MaxFaults = 1
INVARIANTS
  TypeOK
  LiveIsRoutable
  LiveNeverStale
  OfflineMeansAway
\* All connections may be gone and all routes forgotten.
CHECK_DEADLOCK FALSE
