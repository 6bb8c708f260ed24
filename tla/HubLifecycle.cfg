SPECIFICATION Spec
CONSTANTS
  c1 = c1
  c2 = c2
  u1 = u1
  u2 = u2
  NoConn = NoConn
  Conns <- TwoConns
  Users <- TwoUsers
  UserOf <- OneUser
  Sweepers = {"beat", "stop"}
INVARIANTS
  TypeOK
  UnregisterFindsEntry
  NoZombieEntry
  PumpsAreRegistered
PROPERTIES
  ImplementsMembership
\* After Stop the gateway has nothing left to do.
CHECK_DEADLOCK FALSE
