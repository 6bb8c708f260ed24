SPECIFICATION MCSpec
CONSTANTS
  c1 = c1
  c2 = c2
  Restless = {c1}
  u1 = u1
  u2 = u2
  NoConn = NoConn
  Conns <- TwoConns
  Users <- TwoUsers
  UserOf <- OneUser
  Sweepers = {"beat", "stop"}
  Durations <- SomeDurations
  Hosts = {"", "0.0.0.0", "10.1.2.3"}
  Ports = {"", "8080", "9000"}
  Interfaces = {"10.0.0.7", "127.0.0.1"}
  Loopbacks = {"127.0.0.1"}
INVARIANTS
  GatewayTypeOK
  AtMostOneLeftover
  TtlCoversSilence
  FileAdvertisesListener
PROPERTIES
  ShutdownEnds
  StopSnapshotIsClosed
\* The process exits.
CHECK_DEADLOCK FALSE
