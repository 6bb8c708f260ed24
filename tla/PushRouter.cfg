SPECIFICATION FairSpec
CONSTANTS
  c1 = c1
  c2 = c2
  c3 = c3
  g1 = g1
  g2 = g2
  g3 = g3
  q1 = q1
  NoConn = NoConn
  Conns <- ThreeConns
  Gateways <- ThreeGateways
  Home <- OneEach
  Callers <- OneCaller
  Gate <- CallerOnFirst
  Reachable <- TwoGateways
  MaxFaults = 1
INVARIANTS TypeOK NeverOverstated AtMostOnce QuietMeansAway ReachesInTouch
PROPERTIES CleanupSparesLive CallEnds ImplementsDelivery
CHECK_DEADLOCK FALSE
