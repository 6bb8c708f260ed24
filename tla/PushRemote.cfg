SPECIFICATION Spec
CONSTANTS
  c1 = c1
  c2 = c2
  c3 = c3
  g1 = g1
  g2 = g2
  g3 = g3
  q1 = q1
  NoConn = NoConn
  Conns <- ThreeConns
  Gateways <- TwoGateways
  Home <- OneLocal
  Callers <- OneCaller
  Gate <- CallerOnFirst
  Reachable <- NoGateway
  MaxFaults = 0
INVARIANT FaultFreeReachesAll
CHECK_DEADLOCK FALSE
