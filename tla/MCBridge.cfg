SPECIFICATION Spec
CONSTANTS
  n1 = n1
  AccessSubnets <- MCAccessSubnets
  OtherSubnet = {n2}
  NatEnabled = TRUE
  UserKey = {p1, p2}
  MaxAccessPeers = 1
  TunnelID = {t1, t2}
  MaxTunnels = 1
  RemoteSubnet = {r1, r2}
  MaxFaults = 2
  MaxCycles = 1
  RelayID = {i1, i2}
  a1 = a1
  a2 = a2
  a3 = a3
  Addr = {a1, a2, a3}
  PeerPair <- MCPeerPair
  MaxRelaySessions = 2
  MaxAdded = 2
  MaxRelayCycles = 1
  RuleID = {u1, u2}
  Port = {1, 2}
  MaxIngressRules = 2
  Conn = {c1, c2}
  MaxRulesAdded = 3
  MaxIngressCycles = 1
  MaxListenFails = 1
INVARIANTS
  
  CycleExact
  IngressCycleExact
  
  IngressHeld
PROPERTIES
  RelaySessionsEnd
  IngressDrains
CHECK_DEADLOCK FALSE
