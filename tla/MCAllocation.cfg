SPECIFICATION Spec
CONSTANTS
  a = a
  b = b
  a1 = a1
  a2 = a2
  b1 = b1
  r1 = r1
  r2 = r2
  r3 = r3
  red = red
  NoRequest = NoRequest
  NoTeam = NoTeam
  Node <- MCNode
  Gpu <- MCGpu
  NodeOf <- MCNodeOf
  Total <- MCTotal
  MaxMb = 6
  RESERVE_MB = 1
  Port = {1, 2}
  Session = {r1, r2, r3}
  Request = {r1, r2, r3}
  Need <- MCNeed
  PlanNeed <- MCRoundedDown
  NamedNeed <- MCRoundedDown
  ChargedTo <- MCNoTeam
  FromCatalog = {r2}
  Tp <- MCOneGpu
  Replicas <- MCReplicas
  Explicit <- MCExplicit
  Within <- MCAnywhere
  CardModel <- MCModel
  PLACEMENT_RETRIES = 2
  Admin = {}
  Team = {}
  TeamOf <- MCNoTeam
  MaxGpus <- MCQuota
  UsageReading = {0, 4}
  Polled = {b1}
  Drainable = {b}
  NodeStatus = {"online", "draining"}
CHECK_DEADLOCK FALSE
INVARIANTS TypeOK NoOversubscription PortsUnique ReplicasSpread
PROPERTY ImplementsPool
