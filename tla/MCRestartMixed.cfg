SPECIFICATION RFairSpec
CONSTANTS
  a = a
  a1 = a1
  r1 = r1
  r2 = r2
  r3 = r3
  x1 = x1
  x2 = x2
  red = red
  NoRequest = NoRequest
  NoTeam = NoTeam
  Node = {a}
  Gpu = {a1}
  NodeOf <- MCNodeOf
  Total <- MCTotal
  MaxMb = 6
  RESERVE_MB = 1
  Port = {1, 2, 3}
  Request = {r1, r2, r3}
  Restart = {x1}
  Session <- MCSession
  Need <- MCNeed
  PlanNeed <- MCNeed
  NamedNeed <- MCNeed
  ChargedTo <- MCRedTeam
  FromCatalog = {r3}
  Tp <- MCOne
  Replicas <- MCOne
  Explicit <- MCExplicit
  Within <- MCAnywhere
  CardModel <- MCModel
  PLACEMENT_RETRIES = 2
  Admin = {}
  Team = {red}
  TeamOf <- MCTeam
  MaxGpus <- MCQuota
  UsageReading = {0, 4}
  Polled = {a1}
  Drainable = {a}
  NodeStatus = {"online", "draining"}
CHECK_DEADLOCK FALSE
INVARIANT CreatedFit
PROPERTIES LostRaceMeansRival EachStepAdvances EveryRequestAnswered
