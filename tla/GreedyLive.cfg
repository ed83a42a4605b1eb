SPECIFICATION GreedySpec
CONSTANTS
  Executor = {1, 2}
  Shard = {k1}
  Host = {}
  NoHost = NoHost
  HostOf <- HostOfNone
  Revision = {1, 2, 3, 4, 5, 6, 7}
  NamespaceType = "fixed"
  Mode = "GREEDY"
  MaxMoves = 2
  Session = {s1, s2}
  Server = {}
  MaxRetries = 0
  Drainable = {}
  Reportable = {}
  Resets = TRUE
  MaxEvents = 3
  h1 = h1
  k1 = k1
  k2 = k2
  k3 = k3
  s1 = s1
  s2 = s2
  a1 = a1
  a2 = a2
  p1 = p1
  p2 = p2
  p3 = p3
  p4 = p4
  PlanExecutor = {1, 2, 3}
  PlanShard = {p1, p2, p3, p4}
  Loads = {0, 1, 3}
  Unmeasured = Unmeasured
  UpperBand = 115
  LowerBand = 90
  SevereImbalanceRatio = 130
  MoveBudgetProportion = 50
  MaxDeviation = 200
INVARIANTS DonorsKeepAShard PassIsAllowed
PROPERTIES Converges MovesCoolDown PassesRest
