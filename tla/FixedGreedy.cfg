SPECIFICATION MCSpec
CONSTANTS
  Executor = {1, 2}
  Shard = {k1, k2, k3}
  Host = {h1}
  NoHost = NoHost
  HostOf <- HostOfFirst
  Revision = {1, 2, 3, 4, 5, 6, 7}
  NamespaceType = "fixed"
  Mode = "GREEDY"
  MaxMoves = 2
  Session = {s1}
  Server = {}
  MaxRetries = 0
  Drainable = {}
  Reportable = {}
  Resets = FALSE
  MaxEvents = 4
  h1 = h1
  k1 = k1
  k2 = k2
  k3 = k3
  s1 = s1
  s2 = s2
  a1 = a1
  a2 = a2
SYMMETRY SessionsAndShards
PROPERTIES RebalanceSettles
