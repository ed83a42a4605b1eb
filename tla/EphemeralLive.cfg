SPECIFICATION LiveSpec
CONSTANTS
  Executor = {1, 2}
  Shard = {k1}
  Host = {}
  NoHost = NoHost
  HostOf <- HostOfNone
  Revision = {1, 2, 3, 4, 5, 6, 7}
  NamespaceType = "ephemeral"
  Mode = "NAIVE"
  MaxMoves = 2
  Session = {s1}
  Server = {a1}
  MaxRetries = 1
  Drainable = {k1}
  Reportable = {k1}
  Resets = FALSE
  MaxEvents = 4
  h1 = h1
  k1 = k1
  k2 = k2
  k3 = k3
  s1 = s1
  s2 = s2
  a1 = a1
  a2 = a2
PROPERTIES Converges
