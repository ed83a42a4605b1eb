SPECIFICATION MCClientSpec
CONSTANTS
  Shard = {k1}
  Caller = {c1}
  Loop = Loop
  Nil = Nil
  Processor = {1, 2, 3, 4}
  MaxChanges = 2
  MaxFailures = 0
  MaxDrains = 0
  CanStop = FALSE
  k1 = k1
  k2 = k2
  c1 = c1
PROPERTIES StopsUnassigned
CHECK_DEADLOCK FALSE
