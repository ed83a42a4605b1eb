SPECIFICATION MCClientSpec
CONSTANTS
  Shard = {k1, k2}
  Caller = {c1}
  Loop = Loop
  Nil = Nil
  Processor = {1, 2, 3, 4}
  MaxChanges = 3
  MaxFailures = 1
  MaxDrains = 1
  CanStop = TRUE
  k1 = k1
  k2 = k2
  c1 = c1
INVARIANTS FreshHeartbeat NoOrphan
PROPERTIES Settles StopEndsLoop
CHECK_DEADLOCK FALSE
