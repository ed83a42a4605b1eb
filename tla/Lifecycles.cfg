SPECIFICATION LifecycleSpec
CONSTANTS
  Client = {c1}
  MaxState = 2
  MaxToggles = 3
  Elector = {1, 2}
  Session = {1, 2, 3}
  Nobody = Nobody
  MaxDrains = 1
  MaxFaults = 1
INVARIANTS NoStaleAnswer GaugeFollowsElector
PROPERTIES SpectatorCatchesUp WaitEnds SpectatorStops
PROPERTIES GivesUpLeadership BecomesLeader
CHECK_DEADLOCK FALSE
