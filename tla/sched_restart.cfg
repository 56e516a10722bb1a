SPECIFICATION FairSpec
CONSTANTS
  Profiles = {p1, p2}
  Workers = {w1}
  Idle = Idle
  Modes = {"loop", "once"}
  MaxCycles = 2
  RetryRest = 1
  Rests = {2}
  DiscoveryInterval = 3
  DiscoveryMax = 1
  MaxTime = 3
  MaxRestarts = 1
INVARIANTS ExitIsClean
PROPERTIES RecordedRestSurvivesRestart StopDrains
CHECK_DEADLOCK FALSE
