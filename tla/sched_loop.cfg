SPECIFICATION Spec
CONSTANTS
  Profiles = {p1, p2, p3}
  Workers = {w1, w2}
  Idle = Idle
  Modes = {"loop"}
  MaxCycles = 4
  RetryRest = 2
  Rests = {0}
  DiscoveryInterval = 2
  DiscoveryMax = 0
  MaxTime = 3
  MaxRestarts = 0
SYMMETRY Symmetry
INVARIANTS CycleExclusive
PROPERTIES RestRespected NoSecondOvertaking
CHECK_DEADLOCK FALSE
