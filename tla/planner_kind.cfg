SPECIFICATION HealthSpec
CONSTANTS
  Collections <- MCCollections
  Requested = 45
  Policy <- MCPolicy
  QualityGuard = TRUE
  Keep = 3
  MaxSeeds = 1
CHECK_DEADLOCK FALSE
INVARIANT ProactiveComparesRelevance
