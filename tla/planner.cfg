SPECIFICATION HealthFairSpec
CONSTANTS
  Collections <- MCCollections
  Requested = 45
  Policy <- MCPolicy
  QualityGuard = TRUE
  Keep = 3
  MaxSeeds = 1
PROPERTIES ReasonsHaveEvidence Relearns
CHECK_DEADLOCK FALSE
