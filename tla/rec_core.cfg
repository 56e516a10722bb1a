SPECIFICATION FairSpec
CONSTANTS
  Observations = {"zero", "drop", "good", "technical", "octo", "login"}
  Targets = {0, 3}
  MinTargets = 1
  MaxVisits = 3
  Passes = 2
  DailyLimit = 2
  Keep = 3
  BurstLimit = 2
  ZeroAdsLimit = 1
  Day = 2
  QualityCooldown = 4
  FastCooldown = 3
  RetryCooldown = 2
  Interval = 3
  Backoff = 3
  NormalRest = 0
  BurstRest = 0
  RetryRest = 1
  Horizon = 6
  MaxFaults = 1
INVARIANTS SeriesIsBounded DailyLimitRespected PassesShareTargets
PROPERTIES RecoveryFollowsEvidence RecoveryContinues
VIEW WithoutOffsets
CHECK_DEADLOCK FALSE
