SPECIFICATION Spec
CONSTANTS
  Observations = {"zero", "low", "drop", "good", "learning", "technical", "octo", "login"}
  Targets = {0, 2}
  MinTargets = 1
  MaxVisits = 1
  Passes = 2
  DailyLimit = 2
  Keep = 3
  BurstLimit = 2
  ZeroAdsLimit = 1
  Day = 3
  QualityCooldown = 2
  FastCooldown = 1
  RetryCooldown = 1
  Interval = 3
  Backoff = 1
  NormalRest = 2
  BurstRest = 0
  RetryRest = 1
  Horizon = 4
  MaxFaults = 1
INVARIANTS DailyLimitCountsEveryAttempt
CHECK_DEADLOCK FALSE
