SPECIFICATION FairSpec
CONSTANTS
  Ads = {a}
  Resolved = {a}
  Modes = {"tasks", "inline", "disabled", "batch"}
  Attempts = 2
  Repeated = {"text"}
  DrainPolls = 1
  MaxStops = 1
  MaxRestarts = 1
INVARIANTS OnlyJudgedAdsAreStored FinishedImportIsWhole FinalStatusIsTrue
PROPERTIES VerdictIsFinal ImportEnds
CHECK_DEADLOCK FALSE
