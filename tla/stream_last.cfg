SPECIFICATION FairSpec
CONSTANTS
  Ads = {a}
  Resolved = {a}
  Modes = {"tasks"}
  Attempts = 1
  Repeated = {"text"}
  DrainPolls = 1
  MaxStops = 0
  MaxRestarts = 0
INVARIANTS LastAdsAreImported
CHECK_DEADLOCK FALSE
