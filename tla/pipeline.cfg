SPECIFICATION Spec
CONSTANTS
  Codes = {0, 1, 124}
  MaxPasses = 2
INVARIANTS OneCommandAfterStop EnrichesGatedAds ImportsFinalizedAds CalibratesAfterWholePipeline
CHECK_DEADLOCK FALSE
