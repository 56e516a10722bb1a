SPECIFICATION Spec
CONSTANTS
  Posts = {p1, p2}
  Images = {lazy, full}
  LazyImages = {lazy}
  Ids = {x}
  None = None
  MaxScrolls = 2
  MaxAdsPerView = 2
  MaxRows = 2
PROPERTIES BrokenLandingKeepsAd
CHECK_DEADLOCK FALSE
