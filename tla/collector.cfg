SPECIFICATION Spec
CONSTANTS
  Posts = {p1, p2}
  Images = {lazy, full}
  LazyImages = {lazy}
  Ids = {x, y}
  None = None
  MaxScrolls = 2
  MaxAdsPerView = 2
  MaxRows = 2
INVARIANTS RegistryAgrees ClickedOnce FilesAgree
CHECK_DEADLOCK FALSE
