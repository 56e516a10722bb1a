SPECIFICATION Spec
CONSTANTS
  Targets = {1, 2}
  Posts = {1}
  Named = {1}
  Landings = {1}
  Offers = {1, 2}
  Places = {pa, pb}
  Allowed = {pa}
  MaxTabs = 2
  Configs <- MCConfigs
  MinTargets = 1
  MinInteractions = 2
  CommentEvery = 2
  MaxComments = 1
  MaxReactions = 1
  MaxFollows = 1
  Threshold = 2
  SessionTime = 3
  MaxSessions = 1
INVARIANTS SubmittedAtMostOnce OfferTabsAreTracked ExistingLikesStay EarlyEndMeansGoals
CHECK_DEADLOCK FALSE
