SPECIFICATION Spec
CONSTANTS
  None = None
  Ads = {1, 2}
  Posts = {"p"}
  Landings = {"la", "lb", "lr", "lx"}
  Ids = {"ia"}
  LandingId <- MCLandingId
  LandingText <- MCLandingText
  Redirect <- MCRedirect
  Public <- MCPublic
  PostLanding <- MCPostLanding
  Claims <- MCClaims
  Cards <- MCCards
INVARIANT ProfileActsOnAllowedAds
INVARIANT VerdictsSeeAllEvidence
INVARIANT PromotedOnOwnLanding
INVARIANT EveryAdGetsAVerdict
INVARIANT AdTabsAreClosed
CHECK_DEADLOCK FALSE
