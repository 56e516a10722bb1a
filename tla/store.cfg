\* Two cycles in one orchestrator, a second run of one of the profiles, a seeded
\* baseline and a discovery: three jobs side by side without a fault, two with one.
\* Every job ends, so the system may stop.
SPECIFICATION Spec
CONSTANTS
  p1 = p1  p2 = p2  p3 = p3  x = x
  orch = orch  shell = shell  manual = manual
  a1 = a1  a2 = a2  k1 = k1  k2 = k2
  StateFile = StateFile  CatalogFile = CatalogFile
  Absent = Absent  Torn = Torn  Unlisted = Unlisted  None = None
  Profiles <- MCProfiles
  Countries = {x}
  Ads = {a1, a2}
  Jobs <- MCJobs
  Together <- MCTogether
  KindOf <- MCKindOf
  ProfileOf <- MCProfileOf
  ProcessOf <- MCProcessOf
  Fresh <- MCFresh
  KeyOf <- MCKeyOf
  Direct = {a1, a2}
  CountryOf <- MCCountryOf
  Quarantined = {}
  Catalog <- MCCatalog
  Seen <- MCSeen
  Found = {p3}
  Results <- MCResults
  Keep = 2
  PoolLimit = 2
  BurstLimit = 1
INVARIANT CycleOwnsItsProfile MergesAreKept
PROPERTY StateIsAJournal
CHECK_DEADLOCK FALSE
