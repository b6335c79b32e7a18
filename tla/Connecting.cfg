SPECIFICATION Spec
CONSTANTS
  Connects = {c1}
  Warmers = {w1}
  Sites <- MCSites
  Outcomes <- MCOutcomes
  Ttl = 0
  Backoff = 1
  PruneAge = 0
  MaxRouteTime = 1
  MaxRoutes = 3
  NoRoute = NoRoute
  Dialers = {d1, d2}
  h1 = h1
  h2 = h2
  k1 = k1
  k2 = k2
  SshHosts = {h1, h2}
  HostTokens <- MCTokens
  HostToken <- MCToken
  HostKeys = {k1, k2}
  UnparsedKey = UnparsedKey
  KnownFiles <- MCFiles
  DialOptions <- MCOptions
  MaxDials = 2
  ConfigTexts <- MCTexts
  RootFile = "main"
  IncludeDepth = 2
  SiteOptions <- MCSiteOptions
  HostNames = {"alias", "10.0.0.2", "example"}
  LanNames = {"10.0.0.2"}
  NoValue = NoValue
  Dials = {"core", "ftp"}
  HeadLimit = 3
  BannerLength = 2
  SiteFiles <- MCSiteFiles
  Vaults <- MCVaults
  PrefChoices <- MCPrefs
  NameOrder <- MCNameOrder
  SiteAliases <- MCAliases
  SiteHosts = {"nas", "web"}
  SiteIds = {"1", "2", "3", "4", "5", "6"}
  RouteLabels = {"lan"}
  MaxRouteRows = 2
  MaxSiteSteps = 4
  MaxOutages = 1
  MaxTears = 1
INVARIANTS AllTypesOK RoutesAreRanked SessionIsAsConfigured LastSavedIsUsed
PROPERTY OneSiteAtATime
CHECK_DEADLOCK FALSE
