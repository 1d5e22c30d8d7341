SPECIFICATION FairSpec
CONSTANTS
  web = web
  batch = batch
  k1 = k1
  k2 = k2
  v1 = v1
  v2 = v2
  None = None
  Keys = {k1, k2}
  AppNames = {web, batch}
  Contents <- Variants
  InitialApps <- TwoApps
  InitialASGs <- TwoASGs
  PageSize = 1
  MaxID = 7
  MaxVersion = 3
  MaxMoves = 2
INVARIANTS TypeOK VersionsWhole DumpWhole LatestIsRecent DiffTells
PROPERTIES CommandEnds
CHECK_DEADLOCK FALSE
