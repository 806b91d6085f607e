SPECIFICATION FairSpec
CONSTANTS
  r1 = r1
  r2 = r2
  Runs = {r1, r2}
  None = None
  Sizes <- MCSizes
  MaxChunk = 1
  MaxClock = 1
  MaxCrashes = 1
  MaxDrops = 1
INVARIANTS
  TypeOK
  ReportsAreTrue
  StampsFollowCommits
  ListingIsCoherent
  DashboardAgrees
PROPERTIES
  LogSpec
  RunsReturn
CHECK_DEADLOCK FALSE
