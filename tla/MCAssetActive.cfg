\* One segment, one request at a time, SQLite.
SPECIFICATION Spec
CONSTANTS
  a1 = a1  a2 = a2  a3 = a3  a4 = a4  s1 = s1  s2 = s2  r1 = r1  r2 = r2
  NoAsset = NoAsset
  Assets <- FourAssets
  SeedAssets <- TwoSeeds
  Segments <- OneSegment
  Requests <- TwoRequests
  MinimumActive = 2
  MaxCandidates = 3
  Dialects <- SQLite
CHECK_DEADLOCK FALSE
INVARIANTS EverySelectionActive
