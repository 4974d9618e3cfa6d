\* Two built-in and two further assets, two segments, two requests, both databases.
SPECIFICATION Spec
CONSTANTS
  a1 = a1  a2 = a2  a3 = a3  a4 = a4  s1 = s1  s2 = s2  r1 = r1  r2 = r2
  NoAsset = NoAsset
  Assets <- FourAssets
  SeedAssets <- TwoSeeds
  Segments <- TwoSegments
  Requests <- TwoRequests
  MinimumActive = 2
  MaxCandidates = 3
  Dialects <- BothDialects
SYMMETRY LibrarySymmetry
CHECK_DEADLOCK FALSE
INVARIANTS TypeOK ChosenAssetUsable SelectionBacked MinimumKeptBySQLite
PROPERTIES ChoiceSurvivesRematch ImplementsAtomicLibrary
