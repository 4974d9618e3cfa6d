-------------------------- MODULE MCAssetSelection --------------------------
(* Instances of AssetSelection for TLC. *)
EXTENDS AssetSelection, TLC

CONSTANTS a1, a2, a3, a4, s1, s2, r1, r2

FourAssets  == {a1, a2, a3, a4}
ThreeAssets == {a1, a2, a3}
TwoSeeds    == {a1, a2}
OneSegment  == {s1}
TwoSegments == {s1, s2}
TwoRequests == {r1, r2}
BothDialects == {"sqlite", "postgresql"}
SQLite      == {"sqlite"}
PostgreSQL  == {"postgresql"}

\* Requests, segments, built-in assets and uploaded assets are interchangeable.
LibrarySymmetry ==
  Permutations(TwoRequests) \union Permutations(TwoSegments)
    \union Permutations(TwoSeeds) \union Permutations(FourAssets \ TwoSeeds)
=============================================================================
