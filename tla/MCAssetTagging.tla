--------------------------- MODULE MCAssetTagging ---------------------------
(* Instances of AssetTagging for TLC. *)
EXTENDS AssetTagging, TLC

CONSTANTS a1, w1, w2

OneAsset   == {a1}
TwoWorkers == {w1, w2}
=============================================================================
