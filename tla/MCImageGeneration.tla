-------------------------- MODULE MCImageGeneration --------------------------
(* Instances of ImageGeneration for TLC. *)
EXTENDS ImageGeneration

CONSTANTS g1, w1

OneGeneration == {g1}
OneWorker     == {w1}
=============================================================================
