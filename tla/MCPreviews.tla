----------------------------- MODULE MCPreviews -----------------------------
(* Instances of Previews for TLC. *)
EXTENDS Previews, TLC

CONSTANTS s1, s2, s3, j1, j2, w1, w2

ThreeSegments == {s1, s2, s3}
TwoJobs       == {j1, j2}
TwoWorkers    == {w1, w2}

TwoTexts == {"short", "long"}
Lengths  == [x \in TwoTexts |-> IF x = "short" THEN 1 ELSE 7]
Natural  == [x \in TwoTexts |-> IF x = "short" THEN 1 ELSE 3]

MixedStarts == {[s \in Segments |-> IF s = s1 THEN "long" ELSE "short"]}
OneTiming == {MaxFrames}

\* Many changes of a timeline nobody renders, or one beside two renders.
FitsOrRenders == {[edits |-> 1, fits |-> 2, jobs |-> 0, outages |-> 0],
                  [edits |-> 2, fits |-> 0, jobs |-> 1, outages |-> 0],
                  [edits |-> 1, fits |-> 0, jobs |-> 2, outages |-> 1]}

WorkerSymmetry == Permutations(Workers)
=============================================================================
