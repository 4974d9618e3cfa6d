---------------------------- MODULE MCJobWorker ----------------------------
(* Instances of JobWorker for TLC. *)
EXTENDS JobWorker, TLC

CONSTANTS j1, j2, w1, w2, c1, c2

OnePipeline == {j1}
TwoJobs     == {j1, j2}
OnePreview  == {j2}
OneWorker   == {w1}
TwoWorkers  == {w1, w2}
OneClient   == {c1}
TwoClients  == {c1, c2}

\* Workers are interchangeable, and so are clients; the jobs differ in kind.
WorkerSymmetry == Permutations(TwoWorkers) \union Permutations(TwoClients)
============================================================================
