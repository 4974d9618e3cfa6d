\* A pipeline job and a preview job share two workers.
SPECIFICATION Spec
CONSTANTS
  j1 = j1  j2 = j2  w1 = w1  w2 = w2  c1 = c1  c2 = c2
  NoJob = NoJob
  Jobs <- TwoJobs
  PreviewJobs <- OnePreview
  Workers <- TwoWorkers
  Clients <- OneClient
  PipelineAttempts = 1
  PreviewAttempts = 1
  MaxGeneration = 2
  MaxOutages = 1
  MaxFaults = 0
SYMMETRY WorkerSymmetry
CHECK_DEADLOCK FALSE
INVARIANTS OneThreadPerSlot
PROPERTIES ImplementsDurableJob
