\* One pipeline job, two workers, one retry request, two armed faults.
SPECIFICATION Spec
CONSTANTS
  j1 = j1  j2 = j2  w1 = w1  w2 = w2  c1 = c1  c2 = c2
  NoJob = NoJob
  Jobs <- OnePipeline
  PreviewJobs = {}
  Workers <- TwoWorkers
  Clients <- OneClient
  PipelineAttempts = 2
  PreviewAttempts = 2
  MaxGeneration = 2
  MaxOutages = 0
  MaxFaults = 2
CHECK_DEADLOCK FALSE
INVARIANTS FaultHitsOnce
