\* One pipeline job, two workers, two concurrent retry requests, two outages.
SPECIFICATION Spec
CONSTANTS
  j1 = j1  j2 = j2  w1 = w1  w2 = w2  c1 = c1  c2 = c2
  NoJob = NoJob
  Jobs <- OnePipeline
  PreviewJobs = {}
  Workers <- TwoWorkers
  Clients <- TwoClients
  PipelineAttempts = 2
  PreviewAttempts = 2
  MaxGeneration = 3
  MaxOutages = 2
  MaxFaults = 0
SYMMETRY WorkerSymmetry
CHECK_DEADLOCK FALSE
INVARIANTS TypeOK ParentMirrorsJob NoStrandedJob ResultOfLastExecution
PROPERTIES FinalStaysFinal ProgressNeverDrops
