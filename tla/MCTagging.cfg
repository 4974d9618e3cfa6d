SPECIFICATION FairSpec
CONSTANTS
  a1 = a1  w1 = w1  w2 = w2
  NoWorker = NoWorker
  Assets <- OneAsset
  Workers <- TwoWorkers
  MaxAttempts = 2
  MaxRequests = 2
  MaxOutages = 1
CHECK_DEADLOCK FALSE
INVARIANTS TypeOK TaggedCompletely ReadsPresentName OneWriter OneExecutionPerSlot
PROPERTIES ManualTagsKept EveryTaskEnds
