SPECIFICATION FairSpec
CONSTANTS
  g1 = g1  w1 = w1
  NoWorker = NoWorker
  Generations <- OneGeneration
  Workers <- OneWorker
  HardMaxAttempts = 3
  MaxAttempts = 2
  MaxPending = 1
  MaxCrashes = 2
  MaxReadFaults = 1
CHECK_DEADLOCK FALSE
INVARIANTS TypeOK CallsWithinCap ImportedOnce DraftOnDisk
PROPERTIES NoSilentRepeat LateResultIgnored PaidResultKept ImplementsPaidImage EveryRequestSettles AutoImportEnds FilesReclaimed
