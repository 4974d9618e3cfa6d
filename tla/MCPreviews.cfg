\* Three segments, two preview jobs, two workers.
SPECIFICATION Spec
CONSTANTS
  s1 = s1  s2 = s2  s3 = s3  j1 = j1  j2 = j2  w1 = w1  w2 = w2
  NoWorker = NoWorker
  Segments <- ThreeSegments
  Texts <- TwoTexts
  TextLength <- Lengths
  AutoFrames <- Natural
  MinFrames = 1
  MaxFrames = 4
  MaxTotal = 10
  Jobs <- TwoJobs
  Workers <- TwoWorkers
  Attempts = 2
  StartTexts <- MixedStarts
  Timings <- OneTiming
  Budgets <- FitsOrRenders
SYMMETRY WorkerSymmetry
CHECK_DEADLOCK FALSE
INVARIANTS TypeOK ReadyShowsItsTimeline RenderKeepsItsRow RowMirrorsJob FitIsExact
PROPERTY SafeFileStays
