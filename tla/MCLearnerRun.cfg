CONSTANTS
  BatchSize = 2
  Epochs = 2
  Warmup = 1
  Interval = 2
  QueueMax = 1
  MaxBatch = 3
  MaxRollouts = 6
  MaxVersion = 7
  MaxStarts = 3
SPECIFICATION FairSpec
INVARIANTS VersionNamesModel TrainedOnceEach VersionCountsEmissions
PROPERTY WorkerCatchesUp
CHECK_DEADLOCK FALSE
