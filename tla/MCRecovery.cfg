CONSTANTS
  MaxBatches = 2
  MemTableSize = 4
  MemTableStopWritesThreshold = 1
  Bounds <- AllScenarios
SPECIFICATION FairSpec
INVARIANTS AckedSurvive NoHoles ManifestTablesDurable FailsOnlyAtTheTail FreshNumbers
PROPERTY LogsReclaimed
