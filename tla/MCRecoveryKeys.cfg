CONSTANTS
  MaxBatches = 1
  MemTableSize = 4
  MemTableStopWritesThreshold = 1
  Bounds <- OneRotation
SPECIFICATION Spec
INVARIANT OpenFindsLogKeys
