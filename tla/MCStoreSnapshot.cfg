SPECIFICATION Spec
CONSTANTS
    Keys = {1, 2, 3, 4}
    MaxConcurrent = 2
    FlushSplitBytes = 2
    MaxMem = 2
    Scenarios <- OneScenario
    PickerAuto <- PickAuto
    PickerManual <- PickManualCompaction
INVARIANT SnapshotsAreStable
CHECK_DEADLOCK FALSE
