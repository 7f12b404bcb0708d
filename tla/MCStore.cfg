SPECIFICATION Spec
CONSTANTS
    Keys = {1, 2, 3, 4}
    MaxConcurrent = 2
    FlushSplitBytes = 2
    MaxMem = 2
    Scenarios <- AllScenarios
    PickerAuto <- PickAuto
    PickerManual <- PickManualCompaction
INVARIANTS LevelsStayOrdered RunningCompactionsDisjoint ReadsSeeNewest SublevelsAsRebuilt
CHECK_DEADLOCK FALSE
