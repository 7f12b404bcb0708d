SPECIFICATION Spec
CONSTANTS
    Call <- IteratorCall
    StepOf <- CompactionStep
INVARIANTS CompactionKeepsViews OutputsPartitioned
PROPERTIES IteratesUserKeys OutputsProgress
CHECK_DEADLOCK FALSE
