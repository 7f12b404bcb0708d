SPECIFICATION MCSpec
CONSTANTS
    p1 = p1
    p2 = p2
    p3 = p3
    Procs = {p1, p2, p3}
    NoBatch = NoBatch
    SyncConcurrency = 3
    Kinds = {"plain", "sync", "noSyncWait", "alloc"}
    Counts = {0, 1}
    SeqNumStart = 0
    MaxCommits = 4
    Scenarios <- AllScenarios
INVARIANTS VisibleIsApplied ReadYourWrites SyncAckIsDurable WALInSeqNumOrder QueuesNeverOverflow IngestSeesEarlierWrites
PROPERTIES VisibleRatchets Completes
