CONSTANTS
  MaxRecords = 3
  MaxLen = 2
  BlockSize = 2
  Slots = 2
  MinSync = TRUE
  MayFail = TRUE
SPECIFICATION FairSpec
INVARIANTS SyncedWhenDone FileInOrder CloseLosesNothing
PROPERTIES EveryRequestAnswered
