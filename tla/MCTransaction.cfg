CONSTANTS
  Procs = {p1, p2}
  NoProc = NoProc
  MaxCounter = 3
  MaxRestores = 2
SPECIFICATION FairSpec
INVARIANTS StaysAccessible WriterReadsItsSnapshot
PROPERTIES AckedCountersAgree CommittedStaysCommitted WriterGetsTurn
