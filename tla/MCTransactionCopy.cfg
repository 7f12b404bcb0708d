CONSTANTS
  Procs = {p1}
  NoProc = NoProc
  MaxCounter = 1
  MaxRestores = 1
SPECIFICATION Spec
INVARIANT RollbackDetected
