CONSTANTS
  p1 = p1
  p2 = p2
  f1 = f1
  f2 = f2
  Procs = {p1, p2}
  FileNums = {f1, f2}
  MaxSalts = 4
  MayFail = {"sync"}
  Torn = Torn
  NoBlock = NoBlock
  NoProc = NoProc
SPECIFICATION Spec
SYMMETRY MCSymmetry
INVARIANT LinkedByHMACs
