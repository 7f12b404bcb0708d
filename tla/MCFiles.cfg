CONSTANTS
  p1 = p1
  p2 = p2
  f1 = f1
  f2 = f2
  Procs = {p1, p2}
  FileNums = {f1, f2}
  MaxSalts = 4
  MayFail = {"write", "sync"}
  Torn = Torn
  NoBlock = NoBlock
  NoProc = NoProc
  Users = {p1, p2}
  Tables = {f1, f2}
  Values = {v1, v2, v3}
  NoValue = NoValue
  NoUser = NoUser
  NoTable = NoTable
  ReleasingCap = 1
  Size = 1
  Readers = {p1, p2}
  Files = {f1, f2}
  Versions = {w1, w2, w3}
  ReadStates = {s1, s2}
  Mems = {m1, m2}
  Checkpoints = {c1}
  NoReadState = NoReadState
  NoVersion = NoVersion
  jobsQueueDepth = 1
SPECIFICATION FilesSpec
SYMMETRY MCSymmetry
INVARIANTS AckedKeysSurvive ChainIsLinked ReadersOpenAsNeeded NobodyBlocksEverybody InUseIsKept
PROPERTY KeepsPins
