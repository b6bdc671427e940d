SPECIFICATION Spec
CONSTANTS
  p1 = p1
  p2 = p2
  a1 = a1
  a2 = a2
  b1 = b1
  b2 = b2
  x1 = x1
  y1 = y1
  f1 = f1
  f2 = f2
  None = None
  Procs = {p1, p2}
  Threads = {a1, a2, b1, b2}
  Objects <- TwoFilesObjects
  Paths = {f1, f2}
  ProcOf <- TwoThreads
  Holder <- TwoFilesHolder
  PathOf <- TwoFilesPathOf
  MaxCrashes = 0
SYMMETRY ThreadSymmetry
INVARIANTS
  TypeOK
  GuardedExclusion
  NoStrayLock
  GateAlive
