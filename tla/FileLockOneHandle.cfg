SPECIFICATION Spec
CONSTANTS
  p1 = p1
  p2 = p2
  a1 = a1
  a2 = a2
  b1 = b1
  b2 = b2
  x1 = x1
  y1 = y1
  f1 = f1
  f2 = f2
  None = None
  Procs = {p1, p2}
  Threads = {a1, a2, b1, b2}
  Objects = {x1, y1}
  Paths = {f1}
  ProcOf <- TwoThreads
  Holder <- OneHandleHolder
  PathOf <- OneHandlePathOf
  MaxCrashes = 2
PROPERTIES
  ImplementsRwLock
  Progress
