SPECIFICATION Spec
CONSTANTS
  Threads = {t1, t2}
  NoThread = NoThread
  MaxDepth = 2
  MaxFrames = 1
  Contended = TRUE
INVARIANTS
  HeldMeansOwned
