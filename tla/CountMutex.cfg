SPECIFICATION Spec
CONSTANTS
  Threads = {t1, t2}
  NoThread = NoThread
  MaxDepth = 3
  MaxFrames = 2
  Contended = FALSE
INVARIANTS
  TypeOK
  HeldMeansOwned
  QuiescentDepth
