SPECIFICATION Spec
CONSTANTS
  t1 = t1
  t2 = t2
  evt = evt
  auto = auto
  sem = sem
  mtx = mtx
  None = None
  Invalid = Invalid
  Threads = {t1, t2}
  Kind <- MCKind
  Initial <- MCInitial
  MaxSignal <- MCMaxSignal
  Waits <- MCWaits
  MaxTokens = 1
INVARIANTS
  TypeOK
  MutexExclusion
  SemaphoreCounts
  GrantPaid
PROPERTIES
  SignalIsTaken
CHECK_DEADLOCK FALSE
