SPECIFICATION Spec
CONSTANTS
  Apps = {a1}
  Plain = {t1}
  Queued = {q1}
  PipeSize = 1
  None = None
INVARIANTS
  HandleCounted
  SilentAfterCancel
PROPERTIES
  ArmedFires
  CallsReturn
  DeletedWorkerEnds
CHECK_DEADLOCK FALSE
