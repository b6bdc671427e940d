SPECIFICATION Spec
CONSTANTS
  w1 = w1
  w2 = w2
  p1 = p1
  p2 = p2
  tick = tick
  proc = proc
  AnyWindow = AnyWindow
  Windows = {w1, w2}
  Posts = {p1, p2}
  Timers = {tick}
  ProcTimers = {proc}
  WindowOf <- MCWindowOf
  Tasks = {k}
  MaxMsgs = 3
  MaxDepth = 2
  MaxCalls = 2
CHECK_DEADLOCK FALSE
INVARIANTS
  OneOwner
  NoLostWakeup
  QueuedTimerIsSet
  
PROPERTIES
  Delivered
  CallbackRuns
