SPECIFICATION WaitsSpec
CONSTANTS
  w1 = w1
  w2 = w2
  e1 = e1
  Apps = {a1, a2}
  Waits = {w1, w2}
  Objects = {e1}
  ObjectOf <- SharedEvent
  NoWait = NoWait
INVARIANTS
  ItemOutlivesWorker
PROPERTIES
  UnregisterReturns
