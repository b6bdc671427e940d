SPECIFICATION Spec
CONSTANTS
  a = a
  b = b
  wa = wa
  wb = wb
  None = None
  Threads = {a, b}
  Windows = {wa, wb}
  OwnerOf <- WindowOwner
  MaxDirect = 2
  MaxMsgs = 3
  MaxSendStack = 2
CHECK_DEADLOCK FALSE
INVARIANTS
  
  RunningIsMapped
  WindowAlive

  
