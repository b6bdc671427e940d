SPECIFICATION Spec
CONSTANTS
  a = a
  b = b
  wa = wa
  wb = wb
  None = None
  Threads = {a, b}
  Windows = {wa, wb}
  OwnerOf <- WindowOwner
  MaxDirect = 2
  MaxMsgs = 2
  MaxSendStack = 1
CHECK_DEADLOCK FALSE
INVARIANTS
  ReplyAlive
