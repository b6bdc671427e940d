SPECIFICATION Spec
CONSTANTS
  Threads = {a, b}
  Handles = {h1, h2}
  None = None
  MaxDepth = 2
  MaxPosted = 1
INVARIANTS
  
  EventGoesDown
PROPERTIES
  UnhookedIsFreed
