SPECIFICATION Spec
CONSTANTS
  Procs = {p1, p2}
  Names = {a, b, c}
  Handles = {h1}
  MaxObjects = 2
  MaxCrashes = 1
  MaxFaults = 1
  None = None
SYMMETRY Symmetry
INVARIANTS
  OneTable
  HandleKeepsName
  NameIsUnique
  RefsCounted
  UsedCounts
  OneToken
