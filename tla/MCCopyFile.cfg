SPECIFICATION Spec
CONSTANTS
  None = None
  Procs = {p1, p2, p3}
  Readers = {r1}
  Inodes = {i1, i2}
  N = 3
  SourceChanges = TRUE
  InitialLens = {0, 1, 2, 3, 4}
  Overlap = FALSE
SYMMETRY Symmetry
INVARIANTS TypeOK CompleteIsIntact StoredStaysIntact HeldStaysIntact LostIsRemoved
PROPERTIES KeepsOutput
CHECK_DEADLOCK FALSE
