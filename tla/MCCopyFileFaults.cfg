SPECIFICATION Spec
CONSTANTS
  None = None
  Procs = {p1, p2}
  Readers = {r1}
  Inodes = {i1, i2}
  N = 3
  SourceChanges = FALSE
  InitialLens = {0}
  Overlap = TRUE
SYMMETRY Symmetry
INVARIANTS CompleteIsIntact
CHECK_DEADLOCK FALSE
