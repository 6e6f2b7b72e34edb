SPECIFICATION Spec
CONSTANTS
  None = None
  d1 = d1
  x1 = x1
  c1 = c1
  c2 = c2
  IndexEntries = {}
  PlainOutputs <- MCPlainOutputs
  Executables <- MCExecutables
  SizeOf <- MCSizeOf
  SubdirOf <- MCSubdirOf
  InitialDirs <- MCInitialDirs
  Stamps <- MCStamps
  NumSubdirs = 1
  MtimeInterval = 2
  TrimInterval = 3
  TrimLimit = 3
  Start = 5
  MaxTime = 8
  MaxCalls = 1
  Closers = {c1, c2}
SYMMETRY Symmetry
INVARIANTS TypeOK TrimsApart CutoffEnforced
PROPERTIES RemovedWasUnused
CHECK_DEADLOCK FALSE
