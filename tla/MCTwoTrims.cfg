SPECIFICATION Spec
CONSTANTS
  None = None
  d1 = d1
  x1 = x1
  t1 = t1
  t2 = t2
  IndexEntries = {}
  PlainOutputs <- MCPlainOutputs
  Executables <- MCExecutables
  SizeOf <- MCSizeOf
  SubdirOf <- MCSubdirOf
  InitialDirs <- MCInitialDirs
  Stamps <- MCStamps
  NumSubdirs = 1
  MtimeInterval = 1
  TrimInterval = 3
  Start = 2
  MaxTime = 3
  MaxCalls = 1
  Trimmers = {t1, t2}
  UnusedFors = {0, 1}
  MaxSizes = {0, 2}
SYMMETRY Symmetry
INVARIANTS CutoffEnforced SizeEnforced NoOverTrim
CHECK_DEADLOCK FALSE
