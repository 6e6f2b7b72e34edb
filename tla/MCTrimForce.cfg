SPECIFICATION Spec
CONSTANTS
  None = None
  a1 = a1
  d1 = d1
  x1 = x1
  t1 = t1
  t2 = t2
  IndexEntries <- MCIndexEntries
  PlainOutputs <- MCPlainOutputs
  Executables <- MCExecutables
  SizeOf <- MCSizeOf
  SubdirOf <- MCSubdirOf
  InitialDirs <- MCInitialDirs
  Stamps <- MCStamps
  NumSubdirs = 2
  MtimeInterval = 2
  TrimInterval = 3
  Start = 4
  MaxTime = 5
  MaxCalls = 2
  Trimmers = {t1}
  UnusedFors = {0, 3}
  MaxSizes = {0, 2}
INVARIANTS TypeOK CutoffEnforced LruOrder SizeEnforced NoOverTrim
PROPERTIES RemovedWasUnused TrimEnds
CHECK_DEADLOCK FALSE
