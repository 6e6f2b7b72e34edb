SPECIFICATION Spec
CONSTANTS
  None = None
  a1 = a1
  d1 = d1
  x1 = x1
  t1 = t1
  t2 = t2
  IndexEntries <- MCIndexEntries
  PlainOutputs <- MCPlainOutputs
  Executables <- MCExecutables
  SizeOf <- MCSizeOf
  SubdirOf <- MCSubdirOf
  InitialDirs <- MCInitialDirs
  Stamps <- MCStamps
  NumSubdirs = 2
  MtimeInterval = 1
  TrimInterval = 3
  Start = 6
  MaxTime = 6
  MaxCalls = 1
  Trimmers = {t1}
  UnusedFors = {5}
  MaxSizes = {0}
PROPERTIES RecentUseKept
CHECK_DEADLOCK FALSE
