SPECIFICATION Spec
CONSTANTS
  None = None
  a1 = a1
  d1 = d1
  x1 = x1
  t1 = t1
  t2 = t2
  IndexEntries <- MCIndexEntries
  PlainOutputs <- MCPlainOutputs
  Executables <- MCExecutables
  SizeOf <- MCSizeOf
  SubdirOf <- MCSubdirOf
  InitialDirs <- MCInitialDirs
  Stamps <- MCStamps
  NumSubdirs = 2
  MtimeInterval = 2
  TrimInterval = 3
  Start = 3
  MaxTime = 4
  MaxCalls = 1
  Trimmers = {t1}
  UnusedFors = {1}
  MaxSizes = {0}
PROPERTIES UnusedForHonoured
CHECK_DEADLOCK FALSE
