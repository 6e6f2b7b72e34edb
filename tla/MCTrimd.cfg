SPECIFICATION Spec
CONSTANTS
  Daemon = Daemon
  t1 = t1
  g1 = g1
  Trims = {t1}
  Closers = {g1}
  Interval = 2
  TrimInterval = 7
  MtimeInterval = 2
  MaxTrim = 2
  MaxDelay = 1
  Old = 9
INVARIANTS TypeOK StampIsFresh
PROPERTIES StandardTrimPrevented KeepsTrimming CancelEnds
