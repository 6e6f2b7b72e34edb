SPECIFICATION Spec
CONSTANTS
  None = None
  t1 = t1
  t2 = t2
  t3 = t3
  P1 = P1
  P2 = P2
  Threads = {t1, t2, t3}
  Processes = {P1, P2}
  Home <- MCHome
  Bytes = {0, 1}
  MaxLen = 2
  Data <- MCData
  Transforms <- MCTransforms
  CallsOf <- MCCallsOf
INVARIANTS TypeOK RoomBeforeOverwrite ErrorRestores MuIsRedundant
PROPERTIES LockedIsStable IsAtomic LocksAreReleased
