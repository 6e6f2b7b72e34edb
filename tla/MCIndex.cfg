SPECIFICATION Spec
CONSTANTS
  a1 = a1
  o1 = o1
  o2 = o2
  n1 = n1
  n2 = n2
  p1 = p1
  p2 = p2
  p3 = p3
  g1 = g1
  Actions = {a1}
  Outputs = {o1, o2}
  Names = {n1, n2}
  Plain = Plain
  Calls <- MCCalls
  Putters = {p1, p2, p3}
  Getters = {g1}
  None = None
  Junk = Junk
INVARIANTS TypeOK IndexedIsUsable PutIsFound MissIsExplained HitIsWhole MixedIsBrief SomePutSucceeds
