SPECIFICATION Spec
CONSTANTS
  h = h
  a = a
  b = b
  t1 = t1
  t2 = t2
  g0 = g0
  n0 = n0
  Hub = h
  Members = {a, b}
  Tracks = {t1, t2}
  OwnerOf <- MCOwner
  LibraryOf <- MCLibrary
  Loops <- MCLoops
  Groups = {g0}
  Default = g0
  Accepted <- MCAccepted
  Upgraded = {h}
  None = n0
  MaxBusy = 1
  MaxChanges = 0
  MaxFaults = 1
INVARIANT SeedComplete
CHECK_DEADLOCK FALSE
