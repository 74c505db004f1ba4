SPECIFICATION Spec
CONSTANTS
  h = h
  a = a
  b = b
  t1 = t1
  t2 = t2
  g0 = g0
  n0 = n0
  Hub = h
  Members = {a, b}
  Tracks = {t1, t2}
  OwnerOf <- MCOwner
  LibraryOf <- MCLibrary
  Loops <- MCLoops
  Groups = {g0}
  Default = g0
  Accepted <- MCAccepted
  Upgraded = {h}
  None = n0
  MaxBusy = 0
  MaxChanges = 2
  MaxFaults = 3
INVARIANT RunsOnce
CHECK_DEADLOCK FALSE
