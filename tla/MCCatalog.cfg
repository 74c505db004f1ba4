SPECIFICATION FairSpec
CONSTANTS
  h = h
  a = a
  b = b
  t1 = t1
  t2 = t2
  g0 = g0
  n0 = n0
  Hub = h
  Members = {a, b}
  Tracks = {t1, t2}
  OwnerOf <- MCOwner
  LibraryOf <- MCLibrary
  Loops <- MCLoops
  Groups = {g0}
  Default = g0
  Accepted <- MCAccepted
  Upgraded = {h}
  None = n0
  MaxBusy = 2
  MaxChanges = 1
  MaxFaults = 1
INVARIANTS
  SeededOnce
PROPERTIES
  StableRows
  NoLeak
  Converges
CHECK_DEADLOCK FALSE
