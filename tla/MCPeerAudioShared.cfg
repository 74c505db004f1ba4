SPECIFICATION Spec
CONSTANTS
  r1 = r1
  r2 = r2
  n1 = n1
  n2 = n2
  no = no
  Requests = {r1, r2}
  Negs = {n1, n2}
  None = no
  MaxDups = 1
  MaxCuts = 1
INVARIANTS
  OwnAnswer
CHECK_DEADLOCK FALSE
