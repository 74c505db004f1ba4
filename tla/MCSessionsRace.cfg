SPECIFICATION Spec
CONSTANTS
  a = a
  b = b
  h = h
  c1 = c1
  c2 = c2
  n0 = n0
  Peers = {a, b}
  Members = {a}
  Hub = h
  Conns = {c1, c2}
  None = n0
  Learning = {b}
  MaxEvents = 1
INVARIANT OneTrusted
CHECK_DEADLOCK FALSE
