SPECIFICATION Spec
CONSTANTS
  r1 = r1
  r2 = r2
  t1 = t1
  t2 = t2
  n0 = n0
  Requests = {r1, r2}
  Tickets = {t1, t2}
  None = n0
  MaxTime = 2
  MaxSecrets = 2
  MaxBatches = 2
  MaxResets = 1
  MaxAsked = 7
  MaxFaults = 1
SYMMETRY Symmetry
INVARIANTS
  ResetEndsSessions
  ConfirmedSecret
  NoReplay
  EnabledHasCodes
CHECK_DEADLOCK FALSE
