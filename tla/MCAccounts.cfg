SPECIFICATION Spec
CONSTANTS
  r1 = r1
  r2 = r2
  e1 = e1
  e2 = e2
  e3 = e3
  s1 = s1
  n0 = n0
  Requests = {r1, r2}
  Emails = {e1, e2, e3}
  Subjects = {s1}
  None = n0
  Modes = {"full_login", "household_profiles", "open_admin_locked"}
  MaxUsers = 3
  MaxInvites = 1
  MaxAsked = 6
  MaxFaults = 1
SYMMETRY Symmetry
INVARIANTS
  NoHalfMade
  OneBootstrap
PROPERTIES
  AdminRemains
  PersonalOwned
  FreshStart
CHECK_DEADLOCK FALSE
