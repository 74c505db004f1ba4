SPECIFICATION LibrarySpec
CONSTANTS
  first = first
  second = second
  f1 = f1
  f2 = f2
  Roots = {first, second}
  Files = {f1, f2}
  Under <- MCUnder
  Admins = {a1}
  None = None
  MaxIds = 2
  MaxVersion = 1
  MaxSaves = 2
  Initially <- MCInitially
  CommandLine = first
  MaxEvents = 1
PROPERTY
  Regrouped
SYMMETRY AdminSymmetry
CHECK_DEADLOCK FALSE
