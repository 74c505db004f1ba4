SPECIFICATION Spec
CONSTANTS
  s1 = s1
  p1 = p1
  p2 = p2
  a1 = a1
  e1 = e1
  d1 = d1
  House = house
  HousePipe = housePipe
  NoPipe = NoPipe
  Streams = {s1}
  Pipes = {p1, p2}
  Handlers = {a1}
  Audio = {a1}
  Deleters = {d1}
  Attempts = 2
  Requested = {s1}
  Signals = FALSE
INVARIANT NoPipelineForDeleted
