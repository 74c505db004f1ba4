SPECIFICATION Spec
CONSTANTS
  t1 = t1
  t2 = t2
  t3 = t3
  p1 = p1
  p2 = p2
  NoTrack = NoTrack
  Tracks = {t1, t2, t3}
  Genre = {t1, t2}
  Procs = {p1, p2}
  Asks = {{t1}, {t2}, {t3}, {t1, t2}}
  Window = 1
  Threshold = 1
  Batch = 1
  Curated = FALSE
  Faulty = FALSE
  MaxOrder = 2
INVARIANT FalseMeansEmpty
