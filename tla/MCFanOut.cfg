SPECIFICATION FanOutSpec
CONSTANTS
  c1 = c1
  c2 = c2
  c3 = c3
  Clients = {c1, c2, c3}
  Capacity = 2
  MaxSent = 3
INVARIANTS
  NoPanic
  InOrder
PROPERTY FeedSpec
\* every client gone and the feed closed: the system may stop
CHECK_DEADLOCK FALSE
