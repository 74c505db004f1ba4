SPECIFICATION Spec
CONSTANTS
  t1 = t1
  Tracks = {t1}
  NoTrack = NoTrack
  ListenBrainz = listenbrainz
  Lastfm = lastfm
  Limit = 2
  MaxTries = 2
  MaxPlays = 2
  MaxFaults = 1
  MaxReauths = 1
INVARIANTS
  NothingDropped
  DeliveredInOrder
  DuplicatesExplained
  NotForgotten
PROPERTY EventuallyDelivered
