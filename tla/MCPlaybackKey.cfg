SPECIFICATION Spec
CONSTANTS
  t1 = t1
  Tracks = {t1}
  NoTrack = NoTrack
  ListenBrainz = listenbrainz
  Lastfm = lastfm
  Limit = 2
  MaxTries = 2
  MaxPlays = 1
  MaxFaults = 0
  MaxReauths = 1
PROPERTY ClearsItsOwn
