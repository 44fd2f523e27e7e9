SPECIFICATION FairSpec
CONSTANTS
  a = a
  b = b
  e = e
  n = n
  None = None
  Ids <- MCIds
  Streams <- MCStreams
  NoTime <- MCNoTime
  Speeds <- MCSpeeds
  Deltas <- MCDeltas
  Step = 2
  FeedMax = 1
  MaxInputs = 3
INVARIANTS ShowsPicked FeedMatchesPlayhead
PROPERTIES PlayheadKeepsTime PanelsFollowPlayhead LoadingEnds PlaybackEnds
CHECK_DEADLOCK FALSE
