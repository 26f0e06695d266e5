SPECIFICATION FairSpec
CONSTANTS
  Views = {v1}
  Topics = {e, c}
  EventTopics = {e}
  Handlers = {h1, h2}
  Capacity = 2
  MaxFrames = 4
  None = None
INVARIANTS
  TypeOK
  NoSendOnClosed
  StandingsComplete
PROPERTIES
  ChannelSpec
  BroadcastReturns
CHECK_DEADLOCK FALSE
