CONSTANTS
  N = 2
  QueueLength = 2
  BatchSize = 2
  MaxSeq = 3
  Traffic <- OneWay
SPECIFICATION FairSpec
INVARIANTS ChannelSafe
PROPERTIES ImplementsChannel QueuedIsReceived SentIsReceived
CHECK_DEADLOCK FALSE
