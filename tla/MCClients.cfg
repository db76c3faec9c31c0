CONSTANTS
  Media = {"audio", "video"}
  Kind = {"rtmp", "flv", "twice"}
SPECIFICATION ClientsSpec
CHECK_DEADLOCK FALSE
INVARIANTS
  ReturnLeavesNothing
  MediaAfterConnected
  TransportKept
  PassesIfPlayed
PROPERTIES
  MediaBegins
  PublisherEnds
  RtmpTestEnds
