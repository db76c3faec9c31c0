CONSTANT Track = {"audio", "video"}
SPECIFICATION FairSpec
CHECK_DEADLOCK FALSE
PROPERTIES
  PlayerEnds
