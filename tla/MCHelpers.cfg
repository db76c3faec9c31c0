CONSTANTS
  clockRate = 90000
  fps = 25
  audioSampleRate = 44100
  MaxFrames = 20
  MaxParameterSets = 2
  File <- MCFile
  ideaPesLength = 6
  Peeked = 8
  Nalu = {1, 2, 3, 8, 9}
  Adts = {7, 8, 9}
  Field = 40
  SeqField = 4
  MaxWritten = 3
  Caller = {w1, w2}
  Client = {c1}
  Server = {s1, s2}
  Socket = {1, 2}
  NoOne = NoOne
  Conn = {k1, k2}
  Window = 1
SPECIFICATION PartsSpec
CHECK_DEADLOCK FALSE
INVARIANTS
  LeadBounded
  ReadsNals
  ServerCanRead
  CloseWaits
  CopiedWhole
PROPERTIES
  SentInOrder
  CloseEnds
  EitherEndsBoth
