SPECIFICATION Spec
CONSTANTS
  ClockMod = 5
  FirstDelay = 1
  MaxDelay = 2
  ConnectTimeout = 2
  Base = 2
  PrefixLen = 2
  FrameMax = 4
  MaxSegment = 3
  SndBuf = 2
  Chains <- ShortChains
  Streams <- PeerStreams
  OwnerStream <- TwoFrames
  Responses <- Answers
INVARIANTS
  NetTypeOK
  FramesExact
  ReceiptsExact
PROPERTIES
  OwnerServed
  ReadyAgain
  ClearTakesEffect
