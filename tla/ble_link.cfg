SPECIFICATION Spec
CONSTANTS
  Frames = {"tick", "confirm", "stage"}
  Length <- FrameLength
  MtuPayload = 2
  CmdBufMax = 5
INVARIANTS
  LinkTypeOK
  CleanFrameHandled
  ReadIsFresh
