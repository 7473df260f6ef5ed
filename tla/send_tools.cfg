SPECIFICATION ToolSpec
CONSTANTS
  run1 = run1
  run2 = run2
  Runs = {run1, run2}
  TextRequest <- Texts
  EnterRequest <- Enters
  PressEnter <- OnlyFirst
  MaxTries = 1
  Requests <- ToolRequests
  CompileText <- KeyMapCompile
  MaxInput = 2
  MaxTTL = 1
  ReplayCapacity = 3
  ClockMod = 3
  TickGap = 1
  Steps = {1}
INVARIANTS
  NothingTypedUnasked
  EnterOnlyAfterText
PROPERTY OkMeansTyped
