SPECIFICATION Spec
CONSTANTS
  Requests <- OneJob
  CompileText <- KeyMapCompile
  MaxInput = 2
  MaxTTL = 3
  ReplayCapacity = 2
  ClockMod = 8
  DrainPeriod = 1
  ReleaseWait = 1
  StallLimit = 3
  DrainLag = 1
  MaxLag = 1
PROPERTY AbortOnlyWhenStalled
