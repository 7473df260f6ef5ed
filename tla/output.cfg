SPECIFICATION FairSpec
CONSTANTS
  Requests <- TwoJobs
  CompileText <- KeyMapCompile
  MaxInput = 2
  MaxTTL = 2
  ReplayCapacity = 2
  ClockMod = 4
  DrainPeriod = 1
  ReleaseWait = 1
  StallLimit = 2
  DrainLag = 1
  MaxLag = 1
INVARIANTS
  PressesFollowPlan
PROPERTIES
  CompletedIsDelivered
  NoSpuriousExpiry
  ExecutingEnds
