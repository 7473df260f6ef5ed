SPECIFICATION FairSpec
CONSTANTS
  Requests <- MixedRequests
  CompileText <- KeyMapCompile
  MaxInput = 2
  MaxTTL = 3
  ReplayCapacity = 2
  ClockMod = 8
  TickGap = 2
  Steps = {1, 2}
INVARIANTS
  NoResidue
  LedgerExact
  TypedFollowsPlan
  StagedLifetimeBounded
PROPERTIES
  AtMostOnce
  CompletedIsWhole
  ImplementsBridgeJob
  ExpiryExact
  StagedEnds
