SPECIFICATION Spec
CONSTANTS
  LastSlot = 2
  PublicKeys = {zero, recovery, initiator, k1, k2}
  ZeroKey = zero
  RecoveryKey = recovery
  InitiatorKey = initiator
  MaxGeneration = 5
INVARIANT AlwaysBootable
