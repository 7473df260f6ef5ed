SPECIFICATION RadioSpec
CONSTANTS
  LastSlot = 2
  PublicKeys = {zero, recovery, initiator, k1, k2}
  ZeroKey = zero
  RecoveryKey = recovery
  InitiatorKey = initiator
  MaxGeneration = 4
  MaxSsid = 2
  MinPsk = 1
  MaxPsk = 2
  Printable = {1, 2}
  Blank = 3
  Ones = 5
  SectorSize = 5
  RadioFrames <- SetRadioFrames
INVARIANTS
  BootFindsCommitted
  RamIsFlash
  RecordsSound
  AcknowledgedRadioStays
  RadioNeverMixed
PROPERTY GenerationNeverBack
