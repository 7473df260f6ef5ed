SPECIFICATION Spec
CONSTANTS
  recovery = recovery
  initiator = initiator
  laptop = laptop
  run1 = run1
  run2 = run2
  LastSlot = 2
  PublicKeys = {zero, recovery, initiator, laptop}
  ZeroKey = zero
  Clients = {run1, run2}
  StaticKey <- MCStaticKey
  FirstRoster <- ImportedRoster
  Bodies <- MixedBodies
  MaxHandshakes = 3
  MaxSent = 2
INVARIANTS
  AuthenticatedInRoster
  CommandsOnceInOrder
  ReceiptMatchesCommand
  NonceNeverReused
PROPERTY RosterChangedByAdmin
