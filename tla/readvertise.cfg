SPECIFICATION Spec
CONSTANTS
  ClockMod = 16
  Pause = 3
  MaxLag = 1
INVARIANT ReadvertisedInTime
