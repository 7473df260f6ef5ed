SPECIFICATION TextSpec
CONSTANTS
  Chars <- AllChars
  Followers <- Sequels
  MaxChars = 2
  TextBytes <- BoundaryBytes
  MaxBytes = 4
INVARIANTS
  HostReadsText
  AcceptsExactly
  StrokesFit
  DecodeExact
CHECK_DEADLOCK FALSE
