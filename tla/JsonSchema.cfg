CONSTANTS
  None = None
  Bounds <- ScaledBounds
  Numbers <- Integers1
  Lengths <- TextLengths
  Spans <- MatchedSpans
  Sources <- Pool
  Rounds = 2
SPECIFICATION Spec
CHECK_DEADLOCK FALSE
INVARIANTS RoundTrip SchemaAgrees
