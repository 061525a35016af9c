\* Three by two zones, each turned in any of the four ways, and every path of
\* up to three: a path of three has a first zone, a last one, and one in the
\* middle that is a turn or a straight run.
CONSTANTS
  Cols = 3
  Rows = 2
  MaxLen = 3
SPECIFICATION Spec
INVARIANTS
  DirectionsChain
  ExitBitsFaceNextZone
  StraighteningKeepsExit
CHECK_DEADLOCK FALSE
