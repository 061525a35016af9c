\* The second package sent with one empty zone between the two.
SPECIFICATION Spec
CONSTANTS
  NZone = 4
  NSlot = 2
  p1 = p1
  p2 = p2
  NoPkg = NoPkg
  Pkg = {p1, p2}
  Spacing = 2
  SendCnt = 1
  FrameMod = 4
  MaxLoss = 0
INVARIANTS Tracked
