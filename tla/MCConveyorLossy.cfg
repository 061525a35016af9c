\* Three zones on two boards, one start or stop frame lost anywhere.
SPECIFICATION FairSpec
CONSTANTS
  NZone = 3
  NSlot = 2
  p1 = p1
  p2 = p2
  NoPkg = NoPkg
  Pkg = {p1, p2}
  Spacing = 3
  SendCnt = 1
  FrameMod = 4
  MaxLoss = 1
INVARIANTS Tracked NothingFallsOff
PROPERTIES AllDelivered
