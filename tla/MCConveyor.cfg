\* Two packages on four zones (two boards), the second sent with two empty
\* zones between them.
SPECIFICATION FairSpec
CONSTANTS
  NZone = 4
  NSlot = 2
  p1 = p1
  p2 = p2
  NoPkg = NoPkg
  Pkg = {p1, p2}
  Spacing = 3
  SendCnt = 1
  FrameMod = 4
  MaxLoss = 0
INVARIANTS TypeOK NoCollision Tracked DeliveryTruthful
PROPERTIES AllDelivered BeltsStop
