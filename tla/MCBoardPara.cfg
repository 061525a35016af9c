CONSTANTS
  Setting <- MCSetting
  Message <- MCMessage
  Bytes <- MCBytes
  StartCmd = StartCmd
  PackLen = 8
  RxSize = 300
  Blank = 65535
  MaxSends = 3
  MaxFaults = 2
SPECIFICATION FairSpec
INVARIANTS TypeOK HandledWhole InForceIsStored
PROPERTIES SetTakesEffect
CHECK_DEADLOCK FALSE
