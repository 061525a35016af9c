CONSTANTS
  Conf = {1, 2, 3}
  Cut <- MCCut
  Half = 2
  Blank = 65535
  MaxUploads = 3
  MaxFaults = 1
SPECIFICATION FairSpec
INVARIANTS TypeOK InForceWhole StageFits
PROPERTIES InForceDurable ReadBackIsReceived UploadTakesEffect
CHECK_DEADLOCK FALSE
