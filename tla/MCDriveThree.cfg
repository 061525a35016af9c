CONSTANTS
  Dirs <- MCDirs
  Period = 1
  Height = 2
  Limit = 3
  Unnumbered = 65535
  MaxCommands = 2
  MaxAlarms = 1
  MaxFaults = 1
SPECIFICATION FairSpec
INVARIANTS TypeOK JackKnown LastCommandWins NextNumberIsNew
PROPERTIES SecondLegAfterArrival CarriedOut JackFollows
