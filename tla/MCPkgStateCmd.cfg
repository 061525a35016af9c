\* The smallest table on which the loop of funrecv_pkg_state_cmd goes wrong:
\* two slots, one package.
CONSTANTS
  NSlot = 2
  EndValue = 1000
  QueueLen = 2
  Pkg = {p1}
  NoPkg = NoPkg
  MaxInsert = 2
SPECIFICATION FairSpec
PROPERTIES
  StateCommandAnswered
