SPECIFICATION Spec
CONSTANTS
  Ids = {c1, c2}
  NoId = NoId
  MaxCalls = 3
  MaxFaults = 2
  MaxCuts = 1
  MaxCommand = 6
INVARIANTS WipeStands  ConfigReverted
CHECK_DEADLOCK FALSE
