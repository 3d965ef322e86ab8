SPECIFICATION FairSpec
CONSTANTS
  MaxCounter = 9
  AnimationTimeout = 1
  StartTimeout = 1
  BrightTime = 1
  DimTime = 2
  HoldTime = 1
  MaxLate = 0
  MaxKeys = 1
  MaxUevents = 1
PROPERTY GoesDark
CHECK_DEADLOCK FALSE
