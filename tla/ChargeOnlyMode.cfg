SPECIFICATION Spec
CONSTANTS
  MaxCounter = 9
  AnimationTimeout = 1
  StartTimeout = 2
  BrightTime = 3
  DimTime = 4
  HoldTime = 2
  MaxLate = 1
  MaxKeys = 2
  MaxUevents = 2
INVARIANTS TypeOK DisplayCycle HoldMatchesKey  NoticedInTime
CHECK_DEADLOCK FALSE
