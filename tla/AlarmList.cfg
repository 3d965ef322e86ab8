SPECIFICATION FairSpec
CONSTANTS
  Functions = {"alarm1", "animation"}
  Delays = {1, 3}
  UsPerMs = 2
  MsPerSec = 2
  StartTime = 1
  MaxTime = 7
  MaxAlarms = 3
  MaxCalls = 2
INVARIANTS Sorted NoOversleep
PROPERTIES ImplementsQueue DueAlarmsRun
