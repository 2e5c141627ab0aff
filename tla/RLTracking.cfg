SPECIFICATION Spec
CONSTANTS
  Callers = {c1}
  RequestsPerSec = 2
  RequestsPerMin = 3
  RequestsPerHour = 4
  SecondLen = 1
  MinuteLen = 2
  HourLen = 4
  BlockDuration = 3
  MaxTime = 3
  MaxCrashes = 0
  MaxJobs = 2
  StorageMayFail = FALSE
  LoadMayFail = FALSE
CHECK_DEADLOCK FALSE
INVARIANTS TrackingIsAccurate
