SPECIFICATION Spec
CONSTANTS
  Callers = {c1}
  RequestsPerSec = 1
  RequestsPerMin = 1
  RequestsPerHour = 2
  SecondLen = 1
  MinuteLen = 2
  HourLen = 4
  BlockDuration = 3
  MaxTime = 5
  MaxCrashes = 1
  MaxJobs = 1
  StorageMayFail = FALSE
  LoadMayFail = FALSE
CHECK_DEADLOCK FALSE
PROPERTIES HonoursBlock
