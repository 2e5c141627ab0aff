SPECIFICATION FairSpec
CONSTANTS
  Callers = {c1, c2}
  RequestsPerSec = 1
  RequestsPerMin = 3
  RequestsPerHour = 4
  SecondLen = 1
  MinuteLen = 2
  HourLen = 4
  BlockDuration = 2
  MaxTime = 5
  MaxCrashes = 0
  MaxJobs = 1
  StorageMayFail = FALSE
  LoadMayFail = TRUE
CHECK_DEADLOCK FALSE
INVARIANTS CountsAreExact SecondOverrun
PROPERTIES ImplementsMinuteHour SleepEnds
