SPECIFICATION Spec
CONSTANTS
  Callers = {c1}
  RequestsPerSec = 1
  RequestsPerMin = 2
  RequestsPerHour = 2
  SecondLen = 1
  MinuteLen = 2
  HourLen = 2
  BlockDuration = 1
  MaxTime = 5
  MaxCrashes = 1
  MaxJobs = 2
  StorageMayFail = FALSE
  LoadMayFail = FALSE
CHECK_DEADLOCK FALSE
INVARIANTS TypeOK SecondQuota MinuteHourQuota CountsAreExact NeverOvercounts DrainedIsExact OverrunOnlyByLoss
