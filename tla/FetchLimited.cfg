SPECIFICATION FetchSpec
CONSTANTS
  Callers = {c1}
  RequestsPerSec = 1
  RequestsPerMin = 1
  RequestsPerHour = 2
  SecondLen = 1
  MinuteLen = 2
  HourLen = 6
  BlockDuration = 3
  MaxTime = 5
  MaxCrashes = 0
  MaxJobs = 1
  StorageMayFail = TRUE
  LoadMayFail = TRUE
CHECK_DEADLOCK FALSE
INVARIANTS FetchTypeOK ArrivalsBounded NeverOvercounts
PROPERTIES HonoursBlock ImplementsAllTiers
