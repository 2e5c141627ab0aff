----------------------------- MODULE RateLimiter -----------------------------
(***************************************************************************)
(* internal/services/ratelimiter.go together with the statements of        *)
(* internal/repository/ratelimit_repository.go it runs.                    *)
(*                                                                         *)
(* Acquire holds the mutex except while it sleeps for the second window,   *)
(* so every stretch between two sleeps is one action.  The goroutines that *)
(* persist the counts take no lock: each SQL statement of theirs is an     *)
(* action.  A call that returns without touching the state (ErrBlocked in  *)
(* an idle caller) is a stuttering step and is not listed.                 *)
(***************************************************************************)
EXTENDS Integers, FiniteSets

CONSTANTS Callers,         \* goroutines that call the limiter
          RequestsPerSec, RequestsPerMin, RequestsPerHour,
          SecondLen, MinuteLen, HourLen,  \* the windows, in clock ticks
          BlockDuration,   \* ticks a violation blocks for
          MaxTime,         \* bound on the clock
          MaxCrashes,      \* bound on process restarts
          MaxJobs,         \* bound on persistCounts goroutines at one time
          StorageMayFail,  \* whether a statement of persistCounts may fail
          LoadMayFail      \* whether a query of loadState may fail

ASSUME LimitsAssumption ==
  /\ RequestsPerSec \in Nat \ {0}
  /\ RequestsPerMin \in Nat \ {0}
  /\ RequestsPerHour \in Nat \ {0}

ASSUME LengthsAssumption ==
  /\ SecondLen \in Nat \ {0}
  /\ MinuteLen \in Nat \ {0}
  /\ HourLen \in Nat \ {0}
  /\ SecondLen <= HourLen /\ MinuteLen <= HourLen

ASSUME BoundsAssumption ==
  /\ MaxTime \in Nat
  /\ MaxCrashes \in Nat
  /\ MaxJobs \in Nat \ {0}
  /\ BlockDuration \in Nat
  /\ StorageMayFail \in BOOLEAN
  /\ LoadMayFail \in BOOLEAN

Tier == {"second", "minute", "hour"}

Limit == [k \in Tier |-> CASE k = "second" -> RequestsPerSec
                           [] k = "minute" -> RequestsPerMin
                           [] k = "hour"   -> RequestsPerHour]

Length == [k \in Tier |-> CASE k = "second" -> SecondLen
                            [] k = "minute" -> MinuteLen
                            [] k = "hour"   -> HourLen]

Time == 0..MaxTime

VARIABLES
  now,           \* the wall clock
  phase,         \* "down", "loading" (NewRateLimiter runs loadState) or "up"
  loadNow,       \* loadState's now, taken before it reads the counts
  last,          \* lastSecond, lastMinute, lastHour
  cnt,           \* secondCount, minuteCount, hourCount
  blockedUntil,  \* blockedUntil
  pc,            \* what a caller sleeps for: "second", "block", or "idle"
  deadline,      \* when that sleep ends
  jobs,          \* the running persistCounts goroutines
  blockJobs,     \* the goroutines block started: the now each captured
  stored,        \* rate_limit_state: the count of row (k, w); 0 is no row
  blockedAt,     \* blocked_at of the row of window_type "blocked"; {} is no row
  crashes,       \* restarts so far
  \* history
  grants,        \* calls that returned nil
  sent,          \* sent[k][w]: calls that returned nil in window w of tier k
  forgot,        \* a count was lost: a failed statement, or a restart too early
  promisedUntil  \* the end of the latest block, which no restart erases

clock    == <<now>>
memory   == <<phase, loadNow, last, cnt, blockedUntil>>
sleepers == <<pc, deadline>>
disk     == <<stored, blockedAt>>
history  == <<grants, sent, promisedUntil>>
vars     == <<now, phase, loadNow, last, cnt, blockedUntil, pc, deadline, jobs,
              blockJobs, stored, blockedAt, crashes, grants, sent, forgot,
              promisedUntil>>

-----------------------------------------------------------------------------
(* Windows and counters *)

\* time.Truncate: the start of the window of tier k that holds t.
Truncate(k, t) == t - (t % Length[k])

Windows(k) == {w \in Time : w % Length[k] = 0}

\* Slip: the window restarts at the moment of the call.
LatestAtNow(k) == IF Truncate(k, now) > last[k] THEN now ELSE last[k]

\* resetWindowsIfNeeded: the window start and the count a call works with.
Latest(k) == IF Truncate(k, now) > last[k] THEN Truncate(k, now) ELSE last[k]

\* Slip: the count is reset on every call.
FreshAlways(k) == 0

Fresh(k) == IF Truncate(k, now) > last[k] THEN 0 ELSE cnt[k]

ResetWindowsIfNeeded == /\ last' = [k \in Tier |-> Latest(k)]
                        /\ cnt' = [k \in Tier |-> Fresh(k)]

\* Slip: the limit itself is still allowed through.
ExhaustedLate(k) == Fresh(k) > Limit[k]

Exhausted(k) == Fresh(k) >= Limit[k]

\* Slip: the last tick of a block is not blocked.
BlockedEarly == now + 1 < blockedUntil

Blocked == now < blockedUntil

-----------------------------------------------------------------------------
(* persistCounts: for each tier in turn, UPDATE, then INSERT when no row
   was affected.  A job is one such goroutine, at the statement it is about
   to run; "at" is the now it captured. *)

Job == [id : Nat, at : Time, tier : Tier, step : {"update", "insert"}]

\* Slip: the minute counter is incremented again where the hour is meant.
NextTierStuck(k) == "minute"

NextTier(k) == IF k = "second" THEN "minute" ELSE "hour"

\* Slip: the goroutine returns before the hour.
FollowingShort(j) ==
  IF j.tier = "minute" THEN {}
  ELSE {[j EXCEPT !.tier = "minute", !.step = "update"]}

\* The goroutine after it is done with its tier, whatever the outcome.
Following(j) ==
  IF j.tier = "hour" THEN {}
  ELSE {[j EXCEPT !.tier = NextTier(j.tier), !.step = "update"]}

RowOf(j) == stored[j.tier][Truncate(j.tier, j.at)]

SetRow(j, n) ==
  stored' = [stored EXCEPT ![j.tier][Truncate(j.tier, j.at)] = n]

UpdateRow(j) ==
  /\ j.step = "update"
  /\ RowOf(j) > 0
  /\ SetRow(j, RowOf(j) + 1)
  /\ jobs' = (jobs \ {j}) \union Following(j)
  /\ UNCHANGED forgot

UpdateNothing(j) ==
  /\ j.step = "update"
  /\ RowOf(j) = 0
  /\ jobs' = (jobs \ {j}) \union {[j EXCEPT !.step = "insert"]}
  /\ UNCHANGED <<stored, forgot>>

InsertRow(j) ==
  /\ j.step = "insert"
  /\ RowOf(j) = 0
  /\ SetRow(j, 1)
  /\ jobs' = (jobs \ {j}) \union Following(j)
  /\ UNCHANGED forgot

\* Another goroutine inserted the row in between: UNIQUE(window_type,
\* window_start) rejects this one and its request is not counted.
InsertRejected(j) ==
  /\ j.step = "insert"
  /\ RowOf(j) > 0
  /\ forgot' = TRUE
  /\ jobs' = (jobs \ {j}) \union Following(j)
  /\ UNCHANGED stored

\* A statement fails or the five seconds are over: the error is logged.
StatementFails(j) ==
  /\ StorageMayFail
  /\ forgot' = TRUE
  /\ jobs' = (jobs \ {j}) \union Following(j)
  /\ UNCHANGED stored

PersistCounts(j) ==
  /\ \/ UpdateRow(j)
     \/ UpdateNothing(j)
     \/ InsertRow(j)
     \/ InsertRejected(j)
     \/ StatementFails(j)
  /\ UNCHANGED <<clock, memory, sleepers, blockJobs, blockedAt, crashes, history>>

\* SetBlocked only updates: without a row of type "blocked" it writes nothing.
SetBlocked(t) ==
  /\ blockJobs' = blockJobs \ {t}
  /\ blockedAt' = (IF blockedAt = {} THEN {} ELSE {t})
  /\ UNCHANGED <<clock, memory, sleepers, jobs, stored, crashes, history, forgot>>

-----------------------------------------------------------------------------
(* Acquire *)

\* A call begins: fresh, or from WaitUntilAvailable after its sleep.
Entering(c) == \/ pc[c] = "idle"
               \/ pc[c] = "block" /\ now >= deadline[c]

\* Slip: a sleep that overruns is never noticed.
WokenOnTime(c) == pc[c] = "second" /\ now = deadline[c]

Woken(c) == pc[c] = "second" /\ now >= deadline[c]

\* The two ways to the minute and hour checks.  The second one checks
\* neither the second limit nor the block again.
AtTheGate(c) == \/ Entering(c) /\ ~Blocked /\ ~Exhausted("second")
                \/ Woken(c)

\* The end of the sleep lies within the modelled time (MaxTime).
Throttle(c) ==
  /\ phase = "up"
  /\ Entering(c)
  /\ ~Blocked
  /\ Exhausted("second")
  /\ Latest("second") + SecondLen <= MaxTime
  /\ ResetWindowsIfNeeded
  /\ pc' = [pc EXCEPT ![c] = "second"]
  /\ deadline' = [deadline EXCEPT ![c] = Latest("second") + SecondLen]
  /\ UNCHANGED <<clock, phase, loadNow, blockedUntil, jobs, blockJobs, disk,
                 crashes, history, forgot>>

Return(c) == /\ pc' = [pc EXCEPT ![c] = "idle"]
             /\ deadline' = [deadline EXCEPT ![c] = 0]

\* ErrRateLimitExceeded, through block.
Exceed(c) ==
  /\ phase = "up"
  /\ AtTheGate(c)
  /\ Exhausted("minute") \/ Exhausted("hour")
  /\ ResetWindowsIfNeeded
  /\ blockedUntil' = now + BlockDuration
  /\ promisedUntil' = now + BlockDuration
  /\ blockJobs' = blockJobs \union {now}
  /\ Return(c)
  /\ UNCHANGED <<clock, phase, loadNow, jobs, disk, crashes, grants, sent, forgot>>

\* A call that is granted starts one more goroutine, of at most MaxJobs.
Grant(c) ==
  /\ phase = "up"
  /\ AtTheGate(c)
  /\ Cardinality(jobs) < MaxJobs
  /\ ~Exhausted("minute") /\ ~Exhausted("hour")
  /\ last' = [k \in Tier |-> Latest(k)]
  /\ cnt' = [k \in Tier |-> Fresh(k) + 1]
  /\ jobs' = jobs \union {[id |-> grants, at |-> now, tier |-> "second", step |-> "update"]}
  /\ grants' = grants + 1
  /\ sent' = [k \in Tier |-> [sent[k] EXCEPT ![Truncate(k, now)] = @ + 1]]
  /\ Return(c)
  /\ UNCHANGED <<clock, phase, loadNow, blockedUntil, blockJobs, disk, crashes,
                 forgot, promisedUntil>>

\* ErrBlocked to a caller of WaitUntilAvailable: blocked again meanwhile.
BlockedAgain(c) ==
  /\ phase = "up"
  /\ pc[c] = "block" /\ now >= deadline[c]
  /\ Blocked
  /\ Return(c)
  /\ UNCHANGED <<clock, memory, jobs, blockJobs, disk, crashes, history, forgot>>

\* ctx.Done() while asleep.
StopWaiting(c) ==
  /\ phase = "up"
  /\ pc[c] # "idle"
  /\ Return(c)
  /\ UNCHANGED <<clock, memory, jobs, blockJobs, disk, crashes, history, forgot>>

\* The block ends within the modelled time (MaxTime).
WaitUntilAvailable(c) ==
  /\ phase = "up"
  /\ pc[c] = "idle"
  /\ Blocked
  /\ blockedUntil <= MaxTime
  /\ pc' = [pc EXCEPT ![c] = "block"]
  /\ deadline' = [deadline EXCEPT ![c] = blockedUntil]
  /\ UNCHANGED <<clock, memory, jobs, blockJobs, disk, crashes, history, forgot>>

-----------------------------------------------------------------------------
(* The other operations, the clock and the process *)

GetStatus ==
  /\ phase = "up"
  /\ ResetWindowsIfNeeded
  /\ UNCHANGED <<clock, phase, loadNow, blockedUntil, sleepers, jobs, blockJobs,
                 disk, crashes, history, forgot>>

\* Rows older than two hour windows are deleted.
Cleanup ==
  /\ phase = "up"
  /\ stored' = [k \in Tier |-> [w \in Time |->
                  IF w < now - 2 * HourLen THEN 0 ELSE stored[k][w]]]
  /\ UNCHANGED <<clock, memory, sleepers, jobs, blockJobs, blockedAt, crashes,
                 history, forgot>>

Tick ==
  /\ now < MaxTime
  /\ now' = now + 1
  /\ UNCHANGED <<memory, sleepers, jobs, blockJobs, disk, crashes, history, forgot>>

\* The process ends: everything but the database is gone.
Crash ==
  /\ phase # "down"
  /\ crashes < MaxCrashes
  /\ crashes' = crashes + 1
  /\ phase' = "down"
  /\ loadNow' = 0
  /\ last' = [k \in Tier |-> 0]
  /\ cnt' = [k \in Tier |-> 0]
  /\ blockedUntil' = 0
  /\ pc' = [c \in Callers |-> "idle"]
  /\ deadline' = [c \in Callers |-> 0]
  /\ jobs' = {}
  /\ blockJobs' = {}
  /\ forgot' = (forgot \/ jobs # {})
  /\ UNCHANGED <<clock, disk, history>>

\* NewRateLimiter
Start ==
  /\ phase = "down"
  /\ phase' = "loading"
  /\ loadNow' = now
  /\ UNCHANGED <<clock, last, cnt, blockedUntil, sleepers, jobs, blockJobs, disk,
                 crashes, history, forgot>>

\* The counts are read for the windows of GetAllCurrentCounts' own now, the
\* window starts come from loadNow.  Nothing else writes the table yet, so
\* the four queries are one step.
LoadState ==
  /\ phase = "loading"
  /\ phase' = "up"
  /\ last' = [k \in Tier |-> Truncate(k, loadNow)]
  /\ cnt' = [k \in Tier |-> stored[k][Truncate(k, now)]]
  /\ blockedUntil' = (IF \E t \in blockedAt : t > loadNow
                      THEN (CHOOSE t \in blockedAt : TRUE) + BlockDuration
                      ELSE blockedUntil)
  /\ UNCHANGED <<clock, loadNow, sleepers, jobs, blockJobs, disk, crashes,
                 history, forgot>>

\* A query fails: the limiter starts from zero.
LoadFails ==
  /\ LoadMayFail
  /\ phase = "loading"
  /\ phase' = "up"
  /\ forgot' = TRUE
  /\ UNCHANGED <<clock, loadNow, last, cnt, blockedUntil, sleepers, jobs,
                 blockJobs, disk, crashes, history>>

-----------------------------------------------------------------------------
Init ==
  /\ now = 0
  /\ phase = "down"
  /\ loadNow = 0
  /\ last = [k \in Tier |-> 0]
  /\ cnt = [k \in Tier |-> 0]
  /\ blockedUntil = 0
  /\ pc = [c \in Callers |-> "idle"]
  /\ deadline = [c \in Callers |-> 0]
  /\ jobs = {}
  /\ blockJobs = {}
  /\ stored = [k \in Tier |-> [w \in Time |-> 0]]
  /\ blockedAt = {}
  /\ crashes = 0
  /\ grants = 0
  /\ sent = [k \in Tier |-> [w \in Time |-> 0]]
  /\ forgot = FALSE
  /\ promisedUntil = 0

Acquire(c) == Throttle(c) \/ Exceed(c) \/ Grant(c)

Caller(c) == Acquire(c) \/ BlockedAgain(c) \/ StopWaiting(c) \/ WaitUntilAvailable(c)

Next == \/ \E c \in Callers : Caller(c)
        \/ \E j \in jobs : PersistCounts(j)
        \/ \E t \in blockJobs : SetBlocked(t)
        \/ GetStatus
        \/ Cleanup
        \/ Tick
        \/ Crash
        \/ Start
        \/ LoadState
        \/ LoadFails

Spec == Init /\ [][Next]_vars

\* Time passes, sleepers are woken and goroutines run.  Nothing makes a call
\* begin, a process crash or a statement fail.
Fairness ==
  /\ WF_vars(Tick)
  /\ \A c \in Callers : WF_vars(Woken(c) /\ Acquire(c))
  /\ WF_vars(\E j \in jobs : PersistCounts(j))

FairSpec == Spec /\ Fairness

-----------------------------------------------------------------------------
(* Properties *)

\* Every variable has its type, and the windows the limiter counts in start
\* where time.Truncate puts them.
TypeOK ==
  /\ now \in Time
  /\ phase \in {"down", "loading", "up"}
  /\ loadNow \in Time
  /\ last \in [Tier -> Time] /\ \A k \in Tier : last[k] \in Windows(k)
  /\ cnt \in [Tier -> Nat]
  /\ blockedUntil \in Nat
  /\ pc \in [Callers -> {"idle", "second", "block"}]
  /\ deadline \in [Callers -> Time]
  /\ jobs \subseteq Job
  /\ blockJobs \subseteq Time
  /\ stored \in [Tier -> [Time -> Nat]]
  /\ blockedAt \subseteq Time
  /\ crashes \in 0..MaxCrashes
  /\ grants \in Nat
  /\ sent \in [Tier -> [Time -> Nat]]
  /\ forgot \in BOOLEAN
  /\ promisedUntil \in Nat

\* The process has not been restarted, or no count was ever lost.
Remembered == crashes = 0 \/ ~forgot

WithinLimit(k) == \A w \in Time : sent[k][w] <= Limit[k]

\* However many goroutines call Acquire, and across restarts, no minute and
\* no hour sees more requests than its limit, unless a count was lost and the
\* process restarted (Acquire, loadState, persistCounts).
MinuteHourQuota == Remembered => WithinLimit("minute") /\ WithinLimit("hour")

\* The same for the second limit, which Acquire does not check again after
\* its sleep: true of a single calling goroutine, as in the sync loop.
SecondQuota == Remembered => WithinLimit("second")

\* With several goroutines it may be exceeded, but however they overtake each
\* other and whatever second they oversleep into, a second sees at most one
\* request too many of each goroutine but one (Acquire).
SecondOverrun ==
  Remembered =>
    \A w \in Time : sent["second"][w] <= RequestsPerSec + Cardinality(Callers) - 1

\* What Acquire compares with a limit is the number of requests of the
\* current window, whatever time has passed since the counters were touched,
\* while another call slept, and across a restart.
CountsAreExact ==
  phase = "up" /\ Remembered =>
    \A k \in Tier : Fresh(k) = sent[k][Truncate(k, now)]

\* A window Cleanup may not have deleted.
Recent(w) == w >= now - 2 * HourLen

\* The database never holds more requests than were granted, so a restart
\* never refuses a request that the limits allow (IncrementCount, Cleanup).
NeverOvercounts == \A k \in Tier, w \in Time : stored[k][w] <= sent[k][w]

\* The goroutines of persistCounts go through the tiers in this order.
Reaches(i, k) == i = k \/ i = "second" \/ k = "hour"

\* The goroutines that have yet to count a request in window w of tier k.
NotYet(k, w) == {j \in jobs : Reaches(j.tier, k) /\ Truncate(k, j.at) = w}

\* Whatever counts restarts, rejected and failing statements have lost, what the
\* table holds and the goroutines still write of a minute or an hour is within
\* its limit: it sees at most as many requests too many as counts of it were
\* lost.  True if loadState's queries succeed (Acquire, persistCounts, loadState).
OverrunOnlyByLoss ==
  \A k \in {"minute", "hour"}, w \in Time :
    stored[k][w] + Cardinality(NotYet(k, w)) <= Limit[k]

\* Once the goroutines are done, a window that Cleanup keeps has all its
\* requests in the database, unless a statement failed or was rejected.
DrainedIsExact ==
  ~forgot /\ jobs = {} =>
    \A k \in Tier, w \in Time : Recent(w) => stored[k][w] = sent[k][w]

\* "Accurate tracking across deployments" in the documentation: without a
\* failing statement, and even without a restart, the database ends up with
\* every request (IncrementCount).
TrackingIsAccurate ==
  crashes = 0 /\ jobs = {} =>
    \A k \in Tier, w \in Time : Recent(w) => stored[k][w] = sent[k][w]

\* A call is granted only after the block of the latest violation is over.
HonoursBlock == [][grants' # grants => now >= promisedUntil]_vars

\* A call that waits for the second window returns: the limit is not checked
\* again, so callers do not overtake each other for ever.
SleepEnds == \A c \in Callers : pc[c] = "second" ~> pc[c] # "second"

\* The limiter implements the abstract quota, for the minute and the hour ...
LongTiers == INSTANCE WindowQuota WITH
  Tiers <- {"minute", "hour"},
  used <- [k \in {"minute", "hour"} |-> sent[k]]

ImplementsMinuteHour == LongTiers!Spec

\* ... and with one calling goroutine for all three tiers.
AllTiers == INSTANCE WindowQuota WITH
  Tiers <- Tier,
  used <- sent

ImplementsAllTiers == AllTiers!Spec

=============================================================================
