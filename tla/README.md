# TLA+ models of mf-analytics

The server (Go, `src/`) keeps NAV histories of ten mutual funds in SQLite. It
fetches them from api.mfapi.in under a rate limit, computes analytics and
serves both over HTTP. This directory holds TLA+ models of the parts whose
correctness depends on the order of steps, TLC configurations that check them
on small instances, and proofs checked by TLAPS.

## The system

| Component | State | Operations | Talks to |
|---|---|---|---|
| RateLimiter (`internal/services/ratelimiter.go`) | three counters and window starts, `blockedUntil`, a mutex | Acquire, WaitUntilAvailable, GetStatus, Cleanup, loadState; goroutines persistCounts and block's | RateLimitRepository |
| RateLimitRepository | table `rate_limit_state`, unique in (type, start) | IncrementCount, SetBlocked, GetBlockedUntil, GetAllCurrentCounts, CleanupOldRecords | SQLite |
| SyncService (`sync_service.go`) | `isRunning`, `cancelFunc`, a mutex; the locals of its goroutines | TriggerSync, runSync, syncFund, insertNAVWithResumability, ResumePausedSyncs, StopSync | MFAPIClient, both repositories |
| SyncRepository | table `sync_state`, a row per fund and sync type | UpsertSyncState, Mark..., UpdateResumePointer, GetPendingOrFailedSyncs | SQLite |
| FundRepository | tables `funds`, `amcs`, `categories`, `nav_history`, `fund_analytics` | InsertNAVBatch, GetNAVCount, ListFunds, upserts | SQLite |
| MFAPIClient | none | FetchSchemeData, ParseNAVData | RateLimiter.Acquire, the API |
| AnalyticsService (`analytics_service.go`) | none of its own, its goroutines' locals | RecalculateAllAnalytics, CalculateAndStoreAnalytics, RankFunds | FundRepository |
| FundService (`fund_service.go`) | none of its own | InitializeTrackedFunds, reads | FundRepository |
| SyncHandler (`handlers/sync_handler.go`) | the progress of each request | TriggerSync, GetSyncStatus | SyncService, AnalyticsService |
| FundHandler, router | none | the read-only HTTP endpoints | the services |
| SQLiteDB, config, models, logger, main | schema, constants, wiring | migrate, Load, start and shutdown | |

`main` builds one of each, migrates and seeds the database, runs
InitializeTrackedFunds and serves; an error in any of that ends the process. The
only caller of `FetchSchemeData`, and so of `Acquire`, is `syncFund`. One
goroutine at a time runs it on behalf of `TriggerSync` (`isRunning` sees to
that). A POST to `/sync/trigger` starts that goroutine and, if asked to, one of
RecalculateAllAnalytics beside it. `ResumePausedSyncs`, `StopSync`,
`WaitUntilAvailable`, `Cleanup`, `RefreshFundData` and `GetResumePointer` are
operations that no code calls yet. The models contain those that change state,
and every run says whether it lets them happen: with one caller and no resumes or
stops a run shows the program as it is wired, with more what the operations do to
each other.

### What is hard about it

* *Interleaving.* Acquire gives up its mutex to sleep and continues on a changed
  state. The goroutines that persist counts hold no lock. Two workers may run
  syncFund on the same row. Recalculations run beside the sync that they should
  follow, and beside each other.
* *Atomicity.* IncrementCount is an UPDATE and an INSERT without a transaction,
  GetOrCreateAMC a SELECT and an INSERT. syncFund is a dozen statements without
  one; only a batch of NAVs is atomic. The handler looks at isRunning, and
  TriggerSync looks again.
* *Restarts.* Counts are written after the request was granted; rows stay
  `in_progress`; a start may break off between any two statements; main's shutdown
  does not wait for the sync or the recalculations.
* *Partial failure.* Any statement may fail: the errors are mostly logged.
* *Boundaries.* Windows turn between reading a clock and using it, between a grant
  and the arrival of the request, and `last_nav_date` decides which days are
  fetched at all.
* *Liveness.* `isRunning`, `in_progress` and the sleep for the next second all
  keep somebody else out.

### What makes the components correct

* RateLimiter: no window sees more requests than its limit; its counters are the
  requests of the current window; the database never knows of more requests than
  were sent and, in the end, of no fewer; a block is honoured; sleepers wake.
* MFAPIClient: what arrives at the API is bounded too, though it arrives later
  than it was granted.
* SyncService: below `last_nav_date` nothing is missing; the watermark does not
  recede; `total_records` is backed by stored NAVs; a row is in progress only
  while a worker holds it; a sync ends, and whatever failed, all that is
  published is stored in the end. For the rest of the server it is a job of which
  one runs at a time and which only adds published NAVs.
* FundService: after any number of interrupted starts there is at most one row
  for each fund, AMC and category, before the process serves there is one, and
  the ids that other tables refer to stay what they were.
* AnalyticsService: a stored result is backed by stored NAVs; a recalculation
  that is alone replaces no result by an older one; in the end the results are
  those of all that is stored.
* SyncHandler: one sync at a time however requests interleave, and only a
  request that was overtaken is refused with 500.

## The modules

| Module | Models |
|---|---|
| `WindowQuota` | the abstract promise of a multi-tier limiter |
| `RateLimiter` | ratelimiter.go with the statements of ratelimit_repository.go; implements `WindowQuota` |
| `FetchLimited` | FetchSchemeData of mfapi_client.go on top of `RateLimiter` |
| `SyncJob` | the abstract promise of the sync service to the server |
| `SyncService` | sync_service.go with the statements of sync_repository.go and fund_repository.go, and what the API client returns; implements `SyncJob` |
| `FundCatalog` | the start of the process: migrate, seedData, InitializeTrackedFunds |
| `Analytics` | RecalculateAllAnalytics and CalculateAndStoreAnalytics, statement by statement |
| `Server` | the process: `FundCatalog`, sync_handler.go's TriggerSync, `SyncJob` and `Analytics` together |
| `ServerQuiet` | `Server` with a history variable, for what an undisturbed recalculation achieves |
| `ServerDue` | `Server` with a history variable, for one documented sentence |
| `MCServer`, `MCServerQuiet` | the tracked funds for TLC |
| `RateLimiterProofs`, `CallerProofs` | theorems on `RateLimiter`; on its quotas by the number of callers, and on `FetchLimited` |
| `SyncServiceProofs`, `SyncRowsProofs`, `SyncJobProofs`, `SyncEndProofs` | theorems on `SyncService` |
| `FundCatalogProofs`, `ServerProofs` | theorems on `FundCatalog`, `Server` and `ServerQuiet` |

How they are composed: `FetchLimited` extends the limiter, of which its callers
use nothing but what FetchSchemeData uses. `Server` extends `FundCatalog` and
instantiates `SyncJob` and `Analytics` over its variables, each of its actions
being one of theirs with everything else unchanged, or two of theirs at once
where the code does two things in one step (a request that starts both
goroutines; a crash). The sync appears in `Server` through `SyncJob`: composed
statement by statement the two would be out of TLC's reach, and
`ImplementsSyncJob` is checked and proved of `SyncService`. `FetchLimited` is to
`SyncService` a fetch that succeeds or fails: a refusal of the limiter is the
outcome `FetchFails`, as every other error of FetchSchemeData.

Operators whose comment begins with "Slip:" are not part of a model. Each is the
definition that follows it with a mistake somebody could make in the code;
`PROJECT.json` names, for every property, one that must break it.

### RateLimiter

`now` is the clock in ticks, `last` and `cnt` are lastSecond ... hourCount,
`stored` is the table. A stretch of Acquire between lock and unlock is one
action: `Throttle` goes to sleep for the second window, `Grant` returns nil,
`Exceed` returns ErrRateLimitExceeded and blocks. `Woken` is the continuation
after the sleep, which reaches the minute and hour checks without the block and
the second check, as in the code. A call that is answered ErrBlocked changes
nothing and is a stuttering step. `jobs` are the goroutines of persistCounts:
for each tier in turn one action is the UPDATE, that did or did not find a row,
and the next is the INSERT, that may find the row taken. The SELECT after a
successful UPDATE only produces a return value that nobody uses; its failure has
the effect of `UpdateRow`. The query for the block in loadState can only find
nothing, so its failure has the effect of `LoadState`. `Crash` and `Start` are the
end of the process and its restart; `NewRateLimiter` reads its clock in `Start`
and its counts in `LoadState`, so time may pass in between.

The history variables `grants`, `sent`, `forgot` and `promisedUntil` record what
happened and guard nothing. `forgot` becomes true when a count is lost: a failed
or rejected statement, a load that failed, or a crash while a goroutine ran. The
quota of the minute and the hour is only promised where no count was lost;
`WindowQuota` states it with no such proviso, and is implemented where the
process does not restart.

### FetchLimited

A call of Acquire that grants leads to a request that is sent some time later
(`Send`), perhaps when the window has turned; `arrived` (history) counts what the
API gets by the window of arrival. Any answer returns, a 429 by an action of its
own since the code logs it.

### SyncService

`rows` is `sync_state`, `nav` is `nav_history` (the set of dates of each fund),
`work` holds the locals of the two goroutines: the runner, which TriggerSync
starts, and a caller of ResumePausedSyncs. Every statement is an action, named
as the repository's function, and each has the outcome that the statement fails:
because the database fails it (a `"fault"`) or because the context is cancelled
(`StopSync`). Between statements everything may happen, a crash included.
`Mishaps` names which of fault, crash and stop may happen, `MaxMishaps` how many
in all. A batch is any `BatchSize` of the NAVs that are left, since nothing
depends on the order in which the API lists them; the database does not depend
on which of two equal entries it keeps. `delayed` stands for a next_retry_at that
is set: a resume sees it as reached or not. A failure of GetFundByID in
ResumePausedSyncs goes on with the next row, as a failed GetSyncState does.

The API is external: it publishes a NAV a day for every fund, in the order of
dates, and answers with everything published; `Unparsable` are the entries that
ParseNAVData skips.

Read-only, and so not actions: GetSyncStatus, which reports half the number of
rows as the number of funds, since every fund has a row per sync type, and puts
a paused row in none of its counts; IsRunning; GetResumePointer. `RetryAttempts` is loaded and
never read; `retries` has no bound in the code.

### FundCatalog

A statement of InitializeTrackedFunds is an action: the SELECT of a name, its
INSERT if it is new, the upsert of the fund. `windows` are what the one
transaction of migrate and seedData leaves. Tables are sequences: no row is ever
deleted and AUTOINCREMENT never uses an id twice, so a row's place stands for its
id (real ids may have gaps, which nothing depends on). A failed or rejected
statement is log.Fatal and leads to the next start, as a crash does at any point,
also while the process serves.

### Analytics

`stats` is fund_analytics, and of a row the part that says which NAVs its
metrics were computed from: data_start_date, data_end_date and
nav_data_point_count. `calc` are the goroutines, each somewhere in its loops over
funds and windows. A window with too few NAVs, or whose first one is not positive
(`Worthless`), is skipped and keeps its row, as is a window whose statement fails.
The day of a query is the latest day published.

### Server

`Ask` is the handler up to its look at IsRunning, `Trigger` or
`TriggerAndRecalculate` and `Refuse` the rest; an answer 409 changes nothing and
is a stuttering step. `conv` is a request's progress and records (history)
whether another request started a sync in between. A fund's NAVs are stored under
the place of its row, so a fund that changed its id would be seen.

## The runs

Each property is defined, with a comment, at the end of its module. The passing
runs:

| Run | Question | Bounds |
|---|---|---|
| `RLCallers` | Which promises survive concurrent callers: `CountsAreExact`, `SecondOverrun`, `ImplementsMinuteHour` (and with it the quota of minute and hour), and does a sleeper return (`SleepEnds`)? | 2 callers, so one sleeps while the other calls, or both sleep; 5 ticks over windows of 1, 2, 4; loadState may fail, which changes nothing in the first life of the process |
| `RLRestart` | Limits, counters and table across a restart, with persisting goroutines in each other's way: `TypeOK`, `SecondQuota`, `MinuteHourQuota`, `CountsAreExact`, `NeverOvercounts`, `DrainedIsExact`; and where counts were lost, is a limit exceeded by no more than those: `OverrunOnlyByLoss`? | 1 restart at any point, 2 goroutines, of which one may have its INSERT rejected; 5 ticks with an hour of 2, so Cleanup deletes; loadState's queries succeed, without which `OverrunOnlyByLoss` is false |
| `FetchLimited` | The limiter as it is wired, with requests that arrive late: `FetchTypeOK`, `ArrivalsBounded`, `NeverOvercounts`, `HonoursBlock`, `ImplementsAllTiers` | 1 caller; any statement of persistCounts and any query of loadState may fail; windows of 1, 2 and 6 with limits 1, 1 and 2, 5 ticks: the minute refuses in one behaviour and the hour in another, and a block is longer than a minute |
| `SyncOneWorker` | One sync after the other: `TypeOK`, `TotalIsBacked`, `OneOrphanPerMishap`, `WatermarkNeverRecedes`, `ImplementsSyncJob`, `NearsItsEnd`, `SyncEnds`, `UndisturbedSyncsResume`, `CatchesUp` | 1 fund, batches of 1, 3 dates, the second unparsable, 1 failed fetch of a row at a time, any 2 of fault, crash and stop, so a fault or a crash also comes after a stop; the fund's two rows can both be stranded |
| `SyncTwoWorkers` | Runner against resumer: `WatermarkComplete`, `OrphanOnlyByFault` | 1 fund, 2 dates, batches of 1, so a batch fails after another was stored; 1 resume, 1 fault |
| `Server` | The whole process, as `MCServerQuiet`: `ServerTypeOK`, `CatalogueSound`, `ServesComplete`, `IdsStable`, `StartGetsOn`, `StartsUp`, `SingleFlight`, `RefusedOnlyByRival`, `DataStaysWithScheme`, `RowsAreBacked`, `LoneNeverRecedes`, `LoneLeavesUpToDate`, `StatsCatchUp` | 2 tracked funds that share an AMC and not a category, NAVs for one of them; 2 requests, 2 recalculations, 1 failing statement or crash; 4 dates, the second worthless, a window of 1 day: both ends belong to it, so it holds two NAVs at most, the first leaves it on the third day, and rows of days 1 and 2 and of 3 and 4 are possible. Between them the window begins with the worthless NAV or has one NAV or none, and the row stays as it was; NAVs stored in any order fill it later |

The ticks and limits are small versions of the configured ones with the same
order: a second, minute and hour of which each contains the one before, and
limits such that each tier is the one that refuses in some behaviour. Sync
states, NAVs and analytics of different funds share nothing but the loop that
takes the funds one after another, so one fund shows what can happen to its row
and a second only multiplies it; the catalogue, where funds share AMCs, has two.
`MaxTime`, `MaxCrashes`, `MaxJobs`, `MaxDate`, `MaxRetries`, `MaxMishaps`,
`MaxResumes`, and the sets `Calculators` and `Requests`, bound the
runs and are named in the modules; `StorageMayFail` and `LoadMayFail` say whether
the limiter's statements may. Within `MaxTime` a call sleeps only if its sleep
ends before; so TLC may run out of steps in the limiter, and its configurations
do not check for deadlock. SyncService and Server never run out of steps, and
their runs check it.

Runs that show the code disagree with what is documented of it. TLC finds each
property violated:

| Run | Documentation | Code |
|---|---|---|
| `RLBlockLost` | limiter state survives restarts | SetBlocked updates a row that nothing inserts, so a block is gone after a restart |
| `RLTracking` | accurate tracking | two goroutines race for the INSERT and one request is not counted |
| `SyncOrphanCrash` | resumption after interruptions | a row that a crash left in progress is skipped for ever |
| `SyncPointer` | restart from the last pointer | every sync starts with the first record |
| `RecalcBeside` | recalculate analytics after sync | the recalculation runs beside the sync and may read before it stores |
| `Api429` | "received 429 from MFAPI, triggering block" | the limiter is not told |

`PROJECT.json` quotes the lines. `HonoursBlock` also belongs to a passing run,
without a restart, and `UndisturbedSyncsResume` is `InterruptedSyncsResume` as far
as it holds: as long as no statement fails and nothing is stopped. Counts that a
restart forgets are not a finding of their own: `MinuteHourQuota` says of whom it
speaks.

`HonoursBlock` and `SecondQuota` are promises to a single caller, as it is wired:
with `Callers = {c1, c2}` and no crash TLC finds both violated. A call that slept
for the second window checks neither the block nor the second limit again, so it
may be granted inside the block of another call, and two that wake in the same
second may both be granted. For the same reason the abstract quota with several
callers is that of the minute and the hour alone. What holds of the second with
several is `SecondOverrun`: a request too many for each caller but one at most.
`ArrivalsBounded` is stated for any number of callers, run with the one there is
and proved for all.

`OrphanOnlyByFault` (with two workers) and `CatchesUp` except what a mishap did. A
stopped sync calls UpdateResumePointer on the context that was just cancelled, so
the row stays in progress, which is recorded as a hazard and not as a finding,
since nothing calls StopSync. `OneOrphanPerMishap` excepts nothing: with the one
worker there is, a mishap costs one row at most, and a stop is the case that could
cost more, because it fails every statement that follows. `TotalIsBacked` says
that total_records claims no NAV that is not stored, and nothing of a total that
is too low: after a failed GetNAVCount it is, until a sync finds new data.

The 500 that `RefusedOnlyByRival` allows where another request came first is what
the handler answers when TriggerSync itself refuses. The repository's README
(lines 428 to 434) documents the answer `sync_in_progress` for a running sync and
does not say which of the two looks it means; the overtaken request gets another
one. The property shows that no other request does, and the hazard names the code
that should answer 409.

`MinuteHourQuota` and `CountsAreExact` except what happens after a count was lost
and the process restarted. `OverrunOnlyByLoss` is about that: whatever was lost,
what the table holds of a minute or an hour and what goroutines will still write
to it stays within the limit. All requests that are not lost are there, so the
limit is exceeded by no more than the lost ones. It needs loadState to
succeed, since a limiter that could not load grants a full limit again beside
what the table already holds.

### Fairness

`RateLimiter!FairSpec` assumes that time passes, that a sleeper whose time has
come is run (the Go runtime's timers, and a mutex that is held for no I/O), and
that persisting goroutines run (each ends within its five seconds). Nothing makes
a call begin. `SyncService!FairSpec` assumes weak fairness of each worker, a
goroutine that no lock stops, and strong fairness of an incremental
`TriggerSync`: somebody asks again and again, and gets through once none is
running. Failed fetches of one row are at most `MaxRetries` in a row, without
which `CatchesUp` would ask for what no program can do. `Server!Fairness` assumes
that the process is started again after it ended (`BootServer`), that each
recalculation's goroutine runs, that a sync ends (which `SyncEnds` shows of
SyncService), and strong fairness of asking for a sync with a recalculation:
somebody keeps asking. Nothing makes the sync store anything: `StatsCatchUp` is
about what is stored. Faults, crashes, stops and failed fetches are never
required anywhere.

## The proofs

The theorems hold for every value of the constants within their assumptions
(`LimitsAssumption`, `LengthsAssumption`, `DataAssumption`, `BoundsAssumption`,
`TrackedAssumption`, `CatalogBoundsAssumption`, `DatesAssumption`,
`QuotedAssumption`), for any number of callers, funds, requests and goroutines,
unless a theorem says otherwise in its ASSUME.

**RateLimiter.** `TypeCorrect` proves `TypeOK`, including that every window the
limiter counts in starts at a multiple of its length. `MinuteHourLimit`,
`ExactCounts`, `NoOvercount` and `DrainedExact` follow from one inductive
invariant, `IInv`. The limits are not inductive: Acquire compares a counter, not
the number of requests, so the invariant says that a counter is the number of
requests of its window (`CountsAreExact`), which after a restart rests on the
table. That in turn is exact only together with the goroutines on their way:
for each row, what is stored plus what is still to be written is what was sent,
as long as nothing was forgotten and Cleanup has not deleted it. The arithmetic
of windows (`Truncate` is monotonic and a fixed point at window starts) is
proved first, as lemmas. The step of every action is a case of its own.
`OverrunIsLoss` (`OverrunOnlyByLoss`, if no query of loadState fails) adds that the
counter covers what table and goroutines have of the current window
(`FreshCovers`), which stays true when counts are lost: `OnlyGrantAdds` shows that
no step but a granted call adds to what is in hand, and that one adds to both.

**Quotas, blocks and callers.** `MinuteHourImplemented` shows that the limiter
without a restart implements `WindowQuota` for the minute and the hour, for any
number of callers: the gate of Acquire compares with each limit the requests that
were granted in the window. Three theorems assume a single caller, as main wires
it. `SecondLimit` (`SecondQuota`) adds to `IInv` that a sleeper has the second
it sleeps for to itself (`Reserved`), and `AllImplemented` is the refinement for
all three tiers. `BlockHonoured` (`HonoursBlock`, without a restart) rests on
`BlockKnown`: `blockedUntil` is what was promised, and a sleeper went to sleep when
no block was on. `SecondOverrunBounded` (`SecondOverrun`) is what is left of the
second limit with any finite number of callers. A bound on each second is not
inductive, since a sleeper may wake in a later second than the one it slept for
and be granted there: the invariant `Overslept` adds to the requests of a second
the sleepers that may still wake in it, and rests on every deadline being the
beginning of a second (`Aligned`).

`FewArrivals` (`ArrivalsBounded`) carries the quota to the API, for any finite
number of callers: the invariant `Arrivals` says that in a window
that is not over, what arrived exceeds what was granted by no more than the
number of callers that have nothing on its way to it (`Pending`: a request that
was granted and not sent, or a sleep that ends in that second). `FetchIsLimited` shows that every step under
FetchSchemeData is one of the limiter, which gives the limiter's theorems to the
client (`FetchCounts`, and with one caller `FetchHonoursQuota`);
`FetchTypeCorrect` proves `FetchTypeOK`.

**SyncService.** `TypeCorrect` proves `TypeOK`. `SafeWatermark` proves
`WatermarkComplete`: whatever fails, is cancelled, crashes or runs at the same
time, no NAV is missing below last_nav_date. The property is about rows, but a
row's next last_nav_date lives in a worker's locals, and the one it was filtered
by may have been overwritten meanwhile. So the inductive invariant (`IInv`) adds
what each worker knows (`Knows`): nothing is missing below the date it read;
while it inserts, nothing below the date it will write except what it still
holds; and afterwards nothing at all. Workers do not disturb each other because
no statement removes a NAV (`KnowledgeStays`).

`SyncRowsProofs` proves `RunnerRuns` (isRunning is true exactly while the runner
is not idle), `NoOrphans` (`OrphanOnlyByFault`, by `Attended`: without a mishap
no context is cancelled and every row in progress is held by a worker that will
change it, whoever else works on it), and `BackedTotals` (`TotalIsBacked`, by
`Totals`: the totals a worker has read or counted are stored, and what it inserted
is stored and apart from what it still holds).
`SyncJobProofs` shows, for `MaxResumes = 0`, that `SyncService` implements
`SyncJob` (`JobImplemented`): what a worker still has to insert has been
published (`LeftPublished`), and only the runner works (`NobodyResumes`).
Under the same assumption it shows `WatermarkMonotonic`
(`WatermarkNeverRecedes`): what the runner read is still what the row says
(`Current`), and a date it found is no older. With a resumer it is false, which
is why the assumption is there. `OrphansBounded` (`OneOrphanPerMishap`) counts, by
`OrphansCounted`: beside the rows already stranded there is the one that a
cancelled runner holds and cannot let go of (`Doomed`), and each of them has its
mishap. Every step pays for the row it leaves behind (`OrphanPaid`).

`SyncEndProofs` proves the part of `SyncEnds` that is not about scheduling.
`EndNears` (`NearsItsEnd`) gives each goroutine a number (`Distance`) that is
fixed by the funds it still has to take, the statement it is at and the NAVs it
still holds. Every step of the goroutine makes it smaller, with whatever outcome,
and nobody else's step makes it larger: not a cancelled context, nor the other
goroutine, nor a NAV published after the fetch. With finitely many funds that is
why a sync ends at all. It needs that a goroutine that is still to list the funds
holds none (`NoListYet`).

**FundCatalog and Server.** `SoundCatalogue`, `CompleteService` and `StableIds`
follow from an invariant that says which part of the tracked funds the present
start has gone through, and that the ids it holds are those of the names it
looked for. `ServerProofs` carries them to `Server`, whose steps are steps of
`FundCatalog` or leave its variables alone, and proves the properties of the
composition: `OneFlight` and `RivalsOnly` (`JobInv`), `SchemesKeepData`
(`DataInv`: there are NAVs only for funds that have a row and a quoted scheme),
`BackedRows` and `NoLoneRecession` (`CalcInv`: what a recalculation that has
queried holds is backed by NAVs; and while it is alone, every row was computed
by a day that is not later than its own). These speak about the first and last
of a finite set of dates, whose existence is proved from the library's
well-foundedness of finite sets.

`ServerUsesSyncJob` shows that the server does with `SyncJob`'s variables only
what `SyncJob` does, so that `JobImplemented` is about the job the server runs.
`GetsOn` and `ServerGetsOn` (`StartGetsOn`) are for a start what `EndNears` is for
a sync: every statement leaves fewer before it, and no INSERT is rejected, since
nobody adds a name between the SELECT that did not find it and its INSERT
(`NameIsNew`). For the server this needs that no goroutine of an earlier process
is left while the next one starts (`JobInv`).

`LoneUpToDate` (`LoneLeavesUpToDate`) is the other half of `NoLoneRecession`: not
only does a recalculation that nothing disturbed replace nothing by something
older, it leaves nothing out. Its invariant `QuietInv` says that as long as it is
undisturbed every window of a fund it has gone through, and every window of the
present fund that it has gone through, has the result of all NAVs stored
(`Settled`), and that the history it holds between query and upsert is the one it
would read now.

Model-checked only: the liveness properties (`SleepEnds`, `SyncEnds`,
`UndisturbedSyncsResume`, `CatchesUp`, `StartsUp`, `StatsCatchUp`), since
fairness and ENABLED are out of the provers' reach. What they rest on apart from
the scheduling is proved: that a sync and a start get nearer to their end
(`NearsItsEnd`, `StartGetsOn`), that below a watermark nothing is missing
(`WatermarkComplete`), and that an undisturbed recalculation brings everything up
to date (`LoneLeavesUpToDate`). For `StatsCatchUp` itself there is no theorem: what
TLC checks with sliding windows in `Server` is what is known of it. Every other property of a passing run is stated by
a theorem.

## Not modelled

* The metrics of a window and the order RankFunds derives from them: functions of
  one list of NAVs, in float64, with roots and powers, which unit tests reach
  better than a model. Hazards there are recorded without a property:
  volatility is zero for a window of too few returns, and the power in CAGR can
  overflow for a window of one or two days. A last NAV that is negative after a
  positive first one makes that power NaN, and the goroutine panics where the
  model stores a row.
* Redirects and retries inside net/http: for the model a call of FetchSchemeData
  sends one request, and `ArrivalsBounded` counts those.
* FundHandler, router, GetSyncStatus and the other read-only operations, decoding
  and rendering: they keep no state.
* Operations without callers that the models do not need: RefreshFundData (it is
  TriggerSync), GetOrCreateWindow, WithTx, GetResumePointer.
* A clock that runs backwards and limits of zero: no configuration has either.
* A NAV that is published late, below dates that are known. The filter on
  last_nav_date would never fetch it; whether the API does that is not in the
  repository.
* A crash of the machine, which may cost SQLite's WAL its last transactions; the
  crashes in the models are those of the process.
* The connection pool and busy timeouts, which appear as failing statements.
