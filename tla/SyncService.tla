----------------------------- MODULE SyncService -----------------------------
(***************************************************************************)
(* internal/services/sync_service.go with the statements of                *)
(* sync_repository.go and fund_repository.go that it runs.                 *)
(*                                                                         *)
(* Two goroutines can work: the runner that TriggerSync starts and a       *)
(* caller of ResumePausedSyncs.  They share the tables sync_state (rows)   *)
(* and nav_history (nav) and no lock, so every statement is an action.     *)
(* The API publishes one NAV a day for every fund, in the order of dates,  *)
(* and lists all of them in any order; NAVs are their dates.               *)
(***************************************************************************)
EXTENDS Integers, FiniteSets

CONSTANTS Funds,        \* the active rows of table funds
          BatchSize,    \* BackfillBatchSize
          Unparsable,   \* dates whose entry ParseNAVData skips
          MaxDate,      \* bound on the dates published
          MaxRetries,   \* bound on the failed fetches of a row
          Mishaps,      \* what may go wrong: failing statements, process
                        \* restarts, calls of StopSync
          MaxMishaps,   \* bound on all of them together
          MaxResumes    \* bound on calls of ResumePausedSyncs

Date == 1..MaxDate

ASSUME DataAssumption ==
  /\ Funds # {}
  /\ MaxDate \in Nat
  /\ Unparsable \subseteq Date
  /\ BatchSize \in Nat \ {0}

ASSUME BoundsAssumption ==
  /\ MaxRetries \in Nat
  /\ Mishaps \subseteq {"fault", "crash", "stop"}
  /\ MaxMishaps \in Nat
  /\ MaxResumes \in Nat

SyncTypes == {"backfill", "incremental"}
Workers   == {"runner", "resumer"}
Key       == Funds \X SyncTypes

VARIABLES
  today,      \* the latest date the API has published, 0 before the first
  rows,       \* sync_state: the row of every (fund, sync type)
  nav,        \* nav_history: the dates stored for a fund
  isRunning,  \* isRunning
  work,       \* the local state of the two goroutines
  mishaps, resumes  \* how many of each so far

counts == <<mishaps, resumes>>
vars   == <<today, rows, nav, isRunning, work, mishaps, resumes>>

\* A row without a last_nav_date has last = 0, without a resume_pointer
\* pointer = -1; "delayed" is a next_retry_at that is not NULL.  A row that
\* does not exist has status "none".
Status == {"none", "pending", "in_progress", "completed", "failed", "paused"}

Row == [status : Status, last : 0..MaxDate, total : Nat, retries : Nat,
        pointer : Nat \union {-1}, delayed : BOOLEAN]

NoRow == [status |-> "none", last |-> 0, total |-> 0, retries |-> 0,
          pointer |-> -1, delayed |-> FALSE]

\* Slip: the status of the new row is left empty.
NewRowUnnamed == [NoRow EXCEPT !.status = ""]

NewRow == [NoRow EXCEPT !.status = "pending"]

Step == {"idle", "list", "next", "read", "create", "mark", "fetch", "fail",
         "nothing", "insert", "pause", "count", "complete"}

\* "seen" is the state syncFund read, "left" the NAVs not yet inserted,
\* "index" the i of the batch loop, "latest" latestDate, "total" what
\* MarkSyncCompleted will store.
Work == [pc : Step, type : SyncTypes, todo : SUBSET Key, key : Key, seen : Row,
         left : SUBSET Date, index : Nat, inserted : Nat, latest : 0..MaxDate,
         total : Nat, cancelled : BOOLEAN]

Resting == [pc |-> "idle", type |-> "backfill", todo |-> {},
            key |-> CHOOSE k \in Key : TRUE, seen |-> NoRow, left |-> {},
            index |-> 0, inserted |-> 0, latest |-> 0, total |-> 0,
            cancelled |-> FALSE]

At(w, step) == work[w].pc = step
MyKey(w)    == work[w].key
MyRow(w)    == rows[MyKey(w)]
MyNav(w)    == nav[MyKey(w)[1]]

Goto(w, step) == work' = [work EXCEPT ![w].pc = step]

\* syncFund returns to the loop of its caller.
Return(w) == work' = [work EXCEPT ![w] =
  [Resting EXCEPT !.pc = "next", !.type = work[w].type, !.todo = work[w].todo,
                  !.cancelled = work[w].cancelled]]

Befalls(mishap) ==
  /\ mishap \in Mishaps
  /\ mishaps < MaxMishaps
  /\ mishaps' = mishaps + 1
  /\ UNCHANGED resumes

\* A statement on the worker's context succeeds only if that is not cancelled.
Succeeds(w) == ~work[w].cancelled /\ UNCHANGED counts

\* ... and fails if it is cancelled, or when the database fails it.
Fails(w) ==
  \/ work[w].cancelled /\ UNCHANGED counts
  \/ ~work[w].cancelled /\ Befalls("fault")

Write(w, row) == rows' = [rows EXCEPT ![MyKey(w)] = row]

-----------------------------------------------------------------------------
(* TriggerSync, runSync, StopSync, ResumePausedSyncs *)

\* A call while isRunning holds returns an error and changes nothing.
TriggerSync(t) ==
  /\ ~isRunning
  /\ isRunning' = TRUE
  /\ work' = [work EXCEPT !["runner"] = [Resting EXCEPT !.pc = "list", !.type = t]]
  /\ UNCHANGED <<today, rows, nav, counts>>

ListFunds(w) ==
  /\ At(w, "list")
  /\ \/ /\ Succeeds(w)
        /\ work' = [work EXCEPT ![w] = [@ EXCEPT !.pc = "next",
                                !.todo = Funds \X {work[w].type}]]
     \/ /\ Fails(w)
        /\ Goto(w, "next")
  /\ UNCHANGED <<today, rows, nav, isRunning>>

\* GetPendingOrFailedSyncs: a row with a next_retry_at is listed once that
\* time has come.
ResumePausedSyncs ==
  /\ At("resumer", "idle")
  /\ resumes < MaxResumes
  /\ resumes' = resumes + 1
  /\ LET open == {k \in Key : rows[k].status \in {"pending", "failed", "paused"}}
     IN \E late \in SUBSET {k \in open : rows[k].delayed} :
          work' = [work EXCEPT !["resumer"] =
                     [Resting EXCEPT !.pc = "next", !.todo = open \ late]]
  /\ UNCHANGED <<today, rows, nav, isRunning, mishaps>>

\* Slip: the fund just taken stays on the list.
AfterTaking(todo, k) == todo

Without(todo, k) == todo \ {k}

\* The loops of runSync, which looks at its context, and of ResumePausedSyncs.
NextFund(w) ==
  /\ At(w, "next")
  /\ ~work[w].cancelled
  /\ \E k \in work[w].todo :
       work' = [work EXCEPT ![w] =
                  [Resting EXCEPT !.pc = "read", !.key = k, !.type = work[w].type,
                                  !.todo = Without(work[w].todo, k)]]
  /\ UNCHANGED <<today, rows, nav, isRunning, counts>>

\* Slip: isRunning is not reset when the goroutine ends.
RunningOn(w) == isRunning

\* Only the goroutine of TriggerSync resets isRunning.
RunningAfter(w) == isRunning /\ w # "runner"

\* The goroutine ends: all funds done, or the context cancelled.
Finish(w) ==
  /\ At(w, "next")
  /\ work[w].todo = {} \/ work[w].cancelled
  /\ work' = [work EXCEPT ![w] = Resting]
  /\ isRunning' = RunningAfter(w)
  /\ UNCHANGED <<today, rows, nav, counts>>

StopSync ==
  /\ isRunning
  /\ Befalls("stop")
  /\ work' = [work EXCEPT !["runner"].cancelled = TRUE]
  /\ UNCHANGED <<today, rows, nav, isRunning>>

-----------------------------------------------------------------------------
(* syncFund *)

\* Slip: a row whose last fetch failed is skipped as well.
SkipsFailed(row) == row.status \in {"in_progress", "failed"}

Skips(row) == row.status = "in_progress"

GetSyncState(w) ==
  /\ At(w, "read")
  /\ \/ /\ Succeeds(w)
        /\ IF Skips(MyRow(w))
           THEN Return(w)
           ELSE work' = [work EXCEPT ![w] = [@ EXCEPT
                  !.seen = MyRow(w),
                  !.pc = IF MyRow(w).status = "none" THEN "create" ELSE "mark"]]
     \/ /\ Fails(w)
        /\ Return(w)
  /\ UNCHANGED <<today, rows, nav, isRunning>>

\* UpsertSyncState: a row inserted in between is overwritten.
CreateSyncState(w) ==
  /\ At(w, "create")
  /\ \/ /\ Succeeds(w)
        /\ Write(w, NewRow)
        /\ work' = [work EXCEPT ![w] = [@ EXCEPT !.seen = NewRow, !.pc = "mark"]]
     \/ /\ Fails(w)
        /\ Return(w)
        /\ UNCHANGED rows
  /\ UNCHANGED <<today, nav, isRunning>>

MarkSyncInProgress(w) ==
  /\ At(w, "mark")
  /\ \/ /\ Succeeds(w)
        /\ Write(w, [MyRow(w) EXCEPT !.status = "in_progress"])
        /\ Goto(w, "fetch")
     \/ /\ Fails(w)
        /\ Return(w)
        /\ UNCHANGED rows
  /\ UNCHANGED <<today, nav, isRunning>>

\* ParseNAVData: an entry that does not parse is skipped, never an error.
Parsed == (1..today) \ Unparsable

\* The incremental filter on state.LastNAVDate.
Wanted(type, seen) ==
  IF type = "incremental" /\ seen.last # 0
  THEN {d \in Parsed : d > seen.last}
  ELSE Parsed

Fetch(w) ==
  /\ At(w, "fetch")
  /\ Succeeds(w)
  /\ LET new == Wanted(MyKey(w)[2], work[w].seen)
     IN \/ /\ new = {}
           /\ Goto(w, "nothing")
        \/ \E d \in new :
             /\ \A e \in new : e <= d
             /\ work' = [work EXCEPT ![w] =
                              [@ EXCEPT !.left = new, !.latest = d, !.pc = "insert"]]
  /\ UNCHANGED <<today, rows, nav, isRunning>>

\* Slip: the failure is returned without being recorded.
AfterFailedFetchDropped == "next"

AfterFailedFetch == "fail"

\* The rate limiter refuses, the request fails or the answer is an error;
\* MaxRetries bounds how often.
FetchFails(w) ==
  /\ At(w, "fetch")
  /\ work[w].cancelled \/ MyRow(w).retries < MaxRetries
  /\ Goto(w, AfterFailedFetch)
  /\ UNCHANGED <<today, rows, nav, isRunning, counts>>

MarkSyncFailed(w) ==
  /\ At(w, "fail")
  /\ \/ /\ Succeeds(w)
        /\ Write(w, [MyRow(w) EXCEPT !.status = "failed", !.retries = @ + 1,
                                     !.delayed = TRUE])
     \/ Fails(w) /\ UNCHANGED rows
  /\ Return(w)
  /\ UNCHANGED <<today, nav, isRunning>>

\* Slip: the status is not among the columns set.
CompletedUnnamed(row, total, last) ==
  [row EXCEPT !.total = total, !.last = last, !.retries = 0, !.pointer = -1]

\* MarkSyncCompleted, which keeps next_retry_at.
Completed(row, total, last) ==
  [row EXCEPT !.status = "completed", !.total = total, !.last = last,
              !.retries = 0, !.pointer = -1]

\* Slip: without new data the date is passed as nil.
KeptDateNil(w) == 0

\* With no new data the values read at the start are written back.
KeptDate(w) == work[w].seen.last

NothingNew(w) ==
  /\ At(w, "nothing")
  /\ \/ /\ Succeeds(w)
        /\ Write(w, Completed(MyRow(w), work[w].seen.total, KeptDate(w)))
     \/ Fails(w) /\ UNCHANGED rows
  /\ Return(w)
  /\ UNCHANGED <<today, nav, isRunning>>

\* Slip: GetNAVCount is added to what was inserted.
CountedTwice(w) == Cardinality(MyNav(w)) + work[w].inserted

Counted(w) == Cardinality(MyNav(w))

\* If the query fails, only what this run inserted is counted.
GetNAVCount(w) ==
  /\ At(w, "count")
  /\ \/ /\ Succeeds(w)
        /\ work' = [work EXCEPT ![w] = [@ EXCEPT !.pc = "complete", !.total = Counted(w)]]
     \/ /\ Fails(w)
        /\ work' = [work EXCEPT ![w] = [@ EXCEPT !.pc = "complete", !.total = work[w].inserted]]
  /\ UNCHANGED <<today, rows, nav, isRunning>>

MarkSyncCompleted(w) ==
  /\ At(w, "complete")
  /\ \/ /\ Succeeds(w)
        /\ Write(w, Completed(MyRow(w), work[w].total, work[w].latest))
     \/ Fails(w) /\ UNCHANGED rows
  /\ Return(w)
  /\ UNCHANGED <<today, nav, isRunning>>

-----------------------------------------------------------------------------
(* insertNAVWithResumability *)

\* The next batch, of the order the API answered in.
Batches(w) == {b \in SUBSET work[w].left :
                 \/ Cardinality(b) = BatchSize
                 \/ b = work[w].left /\ Cardinality(b) < BatchSize}

\* InsertNAVBatch: one transaction, INSERT OR IGNORE.
InsertBatch(w) ==
  /\ At(w, "insert")
  /\ work[w].left # {}
  /\ Succeeds(w)
  /\ \E b \in Batches(w) :
       /\ nav' = [nav EXCEPT ![MyKey(w)[1]] = @ \union b]
       /\ work' = [work EXCEPT ![w] = [@ EXCEPT
            !.left = work[w].left \ b,
            !.index = work[w].index + Cardinality(b),
            !.inserted = work[w].inserted + Cardinality(b \ MyNav(w))]]
  /\ UNCHANGED <<today, rows, isRunning>>

AllInserted(w) ==
  /\ At(w, "insert")
  /\ work[w].left = {}
  /\ Goto(w, "count")
  /\ UNCHANGED <<today, rows, nav, isRunning, counts>>

\* Slip: the error of a batch is swallowed.
AfterFailedBatchDropped == "count"

AfterFailedBatch == "pause"

\* A batch fails, or the context is cancelled.
BatchFails(w) ==
  /\ At(w, "insert")
  /\ work[w].left # {}
  /\ Fails(w)
  /\ Goto(w, AfterFailedBatch)
  /\ UNCHANGED <<today, rows, nav, isRunning>>

UpdateResumePointer(w) ==
  /\ At(w, "pause")
  /\ \/ /\ Succeeds(w)
        /\ Write(w, [MyRow(w) EXCEPT !.status = "paused", !.pointer = work[w].index])
     \/ Fails(w) /\ UNCHANGED rows
  /\ Return(w)
  /\ UNCHANGED <<today, nav, isRunning>>

-----------------------------------------------------------------------------
Publish ==
  /\ today < MaxDate
  /\ today' = today + 1
  /\ UNCHANGED <<rows, nav, isRunning, work, counts>>

\* The process ends, by a crash or by main's shutdown, which does not wait
\* for the goroutines; main starts no sync.
Crash ==
  /\ Befalls("crash")
  /\ isRunning' = FALSE
  /\ work' = [w \in Workers |-> Resting]
  /\ UNCHANGED <<today, rows, nav>>

Init ==
  /\ today = 0
  /\ rows = [k \in Key |-> NoRow]
  /\ nav = [f \in Funds |-> {}]
  /\ isRunning = FALSE
  /\ work = [w \in Workers |-> Resting]
  /\ mishaps = 0 /\ resumes = 0

SyncFund(w) ==
  \/ GetSyncState(w)
  \/ CreateSyncState(w)
  \/ MarkSyncInProgress(w)
  \/ Fetch(w)
  \/ FetchFails(w)
  \/ MarkSyncFailed(w)
  \/ NothingNew(w)
  \/ InsertBatch(w)
  \/ AllInserted(w)
  \/ BatchFails(w)
  \/ UpdateResumePointer(w)
  \/ GetNAVCount(w)
  \/ MarkSyncCompleted(w)

Worker(w) == ListFunds(w) \/ NextFund(w) \/ SyncFund(w) \/ Finish(w)

Next ==
  \/ \E t \in SyncTypes : TriggerSync(t)
  \/ \E w \in Workers : Worker(w)
  \/ ResumePausedSyncs
  \/ StopSync
  \/ Publish
  \/ Crash

Spec == Init /\ [][Next]_vars

\* Goroutines run, and somebody keeps asking for an incremental sync; nothing
\* makes a fault, a crash or a stop happen.
FairSpec ==
  /\ Spec
  /\ \A w \in Workers : WF_vars(Worker(w))
  /\ SF_vars(TriggerSync("incremental"))

-----------------------------------------------------------------------------
(* Properties *)

\* Every variable has its type, whatever statement failed in between.
TypeOK ==
  /\ today \in 0..MaxDate
  /\ rows \in [Key -> Row]
  /\ nav \in [Funds -> SUBSET Date]
  /\ isRunning \in BOOLEAN
  /\ work \in [Workers -> Work]
  /\ mishaps \in 0..MaxMishaps
  /\ resumes \in 0..MaxResumes

\* All NAVs of fund f up to date d are stored, but those that do not parse.
CompleteUpTo(f, d) == \A e \in Date : e <= d => e \in nav[f] \union Unparsable

\* last_nav_date is a safe watermark: an incremental sync never fetches what
\* lies before it again, so nothing before it may be missing, whatever failed,
\* was cancelled, crashed or ran at the same time (syncFund).
WatermarkComplete == \A k \in Key : CompleteUpTo(k[1], rows[k].last)

\* Without ResumePausedSyncs no step takes a row's last_nav_date back, not
\* even those that write back the values read at the start (syncFund).
WatermarkNeverRecedes == [][\A k \in Key : rows'[k].last >= rows[k].last]_vars

\* The total_records a row reports are really stored.
TotalIsBacked == \A k \in Key : rows[k].total <= Cardinality(nav[k[1]])

\* The steps in which syncFund holds a row in progress.
Holding == {"fetch", "fail", "nothing", "insert", "pause", "count", "complete"}

Held(k) == \E w \in Workers : work[w].pc \in Holding /\ MyKey(w) = k

\* A row is left in progress, and so skipped from then on, only after a
\* failing statement, a restart or a cancelled context.
OrphanOnlyByFault ==
  mishaps = 0 =>
    \A k \in Key : rows[k].status = "in_progress" => Held(k)

\* The rows in progress that nobody works on.
Orphans == {k \in Key : rows[k].status = "in_progress" /\ ~Held(k)}

\* Without ResumePausedSyncs a failing statement, a restart or a stop strands
\* one row at most, also a stop whose cancelled context fails all that syncFund
\* would still write, and a failed fetch or batch strands none (syncFund,
\* insertNAVWithResumability, StopSync).
OneOrphanPerMishap == Cardinality(Orphans) <= mishaps

\* The documented resumability, for a sync that is taken up again: it starts
\* from the resume pointer.
RestartsFromPointer ==
  \A w \in Workers : At(w, "insert") => work[w].index >= work[w].seen.pointer

InProgress(f) == rows[<<f, "incremental">>].status = "in_progress"

\* Documented as resumption after interruptions: an incremental sync that is in
\* progress does not stay so while syncs are triggered.
InterruptedSyncsResume == \A f \in Funds : InProgress(f) ~> ~InProgress(f)

\* The same as long as no statement fails, nobody stops the sync and the
\* process goes on, whatever fetches fail (syncFund).
UndisturbedSyncsResume ==
  \A f \in Funds : InProgress(f) /\ mishaps = 0 ~> ~InProgress(f) \/ mishaps > 0

\* A sync comes to its end, so that the next one is not refused for ever, also
\* after failed statements, a stop and a restart (TriggerSync, runSync).
SyncEnds == isRunning ~> ~isRunning

\* The statements syncFund has before it at most, after each step.
Ahead(r) == CASE r.pc = "next"   -> 0
              [] r.pc = "read"   -> MaxDate + 7
              [] r.pc = "create" -> MaxDate + 6
              [] r.pc = "mark"   -> MaxDate + 5
              [] r.pc = "fetch"  -> MaxDate + 4
              [] r.pc = "insert" -> Cardinality(r.left) + 3
              [] r.pc = "count"  -> 2
              [] OTHER           -> 1

\* The steps a goroutine has before it at most.
Distance(r) == CASE r.pc = "idle" -> 0
                 [] r.pc = "list" -> Cardinality(Funds) * (MaxDate + 8) + 2
                 [] OTHER         -> Cardinality(r.todo) * (MaxDate + 8) + 1 + Ahead(r)

\* Why a sync ends: whatever fails, is cancelled or is published meanwhile,
\* each step of a goroutine takes it nearer to its end, and no step of anybody
\* else takes it back (runSync, syncFund, insertNAVWithResumability).
NearsItsEnd ==
  [][\A w \in Workers : ~At(w, "idle") =>
       /\ Distance(work'[w]) <= Distance(work[w])
       /\ Worker(w) => Distance(work'[w]) < Distance(work[w])]_vars

\* The row a mishap left in progress, which every later sync skips.
Orphaned(f) == InProgress(f) /\ ~Held(<<f, "incremental">>)

\* Whatever failed, all that is published is stored in the end, but for the
\* funds whose row has been orphaned.
CatchesUp ==
  \A f \in Funds : [](today = MaxDate => <>(CompleteUpTo(f, MaxDate) \/ Orphaned(f)))

\* What Server relies on (while nobody calls ResumePausedSyncs).
Job == INSTANCE SyncJob WITH
  FundIds <- Funds,
  active <- IF At("runner", "idle") THEN 0 ELSE 1

ImplementsSyncJob == Job!Spec
=============================================================================
