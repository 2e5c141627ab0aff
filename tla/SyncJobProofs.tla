----------------------------- MODULE SyncJobProofs -----------------------------
(***************************************************************************)
(* For every set of funds and every history of failures, as long as nobody *)
(* calls ResumePausedSyncs: SyncService implements SyncJob, which the      *)
(* server is composed with, last_nav_date never goes back, and no more     *)
(* rows are left in progress than things went wrong.                       *)
(***************************************************************************)
EXTENDS SyncRowsProofs

\* What a worker still has to insert has been published.
LeftPublished == \A w \in Workers : work[w].left \subseteq 1..today

\* Nobody works for ResumePausedSyncs.
NobodyResumes == work["resumer"].pc = "idle"

-----------------------------------------------------------------------------
(* What a worker holds *)

\* A worker that holds no more than what is published leaves it so for all.
LEMMA OneLeft ==
  ASSUME TypeOK, LeftPublished, NEW w \in Workers, NEW r, r.left \subseteq 1..today,
         work' = [work EXCEPT ![w] = r], UNCHANGED today
  PROVE  LeftPublished'
BY DEF TypeOK, LeftPublished

\* A worker that goes to another step holds what it held.
LEMMA GotoLeft ==
  ASSUME TypeOK, LeftPublished, NEW w \in Workers, NEW pc, Goto(w, pc), UNCHANGED today
  PROVE  LeftPublished'
<1> DEFINE r == [work[w] EXCEPT !.pc = pc]
<1>1. work' = [work EXCEPT ![w] = r] /\ r.left = work[w].left
  BY DEF Goto, TypeOK, Work
<1> HIDE DEF r
<1>2. QED BY <1>1, OneLeft DEF LeftPublished

\* A worker that returns to its loop holds nothing.
LEMMA ReturnLeft ==
  ASSUME TypeOK, LeftPublished, NEW w \in Workers, Return(w), UNCHANGED today
  PROVE  LeftPublished'
<1> DEFINE r == [Resting EXCEPT !.pc = "next", !.type = work[w].type,
                   !.todo = work[w].todo, !.cancelled = work[w].cancelled]
<1>1. work' = [work EXCEPT ![w] = r] /\ r.left = {}
  BY DEF Return, Resting
<1> HIDE DEF r
<1>2. QED BY <1>1, OneLeft

\* Every step leaves the workers with what is published (Fetch).
LEMMA LeftStep == TypeOK /\ LeftPublished /\ [Next]_vars => LeftPublished'
<1> SUFFICES ASSUME TypeOK, LeftPublished, [Next]_vars PROVE LeftPublished'
  OBVIOUS
<1>0. \A w \in Workers : work[w] \in Work /\ work[w].left \subseteq 1..today
  BY DEF TypeOK, LeftPublished
<1>1. ASSUME NEW t \in SyncTypes, TriggerSync(t) PROVE LeftPublished'
  <2> DEFINE r == [Resting EXCEPT !.pc = "list", !.type = t]
  <2>1. work' = [work EXCEPT !["runner"] = r] /\ r.left = {} /\ "runner" \in Workers
    BY <1>1 DEF TriggerSync, Resting, Workers
  <2> HIDE DEF r
  <2>2. QED BY <1>1, <2>1, OneLeft DEF TriggerSync
<1>2. ASSUME NEW w \in Workers, ListFunds(w) PROVE LeftPublished'
  <2>1. CASE Goto(w, "next")
    BY <1>2, <2>1, GotoLeft DEF ListFunds
  <2>2. CASE ~Goto(w, "next")
    <3> DEFINE r == [work[w] EXCEPT !.pc = "next", !.todo = Funds \X {work[w].type}]
    <3>1. work' = [work EXCEPT ![w] = r] /\ r.left = work[w].left
      BY <1>0, <1>2, <2>2 DEF ListFunds, Work
    <3> HIDE DEF r
    <3>2. QED BY <1>0, <1>2, <3>1, OneLeft DEF ListFunds
  <2>3. QED BY <2>1, <2>2
<1>3. ASSUME NEW w \in Workers, NextFund(w) PROVE LeftPublished'
  <2>1. PICK k \in work[w].todo :
          work' = [work EXCEPT ![w] =
            [Resting EXCEPT !.pc = "read", !.key = k, !.type = work[w].type,
                            !.todo = Without(work[w].todo, k)]]
    BY <1>3 DEF NextFund
  <2> DEFINE r == [Resting EXCEPT !.pc = "read", !.key = k, !.type = work[w].type,
                                  !.todo = Without(work[w].todo, k)]
  <2>2. work' = [work EXCEPT ![w] = r] /\ r.left = {}
    BY <2>1 DEF Resting
  <2> HIDE DEF r
  <2>3. QED BY <1>3, <2>2, OneLeft DEF NextFund
<1>4. ASSUME NEW w \in Workers, GetSyncState(w) PROVE LeftPublished'
  <2>1. CASE Return(w)
    BY <1>4, <2>1, ReturnLeft DEF GetSyncState
  <2>2. CASE ~Return(w)
    <3> DEFINE r == [work[w] EXCEPT !.seen = MyRow(w),
                       !.pc = IF MyRow(w).status = "none" THEN "create" ELSE "mark"]
    <3>1. work' = [work EXCEPT ![w] = r] /\ r.left = work[w].left
      BY <1>0, <1>4, <2>2 DEF GetSyncState, Work
    <3> HIDE DEF r
    <3>2. QED BY <1>0, <1>4, <3>1, OneLeft DEF GetSyncState
  <2>3. QED BY <2>1, <2>2
<1>5. ASSUME NEW w \in Workers, CreateSyncState(w) PROVE LeftPublished'
  <2>1. CASE Return(w)
    BY <1>5, <2>1, ReturnLeft DEF CreateSyncState
  <2>2. CASE ~Return(w)
    <3> DEFINE r == [work[w] EXCEPT !.seen = NewRow, !.pc = "mark"]
    <3>1. work' = [work EXCEPT ![w] = r] /\ r.left = work[w].left
      BY <1>0, <1>5, <2>2 DEF CreateSyncState, Work
    <3> HIDE DEF r
    <3>2. QED BY <1>0, <1>5, <3>1, OneLeft DEF CreateSyncState
  <2>3. QED BY <2>1, <2>2
<1>6. ASSUME NEW w \in Workers, Fetch(w) PROVE LeftPublished'
  <2>1. CASE Goto(w, "nothing")
    BY <1>6, <2>1, GotoLeft DEF Fetch
  <2>2. CASE ~Goto(w, "nothing")
    <3> DEFINE new == Wanted(MyKey(w)[2], work[w].seen)
    <3>1. PICK d \in new : work' = [work EXCEPT ![w] =
                             [@ EXCEPT !.left = new, !.latest = d, !.pc = "insert"]]
      BY <1>6, <2>2 DEF Fetch
    <3>2. new \subseteq 1..today
      BY DEF Wanted, Parsed
    <3> HIDE DEF new
    <3> DEFINE r == [work[w] EXCEPT !.left = new, !.latest = d, !.pc = "insert"]
    <3>3. work' = [work EXCEPT ![w] = r] /\ r.left = new
      BY <1>0, <3>1 DEF Work
    <3> HIDE DEF r
    <3>4. QED BY <1>6, <3>2, <3>3, OneLeft DEF Fetch
  <2>3. QED BY <2>1, <2>2
<1>7. ASSUME NEW w \in Workers, MarkSyncInProgress(w) \/ FetchFails(w) \/ AllInserted(w)
                                 \/ BatchFails(w)
      PROVE  LeftPublished'
  BY <1>7, GotoLeft, ReturnLeft DEF MarkSyncInProgress, FetchFails, AllInserted, BatchFails
<1>8. ASSUME NEW w \in Workers, MarkSyncFailed(w) \/ NothingNew(w) \/ UpdateResumePointer(w)
                                 \/ MarkSyncCompleted(w)
      PROVE  LeftPublished'
  BY <1>8, ReturnLeft DEF MarkSyncFailed, NothingNew, UpdateResumePointer, MarkSyncCompleted
<1>9. ASSUME NEW w \in Workers, InsertBatch(w) PROVE LeftPublished'
  <2>1. PICK b \in Batches(w) :
          work' = [work EXCEPT ![w] = [@ EXCEPT
            !.left = work[w].left \ b,
            !.index = work[w].index + Cardinality(b),
            !.inserted = work[w].inserted + Cardinality(b \ MyNav(w))]]
    BY <1>9 DEF InsertBatch
  <2> DEFINE r == [work[w] EXCEPT
            !.left = work[w].left \ b,
            !.index = work[w].index + Cardinality(b),
            !.inserted = work[w].inserted + Cardinality(b \ MyNav(w))]
  <2>2. work' = [work EXCEPT ![w] = r] /\ r.left = work[w].left \ b
    BY <1>0, <2>1 DEF Work
  <2> HIDE DEF r
  <2>3. QED BY <1>0, <1>9, <2>2, OneLeft DEF InsertBatch
<1>10. ASSUME NEW w \in Workers, GetNAVCount(w) PROVE LeftPublished'
  <2>1. PICK n : work' = [work EXCEPT ![w] = [@ EXCEPT !.pc = "complete", !.total = n]]
    BY <1>10 DEF GetNAVCount
  <2> DEFINE r == [work[w] EXCEPT !.pc = "complete", !.total = n]
  <2>2. work' = [work EXCEPT ![w] = r] /\ r.left = work[w].left
    BY <1>0, <2>1 DEF Work
  <2> HIDE DEF r
  <2>3. QED BY <1>0, <1>10, <2>2, OneLeft DEF GetNAVCount
<1>11. ASSUME NEW w \in Workers, Finish(w) PROVE LeftPublished'
  <2>1. work' = [work EXCEPT ![w] = Resting] /\ Resting.left = {}
    BY <1>11 DEF Finish, Resting
  <2>2. QED BY <1>11, <2>1, OneLeft DEF Finish
<1>12. CASE ResumePausedSyncs
  <2>1. PICK todo : work' = [work EXCEPT !["resumer"] =
                              [Resting EXCEPT !.pc = "next", !.todo = todo]]
    BY <1>12 DEF ResumePausedSyncs
  <2> DEFINE r == [Resting EXCEPT !.pc = "next", !.todo = todo]
  <2>2. work' = [work EXCEPT !["resumer"] = r] /\ r.left = {} /\ "resumer" \in Workers
    BY <2>1 DEF Resting, Workers
  <2> HIDE DEF r
  <2>3. QED BY <1>12, <2>2, OneLeft DEF ResumePausedSyncs
<1>13. CASE StopSync
  <2> DEFINE r == [work["runner"] EXCEPT !.cancelled = TRUE]
  <2>1. "runner" \in Workers
    BY DEF Workers
  <2>2. work' = [work EXCEPT !["runner"] = r] /\ r.left = work["runner"].left
    BY <1>0, <1>13, <2>1 DEF StopSync, Work
  <2> HIDE DEF r
  <2>3. QED BY <1>0, <1>13, <2>1, <2>2, OneLeft DEF StopSync
<1>14. CASE Publish
  <2>1. today \in Nat /\ today' = today + 1 /\ work' = work
    BY <1>14 DEF Publish, TypeOK
  <2>2. 1..today \subseteq 1..today'
    BY <2>1
  <2>3. QED BY <1>0, <2>1, <2>2 DEF LeftPublished
<1>15. CASE Crash
  BY <1>15 DEF Crash, LeftPublished, Resting
<1>16. CASE UNCHANGED vars
  BY <1>16 DEF vars, LeftPublished
<1>17. QED
  BY <1>1, <1>2, <1>3, <1>4, <1>5, <1>6, <1>7, <1>8, <1>9, <1>10, <1>11, <1>12, <1>13,
     <1>14, <1>15, <1>16
  DEF Next, Worker, SyncFund

-----------------------------------------------------------------------------
(* The resumer *)

\* A worker that does not move leaves the resumer alone.
LEMMA ResumerRests ==
  ASSUME TypeOK, NobodyResumes, NEW w \in Workers, work[w].pc # "idle",
         NEW r, work' = [work EXCEPT ![w] = r]
  PROVE  NobodyResumes'
BY DEF TypeOK, NobodyResumes, Workers

\* Nobody resumes if no call of ResumePausedSyncs is allowed.
LEMMA NobodyStep ==
  ASSUME MaxResumes = 0
  PROVE  TypeOK /\ NobodyResumes /\ [Next]_vars => NobodyResumes'
<1> SUFFICES ASSUME TypeOK, NobodyResumes, [Next]_vars PROVE NobodyResumes'
  OBVIOUS
<1>1. ASSUME NEW w \in Workers, Worker(w) PROVE NobodyResumes'
  <2>1. work[w].pc # "idle"
    BY <1>1 DEF Worker, SyncFund, ListFunds, NextFund, Finish, GetSyncState, CreateSyncState,
      MarkSyncInProgress, Fetch, FetchFails, MarkSyncFailed, NothingNew, InsertBatch,
      AllInserted, BatchFails, UpdateResumePointer, GetNAVCount, MarkSyncCompleted, At
  <2>2. \E r : work' = [work EXCEPT ![w] = r]
    BY <1>1 DEF Worker, SyncFund, ListFunds, NextFund, Finish, GetSyncState, CreateSyncState,
      MarkSyncInProgress, Fetch, FetchFails, MarkSyncFailed, NothingNew, InsertBatch,
      AllInserted, BatchFails, UpdateResumePointer, GetNAVCount, MarkSyncCompleted, Goto, Return
  <2>3. QED BY <2>1, <2>2, ResumerRests
<1>2. ~ResumePausedSyncs
  BY DEF ResumePausedSyncs, TypeOK
<1>3. ASSUME NEW t \in SyncTypes, TriggerSync(t) PROVE NobodyResumes'
  BY <1>3 DEF TriggerSync, TypeOK, NobodyResumes, Workers
<1>4. CASE StopSync
  BY <1>4 DEF StopSync, TypeOK, NobodyResumes, Workers
<1>5. CASE Crash
  BY <1>5 DEF Crash, NobodyResumes, Resting, Workers
<1>6. CASE Publish \/ UNCHANGED vars
  BY <1>6 DEF Publish, vars, NobodyResumes
<1>7. QED BY <1>1, <1>2, <1>3, <1>4, <1>5, <1>6 DEF Next

-----------------------------------------------------------------------------
(* The refinement *)

\* What every step of the refinement starts from and leads to.
Known == TypeOK /\ RunnerRuns /\ LeftPublished /\ NobodyResumes

\* While somebody works, it is the runner.
LEMMA OnlyRunner ==
  ASSUME Known, NEW w \in Workers, work[w].pc # "idle"
  PROVE  w = "runner"
BY DEF Known, NobodyResumes, Workers

\* Every step is one of SyncJob or changes nothing that SyncJob tells of.
LEMMA JobStep == Known /\ Known' /\ [Next]_vars => [Job!Next]_Job!vars
<1> SUFFICES ASSUME Known, Known', [Next]_vars PROVE [Job!Next]_Job!vars
  OBVIOUS
<1> DEFINE active == IF At("runner", "idle") THEN 0 ELSE 1
<1>1. active = (IF isRunning THEN 1 ELSE 0) /\ active' = (IF isRunning' THEN 1 ELSE 0)
  BY DEF Known, RunnerRuns, At
<1>2. ASSUME UNCHANGED <<today, nav, isRunning>> PROVE UNCHANGED Job!vars
  BY <1>1, <1>2 DEF Job!vars
<1>3. ASSUME NEW t \in SyncTypes, TriggerSync(t) PROVE Job!TriggerSync
  BY <1>1, <1>3 DEF TriggerSync, Job!TriggerSync, Job!Free
<1>4. ASSUME NEW w \in Workers, InsertBatch(w) PROVE \E f \in Funds : Job!Store(f)
  <2>1. w = "runner" /\ active > 0 /\ isRunning
    BY <1>1, <1>4, OnlyRunner DEF InsertBatch, At, Known, RunnerRuns
  <2>2. PICK b \in Batches(w) : nav' = [nav EXCEPT ![MyKey(w)[1]] = @ \union b]
    BY <1>4 DEF InsertBatch
  <2>3. b \in SUBSET (1..today) /\ MyKey(w)[1] \in Funds
    BY MyRowTyped DEF Batches, Known, LeftPublished, Key
  <2>4. UNCHANGED <<today, isRunning>> /\ active' = active
    BY <1>1, <1>4 DEF InsertBatch
  <2>5. QED BY <2>1, <2>2, <2>3, <2>4 DEF Job!Store
<1>5. ASSUME NEW w \in Workers, Finish(w) PROVE Job!Finish
  <2>1. w = "runner" /\ isRunning
    BY <1>5, OnlyRunner DEF Finish, At, Known, RunnerRuns
  <2>2. UNCHANGED <<today, nav>> /\ isRunning' = FALSE
    BY <1>5, <2>1 DEF Finish, RunningAfter
  <2>3. QED BY <1>1, <2>1, <2>2 DEF Job!Finish
<1>6. CASE Publish
  BY <1>1, <1>6 DEF Publish, Job!Publish, Job!Next
<1>7. CASE Crash
  BY <1>1, <1>7 DEF Crash, Job!Abort, Job!Next
<1>8. ASSUME NEW w \in Workers, SyncFund(w), ~InsertBatch(w)
      PROVE  UNCHANGED <<today, nav, isRunning>>
  BY <1>8 DEF SyncFund, GetSyncState, CreateSyncState, MarkSyncInProgress, Fetch, FetchFails,
    MarkSyncFailed, NothingNew, AllInserted, BatchFails, UpdateResumePointer, GetNAVCount,
    MarkSyncCompleted
<1>9. ASSUME NEW w \in Workers, ListFunds(w) \/ NextFund(w)
      PROVE  UNCHANGED <<today, nav, isRunning>>
  BY <1>9 DEF ListFunds, NextFund
<1>10. ASSUME ResumePausedSyncs \/ StopSync \/ UNCHANGED vars
       PROVE  UNCHANGED <<today, nav, isRunning>>
  BY <1>10 DEF ResumePausedSyncs, StopSync, vars
<1>11. QED
  BY <1>2, <1>3, <1>4, <1>5, <1>6, <1>7, <1>8, <1>9, <1>10 DEF Next, Worker, Job!Next

\* All of it holds as long as nobody calls ResumePausedSyncs.
LEMMA JobKnown ==
  ASSUME MaxResumes = 0
  PROVE  Spec => []Known
<1>1. Init => LeftPublished /\ NobodyResumes
  BY DEF Init, LeftPublished, NobodyResumes, Resting, Workers
<1>2. TypeOK /\ NobodyResumes /\ [Next]_vars => NobodyResumes'
  BY NobodyStep
<1>3. Spec => [](TypeOK /\ RunnerRuns)
  BY TypeCorrect, Running, PTL
<1>4. QED BY <1>1, <1>2, <1>3, LeftStep, PTL DEF Spec, Known

\* Without calls of ResumePausedSyncs, SyncService keeps what Server relies on:
\* one goroutine, isRunning, and nav_history (TriggerSync, runSync, syncFund).
THEOREM JobImplemented ==
  ASSUME MaxResumes = 0
  PROVE  Spec => ImplementsSyncJob
<1>1. Init => Job!Init
  BY DEF Init, Job!Init, At, Resting, Workers
<1>2. Spec => []Known
  BY JobKnown
<1>3. QED BY <1>1, <1>2, JobStep, PTL DEF Spec, ImplementsSyncJob, Job!Spec

-----------------------------------------------------------------------------
(* The row the runner works on *)

\* A last_nav_date is that of a NAV the API has answered with, and a row that
\* does not exist has none.
Dated(row) == row.last \in Parsed \union {0}

RowsDated == \A k \in Key : Dated(rows[k]) /\ (rows[k].status = "none" => rows[k].last = 0)

\* The steps at which the runner has the row as it read or created it, and
\* those at which it has fetched NAVs.
Underway == {"mark", "fetch", "fail", "nothing", "insert", "pause", "count", "complete"}
Fetched  == {"insert", "pause", "count", "complete"}

\* The goroutine of TriggerSync.
Runner == work["runner"]

\* What the runner read is still so; what it has fetched is no older.
Current ==
  /\ Runner.pc = "create" => MyRow("runner").last = 0
  /\ Runner.pc \in Underway => MyRow("runner").last = Runner.seen.last
  /\ Runner.pc \in Fetched => Runner.latest \in Parsed /\ Runner.latest >= Runner.seen.last

\* No row's last_nav_date goes back in this step.
Onward == \A k \in Key : rows'[k].last >= rows[k].last

-----------------------------------------------------------------------------
(* Steps that leave the rows alone *)

\* What is published stays so.
LEMMA ParsedStays ==
  ASSUME TypeOK, TypeOK', [Next]_vars
  PROVE  Parsed \subseteq Parsed'
<1>1. today' = today \/ today' = today + 1
  BY DEF Next, vars, TriggerSync, Worker, SyncFund, ResumePausedSyncs, StopSync, Publish, Crash,
    ListFunds, NextFund, Finish, GetSyncState, CreateSyncState, MarkSyncInProgress, Fetch,
    FetchFails, MarkSyncFailed, NothingNew, InsertBatch, AllInserted, BatchFails,
    UpdateResumePointer, GetNAVCount, MarkSyncCompleted
<1>2. today \in Nat /\ today' \in Nat
  BY DEF TypeOK
<1>3. 1..today \subseteq 1..today'
  BY <1>1, <1>2
<1>4. QED BY <1>3 DEF Parsed

\* A step that writes no row takes no date back.
LEMMA SameRows ==
  ASSUME TypeOK, RowsDated, Parsed \subseteq Parsed', UNCHANGED rows
  PROVE  RowsDated' /\ Onward
BY DEF RowsDated, Dated, Onward, TypeOK, Row

\* Outside syncFund's hold on a row the runner knows nothing.
LEMMA NothingHeld ==
  ASSUME work'["runner"].pc \in {"idle", "list", "next", "read"}
  PROVE  Current'
BY DEF Current, Runner, Underway, Fetched

\* Back in its loop the runner holds nothing.
LEMMA ReturnHolds ==
  ASSUME TypeOK, Return("runner")
  PROVE  Current'
<1>1. work'["runner"].pc = "next"
  BY DEF Return, TypeOK, Workers, Resting
<1>2. QED BY <1>1, NothingHeld

\* The runner goes on with what it knows.
LEMMA GoesOnCurrent ==
  ASSUME TypeOK, Current, Parsed \subseteq Parsed',
         work'["runner"].key = Runner.key, work'["runner"].seen = Runner.seen,
         work'["runner"].latest = Runner.latest,
         rows'[Runner.key].last = MyRow("runner").last,
         Runner.pc \in Underway,
         work'["runner"].pc \in Underway,
         work'["runner"].pc \in Fetched => Runner.pc \in Fetched
  PROVE  Current'
BY DEF Current, Runner, MyRow, MyKey, Underway

\* Another step, the same locals.
LEMMA GotoSame ==
  ASSUME TypeOK, NEW pc, Goto("runner", pc)
  PROVE  /\ work'["runner"].pc = pc
         /\ work'["runner"].key = Runner.key
         /\ work'["runner"].seen = Runner.seen
         /\ work'["runner"].latest = Runner.latest
BY DEF Goto, TypeOK, Work, Workers, Runner

-----------------------------------------------------------------------------
(* Steps that write the runner's row *)

\* A row is written with a NAV's date that is no older.
LEMMA RowWritten ==
  ASSUME TypeOK, RowsDated, Parsed \subseteq Parsed', NEW row,
         Write("runner", row), row.last \in Parsed \union {0}, row.status # "none",
         row.last >= MyRow("runner").last
  PROVE  RowsDated' /\ Onward /\ rows'[Runner.key] = row
<1>1. Runner.key \in Key /\ "runner" \in Workers
  BY DEF TypeOK, Work, Workers, Runner
<1>2. rows' = [rows EXCEPT ![Runner.key] = row] /\ rows \in [Key -> Row]
  BY DEF Write, MyKey, Runner, TypeOK
<1>3. ASSUME NEW k \in Key
      PROVE  /\ Dated(rows[k])' /\ (rows'[k].status = "none" => rows'[k].last = 0)
             /\ rows'[k].last >= rows[k].last
  <2>1. CASE k = Runner.key
    BY <1>1, <1>2, <2>1 DEF Dated, MyRow, MyKey, Runner
  <2>2. CASE k # Runner.key
    <3>1. rows'[k] = rows[k] /\ rows[k].last \in 0..MaxDate
      BY <1>2, <2>2 DEF Row
    <3>2. QED BY <3>1, DataAssumption DEF RowsDated, Dated, DataAssumption
  <2>3. QED BY <2>1, <2>2
<1>4. QED BY <1>1, <1>2, <1>3 DEF RowsDated, Onward

\* The row is written with the date it has.
LEMMA SameDateWritten ==
  ASSUME TypeOK, RowsDated, Parsed \subseteq Parsed', NEW row,
         Write("runner", row), row.last = MyRow("runner").last, row.status # "none"
  PROVE  RowsDated' /\ Onward /\ rows'[Runner.key] = row
<1>1. Runner.key \in Key /\ MyRow("runner") = rows[Runner.key] /\ rows[Runner.key] \in Row
  BY DEF TypeOK, Work, Workers, Runner, MyRow, MyKey
<1>2. row.last \in Parsed \union {0} /\ row.last >= MyRow("runner").last
  BY <1>1, DataAssumption DEF RowsDated, Dated, Row, DataAssumption
<1>3. QED BY <1>2, RowWritten

-----------------------------------------------------------------------------
(* Every step *)

\* The inductive invariant.
Marked == Known /\ RowsDated /\ Current

\* No step takes a date back, or leaves the runner with a stale one.
LEMMA MarkedStep ==
  ASSUME Marked, Known', [Next]_vars
  PROVE  RowsDated' /\ Current' /\ Onward
<1>1. TypeOK /\ TypeOK' /\ RowsDated /\ Current /\ Parsed \subseteq Parsed'
  BY ParsedStays DEF Marked, Known
<1>2. /\ Runner \in Work /\ Runner.key \in Key /\ rows[Runner.key] \in Row
      /\ MyRow("runner") = rows[Runner.key] /\ "runner" \in Workers
  BY <1>1 DEF TypeOK, Work, Workers, Runner, MyRow, MyKey
<1>3. ASSUME UNCHANGED rows PROVE RowsDated' /\ Onward
  BY <1>1, <1>3, SameRows
<1>4. ASSUME NEW t \in SyncTypes, TriggerSync(t) PROVE RowsDated' /\ Current' /\ Onward
  <2>1. work'["runner"].pc = "list" /\ UNCHANGED rows
    BY <1>1, <1>4 DEF TriggerSync, TypeOK, Workers, Resting
  <2>2. QED BY <1>3, <2>1, NothingHeld
<1>5. ASSUME NEW w \in Workers, ListFunds(w) \/ NextFund(w) \/ Finish(w)
      PROVE  RowsDated' /\ Current' /\ Onward
  <2>1. w = "runner" /\ UNCHANGED rows
    BY <1>5, OnlyRunner DEF ListFunds, NextFund, Finish, At, Marked
  <2>2. work'["runner"].pc \in {"next", "read", "idle"}
    <3>1. CASE ListFunds("runner")
      <4>1. CASE Goto("runner", "next")
        BY <1>1, <4>1, GotoSame
      <4>2. CASE ~Goto("runner", "next")
        <5>1. work' = [work EXCEPT !["runner"] = [@ EXCEPT !.pc = "next",
                                       !.todo = Funds \X {work["runner"].type}]]
          BY <3>1, <4>2 DEF ListFunds
        <5>2. QED BY <1>1, <1>2, <5>1 DEF TypeOK, Work, Runner
      <4>3. QED BY <4>1, <4>2
    <3>2. CASE NextFund("runner")
      BY <1>1, <3>2 DEF NextFund, TypeOK, Workers, Resting
    <3>3. CASE Finish("runner")
      BY <1>1, <3>3 DEF Finish, TypeOK, Workers, Resting
    <3>4. QED BY <1>5, <2>1, <3>1, <3>2, <3>3
  <2>3. QED BY <1>3, <2>1, <2>2, NothingHeld
<1>6. ASSUME NEW w \in Workers, SyncFund(w) PROVE w = "runner"
  BY <1>6, OnlyRunner DEF SyncFund, GetSyncState, CreateSyncState, MarkSyncInProgress, Fetch,
    FetchFails, MarkSyncFailed, NothingNew, InsertBatch, AllInserted, BatchFails,
    UpdateResumePointer, GetNAVCount, MarkSyncCompleted, At, Marked
<1>7. CASE GetSyncState("runner")
  <2>1. UNCHANGED rows /\ Runner.pc = "read"
    BY <1>7 DEF GetSyncState, At, Runner
  <2>2. CASE Return("runner")
    BY <1>1, <1>3, <2>1, <2>2, ReturnHolds
  <2>3. CASE ~Return("runner")
    <3>1. /\ work'["runner"].seen = MyRow("runner")
          /\ work'["runner"].key = Runner.key
          /\ work'["runner"].pc = IF MyRow("runner").status = "none" THEN "create" ELSE "mark"
      BY <1>1, <1>2, <1>7, <2>3 DEF GetSyncState, TypeOK, Work, Runner
    <3>2. rows'[Runner.key] = MyRow("runner")
      BY <1>2, <2>1
    <3>3. MyRow("runner").status = "none" => MyRow("runner").last = 0
      BY <1>1, <1>2 DEF RowsDated
    <3>4. Current'
      BY <3>1, <3>2, <3>3 DEF Current, Runner, MyRow, MyKey, Underway, Fetched
    <3>5. QED BY <1>3, <2>1, <3>4
  <2>4. QED BY <2>2, <2>3
<1>8. CASE CreateSyncState("runner")
  <2>1. CASE Return("runner") /\ UNCHANGED rows
    BY <1>1, <1>3, <2>1, ReturnHolds
  <2>2. CASE ~(Return("runner") /\ UNCHANGED rows)
    <3>1. /\ Write("runner", NewRow) /\ work'["runner"].seen = NewRow
          /\ work'["runner"].key = Runner.key /\ work'["runner"].pc = "mark"
      BY <1>1, <1>2, <1>8, <2>2 DEF CreateSyncState, TypeOK, Work, Runner
    <3>2. NewRow.last = MyRow("runner").last /\ NewRow.status # "none"
      BY <1>1, <1>8 DEF CreateSyncState, At, Current, Runner, NewRow, NoRow
    <3>3. RowsDated' /\ Onward /\ rows'[Runner.key] = NewRow
      BY <1>1, <3>1, <3>2, SameDateWritten
    <3>4. Current'
      BY <3>1, <3>3 DEF Current, Runner, MyRow, MyKey, Underway, Fetched
    <3>5. QED BY <3>3, <3>4
  <2>3. QED BY <2>1, <2>2
<1>9. CASE MarkSyncInProgress("runner")
  <2>1. CASE Return("runner") /\ UNCHANGED rows
    BY <1>1, <1>3, <2>1, ReturnHolds
  <2>2. CASE ~(Return("runner") /\ UNCHANGED rows)
    <3> DEFINE row == [MyRow("runner") EXCEPT !.status = "in_progress"]
    <3>1. Write("runner", row) /\ Goto("runner", "fetch") /\ Runner.pc = "mark"
      BY <1>9, <2>2 DEF MarkSyncInProgress, At, Runner
    <3>2. row.last = MyRow("runner").last /\ row.status # "none"
      BY <1>2 DEF Row
    <3> HIDE DEF row
    <3>3. RowsDated' /\ Onward /\ rows'[Runner.key] = row
      BY <1>1, <3>1, <3>2, SameDateWritten
    <3>4. Current'
      BY <1>1, <3>1, <3>2, <3>3, GotoSame, GoesOnCurrent DEF Underway, Fetched
    <3>5. QED BY <3>3, <3>4
  <2>3. QED BY <2>1, <2>2
<1>10. CASE Fetch("runner")
  <2> DEFINE new == Wanted(MyKey("runner")[2], Runner.seen)
  <2>1. UNCHANGED rows /\ Runner.pc = "fetch"
    BY <1>10 DEF Fetch, At, Runner
  <2>2. rows'[Runner.key].last = MyRow("runner").last
    BY <1>2, <2>1
  <2>3. CASE Goto("runner", "nothing")
    <3>1. Current'
      BY <1>1, <2>1, <2>2, <2>3, GotoSame, GoesOnCurrent DEF Underway, Fetched
    <3>2. QED BY <1>3, <2>1, <3>1
  <2>4. CASE ~Goto("runner", "nothing")
    <3>1. PICK d \in new :
            /\ \A e \in new : e <= d
            /\ work' = [work EXCEPT !["runner"] =
                          [@ EXCEPT !.left = new, !.latest = d, !.pc = "insert"]]
      BY <1>10, <2>4 DEF Fetch, Runner
    <3>2. /\ work'["runner"].latest = d /\ work'["runner"].pc = "insert"
          /\ work'["runner"].key = Runner.key /\ work'["runner"].seen = Runner.seen
      BY <1>1, <1>2, <3>1 DEF TypeOK, Work, Runner
    <3>3. Runner.seen.last = MyRow("runner").last
      BY <1>1, <2>1 DEF Current, Underway
    <3>4. Runner.seen.last \in Parsed \union {0} /\ Parsed \subseteq Nat
      BY <1>1, <1>2, <3>3 DEF RowsDated, Dated, Parsed
    <3>5. d \in Parsed /\ d >= Runner.seen.last
      <4>1. CASE new = Parsed
        BY <3>1, <3>4, <4>1
      <4>2. CASE new # Parsed
        <5>1. new = {e \in Parsed : e > Runner.seen.last}
          BY <4>2 DEF Wanted
        <5>2. d \in Parsed /\ d > Runner.seen.last
          BY <5>1, <3>1
        <5>3. QED BY <5>2, <3>4
      <4>3. QED BY <4>1, <4>2
    <3>6. Current'
      BY <1>1, <2>2, <3>2, <3>3, <3>5 DEF Current, Runner, MyRow, MyKey, Underway, Fetched
    <3>7. QED BY <1>3, <2>1, <3>6
  <2>5. QED BY <2>3, <2>4
<1>11. CASE FetchFails("runner")
  <2>1. UNCHANGED rows /\ Runner.pc = "fetch" /\ Goto("runner", "fail")
    BY <1>11 DEF FetchFails, At, Runner, AfterFailedFetch
  <2>2. rows'[Runner.key].last = MyRow("runner").last
    BY <1>2, <2>1
  <2>3. Current'
    BY <1>1, <2>1, <2>2, GotoSame, GoesOnCurrent DEF Underway, Fetched
  <2>4. QED BY <1>3, <2>1, <2>3
<1>12. CASE MarkSyncFailed("runner")
  <2> DEFINE row == [MyRow("runner") EXCEPT !.status = "failed", !.retries = @ + 1,
                                            !.delayed = TRUE]
  <2>1. Return("runner") /\ (Write("runner", row) \/ UNCHANGED rows)
    BY <1>12 DEF MarkSyncFailed
  <2>2. row.last = MyRow("runner").last /\ row.status # "none"
    BY <1>2 DEF Row
  <2> HIDE DEF row
  <2>3. QED BY <1>1, <1>3, <2>1, <2>2, SameDateWritten, ReturnHolds
<1>13. CASE NothingNew("runner")
  <2> DEFINE row == Completed(MyRow("runner"), Runner.seen.total, KeptDate("runner"))
  <2>1. /\ Return("runner") /\ (Write("runner", row) \/ UNCHANGED rows)
        /\ Runner.pc = "nothing"
    BY <1>13 DEF NothingNew, At, Runner
  <2>2. row.last = MyRow("runner").last /\ row.status # "none"
    BY <1>1, <1>2, <2>1 DEF Row, Completed, KeptDate, Current, Underway, Runner
  <2> HIDE DEF row
  <2>3. QED BY <1>1, <1>3, <2>1, <2>2, SameDateWritten, ReturnHolds
<1>14. CASE InsertBatch("runner")
  <2>1. PICK b \in Batches("runner") :
          work' = [work EXCEPT !["runner"] = [@ EXCEPT
            !.left = work["runner"].left \ b,
            !.index = work["runner"].index + Cardinality(b),
            !.inserted = work["runner"].inserted + Cardinality(b \ MyNav("runner"))]]
    BY <1>14 DEF InsertBatch
  <2>2. /\ work'["runner"].pc = Runner.pc /\ work'["runner"].key = Runner.key
        /\ work'["runner"].seen = Runner.seen /\ work'["runner"].latest = Runner.latest
    BY <1>1, <1>2, <2>1 DEF TypeOK, Work, Runner
  <2>3. UNCHANGED rows /\ Runner.pc = "insert"
    BY <1>14 DEF InsertBatch, At, Runner
  <2>4. rows'[Runner.key].last = MyRow("runner").last
    BY <1>2, <2>3
  <2>5. Current'
    BY <1>1, <2>2, <2>3, <2>4, GoesOnCurrent DEF Underway
  <2>6. QED BY <1>3, <2>3, <2>5
<1>15. CASE AllInserted("runner") \/ BatchFails("runner")
  <2>1. PICK pc \in {"count", "pause"} : Goto("runner", pc)
    BY <1>15 DEF AllInserted, BatchFails, AfterFailedBatch
  <2>2. UNCHANGED rows /\ Runner.pc = "insert"
    BY <1>15 DEF AllInserted, BatchFails, At, Runner
  <2>3. rows'[Runner.key].last = MyRow("runner").last
    BY <1>2, <2>2
  <2>4. Current'
    BY <1>1, <2>1, <2>2, <2>3, GotoSame, GoesOnCurrent DEF Underway, Fetched
  <2>5. QED BY <1>3, <2>2, <2>4
<1>16. CASE UpdateResumePointer("runner")
  <2> DEFINE row == [MyRow("runner") EXCEPT !.status = "paused", !.pointer = Runner.index]
  <2>1. Return("runner") /\ (Write("runner", row) \/ UNCHANGED rows)
    BY <1>16 DEF UpdateResumePointer, Runner
  <2>2. row.last = MyRow("runner").last /\ row.status # "none"
    BY <1>2 DEF Row
  <2> HIDE DEF row
  <2>3. QED BY <1>1, <1>3, <2>1, <2>2, SameDateWritten, ReturnHolds
<1>17. CASE GetNAVCount("runner")
  <2>1. PICK n : work' = [work EXCEPT !["runner"] = [@ EXCEPT !.pc = "complete", !.total = n]]
    BY <1>17 DEF GetNAVCount
  <2>2. /\ work'["runner"].pc = "complete" /\ work'["runner"].key = Runner.key
        /\ work'["runner"].seen = Runner.seen /\ work'["runner"].latest = Runner.latest
    BY <1>1, <1>2, <2>1 DEF TypeOK, Work, Runner
  <2>3. UNCHANGED rows /\ Runner.pc = "count"
    BY <1>17 DEF GetNAVCount, At, Runner
  <2>4. rows'[Runner.key].last = MyRow("runner").last
    BY <1>2, <2>3
  <2>5. Current'
    BY <1>1, <2>2, <2>3, <2>4, GoesOnCurrent DEF Underway, Fetched
  <2>6. QED BY <1>3, <2>3, <2>5
<1>18. CASE MarkSyncCompleted("runner")
  <2> DEFINE row == Completed(MyRow("runner"), Runner.total, Runner.latest)
  <2>1. /\ Return("runner") /\ (Write("runner", row) \/ UNCHANGED rows)
        /\ Runner.pc = "complete"
    BY <1>18 DEF MarkSyncCompleted, At, Runner
  <2>2. row.last = Runner.latest /\ row.status # "none"
    BY <1>2 DEF Row, Completed
  <2>3. Runner.latest \in Parsed /\ Runner.latest >= MyRow("runner").last
    BY <1>1, <2>1 DEF Current, Underway, Fetched
  <2> HIDE DEF row
  <2>4. QED BY <1>1, <1>3, <2>1, <2>2, <2>3, RowWritten, ReturnHolds
<1>19. CASE ResumePausedSyncs
  BY <1>1, <1>19 DEF ResumePausedSyncs, Marked, Known, NobodyResumes, TypeOK, Workers, Resting
<1>20. CASE StopSync
  <2>1. /\ work'["runner"].pc = Runner.pc /\ work'["runner"].key = Runner.key
        /\ work'["runner"].seen = Runner.seen /\ work'["runner"].latest = Runner.latest
    BY <1>1, <1>2, <1>20 DEF StopSync, TypeOK, Work, Runner
  <2>2. UNCHANGED rows
    BY <1>20 DEF StopSync
  <2>3. Current'
    BY <1>1, <2>1, <2>2 DEF Current, Runner, MyRow, MyKey
  <2>4. QED BY <1>3, <2>2, <2>3
<1>21. CASE Crash
  BY <1>3, <1>21, NothingHeld DEF Crash, Resting, Workers
<1>22. CASE Publish \/ UNCHANGED vars
  <2>1. UNCHANGED <<rows, work>>
    BY <1>22 DEF Publish, vars
  <2>2. Current'
    BY <1>1, <2>1 DEF Current, Runner, MyRow, MyKey
  <2>3. QED BY <1>3, <2>1, <2>2
<1>23. QED
  BY <1>4, <1>5, <1>6, <1>7, <1>8, <1>9, <1>10, <1>11, <1>12, <1>13, <1>14, <1>15, <1>16,
     <1>17, <1>18, <1>19, <1>20, <1>21, <1>22
  DEF Next, Worker, SyncFund

\* Without calls of ResumePausedSyncs last_nav_date never goes back, also not
\* by the steps that write back what syncFund read at the start (syncFund,
\* MarkSyncCompleted).
THEOREM WatermarkMonotonic ==
  ASSUME MaxResumes = 0
  PROVE  Spec => WatermarkNeverRecedes
<1>1. Init => RowsDated /\ Current
  BY DEF Init, RowsDated, Dated, Current, Runner, Underway, Fetched, NoRow, Resting, Workers
<1>2. Spec => []Known
  BY JobKnown
<1>3. Marked /\ Known' /\ [Next]_vars => RowsDated' /\ Current' /\ Onward
  BY MarkedStep
<1>4. Onward => [\A k \in Key : rows'[k].last >= rows[k].last]_vars
  BY DEF Onward
<1>5. QED BY <1>1, <1>2, <1>3, <1>4, PTL DEF Spec, Marked, WatermarkNeverRecedes

-----------------------------------------------------------------------------
(* Rows that are left in progress *)

\* The runner holds a row that it cannot let go of any more: every statement on
\* a cancelled context fails.
Doomed == Runner.pc \in Holding /\ Runner.cancelled

\* Every row left in progress, and the one that will be, is paid for by a mishap.
OrphansCounted ==
  /\ IsFiniteSet(Orphans)
  /\ Cardinality(Orphans) + (IF Doomed THEN 1 ELSE 0) <= mishaps

\* A row is held if the runner holds it.
LEMMA RunnerHolds ==
  ASSUME Known, NEW k
  PROVE  Held(k) <=> Runner.pc \in Holding /\ Runner.key = k
BY DEF Known, NobodyResumes, Held, MyKey, Runner, Workers, Holding

\* A finite set with at most one more element is at most one larger.
LEMMA AtMostOneMore ==
  ASSUME NEW S, IsFiniteSet(S), NEW T, NEW x, T \subseteq S \union {x}
  PROVE  /\ IsFiniteSet(T) /\ Cardinality(T) \in Nat /\ Cardinality(S) \in Nat
         /\ Cardinality(T) <= Cardinality(S) + 1
<1>1. /\ IsFiniteSet(S \union {x}) /\ Cardinality(S) \in Nat
      /\ Cardinality(S \union {x}) \in Nat
      /\ Cardinality(S \union {x}) <= Cardinality(S) + 1
  BY FS_AddElement, FS_CardinalityType
<1>2. /\ IsFiniteSet(T) /\ Cardinality(T) \in Nat
      /\ Cardinality(T) <= Cardinality(S \union {x})
  BY <1>1, FS_Subset, FS_CardinalityType
<1>3. QED BY <1>1, <1>2

\* A step pays for what it leaves behind: if the runner lets go of a row that
\* stays in progress, then its context was cancelled or something went wrong;
\* and a context is only cancelled by a mishap.
LEMMA OrphanPaid ==
  ASSUME Known, Known', OrphansCounted,
         mishaps' = mishaps \/ mishaps' = mishaps + 1,
         \A k \in Key : rows'[k].status = "in_progress" =>
           \/ rows[k].status = "in_progress"
           \/ work'["runner"].pc \in Holding /\ work'["runner"].key = k,
         Runner.pc \in Holding =>
           \/ work'["runner"].pc \in Holding /\ work'["runner"].key = Runner.key
           \/ rows'[Runner.key].status # "in_progress"
           \/ work'["runner"].pc \notin Holding
              /\ (Runner.cancelled \/ mishaps' = mishaps + 1),
         Doomed' => Doomed \/ mishaps' = mishaps + 1
  PROVE  OrphansCounted'
<1> DEFINE n == work'["runner"]
<1>0. mishaps \in Nat
  BY DEF Known, TypeOK
<1>1. \A k : Held(k) <=> Runner.pc \in Holding /\ Runner.key = k
  BY RunnerHolds
<1>2. \A k : Held(k)' <=> n.pc \in Holding /\ n.key = k
  BY DEF Known, NobodyResumes, Held, MyKey, Workers, Holding
<1>3. Orphans' = {k \in Key : rows'[k].status = "in_progress" /\ ~(n.pc \in Holding /\ n.key = k)}
  BY <1>2 DEF Orphans
<1>4. Orphans = {k \in Key : rows[k].status = "in_progress"
                             /\ ~(Runner.pc \in Holding /\ Runner.key = k)}
  BY <1>1 DEF Orphans
<1>5. Doomed' <=> n.pc \in Holding /\ n.cancelled
  BY DEF Doomed, Runner
<1> HIDE DEF n
<1>6. CASE n.pc \notin Holding /\ Runner.pc \in Holding
           /\ (Runner.cancelled \/ mishaps' = mishaps + 1)
  <2>1. Orphans' \subseteq Orphans \union {Runner.key}
    BY <1>3, <1>4, <1>6 DEF n
  <2>2. /\ IsFiniteSet(Orphans') /\ Cardinality(Orphans') \in Nat /\ Cardinality(Orphans) \in Nat
        /\ Cardinality(Orphans') <= Cardinality(Orphans) + 1
    BY <2>1, AtMostOneMore DEF OrphansCounted
  <2>3. ~Doomed' /\ (Doomed \/ mishaps' = mishaps + 1)
    BY <1>5, <1>6 DEF Doomed
  <2>4. Cardinality(Orphans) + (IF Doomed THEN 1 ELSE 0) <= mishaps
    BY DEF OrphansCounted
  <2>5. Cardinality(Orphans') <= mishaps'
    BY <1>0, <2>2, <2>3, <2>4
  <2>6. QED BY <2>2, <2>3, <2>5 DEF OrphansCounted
<1>7. CASE ~(n.pc \notin Holding /\ Runner.pc \in Holding
             /\ (Runner.cancelled \/ mishaps' = mishaps + 1))
  <2>1. Orphans' \subseteq Orphans
    BY <1>3, <1>4, <1>7 DEF n
  <2>2. /\ IsFiniteSet(Orphans') /\ Cardinality(Orphans') \in Nat /\ Cardinality(Orphans) \in Nat
        /\ Cardinality(Orphans') <= Cardinality(Orphans)
    BY <2>1, FS_Subset, FS_CardinalityType DEF OrphansCounted
  <2>3. Cardinality(Orphans) + (IF Doomed THEN 1 ELSE 0) <= mishaps
    BY DEF OrphansCounted
  <2>4. Cardinality(Orphans') + (IF Doomed' THEN 1 ELSE 0) <= mishaps'
    BY <1>0, <2>2, <2>3
  <2>5. QED BY <2>2, <2>4 DEF OrphansCounted
<1>8. QED BY <1>6, <1>7

\* The runner goes on with the row it holds.
LEMMA GoesOnPaid ==
  ASSUME Known, Known', OrphansCounted, UNCHANGED <<rows, mishaps>>,
         Runner.pc \in Holding, NEW r, r.pc \in Holding, r.key = Runner.key,
         r.cancelled = Runner.cancelled, work' = [work EXCEPT !["runner"] = r]
  PROVE  OrphansCounted'
<1>1. work'["runner"] = r
  BY DEF Known, TypeOK, Workers
<1>2. Doomed' => Doomed
  BY <1>1 DEF Doomed, Runner
<1>3. QED BY <1>1, <1>2, OrphanPaid

\* A step of the runner that holds no row.
LEMMA OutsidePaid ==
  ASSUME Known, Known', OrphansCounted, UNCHANGED rows,
         mishaps' = mishaps \/ mishaps' = mishaps + 1,
         Runner.pc \notin Holding, work'["runner"].pc \notin Holding
  PROVE  OrphansCounted'
<1>1. ~Doomed'
  BY DEF Doomed, Runner
<1>2. QED BY <1>1, OrphanPaid

\* The runner is back in its loop, from a row that is not in progress or that
\* it could not write.
LEMMA ReturnPaid ==
  ASSUME Known, Known', OrphansCounted, Return("runner"),
         mishaps' = mishaps \/ mishaps' = mishaps + 1,
         \A k \in Key : rows'[k].status = "in_progress" => rows[k].status = "in_progress",
         Runner.pc \in Holding => \/ rows'[Runner.key].status # "in_progress"
                                  \/ Runner.cancelled
                                  \/ mishaps' = mishaps + 1
  PROVE  OrphansCounted'
<1>1. work'["runner"].pc = "next"
  BY DEF Return, Known, TypeOK, Workers, Resting
<1>2. work'["runner"].pc \notin Holding /\ ~Doomed'
  BY <1>1 DEF Holding, Doomed, Runner
<1>3. QED BY <1>2, OrphanPaid

\* The row is written with another status and let go.
LEMMA WrittenPaid ==
  ASSUME Known, Known', OrphansCounted, NEW row, Write("runner", row),
         row.status # "in_progress", Succeeds("runner"), Return("runner")
  PROVE  OrphansCounted'
<1>1. TypeOK /\ "runner" \in Workers /\ MyKey("runner") = Runner.key
  BY DEF Known, Workers, MyKey, Runner
<1>2. /\ rows'[Runner.key] = row
      /\ \A k \in Key : k # Runner.key => rows'[k] = rows[k]
  BY <1>1, Written
<1>3. mishaps' = mishaps
  BY DEF Succeeds, counts
<1>4. QED BY <1>2, <1>3, ReturnPaid

\* The statement fails, and the row is let go as it is.
LEMMA DroppedPaid ==
  ASSUME Known, Known', OrphansCounted, Fails("runner"), Return("runner"), UNCHANGED rows
  PROVE  OrphansCounted'
<1>1. (Runner.cancelled /\ mishaps' = mishaps) \/ mishaps' = mishaps + 1
  BY DEF Fails, Befalls, counts, Runner
<1>2. QED BY <1>1, ReturnPaid

\* Every step pays for the rows it leaves in progress (the statements of
\* syncFund and insertNAVWithResumability, StopSync, a restart).
LEMMA OrphansStep == Known /\ Known' /\ OrphansCounted /\ [Next]_vars => OrphansCounted'
<1> SUFFICES ASSUME Known, Known', OrphansCounted, [Next]_vars PROVE OrphansCounted'
  OBVIOUS
<1>0. /\ TypeOK /\ RunnerRuns /\ "runner" \in Workers /\ MyKey("runner") = Runner.key
      /\ Runner \in Work /\ MyRow("runner") \in Row
  BY MyRowTyped DEF Known, Workers, MyKey, Runner, TypeOK
<1>1. ASSUME NEW w \in Workers, Worker(w) PROVE w = "runner"
  <2>1. work[w].pc # "idle"
    BY <1>1 DEF Worker, SyncFund, ListFunds, NextFund, Finish, GetSyncState, CreateSyncState,
      MarkSyncInProgress, Fetch, FetchFails, MarkSyncFailed, NothingNew, InsertBatch,
      AllInserted, BatchFails, UpdateResumePointer, GetNAVCount, MarkSyncCompleted, At
  <2>2. QED BY <2>1, OnlyRunner
<1>2. /\ Succeeds("runner") => mishaps' = mishaps /\ ~Runner.cancelled
      /\ Fails("runner") => mishaps' = mishaps \/ mishaps' = mishaps + 1
  BY DEF Succeeds, Fails, Befalls, counts, Runner
<1>3. ASSUME NEW pc \in Holding, Goto("runner", pc), UNCHANGED rows, Runner.pc \in Holding,
             mishaps' = mishaps \/ mishaps' = mishaps + 1
      PROVE  OrphansCounted'
  <2>1. /\ work'["runner"].pc = pc /\ work'["runner"].key = Runner.key
        /\ work'["runner"].cancelled = Runner.cancelled
    BY <1>0, <1>3 DEF Goto, TypeOK, Work, Runner
  <2>2. Doomed' => Doomed
    BY <1>3, <2>1 DEF Doomed, Runner
  <2>3. QED BY <1>3, <2>1, <2>2, OrphanPaid
<1>4. ASSUME NEW t \in SyncTypes, TriggerSync(t) PROVE OrphansCounted'
  <2>1. UNCHANGED <<rows, mishaps>> /\ Runner.pc = "idle"
    BY <1>0, <1>4 DEF TriggerSync, RunnerRuns, Runner, counts
  <2>2. work'["runner"].pc = "list"
    BY <1>0, <1>4 DEF TriggerSync, TypeOK, Resting
  <2>3. QED BY <2>1, <2>2, OutsidePaid DEF Holding
<1>5. CASE ListFunds("runner")
  <2>1. Runner.pc = "list" /\ UNCHANGED rows
    BY <1>5 DEF ListFunds, At, Runner
  <2>2. mishaps' = mishaps \/ mishaps' = mishaps + 1
    BY <1>2, <1>5 DEF ListFunds
  <2>3. work'["runner"].pc = "next"
    BY <1>0, <1>5 DEF ListFunds, Goto, TypeOK, Work
  <2>4. QED BY <2>1, <2>2, <2>3, OutsidePaid DEF Holding
<1>6. CASE NextFund("runner")
  <2>1. Runner.pc = "next" /\ UNCHANGED <<rows, mishaps>>
    BY <1>6 DEF NextFund, At, Runner, counts
  <2>2. work'["runner"].pc = "read"
    BY <1>0, <1>6 DEF NextFund, TypeOK, Resting
  <2>3. QED BY <2>1, <2>2, OutsidePaid DEF Holding
<1>7. CASE Finish("runner")
  <2>1. Runner.pc = "next" /\ UNCHANGED <<rows, mishaps>>
    BY <1>7 DEF Finish, At, Runner, counts
  <2>2. work'["runner"].pc = "idle"
    BY <1>0, <1>7 DEF Finish, TypeOK, Resting
  <2>3. QED BY <2>1, <2>2, OutsidePaid DEF Holding
<1>8. CASE GetSyncState("runner")
  <2>1. Runner.pc = "read" /\ UNCHANGED rows
    BY <1>8 DEF GetSyncState, At, Runner
  <2>2. mishaps' = mishaps \/ mishaps' = mishaps + 1
    BY <1>2, <1>8 DEF GetSyncState
  <2>3. CASE Return("runner")
    BY <2>1, <2>2, <2>3, ReturnPaid DEF Holding
  <2>4. CASE ~Return("runner")
    <3>1. work'["runner"].pc \in {"create", "mark"}
      BY <1>0, <1>8, <2>4 DEF GetSyncState, TypeOK, Work
    <3>2. QED BY <2>1, <2>2, <3>1, OutsidePaid DEF Holding
  <2>5. QED BY <2>3, <2>4
<1>9. CASE CreateSyncState("runner")
  <2>1. Runner.pc = "create"
    BY <1>9 DEF CreateSyncState, At, Runner
  <2>2. CASE Succeeds("runner") /\ Write("runner", NewRow)
             /\ work' = [work EXCEPT !["runner"] = [@ EXCEPT !.seen = NewRow, !.pc = "mark"]]
    <3>1. work'["runner"].pc = "mark"
      BY <1>0, <2>2 DEF TypeOK, Work
    <3>2. NewRow.status = "pending"
      BY DEF NewRow, NoRow
    <3>3. \A k \in Key : rows'[k].status = "in_progress" => rows[k].status = "in_progress"
      BY <1>0, <2>2, <3>2, Written
    <3>4. ~Doomed' /\ work'["runner"].pc \notin Holding /\ Runner.pc \notin Holding
      BY <2>1, <3>1 DEF Doomed, Runner, Holding
    <3>5. QED BY <1>2, <2>2, <3>3, <3>4, OrphanPaid
  <2>3. CASE Fails("runner") /\ Return("runner") /\ UNCHANGED rows
    BY <2>3, DroppedPaid
  <2>4. QED BY <1>9, <2>2, <2>3 DEF CreateSyncState
<1>10. CASE MarkSyncInProgress("runner")
  <2>1. Runner.pc = "mark"
    BY <1>10 DEF MarkSyncInProgress, At, Runner
  <2>2. CASE /\ Succeeds("runner") /\ Goto("runner", "fetch")
             /\ Write("runner", [MyRow("runner") EXCEPT !.status = "in_progress"])
    <3>1. /\ work'["runner"].pc = "fetch" /\ work'["runner"].key = Runner.key
          /\ ~work'["runner"].cancelled
      BY <1>0, <1>2, <2>2 DEF Goto, TypeOK, Work, Runner
    <3>2. \A k \in Key : k # Runner.key => rows'[k] = rows[k]
      BY <1>0, <2>2, Written
    <3>3. ~Doomed' /\ work'["runner"].pc \in Holding /\ Runner.pc \notin Holding
      BY <2>1, <3>1 DEF Doomed, Runner, Holding
    <3>4. QED BY <1>2, <2>2, <3>1, <3>2, <3>3, OrphanPaid
  <2>3. CASE Fails("runner") /\ Return("runner") /\ UNCHANGED rows
    BY <2>3, DroppedPaid
  <2>4. QED BY <1>10, <2>2, <2>3 DEF MarkSyncInProgress
<1>11. CASE Fetch("runner")
  <2>1. Runner.pc \in Holding /\ UNCHANGED <<rows, mishaps>>
    BY <1>2, <1>11 DEF Fetch, At, Runner, Holding
  <2>2. CASE Goto("runner", "nothing")
    BY <1>3, <2>1, <2>2 DEF Holding
  <2>3. CASE ~Goto("runner", "nothing")
    <3> DEFINE new == Wanted(MyKey("runner")[2], work["runner"].seen)
    <3>1. PICK d \in new : work' = [work EXCEPT !["runner"] =
                             [@ EXCEPT !.left = new, !.latest = d, !.pc = "insert"]]
      BY <1>11, <2>3 DEF Fetch
    <3> HIDE DEF new
    <3> DEFINE r == [Runner EXCEPT !.left = new, !.latest = d, !.pc = "insert"]
    <3>2. work' = [work EXCEPT !["runner"] = r]
      BY <3>1 DEF Runner
    <3>3. r.pc \in Holding /\ r.key = Runner.key /\ r.cancelled = Runner.cancelled
      BY <1>0 DEF Work, Holding
    <3> HIDE DEF r
    <3>4. QED BY <2>1, <3>2, <3>3, GoesOnPaid
  <2>4. QED BY <2>2, <2>3
<1>12. CASE FetchFails("runner") \/ AllInserted("runner")
  BY <1>3, <1>12 DEF FetchFails, AllInserted, AfterFailedFetch, Holding, At, Runner, counts
<1>13. CASE BatchFails("runner")
  BY <1>2, <1>3, <1>13 DEF BatchFails, AfterFailedBatch, Holding, At, Runner
<1>14. CASE MarkSyncFailed("runner")
  <2> DEFINE row == [MyRow("runner") EXCEPT !.status = "failed", !.retries = @ + 1,
                                            !.delayed = TRUE]
  <2>1. row.status # "in_progress"
    BY <1>0 DEF Row
  <2>2. \/ Succeeds("runner") /\ Write("runner", row) /\ Return("runner")
        \/ Fails("runner") /\ UNCHANGED rows /\ Return("runner")
    BY <1>14 DEF MarkSyncFailed
  <2> HIDE DEF row
  <2>3. QED BY <2>1, <2>2, WrittenPaid, DroppedPaid
<1>15. CASE NothingNew("runner") \/ MarkSyncCompleted("runner")
  <2>1. \A total, d : Completed(MyRow("runner"), total, d).status # "in_progress"
    BY <1>0 DEF Completed, Row
  <2>2. \/ \E total, d : /\ Succeeds("runner") /\ Return("runner")
                         /\ Write("runner", Completed(MyRow("runner"), total, d))
        \/ Fails("runner") /\ UNCHANGED rows /\ Return("runner")
    BY <1>15 DEF NothingNew, MarkSyncCompleted
  <2>3. QED BY <2>1, <2>2, WrittenPaid, DroppedPaid
<1>16. CASE UpdateResumePointer("runner")
  <2> DEFINE row == [MyRow("runner") EXCEPT !.status = "paused", !.pointer = work["runner"].index]
  <2>1. row.status # "in_progress"
    BY <1>0 DEF Row
  <2>2. \/ Succeeds("runner") /\ Write("runner", row) /\ Return("runner")
        \/ Fails("runner") /\ UNCHANGED rows /\ Return("runner")
    BY <1>16 DEF UpdateResumePointer
  <2> HIDE DEF row
  <2>3. QED BY <2>1, <2>2, WrittenPaid, DroppedPaid
<1>17. CASE InsertBatch("runner")
  <2>1. Runner.pc \in Holding /\ UNCHANGED <<rows, mishaps>>
    BY <1>2, <1>17 DEF InsertBatch, At, Runner, Holding
  <2>2. PICK b \in Batches("runner") :
          work' = [work EXCEPT !["runner"] = [@ EXCEPT
            !.left = work["runner"].left \ b,
            !.index = work["runner"].index + Cardinality(b),
            !.inserted = work["runner"].inserted + Cardinality(b \ MyNav("runner"))]]
    BY <1>17 DEF InsertBatch
  <2> DEFINE r == [Runner EXCEPT
            !.left = work["runner"].left \ b,
            !.index = work["runner"].index + Cardinality(b),
            !.inserted = work["runner"].inserted + Cardinality(b \ MyNav("runner"))]
  <2>3. work' = [work EXCEPT !["runner"] = r]
    BY <2>2 DEF Runner
  <2>4. r.pc \in Holding /\ r.key = Runner.key /\ r.cancelled = Runner.cancelled
    BY <1>0, <2>1 DEF Work
  <2> HIDE DEF r
  <2>5. QED BY <2>1, <2>3, <2>4, GoesOnPaid
<1>18. CASE GetNAVCount("runner")
  <2>1. Runner.pc = "count" /\ UNCHANGED rows
    BY <1>18 DEF GetNAVCount, At, Runner
  <2>2. mishaps' = mishaps \/ mishaps' = mishaps + 1
    BY <1>2, <1>18 DEF GetNAVCount
  <2>3. /\ work'["runner"].pc = "complete" /\ work'["runner"].key = Runner.key
        /\ work'["runner"].cancelled = Runner.cancelled
    BY <1>0, <1>18 DEF GetNAVCount, TypeOK, Work, Runner
  <2>4. (Doomed' => Doomed) /\ work'["runner"].pc \in Holding
    BY <2>1, <2>3 DEF Doomed, Runner, Holding
  <2>5. QED BY <2>1, <2>2, <2>3, <2>4, OrphanPaid
<1>19. CASE StopSync
  <2>1. UNCHANGED rows /\ mishaps' = mishaps + 1
    BY <1>19 DEF StopSync, Befalls
  <2>2. work'["runner"].pc = Runner.pc /\ work'["runner"].key = Runner.key
    BY <1>0, <1>19 DEF StopSync, TypeOK, Work, Runner
  <2>3. QED BY <2>1, <2>2, OrphanPaid
<1>20. CASE Crash
  <2>1. UNCHANGED rows /\ mishaps' = mishaps + 1 /\ work'["runner"].pc = "idle"
    BY <1>0, <1>20 DEF Crash, Befalls, Resting
  <2>2. work'["runner"].pc \notin Holding
    BY <2>1 DEF Holding
  <2>3. QED BY <2>1, <2>2, OrphanPaid
<1>21. CASE Publish \/ UNCHANGED vars
  BY <1>21 DEF Publish, vars, counts, OrphansCounted, Orphans, Held, MyKey, Doomed, Runner
<1>22. ~ResumePausedSyncs
  <2> SUFFICES ASSUME ResumePausedSyncs PROVE FALSE
    OBVIOUS
  <2>1. work'["resumer"].pc = "next"
    BY <1>0 DEF ResumePausedSyncs, TypeOK, Resting, Workers
  <2>2. QED BY <2>1 DEF Known, NobodyResumes
<1>23. QED
  BY <1>1, <1>4, <1>5, <1>6, <1>7, <1>8, <1>9, <1>10, <1>11, <1>12, <1>13, <1>14, <1>15,
     <1>16, <1>17, <1>18, <1>19, <1>20, <1>21, <1>22
  DEF Next, Worker, SyncFund

\* Without calls of ResumePausedSyncs no more rows are ever left in progress
\* than statements failed, processes ended and syncs were stopped (syncFund,
\* StopSync).
THEOREM OrphansBounded ==
  ASSUME MaxResumes = 0
  PROVE  Spec => []OneOrphanPerMishap
<1>1. Init => OrphansCounted
  <2> SUFFICES ASSUME Init PROVE OrphansCounted
    OBVIOUS
  <2>1. Orphans = {}
    BY DEF Init, Orphans, NoRow
  <2>2. ~Doomed
    BY DEF Init, Doomed, Runner, Resting, Workers, Holding
  <2>3. IsFiniteSet({}) /\ Cardinality({}) = 0
    BY FS_EmptySet
  <2>4. QED BY <2>1, <2>2, <2>3 DEF OrphansCounted, Init
<1>2. Spec => []Known
  BY JobKnown
<1>3. Known /\ OrphansCounted => OneOrphanPerMishap
  <2> SUFFICES ASSUME Known, OrphansCounted PROVE Cardinality(Orphans) <= mishaps
    BY DEF OneOrphanPerMishap
  <2>1. Cardinality(Orphans) \in Nat /\ mishaps \in Nat
    BY FS_CardinalityType DEF OrphansCounted, Known, TypeOK
  <2>2. QED BY <2>1 DEF OrphansCounted
<1>4. QED BY <1>1, <1>2, <1>3, OrphansStep, PTL DEF Spec
=============================================================================
