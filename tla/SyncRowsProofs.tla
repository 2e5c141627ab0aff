---------------------------- MODULE SyncRowsProofs ----------------------------
(***************************************************************************)
(* For every set of funds and every history of failures: a sync_state row  *)
(* reports no more records than are stored, and is left in progress only   *)
(* after a mishap.                                                         *)
(***************************************************************************)
EXTENDS SyncServiceProofs

-----------------------------------------------------------------------------
(* The goroutine of TriggerSync *)

\* isRunning says whether it works.
RunnerRuns == isRunning <=> work["runner"].pc # "idle"

\* A worker's step leaves isRunning right if it neither starts nor ends.
LEMMA RunsOn ==
  ASSUME TypeOK, RunnerRuns, NEW w \in Workers, NEW r, work' = [work EXCEPT ![w] = r],
         UNCHANGED isRunning, work[w].pc # "idle", r.pc # "idle"
  PROVE  RunnerRuns'
BY DEF TypeOK, RunnerRuns, Workers

\* A worker that returns to its loop goes on.
LEMMA ReturnRunsOn ==
  ASSUME TypeOK, RunnerRuns, NEW w \in Workers, Return(w), UNCHANGED isRunning,
         work[w].pc # "idle"
  PROVE  RunnerRuns'
<1> DEFINE r == [Resting EXCEPT !.pc = "next", !.type = work[w].type,
                   !.todo = work[w].todo, !.cancelled = work[w].cancelled]
<1>1. work' = [work EXCEPT ![w] = r] /\ r.pc = "next"
  BY DEF Return, Resting
<1> HIDE DEF r
<1>2. QED BY <1>1, RunsOn

\* A worker that goes to another step goes on.
LEMMA GotoRunsOn ==
  ASSUME TypeOK, RunnerRuns, NEW w \in Workers, NEW pc, Goto(w, pc), pc # "idle",
         UNCHANGED isRunning, work[w].pc # "idle"
  PROVE  RunnerRuns'
<1>1. work' = [work EXCEPT ![w] = [work[w] EXCEPT !.pc = pc]] /\ work[w] \in Work
  BY DEF Goto, TypeOK
<1>2. [work[w] EXCEPT !.pc = pc].pc = pc
  BY <1>1 DEF Work
<1>3. QED BY <1>1, <1>2, RunsOn

\* Every step keeps isRunning right (TriggerSync, runSync).
LEMMA RunnerRunsStep == TypeOK /\ RunnerRuns /\ [Next]_vars => RunnerRuns'
<1> SUFFICES ASSUME TypeOK, RunnerRuns, [Next]_vars PROVE RunnerRuns'
  OBVIOUS
<1>0. \A w \in Workers : work[w] \in Work
  BY DEF TypeOK
<1>1. ASSUME NEW t \in SyncTypes, TriggerSync(t) PROVE RunnerRuns'
  <2>1. work'["runner"] = [Resting EXCEPT !.pc = "list", !.type = t]
    BY <1>1 DEF TriggerSync, TypeOK, Workers
  <2>2. work'["runner"].pc = "list"
    BY <2>1 DEF Resting
  <2>3. QED BY <1>1, <2>2 DEF TriggerSync, RunnerRuns
<1>2. ASSUME NEW w \in Workers, ListFunds(w) PROVE RunnerRuns'
  <2>1. CASE Goto(w, "next")
    BY <1>2, <2>1, GotoRunsOn DEF ListFunds, At
  <2>2. CASE ~Goto(w, "next")
    <3> DEFINE r == [work[w] EXCEPT !.pc = "next", !.todo = Funds \X {work[w].type}]
    <3>1. work' = [work EXCEPT ![w] = r] /\ r.pc = "next"
      BY <1>0, <1>2, <2>2 DEF ListFunds, Work
    <3> HIDE DEF r
    <3>2. QED BY <1>2, <3>1, RunsOn DEF ListFunds, At
  <2>3. QED BY <2>1, <2>2
<1>3. ASSUME NEW w \in Workers, NextFund(w) PROVE RunnerRuns'
  <2>1. PICK k \in work[w].todo :
          work' = [work EXCEPT ![w] =
            [Resting EXCEPT !.pc = "read", !.key = k, !.type = work[w].type,
                            !.todo = Without(work[w].todo, k)]]
    BY <1>3 DEF NextFund
  <2> DEFINE r == [Resting EXCEPT !.pc = "read", !.key = k, !.type = work[w].type,
                                  !.todo = Without(work[w].todo, k)]
  <2>2. work' = [work EXCEPT ![w] = r] /\ r.pc = "read"
    BY <2>1 DEF Resting
  <2> HIDE DEF r
  <2>3. QED BY <1>3, <2>2, RunsOn DEF NextFund, At
<1>4. ASSUME NEW w \in Workers, GetSyncState(w) PROVE RunnerRuns'
  <2>1. CASE Return(w)
    BY <1>4, <2>1, ReturnRunsOn DEF GetSyncState, At
  <2>2. CASE ~Return(w)
    <3> DEFINE r == [work[w] EXCEPT !.seen = MyRow(w),
                       !.pc = IF MyRow(w).status = "none" THEN "create" ELSE "mark"]
    <3>1. work' = [work EXCEPT ![w] = r] /\ r.pc # "idle"
      BY <1>0, <1>4, <2>2 DEF GetSyncState, Work
    <3> HIDE DEF r
    <3>2. QED BY <1>4, <3>1, RunsOn DEF GetSyncState, At
  <2>3. QED BY <2>1, <2>2
<1>5. ASSUME NEW w \in Workers, CreateSyncState(w) PROVE RunnerRuns'
  <2>1. CASE Return(w)
    BY <1>5, <2>1, ReturnRunsOn DEF CreateSyncState, At
  <2>2. CASE ~Return(w)
    <3> DEFINE r == [work[w] EXCEPT !.seen = NewRow, !.pc = "mark"]
    <3>1. work' = [work EXCEPT ![w] = r] /\ r.pc = "mark"
      BY <1>0, <1>5, <2>2 DEF CreateSyncState, Work
    <3> HIDE DEF r
    <3>2. QED BY <1>5, <3>1, RunsOn DEF CreateSyncState, At
  <2>3. QED BY <2>1, <2>2
<1>6. ASSUME NEW w \in Workers, Fetch(w) PROVE RunnerRuns'
  <2>1. CASE Goto(w, "nothing")
    BY <1>6, <2>1, GotoRunsOn DEF Fetch, At
  <2>2. CASE ~Goto(w, "nothing")
    <3> DEFINE new == Wanted(MyKey(w)[2], work[w].seen)
    <3>1. PICK d \in new : work' = [work EXCEPT ![w] =
                             [@ EXCEPT !.left = new, !.latest = d, !.pc = "insert"]]
      BY <1>6, <2>2 DEF Fetch
    <3> HIDE DEF new
    <3> DEFINE r == [work[w] EXCEPT !.left = new, !.latest = d, !.pc = "insert"]
    <3>2. work' = [work EXCEPT ![w] = r] /\ r.pc = "insert"
      BY <1>0, <3>1 DEF Work
    <3> HIDE DEF r
    <3>3. QED BY <1>6, <3>2, RunsOn DEF Fetch, At
  <2>3. QED BY <2>1, <2>2
<1>7. ASSUME NEW w \in Workers, MarkSyncInProgress(w) \/ FetchFails(w) \/ AllInserted(w)
                                 \/ BatchFails(w)
      PROVE  RunnerRuns'
  BY <1>7, GotoRunsOn, ReturnRunsOn
  DEF MarkSyncInProgress, FetchFails, AllInserted, BatchFails, AfterFailedFetch,
      AfterFailedBatch, At
<1>8. ASSUME NEW w \in Workers, MarkSyncFailed(w) \/ NothingNew(w) \/ UpdateResumePointer(w)
                                 \/ MarkSyncCompleted(w)
      PROVE  RunnerRuns'
  BY <1>8, ReturnRunsOn
  DEF MarkSyncFailed, NothingNew, UpdateResumePointer, MarkSyncCompleted, At
<1>9. ASSUME NEW w \in Workers, InsertBatch(w) PROVE RunnerRuns'
  <2>1. PICK b \in Batches(w) :
          work' = [work EXCEPT ![w] = [@ EXCEPT
            !.left = work[w].left \ b,
            !.index = work[w].index + Cardinality(b),
            !.inserted = work[w].inserted + Cardinality(b \ MyNav(w))]]
    BY <1>9 DEF InsertBatch
  <2> DEFINE r == [work[w] EXCEPT
            !.left = work[w].left \ b,
            !.index = work[w].index + Cardinality(b),
            !.inserted = work[w].inserted + Cardinality(b \ MyNav(w))]
  <2>2. work' = [work EXCEPT ![w] = r] /\ r.pc = work[w].pc
    BY <1>0, <2>1 DEF Work
  <2> HIDE DEF r
  <2>3. QED BY <1>9, <2>2, RunsOn DEF InsertBatch, At
<1>10. ASSUME NEW w \in Workers, GetNAVCount(w) PROVE RunnerRuns'
  <2>1. PICK n : work' = [work EXCEPT ![w] = [@ EXCEPT !.pc = "complete", !.total = n]]
    BY <1>10 DEF GetNAVCount
  <2> DEFINE r == [work[w] EXCEPT !.pc = "complete", !.total = n]
  <2>2. work' = [work EXCEPT ![w] = r] /\ r.pc = "complete"
    BY <1>0, <2>1 DEF Work
  <2> HIDE DEF r
  <2>3. QED BY <1>10, <2>2, RunsOn DEF GetNAVCount, At
<1>11. ASSUME NEW w \in Workers, Finish(w) PROVE RunnerRuns'
  <2>1. work' = [work EXCEPT ![w] = Resting] /\ Resting.pc = "idle"
    BY <1>11 DEF Finish, Resting
  <2>2. QED BY <1>11, <2>1 DEF Finish, RunningAfter, At, TypeOK, RunnerRuns, Workers
<1>12. CASE ResumePausedSyncs
  BY <1>12 DEF ResumePausedSyncs, TypeOK, RunnerRuns, Workers
<1>13. CASE StopSync
  BY <1>0, <1>13 DEF StopSync, TypeOK, RunnerRuns, Work, Workers
<1>14. CASE Crash
  BY <1>14 DEF Crash, RunnerRuns, Resting, Workers
<1>15. CASE Publish \/ UNCHANGED vars
  BY <1>15 DEF Publish, vars, RunnerRuns
<1>16. QED
  BY <1>1, <1>2, <1>3, <1>4, <1>5, <1>6, <1>7, <1>8, <1>9, <1>10, <1>11, <1>12, <1>13,
     <1>14, <1>15
  DEF Next, Worker, SyncFund

\* isRunning is true exactly while the goroutine of TriggerSync works, whatever
\* failed and whoever resumed beside it (TriggerSync, runSync).
THEOREM Running == Spec => []RunnerRuns
<1>1. Init => RunnerRuns
  BY DEF Init, RunnerRuns, Resting, Workers
<1>2. QED BY <1>1, RunnerRunsStep, TypeCorrect, PTL DEF Spec

-----------------------------------------------------------------------------
(* Rows in progress *)

\* As long as nothing went wrong no context is cancelled, and every row in
\* progress is held by a worker.
Attended ==
  mishaps = 0 =>
    /\ \A w \in Workers : ~work[w].cancelled
    /\ \A k \in Key : rows[k].status = "in_progress" => Held(k)

\* A worker's step leaves no row behind if the rows in progress are those that
\* were, or the one it now holds, and if it lets go of its row only when that
\* is no longer in progress.
LEMMA AttendedStays ==
  ASSUME TypeOK, Attended, mishaps = 0, NEW w \in Workers, NEW r,
         work' = [work EXCEPT ![w] = r], ~r.cancelled,
         \A k \in Key : rows'[k].status = "in_progress" =>
           rows[k].status = "in_progress" \/ (r.pc \in Holding /\ r.key = k),
         work[w].pc \in Holding =>
           \/ r.pc \in Holding /\ r.key = MyKey(w)
           \/ rows'[MyKey(w)].status # "in_progress"
  PROVE  Attended'
<1>1. work'[w] = r /\ \A v \in Workers : v # w => work'[v] = work[v]
  BY DEF TypeOK
<1>2. ASSUME NEW k \in Key, rows'[k].status = "in_progress" PROVE Held(k)'
  <2>1. CASE r.pc \in Holding /\ r.key = k
    BY <1>1, <2>1 DEF Held, MyKey
  <2>2. CASE rows[k].status = "in_progress" /\ ~(r.pc \in Holding /\ r.key = k)
    <3>1. PICK v \in Workers : work[v].pc \in Holding /\ MyKey(v) = k
      BY <2>2 DEF Attended, Held
    <3>2. v # w
      BY <1>2, <2>2, <3>1
    <3>3. QED BY <1>1, <3>1, <3>2 DEF Held, MyKey
  <2>3. QED BY <1>2, <2>1, <2>2
<1>3. \A v \in Workers : ~work'[v].cancelled
  BY <1>1 DEF Attended
<1>4. QED BY <1>2, <1>3 DEF Attended

\* A worker that returns to its loop does so from a row that it has marked, or
\* that it did not hold.
LEMMA ReturnAttended ==
  ASSUME TypeOK, Attended, mishaps = 0, NEW w \in Workers, Return(w),
         \A k \in Key : rows'[k].status = "in_progress" => rows[k].status = "in_progress",
         work[w].pc \in Holding => rows'[MyKey(w)].status # "in_progress"
  PROVE  Attended'
<1> DEFINE r == [Resting EXCEPT !.pc = "next", !.type = work[w].type,
                   !.todo = work[w].todo, !.cancelled = work[w].cancelled]
<1>1. work' = [work EXCEPT ![w] = r] /\ ~r.cancelled
  BY DEF Return, Attended, Resting
<1> HIDE DEF r
<1>2. QED BY <1>1, AttendedStays

\* A step of the worker that goes on with its row.
LEMMA GoesOnAttended ==
  ASSUME TypeOK, Attended, mishaps = 0, NEW w \in Workers, NEW r,
         work' = [work EXCEPT ![w] = r], ~r.cancelled, UNCHANGED rows,
         work[w].pc \in Holding => r.pc \in Holding /\ r.key = MyKey(w)
  PROVE  Attended'
BY AttendedStays

\* The row written keeps its key, and all others stay.
LEMMA Written ==
  ASSUME TypeOK, NEW w \in Workers, NEW r, Write(w, r)
  PROVE  /\ rows'[MyKey(w)] = r
         /\ \A k \in Key : k # MyKey(w) => rows'[k] = rows[k]
BY MyRowTyped DEF Write, TypeOK

\* A row that is written with another status and let go.
LEMMA WrittenAttended ==
  ASSUME TypeOK, Attended, mishaps = 0, NEW w \in Workers, NEW r, Write(w, r),
         r.status # "in_progress", Return(w)
  PROVE  Attended'
BY Written, ReturnAttended

\* Every step keeps the rows in progress attended (the statements of syncFund
\* and insertNAVWithResumability, in any interleaving).
LEMMA AttendedStep == TypeOK /\ RunnerRuns /\ Attended /\ [Next]_vars => Attended'
<1> SUFFICES ASSUME TypeOK, RunnerRuns, Attended, [Next]_vars, mishaps' = 0 PROVE Attended'
  BY DEF Attended
<1>0. mishaps \in Nat
  BY BoundsAssumption DEF TypeOK
<1>1. \A m : ~Befalls(m)
  BY <1>0 DEF Befalls
<1>2. CASE UNCHANGED vars
  BY <1>2 DEF vars, Attended, Held, MyKey
<1>3. CASE mishaps = 0 /\ ~UNCHANGED vars
  <2> USE <1>3
  <2>1. \A w \in Workers : ~work[w].cancelled /\ ~Fails(w)
    BY <1>1 DEF Attended, Fails
  <2>2. \A w \in Workers : work[w] \in Work /\ MyKey(w) \in Key /\ MyRow(w) \in Row
    BY MyRowTyped DEF TypeOK
  <2>3. ASSUME NEW t \in SyncTypes, TriggerSync(t) PROVE Attended'
    <3> DEFINE r == [Resting EXCEPT !.pc = "list", !.type = t]
    <3>1. UNCHANGED rows /\ work' = [work EXCEPT !["runner"] = r] /\ ~r.cancelled
      BY <2>3 DEF TriggerSync, Resting
    <3> HIDE DEF r
    <3>2. work["runner"].pc = "idle" /\ "runner" \in Workers
      BY <2>3 DEF TriggerSync, RunnerRuns, Workers
    <3>3. QED BY <3>1, <3>2, GoesOnAttended DEF Holding
  <2>4. ASSUME NEW w \in Workers, ListFunds(w) PROVE Attended'
    <3> DEFINE r == [work[w] EXCEPT !.pc = "next", !.todo = Funds \X {work[w].type}]
    <3>1. At(w, "list") /\ UNCHANGED rows /\ work' = [work EXCEPT ![w] = r]
      BY <2>1, <2>4 DEF ListFunds
    <3>2. ~r.cancelled
      BY <2>1, <2>2 DEF Work
    <3> HIDE DEF r
    <3>3. QED BY <3>1, <3>2, GoesOnAttended DEF At, Holding
  <2>5. ASSUME NEW w \in Workers, NextFund(w) PROVE Attended'
    <3>1. At(w, "next") /\ UNCHANGED rows
      BY <2>5 DEF NextFund
    <3>2. PICK k \in work[w].todo :
            work' = [work EXCEPT ![w] =
              [Resting EXCEPT !.pc = "read", !.key = k, !.type = work[w].type,
                              !.todo = Without(work[w].todo, k)]]
      BY <2>5 DEF NextFund
    <3> DEFINE r == [Resting EXCEPT !.pc = "read", !.key = k, !.type = work[w].type,
                                    !.todo = Without(work[w].todo, k)]
    <3>3. work' = [work EXCEPT ![w] = r] /\ ~r.cancelled
      BY <3>2 DEF Resting
    <3> HIDE DEF r
    <3>4. QED BY <3>1, <3>3, GoesOnAttended DEF At, Holding
  <2>6. ASSUME NEW w \in Workers, GetSyncState(w) PROVE Attended'
    <3>1. At(w, "read") /\ UNCHANGED rows
      BY <2>6 DEF GetSyncState
    <3>2. CASE Return(w)
      BY <3>1, <3>2, ReturnAttended DEF At, Holding
    <3>3. CASE ~Return(w)
      <4> DEFINE r == [work[w] EXCEPT !.seen = MyRow(w),
                         !.pc = IF MyRow(w).status = "none" THEN "create" ELSE "mark"]
      <4>1. work' = [work EXCEPT ![w] = r]
        BY <2>6, <3>3 DEF GetSyncState
      <4>2. ~r.cancelled
        BY <2>1, <2>2 DEF Work
      <4> HIDE DEF r
      <4>3. QED BY <3>1, <4>1, <4>2, GoesOnAttended DEF At, Holding
    <3>4. QED BY <3>2, <3>3
  <2>7. ASSUME NEW w \in Workers, CreateSyncState(w) PROVE Attended'
    <3> DEFINE r == [work[w] EXCEPT !.seen = NewRow, !.pc = "mark"]
    <3>1. At(w, "create") /\ Write(w, NewRow) /\ work' = [work EXCEPT ![w] = r]
      BY <2>1, <2>7 DEF CreateSyncState
    <3>2. ~r.cancelled
      BY <2>1, <2>2 DEF Work
    <3> HIDE DEF r
    <3>3. NewRow.status = "pending"
      BY DEF NewRow, NoRow
    <3>4. \A k \in Key : rows'[k].status = "in_progress" => rows[k].status = "in_progress"
      BY <3>1, <3>3, Written
    <3>5. QED BY <3>1, <3>2, <3>4, AttendedStays DEF At, Holding
  <2>8. ASSUME NEW w \in Workers, MarkSyncInProgress(w) PROVE Attended'
    <3> DEFINE r == [work[w] EXCEPT !.pc = "fetch"]
    <3>1. /\ At(w, "mark") /\ Write(w, [MyRow(w) EXCEPT !.status = "in_progress"])
          /\ work' = [work EXCEPT ![w] = r]
      BY <2>1, <2>8 DEF MarkSyncInProgress, Goto
    <3>2. ~r.cancelled /\ r.pc = "fetch" /\ r.key = MyKey(w)
      BY <2>1, <2>2 DEF Work, MyKey
    <3> HIDE DEF r
    <3>3. r.pc \in Holding /\ \A k \in Key : k # MyKey(w) => rows'[k] = rows[k]
      BY <3>1, <3>2, Written DEF Holding
    <3>4. QED BY <3>1, <3>2, <3>3, AttendedStays
  <2>9. ASSUME NEW w \in Workers, NEW pc \in Holding, Goto(w, pc), UNCHANGED rows
         PROVE  Attended'
    <3> DEFINE r == [work[w] EXCEPT !.pc = pc]
    <3>1. work' = [work EXCEPT ![w] = r]
      BY <2>9 DEF Goto
    <3>2. ~r.cancelled /\ r.key = MyKey(w) /\ r.pc \in Holding
      BY <2>1, <2>2 DEF Work, MyKey
    <3> HIDE DEF r
    <3>3. QED BY <2>9, <3>1, <3>2, GoesOnAttended
  <2>10. ASSUME NEW w \in Workers, Fetch(w) PROVE Attended'
    <3>1. At(w, "fetch") /\ UNCHANGED rows
      BY <2>10 DEF Fetch
    <3>2. CASE Goto(w, "nothing")
      BY <2>9, <3>1, <3>2 DEF Holding
    <3>3. CASE ~Goto(w, "nothing")
      <4> DEFINE new == Wanted(MyKey(w)[2], work[w].seen)
      <4>1. PICK d \in new : work' = [work EXCEPT ![w] =
                               [@ EXCEPT !.left = new, !.latest = d, !.pc = "insert"]]
        BY <2>10, <3>3 DEF Fetch
      <4> HIDE DEF new
      <4> DEFINE r == [work[w] EXCEPT !.left = new, !.latest = d, !.pc = "insert"]
      <4>2. work' = [work EXCEPT ![w] = r]
        BY <4>1
      <4>3. ~r.cancelled /\ r.key = MyKey(w) /\ r.pc \in Holding
        BY <2>1, <2>2 DEF Work, MyKey, Holding
      <4> HIDE DEF r
      <4>4. QED BY <3>1, <4>2, <4>3, GoesOnAttended
    <3>4. QED BY <3>2, <3>3
  <2>11. ASSUME NEW w \in Workers, FetchFails(w) \/ AllInserted(w) \/ BatchFails(w)
         PROVE  Attended'
    BY <2>9, <2>11
    DEF FetchFails, AllInserted, BatchFails, AfterFailedFetch, AfterFailedBatch, Holding
  <2>12. ASSUME NEW w \in Workers, MarkSyncFailed(w) PROVE Attended'
    <3> DEFINE r == [MyRow(w) EXCEPT !.status = "failed", !.retries = @ + 1, !.delayed = TRUE]
    <3>1. Write(w, r) /\ Return(w)
      BY <2>1, <2>12 DEF MarkSyncFailed
    <3>2. r.status # "in_progress"
      BY <2>2 DEF Row
    <3> HIDE DEF r
    <3>3. QED BY <3>1, <3>2, WrittenAttended
  <2>13. ASSUME NEW w \in Workers, NEW total, NEW d, Write(w, Completed(MyRow(w), total, d)),
                Return(w)
         PROVE  Attended'
    <3>1. Completed(MyRow(w), total, d).status # "in_progress"
      BY <2>2 DEF Completed, Row
    <3>2. QED BY <2>13, <3>1, WrittenAttended
  <2>14. ASSUME NEW w \in Workers, NothingNew(w) \/ MarkSyncCompleted(w) PROVE Attended'
    BY <2>1, <2>13, <2>14 DEF NothingNew, MarkSyncCompleted
  <2>15. ASSUME NEW w \in Workers, InsertBatch(w) PROVE Attended'
    <3>1. At(w, "insert") /\ UNCHANGED rows
      BY <2>15 DEF InsertBatch
    <3>2. PICK b \in Batches(w) :
            work' = [work EXCEPT ![w] = [@ EXCEPT
              !.left = work[w].left \ b,
              !.index = work[w].index + Cardinality(b),
              !.inserted = work[w].inserted + Cardinality(b \ MyNav(w))]]
      BY <2>15 DEF InsertBatch
    <3> DEFINE r == [work[w] EXCEPT
              !.left = work[w].left \ b,
              !.index = work[w].index + Cardinality(b),
              !.inserted = work[w].inserted + Cardinality(b \ MyNav(w))]
    <3>3. work' = [work EXCEPT ![w] = r]
      BY <3>2
    <3>4. ~r.cancelled /\ r.key = MyKey(w) /\ r.pc \in Holding
      BY <2>1, <2>2, <3>1 DEF Work, MyKey, At, Holding
    <3> HIDE DEF r
    <3>5. QED BY <3>1, <3>3, <3>4, GoesOnAttended
  <2>16. ASSUME NEW w \in Workers, UpdateResumePointer(w) PROVE Attended'
    <3> DEFINE r == [MyRow(w) EXCEPT !.status = "paused", !.pointer = work[w].index]
    <3>1. Write(w, r) /\ Return(w)
      BY <2>1, <2>16 DEF UpdateResumePointer
    <3>2. r.status # "in_progress"
      BY <2>2 DEF Row
    <3> HIDE DEF r
    <3>3. QED BY <3>1, <3>2, WrittenAttended
  <2>17. ASSUME NEW w \in Workers, GetNAVCount(w) PROVE Attended'
    <3> DEFINE r == [work[w] EXCEPT !.pc = "complete", !.total = Counted(w)]
    <3>1. UNCHANGED rows /\ work' = [work EXCEPT ![w] = r]
      BY <2>1, <2>17 DEF GetNAVCount
    <3>2. ~r.cancelled /\ r.key = MyKey(w) /\ r.pc \in Holding
      BY <2>1, <2>2 DEF Work, MyKey, Holding
    <3> HIDE DEF r
    <3>3. QED BY <3>1, <3>2, GoesOnAttended
  <2>18. ASSUME NEW w \in Workers, Finish(w) PROVE Attended'
    <3>1. At(w, "next") /\ UNCHANGED rows /\ work' = [work EXCEPT ![w] = Resting]
      BY <2>18 DEF Finish
    <3>2. ~Resting.cancelled
      BY DEF Resting
    <3>3. QED BY <3>1, <3>2, GoesOnAttended DEF At, Holding
  <2>19. CASE ResumePausedSyncs
    <3>1. PICK todo : work' = [work EXCEPT !["resumer"] =
                                [Resting EXCEPT !.pc = "next", !.todo = todo]]
      BY <2>19 DEF ResumePausedSyncs
    <3> DEFINE r == [Resting EXCEPT !.pc = "next", !.todo = todo]
    <3>2. work' = [work EXCEPT !["resumer"] = r] /\ ~r.cancelled
      BY <3>1 DEF Resting
    <3> HIDE DEF r
    <3>3. UNCHANGED rows /\ work["resumer"].pc = "idle" /\ "resumer" \in Workers
      BY <2>19 DEF ResumePausedSyncs, At, Workers
    <3>4. QED BY <3>2, <3>3, GoesOnAttended DEF Holding
  <2>20. CASE Publish
    BY <2>20 DEF Publish, Attended, Held, MyKey
  <2>21. ~StopSync /\ ~Crash
    BY <1>1 DEF StopSync, Crash
  <2>22. QED
    BY <2>3, <2>4, <2>5, <2>6, <2>7, <2>8, <2>10, <2>11, <2>12, <2>14, <2>15, <2>16, <2>17,
       <2>18, <2>19, <2>20, <2>21
    DEF Next, Worker, SyncFund
<1>4. mishaps = 0
  <2>1. CASE \E w \in Workers : Succeeds(w) \/ Fails(w)
    BY <1>1, <2>1 DEF Succeeds, Fails, counts
  <2>2. QED
    BY <1>1, <1>2, <2>1 DEF Next, Worker, SyncFund, counts, TriggerSync, ListFunds, NextFund,
      Finish, ResumePausedSyncs, StopSync, GetSyncState, CreateSyncState, MarkSyncInProgress,
      Fetch, FetchFails, MarkSyncFailed, NothingNew, InsertBatch, AllInserted, BatchFails,
      UpdateResumePointer, GetNAVCount, MarkSyncCompleted, Publish, Crash, vars
<1>5. QED BY <1>2, <1>3, <1>4

\* A row is left in progress only after a failing statement, a restart or a
\* stop (syncFund).
THEOREM NoOrphans == Spec => []OrphanOnlyByFault
<1>1. Init => Attended
  BY DEF Init, Attended, Resting, NoRow
<1>2. TypeOK /\ RunnerRuns /\ Attended /\ [Next]_vars => Attended'
  BY AttendedStep
<1>3. Attended => OrphanOnlyByFault
  BY DEF Attended, OrphanOnlyByFault
<1>4. QED BY <1>1, <1>2, <1>3, TypeCorrect, Running, PTL DEF Spec

-----------------------------------------------------------------------------
(* Totals *)

\* The NAVs stored for the fund of key k, and how many.
Size(n, k) == Cardinality(n[k[1]])

\* The totals a worker with the local state r may write are stored in the table
\* n; what it inserted is there, and is not among what it still holds.
Sums(r, n) ==
  /\ r.seen.total <= Size(n, r.key)
  /\ r.total <= Size(n, r.key)
  /\ r.inserted <= Cardinality(n[r.key[1]] \ r.left)
  /\ r.pc \in {"read", "create", "mark", "fetch"} => r.inserted = 0

\* The inductive invariant.
Totals ==
  /\ \A k \in Key : rows[k].total <= Size(nav, k)
  /\ \A w \in Workers : Sums(work[w], nav)

\* Sets of dates are finite.
LEMMA DatesFinite ==
  ASSUME NEW S \in SUBSET Date
  PROVE  IsFiniteSet(S) /\ Cardinality(S) \in Nat
<1>1. IsFiniteSet(Date)
  BY DataAssumption, FS_Interval DEF Date
<1>2. QED BY <1>1, FS_Subset, FS_CardinalityType

\* A larger set of dates has no fewer of them.
LEMMA MoreDates ==
  ASSUME NEW S \in SUBSET Date, NEW T \in SUBSET Date, S \subseteq T
  PROVE  Cardinality(S) <= Cardinality(T)
BY DatesFinite, FS_Subset

\* A table that only gains NAVs keeps the sums.
LEMMA SumsStay ==
  ASSUME NEW n \in [Funds -> SUBSET Date], NEW m \in [Funds -> SUBSET Date],
         \A f \in Funds : n[f] \subseteq m[f],
         NEW r \in Work, Sums(r, n)
  PROVE  Sums(r, m)
<1>1. r.key[1] \in Funds /\ r.left \in SUBSET Date
  BY DEF Work, Key
<1> DEFINE a == n[r.key[1]]
           b == m[r.key[1]]
<1>2. a \in SUBSET Date /\ b \in SUBSET Date /\ a \subseteq b
  BY <1>1
<1> HIDE DEF a, b
<1>3. Cardinality(a) <= Cardinality(b) /\ Cardinality(a \ r.left) <= Cardinality(b \ r.left)
  BY <1>2, MoreDates
<1>4. /\ Cardinality(a) \in Nat /\ Cardinality(b) \in Nat
      /\ Cardinality(a \ r.left) \in Nat /\ Cardinality(b \ r.left) \in Nat
  BY <1>2, DatesFinite
<1>5. r.seen.total \in Nat /\ r.total \in Nat /\ r.inserted \in Nat
  BY DEF Work, Row
<1>6. Size(n, r.key) = Cardinality(a) /\ Size(m, r.key) = Cardinality(b)
  BY DEF Size, a, b
<1>7. QED BY <1>3, <1>4, <1>5, <1>6 DEF Sums, a, b

\* A worker that has counted nothing yet.
LEMMA RestSums ==
  ASSUME TypeOK, NEW r \in Work, r.seen.total = 0, r.total = 0, r.inserted = 0
  PROVE  Sums(r, nav)
<1>1. nav[r.key[1]] \in SUBSET Date
  BY DEF TypeOK, Work, Key
<1>2. Size(nav, r.key) \in Nat /\ Cardinality(nav[r.key[1]] \ r.left) \in Nat
  BY <1>1, DatesFinite DEF Size
<1>3. QED BY <1>2 DEF Sums

\* A worker whose new sums are right leaves all of them right.
LEMMA OneSums ==
  ASSUME TypeOK, Totals, NEW w \in Workers, NEW r, Sums(r, nav),
         work' = [work EXCEPT ![w] = r], UNCHANGED nav
  PROVE  \A v \in Workers : Sums(work'[v], nav')
BY DEF TypeOK, Totals

\* A worker that changes the step alone keeps its sums.
LEMMA GotoSums ==
  ASSUME TypeOK, Totals, NEW w \in Workers, NEW pc, Goto(w, pc), UNCHANGED nav,
         pc \in {"read", "create", "mark", "fetch"} => work[w].pc = "mark"
  PROVE  \A v \in Workers : Sums(work'[v], nav')
<1> DEFINE r == [work[w] EXCEPT !.pc = pc]
<1>1. work[w] \in Work /\ Sums(work[w], nav)
  BY DEF TypeOK, Totals
<1>2. /\ r.seen = work[w].seen /\ r.total = work[w].total /\ r.inserted = work[w].inserted
      /\ r.key = work[w].key /\ r.left = work[w].left /\ r.pc = pc
  BY <1>1 DEF Work
<1>3. work' = [work EXCEPT ![w] = r]
  BY DEF Goto
<1> HIDE DEF r
<1>4. Sums(r, nav)
  BY <1>1, <1>2 DEF Sums
<1>5. QED BY <1>3, <1>4, OneSums

\* A worker that returns to its loop forgets its sums.
LEMMA ReturnSums ==
  ASSUME TypeOK, Totals, NEW w \in Workers, Return(w), UNCHANGED nav
  PROVE  \A v \in Workers : Sums(work'[v], nav')
<1> DEFINE r == [Resting EXCEPT !.pc = "next", !.type = work[w].type,
                   !.todo = work[w].todo, !.cancelled = work[w].cancelled]
<1>1. r \in Work
  BY RestingTyped DEF TypeOK, Work, Step
<1>2. r.seen.total = 0 /\ r.total = 0 /\ r.inserted = 0
  BY DEF Resting, NoRow
<1>3. work' = [work EXCEPT ![w] = r]
  BY DEF Return
<1> HIDE DEF r
<1>4. QED BY <1>1, <1>2, <1>3, RestSums, OneSums

\* A row written with a total that is stored keeps the totals of the rows.
LEMMA WriteTotals ==
  ASSUME TypeOK, Totals, NEW w \in Workers, NEW r, r.total <= Size(nav, MyKey(w)),
         Write(w, r), UNCHANGED nav
  PROVE  \A k \in Key : rows'[k].total <= Size(nav', k)
BY Written DEF Totals

\* Writing back the row with other fields changed keeps its total.
LEMMA SameTotal ==
  ASSUME TypeOK, Totals, NEW w \in Workers, NEW r, r.total = MyRow(w).total,
         Write(w, r), UNCHANGED nav
  PROVE  \A k \in Key : rows'[k].total <= Size(nav', k)
<1>1. r.total <= Size(nav, MyKey(w))
  BY MyRowTyped DEF Totals, MyRow
<1>2. QED BY <1>1, WriteTotals

\* The date sets of a batch: what is newly stored adds up.
LEMMA BatchSums ==
  ASSUME NEW stored \in SUBSET Date, NEW left \in SUBSET Date, NEW b \in SUBSET left,
         NEW inserted \in Nat, inserted <= Cardinality(stored \ left)
  PROVE  inserted + Cardinality(b \ stored) <= Cardinality((stored \union b) \ (left \ b))
<1>1. (stored \ left) \cap (b \ stored) = {}
  OBVIOUS
<1>2. (stored \ left) \union (b \ stored) \subseteq (stored \union b) \ (left \ b)
  OBVIOUS
<1>3. /\ stored \ left \in SUBSET Date /\ b \ stored \in SUBSET Date
      /\ (stored \ left) \union (b \ stored) \in SUBSET Date
      /\ (stored \union b) \ (left \ b) \in SUBSET Date
  OBVIOUS
<1>4. Cardinality((stored \ left) \union (b \ stored)) =
        Cardinality(stored \ left) + Cardinality(b \ stored)
  <2>1. IsFiniteSet(stored \ left) /\ IsFiniteSet(b \ stored)
    BY <1>3, DatesFinite
  <2>2. Cardinality((stored \ left) \cap (b \ stored)) = 0
    BY <1>1, FS_EmptySet
  <2>3. Cardinality((stored \ left) \union (b \ stored)) =
          Cardinality(stored \ left) + Cardinality(b \ stored)
            - Cardinality((stored \ left) \cap (b \ stored))
    BY <2>1, FS_Union
  <2>4. Cardinality(stored \ left) \in Nat /\ Cardinality(b \ stored) \in Nat
    BY <1>3, DatesFinite
  <2>5. QED BY <2>2, <2>3, <2>4
<1>5. Cardinality((stored \ left) \union (b \ stored))
        <= Cardinality((stored \union b) \ (left \ b))
  BY <1>2, <1>3, MoreDates
<1>6. /\ Cardinality(stored \ left) \in Nat /\ Cardinality(b \ stored) \in Nat
      /\ Cardinality((stored \union b) \ (left \ b)) \in Nat
  BY <1>3, DatesFinite
<1>7. QED BY <1>4, <1>5, <1>6

\* A batch keeps the totals and sums of all (InsertNAVBatch).
LEMMA InsertBatchTotals ==
  ASSUME TypeOK, Totals, NEW w \in Workers, InsertBatch(w), TypeOK'
  PROVE  Totals'
<1>1. PICK b \in Batches(w) :
        /\ nav' = [nav EXCEPT ![MyKey(w)[1]] = @ \union b]
        /\ work' = [work EXCEPT ![w] = [@ EXCEPT
             !.left = work[w].left \ b,
             !.index = work[w].index + Cardinality(b),
             !.inserted = work[w].inserted + Cardinality(b \ MyNav(w))]]
  BY DEF InsertBatch
<1>2. /\ At(w, "insert") /\ UNCHANGED rows /\ b \subseteq work[w].left
      /\ work[w] \in Work /\ Sums(work[w], nav) /\ MyKey(w) \in Key
  BY MyRowTyped DEF InsertBatch, Batches, TypeOK, Totals
<1>3. \A f \in Funds : nav[f] \subseteq nav'[f]
  BY <1>1 DEF TypeOK
<1>4. nav \in [Funds -> SUBSET Date] /\ nav' \in [Funds -> SUBSET Date]
  BY DEF TypeOK
<1>5. \A k \in Key : rows'[k].total <= Size(nav', k)
  <2> SUFFICES ASSUME NEW k \in Key PROVE rows[k].total <= Size(nav', k)
    BY <1>2
  <2> DEFINE a == nav[k[1]]
             c == nav'[k[1]]
  <2>1. a \in SUBSET Date /\ c \in SUBSET Date /\ a \subseteq c
    BY <1>3, <1>4 DEF Key
  <2> HIDE DEF a, c
  <2>2. Cardinality(a) <= Cardinality(c) /\ Cardinality(a) \in Nat /\ Cardinality(c) \in Nat
    BY <2>1, MoreDates, DatesFinite
  <2>3. rows[k].total \in Nat
    BY DEF TypeOK, Row
  <2>4. rows[k].total <= Cardinality(a)
    BY DEF Totals, Size, a
  <2>5. QED BY <2>2, <2>3, <2>4 DEF Size, c
<1>6. ASSUME NEW v \in Workers, v # w PROVE Sums(work'[v], nav')
  BY <1>1, <1>3, <1>4, <1>6, SumsStay DEF Totals, TypeOK
<1>7. Sums(work'[w], nav')
  <2> DEFINE r == [work[w] EXCEPT
             !.left = work[w].left \ b,
             !.index = work[w].index + Cardinality(b),
             !.inserted = work[w].inserted + Cardinality(b \ MyNav(w))]
  <2>1. work'[w] = r
    BY <1>1 DEF TypeOK
  <2>2. /\ r.key = work[w].key /\ r.pc = "insert" /\ r.left = work[w].left \ b
        /\ r.seen = work[w].seen /\ r.total = work[w].total
        /\ r.inserted = work[w].inserted + Cardinality(b \ MyNav(w))
    BY <1>2 DEF Work, At
  <2> HIDE DEF r
  <2>3. nav'[MyKey(w)[1]] = MyNav(w) \union b
    BY <1>1, <1>2 DEF TypeOK, Key, MyNav
  <2>4. /\ MyNav(w) \in SUBSET Date /\ work[w].left \in SUBSET Date /\ work[w].inserted \in Nat
        /\ work[w].inserted <= Cardinality(MyNav(w) \ work[w].left)
    BY <1>2, MyRowTyped DEF Work, Sums, MyNav, MyKey
  <2>5. r.inserted <= Cardinality((MyNav(w) \union b) \ (work[w].left \ b))
    <3> DEFINE stored == MyNav(w)
               left   == work[w].left
               count  == work[w].inserted
    <3>1. /\ stored \in SUBSET Date /\ left \in SUBSET Date /\ b \in SUBSET left
          /\ count \in Nat /\ count <= Cardinality(stored \ left)
      BY <1>2, <2>4
    <3> HIDE DEF stored, left, count
    <3>2. count + Cardinality(b \ stored) <= Cardinality((stored \union b) \ (left \ b))
      BY <3>1, BatchSums
    <3>3. QED BY <2>2, <3>2 DEF stored, left, count
  <2>6. Sums(work[w], nav')
    BY <1>2, <1>3, <1>4, SumsStay
  <2>7. r.seen.total <= Size(nav', r.key) /\ r.total <= Size(nav', r.key)
    BY <2>2, <2>6 DEF Sums
  <2>8. QED BY <2>1, <2>2, <2>3, <2>5, <2>7 DEF Sums, MyKey
<1>8. QED BY <1>5, <1>6, <1>7 DEF Totals

\* Every step keeps the totals stored (the statements of syncFund and
\* insertNAVWithResumability, in any interleaving).
LEMMA TotalsStep == TypeOK /\ TypeOK' /\ Totals /\ [Next]_vars => Totals'
<1> SUFFICES ASSUME TypeOK, TypeOK', Totals, [Next]_vars PROVE Totals'
  OBVIOUS
<1> DEFINE RowsOK == \A k \in Key : rows'[k].total <= Size(nav', k)
           WorkOK == \A v \in Workers : Sums(work'[v], nav')
<1>0. \A w \in Workers : /\ work[w] \in Work /\ Sums(work[w], nav) /\ MyKey(w) \in Key
                         /\ MyRow(w) \in Row
  BY MyRowTyped DEF TypeOK, Totals
<1>1. ASSUME UNCHANGED <<rows, nav>> PROVE RowsOK
  BY <1>1 DEF Totals
<1>2. ASSUME NEW w \in Workers, NEW r \in Work, r.seen.total = 0, r.total = 0, r.inserted = 0,
             work' = [work EXCEPT ![w] = r], UNCHANGED nav
      PROVE  WorkOK
  BY <1>2, RestSums, OneSums
<1> HIDE DEF RowsOK, WorkOK
<1>3. ASSUME NEW t \in SyncTypes, TriggerSync(t) PROVE RowsOK /\ WorkOK
  <2> DEFINE r == [Resting EXCEPT !.pc = "list", !.type = t]
  <2>1. r \in Work /\ r.seen.total = 0 /\ r.total = 0 /\ r.inserted = 0
    BY RestingTyped DEF Work, Step, Resting, NoRow
  <2>2. work' = [work EXCEPT !["runner"] = r] /\ UNCHANGED <<rows, nav>> /\ "runner" \in Workers
    BY <1>3 DEF TriggerSync, Workers
  <2> HIDE DEF r
  <2>3. QED BY <1>1, <1>2, <2>1, <2>2
<1>4. ASSUME NEW w \in Workers, ListFunds(w) PROVE RowsOK /\ WorkOK
  <2>1. UNCHANGED <<rows, nav>>
    BY <1>4 DEF ListFunds
  <2>2. CASE Goto(w, "next")
    BY <1>1, <2>1, <2>2, GotoSums DEF WorkOK
  <2>3. CASE ~Goto(w, "next")
    <3> DEFINE all == Funds \X {work[w].type}
               r   == [work[w] EXCEPT !.pc = "next", !.todo = all]
    <3>1. work' = [work EXCEPT ![w] = r]
      BY <1>4, <2>3 DEF ListFunds
    <3> HIDE DEF all
    <3>2. /\ r.seen = work[w].seen /\ r.total = work[w].total /\ r.inserted = work[w].inserted
          /\ r.key = work[w].key /\ r.left = work[w].left /\ r.pc = "next"
      BY <1>0 DEF Work
    <3> HIDE DEF r
    <3>3. Sums(r, nav)
      BY <1>0, <3>2 DEF Sums
    <3>4. QED BY <1>1, <2>1, <3>1, <3>3, OneSums DEF WorkOK
  <2>4. QED BY <2>2, <2>3
<1>5. ASSUME NEW w \in Workers, NextFund(w) PROVE RowsOK /\ WorkOK
  <2>1. PICK k \in work[w].todo :
          work' = [work EXCEPT ![w] =
            [Resting EXCEPT !.pc = "read", !.key = k, !.type = work[w].type,
                            !.todo = Without(work[w].todo, k)]]
    BY <1>5 DEF NextFund
  <2> DEFINE less == Without(work[w].todo, k)
             r    == [Resting EXCEPT !.pc = "read", !.key = k, !.type = work[w].type,
                                     !.todo = less]
  <2>2. k \in Key /\ less \in SUBSET Key /\ work[w].type \in SyncTypes
    BY <1>0 DEF Without, Work
  <2>3. work' = [work EXCEPT ![w] = r]
    BY <2>1
  <2> HIDE DEF less
  <2>4. r \in Work /\ r.seen.total = 0 /\ r.total = 0 /\ r.inserted = 0
    BY <2>2, RestingTyped DEF Work, Step, Resting, NoRow
  <2> HIDE DEF r
  <2>5. UNCHANGED <<rows, nav>>
    BY <1>5 DEF NextFund
  <2>6. QED BY <1>1, <1>2, <2>3, <2>4, <2>5
<1>6. ASSUME NEW w \in Workers, NEW row \in Row, row.total <= Size(nav, MyKey(w)),
             At(w, "read") \/ At(w, "create"), NEW pc \in {"create", "mark"},
             work' = [work EXCEPT ![w] = [@ EXCEPT !.seen = row, !.pc = pc]], UNCHANGED nav
      PROVE  WorkOK
  <2> DEFINE r == [work[w] EXCEPT !.seen = row, !.pc = pc]
  <2>1. /\ r.seen = row /\ r.total = work[w].total /\ r.inserted = work[w].inserted
        /\ r.key = work[w].key /\ r.left = work[w].left /\ r.pc = pc
    BY <1>0 DEF Work
  <2>2. work' = [work EXCEPT ![w] = r]
    BY <1>6
  <2> HIDE DEF r
  <2>3. Sums(r, nav)
    BY <1>0, <1>6, <2>1 DEF Sums, At, MyKey
  <2>4. QED BY <1>6, <2>2, <2>3, OneSums DEF WorkOK
<1>7. ASSUME NEW w \in Workers, GetSyncState(w) PROVE RowsOK /\ WorkOK
  <2>1. UNCHANGED <<rows, nav>> /\ At(w, "read")
    BY <1>7 DEF GetSyncState
  <2>2. CASE Return(w)
    BY <1>1, <2>1, <2>2, ReturnSums DEF WorkOK
  <2>3. CASE ~Return(w)
    <3> DEFINE pc == IF MyRow(w).status = "none" THEN "create" ELSE "mark"
    <3>1. work' = [work EXCEPT ![w] = [@ EXCEPT !.seen = MyRow(w), !.pc = pc]]
      BY <1>7, <2>3 DEF GetSyncState
    <3>2. pc \in {"create", "mark"}
      OBVIOUS
    <3> HIDE DEF pc
    <3>3. MyRow(w) \in Row /\ MyRow(w).total <= Size(nav, MyKey(w))
      BY <1>0 DEF Totals, MyRow
    <3>4. QED BY <1>1, <1>6, <2>1, <3>1, <3>2, <3>3
  <2>4. QED BY <2>2, <2>3
<1>8. ASSUME NEW w \in Workers, Return(w), UNCHANGED <<rows, nav>> PROVE RowsOK /\ WorkOK
  BY <1>1, <1>8, ReturnSums DEF WorkOK
<1>9. ASSUME NEW w \in Workers, CreateSyncState(w) PROVE RowsOK /\ WorkOK
  <2>1. UNCHANGED nav /\ At(w, "create")
    BY <1>9 DEF CreateSyncState
  <2>2. CASE Write(w, NewRow) /\ work' = [work EXCEPT ![w] = [@ EXCEPT !.seen = NewRow, !.pc = "mark"]]
    <3>1. nav[MyKey(w)[1]] \in SUBSET Date
      BY <1>0 DEF TypeOK, Key
    <3>2. NewRow \in Row /\ NewRow.total <= Size(nav, MyKey(w))
      BY <3>1, RestingTyped, DatesFinite DEF Size, NewRow, NoRow
    <3>3. QED BY <1>6, <2>1, <2>2, <3>2, WriteTotals DEF RowsOK
  <2>3. QED BY <1>8, <1>9, <2>1, <2>2 DEF CreateSyncState
<1>10. ASSUME NEW w \in Workers, MarkSyncInProgress(w) PROVE RowsOK /\ WorkOK
  <2>1. UNCHANGED nav /\ At(w, "mark")
    BY <1>10 DEF MarkSyncInProgress
  <2>2. CASE Write(w, [MyRow(w) EXCEPT !.status = "in_progress"]) /\ Goto(w, "fetch")
    <3>1. [MyRow(w) EXCEPT !.status = "in_progress"].total = MyRow(w).total
      BY <1>0 DEF Row
    <3>2. RowsOK
      BY <2>1, <2>2, <3>1, SameTotal DEF RowsOK
    <3>3. QED BY <2>1, <2>2, <3>2, GotoSums DEF WorkOK, At
  <2>3. QED BY <1>8, <1>10, <2>1, <2>2 DEF MarkSyncInProgress
<1>11. ASSUME NEW w \in Workers, NEW pc, Goto(w, pc), UNCHANGED <<rows, nav>>,
              pc \notin {"read", "create", "mark", "fetch"}
       PROVE  RowsOK /\ WorkOK
  BY <1>1, <1>11, GotoSums DEF WorkOK
<1>12. ASSUME NEW w \in Workers, Fetch(w) PROVE RowsOK /\ WorkOK
  <2>1. UNCHANGED <<rows, nav>> /\ At(w, "fetch")
    BY <1>12 DEF Fetch
  <2>2. CASE Goto(w, "nothing")
    BY <1>11, <2>1, <2>2
  <2>3. CASE ~Goto(w, "nothing")
    <3> DEFINE new == Wanted(MyKey(w)[2], work[w].seen)
    <3>1. PICK d \in new : work' = [work EXCEPT ![w] =
                             [@ EXCEPT !.left = new, !.latest = d, !.pc = "insert"]]
      BY <1>12, <2>3 DEF Fetch
    <3> HIDE DEF new
    <3> DEFINE r == [work[w] EXCEPT !.left = new, !.latest = d, !.pc = "insert"]
    <3>2. work' = [work EXCEPT ![w] = r]
      BY <3>1
    <3>3. /\ r.seen = work[w].seen /\ r.total = work[w].total /\ r.inserted = work[w].inserted
          /\ r.key = work[w].key /\ r.left = new /\ r.pc = "insert"
      BY <1>0 DEF Work
    <3> HIDE DEF r
    <3>4. r.inserted = 0
      BY <1>0, <2>1, <3>3 DEF Sums, At
    <3>5. Cardinality(nav[r.key[1]] \ r.left) \in Nat
      <4>1. nav[r.key[1]] \in SUBSET Date
        BY <1>0, <3>3 DEF TypeOK, Work, Key
      <4>2. QED BY <4>1, DatesFinite
    <3>6. Sums(r, nav)
      <4>1. r.seen.total <= Size(nav, r.key) /\ r.total <= Size(nav, r.key)
        BY <1>0, <3>3 DEF Sums
      <4>2. r.inserted <= Cardinality(nav[r.key[1]] \ r.left)
        BY <3>4, <3>5
      <4>3. QED BY <3>4, <4>1, <4>2 DEF Sums
    <3>7. QED BY <1>1, <2>1, <3>2, <3>6, OneSums DEF WorkOK
  <2>4. QED BY <2>2, <2>3
<1>13. ASSUME NEW w \in Workers, FetchFails(w) \/ AllInserted(w) \/ BatchFails(w)
       PROVE  RowsOK /\ WorkOK
  BY <1>11, <1>13
  DEF FetchFails, AllInserted, BatchFails, AfterFailedFetch, AfterFailedBatch
<1>14. ASSUME NEW w \in Workers, NEW r, r.total = MyRow(w).total, Write(w, r), Return(w),
              UNCHANGED nav
       PROVE  RowsOK /\ WorkOK
  BY <1>14, SameTotal, ReturnSums DEF RowsOK, WorkOK
<1>15. ASSUME NEW w \in Workers, MarkSyncFailed(w) PROVE RowsOK /\ WorkOK
  <2> DEFINE r == [MyRow(w) EXCEPT !.status = "failed", !.retries = @ + 1, !.delayed = TRUE]
  <2>1. r.total = MyRow(w).total
    BY <1>0 DEF Row
  <2>2. (Write(w, r) \/ UNCHANGED rows) /\ Return(w) /\ UNCHANGED nav
    BY <1>15 DEF MarkSyncFailed
  <2> HIDE DEF r
  <2>3. QED BY <1>8, <1>14, <2>1, <2>2
<1>16. ASSUME NEW w \in Workers, UpdateResumePointer(w) PROVE RowsOK /\ WorkOK
  <2> DEFINE r == [MyRow(w) EXCEPT !.status = "paused", !.pointer = work[w].index]
  <2>1. r.total = MyRow(w).total
    BY <1>0 DEF Row
  <2>2. (Write(w, r) \/ UNCHANGED rows) /\ Return(w) /\ UNCHANGED nav
    BY <1>16 DEF UpdateResumePointer
  <2> HIDE DEF r
  <2>3. QED BY <1>8, <1>14, <2>1, <2>2
<1>17. ASSUME NEW w \in Workers, NEW total, total <= Size(nav, MyKey(w)), NEW d, UNCHANGED nav,
              Write(w, Completed(MyRow(w), total, d)) \/ UNCHANGED rows, Return(w)
       PROVE  RowsOK /\ WorkOK
  <2>1. Completed(MyRow(w), total, d).total = total
    BY <1>0 DEF Completed, Row
  <2>2. QED BY <1>8, <1>17, <2>1, WriteTotals, ReturnSums DEF RowsOK, WorkOK
<1>18. ASSUME NEW w \in Workers, NothingNew(w) \/ MarkSyncCompleted(w) PROVE RowsOK /\ WorkOK
  <2>1. work[w].seen.total <= Size(nav, MyKey(w)) /\ work[w].total <= Size(nav, MyKey(w))
    BY <1>0 DEF Sums, MyKey
  <2>2. CASE NothingNew(w)
    BY <1>17, <2>1, <2>2 DEF NothingNew
  <2>3. CASE MarkSyncCompleted(w)
    BY <1>17, <2>1, <2>3 DEF MarkSyncCompleted
  <2>4. QED BY <1>18, <2>2, <2>3
<1>19. ASSUME NEW w \in Workers, GetNAVCount(w) PROVE RowsOK /\ WorkOK
  <2>1. UNCHANGED <<rows, nav>> /\ At(w, "count")
    BY <1>19 DEF GetNAVCount
  <2>2. PICK n \in {Counted(w), work[w].inserted} :
          work' = [work EXCEPT ![w] = [@ EXCEPT !.pc = "complete", !.total = n]]
    BY <1>19 DEF GetNAVCount
  <2>3. n <= Size(nav, work[w].key)
    <3> DEFINE a == nav[work[w].key[1]]
               b == a \ work[w].left
    <3>1. a \in SUBSET Date
      BY <1>0 DEF TypeOK, Work, Key
    <3>2. work[w].inserted <= Cardinality(b) /\ work[w].inserted \in Nat
      BY <1>0 DEF Sums, Work
    <3>3. b \in SUBSET Date /\ b \subseteq a
      BY <3>1
    <3>4. Counted(w) = Cardinality(a)
      BY DEF Counted, MyNav, MyKey
    <3> HIDE DEF a, b
    <3>5. Cardinality(b) <= Cardinality(a) /\ Cardinality(a) \in Nat /\ Cardinality(b) \in Nat
      BY <3>1, <3>3, MoreDates, DatesFinite
    <3>6. n <= Cardinality(a)
      BY <2>2, <3>2, <3>4, <3>5
    <3>7. QED BY <3>6 DEF Size, a
  <2> DEFINE r == [work[w] EXCEPT !.pc = "complete", !.total = n]
  <2>4. /\ r.seen = work[w].seen /\ r.total = n /\ r.inserted = work[w].inserted
        /\ r.key = work[w].key /\ r.left = work[w].left /\ r.pc = "complete"
    BY <1>0 DEF Work
  <2>5. work' = [work EXCEPT ![w] = r]
    BY <2>2
  <2> HIDE DEF r
  <2>6. Sums(r, nav)
    BY <1>0, <2>3, <2>4 DEF Sums
  <2>7. QED BY <1>1, <2>1, <2>5, <2>6, OneSums DEF WorkOK
<1>20. Resting.seen.total = 0 /\ Resting.total = 0 /\ Resting.inserted = 0 /\ Resting \in Work
  BY RestingTyped DEF Resting, NoRow
<1>21. ASSUME NEW w \in Workers, Finish(w) PROVE RowsOK /\ WorkOK
  BY <1>1, <1>2, <1>20, <1>21 DEF Finish
<1>22. CASE ResumePausedSyncs
  <2>1. PICK todo : todo \in SUBSET Key /\
          work' = [work EXCEPT !["resumer"] = [Resting EXCEPT !.pc = "next", !.todo = todo]]
    BY <1>22 DEF ResumePausedSyncs
  <2> DEFINE r == [Resting EXCEPT !.pc = "next", !.todo = todo]
  <2>2. r \in Work /\ r.seen.total = 0 /\ r.total = 0 /\ r.inserted = 0
    BY <2>1, RestingTyped DEF Work, Step, Resting, NoRow
  <2>3. work' = [work EXCEPT !["resumer"] = r] /\ UNCHANGED <<rows, nav>> /\ "resumer" \in Workers
    BY <1>22, <2>1 DEF ResumePausedSyncs, Workers
  <2> HIDE DEF r
  <2>4. RowsOK /\ WorkOK
    BY <1>1, <1>2, <2>2, <2>3
  <2>5. QED BY <2>4 DEF RowsOK, WorkOK, Totals
<1>23. CASE StopSync
  <2> DEFINE r == [work["runner"] EXCEPT !.cancelled = TRUE]
  <2>1. work' = [work EXCEPT !["runner"] = r] /\ UNCHANGED <<rows, nav>> /\ "runner" \in Workers
    BY <1>23 DEF StopSync, Workers
  <2>2. /\ r.seen = work["runner"].seen /\ r.total = work["runner"].total
        /\ r.inserted = work["runner"].inserted /\ r.key = work["runner"].key
        /\ r.left = work["runner"].left /\ r.pc = work["runner"].pc
    BY <1>0, <2>1 DEF Work
  <2> HIDE DEF r
  <2>3. Sums(r, nav)
    BY <1>0, <2>1, <2>2 DEF Sums
  <2>4. RowsOK /\ WorkOK
    BY <1>1, <2>1, <2>3, OneSums DEF WorkOK
  <2>5. QED BY <2>4 DEF RowsOK, WorkOK, Totals
<1>24. CASE Crash
  <2>1. UNCHANGED <<rows, nav>> /\ \A w \in Workers : work'[w] = Resting
    BY <1>24 DEF Crash
  <2>2. Sums(Resting, nav)
    BY <1>20, RestSums
  <2>3. QED BY <1>1, <2>1, <2>2 DEF RowsOK, Totals
<1>25. CASE Publish \/ UNCHANGED vars
  BY <1>25 DEF Publish, vars, Totals
<1>26. ASSUME NEW w \in Workers, Worker(w) PROVE (RowsOK /\ WorkOK) \/ Totals'
  <2>1. InsertBatch(w) => Totals'
    BY InsertBatchTotals
  <2>2. QED
    BY <1>4, <1>5, <1>7, <1>9, <1>10, <1>12, <1>13, <1>15, <1>16, <1>18, <1>19, <1>21, <1>26,
       <2>1
    DEF Worker, SyncFund
<1>27. RowsOK /\ WorkOK => Totals'
  BY DEF RowsOK, WorkOK, Totals
<1>28. QED BY <1>3, <1>22, <1>23, <1>24, <1>25, <1>26, <1>27 DEF Next

\* No row reports more records than are stored, whatever failed, was counted at
\* the wrong time or ran at the same time (GetNAVCount, MarkSyncCompleted).
THEOREM BackedTotals == Spec => []TotalIsBacked
<1>1. TypeOK /\ Init => Totals
  <2> SUFFICES ASSUME TypeOK, Init PROVE Totals
    OBVIOUS
  <2>1. Resting.seen.total = 0 /\ Resting.total = 0 /\ Resting.inserted = 0 /\ Resting \in Work
    BY RestingTyped DEF Resting, NoRow
  <2>2. \A w \in Workers : Sums(work[w], nav)
    BY <2>1, RestSums DEF Init
  <2>3. ASSUME NEW k \in Key PROVE rows[k].total <= Size(nav, k)
    <3>1. rows[k].total = 0 /\ nav[k[1]] \in SUBSET Date
      BY DEF Init, NoRow, TypeOK, Key
    <3>2. QED BY <3>1, DatesFinite DEF Size
  <2>4. QED BY <2>2, <2>3 DEF Totals
<1>2. TypeOK /\ TypeOK' /\ Totals /\ [Next]_vars => Totals'
  BY TotalsStep
<1>3. Totals => TotalIsBacked
  BY DEF Totals, Size, TotalIsBacked
<1>4. QED BY <1>1, <1>2, <1>3, TypeCorrect, PTL DEF Spec
=============================================================================
