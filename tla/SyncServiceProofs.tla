-------------------------- MODULE SyncServiceProofs --------------------------
(***************************************************************************)
(* For every set of funds, batch size and history of failures: SyncService *)
(* keeps its types, and last_nav_date is a watermark below which no NAV is *)
(* missing.                                                                *)
(***************************************************************************)
EXTENDS SyncService, FiniteSetTheorems, TLAPS

-----------------------------------------------------------------------------
(* Types *)

\* A resting worker is typed.
LEMMA RestingTyped == Resting \in Work /\ NoRow \in Row /\ NewRow \in Row
<1>1. PICK f \in Funds : TRUE
  BY DataAssumption
<1>2. <<f, "backfill">> \in Key
  BY <1>1 DEF Key, SyncTypes
<1>3. (CHOOSE k \in Key : TRUE) \in Key
  BY <1>2
<1>4. 0 \in 0..MaxDate /\ -1 \in Nat \union {-1}
  BY DataAssumption
<1>5. NoRow \in Row /\ NewRow \in Row
  BY <1>4 DEF NoRow, NewRow, Row, Status
<1>6. QED BY <1>3, <1>4, <1>5 DEF Resting, Work, Step, SyncTypes

\* A worker that returns to its loop is typed (syncFund).
LEMMA ReturnTyped ==
  ASSUME TypeOK, NEW w \in Workers, Return(w)
  PROVE  work' \in [Workers -> Work]
BY RestingTyped DEF Return, TypeOK, Work, Step

\* A worker that goes to another step is typed.
LEMMA GotoTyped ==
  ASSUME TypeOK, NEW w \in Workers, NEW s \in Step, Goto(w, s)
  PROVE  work' \in [Workers -> Work]
BY DEF Goto, TypeOK, Work

\* A worker that changes its local state keeps it typed.
LEMMA UpdateTyped ==
  ASSUME TypeOK, NEW w \in Workers, NEW r \in Work, work' = [work EXCEPT ![w] = r]
  PROVE  work' \in [Workers -> Work]
BY DEF TypeOK

\* The row a worker works on is a row.
LEMMA MyRowTyped ==
  ASSUME TypeOK, NEW w \in Workers
  PROVE  MyKey(w) \in Key /\ MyRow(w) \in Row /\ MyNav(w) \in SUBSET Date
BY DEF TypeOK, Work, MyKey, MyRow, MyNav, Key

\* Writing a row keeps the table typed.
LEMMA WriteTyped ==
  ASSUME TypeOK, NEW w \in Workers, NEW r \in Row, Write(w, r)
  PROVE  rows' \in [Key -> Row]
BY DEF TypeOK, Write

\* A statement that succeeds or fails keeps the counters typed.
LEMMA CountsTyped ==
  ASSUME TypeOK, NEW w \in Workers, Succeeds(w) \/ Fails(w)
  PROVE  mishaps' \in 0..MaxMishaps /\ resumes' \in 0..MaxResumes
BY BoundsAssumption DEF TypeOK, Succeeds, Fails, Befalls, counts

\* The type invariant holds at every step of every instance.
THEOREM TypeCorrect == Spec => []TypeOK
<1>1. Init => TypeOK
  <2> SUFFICES ASSUME Init PROVE TypeOK
    OBVIOUS
  <2>0. 0 \in 0..MaxDate
    BY DataAssumption
  <2>1. today \in 0..MaxDate /\ isRunning \in BOOLEAN /\ nav \in [Funds -> SUBSET Date]
    BY <2>0 DEF Init
  <2>2. rows \in [Key -> Row] /\ work \in [Workers -> Work]
    BY RestingTyped DEF Init
  <2>3. mishaps \in 0..MaxMishaps /\ resumes \in 0..MaxResumes
    BY BoundsAssumption DEF Init
  <2>4. QED BY <2>1, <2>2, <2>3 DEF TypeOK
<1>2. TypeOK /\ [Next]_vars => TypeOK'
  <2> SUFFICES ASSUME TypeOK, [Next]_vars PROVE TypeOK'
    OBVIOUS
  <2>1. ASSUME NEW t \in SyncTypes, TriggerSync(t) PROVE TypeOK'
    <3>1. [Resting EXCEPT !.pc = "list", !.type = t] \in Work
      BY RestingTyped DEF Work, Step
    <3>2. QED BY <2>1, <3>1 DEF TriggerSync, TypeOK, counts, Workers
  <2>2. ASSUME NEW w \in Workers, ListFunds(w) PROVE TypeOK'
    <3>1. work' \in [Workers -> Work]
      <4>1. CASE Goto(w, "next")
        BY <4>1, GotoTyped DEF Step
      <4>2. CASE work' = [work EXCEPT ![w] = [@ EXCEPT !.pc = "next",
                                !.todo = Funds \X {work[w].type}]]
        <5> DEFINE all == Funds \X {work[w].type}
        <5>1. all \in SUBSET Key
          BY DEF TypeOK, Work, Key
        <5> HIDE DEF all
        <5>2. [work[w] EXCEPT !.pc = "next", !.todo = all] \in Work
          <6>1. work[w] \in Work /\ "next" \in Step
            BY DEF TypeOK, Step
          <6>2. QED BY <5>1, <6>1 DEF Work
        <5> USE DEF all
        <5>3. QED BY <4>2, <5>2, UpdateTyped
      <4>3. QED BY <2>2, <4>1, <4>2 DEF ListFunds
    <3>2. QED BY <2>2, <3>1, CountsTyped DEF ListFunds, TypeOK
  <2>3. ASSUME NEW w \in Workers, NextFund(w) PROVE TypeOK'
    <3>1. PICK k \in work[w].todo :
            work' = [work EXCEPT ![w] =
              [Resting EXCEPT !.pc = "read", !.key = k, !.type = work[w].type,
                              !.todo = Without(work[w].todo, k)]]
      BY <2>3 DEF NextFund
    <3>2. work[w].todo \subseteq Key /\ work[w].type \in SyncTypes
      BY DEF TypeOK, Work
    <3>3. k \in Key /\ Without(work[w].todo, k) \in SUBSET Key
      BY <3>2 DEF Without
    <3>4. [Resting EXCEPT !.pc = "read", !.key = k, !.type = work[w].type,
                          !.todo = Without(work[w].todo, k)] \in Work
      BY <3>2, <3>3, RestingTyped DEF Work, Step
    <3>5. QED BY <2>3, <3>1, <3>4 DEF NextFund, TypeOK, counts
  <2>4. ASSUME NEW w \in Workers, GetSyncState(w) PROVE TypeOK'
    <3>1. work' \in [Workers -> Work]
      <4>1. CASE Return(w)
        BY <4>1, ReturnTyped
      <4>2. CASE work' = [work EXCEPT ![w] = [@ EXCEPT
                   !.seen = MyRow(w),
                   !.pc = IF MyRow(w).status = "none" THEN "create" ELSE "mark"]]
        <5>1. (IF MyRow(w).status = "none" THEN "create" ELSE "mark") \in Step
          BY DEF Step
        <5>2. [work[w] EXCEPT !.seen = MyRow(w),
                 !.pc = IF MyRow(w).status = "none" THEN "create" ELSE "mark"] \in Work
          BY <5>1, MyRowTyped DEF TypeOK, Work
        <5>3. QED BY <4>2, <5>2, UpdateTyped
      <4>3. QED BY <2>4, <4>1, <4>2 DEF GetSyncState
    <3>2. QED BY <2>4, <3>1, CountsTyped DEF GetSyncState, TypeOK
  <2>5. ASSUME NEW w \in Workers, CreateSyncState(w) PROVE TypeOK'
    <3>1. work' \in [Workers -> Work] /\ rows' \in [Key -> Row]
      <4>1. CASE Return(w) /\ UNCHANGED rows
        BY <4>1, ReturnTyped DEF TypeOK
      <4>2. CASE Write(w, NewRow) /\ work' = [work EXCEPT ![w] = [@ EXCEPT !.seen = NewRow, !.pc = "mark"]]
        <5>1. rows' \in [Key -> Row]
          BY <4>2, WriteTyped, RestingTyped
        <5>2. work' \in [Workers -> Work]
          BY <4>2, RestingTyped DEF TypeOK, Work, Step
        <5>3. QED BY <5>1, <5>2
      <4>3. QED BY <2>5, <4>1, <4>2 DEF CreateSyncState
    <3>2. QED BY <2>5, <3>1, CountsTyped DEF CreateSyncState, TypeOK
  <2>6. ASSUME NEW w \in Workers, MarkSyncInProgress(w) PROVE TypeOK'
    <3>1. work' \in [Workers -> Work]
      BY <2>6, GotoTyped, ReturnTyped DEF MarkSyncInProgress, Step
    <3>2. [MyRow(w) EXCEPT !.status = "in_progress"] \in Row
      BY MyRowTyped DEF Row, Status
    <3>3. rows' \in [Key -> Row]
      BY <2>6, <3>2, WriteTyped DEF MarkSyncInProgress, TypeOK
    <3>4. QED BY <2>6, <3>1, <3>3, CountsTyped DEF MarkSyncInProgress, TypeOK
  <2>7. ASSUME NEW w \in Workers, Fetch(w) PROVE TypeOK'
    <3> DEFINE new == Wanted(MyKey(w)[2], work[w].seen)
    <3>1. work' \in [Workers -> Work]
      <4>1. CASE Goto(w, "nothing")
        BY <4>1, GotoTyped DEF Step
      <4>2. CASE \E d \in new :
               work' = [work EXCEPT ![w] =
                              [@ EXCEPT !.left = new, !.latest = d, !.pc = "insert"]]
        <5>1. new \subseteq Date
          <6>1. today \in 0..MaxDate /\ MaxDate \in Nat
            BY DataAssumption DEF TypeOK
          <6>2. 1..today \subseteq Date
            BY <6>1 DEF Date
          <6>3. QED BY <6>2 DEF Wanted, Parsed
        <5>2. \A d \in new : d \in 0..MaxDate
          BY <5>1 DEF Date
        <5> HIDE DEF new
        <5>3. PICK d \in new :
                 work' = [work EXCEPT ![w] =
                            [@ EXCEPT !.left = new, !.latest = d, !.pc = "insert"]]
          BY <4>2
        <5>4. [work[w] EXCEPT !.left = new, !.latest = d, !.pc = "insert"] \in Work
          <6>1. work[w] \in Work /\ "insert" \in Step
            BY DEF TypeOK, Step
          <6>2. new \in SUBSET Date /\ d \in 0..MaxDate
            BY <5>1, <5>2
          <6>3. QED BY <6>1, <6>2 DEF Work
        <5>5. QED BY <5>3, <5>4, UpdateTyped
      <4>3. QED BY <2>7, <4>1, <4>2 DEF Fetch
    <3>2. QED BY <2>7, <3>1, CountsTyped DEF Fetch, TypeOK
  <2>8. ASSUME NEW w \in Workers, FetchFails(w) PROVE TypeOK'
    <3>1. work' \in [Workers -> Work]
      BY <2>8, GotoTyped DEF FetchFails, AfterFailedFetch, Step
    <3>2. QED BY <2>8, <3>1 DEF FetchFails, TypeOK, counts
  <2>9. ASSUME NEW w \in Workers, MarkSyncFailed(w) PROVE TypeOK'
    <3>1. [MyRow(w) EXCEPT !.status = "failed", !.retries = @ + 1, !.delayed = TRUE] \in Row
      <4>1. MyRow(w) \in Row /\ MyRow(w).retries + 1 \in Nat
        BY MyRowTyped DEF Row
      <4>2. QED BY <4>1 DEF Row, Status
    <3>2. rows' \in [Key -> Row] /\ work' \in [Workers -> Work]
      BY <2>9, <3>1, WriteTyped, ReturnTyped DEF MarkSyncFailed, TypeOK
    <3>3. QED BY <2>9, <3>2, CountsTyped DEF MarkSyncFailed, TypeOK
  <2>10. ASSUME NEW w \in Workers, NothingNew(w) PROVE TypeOK'
    <3>1. work[w].seen \in Row
      BY DEF TypeOK, Work
    <3>2. Completed(MyRow(w), work[w].seen.total, KeptDate(w)) \in Row
      BY <3>1, MyRowTyped DEF Completed, KeptDate, Row, Status
    <3>3. rows' \in [Key -> Row] /\ work' \in [Workers -> Work]
      BY <2>10, <3>2, WriteTyped, ReturnTyped DEF NothingNew, TypeOK
    <3>4. QED BY <2>10, <3>3, CountsTyped DEF NothingNew, TypeOK
  <2>11. ASSUME NEW w \in Workers, InsertBatch(w) PROVE TypeOK'
    <3>1. PICK b \in Batches(w) :
            /\ nav' = [nav EXCEPT ![MyKey(w)[1]] = @ \union b]
            /\ work' = [work EXCEPT ![w] = [@ EXCEPT
                 !.left = work[w].left \ b,
                 !.index = work[w].index + Cardinality(b),
                 !.inserted = work[w].inserted + Cardinality(b \ MyNav(w))]]
      BY <2>11 DEF InsertBatch
    <3>2. work[w].left \subseteq Date /\ b \subseteq work[w].left
      BY DEF TypeOK, Work, Batches
    <3>3. Cardinality(b) \in Nat /\ Cardinality(b \ MyNav(w)) \in Nat
      <4>1. IsFiniteSet(Date)
        BY DataAssumption, FS_Interval DEF Date
      <4>2. QED BY <3>2, <4>1, FS_Subset, FS_CardinalityType
    <3>4. nav' \in [Funds -> SUBSET Date]
      BY <3>1, <3>2, MyRowTyped DEF TypeOK, MyNav
    <3>5. work' \in [Workers -> Work]
      <4> DEFINE rest  == work[w].left \ b
                 index == work[w].index + Cardinality(b)
                 count == work[w].inserted + Cardinality(b \ MyNav(w))
      <4>1. work[w] \in Work
        BY DEF TypeOK
      <4>2. rest \in SUBSET Date /\ index \in Nat /\ count \in Nat
        BY <3>2, <3>3, <4>1 DEF Work
      <4>3. work' = [work EXCEPT ![w] =
                       [work[w] EXCEPT !.left = rest, !.index = index, !.inserted = count]]
        BY <3>1
      <4> HIDE DEF rest, index, count
      <4>4. [work[w] EXCEPT !.left = rest, !.index = index, !.inserted = count] \in Work
        BY <4>1, <4>2 DEF Work
      <4>5. QED BY <4>3, <4>4, UpdateTyped
    <3>6. QED BY <2>11, <3>4, <3>5, CountsTyped DEF InsertBatch, TypeOK
  <2>12. ASSUME NEW w \in Workers, AllInserted(w) PROVE TypeOK'
    <3>1. work' \in [Workers -> Work]
      BY <2>12, GotoTyped DEF AllInserted, Step
    <3>2. QED BY <2>12, <3>1 DEF AllInserted, TypeOK, counts
  <2>13. ASSUME NEW w \in Workers, BatchFails(w) PROVE TypeOK'
    <3>1. work' \in [Workers -> Work]
      BY <2>13, GotoTyped DEF BatchFails, AfterFailedBatch, Step
    <3>2. QED BY <2>13, <3>1, CountsTyped DEF BatchFails, TypeOK
  <2>14. ASSUME NEW w \in Workers, UpdateResumePointer(w) PROVE TypeOK'
    <3>1. work[w].index \in Nat
      BY DEF TypeOK, Work
    <3>2. [MyRow(w) EXCEPT !.status = "paused", !.pointer = work[w].index] \in Row
      BY <3>1, MyRowTyped DEF Row, Status
    <3>3. rows' \in [Key -> Row] /\ work' \in [Workers -> Work]
      BY <2>14, <3>2, WriteTyped, ReturnTyped DEF UpdateResumePointer, TypeOK
    <3>4. QED BY <2>14, <3>3, CountsTyped DEF UpdateResumePointer, TypeOK
  <2>15. ASSUME NEW w \in Workers, GetNAVCount(w) PROVE TypeOK'
    <3>1. Counted(w) \in Nat /\ work[w].inserted \in Nat
      <4>1. IsFiniteSet(Date)
        BY DataAssumption, FS_Interval DEF Date
      <4>2. IsFiniteSet(MyNav(w))
        BY <4>1, MyRowTyped, FS_Subset
      <4>3. QED BY <4>2, FS_CardinalityType DEF Counted, TypeOK, Work
    <3>2. work' \in [Workers -> Work]
      <4>1. /\ [work[w] EXCEPT !.pc = "complete", !.total = Counted(w)] \in Work
            /\ [work[w] EXCEPT !.pc = "complete", !.total = work[w].inserted] \in Work
        BY <3>1 DEF TypeOK, Work, Step
      <4>2. QED BY <2>15, <4>1, UpdateTyped DEF GetNAVCount
    <3>3. QED BY <2>15, <3>2, CountsTyped DEF GetNAVCount, TypeOK
  <2>16. ASSUME NEW w \in Workers, MarkSyncCompleted(w) PROVE TypeOK'
    <3>1. work[w].total \in Nat /\ work[w].latest \in 0..MaxDate
      BY DEF TypeOK, Work
    <3>2. Completed(MyRow(w), work[w].total, work[w].latest) \in Row
      BY <3>1, MyRowTyped DEF Completed, Row, Status
    <3>3. rows' \in [Key -> Row] /\ work' \in [Workers -> Work]
      BY <2>16, <3>2, WriteTyped, ReturnTyped DEF MarkSyncCompleted, TypeOK
    <3>4. QED BY <2>16, <3>3, CountsTyped DEF MarkSyncCompleted, TypeOK
  <2>17. ASSUME NEW w \in Workers, Finish(w) PROVE TypeOK'
    <3>1. work' \in [Workers -> Work]
      BY <2>17, RestingTyped DEF Finish, TypeOK
    <3>2. QED BY <2>17, <3>1 DEF Finish, RunningAfter, TypeOK, counts
  <2>18. CASE ResumePausedSyncs
    <3>1. work' \in [Workers -> Work]
      <4> DEFINE open == {k \in Key : rows[k].status \in {"pending", "failed", "paused"}}
      <4>1. PICK late \in SUBSET {k \in open : rows[k].delayed} :
              work' = [work EXCEPT !["resumer"] =
                         [Resting EXCEPT !.pc = "next", !.todo = open \ late]]
        BY <2>18 DEF ResumePausedSyncs
      <4>2. open \ late \in SUBSET Key
        OBVIOUS
      <4> HIDE DEF open
      <4>3. [Resting EXCEPT !.pc = "next", !.todo = open \ late] \in Work
        BY <4>2, RestingTyped DEF Work, Step
      <4>4. QED BY <4>1, <4>3 DEF TypeOK, Workers
    <3>2. resumes' \in 0..MaxResumes
      BY <2>18, BoundsAssumption DEF ResumePausedSyncs, TypeOK
    <3>3. QED BY <2>18, <3>1, <3>2 DEF ResumePausedSyncs, TypeOK
  <2>19. CASE StopSync
    <3>1. mishaps' \in 0..MaxMishaps
      BY <2>19, BoundsAssumption DEF StopSync, Befalls, TypeOK
    <3>2. work' \in [Workers -> Work]
      BY <2>19 DEF StopSync, TypeOK, Work, Workers
    <3>3. QED BY <2>19, <3>1, <3>2 DEF StopSync, Befalls, TypeOK
  <2>20. CASE Publish
    <3>1. today' \in 0..MaxDate
      BY <2>20, DataAssumption DEF Publish, TypeOK
    <3>2. QED BY <2>20, <3>1 DEF Publish, TypeOK, counts
  <2>21. CASE Crash
    <3>1. mishaps' \in 0..MaxMishaps
      BY <2>21, BoundsAssumption DEF Crash, Befalls, TypeOK
    <3>2. QED BY <2>21, <3>1, RestingTyped DEF Crash, Befalls, TypeOK
  <2>22. CASE UNCHANGED vars
    BY <2>22 DEF vars, TypeOK
  <2>23. QED
    BY <2>1, <2>2, <2>3, <2>4, <2>5, <2>6, <2>7, <2>8, <2>9, <2>10, <2>11, <2>12, <2>13,
       <2>14, <2>15, <2>16, <2>17, <2>18, <2>19, <2>20, <2>21, <2>22
    DEF Next, Worker, SyncFund
<1>3. QED BY <1>1, <1>2, PTL DEF Spec

-----------------------------------------------------------------------------
(* The watermark *)

\* What CompleteUpTo says of the table n.
Stored(n, f, d) == \A e \in Date : e <= d => e \in n[f] \union Unparsable

\* What a worker with the local state r knows of the table n: nothing is
\* missing below the last_nav_date it read, nothing but what it still holds
\* below the date it will write, and at last nothing below that date.
Knows(r, n) ==
  /\ Stored(n, r.key[1], r.seen.last)
  /\ r.pc = "insert" =>
       \A e \in Date : e <= r.latest => e \in n[r.key[1]] \union Unparsable \union r.left
  /\ r.pc \in {"count", "complete"} => Stored(n, r.key[1], r.latest)

\* The inductive invariant.
IInv ==
  /\ \A k \in Key : Stored(nav, k[1], rows[k].last)
  /\ \A w \in Workers : Knows(work[w], nav)

\* The steps before a worker knows what it will write.
Early == Step \ {"insert", "count", "complete"}

\* A table that only gains NAVs keeps what is known of it (InsertNAVBatch).
LEMMA KnowledgeStays ==
  ASSUME NEW n \in [Funds -> SUBSET Date], NEW m \in [Funds -> SUBSET Date],
         \A f \in Funds : n[f] \subseteq m[f],
         NEW r \in Work, Knows(r, n)
  PROVE  Knows(r, m)
<1>1. r.key[1] \in Funds
  BY DEF Work, Key
<1>2. n[r.key[1]] \subseteq m[r.key[1]]
  BY <1>1
<1>3. QED BY <1>2 DEF Knows, Stored

\* A worker that changes the step alone, to an early one, keeps what it knows.
LEMMA EarlyKnows ==
  ASSUME TypeOK, IInv, NEW w \in Workers, NEW s \in Early, Goto(w, s), UNCHANGED nav
  PROVE  \A v \in Workers : Knows(work'[v], nav')
BY DEF TypeOK, IInv, Knows, Early, Goto, Work

\* A worker at rest knows enough.
LEMMA RestKnows ==
  ASSUME NEW r \in Work, r.seen.last = 0, r.pc \in Early, NEW n
  PROVE  Knows(r, n)
<1>1. \A e \in Date : ~(e <= 0)
  BY DEF Date
<1>2. QED BY <1>1 DEF Knows, Stored, Early

\* A worker whose new local state knows enough leaves all workers knowing.
LEMMA OneKnows ==
  ASSUME TypeOK, IInv, NEW w \in Workers, NEW r, Knows(r, nav),
         work' = [work EXCEPT ![w] = r], UNCHANGED nav
  PROVE  \A v \in Workers : Knows(work'[v], nav')
BY DEF TypeOK, IInv

\* A worker that returns to its loop forgets.
LEMMA ReturnKnows ==
  ASSUME TypeOK, IInv, NEW w \in Workers, Return(w), UNCHANGED nav
  PROVE  \A v \in Workers : Knows(work'[v], nav')
<1> DEFINE r == [Resting EXCEPT !.pc = "next", !.type = work[w].type,
                   !.todo = work[w].todo, !.cancelled = work[w].cancelled]
<1>1. r \in Work /\ r.seen.last = 0 /\ r.pc \in Early
  BY RestingTyped DEF TypeOK, Work, Step, Early, Resting, NoRow
<1>2. Knows(r, nav)
  BY <1>1, RestKnows
<1>3. work' = [work EXCEPT ![w] = r]
  BY DEF Return
<1> HIDE DEF r
<1>4. QED BY <1>2, <1>3, OneKnows

\* A row written with the date of an old row, or one below which nothing is
\* missing, keeps the watermark.
LEMMA WriteKeeps ==
  ASSUME TypeOK, IInv, NEW w \in Workers, NEW r, Stored(nav, MyKey(w)[1], r.last),
         Write(w, r), UNCHANGED nav
  PROVE  \A k \in Key : Stored(nav', k[1], rows'[k].last)
BY DEF TypeOK, IInv, Write

\* The rows do not change, so their dates stay good.
LEMMA RowsKeep ==
  ASSUME TypeOK, IInv, UNCHANGED <<rows, nav>>
  PROVE  \A k \in Key : Stored(nav', k[1], rows'[k].last)
BY DEF IInv

\* Writing back the row itself with other fields changed keeps its date.
LEMMA SameDate ==
  ASSUME TypeOK, IInv, NEW w \in Workers, NEW r, r.last = MyRow(w).last
  PROVE  Stored(nav, MyKey(w)[1], r.last)
BY MyRowTyped DEF IInv, MyRow

\* Every step keeps the invariant (the statements of syncFund and
\* insertNAVWithResumability, in any interleaving).
LEMMA IInvStep == TypeOK /\ IInv /\ [Next]_vars => IInv'
<1> SUFFICES ASSUME TypeOK, IInv, [Next]_vars PROVE IInv'
  OBVIOUS
<1> DEFINE RowsOK == \A k \in Key : Stored(nav', k[1], rows'[k].last)
           WorkOK == \A v \in Workers : Knows(work'[v], nav')
<1>1. ASSUME NEW t \in SyncTypes, TriggerSync(t) PROVE RowsOK /\ WorkOK
  <2> DEFINE r == [Resting EXCEPT !.pc = "list", !.type = t]
  <2>1. r \in Work /\ r.seen.last = 0 /\ r.pc \in Early
    BY RestingTyped DEF Work, Step, Early, Resting, NoRow
  <2>2. Knows(r, nav) /\ "runner" \in Workers
    BY <2>1, RestKnows DEF Workers
  <2>3. work' = [work EXCEPT !["runner"] = r] /\ UNCHANGED <<rows, nav>>
    BY <1>1 DEF TriggerSync
  <2> HIDE DEF r
  <2>4. QED BY <2>2, <2>3, OneKnows, RowsKeep
<1>2. ASSUME NEW w \in Workers, ListFunds(w) PROVE RowsOK /\ WorkOK
  <2>1. UNCHANGED <<rows, nav>>
    BY <1>2 DEF ListFunds
  <2>2. CASE Goto(w, "next")
    BY <2>1, <2>2, EarlyKnows, RowsKeep DEF Early, Step
  <2>3. CASE At(w, "list") /\ work' = [work EXCEPT ![w] =
               [@ EXCEPT !.pc = "next", !.todo = Funds \X {work[w].type}]]
    <3> DEFINE all == Funds \X {work[w].type}
               r   == [work[w] EXCEPT !.pc = "next", !.todo = all]
    <3>1. work[w] \in Work /\ Knows(work[w], nav)
      BY DEF TypeOK, IInv
    <3>2. r.key = work[w].key /\ r.seen = work[w].seen /\ r.pc = "next"
      BY <3>1 DEF Work
    <3>3. work' = [work EXCEPT ![w] = r]
      BY <2>3
    <3> HIDE DEF r
    <3>4. Knows(r, nav)
      BY <3>1, <3>2 DEF Knows
    <3>5. QED BY <2>1, <3>3, <3>4, OneKnows, RowsKeep
  <2>4. QED BY <1>2, <2>2, <2>3 DEF ListFunds
<1>3. ASSUME NEW w \in Workers, NextFund(w) PROVE RowsOK /\ WorkOK
  <2>1. PICK k \in work[w].todo :
          work' = [work EXCEPT ![w] =
            [Resting EXCEPT !.pc = "read", !.key = k, !.type = work[w].type,
                            !.todo = Without(work[w].todo, k)]]
    BY <1>3 DEF NextFund
  <2> DEFINE less == Without(work[w].todo, k)
             r    == [Resting EXCEPT !.pc = "read", !.key = k, !.type = work[w].type,
                                     !.todo = less]
  <2>2. work[w].todo \subseteq Key /\ work[w].type \in SyncTypes
    BY DEF TypeOK, Work
  <2>3. k \in Key /\ less \in SUBSET Key
    BY <2>2 DEF Without
  <2>4. work' = [work EXCEPT ![w] = r]
    BY <2>1
  <2> HIDE DEF less
  <2>5. r \in Work /\ r.seen.last = 0 /\ r.pc \in Early
    BY <2>2, <2>3, RestingTyped DEF Work, Step, Early, Resting, NoRow
  <2> HIDE DEF r
  <2>6. QED BY <1>3, <2>4, <2>5, RestKnows, OneKnows, RowsKeep DEF NextFund
<1>4. ASSUME NEW w \in Workers, GetSyncState(w) PROVE RowsOK /\ WorkOK
  <2>1. UNCHANGED <<rows, nav>>
    BY <1>4 DEF GetSyncState
  <2>2. CASE Return(w)
    BY <2>1, <2>2, ReturnKnows, RowsKeep
  <2>3. CASE work' = [work EXCEPT ![w] = [@ EXCEPT
               !.seen = MyRow(w),
               !.pc = IF MyRow(w).status = "none" THEN "create" ELSE "mark"]]
    <3> DEFINE step == IF MyRow(w).status = "none" THEN "create" ELSE "mark"
               r    == [work[w] EXCEPT !.seen = MyRow(w), !.pc = step]
    <3>1. step \in Early
      BY DEF Early, Step
    <3>2. work' = [work EXCEPT ![w] = r]
      BY <2>3
    <3> HIDE DEF step
    <3>3. r.key = MyKey(w) /\ r.seen = MyRow(w) /\ r.pc = step
      BY DEF TypeOK, Work, MyKey
    <3> HIDE DEF r
    <3>4. Stored(nav, MyKey(w)[1], MyRow(w).last)
      BY SameDate
    <3>5. Knows(r, nav)
      BY <3>1, <3>3, <3>4 DEF Knows, Early
    <3>6. QED BY <2>1, <3>2, <3>5, OneKnows, RowsKeep
  <2>4. QED BY <1>4, <2>2, <2>3 DEF GetSyncState
<1>5. ASSUME NEW w \in Workers, CreateSyncState(w) PROVE RowsOK /\ WorkOK
  <2>1. UNCHANGED nav
    BY <1>5 DEF CreateSyncState
  <2>2. CASE Return(w) /\ UNCHANGED rows
    BY <2>1, <2>2, ReturnKnows, RowsKeep
  <2>3. CASE Write(w, NewRow) /\ work' = [work EXCEPT ![w] = [@ EXCEPT !.seen = NewRow, !.pc = "mark"]]
    <3> DEFINE r == [work[w] EXCEPT !.seen = NewRow, !.pc = "mark"]
    <3>1. work' = [work EXCEPT ![w] = r]
      BY <2>3
    <3>2. r.key = MyKey(w) /\ r.seen = NewRow /\ r.pc = "mark" /\ NewRow.last = 0
      BY DEF TypeOK, Work, MyKey, NewRow, NoRow
    <3> HIDE DEF r
    <3>3. Stored(nav, MyKey(w)[1], NewRow.last)
      BY <3>2 DEF Stored, Date
    <3>4. Knows(r, nav)
      BY <3>2, <3>3 DEF Knows
    <3>5. QED BY <2>1, <2>3, <3>1, <3>3, <3>4, OneKnows, WriteKeeps
  <2>4. QED BY <1>5, <2>2, <2>3 DEF CreateSyncState
<1>6. ASSUME NEW w \in Workers, MarkSyncInProgress(w) PROVE RowsOK /\ WorkOK
  <2>1. UNCHANGED nav
    BY <1>6 DEF MarkSyncInProgress
  <2>2. CASE Return(w) /\ UNCHANGED rows
    BY <2>1, <2>2, ReturnKnows, RowsKeep
  <2>3. CASE Write(w, [MyRow(w) EXCEPT !.status = "in_progress"]) /\ Goto(w, "fetch")
    <3>1. WorkOK
      BY <2>1, <2>3, EarlyKnows DEF Early, Step
    <3>2. [MyRow(w) EXCEPT !.status = "in_progress"].last = MyRow(w).last
      BY MyRowTyped DEF Row
    <3>3. QED BY <2>1, <2>3, <3>1, <3>2, SameDate, WriteKeeps
  <2>4. QED BY <1>6, <2>2, <2>3 DEF MarkSyncInProgress
<1>7. ASSUME NEW w \in Workers, Fetch(w) PROVE RowsOK /\ WorkOK
  <2> DEFINE new == Wanted(MyKey(w)[2], work[w].seen)
  <2>1. UNCHANGED <<rows, nav>>
    BY <1>7 DEF Fetch
  <2>2. CASE Goto(w, "nothing")
    BY <2>1, <2>2, EarlyKnows, RowsKeep DEF Early, Step
  <2>3. CASE \E d \in new : work' = [work EXCEPT ![w] =
                              [@ EXCEPT !.left = new, !.latest = d, !.pc = "insert"]]
    <3>1. PICK d \in new : work' = [work EXCEPT ![w] =
                              [@ EXCEPT !.left = new, !.latest = d, !.pc = "insert"]]
      BY <2>3
    <3>2. work[w] \in Work /\ Knows(work[w], nav) /\ today \in 0..MaxDate
      BY DEF TypeOK, IInv
    <3>3. d \in 1..today /\ \A e \in (1..today) \ Unparsable : e > work[w].seen.last => e \in new
      BY DEF Wanted, Parsed
    <3>4. \A e \in Date : e <= d => e \in nav[MyKey(w)[1]] \union Unparsable \union new
      <4> SUFFICES ASSUME NEW e \in Date, e <= d
                   PROVE  e \in nav[MyKey(w)[1]] \union Unparsable \union new
        OBVIOUS
      <4>1. e \in 1..today /\ e \in Int /\ work[w].seen.last \in Int
        BY <3>2, <3>3, DataAssumption DEF Date, Work, Row
      <4>2. CASE e <= work[w].seen.last
        BY <3>2, <4>2 DEF Knows, Stored, MyKey
      <4>3. CASE e > work[w].seen.last
        BY <3>3, <4>1, <4>3
      <4>4. QED BY <4>1, <4>2, <4>3
    <3> HIDE DEF new
    <3> DEFINE r == [work[w] EXCEPT !.left = new, !.latest = d, !.pc = "insert"]
    <3>5. work' = [work EXCEPT ![w] = r]
      BY <3>1
    <3>6. /\ r.key = MyKey(w) /\ r.seen = work[w].seen
          /\ r.pc = "insert" /\ r.left = new /\ r.latest = d
      BY <3>2 DEF Work, MyKey
    <3> HIDE DEF r
    <3>7. Stored(nav, MyKey(w)[1], work[w].seen.last)
      BY <3>2 DEF Knows, MyKey
    <3>8. Knows(r, nav)
      BY <3>4, <3>6, <3>7 DEF Knows
    <3>9. QED BY <2>1, <3>5, <3>8, OneKnows, RowsKeep
  <2>4. QED BY <1>7, <2>2, <2>3 DEF Fetch
<1>8. ASSUME NEW w \in Workers, FetchFails(w) PROVE RowsOK /\ WorkOK
  BY <1>8, EarlyKnows, RowsKeep DEF FetchFails, AfterFailedFetch, Early, Step
<1>9. ASSUME NEW w \in Workers, MarkSyncFailed(w) PROVE RowsOK /\ WorkOK
  <2>1. WorkOK
    BY <1>9, ReturnKnows DEF MarkSyncFailed
  <2>2. CASE UNCHANGED rows
    BY <1>9, <2>1, <2>2, RowsKeep DEF MarkSyncFailed
  <2> DEFINE r == [MyRow(w) EXCEPT !.status = "failed", !.retries = @ + 1, !.delayed = TRUE]
  <2>3. r.last = MyRow(w).last
    BY MyRowTyped DEF Row
  <2>4. CASE Write(w, r)
    <3> HIDE DEF r
    <3>1. QED BY <1>9, <2>1, <2>3, <2>4, SameDate, WriteKeeps DEF MarkSyncFailed
  <2>5. QED BY <1>9, <2>2, <2>4 DEF MarkSyncFailed
<1>10. ASSUME NEW w \in Workers, NothingNew(w) PROVE RowsOK /\ WorkOK
  <2>1. WorkOK
    BY <1>10, ReturnKnows DEF NothingNew
  <2>2. CASE UNCHANGED rows
    BY <1>10, <2>1, <2>2, RowsKeep DEF NothingNew
  <2> DEFINE r == Completed(MyRow(w), work[w].seen.total, KeptDate(w))
  <2>3. r.last = work[w].seen.last
    BY MyRowTyped DEF Completed, KeptDate, Row
  <2>4. Stored(nav, MyKey(w)[1], work[w].seen.last)
    BY DEF IInv, Knows, MyKey
  <2>5. CASE Write(w, r)
    <3> HIDE DEF r
    <3>1. QED BY <1>10, <2>1, <2>3, <2>4, <2>5, WriteKeeps DEF NothingNew
  <2>6. QED BY <1>10, <2>2, <2>5 DEF NothingNew
<1>11. ASSUME NEW w \in Workers, InsertBatch(w) PROVE RowsOK /\ WorkOK
  <2>1. PICK b \in Batches(w) :
          /\ nav' = [nav EXCEPT ![MyKey(w)[1]] = @ \union b]
          /\ work' = [work EXCEPT ![w] = [@ EXCEPT
               !.left = work[w].left \ b,
               !.index = work[w].index + Cardinality(b),
               !.inserted = work[w].inserted + Cardinality(b \ MyNav(w))]]
    BY <1>11 DEF InsertBatch
  <2>2. b \subseteq Date /\ MyKey(w)[1] \in Funds
    BY MyRowTyped DEF TypeOK, Work, Batches, Key
  <2>3. /\ nav \in [Funds -> SUBSET Date] /\ nav' \in [Funds -> SUBSET Date]
        /\ \A f \in Funds : nav[f] \subseteq nav'[f]
        /\ nav'[MyKey(w)[1]] = nav[MyKey(w)[1]] \union b
    BY <2>1, <2>2 DEF TypeOK
  <2>4. RowsOK
    <3> SUFFICES ASSUME NEW k \in Key PROVE Stored(nav', k[1], rows'[k].last)
      OBVIOUS
    <3>1. k[1] \in Funds /\ rows' = rows
      BY <1>11 DEF Key, InsertBatch
    <3>2. QED BY <2>3, <3>1 DEF IInv, Stored
  <2> DEFINE rest  == work[w].left \ b
             index == work[w].index + Cardinality(b)
             count == work[w].inserted + Cardinality(b \ MyNav(w))
             r == [work[w] EXCEPT !.left = rest, !.index = index, !.inserted = count]
  <2>5. work' = [work EXCEPT ![w] = r]
    BY <2>1
  <2>6. \A v \in Workers : work[v] \in Work /\ Knows(work[v], nav)
    BY DEF TypeOK, IInv
  <2>7. Knows(work[w], nav')
    BY <2>3, <2>6, KnowledgeStays
  <2> HIDE DEF index, count
  <2>8. /\ r.key = work[w].key /\ r.seen = work[w].seen /\ r.pc = "insert"
        /\ r.left = rest /\ r.latest = work[w].latest
    BY <1>11, <2>6 DEF Work, InsertBatch, At
  <2> HIDE DEF r
  <2>9. Knows(r, nav')
    <3>1. \A e \in Date : e <= work[w].latest =>
            e \in nav[work[w].key[1]] \union Unparsable \union work[w].left
      BY <1>11, <2>6 DEF InsertBatch, At, Knows
    <3>2. \A e \in Date : e <= work[w].latest =>
            e \in nav'[work[w].key[1]] \union Unparsable \union rest
      BY <2>3, <3>1 DEF MyKey
    <3>3. QED BY <2>7, <2>8, <3>2 DEF Knows
  <2>10. WorkOK
    <3> SUFFICES ASSUME NEW v \in Workers PROVE Knows(work'[v], nav')
      OBVIOUS
    <3>1. CASE v = w
      BY <2>5, <2>9, <3>1 DEF TypeOK
    <3>2. CASE v # w
      BY <2>3, <2>5, <2>6, <3>2, KnowledgeStays DEF TypeOK
    <3>3. QED BY <3>1, <3>2
  <2>11. QED BY <2>4, <2>10
<1>12. ASSUME NEW w \in Workers, AllInserted(w) PROVE RowsOK /\ WorkOK
  <2> DEFINE r == [work[w] EXCEPT !.pc = "count"]
  <2>1. work' = [work EXCEPT ![w] = r] /\ UNCHANGED <<rows, nav>>
    BY <1>12 DEF AllInserted, Goto
  <2>2. /\ work[w] \in Work /\ Knows(work[w], nav)
        /\ work[w].pc = "insert" /\ work[w].left = {}
    BY <1>12 DEF TypeOK, IInv, AllInserted, At
  <2>3. r.key = work[w].key /\ r.seen = work[w].seen /\ r.pc = "count" /\ r.latest = work[w].latest
    BY <2>2 DEF Work
  <2> HIDE DEF r
  <2>4. Knows(r, nav)
    BY <2>2, <2>3 DEF Knows, Stored
  <2>5. QED BY <2>1, <2>4, OneKnows, RowsKeep
<1>13. ASSUME NEW w \in Workers, BatchFails(w) PROVE RowsOK /\ WorkOK
  BY <1>13, EarlyKnows, RowsKeep DEF BatchFails, AfterFailedBatch, Early, Step
<1>14. ASSUME NEW w \in Workers, UpdateResumePointer(w) PROVE RowsOK /\ WorkOK
  <2>1. WorkOK
    BY <1>14, ReturnKnows DEF UpdateResumePointer
  <2>2. CASE UNCHANGED rows
    BY <1>14, <2>1, <2>2, RowsKeep DEF UpdateResumePointer
  <2> DEFINE r == [MyRow(w) EXCEPT !.status = "paused", !.pointer = work[w].index]
  <2>3. r.last = MyRow(w).last
    BY MyRowTyped DEF Row
  <2>4. CASE Write(w, r)
    <3> HIDE DEF r
    <3>1. QED BY <1>14, <2>1, <2>3, <2>4, SameDate, WriteKeeps DEF UpdateResumePointer
  <2>5. QED BY <1>14, <2>2, <2>4 DEF UpdateResumePointer
<1>15. ASSUME NEW w \in Workers, GetNAVCount(w) PROVE RowsOK /\ WorkOK
  <2>1. PICK n : work' = [work EXCEPT ![w] = [@ EXCEPT !.pc = "complete", !.total = n]]
    BY <1>15 DEF GetNAVCount
  <2> DEFINE r == [work[w] EXCEPT !.pc = "complete", !.total = n]
  <2>2. work' = [work EXCEPT ![w] = r] /\ UNCHANGED <<rows, nav>>
    BY <1>15, <2>1 DEF GetNAVCount
  <2>3. work[w] \in Work /\ Knows(work[w], nav) /\ work[w].pc = "count"
    BY <1>15 DEF TypeOK, IInv, GetNAVCount, At
  <2>4. r.key = work[w].key /\ r.seen = work[w].seen /\ r.pc = "complete" /\ r.latest = work[w].latest
    BY <2>3 DEF Work
  <2> HIDE DEF r
  <2>5. Knows(r, nav)
    BY <2>3, <2>4 DEF Knows
  <2>6. QED BY <2>2, <2>5, OneKnows, RowsKeep
<1>16. ASSUME NEW w \in Workers, MarkSyncCompleted(w) PROVE RowsOK /\ WorkOK
  <2>1. WorkOK
    BY <1>16, ReturnKnows DEF MarkSyncCompleted
  <2>2. CASE UNCHANGED rows
    BY <1>16, <2>1, <2>2, RowsKeep DEF MarkSyncCompleted
  <2> DEFINE r == Completed(MyRow(w), work[w].total, work[w].latest)
  <2>3. r.last = work[w].latest
    BY MyRowTyped DEF Completed, Row
  <2>4. Stored(nav, MyKey(w)[1], work[w].latest)
    BY <1>16 DEF MarkSyncCompleted, At, IInv, Knows, MyKey
  <2>5. CASE Write(w, r)
    <3> HIDE DEF r
    <3>1. QED BY <1>16, <2>1, <2>3, <2>4, <2>5, WriteKeeps DEF MarkSyncCompleted
  <2>6. QED BY <1>16, <2>2, <2>5 DEF MarkSyncCompleted
<1>17. ASSUME NEW w \in Workers, Finish(w) PROVE RowsOK /\ WorkOK
  <2>1. work' = [work EXCEPT ![w] = Resting] /\ UNCHANGED <<rows, nav>>
    BY <1>17 DEF Finish
  <2>2. Knows(Resting, nav)
    BY RestingTyped, RestKnows DEF Resting, NoRow, Early, Step
  <2>3. QED BY <2>1, <2>2, OneKnows, RowsKeep
<1>18. CASE ResumePausedSyncs
  <2> DEFINE open == {k \in Key : rows[k].status \in {"pending", "failed", "paused"}}
  <2>1. PICK late \in SUBSET {k \in open : rows[k].delayed} :
          work' = [work EXCEPT !["resumer"] =
                     [Resting EXCEPT !.pc = "next", !.todo = open \ late]]
    BY <1>18 DEF ResumePausedSyncs
  <2>2. open \ late \in SUBSET Key
    OBVIOUS
  <2> DEFINE r == [Resting EXCEPT !.pc = "next", !.todo = open \ late]
  <2>3. work' = [work EXCEPT !["resumer"] = r] /\ UNCHANGED <<rows, nav>>
    BY <1>18, <2>1 DEF ResumePausedSyncs
  <2> HIDE DEF open
  <2>4. r \in Work /\ r.seen.last = 0 /\ r.pc \in Early
    BY <2>2, RestingTyped DEF Work, Step, Early, Resting, NoRow
  <2> HIDE DEF r
  <2>5. Knows(r, nav) /\ "resumer" \in Workers
    BY <2>4, RestKnows DEF Workers
  <2>6. RowsOK /\ WorkOK
    BY <2>3, <2>5, OneKnows, RowsKeep
  <2>7. QED BY <2>6 DEF IInv
<1>19. CASE StopSync
  <2>1. WorkOK
    BY <1>19 DEF StopSync, TypeOK, Work, IInv, Knows
  <2>2. QED BY <1>19, <2>1, RowsKeep DEF StopSync, IInv
<1>20. CASE Publish
  BY <1>20 DEF Publish, IInv
<1>21. CASE Crash
  <2>1. Knows(Resting, nav)
    BY RestingTyped, RestKnows DEF Resting, NoRow, Early, Step
  <2>2. WorkOK
    BY <1>21, <2>1 DEF Crash
  <2>3. QED BY <1>21, <2>2, RowsKeep DEF Crash, IInv
<1>22. CASE UNCHANGED vars
  BY <1>22 DEF vars, IInv
<1>23. ASSUME RowsOK /\ WorkOK PROVE IInv'
  BY <1>23 DEF IInv
<1> HIDE DEF RowsOK, WorkOK
<1>24. QED
  BY <1>1, <1>2, <1>3, <1>4, <1>5, <1>6, <1>7, <1>8, <1>9, <1>10, <1>11, <1>12, <1>13,
     <1>14, <1>15, <1>16, <1>17, <1>18, <1>19, <1>20, <1>21, <1>22, <1>23
  DEF Next, Worker, SyncFund

\* Whatever fails, is cancelled, crashes or runs at the same time, no NAV is
\* missing below last_nav_date (syncFund and insertNAVWithResumability).
THEOREM SafeWatermark == Spec => []WatermarkComplete
<1>1. Init => IInv
  <2> SUFFICES ASSUME Init PROVE IInv
    OBVIOUS
  <2>1. \A k \in Key : Stored(nav, k[1], rows[k].last)
    BY DEF Init, NoRow, Stored, Date
  <2>2. Knows(Resting, nav)
    BY RestingTyped, RestKnows DEF Resting, NoRow, Early, Step
  <2>3. QED BY <2>1, <2>2 DEF Init, IInv
<1>2. TypeOK /\ TypeOK' /\ IInv /\ [Next]_vars => IInv'
  BY IInvStep
<1>3. IInv => WatermarkComplete
  BY DEF IInv, WatermarkComplete, CompleteUpTo, Stored
<1>4. QED BY <1>1, <1>2, <1>3, TypeCorrect, PTL DEF Spec
=============================================================================
