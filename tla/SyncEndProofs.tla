----------------------------- MODULE SyncEndProofs -----------------------------
(***************************************************************************)
(* For every finite set of funds and every history of failures: a          *)
(* goroutine of SyncService comes nearer to its end with every step it     *)
(* takes, and no other step takes it back.                                 *)
(***************************************************************************)
EXTENDS SyncRowsProofs

-----------------------------------------------------------------------------
(* Numbers *)

\* What a worker holds is finite, and it holds no more NAVs than there are days.
LEMMA FiniteWork ==
  ASSUME IsFiniteSet(Funds), NEW r \in Work
  PROVE  /\ IsFiniteSet(r.todo) /\ Cardinality(r.todo) \in Nat
         /\ IsFiniteSet(r.left) /\ Cardinality(r.left) \in 0..MaxDate
<1>1. IsFiniteSet(SyncTypes)
  <2>1. IsFiniteSet({"backfill"})
    BY FS_Singleton
  <2>2. IsFiniteSet({"backfill"} \union {"incremental"})
    BY <2>1, FS_AddElement
  <2>3. SyncTypes = {"backfill"} \union {"incremental"}
    BY DEF SyncTypes
  <2>4. QED BY <2>2, <2>3
<1>2. IsFiniteSet(Key)
  BY <1>1, FS_Product DEF Key
<1>3. IsFiniteSet(r.todo) /\ Cardinality(r.todo) \in Nat
  BY <1>2, FS_Subset, FS_CardinalityType DEF Work
<1>4. IsFiniteSet(Date) /\ Cardinality(Date) = MaxDate
  <2>1. IsFiniteSet(1..MaxDate) /\ Cardinality(1..MaxDate) = (IF 1 > MaxDate THEN 0 ELSE MaxDate - 1 + 1)
    BY DataAssumption, FS_Interval
  <2>2. QED BY <2>1, DataAssumption DEF Date
<1>5. IsFiniteSet(r.left) /\ Cardinality(r.left) <= MaxDate /\ Cardinality(r.left) \in Nat
  BY <1>4, FS_Subset, FS_CardinalityType DEF Work
<1>6. QED BY <1>3, <1>5, DataAssumption

\* One fund less is the steps of one fund less.
LEMMA OneLess ==
  ASSUME NEW n \in Nat \ {0}, NEW m \in Nat
  PROVE  (n - 1) * m = n * m - m /\ n * m \in Nat /\ (n - 1) * m \in Nat
OBVIOUS

\* What syncFund has before it is less than a fund is reckoned with.
LEMMA AheadBounded ==
  ASSUME IsFiniteSet(Funds), NEW r \in Work
  PROVE  /\ Ahead(r) \in 0..(MaxDate + 7)
         /\ r.pc # "next" => Ahead(r) >= 1
BY FiniteWork, DataAssumption DEF Ahead

\* The distance of a worker that is between its list and its end.
LEMMA DistanceOf ==
  ASSUME IsFiniteSet(Funds), NEW r \in Work
  PROVE  /\ Distance(r) \in Nat
         /\ r.pc = "idle" => Distance(r) = 0
         /\ r.pc = "list" => Distance(r) = Cardinality(Funds) * (MaxDate + 8) + 2
         /\ r.pc \notin {"idle", "list"} =>
              Distance(r) = Cardinality(r.todo) * (MaxDate + 8) + 1 + Ahead(r)
<1> DEFINE m == MaxDate + 8
           a == Cardinality(r.todo) * m
           b == Cardinality(Funds) * m
<1>1. m \in Nat /\ Cardinality(r.todo) \in Nat /\ Cardinality(Funds) \in Nat
  BY FiniteWork, FS_CardinalityType, DataAssumption
<1>2. a \in Nat /\ b \in Nat
  <2> HIDE DEF m
  <2>1. QED BY <1>1
<1>3. Ahead(r) \in Nat
  BY AheadBounded, DataAssumption
<1>4. Distance(r) = IF r.pc = "idle" THEN 0 ELSE IF r.pc = "list" THEN b + 2 ELSE a + 1 + Ahead(r)
  BY DEF Distance
<1> HIDE DEF a, b, m
<1>5. QED BY <1>2, <1>3, <1>4 DEF a, b, m

-----------------------------------------------------------------------------
(* The steps of syncFund *)

\* A step of one worker inside syncFund, which ends there or has less ahead.
GoesOn(w) ==
  /\ work[w].pc \notin {"idle", "list", "next"} /\ work'[w].pc \notin {"idle", "list"}
  /\ work'[w].todo = work[w].todo
  /\ Ahead(work'[w]) < Ahead(work[w])

LEMMA ReturnGoesOn ==
  ASSUME IsFiniteSet(Funds), TypeOK, NEW w \in Workers, Return(w),
         work[w].pc \notin {"idle", "list", "next"}
  PROVE  GoesOn(w)
<1>1. work'[w].pc = "next" /\ work'[w].todo = work[w].todo
  BY DEF Return, TypeOK, Resting
<1>2. Ahead(work'[w]) = 0
  BY <1>1 DEF Ahead
<1>3. Ahead(work[w]) >= 1
  BY AheadBounded DEF TypeOK
<1>4. QED BY <1>1, <1>2, <1>3, AheadBounded, DataAssumption DEF GoesOn, TypeOK

LEMMA GotoGoesOn ==
  ASSUME TypeOK, NEW w \in Workers, NEW s \in Step \ {"idle", "list"}, Goto(w, s),
         work[w].pc \notin {"idle", "list", "next"},
         \A r \in Work : r.pc = s /\ r.left = work[w].left => Ahead(r) < Ahead(work[w])
  PROVE  GoesOn(w)
<1>1. /\ work'[w].pc = s /\ work'[w].todo = work[w].todo /\ work'[w].left = work[w].left
      /\ work'[w] \in Work
  BY DEF Goto, TypeOK, Work
<1>2. QED BY <1>1 DEF GoesOn

\* Each step of syncFund either ends it or leaves less of it ahead.
LEMMA SyncFundGoesOn ==
  ASSUME IsFiniteSet(Funds), TypeOK, TypeOK', NEW w \in Workers, SyncFund(w)
  PROVE  GoesOn(w)
<1>0. /\ work \in [Workers -> Work] /\ work[w] \in Work /\ work'[w] \in Work
      /\ MaxDate \in Nat
  BY DataAssumption DEF TypeOK
<1>a. ASSUME Return(w), work[w].pc \notin {"idle", "list", "next"} PROVE GoesOn(w)
  BY <1>a, ReturnGoesOn
<1>1. CASE GetSyncState(w)
  <2>1. work[w].pc = "read"
    BY <1>1 DEF GetSyncState, At
  <2>2. CASE work' = [work EXCEPT ![w] = [work[w] EXCEPT
                  !.seen = MyRow(w),
                  !.pc = IF MyRow(w).status = "none" THEN "create" ELSE "mark"]]
    <3>1. work'[w].pc \in {"create", "mark"} /\ work'[w].todo = work[w].todo
      BY <1>0, <2>2 DEF Work
    <3>2. QED BY <1>0, <2>1, <3>1 DEF GoesOn, Ahead
  <2>3. QED BY <1>1, <1>a, <2>1, <2>2 DEF GetSyncState
<1>2. CASE CreateSyncState(w)
  <2>1. work[w].pc = "create"
    BY <1>2 DEF CreateSyncState, At
  <2>2. CASE work' = [work EXCEPT ![w] = [work[w] EXCEPT !.seen = NewRow, !.pc = "mark"]]
    <3>1. work'[w].pc = "mark" /\ work'[w].todo = work[w].todo
      BY <1>0, <2>2 DEF Work
    <3>2. QED BY <1>0, <2>1, <3>1 DEF GoesOn, Ahead
  <2>3. QED BY <1>2, <1>a, <2>1, <2>2 DEF CreateSyncState
<1>3. CASE MarkSyncInProgress(w)
  <2>1. work[w].pc = "mark"
    BY <1>3 DEF MarkSyncInProgress, At
  <2>2. CASE Goto(w, "fetch")
    BY <1>0, <2>1, <2>2, GotoGoesOn DEF Step, Ahead
  <2>3. QED BY <1>3, <1>a, <2>1, <2>2 DEF MarkSyncInProgress
<1>4. CASE Fetch(w)
  <2>1. work[w].pc = "fetch"
    BY <1>4 DEF Fetch, At
  <2>2. CASE Goto(w, "nothing")
    BY <1>0, <2>1, <2>2, GotoGoesOn DEF Step, Ahead
  <2>3. ASSUME NEW new, NEW d,
               work' = [work EXCEPT ![w] = [work[w] EXCEPT !.left = new, !.latest = d, !.pc = "insert"]]
        PROVE  GoesOn(w)
    <3>1. work'[w].pc = "insert" /\ work'[w].todo = work[w].todo
      BY <1>0, <2>3 DEF Work
    <3>2. Cardinality(work'[w].left) \in 0..MaxDate
      BY <1>0, FiniteWork
    <3>3. QED BY <1>0, <2>1, <3>1, <3>2 DEF GoesOn, Ahead
  <2>4. QED BY <1>4, <2>2, <2>3 DEF Fetch
<1>5. CASE FetchFails(w)
  <2>1. work[w].pc = "fetch" /\ Goto(w, "fail")
    BY <1>5 DEF FetchFails, At, AfterFailedFetch
  <2>2. QED BY <1>0, <2>1, GotoGoesOn DEF Step, Ahead
<1>6. CASE MarkSyncFailed(w) \/ NothingNew(w) \/ UpdateResumePointer(w) \/ MarkSyncCompleted(w)
  BY <1>6, <1>a DEF MarkSyncFailed, NothingNew, UpdateResumePointer, MarkSyncCompleted, At
<1>7. CASE InsertBatch(w)
  <2>1. work[w].pc = "insert" /\ work[w].left # {}
    BY <1>7 DEF InsertBatch, At
  <2>2. PICK b \in Batches(w) :
          work' = [work EXCEPT ![w] = [work[w] EXCEPT
            !.left = work[w].left \ b,
            !.index = work[w].index + Cardinality(b),
            !.inserted = work[w].inserted + Cardinality(b \ MyNav(w))]]
    BY <1>7 DEF InsertBatch
  <2>3. /\ work'[w].pc = "insert" /\ work'[w].todo = work[w].todo
        /\ work'[w].left = work[w].left \ b
    BY <1>0, <2>1, <2>2 DEF Work
  <2>4. PICK d \in b : d \in work[w].left
    <3>1. b \subseteq work[w].left /\ b # {}
      BY <2>1, DataAssumption, FS_EmptySet DEF Batches
    <3>2. QED BY <3>1
  <2>5. Cardinality(work'[w].left) < Cardinality(work[w].left)
    <3>1. /\ IsFiniteSet(work[w].left) /\ Cardinality(work[w].left) \in Nat
          /\ IsFiniteSet(work'[w].left) /\ Cardinality(work'[w].left) \in Nat
      BY <1>0, FiniteWork
    <3>2. work'[w].left \subseteq work[w].left \ {d}
      BY <2>3, <2>4
    <3>3. Cardinality(work[w].left \ {d}) = Cardinality(work[w].left) - 1
          /\ IsFiniteSet(work[w].left \ {d})
      BY <2>4, <3>1, FS_RemoveElement
    <3>4. Cardinality(work'[w].left) <= Cardinality(work[w].left \ {d})
      BY <3>2, <3>3, FS_Subset
    <3>5. QED BY <3>1, <3>3, <3>4
  <2>6. Cardinality(work'[w].left) \in Nat /\ Cardinality(work[w].left) \in Nat
    BY <1>0, FiniteWork
  <2>7. QED BY <2>1, <2>3, <2>5, <2>6 DEF GoesOn, Ahead
<1>8. CASE AllInserted(w)
  <2>1. work[w].pc = "insert" /\ Goto(w, "count")
    BY <1>8 DEF AllInserted, At
  <2>2. Cardinality(work[w].left) \in Nat
    BY <1>0, FiniteWork
  <2>3. QED BY <1>0, <2>1, <2>2, GotoGoesOn DEF Step, Ahead
<1>9. CASE BatchFails(w)
  <2>1. work[w].pc = "insert" /\ Goto(w, "pause")
    BY <1>9 DEF BatchFails, At, AfterFailedBatch
  <2>2. Cardinality(work[w].left) \in Nat
    BY <1>0, FiniteWork
  <2>3. QED BY <1>0, <2>1, <2>2, GotoGoesOn DEF Step, Ahead
<1>10. CASE GetNAVCount(w)
  <2>1. work[w].pc = "count"
    BY <1>10 DEF GetNAVCount, At
  <2>2. PICK n : work' = [work EXCEPT ![w] = [work[w] EXCEPT !.pc = "complete", !.total = n]]
    BY <1>10 DEF GetNAVCount
  <2>3. work'[w].pc = "complete" /\ work'[w].todo = work[w].todo
    BY <1>0, <2>2 DEF Work
  <2>4. QED BY <2>1, <2>3 DEF GoesOn, Ahead
<1>11. QED
  BY <1>1, <1>2, <1>3, <1>4, <1>5, <1>6, <1>7, <1>8, <1>9, <1>10 DEF SyncFund

-----------------------------------------------------------------------------
(* The steps of a goroutine *)

\* Until it has its list a worker has nothing on it (TriggerSync).
NoListYet == \A w \in Workers : work[w].pc = "list" => work[w].todo = {}

\* The list of runSync has as many entries as there are funds.
LEMMA ListSize ==
  ASSUME IsFiniteSet(Funds), NEW t
  PROVE  Cardinality(Funds \X {t}) = Cardinality(Funds)
<1>1. IsFiniteSet({t}) /\ Cardinality({t}) = 1
  BY FS_Singleton
<1>2. Cardinality(Funds \X {t}) = Cardinality(Funds) * Cardinality({t})
  BY <1>1, FS_Product
<1>3. Cardinality(Funds) \in Nat
  BY FS_CardinalityType
<1>4. QED BY <1>1, <1>2, <1>3

\* What runSync has before it once it has its list.
LEMMA ListFundsNears ==
  ASSUME IsFiniteSet(Funds), TypeOK, TypeOK', NoListYet, NEW w \in Workers, ListFunds(w)
  PROVE  work'[w].pc = "next" /\ Distance(work'[w]) < Distance(work[w])
<1> DEFINE b == Cardinality(Funds) * (MaxDate + 8)
<1>0. work \in [Workers -> Work] /\ work[w] \in Work /\ work'[w] \in Work
  BY DEF TypeOK
<1>1. work[w].pc = "list" /\ work[w].todo = {}
  BY DEF ListFunds, At, NoListYet
<1>2. work'[w].pc = "next" /\ work'[w].todo \in {{}, Funds \X {work[w].type}}
  <2>1. CASE work' = [work EXCEPT ![w] = [work[w] EXCEPT !.pc = "next",
                                          !.todo = Funds \X {work[w].type}]]
    BY <1>0, <2>1 DEF Work
  <2>2. CASE Goto(w, "next")
    BY <1>0, <1>1, <2>2 DEF Goto, Work
  <2>3. QED BY <2>1, <2>2 DEF ListFunds
<1>3. Cardinality(work'[w].todo) \in {0, Cardinality(Funds)} /\ Ahead(work'[w]) = 0
  BY <1>2, ListSize, FS_EmptySet DEF Ahead
<1>4. Cardinality(Funds) \in Nat /\ MaxDate \in Nat /\ 0 * (MaxDate + 8) = 0
  BY FS_CardinalityType, DataAssumption
<1>5. b \in Nat
  BY <1>4
<1>6. Distance(work'[w]) \in {1, b + 1} /\ Distance(work[w]) = b + 2
  BY <1>0, <1>1, <1>2, <1>3, <1>4, DistanceOf
<1> HIDE DEF b
<1>7. QED BY <1>2, <1>5, <1>6

\* The loop of runSync and ResumePausedSyncs takes a fund from its list.
LEMMA NextFundNears ==
  ASSUME IsFiniteSet(Funds), TypeOK, TypeOK', NEW w \in Workers, NextFund(w)
  PROVE  work'[w].pc = "read" /\ Distance(work'[w]) < Distance(work[w])
<1> DEFINE m == MaxDate + 8
           n == Cardinality(work[w].todo)
<1>0. work \in [Workers -> Work] /\ work[w] \in Work /\ work'[w] \in Work
  BY DEF TypeOK
<1>1. work[w].pc = "next"
  BY DEF NextFund, At
<1>2. PICK k \in work[w].todo :
        work' = [work EXCEPT ![w] =
          [Resting EXCEPT !.pc = "read", !.key = k, !.type = work[w].type,
                          !.todo = Without(work[w].todo, k)]]
  BY DEF NextFund
<1>3. work'[w].pc = "read" /\ work'[w].todo = work[w].todo \ {k}
  BY <1>0, <1>2 DEF Resting, Without
<1>4. n \in Nat /\ IsFiniteSet(work[w].todo) /\ m \in Nat /\ MaxDate \in Nat
  BY <1>0, FiniteWork, DataAssumption
<1>5. Cardinality(work'[w].todo) = n - 1 /\ n # 0
  BY <1>2, <1>3, <1>4, FS_RemoveElement, FS_EmptySet
<1>6. Ahead(work'[w]) = MaxDate + 7 /\ Ahead(work[w]) = 0
  BY <1>1, <1>3 DEF Ahead
<1>7. Distance(work'[w]) = (n - 1) * m + 1 + (MaxDate + 7) /\ Distance(work[w]) = n * m + 1
  <2>1. n * m \in Nat
    BY <1>4, <1>5, OneLess
  <2>2. Distance(work'[w]) = Cardinality(work'[w].todo) * m + 1 + Ahead(work'[w])
    BY <1>0, <1>3, DistanceOf
  <2>3. Distance(work[w]) = n * m + 1 + Ahead(work[w])
    BY <1>0, <1>1, DistanceOf
  <2>4. Distance(work'[w]) = (n - 1) * m + 1 + (MaxDate + 7)
    BY <1>5, <1>6, <2>2
  <2>5. n * m + 1 + 0 = n * m + 1
    BY <2>1
  <2>6. QED BY <1>6, <2>3, <2>4, <2>5
<1>8. (n - 1) * m = n * m - m /\ n * m \in Nat
  BY <1>4, <1>5, OneLess
<1>9. m = MaxDate + 8
  OBVIOUS
<1> DEFINE p == n * m
<1>10. /\ Distance(work'[w]) = (p - m) + 1 + (MaxDate + 7) /\ Distance(work[w]) = p + 1
       /\ p \in Nat
  BY <1>7, <1>8
<1> HIDE DEF p, n, m
<1>11. QED BY <1>3, <1>4, <1>9, <1>10

\* A step of a worker takes it nearer to its end, and back to its list never.
LEMMA WorkerNears ==
  ASSUME IsFiniteSet(Funds), TypeOK, TypeOK', NoListYet, NEW w \in Workers, Worker(w)
  PROVE  work'[w].pc # "list" /\ Distance(work'[w]) < Distance(work[w])
<1>0. work[w] \in Work /\ work'[w] \in Work
  BY DEF TypeOK
<1>1. CASE ListFunds(w)
  BY <1>1, ListFundsNears
<1>2. CASE NextFund(w)
  BY <1>2, NextFundNears
<1>3. CASE SyncFund(w)
  <2> DEFINE a == Cardinality(work[w].todo) * (MaxDate + 8)
  <2>1. GoesOn(w)
    BY <1>3, SyncFundGoesOn
  <2>2. /\ Distance(work[w]) = a + 1 + Ahead(work[w])
        /\ Distance(work'[w]) = a + 1 + Ahead(work'[w])
    BY <1>0, <2>1, DistanceOf DEF GoesOn
  <2>3. a \in Nat
    BY <1>0, FiniteWork, DataAssumption
  <2>4. Ahead(work[w]) \in Nat /\ Ahead(work'[w]) \in Nat
    BY <1>0, AheadBounded, DataAssumption
  <2> HIDE DEF a
  <2>5. QED BY <2>1, <2>2, <2>3, <2>4 DEF GoesOn
<1>4. CASE Finish(w)
  <2> DEFINE a == Cardinality(work[w].todo) * (MaxDate + 8)
  <2>1. work'[w].pc = "idle" /\ work[w].pc = "next"
    BY <1>4 DEF Finish, At, Resting, TypeOK
  <2>2. Distance(work'[w]) = 0 /\ Distance(work[w]) = a + 1 + Ahead(work[w])
    BY <1>0, <2>1, DistanceOf
  <2>3. a \in Nat
    BY <1>0, FiniteWork, DataAssumption
  <2>4. Ahead(work[w]) \in Nat
    BY <1>0, AheadBounded, DataAssumption
  <2> HIDE DEF a
  <2>5. QED BY <2>1, <2>2, <2>3, <2>4
<1>5. QED BY <1>1, <1>2, <1>3, <1>4 DEF Worker

-----------------------------------------------------------------------------
(* The steps of everybody else *)

\* A worker leaves the other one alone.
LEMMA OtherRests ==
  ASSUME TypeOK, NEW v \in Workers, NEW w \in Workers, v # w, Worker(v)
  PROVE  work'[w] = work[w]
<1>1. CASE ListFunds(v) \/ NextFund(v) \/ Finish(v)
  BY <1>1 DEF ListFunds, NextFund, Finish, Goto, TypeOK
<1>2. CASE GetSyncState(v) \/ CreateSyncState(v) \/ MarkSyncInProgress(v)
  BY <1>2 DEF GetSyncState, CreateSyncState, MarkSyncInProgress, Goto, Return, TypeOK
<1>3. CASE Fetch(v) \/ FetchFails(v) \/ MarkSyncFailed(v) \/ NothingNew(v)
  BY <1>3 DEF Fetch, FetchFails, MarkSyncFailed, NothingNew, Goto, Return, TypeOK
<1>4. CASE InsertBatch(v) \/ AllInserted(v) \/ BatchFails(v) \/ UpdateResumePointer(v)
  BY <1>4 DEF InsertBatch, AllInserted, BatchFails, UpdateResumePointer, Goto, Return, TypeOK
<1>5. CASE GetNAVCount(v) \/ MarkSyncCompleted(v)
  BY <1>5 DEF GetNAVCount, MarkSyncCompleted, Return, TypeOK
<1>6. QED BY <1>1, <1>2, <1>3, <1>4, <1>5 DEF Worker, SyncFund

\* Who is not asked for anything new has as far to go as before.
LEMMA AsFar ==
  ASSUME NEW r \in Work, NEW s \in Work, s.pc = r.pc, s.todo = r.todo, s.left = r.left
  PROVE  Distance(s) = Distance(r)
BY DEF Distance, Ahead

\* No step takes a goroutine back, and only TriggerSync sends one to its list.
LEMMA NearsStep ==
  ASSUME IsFiniteSet(Funds), TypeOK, TypeOK', RunnerRuns, NoListYet, [Next]_vars
  PROVE  /\ NoListYet'
         /\ \A w \in Workers : ~At(w, "idle") =>
              /\ Distance(work'[w]) <= Distance(work[w])
              /\ Worker(w) => Distance(work'[w]) < Distance(work[w])
<1>0. work \in [Workers -> Work] /\ \A w \in Workers : work[w] \in Work /\ work'[w] \in Work
  BY DEF TypeOK
<1>1. \A w \in Workers : Distance(work[w]) \in Nat /\ Distance(work'[w]) \in Nat
  BY <1>0, DistanceOf
<1>2. \A w \in Workers : Worker(w) => work'[w].pc # "list" /\ Distance(work'[w]) < Distance(work[w])
  BY WorkerNears
<1>3. SUFFICES NoListYet' /\ \A w \in Workers : ~At(w, "idle") => Distance(work'[w]) <= Distance(work[w])
  BY <1>2
<1>4. ASSUME NEW t \in SyncTypes, TriggerSync(t)
      PROVE  NoListYet' /\ \A w \in Workers : ~At(w, "idle") => Distance(work'[w]) <= Distance(work[w])
  <2>1. At("runner", "idle") /\ work'["runner"].todo = {}
    BY <1>0, <1>4 DEF TriggerSync, RunnerRuns, At, Resting, Workers
  <2>2. \A w \in Workers : w # "runner" => work'[w] = work[w]
    BY <1>0, <1>4 DEF TriggerSync
  <2>3. NoListYet'
    BY <2>1, <2>2 DEF NoListYet
  <2>4. QED BY <1>1, <2>1, <2>2, <2>3
<1>5. ASSUME NEW v \in Workers, Worker(v)
      PROVE  NoListYet' /\ \A w \in Workers : ~At(w, "idle") => Distance(work'[w]) <= Distance(work[w])
  <2>1. \A w \in Workers : w # v => work'[w] = work[w]
    BY <1>5, OtherRests
  <2>2. work'[v].pc # "list" /\ Distance(work'[v]) < Distance(work[v])
    BY <1>2, <1>5
  <2>3. NoListYet'
    BY <2>1, <2>2 DEF NoListYet
  <2>4. QED BY <1>1, <2>1, <2>2, <2>3
<1>6. CASE ResumePausedSyncs
  <2>1. At("resumer", "idle") /\ work'["resumer"].pc = "next"
    BY <1>0, <1>6 DEF ResumePausedSyncs, Resting, Workers
  <2>2. \A w \in Workers : w # "resumer" => work'[w] = work[w]
    BY <1>0, <1>6 DEF ResumePausedSyncs
  <2>3. NoListYet'
    BY <2>1, <2>2 DEF NoListYet
  <2>4. QED BY <1>1, <2>1, <2>2, <2>3
<1>7. CASE StopSync
  <2>1. \A w \in Workers : /\ work'[w].pc = work[w].pc /\ work'[w].todo = work[w].todo
                           /\ work'[w].left = work[w].left
    BY <1>0, <1>7 DEF StopSync, Work
  <2>2. NoListYet'
    BY <2>1 DEF NoListYet
  <2>3. \A w \in Workers : Distance(work'[w]) = Distance(work[w])
    BY <1>0, <2>1, AsFar
  <2>4. QED BY <1>1, <2>2, <2>3
<1>8. CASE Crash
  <2>1. \A w \in Workers : work'[w].pc = "idle"
    BY <1>8 DEF Crash, Resting
  <2>2. NoListYet'
    BY <2>1 DEF NoListYet
  <2>3. \A w \in Workers : Distance(work'[w]) = 0
    BY <1>0, <2>1, DistanceOf
  <2>4. QED BY <1>1, <2>2, <2>3
<1>9. CASE Publish \/ UNCHANGED vars
  <2>1. UNCHANGED work
    BY <1>9 DEF Publish, vars
  <2>2. QED BY <1>1, <2>1 DEF NoListYet
<1>10. QED BY <1>4, <1>5, <1>6, <1>7, <1>8, <1>9 DEF Next

\* Every step of a goroutine takes it nearer to its end, whatever fails, and no
\* step of anybody else takes it back: a sync of finitely many funds ends after
\* finitely many steps, with a bound that no later NAV, stop or failure moves
\* (runSync, ResumePausedSyncs, syncFund, insertNAVWithResumability).
THEOREM EndNears ==
  ASSUME IsFiniteSet(Funds)
  PROVE  Spec => NearsItsEnd
<1>1. Init => NoListYet
  BY DEF Init, NoListYet, Resting
<1>2. TypeOK /\ TypeOK' /\ RunnerRuns /\ NoListYet /\ [Next]_vars =>
        /\ NoListYet'
        /\ [\A w \in Workers : ~At(w, "idle") =>
              /\ Distance(work'[w]) <= Distance(work[w])
              /\ Worker(w) => Distance(work'[w]) < Distance(work[w])]_vars
  BY NearsStep
<1>3. QED BY <1>1, <1>2, TypeCorrect, Running, PTL DEF Spec, NearsItsEnd
=============================================================================
