----------------------------- MODULE ServerProofs -----------------------------
(***************************************************************************)
(* For every list of tracked funds, any number of requests and of          *)
(* recalculations: one sync at a time, what the handler answers, the       *)
(* catalogue under a server that works and crashes, and what the rows of   *)
(* fund_analytics are computed from.                                       *)
(***************************************************************************)
EXTENDS ServerQuiet, FundCatalogProofs, FiniteSetTheorems

-----------------------------------------------------------------------------
(* The catalogue *)

LEMMA MishapsBounded ==
  ASSUME mishaps \in 0..MaxMishaps, Calc!Succeeds \/ Calc!Fails
  PROVE  mishaps' \in 0..MaxMishaps
BY CatalogBoundsAssumption DEF Calc!Succeeds, Calc!Fails

\* What a step of a recalculation leaves alone.
LEMMA RunLeaves ==
  ASSUME NEW g \in Calculators, Calc!Run(g)
  PROVE  /\ UNCHANGED <<today, nav, windows, funds>>
         /\ Calc!Succeeds \/ Calc!Fails
         /\ calc[g].pc # "idle"
BY DEF Calc!Run, Calc!ListFunds, Calc!GetAnalyticsWindows, Calc!GetNAVHistory,
       Calc!UpsertFundAnalytics, Calc!Finish, Calc!tables, Calc!At, Calc!Succeeds, Calc!Fails

\* A step of the server is a step of the start, or leaves the catalogue alone.
LEMMA CatalogOrNot ==
  ASSUME mishaps \in 0..MaxMishaps, [ServerNext]_allVars
  PROVE  \/ [Next]_vars
         \/ UNCHANGED catalog /\ mishaps' \in 0..MaxMishaps
<1>1. ASSUME NEW r \in Requests, Handler(r) PROVE UNCHANGED <<catalog, mishaps>>
  BY <1>1 DEF Handler, Ask, Refuse, Trigger, TriggerAndRecalculate, results, Calc!Start
<1>2. ASSUME NEW g \in Calculators, Recalculate(g)
      PROVE  UNCHANGED catalog /\ mishaps' \in 0..MaxMishaps
  BY <1>2, RunLeaves, MishapsBounded DEF Recalculate
<1>3. CASE Sync \/ Publish
  BY <1>3 DEF Sync, Publish, results
<1>4. CASE BootServer \/ CrashServer
  BY <1>4 DEF BootServer, CrashServer, Next
<1>5. CASE UNCHANGED allVars
  BY <1>5 DEF allVars
<1>6. QED BY <1>1, <1>2, <1>3, <1>4, <1>5 DEF ServerNext

LEMMA CatalogStep == IInv /\ [ServerNext]_allVars => IInv'
<1> SUFFICES ASSUME IInv, [ServerNext]_allVars PROVE IInv'
  OBVIOUS
<1>1. CASE [Next]_vars
  BY <1>1, TypeStep, SoundStep, ProgressStep DEF IInv
<1>2. CASE UNCHANGED catalog /\ mishaps' \in 0..MaxMishaps
  <2>1. UNCHANGED <<windows, names, funds, step, at, table, ids>>
    BY <1>2 DEF catalog, tables, boot
  <2>2. TypeOK'
    BY <1>2, <2>1 DEF IInv, TypeOK
  <2>3. Position' /\ CatalogueSound' /\ Progress'
    BY <2>1 DEF IInv, Position, Looping, Refers, CatalogueSound, NoTwins, Progress, HasRow,
                IsRowOf, NameOf
  <2>4. QED BY <2>2, <2>3 DEF IInv
<1>3. QED BY <1>1, <1>2, CatalogOrNot DEF IInv, TypeOK

\* The inductive invariant of FundCatalog is one of the server.
LEMMA CatalogHolds == ServerSpec => []IInv
<1>1. ServerInit => IInv
  <2> SUFFICES ASSUME ServerInit PROVE IInv
    OBVIOUS
  <2>1. TypeOK /\ Position
    BY TypeInit DEF ServerInit
  <2>2. (\A t \in Table : names[t] = <<>>) /\ funds = <<>> /\ step = "down"
    BY DEF ServerInit, Init
  <2>3. CatalogueSound
    BY <2>2 DEF CatalogueSound, NoTwins, Table
  <2>4. Progress
    BY <2>2 DEF Progress, Looping, Table
  <2>5. QED BY <2>1, <2>3, <2>4 DEF IInv
<1>2. QED BY <1>1, CatalogStep, PTL DEF ServerSpec

\* The catalogue stays sound while the server works and wherever it crashes
\* (InitializeTrackedFunds).
THEOREM ServerCatalogue == ServerSpec => [](CatalogueSound /\ ServesComplete)
<1>1. IInv => CatalogueSound /\ ServesComplete
  BY DEF IInv, Progress, HasRow, ServesComplete
<1>2. QED BY <1>1, CatalogHolds, PTL

-----------------------------------------------------------------------------
(* The handler and the sync *)

\* Nobody works before the process serves, one sync runs at a time, and who has
\* seen IsRunning false and was not overtaken would still see it.
JobInv ==
  /\ isRunning \in BOOLEAN
  /\ active = (IF isRunning THEN 1 ELSE 0)
  /\ conv \in [Requests -> Conv]
  /\ \A r \in Requests : conv[r] = "checked" => ~isRunning
  /\ step # "up" => /\ ~isRunning
                    /\ \A r \in Requests : ~Checked(r)
                    /\ \A g \in Calculators : calc[g].pc = "idle"

LEMMA AcceptedTyped ==
  ASSUME NEW r \in Requests, Accept(r), conv \in [Requests -> Conv]
  PROVE  /\ conv' \in [Requests -> Conv]
         /\ \A q \in Requests : conv'[q] # "checked"
BY DEF Accept, Conv, Checked

LEMMA JobStep == JobInv /\ [ServerNext]_allVars => JobInv'
<1> SUFFICES ASSUME JobInv, [ServerNext]_allVars PROVE JobInv'
  OBVIOUS
<1>1. ASSUME NEW r \in Requests, Ask(r) PROVE JobInv'
  <2>1. UNCHANGED <<isRunning, active, step, calc>> /\ ~isRunning /\ step = "up"
    BY <1>1 DEF Ask, Sees, Serving, job, catalog, boot, results
  <2>2. conv' \in [Requests -> Conv]
    BY <1>1 DEF Ask, JobInv, Conv
  <2>3. QED BY <2>1, <2>2 DEF JobInv
<1>2. ASSUME NEW r \in Requests, Refuse(r) PROVE JobInv'
  <2>1. UNCHANGED <<isRunning, active, step, calc>>
    BY <1>2 DEF Refuse, job, catalog, boot, results
  <2>2. conv' = [conv EXCEPT ![r] = "none"]
    BY <1>2 DEF Refuse
  <2>3. conv' \in [Requests -> Conv] /\ \A q \in Requests : conv'[q] \in {conv[q], "none"}
    BY <2>2 DEF JobInv, Conv
  <2>4. QED BY <2>1, <2>3 DEF JobInv, Checked
<1>3. ASSUME NEW r \in Requests, Trigger(r) \/ TriggerAndRecalculate(r) PROVE JobInv'
  <2>1. /\ Checked(r) /\ ~isRunning /\ isRunning' = TRUE /\ active' = active + 1
        /\ Accept(r) /\ UNCHANGED step
    BY <1>3 DEF Trigger, TriggerAndRecalculate, Job!TriggerSync, Job!Free, catalog, boot
  <2>2. step = "up"
    BY <2>1 DEF JobInv
  <2>3. conv \in [Requests -> Conv] /\ active = 0
    BY <2>1 DEF JobInv
  <2>4. conv' \in [Requests -> Conv] /\ \A q \in Requests : conv'[q] # "checked"
    BY <2>1, <2>3, AcceptedTyped
  <2>5. isRunning' \in BOOLEAN /\ active' = (IF isRunning' THEN 1 ELSE 0)
    BY <2>1, <2>3
  <2>6. step' = "up"
    BY <2>1, <2>2
  <2>7. QED BY <2>4, <2>5, <2>6, Zenon DEF JobInv
<1>4. CASE Sync
  <2>1. /\ UNCHANGED <<step, conv, calc>>
        /\ \/ UNCHANGED <<isRunning, active>>
           \/ active > 0 /\ active' = active - 1 /\ isRunning' = FALSE
    BY <1>4 DEF Sync, Job!Store, Job!Finish, catalog, boot, results
  <2>2. CASE UNCHANGED <<isRunning, active>>
    BY <2>1, <2>2 DEF JobInv, Checked
  <2>3. CASE active > 0 /\ active' = active - 1 /\ isRunning' = FALSE
    <3>1. active' = 0 /\ ~isRunning'
      BY <2>3 DEF JobInv
    <3>2. isRunning' \in BOOLEAN /\ active' = (IF isRunning' THEN 1 ELSE 0)
      BY <2>3, <3>1
    <3>3. UNCHANGED <<step, conv, calc>>
      BY <2>1
    <3>4. QED BY <3>1, <3>2, <3>3, Zenon DEF JobInv, Checked
  <2>4. QED BY <2>1, <2>2, <2>3
<1>5. ASSUME NEW g \in Calculators, Recalculate(g) PROVE JobInv'
  <2>1. UNCHANGED <<isRunning, active, step, conv>> /\ calc[g].pc # "idle"
    BY <1>5, RunLeaves DEF Recalculate, catalog, boot
  <2>2. QED BY <2>1 DEF JobInv, Checked
<1>6. CASE Publish
  <2>1. UNCHANGED <<isRunning, active, step, conv, calc>>
    BY <1>6 DEF Publish, Job!Publish, catalog, boot, results
  <2>2. QED BY <2>1 DEF JobInv, Checked
<1>7. CASE BootServer
  <2>1. UNCHANGED <<isRunning, active, conv, calc>> /\ step # "up"
    BY <1>7 DEF BootServer, job, Boot, Start, Migrate, SelectId, InsertName, UpsertFund, StartFails
  <2>2. QED BY <2>1 DEF JobInv, Checked
<1>8. CASE CrashServer
  <2>1. isRunning' = FALSE /\ active' = 0 /\ conv' = [r \in Requests |-> "none"]
    BY <1>8 DEF CrashServer, Job!Abort
  <2>2. \A g \in Calculators : calc'[g].pc = "idle"
    BY <1>8 DEF CrashServer, Calc!Abort, Calc!Idle
  <2>3. conv' \in [Requests -> Conv] /\ \A r \in Requests : conv'[r] = "none"
    BY <2>1 DEF Conv
  <2>4. isRunning' \in BOOLEAN /\ active' = (IF isRunning' THEN 1 ELSE 0) /\ ~isRunning'
    BY <2>1
  <2>5. \A r \in Requests : conv'[r] # "checked" /\ ~Checked(r)'
    BY <2>3 DEF Checked
  <2>6. QED BY <2>2, <2>3, <2>4, <2>5, Zenon DEF JobInv
<1>9. CASE UNCHANGED allVars
  BY <1>9 DEF allVars, job, vars, JobInv, Checked
<1>10. QED
  BY <1>1, <1>2, <1>3, <1>4, <1>5, <1>6, <1>7, <1>8, <1>9 DEF ServerNext, Handler

LEMMA JobHolds == ServerSpec => []JobInv
<1>1. ServerInit => JobInv
  <2> SUFFICES ASSUME ServerInit PROVE JobInv
    OBVIOUS
  <2>1. isRunning = FALSE /\ active = 0
    BY DEF ServerInit, Job!Init
  <2>2. conv \in [Requests -> Conv] /\ \A r \in Requests : ~Checked(r) /\ conv[r] # "checked"
    BY DEF ServerInit, Conv, Checked
  <2>3. \A g \in Calculators : calc[g].pc = "idle"
    BY DEF ServerInit, Calc!Init, Calc!Idle
  <2>4. isRunning \in BOOLEAN /\ active = (IF isRunning THEN 1 ELSE 0) /\ ~isRunning
    BY <2>1
  <2>5. QED BY <2>2, <2>3, <2>4, Zenon DEF JobInv
<1>2. QED BY <1>1, JobStep, PTL DEF ServerSpec

\* However the two looks of any number of requests at isRunning interleave, at
\* most one sync runs (SyncHandler.TriggerSync, SyncService.TriggerSync).
THEOREM OneFlight == ServerSpec => []SingleFlight
<1>1. JobInv => SingleFlight
  BY DEF JobInv, SingleFlight
<1>2. QED BY <1>1, JobHolds, PTL

\* 500 only answers a request that another one overtook (SyncHandler.TriggerSync).
THEOREM RivalsOnly == ServerSpec => RefusedOnlyByRival
<1>1. JobInv /\ [ServerNext]_allVars
        => [\A r \in Requests : Refuse(r) => conv[r] = "overtaken"]_allVars
  BY DEF JobInv, Refuse, Checked
<1>2. QED BY <1>1, JobHolds, PTL DEF ServerSpec, RefusedOnlyByRival

-----------------------------------------------------------------------------
(* Least and greatest elements *)

\* Of the intervals up to an element of S, all within one finite interval, one
\* has no other inside it.
LEMMA LeastExists ==
  ASSUME NEW S, S \subseteq Nat, S # {}
  PROVE  \E x \in S : \A y \in S : x <= y
<1>1. PICK n \in S : n \in Nat
  OBVIOUS
<1> DEFINE Up(m) == 0..m
           T == {Up(m) : m \in {k \in S : k <= n}}
           U == 0..n
<1>2. IsFiniteSet(U)
  BY <1>1, FS_Interval
<1>3. FiniteSubsetsOf(U) = SUBSET U
  BY <1>2, FS_FiniteSubsetsOfFinite
<1>4. IsWellFoundedOn(StrictSubsetOrdering(U), SUBSET U)
  BY <1>3, FS_StrictSubsetOrderingWellFounded
<1>5. T \subseteq SUBSET U /\ T # {}
  BY <1>1
<1>6. PICK t \in T : \A s \in T : ~(<<s, t>> \in StrictSubsetOrdering(U))
  <2> HIDE DEF T, U
  <2>1. QED BY <1>4, <1>5, WFMin
<1>7. PICK x \in S : x <= n /\ t = Up(x)
  BY <1>6
<1>8. ASSUME NEW y \in S, y < x PROVE FALSE
  <2>1. x \in Nat /\ y \in Nat /\ y <= n /\ n \in Nat
    BY <1>1, <1>7, <1>8
  <2>2. Up(y) \in T
    BY <2>1
  <2>3. Up(y) \subseteq Up(x) /\ Up(y) # Up(x)
    <3>1. x \in Up(x) /\ x \notin Up(y)
      BY <1>8, <2>1
    <3>2. QED BY <1>8, <2>1, <3>1
  <2>4. Up(y) \in SUBSET U /\ Up(x) \in SUBSET U
    BY <1>7, <2>1
  <2> HIDE DEF T, U, Up
  <2>5. <<Up(y), Up(x)>> \in StrictSubsetOrdering(U)
    BY <2>3, <2>4 DEF StrictSubsetOrdering
  <2>6. QED BY <1>6, <1>7, <2>2, <2>5
<1>9. \A y \in S : x <= y
  <2> SUFFICES ASSUME NEW y \in S PROVE x <= y
    OBVIOUS
  <2>1. ~(y < x) /\ x \in Nat /\ y \in Nat
    BY <1>8
  <2>2. QED BY <2>1
<1>10. QED BY <1>9

\* The greatest element is the least one seen from a bound.
LEMMA GreatestExists ==
  ASSUME NEW n \in Nat, NEW S, S \subseteq 0..n, S # {}
  PROVE  \E x \in S : \A y \in S : y <= x
<1> DEFINE T == {n - m : m \in S}
<1>1. T \subseteq Nat /\ T # {}
  <2>1. \A m \in S : n - m \in Nat
    OBVIOUS
  <2>2. QED BY <2>1
<1>2. PICK t \in T : \A u \in T : t <= u
  <2> HIDE DEF T
  <2>1. QED BY <1>1, LeastExists
<1>3. PICK x \in S : t = n - x
  BY <1>2
<1>4. ASSUME NEW y \in S PROVE y <= x
  <2>1. n - y \in T /\ x \in Nat /\ y \in Nat
    OBVIOUS
  <2>2. n - x <= n - y
    BY <1>2, <1>3, <2>1
  <2>3. QED BY <2>1, <2>2
<1>5. QED BY <1>4

LEMMA FirstAndLast ==
  ASSUME NEW n \in Nat, NEW S, S \subseteq 0..n, S # {}
  PROVE  /\ Calc!First(S) \in S /\ \A d \in S : Calc!First(S) <= d
         /\ Calc!Last(S) \in S /\ \A d \in S : d <= Calc!Last(S)
<1>1. \E x \in S : \A y \in S : x <= y
  <2>1. S \subseteq Nat
    OBVIOUS
  <2>2. QED BY <2>1, LeastExists
<1>2. \E x \in S : \A y \in S : y <= x
  BY GreatestExists
<1>3. QED BY <1>1, <1>2 DEF Calc!First, Calc!Last

\* The window at hand.
Least(W) == CHOOSE w \in W : \A v \in W : w <= v

LEMMA LeastIsIn ==
  ASSUME NEW W \in SUBSET SeedWindows, W # {}
  PROVE  Least(W) \in W
<1>1. \E w \in W : \A v \in W : w <= v
  BY LeastExists, DatesAssumption
<1>2. QED BY <1>1 DEF Least

-----------------------------------------------------------------------------
(* The NAVs *)

\* Only what is published is stored, and only under the ids of funds whose
\* scheme the API knows.
DataInv ==
  /\ today \in 0..MaxDate
  /\ nav \in [Listed -> SUBSET (1..today)]
  /\ \A f \in Listed : nav[f] # {} => f \in DOMAIN funds /\ funds[f].scheme \in Quoted

\* No step takes a scheme away from its id.
LEMMA SchemesStay ==
  ASSUME IInv, [ServerNext]_allVars
  PROVE  \A i \in DOMAIN funds : i \in DOMAIN funds' /\ funds'[i].scheme = funds[i].scheme
<1>1. CASE UNCHANGED funds
  BY <1>1
<1>2. CASE UpsertFund
  BY <1>2, UpsertedRows DEF UpsertFund, IInv
<1>3. CASE UNCHANGED catalog
  BY <1>1, <1>3 DEF catalog, tables
<1>4. CASE [Next]_vars
  BY <1>1, <1>2, <1>4
  DEF Next, Boot, Start, Migrate, SelectId, InsertName, StartFails, Crash, tables, vars
<1>5. QED BY <1>3, <1>4, CatalogOrNot DEF IInv, TypeOK

\* The day does not go back, and no NAV is ever removed.
LEMMA NavGrows ==
  ASSUME DataInv, [ServerNext]_allVars
  PROVE  /\ today' \in today..MaxDate
         /\ nav' \in [Listed -> SUBSET (1..today')]
         /\ \A f \in Listed : nav[f] \subseteq nav'[f]
         /\ \A f \in Listed : nav'[f] = nav[f]
              \/ (f \in DOMAIN funds /\ funds[f].scheme \in Quoted /\ UNCHANGED funds)
<1>0. MaxDate \in Nat
  BY DatesAssumption
<1>1. CASE UNCHANGED <<today, nav>>
  BY <1>0, <1>1 DEF DataInv
<1>2. CASE Sync
  <2>1. CASE Job!Finish
    BY <1>1, <2>1 DEF Job!Finish
  <2>2. ASSUME NEW f \in DOMAIN funds, funds[f].scheme \in Quoted, Job!Store(f)
        PROVE  /\ today' = today
               /\ nav' \in [Listed -> SUBSET (1..today)]
               /\ \A g \in Listed : nav[g] \subseteq nav'[g]
               /\ \A g \in Listed : g # f => nav'[g] = nav[g]
    <3>1. PICK new \in SUBSET (1..today) : nav' = [nav EXCEPT ![f] = nav[f] \union new]
      BY <2>2 DEF Job!Store
    <3>2. today' = today
      BY <2>2 DEF Job!Store
    <3>3. QED BY <3>1, <3>2 DEF DataInv
  <2>3. UNCHANGED funds
    BY <1>2 DEF Sync, catalog, tables
  <2>4. QED BY <1>0, <1>2, <2>1, <2>2, <2>3 DEF Sync, DataInv
<1>3. CASE Publish
  BY <1>0, <1>3 DEF Publish, Job!Publish, DataInv
<1>4. ASSUME NEW r \in Requests, Handler(r) PROVE UNCHANGED <<today, nav>>
  BY <1>4 DEF Handler, Ask, Refuse, Trigger, TriggerAndRecalculate, job, Job!TriggerSync
<1>5. ASSUME NEW g \in Calculators, Recalculate(g) PROVE UNCHANGED <<today, nav>>
  BY <1>5, RunLeaves DEF Recalculate
<1>6. CASE BootServer \/ CrashServer \/ UNCHANGED allVars
  BY <1>1, <1>6 DEF BootServer, CrashServer, job, Job!Abort, allVars
<1>7. QED BY <1>1, <1>2, <1>3, <1>4, <1>5, <1>6 DEF ServerNext

LEMMA DataHolds == ServerSpec => []DataInv
<1>1. ServerInit => DataInv
  BY DatesAssumption DEF ServerInit, Job!Init, DataInv
<1>2. IInv /\ DataInv /\ [ServerNext]_allVars => DataInv'
  <2> SUFFICES ASSUME IInv, DataInv, [ServerNext]_allVars PROVE DataInv'
    OBVIOUS
  <2>1. today' \in 0..MaxDate
    BY NavGrows DEF DataInv
  <2>2. ASSUME NEW f \in Listed, nav'[f] # {}
        PROVE  f \in DOMAIN funds' /\ funds'[f].scheme \in Quoted
    <3>1. f \in DOMAIN funds /\ funds[f].scheme \in Quoted
      BY <2>2, NavGrows DEF DataInv
    <3>2. QED BY <3>1, SchemesStay
  <2>3. QED BY <2>1, <2>2, NavGrows DEF DataInv
<1>3. QED BY <1>1, <1>2, CatalogHolds, PTL DEF ServerSpec

\* A scheme keeps its id while the server works and across all its starts
\* (UpsertFund).
THEOREM ServerIds == ServerSpec => IdsStable
<1> DEFINE Stable == \A i \in DOMAIN funds :
                       i \in DOMAIN funds' /\ funds'[i].scheme = funds[i].scheme
<1>1. IInv /\ [ServerNext]_allVars => [Stable]_vars
  BY SchemesStay
<1>2. QED BY <1>1, CatalogHolds, PTL DEF ServerSpec, IdsStable

\* Until the process serves, only its start changes the catalogue or counts a
\* mishap: no goroutine of an earlier process is left.
LEMMA OnlyStarts ==
  ASSUME JobInv, [ServerNext]_allVars
  PROVE  [Next]_vars \/ (step = "up" /\ UNCHANGED catalog)
<1>1. ASSUME NEW r \in Requests, Handler(r) PROVE UNCHANGED vars
  BY <1>1, Zenon DEF Handler, Ask, Refuse, Trigger, TriggerAndRecalculate, results, Calc!Start,
              catalog, tables, boot, vars
<1>2. ASSUME NEW g \in Calculators, Recalculate(g)
      PROVE  step = "up" /\ UNCHANGED catalog
  BY <1>2, RunLeaves DEF Recalculate, JobInv
<1>3. CASE Sync \/ Publish
  BY <1>3 DEF Sync, Publish, results, catalog, tables, boot, vars
<1>4. CASE BootServer \/ CrashServer
  BY <1>4 DEF BootServer, CrashServer, Next
<1>5. CASE UNCHANGED allVars
  BY <1>5 DEF allVars
<1>6. QED BY <1>1, <1>2, <1>3, <1>4, <1>5 DEF ServerNext

\* Every start of the server, whatever ran and crashed before it, has each of its
\* statements accepted and gets nearer to serving with it (GetOrCreateAMC,
\* GetOrCreateCategory).
THEOREM ServerGetsOn == ServerSpec => StartGetsOn
<1> DEFINE Nearer == step # "up" /\ mishaps' = mishaps => Remaining' < Remaining
<1>1. ServerInit => NameIsNew
  BY DEF ServerInit, Init, NameIsNew
<1>2. IInv /\ JobInv /\ NameIsNew /\ [ServerNext]_allVars => NameIsNew' /\ [Nearer]_vars
  <2> SUFFICES ASSUME IInv, JobInv, NameIsNew, [ServerNext]_allVars
               PROVE  NameIsNew' /\ [Nearer]_vars
    OBVIOUS
  <2>1. CASE [Next]_vars
    BY <2>1, GetsOnStep DEF IInv
  <2>2. CASE step = "up" /\ UNCHANGED catalog
    BY <2>2 DEF catalog, boot, NameIsNew
  <2>3. QED BY <2>1, <2>2, OnlyStarts
<1> HIDE DEF Nearer
<1>3. ServerSpec => [][Nearer]_vars
  BY <1>1, <1>2, CatalogHolds, JobHolds, PTL DEF ServerSpec
<1>4. QED BY <1>3 DEF Nearer, StartGetsOn

-----------------------------------------------------------------------------
(* Cardinalities *)

\* Analytics brings its own instance of FiniteSets.
LEMMA SameCardinality == ASSUME NEW S PROVE Calc!Cardinality(S) = Cardinality(S)
BY DEF Calc!Cardinality, Cardinality

-----------------------------------------------------------------------------
(* The ids of funds *)

LEMMA CountUpTo ==
  ASSUME NEW n \in Nat
  PROVE  IsFiniteSet(1..n) /\ Cardinality(1..n) = n
<1>1. IsFiniteSet(1..n) /\ Cardinality(1..n) = (IF 1 > n THEN 0 ELSE n - 1 + 1)
  BY FS_Interval
<1>2. QED BY <1>1

\* There are no more rows than tracked funds.
LEMMA FundsListed ==
  ASSUME IInv
  PROVE  DOMAIN funds \subseteq Listed
<1> DEFINE N == Len(TrackedFunds)
           n(i) == CHOOSE m \in Listed : TrackedFunds[m].scheme = funds[i].scheme
           F == [i \in 1..Len(funds) |-> n(i)]
<1>1. Len(funds) \in Nat /\ DOMAIN funds = 1..Len(funds)
  BY DEF IInv, TypeOK
<1>2. N \in Nat /\ Listed = 1..N
  BY FirstListed, TrackedTyped, TrackedAssumption DEF Listed
<1>3. ASSUME NEW i \in DOMAIN funds
      PROVE  n(i) \in Listed /\ TrackedFunds[n(i)].scheme = funds[i].scheme
  BY DEF IInv, CatalogueSound, IsRowOf
<1> HIDE DEF n
<1>4. F \in [1..Len(funds) -> 1..N]
  BY <1>1, <1>2, <1>3
<1>5. ASSUME NEW i \in 1..Len(funds), NEW j \in 1..Len(funds), F[i] = F[j] PROVE i = j
  BY <1>1, <1>3, <1>5 DEF IInv, CatalogueSound
<1>6. Len(funds) <= N
  <2> SUFFICES ASSUME N < Len(funds) PROVE FALSE
    BY <1>1, <1>2
  <2>1. Cardinality(1..N) = N /\ IsFiniteSet(1..N)
    BY <1>2, CountUpTo
  <2>2. Cardinality(1..Len(funds)) = Len(funds) /\ IsFiniteSet(1..Len(funds))
    BY <1>1, CountUpTo
  <2> HIDE DEF F, N
  <2>3. \E x, y \in 1..Len(funds) : x # y /\ F[x] = F[y]
    BY <1>4, <2>1, <2>2, FS_PigeonHole
  <2>4. QED BY <1>5, <2>3
<1>7. QED BY <1>1, <1>2, <1>6

\* The server uses the sync as SyncJob allows: whatever the requests, the
\* recalculations and the starts do, they start it through TriggerSync only and
\* leave what it stores alone (main, SyncHandler).
THEOREM ServerUsesSyncJob == ServerSpec => Job!Spec
<1>1. ServerInit => Job!Init
  BY DEF ServerInit
<1>2. IInv /\ [ServerNext]_allVars => [Job!Next]_(Job!vars)
  <2> SUFFICES ASSUME IInv, [ServerNext]_allVars PROVE [Job!Next]_(Job!vars)
    OBVIOUS
  <2>1. ASSUME NEW r \in Requests, Ask(r) \/ Refuse(r) PROVE UNCHANGED Job!vars
    BY <2>1 DEF Ask, Refuse, job, Job!vars
  <2>2. ASSUME NEW r \in Requests, Trigger(r) \/ TriggerAndRecalculate(r) PROVE Job!Next
    BY <2>2 DEF Trigger, TriggerAndRecalculate, Job!Next
  <2>3. CASE Sync
    BY <2>3, FundsListed DEF Sync, Job!Next
  <2>4. ASSUME NEW g \in Calculators, Recalculate(g) PROVE UNCHANGED Job!vars
    BY <2>4, RunLeaves DEF Recalculate, Job!vars
  <2>5. CASE Publish \/ CrashServer
    BY <2>5 DEF Publish, CrashServer, Job!Next
  <2>6. CASE BootServer \/ UNCHANGED allVars
    BY <2>6 DEF BootServer, allVars, job, Job!vars
  <2>7. QED BY <2>1, <2>2, <2>3, <2>4, <2>5, <2>6 DEF ServerNext, Handler
<1>3. QED BY <1>1, <1>2, CatalogHolds, PTL DEF ServerSpec, Job!Spec

-----------------------------------------------------------------------------
(* What a recalculation knows *)

DatesOf(r, dates) == {d \in dates : r.first <= d /\ d <= r.last}

\* Calc!Backed, of any set of dates.
BackedBy(r, dates, w) ==
  /\ r.first \in dates /\ r.last \in dates
  /\ r.last - r.first <= w
  /\ 2 <= r.points
  /\ r.points <= Cardinality(DatesOf(r, dates))

\* It has read its clock; it is about to store a row that is backed by NAVs of
\* no later a day; and if it is alone, no row in the table is of a later day,
\* nor the row to be replaced of a later date than the new one.
Knows(c, nv, st, day) ==
  /\ c.pc \in {"query", "store"} => c.left # {} /\ c.day <= day
  /\ c.pc = "store" => /\ BackedBy(c.seen, nv[c.fund], Least(c.left))
                       /\ c.seen.last <= c.day
  /\ c.pc \in {"query", "store"} /\ c.alone =>
       \A f \in Listed, w \in SeedWindows : st[f][w].last <= c.day
  /\ c.pc = "store" /\ c.alone => st[c.fund][Least(c.left)].last <= c.seen.last

Lonely(g) ==
  calc[g].pc # "idle" /\ calc[g].alone =>
    \A h \in Calculators : h # g => calc[h].pc = "idle"

Rows == Calc!Stats \union {Calc!NoStats}

Backing(st, nv) ==
  \A f \in Listed, w \in SeedWindows : st[f][w] # Calc!NoStats => BackedBy(st[f][w], nv[f], w)

CalcInv ==
  /\ stats \in [Listed -> [SeedWindows -> Rows]]
  /\ calc \in [Calculators -> Calc!Calc]
  /\ Backing(stats, nav)
  /\ \A g \in Calculators : Lonely(g) /\ Knows(calc[g], nav, stats, today)

LEMMA IdleTyped ==
  /\ Calc!Idle \in Calc!Calc
  /\ Calc!Idle.pc = "idle" /\ Calc!Idle.alone = TRUE
  /\ Calc!NoStats \in Rows
<1>1. Listed # {}
  BY FirstListed
<1>2. (CHOOSE f \in Listed : TRUE) \in Listed
  BY <1>1
<1>3. 0 \in 0..MaxDate
  BY DatesAssumption
<1>4. QED BY <1>2, <1>3 DEF Calc!Idle, Calc!Calc, Rows

LEMMA RowTyped ==
  ASSUME NEW r \in Rows
  PROVE  /\ r.first \in Nat /\ r.last \in Nat /\ r.points \in Nat
         /\ r.last = 0 => r = Calc!NoStats
BY DatesAssumption DEF Rows, Calc!Stats, Calc!NoStats, Calc!Date

\* More NAVs back no fewer rows.
LEMMA BackedGrows ==
  ASSUME NEW D \in SUBSET (1..MaxDate), NEW E \in SUBSET (1..MaxDate), D \subseteq E,
         NEW r, NEW w, BackedBy(r, D, w), r.points \in Nat
  PROVE  BackedBy(r, E, w)
<1>1. DatesOf(r, D) \subseteq DatesOf(r, E) /\ DatesOf(r, E) \subseteq 1..MaxDate
  BY DEF DatesOf
<1>2. IsFiniteSet(1..MaxDate)
  BY DatesAssumption, FS_Interval
<1>3. IsFiniteSet(DatesOf(r, E))
  BY <1>1, <1>2, FS_Subset
<1>4. /\ Cardinality(DatesOf(r, D)) <= Cardinality(DatesOf(r, E))
      /\ IsFiniteSet(DatesOf(r, D))
  BY <1>1, <1>3, FS_Subset
<1>5. Cardinality(DatesOf(r, D)) \in Nat /\ Cardinality(DatesOf(r, E)) \in Nat
  BY <1>3, <1>4, FS_CardinalityType
<1>6. r.points <= Cardinality(DatesOf(r, D))
  BY DEF BackedBy
<1>7. r.points <= Cardinality(DatesOf(r, E))
  BY <1>4, <1>5, <1>6
<1>8. QED BY <1>7 DEF BackedBy

\* What a query of a window returns, if it is enough, makes a row that is
\* backed, of no later a day than the query's, and of no earlier a date than
\* any NAV of the fund up to that day (calculateMetrics).
LEMMA Summaries ==
  ASSUME DataInv, NEW f \in Listed, NEW w \in SeedWindows, NEW day \in 0..today,
         NEW S, S = Calc!History(f, w, day), Calc!Enough(S),
         NEW r, r = Calc!Summary(S)
  PROVE  /\ r \in Calc!Stats
         /\ BackedBy(r, nav[f], w)
         /\ r.last <= day
         /\ \A d \in nav[f] : d <= day => d <= r.last
<1>1. nav[f] \subseteq 1..today /\ today \in Nat /\ w \in Nat /\ MaxDate \in Nat /\ today <= MaxDate
  BY DatesAssumption DEF DataInv
<1>2. S = {d \in nav[f] : day - w <= d /\ d <= day}
  BY DEF Calc!History
<1>3. S \subseteq 0..today /\ S \subseteq 1..MaxDate
  BY <1>1, <1>2
<1>4. IsFiniteSet(S) /\ Cardinality(S) \in Nat
  <2>1. IsFiniteSet(1..MaxDate)
    BY <1>1, FS_Interval
  <2>2. IsFiniteSet(S)
    BY <1>3, <2>1, FS_Subset
  <2>3. QED BY <2>2, FS_CardinalityType
<1>5. Cardinality(S) >= 2
  BY SameCardinality DEF Calc!Enough
<1>6. S # {}
  BY <1>5, FS_EmptySet
<1>7. /\ Calc!First(S) \in S /\ Calc!Last(S) \in S
      /\ \A d \in S : Calc!First(S) <= d /\ d <= Calc!Last(S)
  BY <1>1, <1>3, <1>6, FirstAndLast
<1>8. r.first = Calc!First(S) /\ r.last = Calc!Last(S) /\ r.points = Cardinality(S)
  BY SameCardinality DEF Calc!Summary
<1>9. r \in Calc!Stats
  BY <1>3, <1>4, <1>7, SameCardinality DEF Calc!Summary, Calc!Stats, Calc!Date
<1>10. r.first \in S /\ r.last \in S /\ \A d \in S : r.first <= d /\ d <= r.last
  BY <1>7, <1>8
<1>11. Cardinality(S) <= Cardinality(DatesOf(r, nav[f]))
  <2>1. DatesOf(r, nav[f]) \subseteq 1..MaxDate /\ S \subseteq DatesOf(r, nav[f])
    BY <1>1, <1>2, <1>10 DEF DatesOf
  <2>2. IsFiniteSet(1..MaxDate)
    BY <1>1, FS_Interval
  <2>3. IsFiniteSet(DatesOf(r, nav[f]))
    BY <2>1, <2>2, FS_Subset
  <2>4. QED BY <2>1, <2>3, FS_Subset
<1>12. /\ r.first \in nav[f] /\ r.last \in nav[f]
       /\ day - w <= r.first /\ r.first <= r.last /\ r.last <= day
  BY <1>2, <1>10
<1>13. r.first \in Nat /\ r.last \in Nat /\ day \in Nat
  BY <1>1, <1>12
<1>14. r.last - r.first <= w
  BY <1>1, <1>12, <1>13
<1>15. ASSUME NEW d \in nav[f], d <= day PROVE d <= r.last
  <2>1. d \in Nat
    BY <1>1
  <2>2. CASE day - w <= d
    BY <1>2, <1>10, <1>15, <2>2
  <2>3. CASE ~(day - w <= d)
    BY <1>1, <1>12, <1>13, <2>1, <2>3
  <2>4. QED BY <2>2, <2>3
<1>16. BackedBy(r, nav[f], w)
  <2>1. 2 <= r.points /\ r.points <= Cardinality(DatesOf(r, nav[f]))
    BY <1>5, <1>8, <1>11
  <2>2. QED BY <1>12, <1>14, <2>1 DEF BackedBy
<1>17. QED BY <1>9, <1>12, <1>15, <1>16

-----------------------------------------------------------------------------
(* The steps of a recalculation *)

\* A recalculation that goes on does not disturb the others: what they know of
\* the table they only know if nobody else works.
LEMMA OneRuns ==
  ASSUME CalcInv, NEW g \in Calculators, NEW r \in Calc!Calc,
         calc[g].pc # "idle", calc' = [calc EXCEPT ![g] = r],
         r.pc = "idle" \/ r.alone = calc[g].alone,
         UNCHANGED <<today, nav>>,
         stats' \in [Listed -> [SeedWindows -> Rows]], Backing(stats', nav),
         Knows(r, nav, stats', today)
  PROVE  CalcInv'
<1>1. calc' \in [Calculators -> Calc!Calc] /\ calc'[g] = r
  BY DEF CalcInv
<1>2. \A h \in Calculators : h # g => calc'[h] = calc[h]
  BY DEF CalcInv
<1>3. Lonely(g)'
  BY <1>1, <1>2 DEF CalcInv, Lonely
<1>4. ASSUME NEW h \in Calculators, h # g
      PROVE  Lonely(h)' /\ Knows(calc[h], nav, stats', today)
  <2>1. calc[h].pc = "idle" \/ ~calc[h].alone
    BY <1>4 DEF CalcInv, Lonely
  <2>2. Lonely(h)'
    BY <1>2, <1>4, <2>1 DEF Lonely
  <2>3. Knows(calc[h], nav, stats, today)
    BY DEF CalcInv
  <2>4. QED BY <2>1, <2>2, <2>3 DEF Knows
<1>5. \A h \in Calculators : Lonely(h)' /\ Knows(calc'[h], nav', stats', today')
  BY <1>1, <1>2, <1>3, <1>4
<1>6. Backing(stats', nav')
  OBVIOUS
<1>7. QED BY <1>1, <1>5, <1>6 DEF CalcInv

\* Before the next fund there is nothing to know.
LEMMA NextFundKnows ==
  ASSUME CalcInv, NEW g \in Calculators, NEW todo \in SUBSET Listed, Calc!NextFund(g, todo),
         NEW nv, NEW st, NEW day
  PROVE  \E r \in Calc!Calc :
           calc' = [calc EXCEPT ![g] = r] /\ r.alone = calc[g].alone /\ Knows(r, nv, st, day)
<1> DEFINE r == [Calc!Idle EXCEPT !.pc = "next", !.todo = todo, !.alone = calc[g].alone]
<1>1. calc[g].alone \in BOOLEAN
  BY DEF CalcInv, Calc!Calc
<1>2. r \in Calc!Calc /\ r.pc = "next" /\ r.alone = calc[g].alone
  BY <1>1, IdleTyped DEF Calc!Calc
<1>3. calc' = [calc EXCEPT ![g] = r]
  BY DEF Calc!NextFund
<1> HIDE DEF r
<1>4. Knows(r, nv, st, day)
  BY <1>2 DEF Knows
<1>5. QED BY <1>2, <1>3, <1>4

\* Before the next window it knows its day, and what that says of the table.
LEMMA NextWindowKnows ==
  ASSUME CalcInv, NEW g \in Calculators, calc[g].pc \in {"query", "store"},
         Calc!NextWindow(g), NEW st,
         calc[g].alone =>
           \A f \in Listed, w \in SeedWindows : st[f][w].last <= calc[g].day
  PROVE  \E r \in Calc!Calc :
           calc' = [calc EXCEPT ![g] = r] /\ r.alone = calc[g].alone /\ Knows(r, nav, st, today)
<1>1. calc[g] \in Calc!Calc /\ Knows(calc[g], nav, stats, today)
  BY DEF CalcInv
<1>2. CASE calc[g].left = {Calc!Window(g)}
  <2>1. calc[g].todo \in SUBSET Listed /\ Calc!NextFund(g, calc[g].todo)
    BY <1>1, <1>2 DEF Calc!NextWindow, Calc!Calc
  <2>2. QED BY <2>1, NextFundKnows
<1>3. CASE calc[g].left # {Calc!Window(g)}
  <2> DEFINE rest == calc[g].left \ {Calc!Window(g)}
             r == [calc[g] EXCEPT !.pc = "query", !.seen = Calc!NoStats, !.left = rest]
  <2>1. calc' = [calc EXCEPT ![g] = r]
    BY <1>3 DEF Calc!NextWindow
  <2>2. rest \in SUBSET SeedWindows /\ rest # {}
    BY <1>1, <1>3 DEF Knows, Calc!Calc
  <2> HIDE DEF rest
  <2>3. r \in Calc!Calc
    BY <1>1, <2>2, IdleTyped DEF Calc!Calc
  <2>4. /\ r.pc = "query" /\ r.left = rest /\ r.day = calc[g].day
        /\ r.alone = calc[g].alone
    BY <1>1 DEF Calc!Calc
  <2> HIDE DEF r
  <2>5. Knows(r, nav, st, today)
    BY <1>1, <2>2, <2>4 DEF Knows
  <2>6. QED BY <2>1, <2>3, <2>4, <2>5
<1>4. QED BY <1>2, <1>3

LEMMA ListStep ==
  ASSUME IInv, CalcInv, NEW g \in Calculators, Calc!ListFunds(g)
  PROVE  CalcInv'
<1>1. calc[g].pc # "idle" /\ UNCHANGED <<today, nav, stats>>
  BY DEF Calc!ListFunds, Calc!At, Calc!tables
<1>2. Backing(stats, nav) /\ stats \in [Listed -> [SeedWindows -> Rows]]
  BY DEF CalcInv
<1>3. CASE Calc!NextFund(g, DOMAIN funds)
  <2>1. DOMAIN funds \in SUBSET Listed
    BY FundsListed
  <2>2. PICK r \in Calc!Calc : /\ calc' = [calc EXCEPT ![g] = r] /\ r.alone = calc[g].alone
                               /\ Knows(r, nav, stats, today)
    BY <1>3, <2>1, NextFundKnows
  <2>3. QED BY <1>1, <1>2, <2>2, OneRuns
<1>4. CASE calc' = [calc EXCEPT ![g] = Calc!Idle]
  <2>1. Knows(Calc!Idle, nav, stats, today)
    BY IdleTyped DEF Knows
  <2>2. QED BY <1>1, <1>2, <1>4, <2>1, IdleTyped, OneRuns
<1>5. QED BY <1>3, <1>4 DEF Calc!ListFunds

LEMMA FinishStep ==
  ASSUME CalcInv, NEW g \in Calculators, Calc!Finish(g)
  PROVE  CalcInv'
<1>1. /\ calc[g].pc # "idle" /\ UNCHANGED <<today, nav, stats>>
      /\ calc' = [calc EXCEPT ![g] = Calc!Idle]
  BY DEF Calc!Finish, Calc!At, Calc!tables
<1>2. Knows(Calc!Idle, nav, stats, today)
  BY IdleTyped DEF Knows
<1>3. Backing(stats, nav) /\ stats \in [Listed -> [SeedWindows -> Rows]]
  BY DEF CalcInv
<1>4. QED BY <1>1, <1>2, <1>3, IdleTyped, OneRuns

\* No row is of a later day than today, when the clock is read.
LEMMA RowsOfThePast ==
  ASSUME DataInv, CalcInv, NEW f \in Listed, NEW w \in SeedWindows
  PROVE  stats[f][w].last <= today
<1>1. stats[f][w] \in Rows /\ today \in Nat /\ nav[f] \subseteq 1..today
  BY DatesAssumption DEF CalcInv, DataInv
<1>2. CASE stats[f][w] = Calc!NoStats
  BY <1>1, <1>2 DEF Calc!NoStats
<1>3. CASE stats[f][w] # Calc!NoStats
  <2>1. stats[f][w].last \in nav[f]
    BY <1>3 DEF CalcInv, Backing, BackedBy
  <2>2. QED BY <1>1, <2>1
<1>4. QED BY <1>2, <1>3

LEMMA WindowsStep ==
  ASSUME IInv, JobInv, DataInv, CalcInv, NEW g \in Calculators, Calc!GetAnalyticsWindows(g)
  PROVE  CalcInv'
<1>1. calc[g].pc = "next" /\ UNCHANGED <<today, nav, stats>> /\ calc[g] \in Calc!Calc
  BY DEF Calc!GetAnalyticsWindows, Calc!At, Calc!tables, CalcInv
<1>2. Backing(stats, nav) /\ stats \in [Listed -> [SeedWindows -> Rows]]
  BY DEF CalcInv
<1>3. windows = SeedWindows /\ SeedWindows # {}
  BY <1>1, DatesAssumption DEF IInv, Progress, JobInv
<1>4. PICK f \in calc[g].todo :
        \/ calc' = [calc EXCEPT ![g] = [calc[g] EXCEPT
                      !.pc = "query", !.fund = f, !.todo = calc[g].todo \ {f},
                      !.day = today, !.left = windows]]
        \/ Calc!NextFund(g, calc[g].todo \ {f})
  BY DEF Calc!GetAnalyticsWindows
<1>5. f \in Listed /\ calc[g].todo \ {f} \in SUBSET Listed
  BY <1>1 DEF Calc!Calc
<1>6. CASE Calc!NextFund(g, calc[g].todo \ {f})
  <2>1. PICK r \in Calc!Calc : /\ calc' = [calc EXCEPT ![g] = r] /\ r.alone = calc[g].alone
                               /\ Knows(r, nav, stats, today)
    BY <1>5, <1>6, NextFundKnows
  <2>2. QED BY <1>1, <1>2, <2>1, OneRuns
<1>7. CASE calc' = [calc EXCEPT ![g] = [calc[g] EXCEPT
                      !.pc = "query", !.fund = f, !.todo = calc[g].todo \ {f},
                      !.day = today, !.left = windows]]
  <2> DEFINE r == [calc[g] EXCEPT !.pc = "query", !.fund = f, !.todo = calc[g].todo \ {f},
                                  !.day = today, !.left = windows]
  <2>1. today \in 0..MaxDate
    BY DEF DataInv
  <2>2. r \in Calc!Calc
    BY <1>1, <1>3, <1>5, <2>1 DEF Calc!Calc
  <2>3. /\ r.pc = "query" /\ r.left = SeedWindows /\ r.day = today
        /\ r.alone = calc[g].alone
    BY <1>1, <1>3 DEF Calc!Calc
  <2>4. calc' = [calc EXCEPT ![g] = r]
    BY <1>7
  <2> HIDE DEF r
  <2>5. Knows(r, nav, stats, today)
    <3>1. \A h \in Listed, w \in SeedWindows : stats[h][w].last <= today
      BY RowsOfThePast
    <3>2. today <= today
      BY <2>1, DatesAssumption
    <3>3. QED BY <1>3, <2>3, <3>1, <3>2 DEF Knows
  <2>6. QED BY <1>1, <1>2, <2>2, <2>3, <2>4, <2>5, OneRuns
<1>8. QED BY <1>4, <1>6, <1>7

LEMMA QueryStep ==
  ASSUME DataInv, CalcInv, NEW g \in Calculators, Calc!GetNAVHistory(g)
  PROVE  CalcInv'
<1> DEFINE f == calc[g].fund
           w == Calc!Window(g)
           day == calc[g].day
           S == Calc!History(f, w, day)
           seen == Calc!Summary(S)
<1>1. calc[g].pc = "query" /\ UNCHANGED <<today, nav, stats>> /\ calc[g] \in Calc!Calc
  BY DEF Calc!GetNAVHistory, Calc!At, Calc!tables, CalcInv
<1>2. Backing(stats, nav) /\ stats \in [Listed -> [SeedWindows -> Rows]]
  BY DEF CalcInv
<1>3. Knows(calc[g], nav, stats, today)
  BY DEF CalcInv
<1>4. /\ f \in Listed /\ calc[g].left \in SUBSET SeedWindows /\ calc[g].left # {}
      /\ day \in 0..today /\ w = Least(calc[g].left)
  <2>1. today \in Nat /\ MaxDate \in Nat
    BY DatesAssumption DEF DataInv
  <2>2. QED BY <1>1, <1>3, <2>1 DEF Knows, Calc!Calc, Calc!Window, Least
<1>5. w \in SeedWindows
  BY <1>4, LeastIsIn
<1>6. CASE Calc!NextWindow(g)
  <2>1. calc[g].alone => \A i \in Listed, v \in SeedWindows : stats[i][v].last <= calc[g].day
    BY <1>1, <1>3 DEF Knows
  <2>2. PICK r \in Calc!Calc : /\ calc' = [calc EXCEPT ![g] = r] /\ r.alone = calc[g].alone
                               /\ Knows(r, nav, stats, today)
    BY <1>1, <1>6, <2>1, NextWindowKnows
  <2>3. QED BY <1>1, <1>2, <2>2, OneRuns
<1>7. CASE /\ Calc!Enough(S)
           /\ calc' = [calc EXCEPT ![g] = [calc[g] EXCEPT !.pc = "store", !.seen = seen]]
  <2> HIDE DEF S, seen, w
  <2> DEFINE r == [calc[g] EXCEPT !.pc = "store", !.seen = seen]
  <2>1. /\ seen \in Calc!Stats /\ BackedBy(seen, nav[f], w) /\ seen.last <= day
        /\ \A d \in nav[f] : d <= day => d <= seen.last
    BY <1>4, <1>5, <1>7, Summaries DEF S, seen
  <2>2. r \in Calc!Calc
    BY <1>1, <2>1 DEF Calc!Calc
  <2>3. /\ r.pc = "store" /\ r.left = calc[g].left /\ r.day = day /\ r.fund = f
        /\ r.alone = calc[g].alone /\ r.seen = seen
    BY <1>1 DEF Calc!Calc
  <2>4. calc' = [calc EXCEPT ![g] = r]
    BY <1>7
  <2> HIDE DEF r
  <2>5. calc[g].alone => stats[f][w].last <= seen.last
    <3> SUFFICES ASSUME calc[g].alone PROVE stats[f][w].last <= seen.last
      OBVIOUS
    <3>1. stats[f][w] \in Rows /\ seen.last \in Nat
      BY <1>2, <1>4, <1>5, <2>1, RowTyped DEF Rows
    <3>2. stats[f][w].last <= day
      BY <1>1, <1>3, <1>4, <1>5 DEF Knows
    <3>3. CASE stats[f][w] = Calc!NoStats
      BY <3>1, <3>3 DEF Calc!NoStats
    <3>4. CASE stats[f][w] # Calc!NoStats
      <4>1. stats[f][w].last \in nav[f]
        BY <1>2, <1>4, <1>5, <3>4 DEF Backing, BackedBy
      <4>2. QED BY <2>1, <3>2, <4>1
    <3>5. QED BY <3>3, <3>4
  <2>6. Knows(r, nav, stats, today)
    BY <1>1, <1>3, <1>4, <2>1, <2>3, <2>5 DEF Knows
  <2>7. QED BY <1>1, <1>2, <2>2, <2>3, <2>4, <2>6, OneRuns
<1>8. QED BY <1>6, <1>7 DEF Calc!GetNAVHistory

\* What is stored, and that it is backed.
LEMMA StoredRow ==
  ASSUME DataInv, CalcInv, NEW g \in Calculators, Calc!UpsertFundAnalytics(g)
  PROVE  /\ calc[g].pc = "store" /\ UNCHANGED <<today, nav>>
         /\ calc[g].fund \in Listed /\ Least(calc[g].left) \in SeedWindows
         /\ stats' \in [Listed -> [SeedWindows -> Rows]]
         /\ \A f \in Listed, w \in SeedWindows :
              \/ stats'[f][w] = stats[f][w]
              \/ f = calc[g].fund /\ w = Least(calc[g].left) /\ stats'[f][w] = calc[g].seen
<1> DEFINE x == Least(calc[g].left)
<1>1. calc[g].pc = "store" /\ UNCHANGED <<today, nav>> /\ calc[g] \in Calc!Calc
  BY DEF Calc!UpsertFundAnalytics, Calc!At, Calc!tables, CalcInv
<1>2. /\ calc[g].fund \in Listed /\ calc[g].seen \in Rows
      /\ calc[g].left \in SUBSET SeedWindows /\ calc[g].left # {}
  BY <1>1 DEF CalcInv, Knows, Calc!Calc, Rows
<1>3. x \in SeedWindows
  BY <1>2, LeastIsIn
<1>4. stats \in [Listed -> [SeedWindows -> Rows]]
  BY DEF CalcInv
<1>5. \/ stats' = stats
      \/ stats' = [stats EXCEPT ![calc[g].fund] = [stats[calc[g].fund] EXCEPT ![x] = calc[g].seen]]
  BY DEF Calc!UpsertFundAnalytics, Calc!Stored, Calc!Window, Least
<1> HIDE DEF x
<1>6. /\ stats' \in [Listed -> [SeedWindows -> Rows]]
      /\ \A f \in Listed, w \in SeedWindows :
           \/ stats'[f][w] = stats[f][w]
           \/ f = calc[g].fund /\ w = x /\ stats'[f][w] = calc[g].seen
  BY <1>2, <1>3, <1>4, <1>5
<1>7. QED BY <1>1, <1>2, <1>3, <1>6 DEF x

LEMMA StoreStep ==
  ASSUME DataInv, CalcInv, NEW g \in Calculators, Calc!UpsertFundAnalytics(g)
  PROVE  CalcInv'
<1>1. Knows(calc[g], nav, stats, today) /\ Backing(stats, nav)
  BY DEF CalcInv
<1>2. Backing(stats', nav)
  BY <1>1, StoredRow DEF Backing, Knows
<1>3. calc[g].alone =>
        \A f \in Listed, w \in SeedWindows : stats'[f][w].last <= calc[g].day
  BY <1>1, StoredRow DEF Knows
<1>4. Calc!NextWindow(g)
  BY DEF Calc!UpsertFundAnalytics
<1>5. PICK r \in Calc!Calc : /\ calc' = [calc EXCEPT ![g] = r] /\ r.alone = calc[g].alone
                             /\ Knows(r, nav, stats', today)
  BY <1>3, <1>4, StoredRow, NextWindowKnows
<1>6. QED BY <1>2, <1>5, StoredRow, OneRuns

-----------------------------------------------------------------------------
(* The steps around the recalculations *)

\* The sync and the API only add to what a recalculation knows.
LEMMA OthersRun ==
  ASSUME DataInv, CalcInv, [ServerNext]_allVars, UNCHANGED <<stats, calc>>
  PROVE  CalcInv'
<1>1. /\ today \in 0..MaxDate /\ today' \in 0..MaxDate /\ today <= today' /\ MaxDate \in Nat
      /\ \A f \in Listed : /\ nav[f] \in SUBSET (1..MaxDate) /\ nav'[f] \in SUBSET (1..MaxDate)
                           /\ nav[f] \subseteq nav'[f]
  BY DatesAssumption, NavGrows DEF DataInv
<1>2. Backing(stats, nav')
  <2>1. ASSUME NEW f \in Listed, NEW w \in SeedWindows, stats[f][w] # Calc!NoStats
        PROVE  BackedBy(stats[f][w], nav'[f], w)
    <3>1. stats[f][w].points \in Nat /\ BackedBy(stats[f][w], nav[f], w)
      BY <2>1, RowTyped DEF CalcInv, Backing
    <3>2. QED BY <1>1, <3>1, BackedGrows
  <2>2. QED BY <2>1 DEF Backing
<1>3. ASSUME NEW g \in Calculators PROVE Knows(calc[g], nav', stats, today')
  <2> DEFINE c == calc[g]
  <2>1. c \in Calc!Calc /\ Knows(c, nav, stats, today)
    BY DEF CalcInv
  <2>2. c.fund \in Listed /\ c.day \in Nat /\ c.seen.points \in Nat
    BY <1>1, <2>1, RowTyped DEF Calc!Calc, Rows
  <2> HIDE DEF c
  <2>3. c.pc = "store" => BackedBy(c.seen, nav'[c.fund], Least(c.left))
    BY <1>1, <2>1, <2>2, BackedGrows DEF Knows
  <2>4. c.pc \in {"query", "store"} => c.day <= today'
    BY <1>1, <2>1, <2>2 DEF Knows
  <2>5. Knows(c, nav', stats, today')
    BY <2>1, <2>3, <2>4 DEF Knows
  <2>6. QED BY <2>5 DEF c
<1>4. \A g \in Calculators : Lonely(g)'
  BY DEF CalcInv, Lonely
<1>5. QED BY <1>2, <1>3, <1>4 DEF CalcInv

LEMMA StartStep ==
  ASSUME CalcInv, NEW g \in Calculators, Calc!Start(g)
  PROVE  CalcInv'
<1> DEFINE company == {h \in Calculators : ~Calc!At(h, "idle")}
           r == [Calc!Idle EXCEPT !.pc = "list", !.alone = (company = {})]
           s(h) == [calc[h] EXCEPT !.alone = FALSE]
<1>1. /\ calc[g].pc = "idle" /\ UNCHANGED <<today, nav, stats>>
      /\ calc' = [h \in Calculators |-> IF h = g THEN r ELSE IF h \in company THEN s(h) ELSE calc[h]]
  BY DEF Calc!Start, Calc!At, Calc!tables
<1>2. \A h \in Calculators : h \in company <=> calc[h].pc # "idle"
  BY DEF Calc!At
<1>3. \A h \in Calculators : calc[h] \in Calc!Calc /\ Knows(calc[h], nav, stats, today)
  BY DEF CalcInv
<1>4. /\ r \in Calc!Calc /\ r.pc = "list"
      /\ r.alone => \A h \in Calculators : calc[h].pc = "idle"
  <2>1. (company = {}) \in BOOLEAN
    OBVIOUS
  <2>2. (company = {}) => \A h \in Calculators : calc[h].pc = "idle"
    BY <1>2
  <2> HIDE DEF company
  <2>3. r \in Calc!Calc /\ r.pc = "list" /\ r.alone = (company = {})
    BY <2>1, IdleTyped DEF Calc!Calc
  <2>4. QED BY <2>2, <2>3
<1>5. ASSUME NEW h \in Calculators
      PROVE  /\ s(h) \in Calc!Calc /\ s(h).alone = FALSE
             /\ s(h).pc = calc[h].pc /\ s(h).left = calc[h].left /\ s(h).day = calc[h].day
             /\ s(h).fund = calc[h].fund /\ s(h).seen = calc[h].seen
  BY <1>3 DEF Calc!Calc
<1> HIDE DEF r, s, company
<1>6. calc' \in [Calculators -> Calc!Calc]
  BY <1>1, <1>3, <1>4, <1>5
<1>7. ASSUME NEW h \in Calculators, h # g PROVE calc'[h].pc = calc[h].pc
  BY <1>1, <1>5, <1>7
<1>8. ASSUME NEW h \in Calculators PROVE Lonely(h)'
  <2>1. CASE h = g
    <3>1. calc'[h].alone => \A i \in Calculators : i # g => calc'[i].pc = "idle"
      BY <1>1, <1>4, <1>7, <2>1
    <3>2. QED BY <2>1, <3>1 DEF Lonely
  <2>2. CASE h # g /\ h \in company
    BY <1>1, <1>5, <2>2 DEF Lonely
  <2>3. CASE h # g /\ h \notin company
    BY <1>1, <1>2, <2>3 DEF Lonely
  <2>4. QED BY <2>1, <2>2, <2>3
<1>9. ASSUME NEW h \in Calculators PROVE Knows(calc'[h], nav, stats, today)
  <2>1. CASE h = g
    BY <1>1, <1>4, <2>1 DEF Knows
  <2>2. CASE h # g /\ h \in company
    <3>1. calc'[h] = s(h)
      BY <1>1, <2>2
    <3>2. Knows(s(h), nav, stats, today)
      BY <1>3, <1>5 DEF Knows
    <3>3. QED BY <3>1, <3>2
  <2>3. CASE h # g /\ h \notin company
    BY <1>1, <1>3, <2>3
  <2>4. QED BY <2>1, <2>2, <2>3
<1>10. QED BY <1>1, <1>6, <1>8, <1>9 DEF CalcInv

LEMMA AbortStep ==
  ASSUME CalcInv, Calc!Abort, UNCHANGED <<today, nav>>
  PROVE  CalcInv'
<1>1. calc' \in [Calculators -> Calc!Calc] /\ \A g \in Calculators : calc'[g] = Calc!Idle
  BY IdleTyped DEF Calc!Abort
<1>2. \A g \in Calculators : Lonely(g)' /\ Knows(calc'[g], nav, stats, today)
  BY <1>1, IdleTyped DEF Lonely, Knows
<1>3. UNCHANGED stats
  BY DEF Calc!Abort
<1>4. QED BY <1>1, <1>2, <1>3 DEF CalcInv

LEMMA CalcStep ==
  IInv /\ JobInv /\ DataInv /\ CalcInv /\ [ServerNext]_allVars => CalcInv'
<1> SUFFICES ASSUME IInv, JobInv, DataInv, CalcInv, [ServerNext]_allVars PROVE CalcInv'
  OBVIOUS
<1>1. ASSUME NEW g \in Calculators, Recalculate(g) PROVE CalcInv'
  BY <1>1, ListStep, WindowsStep, QueryStep, StoreStep, FinishStep DEF Recalculate, Calc!Run
<1>2. ASSUME NEW r \in Requests, TriggerAndRecalculate(r) PROVE CalcInv'
  BY <1>2, StartStep DEF TriggerAndRecalculate
<1>3. CASE CrashServer
  BY <1>3, AbortStep DEF CrashServer, Job!Abort
<1>4. ASSUME NEW r \in Requests, Ask(r) \/ Refuse(r) \/ Trigger(r) PROVE UNCHANGED <<stats, calc>>
  BY <1>4 DEF Ask, Refuse, Trigger, results
<1>5. CASE Sync \/ Publish \/ BootServer \/ UNCHANGED allVars
  BY <1>5, OthersRun DEF Sync, Publish, BootServer, results, allVars
<1>6. QED BY <1>1, <1>2, <1>3, <1>4, <1>5, OthersRun DEF ServerNext, Handler

LEMMA CalcHolds == ServerSpec => []CalcInv
<1>1. ServerInit => CalcInv
  <2> SUFFICES ASSUME ServerInit PROVE CalcInv
    OBVIOUS
  <2>1. /\ stats = [f \in Listed |-> [w \in SeedWindows |-> Calc!NoStats]]
        /\ calc = [g \in Calculators |-> Calc!Idle]
    BY DEF ServerInit, Calc!Init
  <2>2. stats \in [Listed -> [SeedWindows -> Rows]] /\ Backing(stats, nav)
    BY <2>1, IdleTyped DEF Backing
  <2>3. calc \in [Calculators -> Calc!Calc] /\ \A g \in Calculators : calc[g] = Calc!Idle
    BY <2>1, IdleTyped
  <2>4. \A g \in Calculators : Lonely(g) /\ Knows(calc[g], nav, stats, today)
    BY <2>3, IdleTyped DEF Lonely, Knows
  <2>5. QED BY <2>2, <2>3, <2>4 DEF CalcInv
<1>2. QED BY <1>1, CalcStep, CatalogHolds, JobHolds, DataHolds, PTL DEF ServerSpec

-----------------------------------------------------------------------------
(* The theorems *)

\* Every variable keeps its type, with any number of requests and of
\* recalculations.
THEOREM ServerTypes == ServerSpec => []ServerTypeOK
<1>1. IInv /\ JobInv /\ DataInv /\ CalcInv => ServerTypeOK
  <2> SUFFICES ASSUME IInv, JobInv, DataInv, CalcInv PROVE ServerTypeOK
    OBVIOUS
  <2>1. TypeOK /\ mishaps \in 0..MaxMishaps
    BY DEF IInv, TypeOK
  <2>2. Calc!TypeOK
    BY <2>1 DEF CalcInv, Calc!TypeOK, Rows
  <2>3. today \in 0..MaxDate /\ nav \in [Listed -> SUBSET (1..MaxDate)]
    BY DatesAssumption DEF DataInv
  <2>4. isRunning \in BOOLEAN /\ active \in Nat /\ conv \in [Requests -> Conv]
    BY DEF JobInv
  <2>5. QED BY <2>1, <2>2, <2>3, <2>4 DEF ServerTypeOK
<1>2. QED BY <1>1, CatalogHolds, JobHolds, DataHolds, CalcHolds, PTL

\* Whatever the sync stores meanwhile, whoever else recalculates and wherever a
\* crash stops it, a row of fund_analytics is backed by NAVs that are stored
\* (CalculateAndStoreAnalytics).
THEOREM BackedRows == ServerSpec => []RowsAreBacked
<1>1. CalcInv => RowsAreBacked
  BY SameCardinality
  DEF CalcInv, Backing, BackedBy, DatesOf, RowsAreBacked, Calc!RowsAreBacked, Calc!Backed
<1>2. QED BY <1>1, CalcHolds, PTL

\* No NAV and no analytics is under the id of a fund of another scheme
\* (UpsertFund, syncFund, CalculateAndStoreAnalytics).
THEOREM SchemesKeepData == ServerSpec => []DataStaysWithScheme
<1>1. DataInv /\ CalcInv => DataStaysWithScheme
  <2> SUFFICES ASSUME DataInv, CalcInv, NEW f \in Listed,
                      nav[f] # {} \/ \E w \in SeedWindows : stats[f][w] # Calc!NoStats
               PROVE  f \in DOMAIN funds /\ funds[f].scheme \in Quoted
    BY DEF DataStaysWithScheme
  <2>1. nav[f] # {}
    BY DEF CalcInv, Backing, BackedBy
  <2>2. QED BY <2>1 DEF DataInv
<1>2. QED BY <1>1, DataHolds, CalcHolds, PTL

\* A recalculation that no other one runs beside never replaces a row by one
\* that ends earlier (the goroutines of SyncHandler.TriggerSync).
THEOREM NoLoneRecession == ServerSpec => LoneNeverRecedes
<1> DEFINE Grows ==
             \A g \in Calculators : \A f \in Listed, w \in SeedWindows :
               Calc!At(g, "store") /\ calc[g].alone /\ calc'[g] # calc[g]
                 => stats'[f][w].last >= stats[f][w].last
<1>1. DataInv /\ CalcInv /\ [ServerNext]_allVars => [Grows]_(Calc!vars)
  <2> SUFFICES ASSUME DataInv, CalcInv, [ServerNext]_allVars,
                      NEW g \in Calculators, calc[g].pc = "store", calc[g].alone,
                      NEW f \in Listed, NEW w \in SeedWindows
               PROVE  stats'[f][w].last >= stats[f][w].last
    BY DEF Calc!At
  <2>1. stats[f][w].last \in Nat
    BY RowTyped DEF CalcInv
  <2>2. CASE UNCHANGED stats
    BY <2>1, <2>2
  <2>3. ASSUME NEW h \in Calculators, Calc!UpsertFundAnalytics(h)
        PROVE  stats'[f][w].last >= stats[f][w].last
    <3>1. h = g
      BY <2>3, StoredRow DEF CalcInv, Lonely
    <3>2. calc[g].seen \in Rows /\ Knows(calc[g], nav, stats, today)
      BY DEF CalcInv, Calc!Calc, Rows
    <3>3. CASE stats'[f][w] = stats[f][w]
      BY <2>1, <3>3
    <3>4. CASE /\ f = calc[g].fund /\ w = Least(calc[g].left)
               /\ stats'[f][w] = calc[g].seen
      <4>1. stats[f][w].last <= stats'[f][w].last /\ stats'[f][w].last \in Nat
        BY <3>2, <3>4, RowTyped DEF Knows
      <4>2. QED BY <2>1, <4>1
    <3>5. QED BY <2>3, <3>1, <3>3, <3>4, StoredRow
  <2>4. ASSUME NEW h \in Calculators, Recalculate(h)
        PROVE  UNCHANGED stats \/ Calc!UpsertFundAnalytics(h)
    BY <2>4 DEF Recalculate, Calc!Run, Calc!ListFunds, Calc!GetAnalyticsWindows,
                Calc!GetNAVHistory, Calc!Finish
  <2>5. ASSUME NEW r \in Requests, Handler(r) PROVE UNCHANGED stats
    BY <2>5 DEF Handler, Ask, Refuse, Trigger, TriggerAndRecalculate, results, Calc!Start
  <2>6. CASE Sync \/ Publish \/ BootServer \/ CrashServer \/ UNCHANGED allVars
    BY <2>2, <2>6 DEF Sync, Publish, BootServer, CrashServer, results, Calc!Abort, allVars
  <2>7. QED BY <2>2, <2>3, <2>4, <2>5, <2>6 DEF ServerNext
<1>2. QED BY <1>1, DataHolds, CalcHolds, PTL
      DEF ServerSpec, LoneNeverRecedes, Calc!LoneNeverRecedes

-----------------------------------------------------------------------------
(* What a recalculation achieves that nothing disturbs *)

\* The row is computed from all that a query would find now, if that is enough.
Shown(f, w, st) ==
  LET dates == Calc!History(f, w, today)
  IN Calc!Enough(dates) => st[f][w] = Calc!Summary(dates)

\* It has done all funds that are not on its list, and of the one at hand all
\* windows but those that are left; what it is about to store is still true.
Settled(c, st) ==
  /\ c.pc \in {"next", "query", "store"} =>
       \A f \in Listed, w \in SeedWindows :
         f \notin c.todo /\ (c.pc = "next" \/ f # c.fund) => Shown(f, w, st)
  /\ c.pc \in {"query", "store"} =>
       /\ c.day = today
       /\ \A w \in SeedWindows \ c.left : Shown(c.fund, w, st)
  /\ c.pc = "store" =>
       c.seen = Calc!Summary(Calc!History(c.fund, Least(c.left), today))

QuietInv ==
  \A g \in quiet : /\ g \in Calculators /\ calc[g].pc # "idle" /\ calc[g].alone
                   /\ Settled(calc[g], stats)

\* Nothing that is stored is of a day to come.
LEMMA AllIsHistory ==
  ASSUME DataInv, NEW f \in Listed, NEW w \in SeedWindows
  PROVE  Calc!UpToDate(f, w) <=> Shown(f, w, stats)
<1>1. nav[f] \subseteq 1..today /\ today \in Nat
  BY DatesAssumption DEF DataInv
<1>2. {d \in nav[f] : today - w <= d} = Calc!History(f, w, today)
  BY <1>1 DEF Calc!History
<1>3. QED BY <1>2 DEF Calc!UpToDate, Shown, Calc!Enough

\* A recalculation that is done with a window, or with a fund, is settled if the
\* row of that window is.
LEMMA NextWindowSettles ==
  ASSUME CalcInv, NEW g \in Calculators, calc[g].pc \in {"query", "store"},
         Calc!NextWindow(g), calc[g].day = today, NEW st,
         \A f \in Listed, w \in SeedWindows :
           f \notin calc[g].todo /\ f # calc[g].fund => Shown(f, w, st),
         \A w \in SeedWindows :
           w \notin calc[g].left \/ w = Least(calc[g].left) => Shown(calc[g].fund, w, st)
  PROVE  Settled(calc'[g], st)
<1>1. calc[g] \in Calc!Calc /\ calc \in [Calculators -> Calc!Calc]
  BY DEF CalcInv
<1>2. Calc!Window(g) = Least(calc[g].left)
  BY DEF Calc!Window, Least
<1>3. CASE calc[g].left = {Calc!Window(g)}
  <2>1. calc'[g].pc = "next" /\ calc'[g].todo = calc[g].todo
    BY <1>1, <1>3 DEF Calc!NextWindow, Calc!NextFund, Calc!Idle
  <2>2. \A w \in SeedWindows : Shown(calc[g].fund, w, st)
    BY <1>2, <1>3
  <2>3. QED BY <2>1, <2>2 DEF Settled
<1>4. CASE calc[g].left # {Calc!Window(g)}
  <2>1. calc' = [calc EXCEPT ![g] = [calc[g] EXCEPT !.pc = "query", !.seen = Calc!NoStats,
                                              !.left = calc[g].left \ {Calc!Window(g)}]]
    BY <1>4 DEF Calc!NextWindow
  <2>2. /\ calc'[g].pc = "query" /\ calc'[g].todo = calc[g].todo
        /\ calc'[g].fund = calc[g].fund /\ calc'[g].day = calc[g].day
        /\ calc'[g].left = calc[g].left \ {Least(calc[g].left)}
    BY <1>1, <1>2, <2>1 DEF Calc!Calc
  <2>3. QED BY <2>2 DEF Settled
<1>5. QED BY <1>3, <1>4

\* A step of a settled recalculation in which no statement fails.
LEMMA RunSettles ==
  ASSUME IInv, JobInv, DataInv, CalcInv, NEW g \in Calculators, Settled(calc[g], stats),
         Calc!Run(g), UNCHANGED mishaps, calc'[g].pc # "idle"
  PROVE  Settled(calc'[g], stats')
<1>0. /\ calc[g] \in Calc!Calc /\ calc \in [Calculators -> Calc!Calc]
      /\ stats \in [Listed -> [SeedWindows -> Rows]]
      /\ Knows(calc[g], nav, stats, today)
  BY DEF CalcInv
<1>1. ~Calc!Fails
  BY CatalogBoundsAssumption DEF IInv, TypeOK, Calc!Fails
<1>2. CASE Calc!ListFunds(g)
  <2>1. calc'[g].pc = "next" /\ calc'[g].todo = DOMAIN funds /\ UNCHANGED stats
    BY <1>0, <1>1, <1>2 DEF Calc!ListFunds, Calc!NextFund, Calc!Idle
  <2>2. ASSUME NEW f \in Listed, NEW w \in SeedWindows, f \notin DOMAIN funds
        PROVE  Shown(f, w, stats)
    <3>1. nav[f] = {}
      BY <2>2 DEF DataInv
    <3>2. Calc!History(f, w, today) = {}
      BY <3>1 DEF Calc!History
    <3>3. ~Calc!Enough({})
      BY SameCardinality, FS_EmptySet DEF Calc!Enough
    <3>4. QED BY <3>2, <3>3 DEF Shown
  <2>3. QED BY <2>1, <2>2 DEF Settled
<1>3. CASE Calc!GetAnalyticsWindows(g)
  <2>1. calc[g].pc = "next" /\ UNCHANGED stats
    BY <1>3 DEF Calc!GetAnalyticsWindows, Calc!At
  <2>2. windows = SeedWindows
    BY <2>1 DEF IInv, Progress, JobInv
  <2>3. PICK f \in calc[g].todo :
          calc' = [calc EXCEPT ![g] = [calc[g] EXCEPT
                     !.pc = "query", !.fund = f, !.todo = calc[g].todo \ {f},
                     !.day = today, !.left = windows]]
    BY <1>1, <1>3 DEF Calc!GetAnalyticsWindows
  <2>4. /\ calc'[g].pc = "query" /\ calc'[g].fund = f /\ calc'[g].todo = calc[g].todo \ {f}
        /\ calc'[g].day = today /\ calc'[g].left = SeedWindows
    BY <1>0, <2>2, <2>3 DEF Calc!Calc
  <2>5. \A h \in Listed, w \in SeedWindows : h \notin calc[g].todo => Shown(h, w, stats)
    BY <2>1 DEF Settled
  <2>6. QED BY <2>1, <2>4, <2>5 DEF Settled
<1>4. CASE Calc!GetNAVHistory(g)
  <2> DEFINE dates == Calc!History(calc[g].fund, Calc!Window(g), calc[g].day)
  <2>1. calc[g].pc = "query" /\ UNCHANGED stats /\ Calc!Window(g) = Least(calc[g].left)
    BY <1>4 DEF Calc!GetNAVHistory, Calc!At, Calc!Window, Least
  <2>2. calc[g].day = today
    BY <2>1 DEF Settled
  <2>3. CASE /\ Calc!Enough(dates)
             /\ calc' = [calc EXCEPT ![g] = [calc[g] EXCEPT !.pc = "store",
                                                            !.seen = Calc!Summary(dates)]]
    <3> DEFINE seen == Calc!Summary(dates)
    <3>1. seen = Calc!Summary(Calc!History(calc[g].fund, Least(calc[g].left), today))
      BY <2>1, <2>2
    <3> HIDE DEF dates, seen
    <3>2. calc' = [calc EXCEPT ![g] = [calc[g] EXCEPT !.pc = "store", !.seen = seen]]
      BY <2>3 DEF seen
    <3>3. /\ calc'[g].pc = "store" /\ calc'[g].todo = calc[g].todo
          /\ calc'[g].fund = calc[g].fund /\ calc'[g].day = calc[g].day
          /\ calc'[g].left = calc[g].left /\ calc'[g].seen = seen
      BY <1>0, <3>2 DEF Calc!Calc
    <3>4. QED BY <2>1, <3>1, <3>3 DEF Settled
  <2>4. CASE ~Calc!Enough(dates) /\ Calc!NextWindow(g)
    <3>1. Shown(calc[g].fund, Least(calc[g].left), stats)
      BY <2>1, <2>2, <2>4 DEF Shown
    <3>2. /\ \A f \in Listed, w \in SeedWindows :
               f \notin calc[g].todo /\ f # calc[g].fund => Shown(f, w, stats)
          /\ \A w \in SeedWindows :
               w \notin calc[g].left \/ w = Least(calc[g].left) => Shown(calc[g].fund, w, stats)
      BY <2>1, <3>1 DEF Settled
    <3>3. Settled(calc'[g], stats)
      BY <2>1, <2>2, <2>4, <3>2, NextWindowSettles
    <3>4. QED BY <2>1, <3>3
  <2>5. QED BY <1>1, <1>4, <2>3, <2>4 DEF Calc!GetNAVHistory
<1>5. CASE Calc!UpsertFundAnalytics(g)
  <2> DEFINE x == Least(calc[g].left)
             f == calc[g].fund
  <2>1. calc[g].pc = "store" /\ Calc!NextWindow(g) /\ Calc!Window(g) = x
    BY <1>5 DEF Calc!UpsertFundAnalytics, Calc!At, Calc!Window, Least
  <2>2. f \in Listed /\ x \in SeedWindows
    BY <1>5, StoredRow
  <2>3. stats' = [stats EXCEPT ![f] = [stats[f] EXCEPT ![x] = calc[g].seen]]
    BY <1>1, <1>5, <2>1 DEF Calc!UpsertFundAnalytics, Calc!Stored
  <2> HIDE DEF x
  <2>4. /\ stats'[f][x] = calc[g].seen
        /\ \A h \in Listed, w \in SeedWindows : h # f \/ w # x => stats'[h][w] = stats[h][w]
    BY <1>0, <2>2, <2>3
  <2>5. Shown(f, x, stats')
    BY <2>1, <2>4 DEF Settled, Shown, x
  <2>6. \A h \in Listed, w \in SeedWindows :
          (h # f \/ w # x) /\ Shown(h, w, stats) => Shown(h, w, stats')
    BY <2>4 DEF Shown
  <2>7. \A h \in Listed, w \in SeedWindows :
          h \notin calc[g].todo /\ h # f => Shown(h, w, stats')
    BY <2>1, <2>6 DEF Settled
  <2>8. \A w \in SeedWindows : w \notin calc[g].left \/ w = x => Shown(f, w, stats')
    BY <2>1, <2>2, <2>5, <2>6 DEF Settled
  <2>9. calc[g].day = today
    BY <2>1 DEF Settled
  <2>10. QED BY <2>1, <2>7, <2>8, <2>9, NextWindowSettles DEF x
<1>6. CASE Calc!Finish(g)
  BY <1>0, <1>6, IdleTyped DEF Calc!Finish
<1>7. QED BY <1>2, <1>3, <1>4, <1>5, <1>6 DEF Calc!Run

\* A recalculation begins with nothing done.
LEMMA BeginsAtList ==
  ASSUME CalcInv, [ServerNext]_allVars, NEW g \in Calculators,
         calc[g].pc = "idle", calc'[g].pc # "idle"
  PROVE  calc'[g].pc = "list"
<1>1. ASSUME NEW h \in Calculators, Recalculate(h) PROVE FALSE
  <2>1. calc[h].pc # "idle" /\ h # g
    BY <1>1, RunLeaves DEF Recalculate
  <2>2. calc'[g] = calc[g]
    BY <1>1, <2>1 DEF Recalculate, Calc!Run, Calc!ListFunds, Calc!GetAnalyticsWindows,
      Calc!GetNAVHistory, Calc!UpsertFundAnalytics, Calc!Finish, Calc!NextFund,
      Calc!NextWindow, CalcInv
  <2>3. QED BY <2>2
<1>2. ASSUME NEW r \in Requests, TriggerAndRecalculate(r) PROVE calc'[g].pc = "list"
  <2>1. PICK h \in Calculators : Calc!Start(h)
    BY <1>2 DEF TriggerAndRecalculate
  <2>2. h # g => calc'[g] = calc[g]
    BY <2>1 DEF Calc!Start, Calc!At
  <2>3. calc'[h].pc = "list"
    BY <2>1 DEF Calc!Start, Calc!Idle
  <2>4. QED BY <2>2, <2>3
<1>3. CASE CrashServer
  BY <1>3, IdleTyped DEF CrashServer, Calc!Abort
<1>4. ASSUME NEW r \in Requests, Ask(r) \/ Refuse(r) \/ Trigger(r) PROVE UNCHANGED calc
  BY <1>4 DEF Ask, Refuse, Trigger, results
<1>5. CASE Sync \/ Publish \/ BootServer \/ UNCHANGED allVars
  BY <1>5 DEF Sync, Publish, BootServer, results, allVars
<1>6. QED BY <1>1, <1>2, <1>3, <1>4, <1>5 DEF ServerNext, Handler

\* What is not disturbed stays settled.
LEMMA StaysSettled ==
  ASSUME IInv, JobInv, DataInv, CalcInv, [ServerNext]_allVars, NEW g \in Calculators,
         calc[g].pc # "idle", calc[g].alone, Settled(calc[g], stats),
         UNCHANGED <<today, nav, mishaps>>, calc'[g].pc # "idle", calc'[g].alone
  PROVE  Settled(calc'[g], stats')
<1>1. ASSUME NEW h \in Calculators, Recalculate(h) PROVE Settled(calc'[g], stats')
  <2>1. calc[h].pc # "idle"
    BY <1>1, RunLeaves DEF Recalculate
  <2>2. h = g
    BY <2>1 DEF CalcInv, Lonely
  <2>3. QED BY <1>1, <2>2, RunSettles DEF Recalculate
<1>2. ASSUME NEW r \in Requests, TriggerAndRecalculate(r) PROVE FALSE
  <2>1. PICK h \in Calculators : Calc!Start(h)
    BY <1>2 DEF TriggerAndRecalculate
  <2>2. h # g /\ calc'[g] = [calc[g] EXCEPT !.alone = FALSE]
    BY <2>1 DEF Calc!Start, Calc!At
  <2>3. calc'[g].alone = FALSE
    BY <2>2 DEF CalcInv, Calc!Calc
  <2>4. QED BY <2>3
<1>3. CASE CrashServer
  BY <1>3, IdleTyped DEF CrashServer, Calc!Abort
<1>4. ASSUME NEW r \in Requests, Ask(r) \/ Refuse(r) \/ Trigger(r) PROVE UNCHANGED <<stats, calc>>
  BY <1>4 DEF Ask, Refuse, Trigger, results
<1>5. CASE Sync \/ Publish \/ BootServer \/ UNCHANGED allVars
  BY <1>5 DEF Sync, Publish, BootServer, results, allVars
<1>6. QED BY <1>1, <1>2, <1>3, <1>4, <1>5 DEF ServerNext, Handler

LEMMA QuietStep ==
  ASSUME IInv, JobInv, DataInv, CalcInv, QuietInv, [QuietNext]_<<allVars, quiet>>
  PROVE  QuietInv'
<1>1. CASE UNCHANGED <<allVars, quiet>>
  <2>1. UNCHANGED <<today, nav, stats, calc, quiet>>
    BY <1>1 DEF allVars, job
  <2>2. ASSUME NEW g \in quiet PROVE Settled(calc[g], stats)'
    <3>1. Settled(calc[g], stats)
      BY <2>2 DEF QuietInv
    <3>2. QED BY <2>1, <3>1 DEF Settled, Shown, Calc!History
  <2>3. QED BY <2>1, <2>2 DEF QuietInv
<1>2. CASE QuietNext
  <2> SUFFICES ASSUME NEW g \in quiet'
               PROVE  g \in Calculators /\ calc'[g].pc # "idle" /\ calc'[g].alone
                      /\ Settled(calc[g], stats)'
    BY DEF QuietInv
  <2>1. /\ g \in Calculators /\ calc'[g].pc # "idle" /\ calc'[g].alone
        /\ calc[g].pc = "idle" \/ (g \in quiet /\ ~Disturbed)
        /\ ServerNext
    BY <1>2 DEF QuietNext, Calc!At
  <2>2. CASE calc[g].pc = "idle"
    <3>1. calc'[g].pc = "list"
      BY <2>1, <2>2, BeginsAtList
    <3>2. QED BY <2>1, <3>1 DEF Settled
  <2>3. CASE g \in quiet /\ ~Disturbed /\ calc[g].pc # "idle"
    <3>1. UNCHANGED <<today, nav, mishaps>>
      BY <2>3 DEF Disturbed
    <3>2. Settled(calc'[g], stats')
      BY <2>1, <2>3, <3>1, StaysSettled DEF QuietInv
    <3>3. Settled(calc[g], stats)'
      BY <3>1, <3>2 DEF Settled, Shown, Calc!History
    <3>4. QED BY <2>1, <3>3
  <2>4. QED BY <2>1, <2>2, <2>3
<1>3. QED BY <1>1, <1>2

\* A recalculation that ran alone, while nothing was stored or failed, leaves
\* every window of every fund with the result of all NAVs that are stored, for
\* any number of funds, windows and dates and whatever was there before
\* (RecalculateAllAnalytics, CalculateAndStoreAnalytics).
THEOREM LoneUpToDate == QuietSpec => []LoneLeavesUpToDate
<1>1. QuietSpec => ServerSpec
  <2>1. QuietInit => ServerInit
    BY DEF QuietInit
  <2>2. [QuietNext]_<<allVars, quiet>> => [ServerNext]_allVars
    BY DEF QuietNext
  <2>3. QED BY <2>1, <2>2, PTL DEF QuietSpec, ServerSpec
<1>2. QuietInit => QuietInv
  BY DEF QuietInit, QuietInv
<1>3. DataInv /\ QuietInv => LoneLeavesUpToDate
  BY AllIsHistory DEF QuietInv, Settled, LoneLeavesUpToDate, Calc!At
<1>4. QED
  BY <1>1, <1>2, <1>3, QuietStep, CatalogHolds, JobHolds, DataHolds, CalcHolds, PTL
  DEF QuietSpec
=============================================================================
