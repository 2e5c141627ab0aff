----------------------------- MODULE FundCatalog -----------------------------
(***************************************************************************)
(* The start of the process (cmd/server/main.go): the migration of         *)
(* internal/repository/sqlite.go and FundService.InitializeTrackedFunds    *)
(* with the statements of fund_repository.go that it runs.                 *)
(*                                                                         *)
(* No transaction spans two statements of InitializeTrackedFunds, and any  *)
(* error ends the process (log.Fatal), so the tables may be left at any    *)
(* point and the next start goes through all tracked funds again.  Rows    *)
(* are never deleted and an AUTOINCREMENT id is never used twice: a table  *)
(* is the sequence of its rows, and a row's place stands for its id.       *)
(***************************************************************************)
EXTENDS Integers, Sequences

CONSTANTS TrackedFunds,  \* models.TrackedFunds, in its order
          SeedWindows,   \* the lengths, in days, that seedData inserts
          MaxMishaps     \* bound on failing statements and crashes together

Listed == DOMAIN TrackedFunds

Schemes == {TrackedFunds[n].scheme : n \in Listed}
Names   == {TrackedFunds[n].amc : n \in Listed} \union
           {TrackedFunds[n].category : n \in Listed}

ASSUME TrackedAssumption ==
  /\ TrackedFunds \in Seq([scheme : Schemes, amc : Names, category : Names])
  /\ \A m, n \in Listed : TrackedFunds[m].scheme = TrackedFunds[n].scheme => m = n
  /\ TrackedFunds # <<>>

ASSUME CatalogBoundsAssumption == MaxMishaps \in Nat

VARIABLES
  windows,   \* analytics_windows
  names,     \* amcs and categories: the names, in the order of their ids
  funds,     \* funds: the rows, in the order of their ids
  step,      \* the statement the process is about to run
  at,        \* the tracked fund it has come to
  table,     \* which of GetOrCreateAMC and GetOrCreateCategory it is in
  ids,       \* amcID and categoryID
  mishaps    \* failing statements and crashes so far

tables == <<windows, names, funds>>
boot   == <<step, at, table, ids>>
vars   == <<windows, names, funds, step, at, table, ids, mishaps>>

Table == {"amc", "category"}

Steps == {"down", "migrate", "select", "insert", "upsert", "up"}

FundRow == [scheme : Schemes, amc : Nat \ {0}, category : Nat \ {0}]

Tracked == TrackedFunds[at]

NameOf(n, t) == IF t = "amc" THEN TrackedFunds[n].amc ELSE TrackedFunds[n].category

-----------------------------------------------------------------------------
\* Start: NewSQLiteDB opens the file.
Start ==
  /\ step = "down"
  /\ step' = "migrate"
  /\ UNCHANGED <<tables, at, table, ids, mishaps>>

\* migrate and seedData: one transaction of statements that leave alone what
\* is there (IF NOT EXISTS, OR IGNORE).
Migrate ==
  /\ step = "migrate"
  /\ windows' = windows \union SeedWindows
  /\ step' = "select" /\ at' = 1 /\ table' = "amc"
  /\ UNCHANGED <<names, funds, ids, mishaps>>

\* What follows when the id of the AMC, or of the category, is known.
GotId(id) ==
  /\ ids' = [ids EXCEPT ![table] = id]
  /\ table' = "category"
  /\ step' = (IF table = "amc" THEN "select" ELSE "upsert")

\* Slip: the row is inserted without a look for it first.
FoundUnsought(id) == FALSE

\* The row that SELECT id ... WHERE name = ? finds.
Found(id) == names[table][id] = NameOf(at, table)

SelectId ==
  /\ step = "select"
  /\ \/ \E id \in DOMAIN names[table] : Found(id) /\ GotId(id)
     \/ /\ \A id \in DOMAIN names[table] : ~Found(id)
        /\ step' = "insert"
        /\ UNCHANGED <<table, ids>>
  /\ UNCHANGED <<tables, at, mishaps>>

\* The name is new: UNIQUE(name) rejects it otherwise.
NewName == \A id \in DOMAIN names[table] : names[table][id] # NameOf(at, table)

\* Slip: the id of a category is taken from the table of AMCs.
LastInsertIdOfAMC == IF table = "amc" THEN Len(names["amc"]) + 1 ELSE Len(names["amc"])

\* Slip: the id of the new row is not returned.
LastInsertIdLost == 0

LastInsertId == Len(names[table]) + 1

InsertName ==
  /\ step = "insert"
  /\ NewName
  /\ names' = [names EXCEPT ![table] = Append(@, NameOf(at, table))]
  /\ GotId(LastInsertId)
  /\ UNCHANGED <<windows, funds, at, mishaps>>

Row == [scheme |-> Tracked.scheme, amc |-> ids["amc"], category |-> ids["category"]]

Conflicts(id) == funds[id].scheme = Tracked.scheme

\* Slip: INSERT OR REPLACE, which deletes the row and inserts it anew.
UpsertedAnew ==
  LET Other(r) == r.scheme # Tracked.scheme IN Append(SelectSeq(funds, Other), Row)

\* INSERT ... ON CONFLICT(scheme_code) DO UPDATE keeps the id.
Upserted ==
  IF \E id \in DOMAIN funds : Conflicts(id)
  THEN [id \in DOMAIN funds |-> IF Conflicts(id) THEN Row ELSE funds[id]]
  ELSE Append(funds, Row)

\* Slip: the loop ends one fund too early.
LastFundEarly == at + 1 >= Len(TrackedFunds)

LastFund == at >= Len(TrackedFunds)

\* After the last fund, main builds the router and serves.
UpsertFund ==
  /\ step = "upsert"
  /\ funds' = Upserted
  /\ step' = (IF LastFund THEN "up" ELSE "select")
  /\ at' = at + 1
  /\ table' = "amc"
  /\ UNCHANGED <<windows, names, ids, mishaps>>

Stop ==
  /\ step' = "down" /\ at' = 1 /\ table' = "amc"
  /\ ids' = [t \in Table |-> 0]

\* A statement fails, or UNIQUE rejects one: log.Fatal.
StartFails ==
  /\ step \in {"migrate", "select", "insert", "upsert"}
  /\ \/ /\ mishaps < MaxMishaps
        /\ mishaps' = mishaps + 1
     \/ /\ step = "insert" /\ ~NewName
        /\ UNCHANGED mishaps
  /\ Stop
  /\ UNCHANGED tables

\* The process ends, wherever it is, by a signal or a crash.
Crash ==
  /\ step # "down"
  /\ mishaps < MaxMishaps
  /\ mishaps' = mishaps + 1
  /\ Stop
  /\ UNCHANGED tables

Init ==
  /\ windows = {}
  /\ names = [t \in Table |-> <<>>]
  /\ funds = <<>>
  /\ step = "down" /\ at = 1 /\ table = "amc"
  /\ ids = [t \in Table |-> 0]
  /\ mishaps = 0

Boot == Start \/ Migrate \/ SelectId \/ InsertName \/ UpsertFund \/ StartFails

Next == Boot \/ Crash

Spec == Init /\ [][Next]_vars

-----------------------------------------------------------------------------
(* Properties *)

TypeOK ==
  /\ windows \subseteq SeedWindows
  /\ names \in [Table -> Seq(Names)]
  /\ funds \in Seq(FundRow)
  /\ step \in Steps
  /\ at \in Nat \ {0}
  /\ table \in Table
  /\ ids \in [Table -> Nat]
  /\ mishaps \in 0..MaxMishaps

NoTwins == \A t \in Table : \A i, j \in DOMAIN names[t] : names[t][i] = names[t][j] => i = j

\* The row is that of tracked fund n, and its ids lead to the names of n.
IsRowOf(r, n) ==
  /\ r.scheme = TrackedFunds[n].scheme
  /\ \A t \in Table : r[t] \in DOMAIN names[t] /\ names[t][r[t]] = NameOf(n, t)

\* Wherever earlier starts broke off, no AMC, category or fund is in its table
\* twice, and every fund row belongs to a tracked fund and refers to the rows
\* with that fund's names, so that the joins of ListFunds and of
\* GetFundBySchemeCode find it (InitializeTrackedFunds).
CatalogueSound ==
  /\ NoTwins
  /\ \A i, j \in DOMAIN funds : funds[i].scheme = funds[j].scheme => i = j
  /\ \A i \in DOMAIN funds : \E n \in Listed : IsRowOf(funds[i], n)

\* The process serves only with a row for every tracked fund and all windows.
ServesComplete ==
  step = "up" => /\ windows = SeedWindows
                 /\ \A n \in Listed : \E i \in DOMAIN funds : IsRowOf(funds[i], n)

\* A scheme keeps its id for ever, across restarts: the NAVs, sync states and
\* analytics of other tables refer to it by that id.
IdsStable ==
  [][\A i \in DOMAIN funds : i \in DOMAIN funds' /\ funds'[i].scheme = funds[i].scheme]_vars

\* The statements a start has before it at most: five for each fund to come.
Before ==
  5 * (Len(TrackedFunds) - at) + (CASE step = "select" -> IF table = "amc" THEN 5 ELSE 3
                                    [] step = "insert" -> IF table = "amc" THEN 4 ELSE 2
                                    [] OTHER           -> 1)

Remaining == CASE step = "up"      -> 0
               [] step = "down"    -> 5 * Len(TrackedFunds) + 2
               [] step = "migrate" -> 5 * Len(TrackedFunds) + 1
               [] OTHER            -> Before

\* Why a start succeeds once failures and crashes are over: whatever earlier
\* ones left in the tables, no statement is rejected and each takes the process
\* nearer to serving (InitializeTrackedFunds, GetOrCreateAMC).
StartGetsOn ==
  [][step # "up" /\ mishaps' = mishaps => Remaining' < Remaining]_vars

\* Once failures and crashes are over, a start succeeds.
StartsUp == <>[](step = "up")
=============================================================================
