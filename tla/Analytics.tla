------------------------------ MODULE Analytics ------------------------------
(***************************************************************************)
(* RecalculateAllAnalytics and CalculateAndStoreAnalytics of               *)
(* internal/services/analytics_service.go with the statements of           *)
(* fund_repository.go that they run.                                       *)
(*                                                                         *)
(* Every request may start one more goroutine, and they share the tables   *)
(* with a running sync and no lock.  A row of fund_analytics is modelled   *)
(* by the part of it that says what its metrics were computed from: the    *)
(* first and the last date and the number of NAVs.  Dates are days, and    *)
(* the day of a query is the latest day published.                         *)
(***************************************************************************)
EXTENDS Integers, FiniteSets

CONSTANTS FundIds,      \* the ids of the funds
          MaxDate,      \* bound on the dates
          WindowDays,   \* the lengths of the windows, in days
          Worthless,    \* dates whose NAV is not positive
          Calculators,  \* goroutines of the handler: bounds how many at a time
          MaxMishaps    \* bound on failing statements (and crashes)

Date == 1..MaxDate

VARIABLES
  today, nav,      \* the day; nav_history, which the sync fills
  windows, funds,  \* analytics_windows; funds, of which ids are all that counts
  stats,           \* fund_analytics: the row of (fund, window)
  calc,            \* the local state of the goroutines
  mishaps          \* failed statements so far

tables == <<today, nav, windows, funds>>
vars   == <<today, nav, windows, funds, stats, calc, mishaps>>

Stats == [first : Date, last : Date, points : Nat]

NoStats == [first |-> 0, last |-> 0, points |-> 0]

\* "day" is CalculateAndStoreAnalytics' now, "left" the windows still to do,
\* "seen" the computed row; "alone" (history) holds as long as no other
\* recalculation has run beside this one.
Calc == [pc : {"idle", "list", "next", "query", "store"}, todo : SUBSET FundIds,
         fund : FundIds, day : 0..MaxDate, left : SUBSET WindowDays,
         seen : Stats \union {NoStats}, alone : BOOLEAN]

Idle == [pc |-> "idle", todo |-> {}, fund |-> CHOOSE f \in FundIds : TRUE,
         day |-> 0, left |-> {}, seen |-> NoStats, alone |-> TRUE]

At(g, pc) == calc[g].pc = pc

Succeeds == UNCHANGED mishaps

Fails == mishaps < MaxMishaps /\ mishaps' = mishaps + 1

\* The loop over the funds goes on.
NextFund(g, todo) ==
  calc' = [calc EXCEPT ![g] = [Idle EXCEPT !.pc = "next", !.todo = todo,
                                           !.alone = calc[g].alone]]

-----------------------------------------------------------------------------
\* RecalculateAllAnalytics begins, in a goroutine of its own.
Start(g) ==
  /\ At(g, "idle")
  /\ LET company == {h \in Calculators : ~At(h, "idle")}
     IN calc' = [h \in Calculators |->
                   IF h = g THEN [Idle EXCEPT !.pc = "list", !.alone = (company = {})]
                   ELSE IF h \in company THEN [calc[h] EXCEPT !.alone = FALSE]
                   ELSE calc[h]]
  /\ UNCHANGED <<tables, stats, mishaps>>

ListFunds(g) ==
  /\ At(g, "list")
  /\ \/ Succeeds /\ NextFund(g, DOMAIN funds)
     \/ Fails /\ calc' = [calc EXCEPT ![g] = Idle]
  /\ UNCHANGED <<tables, stats>>

\* CalculateAndStoreAnalytics: GetAnalyticsWindows, then now.  The process does
\* not serve without windows (ServesComplete in FundCatalog).
GetAnalyticsWindows(g) ==
  /\ At(g, "next")
  /\ \E f \in calc[g].todo :
       \/ /\ Succeeds
          /\ calc' = [calc EXCEPT ![g] = [@ EXCEPT
               !.pc = "query", !.fund = f, !.todo = calc[g].todo \ {f},
               !.day = today, !.left = windows]]
       \/ /\ Fails
          /\ NextFund(g, calc[g].todo \ {f})
  /\ UNCHANGED <<tables, stats>>

Finish(g) ==
  /\ At(g, "next")
  /\ calc[g].todo = {}
  /\ calc' = [calc EXCEPT ![g] = Idle]
  /\ UNCHANGED <<tables, stats, mishaps>>

\* ORDER BY days ASC
Window(g) == CHOOSE w \in calc[g].left : \A v \in calc[g].left : w <= v

\* The loop over the windows goes on ("continue").
NextWindow(g) ==
  IF calc[g].left = {Window(g)} THEN NextFund(g, calc[g].todo)
  ELSE calc' = [calc EXCEPT ![g] = [@ EXCEPT !.pc = "query", !.seen = NoStats,
                                             !.left = calc[g].left \ {Window(g)}]]

\* Slip: the window has no beginning.
HistoryUnbounded(f, w, day) == {d \in nav[f] : d <= day}

\* Slip: a page of two NAVs is read in place of the window.
HistoryPaged(f, w, day) ==
  {d \in nav[f] : d <= day /\ Cardinality({e \in nav[f] : e < d}) < 2}

\* GetNAVHistory: both ends of the window are part of it.
History(f, w, day) == {d \in nav[f] : day - w <= d /\ d <= day}

First(dates) == CHOOSE d \in dates : \A e \in dates : d <= e
Last(dates)  == CHOOSE d \in dates : \A e \in dates : e <= d

\* calculateMetrics has a result: two NAVs, the first of them positive.
Enough(dates) == Cardinality(dates) >= 2 /\ First(dates) \notin Worthless

\* What calculateMetrics computes the metrics of a window from.
Summary(dates) ==
  [first |-> First(dates), last |-> Last(dates), points |-> Cardinality(dates)]

GetNAVHistory(g) ==
  /\ At(g, "query")
  /\ LET dates == History(calc[g].fund, Window(g), calc[g].day)
     IN \/ /\ Enough(dates)
           /\ Succeeds
           /\ calc' = [calc EXCEPT ![g] = [@ EXCEPT !.pc = "store",
                                                    !.seen = Summary(dates)]]
        \/ /\ (~Enough(dates) /\ Succeeds) \/ Fails
           /\ NextWindow(g)
  /\ UNCHANGED <<tables, stats>>

\* Slip: the number of NAVs is added to that of the row.
StoredOntop(old, new) == [new EXCEPT !.points = @ + old.points]

\* ON CONFLICT(fund_id, window_id) DO UPDATE
Stored(old, new) == new

UpsertFundAnalytics(g) ==
  /\ At(g, "store")
  /\ \/ /\ Succeeds
        /\ stats' = [stats EXCEPT ![calc[g].fund][Window(g)] = Stored(@, calc[g].seen)]
     \/ Fails /\ UNCHANGED stats
  /\ NextWindow(g)
  /\ UNCHANGED tables

\* The process ends.
Abort ==
  /\ calc' = [g \in Calculators |-> Idle]
  /\ UNCHANGED stats

Init ==
  /\ stats = [f \in FundIds |-> [w \in WindowDays |-> NoStats]]
  /\ calc = [g \in Calculators |-> Idle]
  /\ mishaps = 0

Run(g) ==
  \/ ListFunds(g)
  \/ GetAnalyticsWindows(g)
  \/ GetNAVHistory(g)
  \/ UpsertFundAnalytics(g)
  \/ Finish(g)

-----------------------------------------------------------------------------
(* Properties *)

TypeOK ==
  /\ stats \in [FundIds -> [WindowDays -> Stats \union {NoStats}]]
  /\ calc \in [Calculators -> Calc]
  /\ mishaps \in 0..MaxMishaps

\* A row that is computed from NAVs of the fund, no more of them than there
\* are, at least two, and none further apart than the window is long.
Backed(r, f, w) ==
  /\ r.first \in nav[f] /\ r.last \in nav[f]
  /\ r.last - r.first <= w
  /\ 2 <= r.points
  /\ r.points <= Cardinality({d \in nav[f] : r.first <= d /\ d <= r.last})

\* Whatever the sync stores between the query and the upsert, whoever else
\* recalculates and wherever a crash stops it, every row of fund_analytics is
\* backed by NAVs that are stored (CalculateAndStoreAnalytics).
RowsAreBacked ==
  \A f \in FundIds, w \in WindowDays : stats[f][w] # NoStats => Backed(stats[f][w], f, w)

\* Only a recalculation with company beside it stores a result over a newer
\* one; one that ran alone never takes the data of a row back (the goroutines
\* of SyncHandler.TriggerSync).
LoneNeverRecedes ==
  [][\A g \in Calculators : \A f \in FundIds, w \in WindowDays :
       At(g, "store") /\ calc[g].alone /\ calc'[g] # calc[g]
         => stats'[f][w].last >= stats[f][w].last]_vars

\* If the NAVs stored for the last w days are two or more and the first of them
\* is positive, then the row is computed from all of them.
UpToDate(f, w) ==
  LET dates == {d \in nav[f] : today - w <= d}
  IN Cardinality(dates) >= 2 /\ First(dates) \notin Worthless => stats[f][w] = Summary(dates)

\* While recalculations are asked for, every window with enough data gets,
\* and keeps, the result of all that is stored in the end, also after results
\* were stored in the wrong order, statements failed and the process crashed.
StatsCatchUp ==
  \A f \in FundIds, w \in WindowDays : <>[]UpToDate(f, w)
=============================================================================
