-------------------------------- MODULE Server --------------------------------
(***************************************************************************)
(* The process as main wires it: the start of FundCatalog, the endpoint    *)
(* starts and the recalculation of Analytics that it starts beside the     *)
(* sync.  The sync is seen through SyncJob, which SyncService implements.  *)
(* "mishaps" counts the failed statements and crashes of all of them.      *)
(***************************************************************************)
EXTENDS FundCatalog

CONSTANTS MaxDate, Worthless, Calculators,  \* Analytics
          Quoted,   \* the schemes for which the API publishes NAVs
          Requests  \* POST requests: bounds how many at a time

ASSUME DatesAssumption ==
  /\ MaxDate \in Nat
  /\ Worthless \subseteq 1..MaxDate
  /\ SeedWindows \subseteq Nat /\ SeedWindows # {}

ASSUME QuotedAssumption == Quoted \subseteq Schemes

VARIABLES
  today, nav, isRunning, active,  \* SyncJob
  stats, calc,                    \* Analytics
  conv  \* the progress of a request

Job  == INSTANCE SyncJob WITH FundIds <- Listed
Calc == INSTANCE Analytics WITH FundIds <- Listed, WindowDays <- SeedWindows

catalog == <<tables, boot>>
job     == <<today, nav, isRunning, active>>
results == <<stats, calc, mishaps>>
allVars == <<vars, job, stats, calc, conv>>

\* "checked": the handler has seen IsRunning false.  "overtaken" (history): and
\* since then another request has started a sync.  An answered request is "none".
Conv == {"none", "checked", "overtaken"}

Checked(r) == conv[r] \in {"checked", "overtaken"}

Serving == step = "up"

-----------------------------------------------------------------------------
(* SyncHandler.TriggerSync *)

\* Slip: the handler leaves the check to TriggerSync.
SeesUnchecked == FALSE

Sees == isRunning

\* The first half, up to IsRunning; if that is true, the answer is 409.
Ask(r) ==
  /\ Serving
  /\ conv[r] = "none"
  /\ ~Sees
  /\ conv' = [conv EXCEPT ![r] = "checked"]
  /\ UNCHANGED <<catalog, job, results>>

\* The second half: TriggerSync locks and looks at isRunning itself.  If it is
\* true now, the answer is 500.
Refuse(r) ==
  /\ Checked(r)
  /\ isRunning
  /\ conv' = [conv EXCEPT ![r] = "none"]
  /\ UNCHANGED <<catalog, job, results>>

Accept(r) ==
  conv' = [q \in Requests |-> IF q = r THEN "none"
                              ELSE IF Checked(q) THEN "overtaken" ELSE conv[q]]

Trigger(r) ==
  /\ Checked(r)
  /\ Job!TriggerSync
  /\ Accept(r)
  /\ UNCHANGED <<catalog, results>>

\* recalculate_metrics: the goroutine is started before the answer.
TriggerAndRecalculate(r) ==
  /\ Checked(r)
  /\ Job!TriggerSync
  /\ \E g \in Calculators : Calc!Start(g)
  /\ Accept(r)
  /\ UNCHANGED catalog

-----------------------------------------------------------------------------
(* The goroutines, the API and the process *)

\* syncFund stores NAVs under the id of the row whose scheme it fetched.
Sync ==
  /\ \/ \E f \in DOMAIN funds : funds[f].scheme \in Quoted /\ Job!Store(f)
     \/ Job!Finish
  /\ UNCHANGED <<catalog, results, conv>>

Recalculate(g) ==
  /\ Calc!Run(g)
  /\ UNCHANGED <<catalog, isRunning, active, conv>>

Publish ==
  /\ Job!Publish
  /\ UNCHANGED <<catalog, results, conv>>

BootServer ==
  /\ Boot
  /\ UNCHANGED <<job, stats, calc, conv>>

CrashServer ==
  /\ Crash
  /\ Job!Abort
  /\ Calc!Abort
  /\ conv' = [r \in Requests |-> "none"]

ServerInit ==
  /\ Init
  /\ Job!Init
  /\ Calc!Init
  /\ conv = [r \in Requests |-> "none"]

Handler(r) == Ask(r) \/ Refuse(r) \/ Trigger(r) \/ TriggerAndRecalculate(r)

ServerNext ==
  \/ BootServer
  \/ \E r \in Requests : Handler(r)
  \/ Sync
  \/ \E g \in Calculators : Recalculate(g)
  \/ Publish
  \/ CrashServer

ServerSpec == ServerInit /\ [][ServerNext]_allVars

\* The process is started again and its goroutines run; a sync ends; and
\* somebody keeps asking for a sync with a recalculation.
Fairness ==
  /\ WF_allVars(BootServer)
  /\ \A g \in Calculators : WF_allVars(Recalculate(g))
  /\ WF_allVars(Job!Finish /\ UNCHANGED <<catalog, results, conv>>)
  /\ SF_allVars(\E r \in Requests : Ask(r))
  /\ SF_allVars(\E r \in Requests : TriggerAndRecalculate(r))

-----------------------------------------------------------------------------
(* Properties *)

ServerTypeOK ==
  /\ TypeOK
  /\ Calc!TypeOK
  /\ today \in 0..MaxDate
  /\ nav \in [Listed -> SUBSET (1..MaxDate)]
  /\ isRunning \in BOOLEAN
  /\ active \in Nat
  /\ conv \in [Requests -> Conv]

RowsAreBacked    == Calc!RowsAreBacked
LoneNeverRecedes == Calc!LoneNeverRecedes
StatsCatchUp     == Calc!StatsCatchUp

\* However the two halves of several requests interleave, one sync runs at a
\* time, and IsRunning is true exactly while it runs.
SingleFlight == active = (IF isRunning THEN 1 ELSE 0)

\* 500 is only answered to a request that another one overtook between its
\* two looks at isRunning; 409 is the answer otherwise.
RefusedOnlyByRival == [][\A r \in Requests : Refuse(r) => conv[r] = "overtaken"]_allVars

\* No NAV and no analytics ever appears under a fund of another scheme than the
\* one it was fetched for, whatever starts were interrupted in between.
DataStaysWithScheme ==
  \A f \in Listed :
    nav[f] # {} \/ (\E w \in SeedWindows : stats[f][w] # Calc!NoStats)
      => f \in DOMAIN funds /\ funds[f].scheme \in Quoted
=============================================================================
