------------------------------ MODULE ServerDue ------------------------------
(***************************************************************************)
(* Server with a history variable, for one sentence of README.md:          *)
(* recalculate_metrics means "Recalculate analytics after sync".           *)
(***************************************************************************)
EXTENDS MCServer

VARIABLE due  \* the latest sync came with a recalculation, and nothing failed

DueInit == ServerInit /\ due = FALSE

Asked == \E r \in Requests : TriggerAndRecalculate(r)

Disturbed == mishaps' # mishaps \/ \E r \in Requests : Trigger(r)

DueNext ==
  /\ ServerNext
  /\ due' = (Asked \/ (due /\ ~Disturbed))

DueSpec == DueInit /\ [][DueNext]_<<allVars, due>>

\* Once the sync and the recalculation asked for with it are over, the rows of
\* fund_analytics reach up to the NAVs that are stored (TriggerSync).
RecalculatedAfterSync ==
  due /\ ~isRunning /\ (\A g \in Calculators : Calc!At(g, "idle")) =>
    \A f \in Listed, w \in SeedWindows :
      LET dates == Calc!History(f, w, today)
      IN Calc!Enough(dates) => stats[f][w].last = Calc!Last(dates)
=============================================================================
