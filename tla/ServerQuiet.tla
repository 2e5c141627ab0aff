------------------------------ MODULE ServerQuiet ------------------------------
(***************************************************************************)
(* Server with a history variable, for what a single recalculation         *)
(* achieves if nothing comes in between.                                   *)
(***************************************************************************)
EXTENDS Server

\* The recalculations since whose beginning no NAV was published or stored, no
\* other one has run and no statement failed.
VARIABLE quiet

Disturbed == <<today, nav, mishaps>>' # <<today, nav, mishaps>>

QuietInit == ServerInit /\ quiet = {}

QuietNext ==
  /\ ServerNext
  /\ quiet' = {g \in Calculators :
                 /\ calc'[g].pc # "idle" /\ calc'[g].alone
                 /\ Calc!At(g, "idle") \/ (g \in quiet /\ ~Disturbed)}

QuietSpec == QuietInit /\ [][QuietNext]_<<allVars, quiet>>

FairSpec == QuietSpec /\ Fairness

\* A recalculation that ran alone, while nothing was stored and nothing failed,
\* has not missed a fund, a window or a NAV: at its end every window with
\* enough data has the result of all that is stored, whatever rows earlier
\* recalculations, failures and crashes had left (RecalculateAllAnalytics).
LoneLeavesUpToDate ==
  \A g \in quiet :
    Calc!At(g, "next") /\ calc[g].todo = {} =>
      \A f \in Listed, w \in SeedWindows : Calc!UpToDate(f, w)
=============================================================================
