------------------------------- MODULE SyncJob -------------------------------
(***************************************************************************)
(* What the rest of the server may count on about SyncService: at most one *)
(* goroutine works on behalf of TriggerSync, isRunning says whether, and   *)
(* only that goroutine changes nav_history, to which it adds what the API  *)
(* has published, in any order and in any portions.                        *)
(***************************************************************************)
EXTENDS Integers

CONSTANTS FundIds,  \* the ids of the funds
          MaxDate   \* bound on the dates published

VARIABLES today,      \* the latest date the API has published
          nav,        \* nav_history: the dates stored for a fund
          isRunning,  \* what IsRunning returns
          active      \* goroutines that TriggerSync started and that still run

vars == <<today, nav, isRunning, active>>

Init ==
  /\ today = 0
  /\ nav = [f \in FundIds |-> {}]
  /\ isRunning = FALSE
  /\ active = 0

\* Slip: TriggerSync does not look at isRunning again under its lock.
FreeUnchecked == TRUE

Free == ~isRunning

TriggerSync ==
  /\ Free
  /\ isRunning' = TRUE
  /\ active' = active + 1
  /\ UNCHANGED <<today, nav>>

Store(f) ==
  /\ active > 0
  /\ \E new \in SUBSET (1..today) : nav' = [nav EXCEPT ![f] = @ \union new]
  /\ UNCHANGED <<today, isRunning, active>>

Finish ==
  /\ active > 0
  /\ active' = active - 1
  /\ isRunning' = FALSE
  /\ UNCHANGED <<today, nav>>

Publish ==
  /\ today < MaxDate
  /\ today' = today + 1
  /\ UNCHANGED <<nav, isRunning, active>>

\* The process ends.
Abort ==
  /\ isRunning' = FALSE
  /\ active' = 0
  /\ UNCHANGED <<today, nav>>

Next ==
  \/ TriggerSync
  \/ \E f \in FundIds : Store(f)
  \/ Finish
  \/ Publish
  \/ Abort

Spec == Init /\ [][Next]_vars
=============================================================================
