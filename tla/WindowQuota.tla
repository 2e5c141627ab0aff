----------------------------- MODULE WindowQuota -----------------------------
(***************************************************************************)
(* What a multi-tier rate limiter promises, whatever its mechanism: time   *)
(* is cut into windows of Length[k] ticks for every tier k, and a request  *)
(* goes out only while the current window of every tier has room.          *)
(***************************************************************************)
EXTENDS Integers

CONSTANTS Tiers,   \* the tiers that are enforced
          Limit,   \* requests allowed in one window, per tier
          Length,  \* length of a window in ticks, per tier
          MaxTime  \* bound on the clock

VARIABLES now,     \* the clock, in ticks
          used     \* used[k][w]: requests sent in the window of tier k starting at w

vars == <<now, used>>

Window(k) == now - (now % Length[k])

Init == /\ now = 0
        /\ used = [k \in Tiers |-> [w \in 0..MaxTime |-> 0]]

Tick == /\ now < MaxTime
        /\ now' = now + 1
        /\ UNCHANGED used

Use == /\ \A k \in Tiers : used[k][Window(k)] < Limit[k]
       /\ used' = [k \in Tiers |-> [used[k] EXCEPT ![Window(k)] = @ + 1]]
       /\ UNCHANGED now

Next == Tick \/ Use

Spec == Init /\ [][Next]_vars
=============================================================================
