------------------------------- MODULE MCServer -------------------------------
(* Server for TLC: two tracked funds of one AMC. *)
EXTENDS Server, TLC

CONSTANTS axis, mid, small, s1, s2

MCTrackedFunds == << [scheme |-> s1, amc |-> axis, category |-> mid],
                     [scheme |-> s2, amc |-> axis, category |-> small] >>
=============================================================================
