------------------------------ MODULE MCLeases ------------------------------
(* Two jobs: two runs compete for the first one, and one run for the second. *)
EXTENDS Leases

CONSTANTS j1, j2, o1, o2, o3

TwoRunsOfOneJob == [o \in Owners |-> IF o = o3 THEN j2 ELSE j1]
=============================================================================
