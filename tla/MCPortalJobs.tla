---------------------------- MODULE MCPortalJobs ----------------------------
(* Two jobs for one host, or one job of each workflow. *)
EXTENDS PortalJobs

CONSTANTS j1, j2

SameHost   == [j \in Jobs |-> CHOOSE h \in Hosts : TRUE]
BothCreate == [j \in Jobs |-> "CREATE_MENU"]
OneOfEach  == [j \in Jobs |-> IF j = j1 THEN "CREATE_MENU" ELSE "QA_RECONCILE"]
=============================================================================
