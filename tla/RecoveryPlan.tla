----------------------------- MODULE RecoveryPlan -----------------------------
(***************************************************************************)
(* buildRecoveryPlan (runner/recoveryPlan.ts): what an operator is told of  *)
(* each operation after a live run ended, failed or died.  It reads the     *)
(* operation records and nothing else, so what it says has to follow from   *)
(* what the executor recorded, in this run or an earlier one.               *)
(***************************************************************************)
EXTENDS MigrationExecutor

\* Mutant of RecoveryState: a create that was tried counts as persisted.
RecoveryStateTried(r) ==
  IF r.state = "VERIFIED" THEN "VERIFIED"
  ELSE IF r.state \in {"WRITTEN", "READ_BACK"} \/ r.att > 0 THEN "PERSISTED"
  ELSE IF r.state \in {"NONE", "PENDING_WRITE"} THEN "NOT_STARTED"
  ELSE IF r.sys THEN "SYSTEMIC_BLOCKED"
  ELSE "FAILED"

\* recoveryState(record); UNKNOWN is left out, as no record falls through.
RecoveryState(r) ==
  IF r.state \in {"NONE", "PENDING_WRITE"} THEN "NOT_STARTED"
  ELSE IF r.state = "VERIFIED" THEN "VERIFIED"
  ELSE IF r.state \in {"WRITTEN", "READ_BACK"} THEN "PERSISTED"
  ELSE IF r.sys THEN "SYSTEMIC_BLOCKED"
  ELSE "FAILED"

\* The objects that are to be reused: "Never recreate".
Reusable(i) == RecoveryState(rec[i]) \in {"VERIFIED", "PERSISTED"}

\* What operatorExecutionSummary counts as "not attempted".
NotAttempted(i) ==
  RecoveryState(rec[i]) \in {"NOT_STARTED", "SYSTEMIC_BLOCKED"}

-----------------------------------------------------------------------------
\* A row that an UPDATE of the plan is to rewrite, and may have renamed.
MayBeRenamed(d) == \E u \in Updates : Plan[u].target = d

\* Row d carries the menu number or the name of operation i, or did so before
\* an UPDATE renamed it.
IsRowOf(i, d) ==
  /\ d \in DOMAIN dest
  /\ \/ dest[d].num = Plan[i].num \/ dest[d].name = Plan[i].name
     \/ MayBeRenamed(d)

\* What the plan tells an operator to reuse is at the destination: a category
\* of that name, the row an update wrote, or a row with the number or the name
\* of the product.  It holds of every record a crash may leave behind.
ReusableExists ==
  \A i \in Creates \cup Updates : Reusable(i) =>
    IF i \in Updates THEN rec[i].did \in DOMAIN dest
    ELSE IF i \in Products THEN IsRowOf(i, rec[i].did)
    ELSE Exists(Plan[i].cat)

\* What was once called reusable is not forgotten: no later run, however it
\* ends, turns it into something that has not been started.
NeverForgotten ==
  [][\A i \in Ops : Reusable(i) => RecoveryState(rec'[i]) # "NOT_STARTED"]_vars

\* Of what an operator is told that it was not attempted, when a run has come to
\* its end, no create was submitted.
UntouchedIfNotAttempted ==
  runStatus \notin {"NONE", "RUNNING"} =>
    \A i \in Products : NotAttempted(i) => sent[i] = 0
=============================================================================
