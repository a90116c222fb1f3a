----------------------------- MODULE PortalJobs -----------------------------
(***************************************************************************)
(* The life of the portal's jobs: the jobs table and the review questions   *)
(* (portal/store.ts), the planning worker and the live worker               *)
(* (portal/worker.ts), the operator's requests (apps/portal, review.ts) and *)
(* the lease and lock tables (module Leases), in one Node process that may  *)
(* die and be started again on the same SQLite file.                        *)
(*                                                                         *)
(* JavaScript runs a turn from one await to the next without interruption:  *)
(* no other request and no other worker runs meanwhile.  But SQLite keeps   *)
(* what a turn has stored when the process dies in the middle of it.  A     *)
(* turn with several durable steps is therefore several actions, and while  *)
(* one is under way (MidTurn) only its own next step or Crash may happen.   *)
(***************************************************************************)
EXTENDS Integers

CONSTANTS
  Jobs, Hosts,
  HostOf,          \* the normalized destination host of a job
  WorkflowOf,      \* "CREATE_MENU" or "QA_RECONCILE"
  TTL, MaxTime,    \* see Leases
  MaxQuestions,    \* bound: review questions of one planning run
  MaxApprovals,    \* bound: approvals of one job
  MaxCrashes       \* bound: deaths of the process

ASSUME PortalConstants ==
  /\ HostOf \in [Jobs -> Hosts]
  /\ WorkflowOf \in [Jobs -> {"CREATE_MENU", "QA_RECONCILE"}]
  /\ TTL \in Nat \ {0} /\ MaxTime \in Nat
  /\ MaxQuestions \in Nat /\ MaxApprovals \in Nat /\ MaxCrashes \in Nat

VARIABLES
  now, lease, lock, held, promised,   \* Leases
  status,     \* jobs.status; "no job" without a row
  open,       \* number of open review questions of a job
  answering,  \* jobs of which an answer is stored, but not yet its effect
  gate,       \* what the newest run directory says of the plan's quality
  mig,        \* where the planning worker of a job is
  live,       \* where the live worker of a job is
  approvals,  \* approvals so far: names the owner of the live worker's lease
  todo,       \* questions of the plan that are not stored (yet)
  wrote,      \* history: the live worker of the job began to write
  up, crashes

leaseVars == <<now, lease, lock, held, promised>>
jobVars   == <<status, open, gate>>
history   == <<approvals, todo, wrote>>
process   == <<up, answering, crashes>>
vars == <<leaseVars, jobVars, mig, live, history, process>>

\* newLeaseOwner: each run of a worker is an owner of its own, 0 is planning.
Owners == Jobs \X (0 .. MaxApprovals)
L == INSTANCE Leases WITH JobOf <- [o \in Owners |-> o[1]]

Planner(j)  == <<j, 0>>
Executor(j) == <<j, approvals[j]>>

NoJob == "no job"
Statuses == {NoJob, "SOURCE_URL_PENDING", "QUEUED", "EXTRACTING", "ARTIFACTS",
             "AWAITING_REVIEW", "AWAITING_OPERATOR_APPROVAL", "READY_DRY_RUN",
             "LIVE_EXECUTING", "COMPLETED", "RECOVERY_REQUIRED",
             "LIVE_EXECUTION_FAILED", "FAILED", "CANCELLED"}
\* DOMAIN and DECISIONS are passed within one turn and are left out.
InFlight == {"QUEUED", "EXTRACTING", "ARTIFACTS", "LIVE_EXECUTING"}

\* "ok": create-card-quality-gate.json says ok.  "blocked": the contract in
\* menu-quality-contract.json is MENU_QUALITY_BLOCKED, so the gate is not ok.
\* "not ok": the gate is not ok for another reason.  "none": no file yet.
Gates == {"none", "ok", "not ok", "blocked"}

\* updateJobStatus: an UPDATE that finds no row changes nothing.
SetStatus(j, s) ==
  status' = IF status[j] = NoJob THEN status ELSE [status EXCEPT ![j] = s]

MigTo(j, place)  == mig' = [mig EXCEPT ![j] = place]
LiveTo(j, place) == live' = [live EXCEPT ![j] = place]

MidTurn(j) ==
  \/ mig[j] \in {"asking", "publishing", "closing"}
  \/ live[j] \in {"starting", "leased", "refused", "unlocking", "releasing"}
  \/ j \in answering
\* The event loop is free to take up any callback or request.
Idle == up /\ \A j \in Jobs : ~MidTurn(j)

Init ==
  /\ L!LeasesInit
  /\ status = [j \in Jobs |-> NoJob]
  /\ open = [j \in Jobs |-> 0]
  /\ gate = [j \in Jobs |-> "none"]
  /\ mig = [j \in Jobs |-> "unborn"]
  /\ live = [j \in Jobs |-> "none"]
  /\ approvals = [j \in Jobs |-> 0]
  /\ todo = [j \in Jobs |-> 0]
  /\ wrote = [j \in Jobs |-> FALSE]
  /\ up = TRUE /\ answering = {} /\ crashes = 0

\* Time passes between turns.
Tick ==
  /\ Idle /\ L!Tick
  /\ UNCHANGED <<jobVars, mig, live, history, process>>

-----------------------------------------------------------------------------
(* Requests of the employees. *)

\* POST /api/jobs: with an upload (or a live destination to check) the worker
\* is scheduled once its module is imported; a bare URL waits for a file.
CreateJob(j) ==
  /\ Idle /\ mig[j] = "unborn"
  /\ \/ /\ status' = [status EXCEPT ![j] = "QUEUED"]
        /\ MigTo(j, "scheduled")
     \/ /\ WorkflowOf[j] = "CREATE_MENU"
        /\ status' = [status EXCEPT ![j] = "SOURCE_URL_PENDING"]
        /\ MigTo(j, "none")
  /\ UNCHANGED <<leaseVars, open, gate, live, history, process>>

\* Mutant of Answer: no question need be open.
AnswerAny(j) ==
  /\ Idle /\ status[j] # NoJob
  /\ \E n \in 0 .. open[j] : open' = [open EXCEPT ![j] = n]
  /\ answering' = {j}
  /\ UNCHANGED <<leaseVars, status, gate, mig, live, history, up, crashes>>

\* submitReviewAnswer: answerQuestion resolves an open question, with a batch
\* scope its siblings too.  The status of the job is not consulted.
Answer(j) ==
  /\ Idle
  /\ \E n \in 0 .. open[j] - 1 : open' = [open EXCEPT ![j] = n]
  /\ answering' = {j}
  /\ UNCHANGED <<leaseVars, status, gate, mig, live, history, up, crashes>>

\* Mutant of AfterAnswer: a blocked menu stays in review.
AfterAnswerInReview(j) ==
  IF open[j] > 0 \/ gate[j] = "blocked" THEN "AWAITING_REVIEW"
  ELSE IF WorkflowOf[j] = "CREATE_MENU"
       THEN "AWAITING_OPERATOR_APPROVAL" ELSE "READY_DRY_RUN"

AfterAnswer(j) ==
  IF open[j] > 0 THEN "AWAITING_REVIEW"
  ELSE IF WorkflowOf[j] = "CREATE_MENU" /\ gate[j] # "blocked"
       THEN "AWAITING_OPERATOR_APPROVAL" ELSE "READY_DRY_RUN"

AnswerSettles(j) ==
  /\ up /\ j \in answering
  /\ answering' = {}
  /\ SetStatus(j, AfterAnswer(j))
  /\ UNCHANGED <<leaseVars, open, gate, mig, live, history, up, crashes>>

\* Mutant of Approve: the status is trusted and the contract not read again.
ApproveUngated(j) ==
  /\ Idle /\ approvals[j] < MaxApprovals
  /\ status[j] = "AWAITING_OPERATOR_APPROVAL" /\ open[j] = 0
  /\ SetStatus(j, "LIVE_EXECUTING")
  /\ approvals' = [approvals EXCEPT ![j] = @ + 1]
  /\ LiveTo(j, "starting")
  /\ UNCHANGED <<leaseVars, open, gate, mig, todo, wrote, process>>

\* POST approve and schedulePostReviewLiveIfReady: the live worker starts in
\* the same turn.
Approve(j) ==
  /\ Idle /\ approvals[j] < MaxApprovals
  /\ status[j] = "AWAITING_OPERATOR_APPROVAL"
  /\ gate[j] # "blocked" /\ open[j] = 0
  /\ SetStatus(j, "LIVE_EXECUTING")
  /\ approvals' = [approvals EXCEPT ![j] = @ + 1]
  /\ LiveTo(j, "starting")
  /\ UNCHANGED <<leaseVars, open, gate, mig, todo, wrote, process>>

\* cancelJob
Cancel(j) ==
  /\ Idle /\ status[j] \notin {NoJob, "LIVE_EXECUTING", "CANCELLED"}
  /\ SetStatus(j, "CANCELLED")
  /\ UNCHANGED <<leaseVars, open, gate, mig, live, history, process>>

\* deleteJob: whatever the job is doing.  Its questions and runs go with it.
Delete(j) ==
  /\ Idle /\ status[j] # NoJob
  /\ status' = [status EXCEPT ![j] = NoJob]
  /\ open' = [open EXCEPT ![j] = 0]
  /\ gate' = [gate EXCEPT ![j] = "none"]
  /\ UNCHANGED <<leaseVars, mig, live, history, process>>

-----------------------------------------------------------------------------
(* runMigrationJob.  A job is planned once, so its lease is free. *)

MigBegin(j) ==
  /\ Idle /\ mig[j] = "scheduled"
  /\ \/ /\ status[j] = NoJob
        /\ MigTo(j, "none")
        /\ UNCHANGED <<leaseVars, status>>
     \* neither a PDF nor a photo was uploaded
     \/ /\ WorkflowOf[j] = "CREATE_MENU"
        /\ SetStatus(j, "FAILED")
        /\ MigTo(j, "none")
        /\ UNCHANGED leaseVars
     \/ /\ status[j] # NoJob
        /\ L!AcquireJobLease(Planner(j))
        /\ SetStatus(j, "EXTRACTING")
        /\ MigTo(j, "extracting")
  /\ UNCHANGED <<open, gate, live, history, process>>

\* The source is read; domain rules and decisions are applied up to the await
\* of the destination snapshot.
MigExtracted(j) ==
  /\ Idle /\ mig[j] = "extracting"
  /\ SetStatus(j, "ARTIFACTS")
  /\ MigTo(j, "snapshot")
  /\ UNCHANGED <<leaseVars, open, gate, live, history, process>>

\* The catch branch: an await that rejects, or a store or file call of the
\* last turn that throws.
MigFails(j) ==
  /\ \/ Idle /\ mig[j] \in {"extracting", "snapshot"}
     \/ up /\ mig[j] \in {"asking", "publishing"}
  /\ SetStatus(j, "FAILED")
  /\ MigTo(j, "closing")
  /\ UNCHANGED <<leaseVars, open, gate, live, history, process>>

\* The last turn: a heartbeat, the quality files, then replaceOpenQuestions.
MigPublish(j) ==
  /\ Idle /\ mig[j] = "snapshot"
  /\ L!HeartbeatJobLease(Planner(j))
  /\ \E n \in 0 .. MaxQuestions : todo' = [todo EXCEPT ![j] = n]
  /\ \E g \in Gates \ {"none"} :
       gate' = IF status[j] = NoJob THEN gate ELSE [gate EXCEPT ![j] = g]
  /\ MigTo(j, "asking")
  /\ UNCHANGED <<status, open, live, approvals, wrote, process>>

\* replaceOpenQuestions inserts the questions one by one, each insert a
\* transaction of its own.  The questions of a deleted job have no job to refer
\* to, which throws.
MigAsk(j) ==
  /\ up /\ mig[j] = "asking" /\ todo[j] > 0 /\ status[j] # NoJob
  /\ todo' = [todo EXCEPT ![j] = @ - 1]
  /\ open' = [open EXCEPT ![j] = @ + 1]
  /\ UNCHANGED <<leaseVars, status, gate, mig, live, approvals, wrote, process>>

\* Then it sets a status of its own, before the card gate is looked at.
AfterQuestions(j) ==
  IF open[j] > 0 THEN "AWAITING_REVIEW"
  ELSE IF WorkflowOf[j] = "CREATE_MENU" THEN "AWAITING_OPERATOR_APPROVAL"
  ELSE "READY_DRY_RUN"

MigAsked(j) ==
  /\ up /\ mig[j] = "asking" /\ todo[j] = 0
  /\ SetStatus(j, AfterQuestions(j))
  /\ MigTo(j, "publishing")
  /\ UNCHANGED <<leaseVars, open, gate, live, history, process>>

\* finalStatus: this time the card gate counts.
FinalStatus(j) ==
  IF open[j] > 0 THEN "AWAITING_REVIEW"
  ELSE IF WorkflowOf[j] = "CREATE_MENU" /\ gate[j] = "ok"
       THEN "AWAITING_OPERATOR_APPROVAL" ELSE "READY_DRY_RUN"

MigFinish(j) ==
  /\ up /\ mig[j] = "publishing"
  /\ SetStatus(j, FinalStatus(j))
  /\ MigTo(j, "closing")
  /\ UNCHANGED <<leaseVars, open, gate, live, history, process>>

MigRelease(j) ==
  /\ up /\ mig[j] = "closing"
  /\ L!ReleaseJobLease(Planner(j), "RELEASED")
  /\ MigTo(j, "none")
  /\ UNCHANGED <<jobVars, live, history, process>>

-----------------------------------------------------------------------------
(* runPostReviewLiveIfReady, started by schedulePostReviewLiveIfReady.  Its   *)
(* artifacts were all written before the job could be approved.              *)

\* ran: false, and the job still reads LIVE_EXECUTING.
NotStarted(j) ==
  /\ up /\ live[j] = "refused"
  /\ SetStatus(j, "AWAITING_OPERATOR_APPROVAL")
  /\ LiveTo(j, "none")
  /\ UNCHANGED <<leaseVars, open, gate, mig, history, process>>

TakeLease(j) ==
  /\ up /\ live[j] = "starting"
  /\ \/ /\ L!WorkerLeaseHeld(Executor(j))
        /\ LiveTo(j, "refused")
        /\ UNCHANGED leaseVars
     \/ /\ L!AcquireJobLease(Executor(j))
        /\ LiveTo(j, "leased")
  /\ UNCHANGED <<jobVars, mig, history, process>>

\* The heartbeat that follows changes nothing: the lease is new.
TakeLock(j) ==
  /\ up /\ live[j] = "leased"
  /\ \/ /\ L!DestinationWriteLocked(HostOf[j], Executor(j))
        /\ L!ReleaseJobLease(Executor(j), "DESTINATION_WRITE_LOCKED")
        /\ LiveTo(j, "refused")
     \/ /\ L!AcquireDestinationWriteLock(HostOf[j], Executor(j))
        /\ LiveTo(j, "preparing")
  /\ UNCHANGED <<jobVars, mig, history, process>>

\* executePortalLiveWrites passed its checks and calls executeMigrationPlan.
BeginWriting(j) ==
  /\ Idle /\ live[j] = "preparing"
  /\ wrote' = [wrote EXCEPT ![j] = TRUE]
  /\ LiveTo(j, "writing")
  /\ UNCHANGED <<leaseVars, jobVars, mig, approvals, todo, process>>

\* Mutant of LiveFails: the exception skips the finally block.
LiveFailsOpen(j) ==
  /\ Idle /\ live[j] \in {"preparing", "writing"}
  /\ SetStatus(j, "LIVE_EXECUTION_FAILED")
  /\ LiveTo(j, "none")
  /\ UNCHANGED <<leaseVars, open, gate, mig, history, process>>


\* It threw (a stale bundle, no login, a failing destination), before or
\* during the writes.
LiveFails(j) ==
  /\ Idle /\ live[j] \in {"preparing", "writing"}
  /\ SetStatus(j, "LIVE_EXECUTION_FAILED")
  /\ LiveTo(j, "unlocking")
  /\ UNCHANGED <<leaseVars, open, gate, mig, history, process>>

\* Mutant of LiveFinishes: an incomplete run may be approved once more.
LiveFinishesRetry(j) ==
  /\ Idle /\ live[j] = "writing"
  /\ \E s \in {"COMPLETED", "AWAITING_OPERATOR_APPROVAL"} : SetStatus(j, s)
  /\ LiveTo(j, "unlocking")
  /\ UNCHANGED <<leaseVars, open, gate, mig, history, process>>

\* It returned: complete, or with a recovery plan.
LiveFinishes(j) ==
  /\ Idle /\ live[j] = "writing"
  /\ \E s \in {"COMPLETED", "RECOVERY_REQUIRED", "LIVE_EXECUTION_FAILED"} :
       SetStatus(j, s)
  /\ LiveTo(j, "unlocking")
  /\ UNCHANGED <<leaseVars, open, gate, mig, history, process>>

\* finally
Unlock(j) ==
  /\ up /\ live[j] = "unlocking"
  /\ L!ReleaseDestinationWriteLock(HostOf[j], Executor(j))
  /\ LiveTo(j, "releasing")
  /\ UNCHANGED <<jobVars, mig, history, process>>

LiveRelease(j) ==
  /\ up /\ live[j] = "releasing"
  /\ L!ReleaseJobLease(Executor(j), "RELEASED")
  /\ LiveTo(j, "none")
  /\ UNCHANGED <<jobVars, mig, history, process>>

-----------------------------------------------------------------------------
(* The process. *)

\* It dies at any moment, in the middle of a turn as well.
Crash ==
  /\ up /\ crashes < MaxCrashes
  /\ up' = FALSE /\ answering' = {} /\ crashes' = crashes + 1
  /\ L!OwnersDie
  /\ mig' = [j \in Jobs |-> IF mig[j] = "unborn" THEN "unborn" ELSE "none"]
  /\ live' = [j \in Jobs |-> "none"]
  /\ UNCHANGED <<jobVars, history>>

\* The clock of the machine goes on without it.
TickDown ==
  /\ ~up /\ L!Tick
  /\ UNCHANGED <<jobVars, mig, live, history, process>>

\* Mutant of AfterExpiry: only planning jobs are expired.
AfterExpiryPlanning(s) ==
  IF s \in InFlight \ {"LIVE_EXECUTING"} THEN "FAILED" ELSE s

\* expireStaleInFlightJobs, by the lease rows that reclaiming has marked.
AfterExpiry(s) ==
  CASE s = "LIVE_EXECUTING" -> "LIVE_EXECUTION_FAILED"
    [] s \in InFlight \ {"LIVE_EXECUTING"} -> "FAILED"
    [] OTHER -> s

LeaseExpired(row) == row # L!NoRow /\ row.state = "WORKER_LEASE_EXPIRED"

\* The first getPortalStore of a new process.
Boot ==
  /\ ~up /\ up' = TRUE
  /\ L!ReclaimExpiredLeases
  /\ status' = [j \in Jobs |-> IF LeaseExpired(lease'[j])
                               THEN AfterExpiry(status[j]) ELSE status[j]]
  /\ UNCHANGED <<open, gate, mig, live, history, answering, crashes>>

Planning(j) ==
  MigBegin(j) \/ MigExtracted(j) \/ MigFails(j) \/ MigPublish(j)
    \/ MigAsk(j) \/ MigAsked(j) \/ MigFinish(j) \/ MigRelease(j)
Executing(j) ==
  TakeLease(j) \/ TakeLock(j) \/ NotStarted(j) \/ BeginWriting(j)
    \/ LiveFails(j) \/ LiveFinishes(j) \/ Unlock(j) \/ LiveRelease(j)
Request(j) ==
  CreateJob(j) \/ Answer(j) \/ Approve(j) \/ Cancel(j) \/ Delete(j)

Next ==
  \/ Tick \/ TickDown \/ Crash \/ Boot
  \/ \E j \in Jobs : \/ Planning(j) \/ Executing(j)
                    \/ Request(j) \/ AnswerSettles(j)

Spec == Init /\ [][Next]_vars

\* Workers run by themselves: each of their awaits ends, at the latest by its
\* timeout.  Time passes and a dead process is started again.  Nothing makes an
\* employee do anything.
FairSpec ==
  /\ Spec
  /\ \A j \in Jobs : /\ WF_vars(Planning(j)) /\ WF_vars(Executing(j))
                     /\ WF_vars(AnswerSettles(j))
  /\ WF_vars(Tick) /\ WF_vars(TickDown) /\ WF_vars(Boot)

-----------------------------------------------------------------------------
TypeOK ==
  /\ L!LeasesTypeOK
  /\ status \in [Jobs -> Statuses]
  /\ open \in [Jobs -> 0 .. MaxQuestions]
  /\ gate \in [Jobs -> Gates]
  /\ mig \in [Jobs -> {"unborn", "scheduled", "extracting", "snapshot",
                       "asking", "publishing", "closing", "none"}]
  /\ live \in [Jobs -> {"none", "starting", "leased", "refused", "preparing",
                        "writing", "unlocking", "releasing"}]
  /\ approvals \in [Jobs -> 0 .. MaxApprovals]
  /\ todo \in [Jobs -> 0 .. MaxQuestions]
  /\ wrote \in [Jobs -> BOOLEAN]
  /\ answering \subseteq Jobs
  /\ up \in BOOLEAN /\ crashes \in 0 .. MaxCrashes

\* Two runs never believe at once to be the only writer of one host.  The lock
\* table alone does not promise it: a run's lock is deleted by whichever run of
\* its job gives it back (releaseDestinationWriteLock).  It takes the approvals,
\* failures, refusals and restarts to keep the runs of one job apart.
OneRunPerHost ==
  \A h \in Hosts, o1, o2 \in Owners :
    L!Promised(o1, h) /\ L!Promised(o2, h) => o1 = o2

\* Whatever the order of planning, answers, restarts and approvals: a menu
\* whose contract is BLOCKED is never written, and neither is the result of a
\* QA_RECONCILE job (isMenuQualityBlocked and the workflow, checked apart in
\* answerQuestion, submitReviewAnswer and the approval).
OnlyWritableIsWritten ==
  [][\A j \in Jobs : live'[j] = "writing" /\ live[j] # "writing" =>
       gate[j] # "blocked" /\ WorkflowOf[j] = "CREATE_MENU"]_vars

\* A plan that has been executed, in part or completely, can never be approved
\* again: "Never blindly replay the original plan".
NoBlindReplay ==
  [][\A j \in Jobs : wrote[j] =>
       /\ status'[j] # "AWAITING_OPERATOR_APPROVAL"
       /\ live[j] = "none" => live'[j] = "none"]_vars

\* While a job is being planned nobody executes it, and no question is open
\* while it executes: neither an answer nor an approval, cancelled or failed
\* planning nor a restart makes a job executable too soon.
PlannedBeforeExecuted ==
  \A j \in Jobs : live[j] # "none" =>
    mig[j] = "none" /\ open[j] = 0

\* Without a death of the process no lock and no lease outlives its worker,
\* whichever step of it failed.
NothingLeaks ==
  crashes = 0 =>
    /\ \A h \in Hosts : lock[h] # L!NoRow =>
         live[lock[h].job] \in {"preparing", "writing", "unlocking"}
    /\ \A j \in Jobs : lease[j] # L!NoRow /\ lease[j].state = "RUNNING" =>
         \/ mig[j] \notin {"unborn", "scheduled", "none"}
         \/ live[j] \notin {"none", "starting"}

\* After a restart a job whose lease has run out does not read as in flight.
BootSettles ==
  \A j \in Jobs :
    up /\ LeaseExpired(lease[j]) /\ live[j] = "none" =>
      status[j] \notin InFlight

\* Without a death of the process a job that awaits review has a question to
\* answer: publishing, answers to one or several questions, failures and
\* cancellations never strand it (answerQuestion computes the status from the
\* questions that remain).
ReviewIsAnswerable ==
  crashes = 0 /\ Idle =>
    \A j \in Jobs : status[j] = "AWAITING_REVIEW" => open[j] > 0


-----------------------------------------------------------------------------
(* Statements of the repository that the code does not keep. *)

\* "Only one mutating run per normalized host."
OneWriterPerHost ==
  \A j1, j2 \in Jobs :
    /\ HostOf[j1] = HostOf[j2]
    /\ live[j1] = "writing" /\ live[j2] = "writing"
    => j1 = j2

\* "Cancelled by ... - stale job, do not resume": the planning worker does not
\* look at the status it replaces.
CancelledIsFinal ==
  [][\A j \in Jobs : status[j] = "CANCELLED" =>
       status'[j] \in {"CANCELLED", NoJob}]_vars

\* "AWAITING_OPERATOR_APPROVAL itself requires an approving create-card gate
\* artifact."
ApprovalNeedsCardGate ==
  Idle => \A j \in Jobs :
    status[j] = "AWAITING_OPERATOR_APPROVAL" => gate[j] = "ok"

\* "Prefer human review over silent automation when ambiguous": nothing is
\* executed while a question of its plan was never put to anyone.
AskedBeforeExecuted ==
  \A j \in Jobs : live[j] # "none" => todo[j] = 0
=============================================================================
