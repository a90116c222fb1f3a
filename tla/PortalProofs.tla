---------------------------- MODULE PortalProofs ----------------------------
(***************************************************************************)
(* What the life of a portal job promises, for any number of jobs, hosts,   *)
(* questions, approvals and deaths of the process, and any lease time.      *)
(*                                                                         *)
(* The portal changes the lease tables by the actions of Leases, so what     *)
(* LeasesProofs proves of them holds here.  The rest is one inductive        *)
(* invariant, PortalInv: it says for each job where its two workers can be,  *)
(* given the job's status, its open questions and its lease.  On top of it   *)
(* rests the exclusion of writers, Told: who believes in a lock is the one   *)
(* live worker of its job, and owns the row.                                 *)
(***************************************************************************)
EXTENDS PortalJobs, TLAPS

LP == INSTANCE LeasesProofs WITH JobOf <- [o \in Owners |-> o[1]]

\* The places in which a worker has its lease in the table.
Working == {"extracting", "snapshot", "asking", "publishing", "closing"}
Leased == {"leased", "preparing", "writing", "unlocking", "releasing"}

Running(j, o) ==
  lease[j] # L!NoRow /\ lease[j].owner = o /\ lease[j].state = "RUNNING"
Waits(j) == status[j] = "AWAITING_OPERATOR_APPROVAL"

\* What a death leaves behind.
Down ==
  /\ crashes = 0 => up
  /\ ~up => /\ answering = {}
            /\ \A j \in Jobs : live[j] = "none" /\ mig[j] \in {"unborn", "none"}

\* One answer is settled at a time, and only after planning.
Answered ==
  /\ \A j \in answering : mig[j] = "none"
  /\ \A j, k \in answering : j = k

\* Planning has its lease as long as it works; only its last turn can let the job
\* wait for an approval.
PlannerAt(j) ==
  /\ mig[j] \in Working => Running(j, Planner(j))
  /\ mig[j] \in {"unborn", "scheduled"} => lease[j] = L!NoRow
  /\ mig[j] \notin {"asking", "publishing", "closing", "none"} => open[j] = 0
  /\ Waits(j) => /\ mig[j] \in {"publishing", "closing", "none"}
                 /\ WorkflowOf[j] = "CREATE_MENU"

\* From its approval on, a job is neither planned, nor asked about, nor approved
\* again, and its menu stays one that may be written.
ExecutorAt(j) ==
  /\ live[j] # "none" =>
       /\ mig[j] = "none" /\ open[j] = 0 /\ j \notin answering /\ ~Waits(j)
       /\ gate[j] # "blocked" /\ WorkflowOf[j] = "CREATE_MENU"
  /\ live[j] \in Leased => Running(j, Executor(j))

\* Once it has begun to write, it is never before its writes again.
AfterWriting(j) ==
  wrote[j] => /\ mig[j] = "none" /\ open[j] = 0 /\ j \notin answering /\ ~Waits(j)
              /\ live[j] \in {"none", "writing", "unlocking", "releasing"}

\* Leases that have run out, leases nobody died over, questions nobody died over.
LeaseAt(j) ==
  /\ LeaseExpired(lease[j]) => mig[j] = "none"
  /\ up /\ LeaseExpired(lease[j]) /\ live[j] = "none" => status[j] \notin InFlight
  /\ crashes = 0 /\ lease[j] # L!NoRow /\ lease[j].state = "RUNNING" =>
       mig[j] \in Working \/ live[j] \in Leased
  /\ crashes = 0 /\ status[j] = "AWAITING_REVIEW" => open[j] > 0 \/ j \in answering

LockAt(h) ==
  lock[h] # L!NoRow =>
    /\ HostOf[lock[h].job] = h
    /\ crashes = 0 => live[lock[h].job] \in {"preparing", "writing", "unlocking"}

\* The questions of one planning run.
Asked(j) == mig[j] = "asking" => open[j] + todo[j] <= MaxQuestions

\* TypeOK without the lease tables, which are typed by their protocol.
Typed ==
  /\ status \in [Jobs -> Statuses]
  /\ open \in [Jobs -> 0 .. MaxQuestions]
  /\ gate \in [Jobs -> Gates]
  /\ mig \in [Jobs -> {"unborn", "scheduled", "none"} \cup Working]
  /\ live \in [Jobs -> {"none", "starting", "refused"} \cup Leased]
  /\ approvals \in [Jobs -> 0 .. MaxApprovals]
  /\ todo \in [Jobs -> 0 .. MaxQuestions]
  /\ wrote \in [Jobs -> BOOLEAN]
  /\ answering \subseteq Jobs
  /\ up \in BOOLEAN /\ crashes \in 0 .. MaxCrashes

JobInv(j) ==
  PlannerAt(j) /\ ExecutorAt(j) /\ AfterWriting(j) /\ LeaseAt(j) /\ Asked(j)

PortalInv ==
  /\ Typed /\ Down /\ Answered
  /\ \A j \in Jobs : JobInv(j)
  /\ \A h \in Hosts : LockAt(h)

-----------------------------------------------------------------------------
(* The lease tables *)

LEMMA Constants == LP!LeaseConstants
BY PortalConstants DEF LP!LeaseConstants, Owners

\* The two instances of the protocol are the same.
LEMMA SameProtocol == L!LeasesSpec => LP!LeasesSpec
<1>1. L!LeasesInit => LP!LeasesInit
  BY DEF L!LeasesInit, LP!LeasesInit, L!NoRow, LP!NoRow, L!Nobody, LP!Nobody,
    L!Nowhere, LP!Nowhere
<1>2. [L!LeasesNext]_(L!leaseVars) => [LP!LeasesNext]_(LP!leaseVars)
  BY DEF L!LeasesNext, LP!LeasesNext, L!leaseVars, LP!leaseVars, L!Tick, LP!Tick,
    L!ReclaimExpiredLeases, LP!ReclaimExpiredLeases, L!Expired, LP!Expired,
    L!NoRow, LP!NoRow, L!OwnersDie, LP!OwnersDie, L!Nobody, LP!Nobody, L!Nowhere,
    LP!Nowhere, L!LeaseStep, LP!LeaseStep, L!LockStep, LP!LockStep,
    L!AcquireJobLease, LP!AcquireJobLease, L!WorkerLeaseHeld, LP!WorkerLeaseHeld,
    L!HeartbeatJobLease, LP!HeartbeatJobLease, L!HeartbeatOk, LP!HeartbeatOk,
    L!ReleaseJobLease, LP!ReleaseJobLease, L!LeaseStates, LP!LeaseStates,
    L!AcquireDestinationWriteLock, LP!AcquireDestinationWriteLock,
    L!DestinationWriteLocked, LP!DestinationWriteLocked,
    L!ReleaseDestinationWriteLock, LP!ReleaseDestinationWriteLock
<1> QED BY <1>1, <1>2, PTL DEF L!LeasesSpec, LP!LeasesSpec

\* Each run of a worker is an owner of the protocol.
LEMMA OwnersAre ==
  ASSUME approvals \in [Jobs -> 0 .. MaxApprovals], NEW j \in Jobs
  PROVE  /\ Planner(j) \in Owners /\ [o \in Owners |-> o[1]][Planner(j)] = j
         /\ Executor(j) \in Owners /\ [o \in Owners |-> o[1]][Executor(j)] = j
BY PortalConstants DEF Owners, Planner, Executor

LEMMA ApprovalsTyped == Spec => [](approvals \in [Jobs -> 0 .. MaxApprovals])
<1>1. Init => approvals \in [Jobs -> 0 .. MaxApprovals]
  BY PortalConstants DEF Init
<1>2. ASSUME approvals \in [Jobs -> 0 .. MaxApprovals], [Next]_vars
      PROVE  (approvals \in [Jobs -> 0 .. MaxApprovals])'
  <2>1. ASSUME NEW j \in Jobs, Approve(j)
        PROVE  (approvals \in [Jobs -> 0 .. MaxApprovals])'
    BY <1>2, <2>1, PortalConstants DEF Approve
  <2>2. ASSUME NEW j \in Jobs, Planning(j) \/ Executing(j) PROVE UNCHANGED approvals
    BY <2>2 DEF Planning, Executing, MigBegin, MigExtracted, MigFails, MigPublish,
      MigAsk, MigAsked, MigFinish, MigRelease, TakeLease, TakeLock, NotStarted,
      BeginWriting, LiveFails, LiveFinishes, Unlock, LiveRelease, history
  <2>3. ASSUME NEW j \in Jobs, CreateJob(j) \/ Answer(j) \/ Cancel(j) \/ Delete(j)
                               \/ AnswerSettles(j)
        PROVE  UNCHANGED approvals
    BY <2>3 DEF CreateJob, Answer, Cancel, Delete, AnswerSettles, history
  <2>4. Tick \/ TickDown \/ Crash \/ Boot \/ UNCHANGED vars => UNCHANGED approvals
    BY DEF Tick, TickDown, Crash, Boot, vars, history
  <2> QED BY <1>2, <2>1, <2>2, <2>3, <2>4 DEF Next, Request
<1> QED BY <1>1, <1>2, PTL DEF Spec

\* Each step of the portal does to the lease tables what one step of their
\* protocol does, or nothing.
LEMMA StepFollowsProtocol ==
  ASSUME approvals \in [Jobs -> 0 .. MaxApprovals], [Next]_vars
  PROVE  [L!LeasesNext]_(L!leaseVars)
<1> USE DEF L!leaseVars
<1>1. CASE Tick \/ TickDown \/ Crash \/ Boot
  BY <1>1 DEF Tick, TickDown, Crash, Boot, L!LeasesNext
<1>2. CASE UNCHANGED vars
  BY <1>2 DEF vars, leaseVars
<1>3. ASSUME NEW j \in Jobs, Request(j) \/ AnswerSettles(j) PROVE UNCHANGED L!leaseVars
  BY <1>3 DEF Request, CreateJob, Answer, Approve, Cancel, Delete, AnswerSettles, leaseVars
<1>4. ASSUME NEW j \in Jobs, Planning(j) PROVE [L!LeasesNext]_(L!leaseVars)
  <2>1. CASE UNCHANGED leaseVars
    BY <2>1 DEF leaseVars
  <2>2. CASE L!LeaseStep(Planner(j))
    BY <2>2, OwnersAre DEF L!LeasesNext
  <2>3. L!LeaseStep(Planner(j)) \/ UNCHANGED leaseVars
    BY <1>4 DEF Planning, MigBegin, MigExtracted, MigFails, MigPublish,
      MigAsk, MigAsked, MigFinish, MigRelease, L!LeaseStep, L!LeaseStates
  <2> QED BY <2>1, <2>2, <2>3
<1>5. ASSUME NEW j \in Jobs, Executing(j) PROVE [L!LeasesNext]_(L!leaseVars)
  <2>0. HostOf[j] \in Hosts /\ Executor(j) \in Owners
    BY PortalConstants, OwnersAre
  <2>1. CASE UNCHANGED leaseVars
    BY <2>1 DEF leaseVars
  <2>2. CASE L!LeaseStep(Executor(j))
    BY <2>2, OwnersAre DEF L!LeasesNext
  <2>3. CASE L!LockStep(HostOf[j])
    BY <2>3, <2>0 DEF L!LeasesNext
  <2>4. TakeLease(j) \/ LiveRelease(j) => L!LeaseStep(Executor(j)) \/ UNCHANGED leaseVars
    BY DEF TakeLease, LiveRelease, L!LeaseStep, L!LeaseStates
  <2>5. TakeLock(j) => L!LeaseStep(Executor(j)) \/ L!LockStep(HostOf[j])
    BY <2>0 DEF TakeLock, L!LeaseStep, L!LeaseStates, L!LockStep
  <2>6. Unlock(j) => L!LockStep(HostOf[j])
    BY <2>0 DEF Unlock, L!LockStep
  <2>7. NotStarted(j) \/ BeginWriting(j) \/ LiveFails(j) \/ LiveFinishes(j)
          => UNCHANGED leaseVars
    BY DEF NotStarted, BeginWriting, LiveFails, LiveFinishes
  <2> QED BY <1>5, <2>1, <2>2, <2>3, <2>4, <2>5, <2>6, <2>7 DEF Executing
<1> QED BY <1>1, <1>2, <1>3, <1>4, <1>5 DEF Next

LEMMA PortalFollowsProtocol == Spec => LP!LeasesSpec
<1>1. Init => L!LeasesInit
  BY DEF Init
<1>2. Spec => L!LeasesSpec
  BY <1>1, StepFollowsProtocol, ApprovalsTyped, PTL DEF Spec, L!LeasesSpec
<1> QED BY <1>2, SameProtocol

\* No two runs of workers ever hold the lease of one job, in the portal as it
\* uses the tables.
THEOREM PortalKeepsExclusion == Spec => []LP!OneHolderPerJob
BY PortalFollowsProtocol, Constants, LP!JobLeaseExclusive

LEMMA LeasesTyped == Spec => []LP!LeasesTypeOK
<1>1. LP!LeasesSpec => []LP!LeasesInv
  BY Constants, LP!LeasesInvariant
<1>2. LP!LeasesInv => LP!LeasesTypeOK
  BY DEF LP!LeasesInv
<1> QED BY <1>1, <1>2, PortalFollowsProtocol, PTL

-----------------------------------------------------------------------------
(* Steps of one job *)

Tables ==
  /\ lease \in [Jobs -> L!LeaseRow \cup {L!NoRow}]
  /\ lock \in [Hosts -> L!LockRow \cup {L!NoRow}]
  /\ promised \in [Owners -> [Hosts -> Nat]] /\ now \in Nat

LEMMA TablesTyped == LP!LeasesTypeOK => Tables
BY DEF LP!LeasesTypeOK, Tables, LP!LeaseRow, L!LeaseRow, LP!LockRow, L!LockRow,
  LP!NoRow, L!NoRow, LP!LeaseStates, L!LeaseStates

\* An owner's lease is its own row.
LEMMA Acquires ==
  ASSUME Tables, NEW j \in Jobs, NEW o \in Owners, [p \in Owners |-> p[1]][o] = j,
         L!AcquireJobLease(o)
  PROVE  /\ lease'[j] # L!NoRow /\ lease'[j].owner = o /\ lease'[j].state = "RUNNING"
         /\ \A k \in Jobs \ {j} : lease'[k] = lease[k]
         /\ lock' = lock
BY DEF Tables, L!AcquireJobLease, L!NoRow

LEMMA Beats ==
  ASSUME Tables, NEW j \in Jobs, NEW o \in Owners, [p \in Owners |-> p[1]][o] = j,
         L!HeartbeatJobLease(o), Running(j, o)
  PROVE  /\ lease'[j] # L!NoRow /\ lease'[j].owner = o /\ lease'[j].state = "RUNNING"
         /\ \A k \in Jobs \ {j} : lease'[k] = lease[k]
         /\ lock' = lock
<1>1. CASE UNCHANGED lease
  BY <1>1 DEF Running, L!HeartbeatJobLease
<1>2. CASE lease' = [lease EXCEPT ![j].expires = now + TTL]
  <2>1. lease[j] \in L!LeaseRow
    BY DEF Tables, Running
  <2>2. lease'[j] = [lease[j] EXCEPT !.expires = now + TTL]
    BY <1>2 DEF Tables
  <2>3. lease'[j].owner = lease[j].owner /\ lease'[j].state = lease[j].state
        /\ lease'[j] # L!NoRow
    BY <2>1, <2>2 DEF L!LeaseRow, L!NoRow
  <2> QED BY <1>2, <2>3 DEF Running, L!HeartbeatJobLease, Tables
<1> QED BY <1>1, <1>2 DEF L!HeartbeatJobLease

LEMMA Releases ==
  ASSUME Tables, NEW j \in Jobs, NEW o \in Owners, [p \in Owners |-> p[1]][o] = j,
         NEW s \in L!LeaseStates, L!ReleaseJobLease(o, s), Running(j, o)
  PROVE  /\ lease'[j] # L!NoRow /\ lease'[j].owner = o /\ lease'[j].state = s
         /\ \A k \in Jobs \ {j} : lease'[k] = lease[k]
         /\ lock' = lock
<1>1. lease[j] \in L!LeaseRow /\ lease[j] # L!NoRow /\ lease[j].owner = o
  BY DEF Tables, Running
<1>2. lease' = [lease EXCEPT ![j].state = s, ![j].expires = now]
  BY <1>1 DEF L!ReleaseJobLease
<1>3. lease'[j] = [lease[j] EXCEPT !.state = s, !.expires = now]
  BY <1>2 DEF Tables
<1>4. lease'[j].owner = o /\ lease'[j].state = s /\ lease'[j] # L!NoRow
  BY <1>1, <1>3 DEF L!LeaseRow, L!NoRow
<1> QED BY <1>2, <1>4 DEF L!ReleaseJobLease, Tables

\* A step of job j leaves the other jobs alone.
OnlyJob(j) ==
  /\ up /\ UNCHANGED <<up, crashes>>
  /\ \A k \in Jobs \ {j} :
       /\ status'[k] = status[k] /\ open'[k] = open[k] /\ gate'[k] = gate[k]
       /\ mig'[k] = mig[k] /\ live'[k] = live[k] /\ approvals'[k] = approvals[k]
       /\ todo'[k] = todo[k] /\ wrote'[k] = wrote[k] /\ lease'[k] = lease[k]
       /\ k \in answering' <=> k \in answering

LEMMA OtherJobs ==
  ASSUME NEW j \in Jobs, NEW k \in Jobs \ {j}, OnlyJob(j), JobInv(k)
  PROVE  JobInv(k)'
<1> USE DEF OnlyJob, Waits, Running
<1>1. PlannerAt(k)'
  BY DEF JobInv, PlannerAt, Planner
<1>2. ExecutorAt(k)'
  BY DEF JobInv, ExecutorAt, Executor
<1>3. AfterWriting(k)' /\ Asked(k)'
  BY DEF JobInv, AfterWriting, Asked
<1>4. LeaseAt(k)'
  BY DEF JobInv, LeaseAt, LeaseExpired
<1> QED BY <1>1, <1>2, <1>3, <1>4 DEF JobInv

\* Then what is left to show concerns job j and the locks.
LEMMA JobStep ==
  ASSUME PortalInv, NEW j \in Jobs, OnlyJob(j), Typed', JobInv(j)',
         Answered', \A h \in Hosts : LockAt(h)'
  PROVE  PortalInv'
<1>1. Down'
  BY DEF OnlyJob, PortalInv, Down
<1>2. \A k \in Jobs : JobInv(k)'
  BY OtherJobs DEF PortalInv
<1> QED BY <1>1, <1>2 DEF PortalInv

\* The locks stay backed if job j does not leave the places it may hold one in.
LEMMA LocksStay ==
  ASSUME PortalInv, Tables, NEW j \in Jobs, OnlyJob(j), lock' = lock,
         live[j] \in {"preparing", "writing", "unlocking"} =>
           live'[j] \in {"preparing", "writing", "unlocking"}
  PROVE  \A h \in Hosts : LockAt(h)'
<1> TAKE h \in Hosts
<1>1. LockAt(h)
  BY DEF PortalInv
<1>2. lock[h] # L!NoRow => lock[h].job \in Jobs
  BY DEF Tables, L!LockRow
<1> QED BY <1>1, <1>2 DEF LockAt, OnlyJob

\* updateJobStatus changes the status of a job that is there.
LEMMA StatusSet ==
  ASSUME Typed, NEW j \in Jobs, NEW s \in Statuses, SetStatus(j, s)
  PROVE  /\ status' \in [Jobs -> Statuses]
         /\ status'[j] = s \/ (status'[j] = NoJob /\ status[j] = NoJob)
         /\ \A k \in Jobs \ {j} : status'[k] = status[k]
BY DEF Typed, SetStatus

LEMMA StatusesAre ==
  /\ NoJob \in Statuses /\ "QUEUED" \in Statuses
  /\ {"SOURCE_URL_PENDING", "EXTRACTING", "ARTIFACTS", "AWAITING_REVIEW",
      "AWAITING_OPERATOR_APPROVAL", "READY_DRY_RUN", "LIVE_EXECUTING", "COMPLETED",
      "RECOVERY_REQUIRED", "LIVE_EXECUTION_FAILED", "FAILED", "CANCELLED"}
        \subseteq Statuses
  /\ NoJob \notin InFlight /\ NoJob # "AWAITING_REVIEW"
  /\ NoJob # "AWAITING_OPERATOR_APPROVAL"
BY DEF Statuses, NoJob, InFlight

\* Between turns nothing is half done.
LEMMA IdleMeans ==
  ASSUME Typed, Idle, NEW j \in Jobs
  PROVE  /\ up /\ answering = {}
         /\ mig[j] \notin {"asking", "publishing", "closing"}
         /\ live[j] \notin {"starting", "leased", "refused", "unlocking", "releasing"}
BY DEF Typed, Idle, MidTurn

-----------------------------------------------------------------------------
(* The operations, one lemma for each *)

\* A request creates a job: it has neither worker nor lease yet.
LEMMA CreateJobKeepsInv ==
  ASSUME PortalInv, Tables, NEW j \in Jobs, CreateJob(j)
  PROVE  PortalInv'
<1> USE DEF PortalInv
<1>0. status' \in [Jobs -> Statuses]
  BY StatusesAre DEF Typed, CreateJob
<1>1. Typed'
  BY <1>0, IdleMeans DEF Typed, Working, Leased, Gates, CreateJob, leaseVars, history,
    process, MigTo
<1>2. OnlyJob(j)
  BY <1>0, IdleMeans DEF Typed, OnlyJob, CreateJob, leaseVars, history, process, MigTo
<1>3. Answered'
  BY IdleMeans DEF Typed, Answered, JobInv, PlannerAt, CreateJob, leaseVars, history,
    process, MigTo
<1>4. \A h \in Hosts : LockAt(h)'
  BY <1>0, <1>2, LocksStay DEF Typed, CreateJob, leaseVars, history, process, MigTo
<1>5. PlannerAt(j)'
  BY <1>0, IdleMeans DEF Typed, JobInv, PlannerAt, ExecutorAt, Answered, Waits,
    Running, Planner, Working, CreateJob, leaseVars, history, process, MigTo
<1>6. ExecutorAt(j)'
  BY <1>0, IdleMeans DEF Typed, JobInv, PlannerAt, ExecutorAt, Answered, Waits,
    Running, Executor, Leased, CreateJob, leaseVars, history, process, MigTo
<1>7. AfterWriting(j)' /\ Asked(j)'
  BY <1>0, IdleMeans DEF Typed, JobInv, PlannerAt, ExecutorAt, AfterWriting, Asked,
    Answered, Waits, CreateJob, leaseVars, history, process, MigTo
<1>8. LeaseAt(j)'
  BY <1>0, IdleMeans DEF Typed, JobInv, PlannerAt, ExecutorAt, LeaseAt, Answered,
    Running, LeaseExpired, InFlight, Working, Leased, CreateJob, leaseVars, history,
    process, MigTo
<1> QED BY <1>1, <1>2, <1>3, <1>4, <1>5, <1>6, <1>7, <1>8, JobStep DEF JobInv

\* An answer takes questions away and changes nothing else before it settles.
LEMMA AnswerKeepsInv ==
  ASSUME PortalInv, Tables, NEW j \in Jobs, Answer(j)
  PROVE  PortalInv'
<1> USE DEF PortalInv
<1>0. PICK n \in 0 .. open[j] - 1 : open' = [open EXCEPT ![j] = n]
  BY DEF Answer
<1>11. n \in 0 .. MaxQuestions
  BY PortalConstants, <1>0 DEF Typed
<1>1. Typed'
  BY <1>0, <1>11 DEF Typed, Answer, history
<1>2. OnlyJob(j)
  BY <1>0, IdleMeans DEF Typed, OnlyJob, Answer, leaseVars, history
<1>3. Answered'
  BY IdleMeans DEF Typed, Answered, JobInv, PlannerAt, Answer, leaseVars, history
<1>4. \A h \in Hosts : LockAt(h)'
  BY <1>0, <1>2, LocksStay DEF Typed, Answer, leaseVars, history
<1>5. PlannerAt(j)'
  BY <1>0, IdleMeans DEF Typed, JobInv, PlannerAt, ExecutorAt, Answered, Waits,
    Running, Planner, Working, Answer, leaseVars, history
<1>6. ExecutorAt(j)'
  BY <1>0, IdleMeans DEF Typed, JobInv, PlannerAt, ExecutorAt, Answered, Waits,
    Running, Executor, Leased, Answer, leaseVars, history
<1>7. AfterWriting(j)' /\ Asked(j)'
  BY <1>0, IdleMeans DEF Typed, JobInv, PlannerAt, ExecutorAt, AfterWriting, Asked,
    Answered, Waits, Answer, leaseVars, history
<1>8. LeaseAt(j)'
  BY <1>0, IdleMeans DEF Typed, JobInv, PlannerAt, ExecutorAt, LeaseAt, Answered,
    Running, LeaseExpired, InFlight, Working, Leased, Answer, leaseVars, history
<1> QED BY <1>1, <1>2, <1>3, <1>4, <1>5, <1>6, <1>7, <1>8, JobStep DEF JobInv

\* Its effect: planning is over, and what is left open decides the status.
LEMMA AnswerSettlesKeepsInv ==
  ASSUME PortalInv, Tables, NEW j \in Jobs, AnswerSettles(j)
  PROVE  PortalInv'
<1> USE DEF PortalInv
<1>1. Typed'
  BY StatusSet, StatusesAre DEF Typed, Working, Leased, Gates, AnswerSettles,
    leaseVars, history, AfterAnswer
<1>2. OnlyJob(j)
  BY StatusSet, StatusesAre DEF Typed, OnlyJob, Answered, AnswerSettles, leaseVars,
    history, AfterAnswer
<1>3. Answered'
  BY DEF Typed, Answered, JobInv, PlannerAt, AnswerSettles, leaseVars, history,
    AfterAnswer
<1>4. \A h \in Hosts : LockAt(h)'
  BY <1>2, LocksStay DEF Typed, AnswerSettles, leaseVars, history, AfterAnswer
<1>5. PlannerAt(j)'
  BY StatusSet, StatusesAre DEF Typed, JobInv, PlannerAt, ExecutorAt, Answered, Waits,
    Running, Planner, Working, AnswerSettles, leaseVars, history, AfterAnswer
<1>6. ExecutorAt(j)'
  BY StatusSet, StatusesAre DEF Typed, JobInv, PlannerAt, ExecutorAt, Answered, Waits,
    Running, Executor, Leased, AnswerSettles, leaseVars, history, AfterAnswer
<1>7. AfterWriting(j)' /\ Asked(j)'
  BY StatusSet, StatusesAre DEF Typed, JobInv, PlannerAt, ExecutorAt, AfterWriting,
    Asked, Answered, Waits, AnswerSettles, leaseVars, history, AfterAnswer
<1>8. LeaseAt(j)'
  BY StatusSet, StatusesAre DEF Typed, JobInv, PlannerAt, ExecutorAt, LeaseAt,
    Answered, Running, LeaseExpired, InFlight, Working, Leased, AnswerSettles,
    leaseVars, history, AfterAnswer
<1> QED BY <1>1, <1>2, <1>3, <1>4, <1>5, <1>6, <1>7, <1>8, JobStep DEF JobInv

\* An approval starts the live worker of a job that waits, so it has none.
LEMMA ApproveKeepsInv ==
  ASSUME PortalInv, Tables, NEW j \in Jobs, Approve(j)
  PROVE  PortalInv'
<1> USE DEF PortalInv
<1>0. live[j] = "none" /\ approvals[j] + 1 \in 0 .. MaxApprovals
  BY PortalConstants DEF Typed, JobInv, ExecutorAt, Waits, Approve
<1>1. Typed'
  BY <1>0, IdleMeans, StatusSet, StatusesAre DEF Typed, Working, Leased, Gates,
    Approve, leaseVars, process, LiveTo
<1>2. OnlyJob(j)
  BY <1>0, IdleMeans, StatusSet, StatusesAre DEF Typed, OnlyJob, Approve, leaseVars,
    process, LiveTo
<1>3. Answered'
  BY IdleMeans DEF Typed, Answered, JobInv, PlannerAt, Approve, leaseVars, process,
    LiveTo
<1>4. \A h \in Hosts : LockAt(h)'
  BY <1>0, <1>2, LocksStay DEF Typed, Approve, leaseVars, process, LiveTo
<1>5. PlannerAt(j)'
  BY <1>0, IdleMeans, StatusSet, StatusesAre DEF Typed, JobInv, PlannerAt, ExecutorAt,
    Answered, Waits, Running, Planner, Working, Approve, leaseVars, process, LiveTo
<1>6. ExecutorAt(j)'
  BY <1>0, IdleMeans, StatusSet, StatusesAre DEF Typed, JobInv, PlannerAt, ExecutorAt,
    Answered, Waits, Running, Executor, Leased, Approve, leaseVars, process, LiveTo
<1>7. AfterWriting(j)' /\ Asked(j)'
  BY <1>0, IdleMeans, StatusSet, StatusesAre DEF Typed, JobInv, PlannerAt, ExecutorAt,
    AfterWriting, Asked, Answered, Waits, Approve, leaseVars, process, LiveTo
<1>8. LeaseAt(j)'
  BY <1>0, IdleMeans, StatusSet, StatusesAre DEF Typed, JobInv, PlannerAt, ExecutorAt,
    LeaseAt, Answered, Running, LeaseExpired, InFlight, Working, Leased, Approve,
    leaseVars, process, LiveTo
<1> QED BY <1>1, <1>2, <1>3, <1>4, <1>5, <1>6, <1>7, <1>8, JobStep DEF JobInv

\* A cancellation; a job that executes cannot be cancelled.
LEMMA CancelKeepsInv ==
  ASSUME PortalInv, Tables, NEW j \in Jobs, Cancel(j)
  PROVE  PortalInv'
<1> USE DEF PortalInv
<1>1. Typed'
  BY IdleMeans, StatusSet, StatusesAre DEF Typed, Working, Leased, Gates, Cancel,
    leaseVars, history, process
<1>2. OnlyJob(j)
  BY IdleMeans, StatusSet, StatusesAre DEF Typed, OnlyJob, Cancel, leaseVars, history,
    process
<1>3. Answered'
  BY IdleMeans DEF Typed, Answered, JobInv, PlannerAt, Cancel, leaseVars, history,
    process
<1>4. \A h \in Hosts : LockAt(h)'
  BY <1>2, LocksStay DEF Typed, Cancel, leaseVars, history, process
<1>5. PlannerAt(j)'
  BY IdleMeans, StatusSet, StatusesAre DEF Typed, JobInv, PlannerAt, ExecutorAt,
    Answered, Waits, Running, Planner, Working, Cancel, leaseVars, history, process
<1>6. ExecutorAt(j)'
  BY IdleMeans, StatusSet, StatusesAre DEF Typed, JobInv, PlannerAt, ExecutorAt,
    Answered, Waits, Running, Executor, Leased, Cancel, leaseVars, history, process
<1>7. AfterWriting(j)' /\ Asked(j)'
  BY IdleMeans, StatusSet, StatusesAre DEF Typed, JobInv, PlannerAt, ExecutorAt,
    AfterWriting, Asked, Answered, Waits, Cancel, leaseVars, history, process
<1>8. LeaseAt(j)'
  BY IdleMeans, StatusSet, StatusesAre DEF Typed, JobInv, PlannerAt, ExecutorAt,
    LeaseAt, Answered, Running, LeaseExpired, InFlight, Working, Leased, Cancel,
    leaseVars, history, process
<1> QED BY <1>1, <1>2, <1>3, <1>4, <1>5, <1>6, <1>7, <1>8, JobStep DEF JobInv

\* A deletion, whatever the job is doing.
LEMMA DeleteKeepsInv ==
  ASSUME PortalInv, Tables, NEW j \in Jobs, Delete(j)
  PROVE  PortalInv'
<1> USE DEF PortalInv
<1>0. status' \in [Jobs -> Statuses] /\ 0 \in 0 .. MaxQuestions
  BY StatusesAre, PortalConstants DEF Typed, Delete
<1>1. Typed'
  BY <1>0, IdleMeans, StatusesAre DEF Typed, Working, Leased, Gates, Delete, leaseVars,
    history, process
<1>2. OnlyJob(j)
  BY <1>0, IdleMeans, StatusesAre DEF Typed, OnlyJob, Delete, leaseVars, history,
    process
<1>3. Answered'
  BY IdleMeans DEF Typed, Answered, JobInv, PlannerAt, Delete, leaseVars, history,
    process
<1>4. \A h \in Hosts : LockAt(h)'
  BY <1>0, <1>2, LocksStay DEF Typed, Delete, leaseVars, history, process
<1>5. PlannerAt(j)'
  BY <1>0, IdleMeans, StatusesAre DEF Typed, JobInv, PlannerAt, ExecutorAt, Answered,
    Waits, Running, Planner, Working, Delete, leaseVars, history, process
<1>6. ExecutorAt(j)'
  BY <1>0, IdleMeans, StatusesAre DEF Typed, JobInv, PlannerAt, ExecutorAt, Answered,
    Waits, Running, Executor, Leased, Delete, leaseVars, history, process
<1>7. AfterWriting(j)' /\ Asked(j)'
  BY <1>0, IdleMeans, StatusesAre DEF Typed, JobInv, PlannerAt, ExecutorAt,
    AfterWriting, Asked, Answered, Waits, Delete, leaseVars, history, process
<1>8. LeaseAt(j)'
  BY <1>0, IdleMeans, StatusesAre DEF Typed, JobInv, PlannerAt, ExecutorAt, LeaseAt,
    Answered, Running, LeaseExpired, InFlight, Working, Leased, Delete, leaseVars,
    history, process
<1> QED BY <1>1, <1>2, <1>3, <1>4, <1>5, <1>6, <1>7, <1>8, JobStep DEF JobInv

\* Planning begins: the job has no lease yet, or is gone.
LEMMA MigBeginKeepsInv ==
  ASSUME PortalInv, Tables, NEW j \in Jobs, MigBegin(j)
  PROVE  PortalInv'
<1> USE DEF PortalInv
<1>0. /\ lock' = lock /\ \A k \in Jobs \ {j} : lease'[k] = lease[k]
      /\ \/ lease'[j] = lease[j] /\ mig' = [mig EXCEPT ![j] = "none"]
         \/ Running(j, Planner(j))' /\ mig' = [mig EXCEPT ![j] = "extracting"]
  <2>1. CASE L!AcquireJobLease(Planner(j)) /\ MigTo(j, "extracting")
    BY <2>1, OwnersAre, Acquires DEF Typed, Running, Planner, MigTo
  <2>2. CASE UNCHANGED leaseVars /\ MigTo(j, "none")
    BY <2>2 DEF leaseVars, MigTo
  <2> QED BY <2>1, <2>2 DEF MigBegin
<1>1. Typed'
  BY <1>0, IdleMeans, StatusSet, StatusesAre DEF Typed, Working, Leased, Gates,
    MigBegin, leaseVars, history, process, MigTo
<1>2. OnlyJob(j)
  BY <1>0, IdleMeans, StatusSet, StatusesAre DEF Typed, OnlyJob, MigBegin, leaseVars,
    history, process, MigTo
<1>3. Answered'
  BY IdleMeans DEF Typed, Answered, JobInv, PlannerAt, MigBegin, leaseVars, history,
    process, MigTo
<1>4. \A h \in Hosts : LockAt(h)'
  BY <1>0, <1>2, LocksStay DEF Typed, MigBegin, leaseVars, history, process, MigTo
<1>5. PlannerAt(j)'
  BY <1>0, IdleMeans, StatusSet, StatusesAre DEF Typed, JobInv, PlannerAt, ExecutorAt,
    Answered, Waits, Running, Planner, Working, MigBegin, leaseVars, history, process,
    MigTo
<1>6. ExecutorAt(j)'
  BY <1>0, IdleMeans, StatusSet, StatusesAre DEF Typed, JobInv, PlannerAt, ExecutorAt,
    Answered, Waits, Running, Executor, Leased, MigBegin, leaseVars, history, process,
    MigTo
<1>7. AfterWriting(j)' /\ Asked(j)'
  BY <1>0, IdleMeans, StatusSet, StatusesAre DEF Typed, JobInv, PlannerAt, ExecutorAt,
    AfterWriting, Asked, Answered, Waits, MigBegin, leaseVars, history, process, MigTo
<1>8. LeaseAt(j)'
  BY <1>0, IdleMeans, StatusSet, StatusesAre DEF Typed, JobInv, PlannerAt, ExecutorAt,
    LeaseAt, Answered, Running, LeaseExpired, InFlight, Working, Leased, MigBegin,
    leaseVars, history, process, MigTo
<1> QED BY <1>1, <1>2, <1>3, <1>4, <1>5, <1>6, <1>7, <1>8, JobStep DEF JobInv

\* The source is read.
LEMMA MigExtractedKeepsInv ==
  ASSUME PortalInv, Tables, NEW j \in Jobs, MigExtracted(j)
  PROVE  PortalInv'
<1> USE DEF PortalInv
<1>1. Typed'
  BY IdleMeans, StatusSet, StatusesAre DEF Typed, Working, Leased, Gates, MigExtracted,
    leaseVars, history, process, MigTo
<1>2. OnlyJob(j)
  BY IdleMeans, StatusSet, StatusesAre DEF Typed, OnlyJob, MigExtracted, leaseVars,
    history, process, MigTo
<1>3. Answered'
  BY IdleMeans DEF Typed, Answered, JobInv, PlannerAt, MigExtracted, leaseVars,
    history, process, MigTo
<1>4. \A h \in Hosts : LockAt(h)'
  BY <1>2, LocksStay DEF Typed, MigExtracted, leaseVars, history, process, MigTo
<1>5. PlannerAt(j)'
  BY IdleMeans, StatusSet, StatusesAre DEF Typed, JobInv, PlannerAt, ExecutorAt,
    Answered, Waits, Running, Planner, Working, MigExtracted, leaseVars, history,
    process, MigTo
<1>6. ExecutorAt(j)'
  BY IdleMeans, StatusSet, StatusesAre DEF Typed, JobInv, PlannerAt, ExecutorAt,
    Answered, Waits, Running, Executor, Leased, MigExtracted, leaseVars, history,
    process, MigTo
<1>7. AfterWriting(j)' /\ Asked(j)'
  BY IdleMeans, StatusSet, StatusesAre DEF Typed, JobInv, PlannerAt, ExecutorAt,
    AfterWriting, Asked, Answered, Waits, MigExtracted, leaseVars, history, process,
    MigTo
<1>8. LeaseAt(j)'
  BY IdleMeans, StatusSet, StatusesAre DEF Typed, JobInv, PlannerAt, ExecutorAt,
    LeaseAt, Answered, Running, LeaseExpired, InFlight, Working, Leased, MigExtracted,
    leaseVars, history, process, MigTo
<1> QED BY <1>1, <1>2, <1>3, <1>4, <1>5, <1>6, <1>7, <1>8, JobStep DEF JobInv

\* Planning fails, before its last turn or in it.
LEMMA MigFailsKeepsInv ==
  ASSUME PortalInv, Tables, NEW j \in Jobs, MigFails(j)
  PROVE  PortalInv'
<1> USE DEF PortalInv
<1>1. Typed'
  BY IdleMeans, StatusSet, StatusesAre DEF Typed, Working, Leased, Gates, MigFails,
    leaseVars, history, process, MigTo
<1>2. OnlyJob(j)
  BY IdleMeans, StatusSet, StatusesAre DEF Typed, OnlyJob, MigFails, leaseVars,
    history, process, MigTo
<1>3. Answered'
  BY IdleMeans DEF Typed, Answered, JobInv, PlannerAt, MigFails, leaseVars, history,
    process, MigTo
<1>4. \A h \in Hosts : LockAt(h)'
  BY <1>2, LocksStay DEF Typed, MigFails, leaseVars, history, process, MigTo
<1>5. PlannerAt(j)'
  BY IdleMeans, StatusSet, StatusesAre DEF Typed, JobInv, PlannerAt, ExecutorAt,
    Answered, Waits, Running, Planner, Working, MigFails, leaseVars, history, process,
    MigTo
<1>6. ExecutorAt(j)'
  BY IdleMeans, StatusSet, StatusesAre DEF Typed, JobInv, PlannerAt, ExecutorAt,
    Answered, Waits, Running, Executor, Leased, MigFails, leaseVars, history, process,
    MigTo
<1>7. AfterWriting(j)' /\ Asked(j)'
  BY IdleMeans, StatusSet, StatusesAre DEF Typed, JobInv, PlannerAt, ExecutorAt,
    AfterWriting, Asked, Answered, Waits, MigFails, leaseVars, history, process, MigTo
<1>8. LeaseAt(j)'
  BY IdleMeans, StatusSet, StatusesAre DEF Typed, JobInv, PlannerAt, ExecutorAt,
    LeaseAt, Answered, Running, LeaseExpired, InFlight, Working, Leased, MigFails,
    leaseVars, history, process, MigTo
<1> QED BY <1>1, <1>2, <1>3, <1>4, <1>5, <1>6, <1>7, <1>8, JobStep DEF JobInv

\* The last turn begins, under a lease that may have run out.
LEMMA MigPublishKeepsInv ==
  ASSUME PortalInv, Tables, NEW j \in Jobs, MigPublish(j)
  PROVE  PortalInv'
<1> USE DEF PortalInv
<1>0. /\ lock' = lock /\ \A k \in Jobs \ {j} : lease'[k] = lease[k]
      /\ Running(j, Planner(j))'
  <2>1. Running(j, Planner(j))
    BY IdleMeans DEF Typed, JobInv, PlannerAt, Working, MigPublish
  <2>2. L!HeartbeatJobLease(Planner(j)) /\ Planner(j) \in Owners
        /\ [o \in Owners |-> o[1]][Planner(j)] = j
    BY OwnersAre DEF Typed, MigPublish
  <2>3. /\ lock' = lock /\ \A k \in Jobs \ {j} : lease'[k] = lease[k]
        /\ lease'[j] # L!NoRow /\ lease'[j].owner = Planner(j)
        /\ lease'[j].state = "RUNNING"
    BY <2>1, <2>2, Beats
  <2> QED BY <2>3 DEF Running, Planner
<1>11. /\ \E n \in 0 .. MaxQuestions : todo' = [todo EXCEPT ![j] = n]
       /\ \E g \in Gates : gate' = IF status[j] = NoJob THEN gate ELSE [gate EXCEPT ![j] = g]
  BY DEF MigPublish
<1>12. gate' \in [Jobs -> Gates] /\ todo' \in [Jobs -> 0 .. MaxQuestions]
  BY <1>11 DEF Typed
<1>1. Typed'
  BY <1>12 DEF Typed, Working, MigPublish, MigTo, process
<1>2. OnlyJob(j)
  BY <1>0, IdleMeans DEF Typed, OnlyJob, MigPublish, process, MigTo
<1>3. Answered'
  BY IdleMeans DEF Typed, Answered, JobInv, PlannerAt, MigPublish, process, MigTo
<1>4. \A h \in Hosts : LockAt(h)'
  BY <1>0, <1>2, LocksStay DEF Typed, MigPublish, process, MigTo
<1>5. PlannerAt(j)'
  BY <1>0, IdleMeans DEF Typed, JobInv, PlannerAt, ExecutorAt, Answered, Waits,
    Running, Planner, Working, MigPublish, process, MigTo
<1>6. ExecutorAt(j)'
  BY <1>0, IdleMeans DEF Typed, JobInv, PlannerAt, ExecutorAt, Answered, Waits,
    Running, Executor, Leased, MigPublish, process, MigTo
<1>7. AfterWriting(j)' /\ Asked(j)'
  BY <1>0, IdleMeans DEF Typed, JobInv, PlannerAt, ExecutorAt, AfterWriting, Asked,
    Answered, Waits, MigPublish, process, MigTo
<1>8. LeaseAt(j)'
  BY <1>0, IdleMeans DEF Typed, JobInv, PlannerAt, ExecutorAt, LeaseAt, Answered,
    Running, LeaseExpired, InFlight, Working, Leased, MigPublish, process, MigTo
<1> QED BY <1>1, <1>2, <1>3, <1>4, <1>5, <1>6, <1>7, <1>8, JobStep DEF JobInv

\* One question is stored.
LEMMA MigAskKeepsInv ==
  ASSUME PortalInv, Tables, NEW j \in Jobs, MigAsk(j)
  PROVE  PortalInv'
<1> USE DEF PortalInv
<1>0. open[j] + 1 \in 0 .. MaxQuestions /\ todo[j] - 1 \in 0 .. MaxQuestions
  BY PortalConstants DEF Typed, JobInv, Asked, MigAsk
<1>1. Typed'
  BY <1>0 DEF Typed, Working, Leased, Gates, MigAsk, leaseVars, process
<1>2. OnlyJob(j)
  BY <1>0 DEF Typed, OnlyJob, MigAsk, leaseVars, process
<1>3. Answered'
  BY DEF Typed, Answered, JobInv, PlannerAt, MigAsk, leaseVars, process
<1>4. \A h \in Hosts : LockAt(h)'
  BY <1>0, <1>2, LocksStay DEF Typed, MigAsk, leaseVars, process
<1>5. PlannerAt(j)'
  BY <1>0 DEF Typed, JobInv, PlannerAt, ExecutorAt, Answered, Waits, Running, Planner,
    Working, MigAsk, leaseVars, process
<1>6. ExecutorAt(j)'
  BY <1>0 DEF Typed, JobInv, PlannerAt, ExecutorAt, Answered, Waits, Running, Executor,
    Leased, MigAsk, leaseVars, process
<1>7. AfterWriting(j)' /\ Asked(j)'
  BY <1>0 DEF Typed, JobInv, PlannerAt, ExecutorAt, AfterWriting, Asked, Answered,
    Waits, MigAsk, leaseVars, process
<1>8. LeaseAt(j)'
  BY <1>0 DEF Typed, JobInv, PlannerAt, ExecutorAt, LeaseAt, Answered, Running,
    LeaseExpired, InFlight, Working, Leased, MigAsk, leaseVars, process
<1> QED BY <1>1, <1>2, <1>3, <1>4, <1>5, <1>6, <1>7, <1>8, JobStep DEF JobInv

\* All are: the job waits for answers or for an approval.
LEMMA MigAskedKeepsInv ==
  ASSUME PortalInv, Tables, NEW j \in Jobs, MigAsked(j)
  PROVE  PortalInv'
<1> USE DEF PortalInv
<1>1. Typed'
  BY StatusSet, StatusesAre DEF Typed, Working, Leased, Gates, MigAsked, leaseVars,
    history, process, MigTo, AfterQuestions
<1>2. OnlyJob(j)
  BY StatusSet, StatusesAre DEF Typed, OnlyJob, MigAsked, leaseVars, history, process,
    MigTo, AfterQuestions
<1>3. Answered'
  BY DEF Typed, Answered, JobInv, PlannerAt, MigAsked, leaseVars, history, process,
    MigTo, AfterQuestions
<1>4. \A h \in Hosts : LockAt(h)'
  BY <1>2, LocksStay DEF Typed, MigAsked, leaseVars, history, process, MigTo,
    AfterQuestions
<1>5. PlannerAt(j)'
  BY StatusSet, StatusesAre DEF Typed, JobInv, PlannerAt, ExecutorAt, Answered, Waits,
    Running, Planner, Working, MigAsked, leaseVars, history, process, MigTo,
    AfterQuestions
<1>6. ExecutorAt(j)'
  BY StatusSet, StatusesAre DEF Typed, JobInv, PlannerAt, ExecutorAt, Answered, Waits,
    Running, Executor, Leased, MigAsked, leaseVars, history, process, MigTo,
    AfterQuestions
<1>7. AfterWriting(j)' /\ Asked(j)'
  BY StatusSet, StatusesAre DEF Typed, JobInv, PlannerAt, ExecutorAt, AfterWriting,
    Asked, Answered, Waits, MigAsked, leaseVars, history, process, MigTo, AfterQuestions
<1>8. LeaseAt(j)'
  BY StatusSet, StatusesAre DEF Typed, JobInv, PlannerAt, ExecutorAt, LeaseAt,
    Answered, Running, LeaseExpired, InFlight, Working, Leased, MigAsked, leaseVars,
    history, process, MigTo, AfterQuestions
<1> QED BY <1>1, <1>2, <1>3, <1>4, <1>5, <1>6, <1>7, <1>8, JobStep DEF JobInv

\* The card gate decides once more.
LEMMA MigFinishKeepsInv ==
  ASSUME PortalInv, Tables, NEW j \in Jobs, MigFinish(j)
  PROVE  PortalInv'
<1> USE DEF PortalInv
<1>1. Typed'
  BY StatusSet, StatusesAre DEF Typed, Working, Leased, Gates, MigFinish, leaseVars,
    history, process, MigTo, FinalStatus
<1>2. OnlyJob(j)
  BY StatusSet, StatusesAre DEF Typed, OnlyJob, MigFinish, leaseVars, history, process,
    MigTo, FinalStatus
<1>3. Answered'
  BY DEF Typed, Answered, JobInv, PlannerAt, MigFinish, leaseVars, history, process,
    MigTo, FinalStatus
<1>4. \A h \in Hosts : LockAt(h)'
  BY <1>2, LocksStay DEF Typed, MigFinish, leaseVars, history, process, MigTo,
    FinalStatus
<1>5. PlannerAt(j)'
  BY StatusSet, StatusesAre DEF Typed, JobInv, PlannerAt, ExecutorAt, Answered, Waits,
    Running, Planner, Working, MigFinish, leaseVars, history, process, MigTo,
    FinalStatus
<1>6. ExecutorAt(j)'
  BY StatusSet, StatusesAre DEF Typed, JobInv, PlannerAt, ExecutorAt, Answered, Waits,
    Running, Executor, Leased, MigFinish, leaseVars, history, process, MigTo,
    FinalStatus
<1>7. AfterWriting(j)' /\ Asked(j)'
  BY StatusSet, StatusesAre DEF Typed, JobInv, PlannerAt, ExecutorAt, AfterWriting,
    Asked, Answered, Waits, MigFinish, leaseVars, history, process, MigTo, FinalStatus
<1>8. LeaseAt(j)'
  BY StatusSet, StatusesAre DEF Typed, JobInv, PlannerAt, ExecutorAt, LeaseAt,
    Answered, Running, LeaseExpired, InFlight, Working, Leased, MigFinish, leaseVars,
    history, process, MigTo, FinalStatus
<1> QED BY <1>1, <1>2, <1>3, <1>4, <1>5, <1>6, <1>7, <1>8, JobStep DEF JobInv

\* Planning gives its lease back.
LEMMA MigReleaseKeepsInv ==
  ASSUME PortalInv, Tables, NEW j \in Jobs, MigRelease(j)
  PROVE  PortalInv'
<1> USE DEF PortalInv
<1>0. /\ lock' = lock /\ \A k \in Jobs \ {j} : lease'[k] = lease[k]
      /\ lease'[j] # L!NoRow /\ lease'[j].state = "RELEASED"
  BY OwnersAre, Releases
  DEF Typed, JobInv, PlannerAt, Working, MigRelease, L!LeaseStates
<1>1. Typed'
  BY <1>0 DEF Typed, Working, Leased, MigRelease, jobVars, history, process, MigTo
<1>2. OnlyJob(j)
  BY <1>0 DEF Typed, OnlyJob, MigRelease, jobVars, history, process, MigTo
<1>3. Answered'
  BY DEF Typed, Answered, JobInv, PlannerAt, MigRelease, jobVars, history, process,
    MigTo
<1>4. \A h \in Hosts : LockAt(h)'
  BY <1>0, <1>2, LocksStay DEF Typed, MigRelease, jobVars, history, process, MigTo
<1>5. PlannerAt(j)'
  BY <1>0 DEF Typed, JobInv, PlannerAt, ExecutorAt, Answered, Waits, Running, Planner,
    Working, MigRelease, jobVars, history, process, MigTo
<1>6. ExecutorAt(j)'
  BY <1>0 DEF Typed, JobInv, PlannerAt, ExecutorAt, Answered, Waits, Running, Executor,
    Leased, MigRelease, jobVars, history, process, MigTo
<1>7. AfterWriting(j)' /\ Asked(j)'
  BY <1>0 DEF Typed, JobInv, PlannerAt, ExecutorAt, AfterWriting, Asked, Answered,
    Waits, MigRelease, jobVars, history, process, MigTo
<1>8. LeaseAt(j)'
  BY <1>0 DEF Typed, JobInv, PlannerAt, ExecutorAt, LeaseAt, Answered, Running,
    LeaseExpired, InFlight, Working, Leased, MigRelease, jobVars, history, process,
    MigTo
<1> QED BY <1>1, <1>2, <1>3, <1>4, <1>5, <1>6, <1>7, <1>8, JobStep DEF JobInv

\* The live worker was not started: the job waits again.
LEMMA NotStartedKeepsInv ==
  ASSUME PortalInv, Tables, NEW j \in Jobs, NotStarted(j)
  PROVE  PortalInv'
<1> USE DEF PortalInv
<1>1. Typed'
  BY StatusSet, StatusesAre DEF Typed, Working, Leased, Gates, NotStarted, leaseVars,
    history, process, LiveTo
<1>2. OnlyJob(j)
  BY StatusSet, StatusesAre DEF Typed, OnlyJob, NotStarted, leaseVars, history,
    process, LiveTo
<1>3. Answered'
  BY DEF Typed, Answered, JobInv, PlannerAt, NotStarted, leaseVars, history, process,
    LiveTo
<1>4. \A h \in Hosts : LockAt(h)'
  BY <1>2, LocksStay DEF Typed, NotStarted, leaseVars, history, process, LiveTo
<1>5. PlannerAt(j)'
  BY StatusSet, StatusesAre DEF Typed, JobInv, PlannerAt, ExecutorAt, Answered, Waits,
    Running, Planner, Working, NotStarted, leaseVars, history, process, LiveTo
<1>6. ExecutorAt(j)'
  BY StatusSet, StatusesAre DEF Typed, JobInv, PlannerAt, ExecutorAt, Answered, Waits,
    Running, Executor, Leased, NotStarted, leaseVars, history, process, LiveTo
<1>7. AfterWriting(j)' /\ Asked(j)'
  BY StatusSet, StatusesAre DEF Typed, JobInv, PlannerAt, ExecutorAt, AfterWriting,
    Asked, Answered, Waits, NotStarted, leaseVars, history, process, LiveTo
<1>8. LeaseAt(j)'
  BY StatusSet, StatusesAre DEF Typed, JobInv, PlannerAt, ExecutorAt, LeaseAt,
    Answered, Running, LeaseExpired, InFlight, Working, Leased, NotStarted, leaseVars,
    history, process, LiveTo
<1> QED BY <1>1, <1>2, <1>3, <1>4, <1>5, <1>6, <1>7, <1>8, JobStep DEF JobInv

\* The live worker takes the lease, unless another run has it.
LEMMA TakeLeaseKeepsInv ==
  ASSUME PortalInv, Tables, NEW j \in Jobs, TakeLease(j)
  PROVE  PortalInv'
<1> USE DEF PortalInv
<1>0. /\ lock' = lock /\ \A k \in Jobs \ {j} : lease'[k] = lease[k]
      /\ \/ lease'[j] = lease[j] /\ live' = [live EXCEPT ![j] = "refused"]
         \/ Running(j, Executor(j))' /\ live' = [live EXCEPT ![j] = "leased"]
  <2>1. CASE L!AcquireJobLease(Executor(j)) /\ LiveTo(j, "leased")
    <3>1. Executor(j)' = Executor(j)
      BY DEF TakeLease, Executor, history
    <3>2. /\ Executor(j) \in Owners /\ [o \in Owners |-> o[1]][Executor(j)] = j
          /\ L!AcquireJobLease(Executor(j))
      BY <2>1, OwnersAre DEF Typed
    <3>3. /\ lock' = lock /\ \A k \in Jobs \ {j} : lease'[k] = lease[k]
          /\ lease'[j] # L!NoRow /\ lease'[j].owner = Executor(j)
          /\ lease'[j].state = "RUNNING"
      BY <3>2, Acquires
    <3> QED BY <2>1, <3>1, <3>3 DEF Running, LiveTo
  <2>2. CASE UNCHANGED leaseVars /\ LiveTo(j, "refused")
    BY <2>2 DEF leaseVars, LiveTo
  <2> QED BY <2>1, <2>2 DEF TakeLease
<1>1. Typed'
  BY <1>0 DEF Typed, Working, Leased, TakeLease, jobVars, leaseVars, history, process,
    LiveTo
<1>2. OnlyJob(j)
  BY <1>0 DEF Typed, OnlyJob, TakeLease, jobVars, leaseVars, history, process, LiveTo
<1>3. Answered'
  BY DEF Typed, Answered, JobInv, PlannerAt, TakeLease, jobVars, leaseVars, history,
    process, LiveTo
<1>4. \A h \in Hosts : LockAt(h)'
  BY <1>0, <1>2, LocksStay DEF Typed, TakeLease, jobVars, leaseVars, history, process,
    LiveTo
<1>5. PlannerAt(j)'
  BY <1>0 DEF Typed, JobInv, PlannerAt, ExecutorAt, Answered, Waits, Running, Planner,
    Working, TakeLease, jobVars, leaseVars, history, process, LiveTo
<1>6. ExecutorAt(j)'
  BY <1>0 DEF Typed, JobInv, PlannerAt, ExecutorAt, Answered, Waits, Running, Executor,
    Leased, TakeLease, jobVars, leaseVars, history, process, LiveTo
<1>7. AfterWriting(j)' /\ Asked(j)'
  BY <1>0 DEF Typed, JobInv, PlannerAt, ExecutorAt, AfterWriting, Asked, Answered,
    Waits, TakeLease, jobVars, leaseVars, history, process, LiveTo
<1>8. LeaseAt(j)'
  BY <1>0 DEF Typed, JobInv, PlannerAt, ExecutorAt, LeaseAt, Answered, Running,
    LeaseExpired, InFlight, Working, Leased, TakeLease, jobVars, leaseVars, history,
    process, LiveTo
<1> QED BY <1>1, <1>2, <1>3, <1>4, <1>5, <1>6, <1>7, <1>8, JobStep DEF JobInv

\* It takes the lock of its host as well, or gives the lease back.
LEMMA TakeLockKeepsInv ==
  ASSUME PortalInv, Tables, NEW j \in Jobs, TakeLock(j)
  PROVE  PortalInv'
<1> USE DEF PortalInv
<1>0. /\ \A k \in Jobs \ {j} : lease'[k] = lease[k]
      /\ \/ /\ lock' = lock /\ lease'[j] # L!NoRow
            /\ lease'[j].state = "DESTINATION_WRITE_LOCKED"
            /\ live' = [live EXCEPT ![j] = "refused"]
         \/ /\ lease' = lease /\ live' = [live EXCEPT ![j] = "preparing"]
            /\ L!AcquireDestinationWriteLock(HostOf[j], Executor(j))
  <2>1. CASE L!ReleaseJobLease(Executor(j), "DESTINATION_WRITE_LOCKED")
             /\ LiveTo(j, "refused")
    BY <2>1, OwnersAre, Releases
    DEF Typed, JobInv, ExecutorAt, Leased, TakeLock, L!LeaseStates, LiveTo
  <2>2. CASE L!AcquireDestinationWriteLock(HostOf[j], Executor(j)) /\ LiveTo(j, "preparing")
    BY <2>2 DEF L!AcquireDestinationWriteLock, LiveTo
  <2> QED BY <2>1, <2>2 DEF TakeLock
<1>1. Typed'
  BY <1>0 DEF Typed, Working, Leased, TakeLock, jobVars, history, process, LiveTo
<1>2. OnlyJob(j)
  BY <1>0 DEF Typed, OnlyJob, TakeLock, jobVars, history, process, LiveTo
<1>3. Answered'
  BY DEF Typed, Answered, JobInv, PlannerAt, TakeLock, jobVars, history, process, LiveTo
<1>4. \A h \in Hosts : LockAt(h)'
  <2>1. CASE lock' = lock /\ live' = [live EXCEPT ![j] = "refused"]
    BY <1>2, <2>1, LocksStay DEF TakeLock
  <2>2. CASE L!AcquireDestinationWriteLock(HostOf[j], Executor(j))
             /\ live' = [live EXCEPT ![j] = "preparing"]
    <3> SUFFICES ASSUME NEW h \in Hosts, lock'[h] # L!NoRow PROVE LockAt(h)'
      BY DEF LockAt
    <3>0. /\ HostOf[j] \in Hosts /\ [o \in Owners |-> o[1]][Executor(j)] = j
          /\ live'[j] = "preparing"
      BY <2>2, PortalConstants, OwnersAre DEF Typed
    <3>1. CASE h = HostOf[j]
      <4>1. lock'[h].job = j
        BY <2>2, <3>0, <3>1 DEF L!AcquireDestinationWriteLock, Tables
      <4> QED BY <3>0, <3>1, <4>1 DEF LockAt
    <3>2. CASE h # HostOf[j]
      <4>1. lock'[h] = lock[h] /\ lock[h].job \in Jobs /\ LockAt(h)
        BY <2>2, <3>2 DEF L!AcquireDestinationWriteLock, Tables, L!LockRow
      <4>2. live'[lock[h].job] \in {live[lock[h].job], "preparing"}
        BY <2>2, <4>1 DEF Typed
      <4> QED BY <1>2, <4>1, <4>2 DEF LockAt, OnlyJob
    <3> QED BY <3>1, <3>2
  <2> QED BY <1>0, <2>1, <2>2
<1>5. PlannerAt(j)'
  BY <1>0 DEF Typed, JobInv, PlannerAt, ExecutorAt, Answered, Waits, Running, Planner,
    Working, TakeLock, jobVars, history, process, LiveTo
<1>6. ExecutorAt(j)'
  BY <1>0 DEF Typed, JobInv, PlannerAt, ExecutorAt, Answered, Waits, Running, Executor,
    Leased, TakeLock, jobVars, history, process, LiveTo
<1>7. AfterWriting(j)' /\ Asked(j)'
  BY <1>0 DEF Typed, JobInv, PlannerAt, ExecutorAt, AfterWriting, Asked, Answered,
    Waits, TakeLock, jobVars, history, process, LiveTo
<1>8. LeaseAt(j)'
  BY <1>0 DEF Typed, JobInv, PlannerAt, ExecutorAt, LeaseAt, Answered, Running,
    LeaseExpired, InFlight, Working, Leased, TakeLock, jobVars, history, process, LiveTo
<1> QED BY <1>1, <1>2, <1>3, <1>4, <1>5, <1>6, <1>7, <1>8, JobStep DEF JobInv

\* The writes begin.
LEMMA BeginWritingKeepsInv ==
  ASSUME PortalInv, Tables, NEW j \in Jobs, BeginWriting(j)
  PROVE  PortalInv'
<1> USE DEF PortalInv
<1>1. Typed'
  BY IdleMeans DEF Typed, Working, Leased, BeginWriting, jobVars, leaseVars, process,
    LiveTo
<1>2. OnlyJob(j)
  BY IdleMeans DEF Typed, OnlyJob, BeginWriting, jobVars, leaseVars, process, LiveTo
<1>3. Answered'
  BY IdleMeans DEF Typed, Answered, JobInv, PlannerAt, BeginWriting, jobVars,
    leaseVars, process, LiveTo
<1>4. \A h \in Hosts : LockAt(h)'
  BY <1>2, LocksStay DEF Typed, BeginWriting, jobVars, leaseVars, process, LiveTo
<1>5. PlannerAt(j)'
  BY IdleMeans DEF Typed, JobInv, PlannerAt, ExecutorAt, Answered, Waits, Running,
    Planner, Working, BeginWriting, jobVars, leaseVars, process, LiveTo
<1>6. ExecutorAt(j)'
  BY IdleMeans DEF Typed, JobInv, PlannerAt, ExecutorAt, Answered, Waits, Running,
    Executor, Leased, BeginWriting, jobVars, leaseVars, process, LiveTo
<1>7. AfterWriting(j)' /\ Asked(j)'
  BY IdleMeans DEF Typed, JobInv, PlannerAt, ExecutorAt, AfterWriting, Asked, Answered,
    Waits, BeginWriting, jobVars, leaseVars, process, LiveTo
<1>8. LeaseAt(j)'
  BY IdleMeans DEF Typed, JobInv, PlannerAt, ExecutorAt, LeaseAt, Answered, Running,
    LeaseExpired, InFlight, Working, Leased, BeginWriting, jobVars, leaseVars, process,
    LiveTo
<1> QED BY <1>1, <1>2, <1>3, <1>4, <1>5, <1>6, <1>7, <1>8, JobStep DEF JobInv

\* The live worker fails, before or during its writes.
LEMMA LiveFailsKeepsInv ==
  ASSUME PortalInv, Tables, NEW j \in Jobs, LiveFails(j)
  PROVE  PortalInv'
<1> USE DEF PortalInv
<1>1. Typed'
  BY IdleMeans, StatusSet, StatusesAre DEF Typed, Working, Leased, Gates, LiveFails,
    leaseVars, history, process, LiveTo
<1>2. OnlyJob(j)
  BY IdleMeans, StatusSet, StatusesAre DEF Typed, OnlyJob, LiveFails, leaseVars,
    history, process, LiveTo
<1>3. Answered'
  BY IdleMeans DEF Typed, Answered, JobInv, PlannerAt, LiveFails, leaseVars, history,
    process, LiveTo
<1>4. \A h \in Hosts : LockAt(h)'
  BY <1>2, LocksStay DEF Typed, LiveFails, leaseVars, history, process, LiveTo
<1>5. PlannerAt(j)'
  BY IdleMeans, StatusSet, StatusesAre DEF Typed, JobInv, PlannerAt, ExecutorAt,
    Answered, Waits, Running, Planner, Working, LiveFails, leaseVars, history, process,
    LiveTo
<1>6. ExecutorAt(j)'
  BY IdleMeans, StatusSet, StatusesAre DEF Typed, JobInv, PlannerAt, ExecutorAt,
    Answered, Waits, Running, Executor, Leased, LiveFails, leaseVars, history, process,
    LiveTo
<1>7. AfterWriting(j)' /\ Asked(j)'
  BY IdleMeans, StatusSet, StatusesAre DEF Typed, JobInv, PlannerAt, ExecutorAt,
    AfterWriting, Asked, Answered, Waits, LiveFails, leaseVars, history, process, LiveTo
<1>8. LeaseAt(j)'
  BY IdleMeans, StatusSet, StatusesAre DEF Typed, JobInv, PlannerAt, ExecutorAt,
    LeaseAt, Answered, Running, LeaseExpired, InFlight, Working, Leased, LiveFails,
    leaseVars, history, process, LiveTo
<1> QED BY <1>1, <1>2, <1>3, <1>4, <1>5, <1>6, <1>7, <1>8, JobStep DEF JobInv

\* The live worker is through.
LEMMA LiveFinishesKeepsInv ==
  ASSUME PortalInv, Tables, NEW j \in Jobs, LiveFinishes(j)
  PROVE  PortalInv'
<1> USE DEF PortalInv
<1>1. Typed'
  <2>1. status' \in [Jobs -> Statuses]
    <3>1. PICK s \in {"COMPLETED", "RECOVERY_REQUIRED", "LIVE_EXECUTION_FAILED"} :
                 SetStatus(j, s)
      BY DEF LiveFinishes
    <3>2. s \in Statuses
      BY StatusesAre
    <3> QED BY <3>1, <3>2, StatusSet
  <2>2. live' \in [Jobs -> {"none", "starting", "refused"} \cup Leased]
    BY DEF Typed, LiveFinishes, LiveTo, Leased
  <2> QED BY <2>1, <2>2 DEF Typed, LiveFinishes, history, process
<1>2. OnlyJob(j)
  BY IdleMeans, StatusSet, StatusesAre DEF Typed, OnlyJob, LiveFinishes, leaseVars,
    history, process, LiveTo
<1>3. Answered'
  BY IdleMeans DEF Typed, Answered, JobInv, PlannerAt, LiveFinishes, leaseVars,
    history, process, LiveTo
<1>4. \A h \in Hosts : LockAt(h)'
  BY <1>2, LocksStay DEF Typed, LiveFinishes, leaseVars, history, process, LiveTo
<1>5. PlannerAt(j)'
  BY IdleMeans, StatusSet, StatusesAre DEF Typed, JobInv, PlannerAt, ExecutorAt,
    Answered, Waits, Running, Planner, Working, LiveFinishes, leaseVars, history,
    process, LiveTo
<1>6. ExecutorAt(j)'
  BY IdleMeans, StatusSet, StatusesAre DEF Typed, JobInv, PlannerAt, ExecutorAt,
    Answered, Waits, Running, Executor, Leased, LiveFinishes, leaseVars, history,
    process, LiveTo
<1>7. AfterWriting(j)' /\ Asked(j)'
  BY IdleMeans, StatusSet, StatusesAre DEF Typed, JobInv, PlannerAt, ExecutorAt,
    AfterWriting, Asked, Answered, Waits, LiveFinishes, leaseVars, history, process,
    LiveTo
<1>8. LeaseAt(j)'
  BY IdleMeans, StatusSet, StatusesAre DEF Typed, JobInv, PlannerAt, ExecutorAt,
    LeaseAt, Answered, Running, LeaseExpired, InFlight, Working, Leased, LiveFinishes,
    leaseVars, history, process, LiveTo
<1> QED BY <1>1, <1>2, <1>3, <1>4, <1>5, <1>6, <1>7, <1>8, JobStep DEF JobInv

\* The lock goes, if it is still this job's.
LEMMA UnlockKeepsInv ==
  ASSUME PortalInv, Tables, NEW j \in Jobs, Unlock(j)
  PROVE  PortalInv'
<1> USE DEF PortalInv
<1>0. lease' = lease
  BY DEF Unlock, L!ReleaseDestinationWriteLock
<1>1. Typed'
  BY <1>0 DEF Typed, Working, Leased, Unlock, jobVars, history, process, LiveTo
<1>2. OnlyJob(j)
  BY <1>0 DEF Typed, OnlyJob, Unlock, jobVars, history, process, LiveTo
<1>3. Answered'
  BY DEF Typed, Answered, JobInv, PlannerAt, Unlock, jobVars, history, process, LiveTo
<1>4. \A h \in Hosts : LockAt(h)'
  <2> SUFFICES ASSUME NEW h \in Hosts, lock'[h] # L!NoRow PROVE LockAt(h)'
    BY DEF LockAt
  <2>1. /\ lock'[h] = lock[h] /\ lock[h].job \in Jobs /\ LockAt(h)
        /\ h = HostOf[j] => lock[h].job # j
    BY OwnersAre DEF Typed, Unlock, L!ReleaseDestinationWriteLock, Tables, L!LockRow
  <2>2. lock[h].job # j
    BY <2>1 DEF LockAt
  <2> QED BY <1>2, <2>1, <2>2 DEF LockAt, OnlyJob
<1>5. PlannerAt(j)'
  BY <1>0 DEF Typed, JobInv, PlannerAt, ExecutorAt, Answered, Waits, Running, Planner,
    Working, Unlock, jobVars, history, process, LiveTo
<1>6. ExecutorAt(j)'
  BY <1>0 DEF Typed, JobInv, PlannerAt, ExecutorAt, Answered, Waits, Running, Executor,
    Leased, Unlock, jobVars, history, process, LiveTo
<1>7. AfterWriting(j)' /\ Asked(j)'
  BY <1>0 DEF Typed, JobInv, PlannerAt, ExecutorAt, AfterWriting, Asked, Answered,
    Waits, Unlock, jobVars, history, process, LiveTo
<1>8. LeaseAt(j)'
  BY <1>0 DEF Typed, JobInv, PlannerAt, ExecutorAt, LeaseAt, Answered, Running,
    LeaseExpired, InFlight, Working, Leased, Unlock, jobVars, history, process, LiveTo
<1> QED BY <1>1, <1>2, <1>3, <1>4, <1>5, <1>6, <1>7, <1>8, JobStep DEF JobInv

\* And the lease.
LEMMA LiveReleaseKeepsInv ==
  ASSUME PortalInv, Tables, NEW j \in Jobs, LiveRelease(j)
  PROVE  PortalInv'
<1> USE DEF PortalInv
<1>0. /\ lock' = lock /\ \A k \in Jobs \ {j} : lease'[k] = lease[k]
      /\ lease'[j] # L!NoRow /\ lease'[j].state = "RELEASED"
  BY OwnersAre, Releases
  DEF Typed, JobInv, ExecutorAt, Leased, LiveRelease, L!LeaseStates
<1>1. Typed'
  BY <1>0 DEF Typed, Working, Leased, LiveRelease, jobVars, history, process, LiveTo
<1>2. OnlyJob(j)
  BY <1>0 DEF Typed, OnlyJob, LiveRelease, jobVars, history, process, LiveTo
<1>3. Answered'
  BY DEF Typed, Answered, JobInv, PlannerAt, LiveRelease, jobVars, history, process,
    LiveTo
<1>4. \A h \in Hosts : LockAt(h)'
  BY <1>0, <1>2, LocksStay DEF Typed, LiveRelease, jobVars, history, process, LiveTo
<1>5. PlannerAt(j)'
  BY <1>0 DEF Typed, JobInv, PlannerAt, ExecutorAt, Answered, Waits, Running, Planner,
    Working, LiveRelease, jobVars, history, process, LiveTo
<1>6. ExecutorAt(j)'
  BY <1>0 DEF Typed, JobInv, PlannerAt, ExecutorAt, Answered, Waits, Running, Executor,
    Leased, LiveRelease, jobVars, history, process, LiveTo
<1>7. AfterWriting(j)' /\ Asked(j)'
  BY <1>0 DEF Typed, JobInv, PlannerAt, ExecutorAt, AfterWriting, Asked, Answered,
    Waits, LiveRelease, jobVars, history, process, LiveTo
<1>8. LeaseAt(j)'
  BY <1>0 DEF Typed, JobInv, PlannerAt, ExecutorAt, LeaseAt, Answered, Running,
    LeaseExpired, InFlight, Working, Leased, LiveRelease, jobVars, history, process,
    LiveTo
<1> QED BY <1>1, <1>2, <1>3, <1>4, <1>5, <1>6, <1>7, <1>8, JobStep DEF JobInv

-----------------------------------------------------------------------------
(* The process *)

LEMMA TicksKeepInv ==
  ASSUME PortalInv, Tick \/ TickDown \/ UNCHANGED vars
  PROVE  PortalInv'
<1>1. UNCHANGED <<lease, lock, status, open, gate, mig, live, approvals, todo, wrote,
                  up, answering, crashes>>
  BY DEF Tick, TickDown, L!Tick, vars, leaseVars, jobVars, history, process
<1>2. Typed' /\ Down' /\ Answered'
  BY <1>1 DEF PortalInv, Typed, Down, Answered
<1>3. ASSUME NEW j \in Jobs PROVE JobInv(j)'
  BY <1>1 DEF PortalInv, JobInv, PlannerAt, ExecutorAt, AfterWriting, LeaseAt, Asked,
    Waits, Running, Planner, Executor, LeaseExpired
<1>4. ASSUME NEW h \in Hosts PROVE LockAt(h)'
  BY <1>1 DEF PortalInv, LockAt
<1> QED BY <1>2, <1>3, <1>4 DEF PortalInv

\* A death keeps the tables and the rows of the jobs, and no worker.
LEMMA CrashKeepsInv ==
  ASSUME PortalInv, Crash
  PROVE  PortalInv'
<1>1. /\ UNCHANGED <<lease, lock, status, open, gate, approvals, todo, wrote>>
      /\ up' = FALSE /\ answering' = {} /\ crashes' \in 0 .. MaxCrashes /\ crashes' # 0
      /\ mig' = [j \in Jobs |-> IF mig[j] = "unborn" THEN "unborn" ELSE "none"]
      /\ live' = [j \in Jobs |-> "none"]
  BY PortalConstants DEF PortalInv, Typed, Crash, L!OwnersDie, jobVars, history
<1>2. Typed' /\ Down' /\ Answered'
  BY <1>1 DEF PortalInv, Typed, Down, Answered
<1>3. ASSUME NEW j \in Jobs PROVE JobInv(j)'
  <2>0. JobInv(j) /\ live'[j] = "none" /\ j \notin answering'
        /\ mig'[j] = (IF mig[j] = "unborn" THEN "unborn" ELSE "none")
    BY <1>1 DEF PortalInv
  <2>1. PlannerAt(j)'
    BY <1>1, <2>0 DEF JobInv, PlannerAt, Waits, Running, Working
  <2>2. ExecutorAt(j)'
    BY <2>0 DEF ExecutorAt, Leased
  <2>3. AfterWriting(j)' /\ Asked(j)'
    BY <1>1, <2>0 DEF JobInv, AfterWriting, Asked, Waits
  <2>4. LeaseAt(j)'
    BY <1>1, <2>0 DEF JobInv, LeaseAt, LeaseExpired
  <2> QED BY <2>1, <2>2, <2>3, <2>4 DEF JobInv
<1>4. ASSUME NEW h \in Hosts PROVE LockAt(h)'
  BY <1>1 DEF PortalInv, LockAt
<1> QED BY <1>2, <1>3, <1>4 DEF PortalInv

\* A new process: the leases that have run out are marked, and their jobs settled.
LEMMA BootKeepsInv ==
  ASSUME PortalInv, Tables, Boot
  PROVE  PortalInv'
<1>1. /\ UNCHANGED <<open, gate, mig, live, approvals, todo, wrote, answering, crashes>>
      /\ ~up /\ up' = TRUE /\ crashes # 0 /\ answering = {}
  BY DEF PortalInv, Typed, Down, Boot, history
<1>2. ASSUME NEW j \in Jobs
      PROVE  /\ live[j] = "none" /\ mig[j] \in {"unborn", "none"}
             /\ lease[j] = L!NoRow <=> lease'[j] = L!NoRow
             /\ status'[j] = IF LeaseExpired(lease'[j]) THEN AfterExpiry(status[j])
                             ELSE status[j]
  <2>1. lease'[j] = IF L!Expired(lease[j]) /\ lease[j].state = "RUNNING"
                    THEN [lease[j] EXCEPT !.state = "WORKER_LEASE_EXPIRED"] ELSE lease[j]
    BY DEF Boot, L!ReclaimExpiredLeases
  <2>2. L!Expired(lease[j]) => lease[j] \in L!LeaseRow
    BY DEF L!Expired, Tables
  <2>3. lease[j] = L!NoRow <=> lease'[j] = L!NoRow
    BY <2>1, <2>2 DEF L!NoRow, L!LeaseRow
  <2> QED BY <1>1, <2>3 DEF PortalInv, Down, Boot
<1>3. ASSUME NEW j \in Jobs
      PROVE  /\ AfterExpiry(status[j]) \in Statuses \ InFlight
             /\ AfterExpiry(status[j]) \in
                  {status[j], "LIVE_EXECUTION_FAILED", "FAILED"}
  <2>1. status[j] \in Statuses
    BY DEF PortalInv, Typed
  <2> QED BY <2>1, StatusesAre DEF AfterExpiry, InFlight
<1>4. Typed'
  <2>1. status' \in [Jobs -> Statuses]
    BY <1>3 DEF Boot, PortalInv, Typed
  <2> QED BY <1>1, <2>1 DEF PortalInv, Typed
<1>5. Down' /\ Answered'
  BY <1>1 DEF PortalInv, Down, Answered
<1>6. ASSUME NEW j \in Jobs PROVE JobInv(j)'
  <2>0. JobInv(j)
    BY DEF PortalInv
  <2>1. PlannerAt(j)'
    BY <1>1, <1>2, <1>3, <2>0 DEF JobInv, PlannerAt, Waits, Working
  <2>2. ExecutorAt(j)'
    BY <1>1, <1>2 DEF ExecutorAt, Leased
  <2>3. AfterWriting(j)' /\ Asked(j)'
    BY <1>1, <1>2, <1>3, <2>0 DEF JobInv, AfterWriting, Asked, Waits
  <2>4. LeaseAt(j)'
    <3>1. LeaseExpired(lease[j])' => mig'[j] = "none"
      BY <1>1, <1>2, <2>0 DEF JobInv, PlannerAt, LeaseExpired
    <3>2. LeaseExpired(lease[j])' => status'[j] \notin InFlight
      BY <1>2, <1>3 DEF LeaseExpired
    <3> QED BY <1>1, <3>1, <3>2 DEF LeaseAt
  <2> QED BY <2>1, <2>2, <2>3, <2>4 DEF JobInv
<1>7. ASSUME NEW h \in Hosts PROVE LockAt(h)'
  <2>1. lock'[h] = L!NoRow \/ lock'[h] = lock[h]
    BY DEF Boot, L!ReclaimExpiredLeases
  <2> QED BY <1>1, <2>1 DEF PortalInv, LockAt
<1> QED BY <1>4, <1>5, <1>6, <1>7 DEF PortalInv

-----------------------------------------------------------------------------
(* The invariant *)

LEMMA PortalInitInv == Init => PortalInv
<1> SUFFICES ASSUME Init PROVE PortalInv
  OBVIOUS
<1>1. Typed /\ Down /\ Answered
  BY PortalConstants, StatusesAre DEF Init, Typed, Down, Answered, Working, Leased, Gates
<1>2. ASSUME NEW j \in Jobs PROVE JobInv(j)
  BY DEF Init, L!LeasesInit, JobInv, PlannerAt, ExecutorAt, AfterWriting, LeaseAt, Asked,
    Waits, Running, LeaseExpired, Working, Leased, NoJob
<1>3. ASSUME NEW h \in Hosts PROVE LockAt(h)
  BY DEF Init, L!LeasesInit, LockAt
<1> QED BY <1>1, <1>2, <1>3 DEF PortalInv

LEMMA PortalStepInv ==
  ASSUME PortalInv, Tables, [Next]_vars
  PROVE  PortalInv'
<1>1. ASSUME NEW j \in Jobs, Planning(j) PROVE PortalInv'
  BY <1>1, MigBeginKeepsInv, MigExtractedKeepsInv, MigFailsKeepsInv, MigPublishKeepsInv,
    MigAskKeepsInv, MigAskedKeepsInv, MigFinishKeepsInv, MigReleaseKeepsInv DEF Planning
<1>2. ASSUME NEW j \in Jobs, Executing(j) PROVE PortalInv'
  BY <1>2, TakeLeaseKeepsInv, TakeLockKeepsInv, NotStartedKeepsInv, BeginWritingKeepsInv,
    LiveFailsKeepsInv, LiveFinishesKeepsInv, UnlockKeepsInv, LiveReleaseKeepsInv
  DEF Executing
<1>3. ASSUME NEW j \in Jobs, Request(j) \/ AnswerSettles(j) PROVE PortalInv'
  BY <1>3, CreateJobKeepsInv, AnswerKeepsInv, ApproveKeepsInv, CancelKeepsInv,
    DeleteKeepsInv, AnswerSettlesKeepsInv DEF Request
<1>4. CASE Crash \/ Boot
  BY <1>4, CrashKeepsInv, BootKeepsInv
<1>5. CASE Tick \/ TickDown \/ UNCHANGED vars
  BY <1>5, TicksKeepInv
<1> QED BY <1>1, <1>2, <1>3, <1>4, <1>5 DEF Next

LEMMA TablesInvariant == Spec => []Tables
BY LeasesTyped, TablesTyped, PTL

LEMMA PortalInvariant == Spec => []PortalInv
BY PortalInitInv, PortalStepInv, TablesInvariant, PTL DEF Spec

-----------------------------------------------------------------------------
(* The writers *)

Writing == {"preparing", "writing", "unlocking"}

\* Who may believe in a lock is the live worker of its job, past taking the lock
\* and before giving it back, and the row is its own for at least as long.
Told ==
  \A o \in Owners, h \in Hosts : L!Promised(o, h) =>
    /\ o = Executor(o[1]) /\ live[o[1]] \in Writing
    /\ lock[h] # L!NoRow /\ lock[h].job = o[1] /\ lock[h].owner = o
    /\ promised[o][h] <= lock[h].expires

\* A step that leaves the locks alone, and the live workers in their places.
LEMMA ToldStays ==
  ASSUME Tables, Told, UNCHANGED <<lock, promised>>, now' \in {now, now + 1},
         \A j \in Jobs : live[j] \in Writing =>
           live'[j] \in Writing /\ approvals'[j] = approvals[j]
  PROVE  Told'
<1> SUFFICES ASSUME NEW o \in Owners, NEW h \in Hosts, L!Promised(o, h)'
             PROVE  /\ o = Executor(o[1])' /\ live'[o[1]] \in Writing
                    /\ lock[h] # L!NoRow /\ lock[h].job = o[1] /\ lock[h].owner = o
                    /\ promised[o][h] <= lock[h].expires
  BY DEF Told
<1>1. L!Promised(o, h) /\ o[1] \in Jobs
  BY DEF L!Promised, Tables, Owners
<1> QED BY <1>1 DEF Told, Executor

LEMMA ExecutorStepTold ==
  ASSUME PortalInv, Tables, Told, NEW j \in Jobs, Executing(j)
  PROVE  Told'
<1> DEFINE e == Executor(j)
           host == HostOf[j]
<1>0. e \in Owners /\ host \in Hosts /\ e[1] = j
      /\ [o \in Owners |-> o[1]][e] = j
  BY PortalConstants, OwnersAre DEF PortalInv, Typed, Executor
<1>1. approvals' = approvals /\ now' = now
  BY DEF Executing, TakeLease, TakeLock, NotStarted, BeginWriting, LiveFails,
    LiveFinishes, Unlock, LiveRelease, leaseVars, history, L!AcquireJobLease,
    L!ReleaseJobLease, L!AcquireDestinationWriteLock, L!ReleaseDestinationWriteLock
<1>2. CASE L!AcquireDestinationWriteLock(host, e) /\ TakeLock(j)
  <2>1. live[j] = "leased" /\ live' = [live EXCEPT ![j] = "preparing"]
    BY <1>2, <1>0 DEF TakeLock, LiveTo, L!AcquireDestinationWriteLock
  <2>2. /\ ~L!DestinationWriteLocked(host, e)
        /\ lock' = [lock EXCEPT ![host] = [job |-> j, owner |-> e,
                                           expires |-> now + TTL]]
        /\ promised' = [promised EXCEPT ![e][host] = now + TTL]
    BY <1>2, <1>0 DEF L!AcquireDestinationWriteLock
  <2>3. ASSUME NEW o \in Owners, L!Promised(o, host) PROVE FALSE
    <3>1. /\ lock[host] # L!NoRow /\ lock[host].job = o[1] /\ lock[host].owner = o
          /\ promised[o][host] <= lock[host].expires /\ o = Executor(o[1])
          /\ live[o[1]] \in Writing
      BY <2>3, <1>0 DEF Told
    <3>2. lock[host].expires > now
      BY <2>3, <3>1, <1>0 DEF Tables, L!Promised, L!LockRow
    <3>3. lock[host].job = j \/ lock[host].owner = e
      BY <2>2, <3>1, <3>2, <1>0 DEF L!DestinationWriteLocked
    <3>4. o[1] = j
      BY <3>1, <3>3, <1>0
    <3> QED BY <3>1, <3>4, <2>1 DEF Writing
  <2>4. SUFFICES ASSUME NEW o \in Owners, NEW h \in Hosts, L!Promised(o, h)'
                 PROVE  /\ o = Executor(o[1])' /\ live'[o[1]] \in Writing
                        /\ lock'[h] # L!NoRow /\ lock'[h].job = o[1]
                        /\ lock'[h].owner = o /\ promised'[o][h] <= lock'[h].expires
    BY DEF Told
  <2>5. CASE o = e /\ h = host
    <3>1. lock'[h] = [job |-> j, owner |-> e, expires |-> now + TTL]
      BY <2>2, <2>5, <1>0 DEF Tables
    <3>2. /\ lock'[h].job = j /\ lock'[h].owner = e /\ lock'[h].expires = now + TTL
          /\ lock'[h] # L!NoRow
      BY <3>1 DEF L!NoRow
    <3>3. promised'[o][h] = now + TTL /\ now + TTL \in Nat
      BY <2>2, <2>5, <1>0, PortalConstants DEF Tables
    <3>4. live'[j] = "preparing"
      BY <2>1 DEF PortalInv, Typed
    <3>5. Executor(j)' = e
      BY <1>1 DEF Executor
    <3> QED BY <2>5, <3>2, <3>3, <3>4, <3>5, <1>0 DEF Writing
  <2>6. CASE ~(o = e /\ h = host)
    <3>1. promised'[o][h] = promised[o][h]
      BY <2>2, <2>6, <1>0 DEF Tables
    <3>2. L!Promised(o, h) /\ o[1] \in Jobs
      BY <3>1, <1>1, <2>4 DEF L!Promised, Owners
    <3>3. h # host
      BY <2>3, <3>2
    <3>4. lock'[h] = lock[h]
      BY <2>2, <3>3
    <3>5. live'[o[1]] \in Writing
      BY <2>1, <3>2 DEF Told, Writing, PortalInv, Typed
    <3>6. Executor(o[1])' = Executor(o[1])
      BY <1>1 DEF Executor
    <3> QED BY <3>1, <3>2, <3>4, <3>5, <3>6 DEF Told
  <2> QED BY <2>5, <2>6
<1>3. CASE Unlock(j)
  <2>1. /\ live' = [live EXCEPT ![j] = "releasing"]
        /\ promised' = [promised EXCEPT ![e][host] = 0]
        /\ \A h \in Hosts : \/ lock'[h] = lock[h]
                            \/ lock[h] # L!NoRow /\ lock[h].job = j
    BY <1>3, <1>0 DEF Unlock, LiveTo, L!ReleaseDestinationWriteLock, Tables
  <2>2. SUFFICES ASSUME NEW o \in Owners, NEW h \in Hosts, L!Promised(o, h)'
                 PROVE  /\ o = Executor(o[1])' /\ live'[o[1]] \in Writing
                        /\ lock'[h] # L!NoRow /\ lock'[h].job = o[1]
                        /\ lock'[h].owner = o /\ promised'[o][h] <= lock'[h].expires
    BY DEF Told
  <2>3. /\ promised'[o][h] = promised[o][h] /\ ~(o = e /\ h = host)
        /\ L!Promised(o, h) /\ o[1] \in Jobs
    BY <2>1, <2>2, <1>0, <1>1 DEF Tables, L!Promised, Owners
  <2>4. lock[h] # L!NoRow /\ lock[h].job = o[1] /\ o = Executor(o[1])
        /\ LockAt(h)
    BY <2>3 DEF Told, PortalInv
  <2>5. o[1] # j
    BY <2>3, <2>4 DEF LockAt
  <2>6. lock'[h] = lock[h] /\ live'[o[1]] = live[o[1]]
        /\ Executor(o[1])' = Executor(o[1])
    BY <2>1, <2>3, <2>4, <2>5, <1>1 DEF Executor, PortalInv, Typed
  <2> QED BY <2>3, <2>6 DEF Told
<1>4. CASE ~Unlock(j) /\ ~(L!AcquireDestinationWriteLock(host, e) /\ TakeLock(j))
  <2>1. UNCHANGED <<lock, promised>>
    BY <1>4 DEF Executing, TakeLease, TakeLock, NotStarted, BeginWriting, LiveFails,
      LiveFinishes, LiveRelease, leaseVars, L!AcquireJobLease, L!ReleaseJobLease
  <2>2. TakeLease(j) \/ TakeLock(j) \/ NotStarted(j) \/ LiveRelease(j)
          => live[j] \notin Writing /\ \E place : live' = [live EXCEPT ![j] = place]
    BY DEF TakeLease, TakeLock, NotStarted, LiveRelease, LiveTo, Writing
  <2>3. BeginWriting(j) \/ LiveFails(j) \/ LiveFinishes(j)
          => live' = [live EXCEPT ![j] = "writing"]
             \/ live' = [live EXCEPT ![j] = "unlocking"]
    BY DEF BeginWriting, LiveFails, LiveFinishes, LiveTo
  <2>4. ASSUME NEW k \in Jobs, live[k] \in Writing PROVE live'[k] \in Writing
    BY <1>4, <2>2, <2>3, <2>4 DEF Executing, Writing, PortalInv, Typed
  <2> QED BY <1>1, <2>1, <2>4, ToldStays
<1> QED BY <1>2, <1>3, <1>4

LEMMA ToldStep ==
  ASSUME PortalInv, Tables, Tables', Told, [Next]_vars
  PROVE  Told'
<1>1. ASSUME NEW k \in Jobs, Executing(k) PROVE Told'
  BY <1>1, ExecutorStepTold
<1>2. ASSUME NEW k \in Jobs, Planning(k) \/ Request(k) \/ AnswerSettles(k)
      PROVE  Told'
  <2>1. UNCHANGED <<now, lock, promised>>
    <3>1. Planning(k) => UNCHANGED <<now, lock, promised>>
      BY DEF Planning, MigBegin, MigExtracted, MigFails, MigPublish, MigAsk, MigAsked,
        MigFinish, MigRelease, leaseVars, L!AcquireJobLease, L!HeartbeatJobLease,
        L!ReleaseJobLease
    <3>2. Request(k) \/ AnswerSettles(k) => UNCHANGED <<now, lock, promised>>
      BY DEF Request, CreateJob, Answer, Approve, Cancel, Delete, AnswerSettles,
        leaseVars
    <3> QED BY <1>2, <3>1, <3>2
  <2>2. CASE Approve(k)
    <3>1. live[k] = "none"
      BY <2>2 DEF Approve, PortalInv, JobInv, ExecutorAt, Waits
    <3>2. /\ live' = [live EXCEPT ![k] = "starting"]
          /\ approvals' = [approvals EXCEPT ![k] = @ + 1]
      BY <2>2 DEF Approve, LiveTo
    <3>3. ASSUME NEW j \in Jobs, live[j] \in Writing
          PROVE  live'[j] \in Writing /\ approvals'[j] = approvals[j]
      BY <3>1, <3>2, <3>3 DEF Writing
    <3> QED BY <2>1, <3>3, ToldStays
  <2>3. CASE ~Approve(k)
    <3>1. Planning(k) => UNCHANGED <<live, approvals>>
      BY DEF Planning, MigBegin, MigExtracted, MigFails, MigPublish, MigAsk, MigAsked,
        MigFinish, MigRelease, history
    <3>2. CreateJob(k) \/ Answer(k) \/ Cancel(k) \/ Delete(k) \/ AnswerSettles(k)
            => UNCHANGED <<live, approvals>>
      BY DEF CreateJob, Answer, Cancel, Delete, AnswerSettles, history
    <3>3. UNCHANGED <<live, approvals>>
      BY <1>2, <2>3, <3>1, <3>2 DEF Request
    <3> QED BY <2>1, <3>3, ToldStays
  <2> QED BY <2>2, <2>3
<1>3. CASE Tick \/ TickDown \/ UNCHANGED vars
  <2>1. UNCHANGED <<lock, promised, live, approvals>> /\ now' \in {now, now + 1}
    BY <1>3 DEF Tick, TickDown, L!Tick, vars, leaseVars, history
  <2> QED BY <2>1, ToldStays
<1>4. CASE Crash
  <2>1. promised' = [o \in Owners |-> [h \in Hosts |-> 0]] /\ now' = now
    BY <1>4 DEF Crash, L!OwnersDie, L!Nowhere
  <2> QED BY <2>1 DEF Told, L!Promised, Tables
<1>5. CASE Boot
  <2>1. promised' = promised /\ now' = now /\ ~up
    BY <1>5 DEF Boot, L!ReclaimExpiredLeases
  <2>2. \A o \in Owners : o[1] \in Jobs /\ live[o[1]] = "none"
    BY <2>1 DEF PortalInv, Down, Owners
  <2> QED BY <2>1, <2>2 DEF Told, L!Promised, Writing
<1> QED BY <1>1, <1>2, <1>3, <1>4, <1>5 DEF Next

LEMMA ToldInvariant == Spec => []Told
<1>1. Init => Told
  BY DEF Init, L!LeasesInit, L!Nowhere, Told, L!Promised
<1> QED BY <1>1, ToldStep, PortalInvariant, TablesInvariant, PTL DEF Spec

\* A live worker starts with an approval and in no other way.
LEMMA WorkerGoesOn ==
  ASSUME Typed, NEW k \in Jobs, Executing(k), NEW j \in Jobs, live[j] = "none"
  PROVE  live'[j] = "none"
<1>1. live[k] # "none" /\ \E place : LiveTo(k, place)
  <2>1. TakeLease(k) \/ TakeLock(k) => live[k] # "none" /\ \E place : LiveTo(k, place)
    BY DEF TakeLease, TakeLock
  <2>2. NotStarted(k) \/ BeginWriting(k) \/ LiveFails(k) \/ LiveFinishes(k)
          => live[k] # "none" /\ \E place : LiveTo(k, place)
    BY DEF NotStarted, BeginWriting, LiveFails, LiveFinishes
  <2>3. Unlock(k) \/ LiveRelease(k) => live[k] # "none" /\ \E place : LiveTo(k, place)
    BY DEF Unlock, LiveRelease
  <2> QED BY <2>1, <2>2, <2>3 DEF Executing
<1> QED BY <1>1 DEF Typed, LiveTo

\* No other step moves a live worker, but an approval, which starts one.
LEMMA WorkerStays ==
  ASSUME Typed, NEW k \in Jobs, Planning(k) \/ Request(k) \/ AnswerSettles(k)
  PROVE  live' = live \/ (Waits(k) /\ live' = [live EXCEPT ![k] = "starting"])
<1>1. Planning(k) => live' = live
  BY DEF Planning, MigBegin, MigExtracted, MigFails, MigPublish, MigAsk, MigAsked,
    MigFinish, MigRelease
<1>2. Approve(k) => Waits(k) /\ live' = [live EXCEPT ![k] = "starting"]
  BY DEF Approve, Waits, LiveTo
<1>3. CreateJob(k) \/ Answer(k) \/ Cancel(k) \/ Delete(k) \/ AnswerSettles(k)
        => live' = live
  BY DEF CreateJob, Answer, Cancel, Delete, AnswerSettles
<1> QED BY <1>1, <1>2, <1>3 DEF Request

-----------------------------------------------------------------------------
(* The promises *)

\* Every reachable state is typed, the lease tables included.
THEOREM PortalTyped == Spec => [](Typed /\ Tables)
BY PortalInvariant, TablesInvariant, PTL DEF PortalInv

\* While a job is being planned nobody executes it, and no question is open while
\* it executes.
THEOREM PlannedIsExecuted == Spec => []PlannedBeforeExecuted
<1>1. PortalInv => PlannedBeforeExecuted
  BY DEF PortalInv, JobInv, ExecutorAt, PlannedBeforeExecuted
<1> QED BY <1>1, PortalInvariant, PTL

\* After a restart a job whose lease has run out does not read as in flight.
THEOREM BootIsSettled == Spec => []BootSettles
<1>1. PortalInv => BootSettles
  BY DEF PortalInv, JobInv, LeaseAt, BootSettles
<1> QED BY <1>1, PortalInvariant, PTL

\* Without a death no lock and no lease outlives its worker.
THEOREM NothingIsLeaked == Spec => []NothingLeaks
<1>1. PortalInv => NothingLeaks
  <2> SUFFICES ASSUME PortalInv, crashes = 0 PROVE NothingLeaks
    BY DEF NothingLeaks
  <2>1. ASSUME NEW h \in Hosts, lock[h] # L!NoRow
        PROVE  live[lock[h].job] \in {"preparing", "writing", "unlocking"}
    BY <2>1 DEF PortalInv, LockAt
  <2>2. ASSUME NEW j \in Jobs, lease[j] # L!NoRow, lease[j].state = "RUNNING"
        PROVE  \/ mig[j] \notin {"unborn", "scheduled", "none"}
               \/ live[j] \notin {"none", "starting"}
    BY <2>2 DEF PortalInv, JobInv, LeaseAt, Working, Leased
  <2> QED BY <2>1, <2>2 DEF NothingLeaks
<1> QED BY <1>1, PortalInvariant, PTL

\* Two runs never believe at once to be the only writer of one host.
THEOREM OneRunIsPromised == Spec => []OneRunPerHost
<1>1. Told => OneRunPerHost
  BY DEF Told, OneRunPerHost
<1> QED BY <1>1, ToldInvariant, PTL

\* Without a death a job that awaits review has a question to answer.
THEOREM ReviewsAreAnswerable == Spec => []ReviewIsAnswerable
<1>1. PortalInv => ReviewIsAnswerable
  BY IdleMeans DEF PortalInv, JobInv, LeaseAt, ReviewIsAnswerable
<1> QED BY <1>1, PortalInvariant, PTL

\* A menu whose contract is BLOCKED is never written, nor the result of a
\* QA_RECONCILE job.
THEOREM WritesOnlyWritable == Spec => OnlyWritableIsWritten
<1>1. ASSUME PortalInv, [Next]_vars, NEW j \in Jobs,
             live'[j] = "writing", live[j] # "writing"
      PROVE  gate[j] # "blocked" /\ WorkflowOf[j] = "CREATE_MENU"
  <2>1. live[j] # "none"
    <3> SUFFICES ASSUME live[j] = "none" PROVE live'[j] # "writing"
      BY <1>1
    <3>1. ASSUME NEW k \in Jobs, Executing(k) PROVE live'[j] # "writing"
      BY <1>1, <3>1, WorkerGoesOn DEF PortalInv
    <3>2. ASSUME NEW k \in Jobs, Planning(k) \/ Request(k) \/ AnswerSettles(k)
          PROVE  live'[j] # "writing"
      BY <1>1, <3>2, WorkerStays DEF PortalInv, Typed
    <3>3. Tick \/ TickDown \/ Crash \/ Boot \/ UNCHANGED vars => live'[j] # "writing"
      BY DEF Tick, TickDown, Crash, Boot, vars
    <3> QED BY <1>1, <3>1, <3>2, <3>3 DEF Next
  <2> QED BY <1>1, <2>1 DEF PortalInv, JobInv, ExecutorAt
<1>2. PortalInv /\ [Next]_vars =>
        \A j \in Jobs : live'[j] = "writing" /\ live[j] # "writing" =>
          gate[j] # "blocked" /\ WorkflowOf[j] = "CREATE_MENU"
  BY <1>1
<1> QED BY <1>2, PortalInvariant, PTL DEF Spec, OnlyWritableIsWritten

\* A plan that has been executed, in part or completely, is never approved again.
THEOREM NeverReplayed == Spec => NoBlindReplay
<1>1. ASSUME PortalInv, PortalInv', [Next]_vars, NEW j \in Jobs, wrote[j]
      PROVE  /\ status'[j] # "AWAITING_OPERATOR_APPROVAL"
             /\ live[j] = "none" => live'[j] = "none"
  <2>1. ~Waits(j) /\ j \notin answering /\ mig[j] = "none" /\ j \in Jobs
    BY <1>1 DEF PortalInv, JobInv, AfterWriting
  <2>2. wrote'[j]
    <3>1. ASSUME NEW k \in Jobs, Executing(k) PROVE wrote'[j]
      BY <1>1, <3>1 DEF PortalInv, Typed, Executing, TakeLease, TakeLock, NotStarted,
        BeginWriting, LiveFails, LiveFinishes, Unlock, LiveRelease, history
    <3>2. ASSUME NEW k \in Jobs, Planning(k) \/ Request(k) \/ AnswerSettles(k)
          PROVE  wrote'[j]
      BY <1>1, <3>2 DEF Planning, Request, MigBegin, MigExtracted, MigFails,
        MigPublish, MigAsk, MigAsked, MigFinish, MigRelease, CreateJob, Answer, Approve,
        Cancel, Delete, AnswerSettles, history
    <3>3. Tick \/ TickDown \/ Crash \/ Boot \/ UNCHANGED vars => wrote'[j]
      BY <1>1 DEF Tick, TickDown, Crash, Boot, vars, history
    <3> QED BY <1>1, <3>1, <3>2, <3>3 DEF Next
  <2>3. ~Waits(j)'
    BY <1>1, <2>2 DEF PortalInv, JobInv, AfterWriting
  <2>4. live[j] = "none" => live'[j] = "none"
    <3> SUFFICES ASSUME live[j] = "none" PROVE live'[j] = "none"
      OBVIOUS
    <3>1. ASSUME NEW k \in Jobs, Executing(k) PROVE live'[j] = "none"
      BY <1>1, <3>1, WorkerGoesOn DEF PortalInv
    <3>2. ASSUME NEW k \in Jobs, Planning(k) \/ Request(k) \/ AnswerSettles(k)
          PROVE  live'[j] = "none"
      BY <1>1, <2>1, <3>2, WorkerStays DEF PortalInv, Typed, Waits
    <3>3. Tick \/ TickDown \/ Crash \/ Boot \/ UNCHANGED vars => live'[j] = "none"
      BY DEF Tick, TickDown, Crash, Boot, vars
    <3> QED BY <1>1, <3>1, <3>2, <3>3 DEF Next
  <2> QED BY <2>3, <2>4 DEF Waits
<1>2. PortalInv /\ PortalInv' /\ [Next]_vars =>
        \A j \in Jobs : wrote[j] =>
          /\ status'[j] # "AWAITING_OPERATOR_APPROVAL"
          /\ live[j] = "none" => live'[j] = "none"
  BY <1>1
<1> QED BY <1>2, PortalInvariant, PTL DEF Spec, NoBlindReplay
=============================================================================
