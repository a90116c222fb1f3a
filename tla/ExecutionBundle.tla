--------------------------- MODULE ExecutionBundle ---------------------------
(***************************************************************************)
(* What an approval binds: a CREATE_MENU job is planned against a snapshot  *)
(* of its destination (portal/worker.ts, portal/liveExecute.ts), the plan   *)
(* is frozen into an execution bundle (runtime/executionBundle.ts), and     *)
(* when the operator approves, possibly much later and after a redeploy,    *)
(* the bundle is compared with the destination once more                    *)
(* (runtime/preWriteGate.ts) before the executor writes.                    *)
(*                                                                         *)
(* Meanwhile people edit the destination, its admin pages change, other     *)
(* jobs write to it, and the process is replaced by another version or      *)
(* another configuration of the program.  A snapshot takes two reads: the   *)
(* categories and then the products.                                        *)
(*                                                                         *)
(* Hashes are what they hash, and are compared only for equality.  All jobs *)
(* have one destination host.  The write lock is assumed to last (PortalJobs*)
(* has it run out).                                                         *)
(***************************************************************************)
EXTENDS Integers, Sequences, FiniteSets

CONSTANTS
  Jobs,
  Items, CatNames,  \* menu numbers of products, names of categories
  Want,             \* the products of a job's canonical menu
  CatOf,            \* the category a product belongs to
  Starts,           \* what the destination may be at first
  MaxEdits,         \* bound: changes by other people, drift included
  MaxDeploys        \* bound: times the process is replaced

Nobody == "nobody"
Kinds  == {"category", "product"}
Names(k) == IF k = "category" THEN CatNames ELSE Items
\* A row of the destination's admin lists; its database id is its position in
\* rows.  rest stands for what the list does not show (price, texts, choices).
Row == [kind : Kinds, name : Items \cup CatNames, rest : Nat, gone : BOOLEAN,
        by : Jobs \cup {Nobody}]

ASSUME BundleConstants ==
  /\ Want \in [Jobs -> SUBSET Items]
  /\ CatOf \in [Items -> CatNames]
  /\ Starts \subseteq Seq(Row)
  /\ \A r \in Starts : \A i \in DOMAIN r :
       r[i].by = Nobody /\ r[i].name \in Names(r[i].kind)
  /\ Nobody \notin Jobs
  /\ MaxEdits \in Nat /\ MaxDeploys \in Nat

VARIABLES
  rows,      \* the destination
  contract,  \* its admin pages: "certified", or "drifted"
  env,       \* the running process: the sha it reports, its configuration
  at,        \* where a job is
  bundle,    \* execution-bundle.json of a job
  seen,      \* what a job has read of the destination so far
  todo,      \* the operations its executor has still to do
  lock,      \* holder of the destination write lock
  edits, deploys

vars == <<rows, contract, env, at, bundle, seen, todo, lock, edits, deploys>>

\* "new": still to be planned.  "listing", "planning", "checking" and
\* "comparing" await the categories or the products.
Planning == {"new", "listing", "planning"}
Live     == {"login", "checking", "comparing", "writing"}
Places   == Planning \cup Live \cup {"awaiting", "done", "failed"}

\* The rows a list shows, in the detail it shows them.
View(k) == {<<i, rows[i].name>> :
              i \in {i \in DOMAIN rows : rows[i].kind = k /\ ~rows[i].gone}}
Listed(k, n) == \E i \in DOMAIN rows :
                  rows[i].kind = k /\ ~rows[i].gone /\ rows[i].name = n

Snapshot   == [cats : SUBSET (Nat \X CatNames), products : SUBSET (Nat \X Items)]
NoSnapshot == [cats |-> {}, products |-> {}]
NamesIn(view) == {r[2] : r \in view}

\* buildDryRunWritePlan for a menu whose products raise no question: a category
\* that is missing is created for every product of it, and a product whose
\* number is listed is blocked.
Entry == [kind : Kinds, name : Items \cup CatNames]
PlanOf(j, snapshot) ==
  {[kind |-> "category", name |-> c] :
     c \in {CatOf[n] : n \in Want[j]} \ NamesIn(snapshot.cats)}
  \cup {[kind |-> "product", name |-> n] :
          n \in Want[j] \ NamesIn(snapshot.products)}

Statuses == {"LIVE_COMPLETE", "OFFLINE_EXPLICIT"}
Bundle == [productionSha : Nat, snapshot : Snapshot, status : Statuses,
           operations : SUBSET Entry]
NoBundle == [productionSha |-> 0, snapshot |-> NoSnapshot,
             status |-> "OFFLINE_EXPLICIT", operations |-> {}]

\* freezeExecutionBundle
Freeze(j, snapshot, status) ==
  bundle' = [bundle EXCEPT ![j] =
    [productionSha |-> env.sha, snapshot |-> snapshot, status |-> status,
     operations |-> PlanOf(j, snapshot)]]

Goto(j, place) == at' = [at EXCEPT ![j] = place]

Init ==
  /\ rows \in Starts /\ contract = "certified"
  /\ env \in [sha : {1}, offline : BOOLEAN, killed : {FALSE}]
  /\ at = [j \in Jobs |-> "new"]
  /\ bundle = [j \in Jobs |-> NoBundle]
  /\ seen = [j \in Jobs |-> NoSnapshot]
  /\ todo = [j \in Jobs |-> {}]
  /\ lock = Nobody /\ edits = 0 /\ deploys = 0

-----------------------------------------------------------------------------
(* The world outside. *)

Edited == edits < MaxEdits /\ edits' = edits + 1

AddRow(k, n, j) ==
  rows' = Append(rows, [kind |-> k, name |-> n, rest |-> 0, gone |-> FALSE,
                        by |-> j])

\* Somebody works in the admin site: adds a row, deletes one, renames one or
\* changes what the list does not show.
Edit ==
  /\ Edited
  /\ \/ \E k \in Kinds : \E n \in Names(k) : AddRow(k, n, Nobody)
     \/ \E i \in DOMAIN rows : ~rows[i].gone /\
          \/ rows' = [rows EXCEPT ![i].gone = TRUE]
          \/ rows' = [rows EXCEPT ![i].rest = @ + 1]
          \/ \E n \in Names(rows[i].kind) : rows' = [rows EXCEPT ![i].name = n]
  /\ UNCHANGED <<contract, env, at, bundle, seen, todo, lock, deploys>>

\* The admin site is changed, so that its forms are not the certified ones.
Drift ==
  /\ Edited /\ contract' = "drifted"
  /\ UNCHANGED <<rows, env, at, bundle, seen, todo, lock, deploys>>

\* The process is replaced: its jobs in flight fail (expireStaleInFlightJobs).
\* resolveDeployCommitSha reads the sha from the environment alone, where it is
\* that of the version or one that was pinned there before.
Redeploy ==
  /\ deploys < MaxDeploys /\ deploys' = deploys + 1
  /\ env' \in [sha : {env.sha, env.sha + 1}, offline : BOOLEAN, killed : BOOLEAN]
  /\ at' = [j \in Jobs |-> IF at[j] \in Live \cup {"listing", "planning"}
                           THEN "failed" ELSE at[j]]
  /\ lock' = Nobody
  /\ UNCHANGED <<rows, contract, bundle, seen, todo, edits>>

-----------------------------------------------------------------------------
(* Planning: loadDestinationSnapshotForDryRun, then the bundle. *)

\* PORTAL_DRYRUN_LIVE_DEST=0: the plan is made against an empty destination.
PlanOffline(j) ==
  /\ at[j] = "new" /\ env.offline
  /\ Freeze(j, NoSnapshot, "OFFLINE_EXPLICIT")
  /\ Goto(j, "awaiting")
  /\ UNCHANGED <<rows, contract, env, seen, todo, lock, edits, deploys>>

OpenAdmin(j) ==
  /\ at[j] = "new" /\ ~env.offline
  /\ Goto(j, "listing")
  /\ UNCHANGED <<rows, contract, env, bundle, seen, todo, lock, edits, deploys>>

\* adapter.listCategories
ReadCategories(j, from, to) ==
  /\ at[j] = from
  /\ seen' = [seen EXCEPT ![j] = [cats |-> View("category"), products |-> {}]]
  /\ Goto(j, to)
  /\ UNCHANGED <<rows, contract, env, bundle, todo, lock, edits, deploys>>

\* What loadRealDestinationSnapshot returns once the products are listed.
Loaded(j) == [seen[j] EXCEPT !.products = View("product")]

PlanLive(j) ==
  /\ at[j] = "planning"
  /\ seen' = [seen EXCEPT ![j] = Loaded(j)]
  /\ Freeze(j, Loaded(j), "LIVE_COMPLETE")
  /\ Goto(j, "awaiting")
  /\ UNCHANGED <<rows, contract, env, todo, lock, edits, deploys>>

\* Login, a read or the time limit fails: a snapshot that is not LIVE_COMPLETE
\* is never planned against.
PlanFails(j) ==
  /\ at[j] \in {"listing", "planning"}
  /\ Goto(j, "failed")
  /\ UNCHANGED <<rows, contract, env, bundle, seen, todo, lock, edits, deploys>>

-----------------------------------------------------------------------------
(* Live execution. *)

\* Mutant of Validates: the provenance of the plan is not asked for.
ValidatesAnySource(b, snapshot) ==
  b.productionSha = env.sha /\ b.snapshot = snapshot

\* validateExecutionBundle.  (The hash of the operations is that of the frozen
\* operations, and nobody passes a hash of the target menu.)
Validates(b, snapshot) ==
  b.status = "LIVE_COMPLETE" /\ b.productionSha = env.sha /\ b.snapshot = snapshot

\* Mutant of TakesLock: the holder is not looked at.
TakesLockHeld(j) == lock' = j

\* acquireDestinationWriteLock
TakesLock(j) == lock = Nobody /\ lock' = j

\* The operator approves and the gate is open: the live worker takes the lock
\* and compares the bundle with its own snapshot.  Without the lock the job
\* awaits approval again.
Approve(j) ==
  /\ at[j] = "awaiting" /\ ~env.killed
  /\ IF Validates(bundle[j], bundle[j].snapshot)
     THEN TakesLock(j) /\ Goto(j, "login")
     ELSE lock = Nobody /\ UNCHANGED lock /\ Goto(j, "failed")
  /\ UNCHANGED <<rows, contract, env, bundle, seen, todo, edits, deploys>>

\* adminLogin and probeAdminContract: the probe says whether the pages have
\* drifted, but only its authentication is looked at.
Login(j) ==
  /\ at[j] = "login" /\ Goto(j, "checking")
  /\ UNCHANGED <<rows, contract, env, bundle, seen, todo, lock, edits, deploys>>

\* Mutant of Fresh: the bundle is compared with its own snapshot again.
FreshByItself(j) == Validates(bundle[j], bundle[j].snapshot)

\* The freshness check and evaluatePreWriteGate, which compares the same and
\* the contract fingerprint, "observed" as a constant of the program.
Fresh(j) == Validates(bundle[j], Loaded(j))

Release(j) == lock' = IF lock = j THEN Nobody ELSE lock

Compare(j) ==
  /\ at[j] = "comparing"
  /\ seen' = [seen EXCEPT ![j] = Loaded(j)]
  /\ IF Fresh(j)
     THEN /\ todo' = [todo EXCEPT ![j] = bundle[j].operations]
          /\ Goto(j, "writing") /\ UNCHANGED lock
     ELSE Goto(j, "failed") /\ Release(j) /\ UNCHANGED todo
  /\ UNCHANGED <<rows, contract, env, bundle, edits, deploys>>

\* Mutant of Write: an operation that did not get through is left to be done.
WriteUntilDone(j) ==
  /\ at[j] = "writing"
  /\ \E e \in todo[j] :
       /\ e.kind = "product" => ~\E c \in todo[j] : c.kind = "category"
       /\ \/ /\ ~Listed(e.kind, e.name)
             /\ e.kind = "product" => Listed("category", CatOf[e.name])
             /\ AddRow(e.kind, e.name, j)
             /\ todo' = [todo EXCEPT ![j] = @ \ {e}]
          \/ UNCHANGED <<rows, todo>>
  /\ UNCHANGED <<contract, env, at, bundle, seen, lock, edits, deploys>>

\* One operation of executeMigrationPlan (MigrationExecutor has its steps):
\* categories come before their products, and a create is submitted only if
\* nothing of that name or number is listed and the category is there.
Write(j) ==
  /\ at[j] = "writing"
  /\ \E e \in todo[j] :
       /\ e.kind = "product" => ~\E c \in todo[j] : c.kind = "category"
       /\ todo' = [todo EXCEPT ![j] = @ \ {e}]
       /\ \/ /\ ~Listed(e.kind, e.name)
             /\ e.kind = "product" => Listed("category", CatOf[e.name])
             /\ AddRow(e.kind, e.name, j)
          \/ UNCHANGED rows
  /\ UNCHANGED <<contract, env, at, bundle, seen, lock, edits, deploys>>

\* The lock is given back in a finally clause.
Finish(j) ==
  /\ at[j] = "writing" /\ todo[j] = {}
  /\ Goto(j, "done") /\ Release(j)
  /\ UNCHANGED <<rows, contract, env, bundle, seen, todo, edits, deploys>>

LiveFails(j) ==
  /\ at[j] \in Live
  /\ Goto(j, "failed") /\ Release(j)
  /\ UNCHANGED <<rows, contract, env, bundle, seen, todo, edits, deploys>>

LiveStep(j) ==
  Login(j) \/ ReadCategories(j, "checking", "comparing") \/ Compare(j)
    \/ Write(j) \/ Finish(j)
PlanStep(j) ==
  PlanOffline(j) \/ OpenAdmin(j) \/ ReadCategories(j, "listing", "planning")
    \/ PlanLive(j) \/ PlanFails(j)

Next ==
  \/ Edit \/ Drift \/ Redeploy
  \/ \E j \in Jobs : PlanStep(j) \/ Approve(j) \/ LiveStep(j) \/ LiveFails(j)

Spec == Init /\ [][Next]_vars
\* Each await of the live worker has a time limit, so its next step is taken.
FairSpec == Spec /\ \A j \in Jobs : WF_vars(LiveStep(j))

-----------------------------------------------------------------------------
(* What the bundle promises. *)

BundleTypeOK ==
  /\ rows \in Seq(Row) /\ contract \in {"certified", "drifted"}
  /\ env \in [sha : Nat, offline : BOOLEAN, killed : BOOLEAN]
  /\ at \in [Jobs -> Places]
  /\ bundle \in [Jobs -> Bundle] /\ seen \in [Jobs -> Snapshot]
  /\ todo \in [Jobs -> SUBSET Entry]
  /\ lock \in Jobs \cup {Nobody}
  /\ edits \in Nat /\ deploys \in Nat

\* While a job writes, whatever other jobs have put at the destination is known
\* to its plan: two plans made of one state of the destination are never both
\* written, whoever was approved first and whatever was deleted in between.
KnownGround ==
  \A j \in Jobs : at[j] = "writing" =>
    \A i \in DOMAIN rows :
      ~rows[i].gone /\ rows[i].kind = "product" /\ rows[i].by \notin {j, Nobody} =>
        \E n \in Items : <<i, n>> \in bundle[j].snapshot.products

\* A plan made without looking at the destination is never written, even when
\* the destination is as empty as that plan took it to be.
OfflineNeverWrites ==
  \A j \in Jobs, i \in DOMAIN rows :
    rows[i].by = j => bundle[j].status = "LIVE_COMPLETE"

\* When a job begins to write, no product it is going to create is listed, and
\* every product its plan took to be there still is.
PremisesHold ==
  [][\A j \in Jobs : at[j] # "writing" /\ at'[j] = "writing" =>
       /\ \A e \in bundle[j].operations :
            e.kind = "product" => ~Listed("product", e.name)
       /\ \A n \in Want[j] :
            [kind |-> "product", name |-> n] \notin bundle[j].operations
              => Listed("product", n)]_vars

\* A live execution comes to an end.
LiveEnds == \A j \in Jobs : (at[j] \in Live) ~> (at[j] \notin Live)

\* preWriteGate.ts: "Evidence-based mutation gate. Never pass hostOk/contractMatch
\* as assumptions."  No job begins to write to admin pages that have drifted.
DriftIsRefused ==
  [][\A j \in Jobs : at[j] # "writing" /\ at'[j] = "writing" =>
       contract = "certified"]_vars
=============================================================================
