-------------------------- MODULE MigrationExecutor --------------------------
(***************************************************************************)
(* executeMigrationPlan (runner/executor.ts) run against the Playwright     *)
(* destination port (runner/tahDestinationPort.ts), with its SQLite         *)
(* operation records (runs/sqliteStore.ts) and the TAH admin it writes to.  *)
(*                                                                         *)
(* Every await of the code is a step boundary: a label of pc names the      *)
(* awaited call that comes next, and an action is what runs from the answer *)
(* of that call to the next await.  Between two steps the process may stop  *)
(* (a crash, or an exception that leaves executeMigrationPlan) and a create *)
(* or update request that was left in flight may land.                      *)
(*                                                                         *)
(* Data that is abstracted: a database id is the position of the product in *)
(* the order of insertion, a category is its name, and all the fields       *)
(* verifyProductFields compares besides number, name and category are one   *)
(* value, "exact" or "other": equal to the planned payload or not.          *)
(***************************************************************************)
EXTENDS Integers, Sequences, FiniteSets

CONSTANTS
  Plan,               \* the frozen operations of the MigrationWritePlan
  Dest0,              \* products at the destination before the first run
  Cats0,              \* category name -> number of categories of that name
  Workflow,           \* "CREATE_MENU" or "QA_RECONCILE"
  MaxCreateAttempts,  \* input.maxCreateAttempts ?? 2
  MaxRuns,            \* bound: calls of executeMigrationPlan
  MaxLate             \* bound: requests that outlive their timeout

Ops      == DOMAIN Plan
CatNames == DOMAIN Cats0
Contents == {"exact", "other"}
NoId     == 0         \* null in the code

\* The planned operations: a WritePlanOperation with its identity and payload.
\* pending says that the category is a "__resolve__:Name" token.
Operation == [entity : {"product", "category"},
              action : {"CREATE", "UPDATE", "SKIP", "BLOCK", "REVIEW"},
              num : Nat, name : STRING, cat : CatNames,
              pending : BOOLEAN, target : Nat]

\* A DestinationProduct.  NoCat is the empty categoryIds of a row whose edit
\* form could not be read.
NoCat   == "no category"
Product == [num : Nat, name : STRING, cat : CatNames \cup {NoCat},
            content : Contents]

Creates  == {i \in Ops : Plan[i].action = "CREATE"}
Products == {i \in Creates : Plan[i].entity = "product"}
Updates  == {i \in Ops : Plan[i].action = "UPDATE"}

PlanAssumption ==
  /\ Plan \in Seq(Operation)
  /\ Dest0 \in Seq(Product)
  /\ Cats0 \in [CatNames -> Nat]
  /\ NoCat \notin CatNames
  /\ Workflow \in {"CREATE_MENU", "QA_RECONCILE"}
  /\ MaxCreateAttempts \in Nat /\ MaxRuns \in Nat /\ MaxLate \in Nat
ASSUME PlanIsTyped == PlanAssumption

\* preflightCreateWrites (planning/createPreflight.ts) turns every product
\* that breaks one of these into a BLOCK operation before a plan is frozen: two
\* CREATEs never share a menu number, and no product listed at the destination
\* has the number of a CREATE.  A name at the destination is reported there but
\* does not block, so Dest0 may hold the name of a CREATE.  An UPDATE carries
\* the database id of the one live row it was matched with, and only the
\* dry-run of a QA_RECONCILE job emits any.  Two of them name one row only in a
\* menu built from the live one that has names twice, and a menu with a name
\* twice (NO_DUPLICATE_PRODUCTS in intelligence/qualityContract.ts) is for
\* review, not for writing.
Preflighted ==
  /\ \A i, j \in Products : Plan[i].num = Plan[j].num => i = j
  /\ \A i \in Products, d \in DOMAIN Dest0 : Dest0[d].num # Plan[i].num
  /\ \A i \in Creates : Plan[i].target = NoId
  /\ \A i \in Updates : Plan[i].target \in 0 .. Len(Dest0)
  /\ \A i, j \in Updates :
       Plan[i].target = Plan[j].target /\ Plan[i].target # NoId => i = j
  /\ Workflow = "CREATE_MENU" => Updates = {}
ASSUME PreflightPassed == Preflighted

VARIABLES
  rec,          \* RunStore.operations: survives a stop of the process
  runStatus,    \* RunStore.runs.status: survives as well
  dest, cats,   \* the destination's products and categories
  late,         \* how many requests of an operation are still in flight
  catalog,      \* the port's cached crawl: id -> product, empty = not loaded
  sourceIdMap,  \* the port's sourceId -> database id
  pc, cur,      \* the next await, and the operation the loop is at
  databaseId,   \* processCreateOp: the row it is about to read back
  circuit,      \* createCircuitBreaker: tripped
  trouble,      \* failed + blocked > 0 in this run
  runs,         \* runs started (bound)
  sent,         \* history: requests submitted per operation
  overwritten   \* history: the UPDATEs of which a late request was stored

store == <<rec, runStatus>>
world == <<dest, cats, late>>
port  == <<catalog, sourceIdMap>>
vars  == <<rec, runStatus, dest, cats, late, catalog, sourceIdMap,
           pc, cur, databaseId, circuit, trouble, runs, sent, overwritten>>

OpStates == {"NONE", "PENDING_WRITE", "WRITTEN", "READ_BACK", "VERIFIED",
             "BLOCKED", "WRITE_FAILED", "VERIFY_FAILED"}
RunStates == {"NONE", "RUNNING", "COMPLETED", "COMPLETED_WITH_ERRORS",
              "PARTIAL_WRITE", "LIVE_EXECUTION_FAILED"}
Labels == {"off", "loop",
           "listCategories", "createCategory", "categoryReadBack",
           "updateProduct", "updated", "updateFailed", "readUpdated",
           "compareUpdated",
           "resolveCategory", "findByIdentity", "findAgain", "listBefore",
           "clickSkab", "listAfterOk", "listAfterError",
           "findAfterFail", "findAfterReject", "readProduct"}

\* An OperationRecord: sys is lastErrorMessage naming
\* NOT_ATTEMPTED_SYSTEMIC_BLOCK.
OpRecord == [state : OpStates, did : Nat, att : Nat, sys : BOOLEAN]

op      == Plan[cur]
current == rec[cur]

-----------------------------------------------------------------------------
(* The destination and the port's view of it. *)

Newborn(i, c) ==
  [num |-> Plan[i].num, name |-> Plan[i].name, cat |-> Plan[i].cat,
   content |-> c]

\* What storing the edit form of UPDATE i makes of a row: every field but the
\* menu number, which updateProductViaOpdater does not fill.
Rewritten(i, row, c) == [Newborn(i, c) EXCEPT !.num = row.num]

\* compareProductExact(expected, actual) finds no difference.
Matches(i, p) == p = Newborn(i, "exact")

\* Mutant of Unread: fields that were not read count as equal.
UnreadTrusted(p) == [p EXCEPT !.content = "exact"]

\* The row refreshCatalogFromList keeps when reading the edit form throws.
Unread(p) == [p EXCEPT !.cat = NoCat, !.content = "other"]

\* refreshCatalogFromList: the whole list, where any form read may have failed.
Crawls ==
  {[d \in DOMAIN dest |-> IF d \in bad THEN Unread(dest[d]) ELSE dest[d]] :
     bad \in SUBSET DOMAIN dest}

\* What a call that needs the catalog sees: the cache if it holds anything.
Views == IF DOMAIN catalog = {} THEN Crawls ELSE {catalog}

\* matchDestinationByEvidence.  planCreateProduct puts no category hint into the
\* identity of a CREATE, so rows of any category match, and a row whose form
\* could not be read matches like any other.
Evidence(view, i) ==
  {d \in DOMAIN view : view[d].num = Plan[i].num /\ view[d].name = Plan[i].name}

\* resolveDestinationIdentity: {} is NONE, one id is FOUND, more is AMBIGUOUS.
\* (No product of this port carries a sourceId of its own.)
Candidates(view, i, known) ==
  IF known \in DOMAIN view THEN {known}
  ELSE IF sourceIdMap[i] \in DOMAIN view THEN {sourceIdMap[i]}
  ELSE Evidence(view, i)

\* Rows createHiddenProduct takes for the product it has just submitted.
RowsOf(i) ==
  {d \in DOMAIN dest : dest[d].num = Plan[i].num \/ dest[d].name = Plan[i].name}

Ambiguous(S) == \E a, b \in S : a # b

-----------------------------------------------------------------------------
(* Steps of the loop and of one operation's bookkeeping. *)

Memoryless ==
  /\ pc' = "off" /\ cur' = 1 /\ databaseId' = NoId
  /\ circuit' = FALSE /\ trouble' = FALSE
  /\ catalog' = <<>> /\ sourceIdMap' = [i \in Ops |-> NoId]

Save(r)     == rec' = [rec EXCEPT ![cur] = r]
NextOp      == pc' = "loop" /\ cur' = cur + 1 /\ databaseId' = NoId
Goto(label) == pc' = label /\ UNCHANGED <<cur, databaseId>>
ReadBack(d) == pc' = "readProduct" /\ UNCHANGED cur /\ databaseId' = d

\* store.upsertOperation with a final state, then back to the loop.
Settle(r) == Save(r) /\ NextOp
\* onFailed / onBlocked
SettleBad(r) == Settle(r) /\ trouble' = TRUE

Bad(state, att) == [current EXCEPT !.state = state, !.att = att, !.sys = FALSE]

Init ==
  /\ rec = [i \in Ops |-> [state |-> "NONE", did |-> NoId, att |-> 0,
                           sys |-> FALSE]]
  /\ runStatus = "NONE"
  /\ dest = Dest0 /\ cats = Cats0
  /\ late = [i \in Ops |-> 0]
  /\ catalog = <<>> /\ sourceIdMap = [i \in Ops |-> NoId]
  /\ pc = "off" /\ cur = 1 /\ databaseId = NoId
  /\ circuit = FALSE /\ trouble = FALSE
  /\ runs = 0
  /\ sent = [i \in Ops |-> 0] /\ overwritten = {}

\* The record a first start seeds for an operation.
Seeded(i) ==
  [state |-> CASE Plan[i].action = "SKIP" -> "VERIFIED"
               [] Plan[i].action \in {"BLOCK", "REVIEW"} -> "BLOCKED"
               [] OTHER -> "PENDING_WRITE",
   did |-> Plan[i].target, att |-> 0, sys |-> FALSE]

\* Mutant of Start: every run seeds its records anew.
StartReseeded ==
  /\ pc = "off" /\ runs < MaxRuns
  /\ runs' = runs + 1
  /\ runStatus' = "RUNNING"
  /\ rec' = [i \in Ops |-> Seeded(i)]
  /\ pc' = "loop" /\ cur' = 1
  /\ UNCHANGED <<world, port, databaseId, circuit, trouble, sent,
                 overwritten>>

\* executeMigrationPlan up to the loop, its gate open (gates that are closed
\* throw before anything is stored).
Start ==
  /\ pc = "off" /\ runs < MaxRuns
  /\ runs' = runs + 1
  /\ runStatus' = "RUNNING"
  /\ rec' = [i \in Ops |-> IF rec[i].state = "NONE" THEN Seeded(i) ELSE rec[i]]
  /\ pc' = "loop" /\ cur' = 1
  /\ UNCHANGED <<world, port, databaseId, circuit, trouble, sent,
                 overwritten>>

AtOp == pc = "loop" /\ cur \in Ops

\* Mutant of SystemicBlock: only operations never tried are held back.
SystemicBlockFresh ==
  circuit /\ current.state = "PENDING_WRITE" /\ current.att = 0
    /\ op.action = "CREATE"

\* The tripped breaker comes first: it covers every CREATE not yet verified.
SystemicBlock == circuit /\ current.state # "VERIFIED" /\ op.action = "CREATE"

BlockRemaining ==
  /\ AtOp /\ SystemicBlock
  /\ SettleBad([current EXCEPT !.state = "BLOCKED", !.sys = TRUE])
  /\ UNCHANGED <<runStatus, world, port, circuit, runs, sent, overwritten>>

\* Mutant of SkipDone: the loop does not go on.
SkipHere ==
  /\ AtOp /\ ~SystemicBlock
  /\ op.action = "SKIP" \/ current.state = "VERIFIED"
  /\ Save([current EXCEPT !.state = "VERIFIED"]) /\ Goto("loop")
  /\ UNCHANGED <<runStatus, world, port, circuit, trouble, runs, sent,
                 overwritten>>

SkipDone ==
  /\ AtOp /\ ~SystemicBlock
  /\ op.action = "SKIP" \/ current.state = "VERIFIED"
  /\ Settle([current EXCEPT !.state = "VERIFIED"])
  /\ UNCHANGED <<runStatus, world, port, circuit, trouble, runs, sent,
                 overwritten>>

KeepBlocked ==
  /\ AtOp /\ op.action \in {"BLOCK", "REVIEW"}
  /\ SettleBad(Bad("BLOCKED", current.att))
  /\ UNCHANGED <<runStatus, world, port, circuit, runs, sent, overwritten>>

\* Mutant of BeginCreate: VERIFIED is not looked at.
BeginCreateAgain ==
  /\ AtOp /\ ~SystemicBlock /\ op.action = "CREATE"
  /\ Goto(IF op.entity = "category" THEN "listCategories"
          ELSE "resolveCategory")
  /\ UNCHANGED <<store, world, port, circuit, trouble, runs, sent, overwritten>>

\* Hand the operation to processCategoryCreateOp or processCreateOp.
BeginCreate ==
  /\ AtOp /\ ~SystemicBlock
  /\ op.action = "CREATE" /\ current.state # "VERIFIED"
  /\ Goto(IF op.entity = "category" THEN "listCategories"
          ELSE "resolveCategory")
  /\ UNCHANGED <<store, world, port, circuit, trouble, runs, sent, overwritten>>

\* processUpdateOp until its first await: without an id there is nothing to do.
UpdateTarget == IF op.target # NoId THEN op.target ELSE current.did

BeginUpdate ==
  /\ AtOp /\ op.action = "UPDATE" /\ current.state # "VERIFIED"
  /\ IF UpdateTarget = NoId
     THEN SettleBad(Bad("BLOCKED", current.att))
     ELSE Goto("updateProduct") /\ UNCHANGED <<rec, trouble>>
  /\ UNCHANGED <<runStatus, world, port, circuit, runs, sent, overwritten>>

\* Mutant of FinalStatus: a product that was written counts.
FinalStatusWritten ==
  IF Products # {} /\ \A i \in Creates :
       rec[i].state \in {"VERIFIED", "VERIFY_FAILED"}
  THEN "COMPLETED" ELSE "PARTIAL_WRITE"

\* After the loop: the run's status, from the records of its CREATE operations.
FinalStatus ==
  IF Workflow = "CREATE_MENU"
  THEN IF Products # {} /\ \A i \in Creates : rec[i].state = "VERIFIED"
       THEN "COMPLETED"
       ELSE IF \E i \in Creates : rec[i].state = "VERIFIED"
            THEN "PARTIAL_WRITE" ELSE "LIVE_EXECUTION_FAILED"
  ELSE IF trouble THEN "COMPLETED_WITH_ERRORS" ELSE "COMPLETED"

Finish ==
  /\ pc = "loop" /\ cur \notin Ops
  /\ runStatus' = FinalStatus
  /\ Memoryless
  /\ UNCHANGED <<rec, world, runs, sent, overwritten>>

-----------------------------------------------------------------------------
(* processCategoryCreateOp *)

Exists(c) == cats[c] > 0

ListCategories ==
  /\ pc = "listCategories"
  /\ \/ /\ Exists(op.cat)
        /\ Settle([current EXCEPT !.state = "VERIFIED"])
     \/ /\ ~Exists(op.cat)
        /\ Goto("createCategory") /\ UNCHANGED rec
  /\ UNCHANGED <<runStatus, world, port, circuit, trouble, runs, sent,
                 overwritten>>

\* adapter.createCategory: it lists once more, then submits; either may throw.
\* The request is stored or not whatever was observed of it, or it is still in
\* flight.
CreateCategory ==
  /\ pc = "createCategory"
  /\ \/ /\ Exists(op.cat)
        /\ Settle([current EXCEPT !.state = "VERIFIED"])
        /\ UNCHANGED <<world, trouble, sent>>
     \/ /\ SettleBad(Bad("WRITE_FAILED", current.att))
        /\ UNCHANGED <<world, sent>>
     \/ /\ ~Exists(op.cat)
        /\ sent' = [sent EXCEPT ![cur] = @ + 1]
        /\ UNCHANGED dest
        /\ \/ cats' = [cats EXCEPT ![op.cat] = @ + 1] /\ UNCHANGED late
           \/ UNCHANGED <<cats, late>>
           \/ /\ \A i \in Ops : late[i] < MaxLate
              /\ late' = [late EXCEPT ![cur] = @ + 1] /\ UNCHANGED cats
        /\ \/ Goto("categoryReadBack") /\ UNCHANGED <<rec, trouble>>
           \/ SettleBad(Bad("WRITE_FAILED", current.att))
  /\ UNCHANGED <<runStatus, port, circuit, runs, overwritten>>

\* createCategory lists the categories again before it returns the id (of a
\* category nothing but its name is modelled).
CategoryReadBack ==
  /\ pc = "categoryReadBack"
  /\ \/ /\ Exists(op.cat)
        /\ Settle([current EXCEPT !.state = "VERIFIED"])
        /\ UNCHANGED trouble
     \/ SettleBad(Bad("WRITE_FAILED", current.att))
  /\ UNCHANGED <<runStatus, world, port, circuit, runs, sent, overwritten>>

-----------------------------------------------------------------------------
(* processUpdateOp *)

\* updateProductViaOpdater: the label gate or the form may fail before anything
\* is submitted.  Of a submitted form, what the server does (now, never or when
\* nobody waits any more) and what the browser sees are independent: without a
\* response clickOpdaterAndObserveUpdate reports status -1, which is below 400.
UpdateProduct ==
  /\ pc = "updateProduct"
  /\ \/ Goto("updateFailed") /\ UNCHANGED <<dest, late, sent>>
     \/ /\ sent' = [sent EXCEPT ![cur] = @ + 1]
        /\ \/ \E c \in Contents :
                dest' = [dest EXCEPT ![UpdateTarget] = Rewritten(cur, @, c)]
                /\ UNCHANGED late
           \/ UNCHANGED <<dest, late>>
           \/ /\ \A i \in Ops : late[i] < MaxLate
              /\ late' = [late EXCEPT ![cur] = @ + 1] /\ UNCHANGED dest
        /\ \E seen \in {"updated", "updateFailed"} : Goto(seen)
  /\ UNCHANGED <<store, cats, port, circuit, trouble, runs, overwritten>>

\* Mutant of UpdateAnswered: the catalog is not cleared.
UpdateAnsweredStale ==
  /\ pc = "updated"
  /\ Save([current EXCEPT !.state = "WRITTEN", !.att = @ + 1,
                          !.did = UpdateTarget])
  /\ Goto("readUpdated")
  /\ UNCHANGED <<runStatus, world, port, circuit, trouble, runs, sent,
                 overwritten>>

\* UPDATED: only success clears the catalog.
UpdateAnswered ==
  /\ pc = "updated"
  /\ catalog' = <<>>
  /\ Save([current EXCEPT !.state = "WRITTEN", !.att = @ + 1,
                          !.did = UpdateTarget])
  /\ Goto("readUpdated")
  /\ UNCHANGED <<runStatus, world, sourceIdMap, circuit, trouble, runs, sent,
                 overwritten>>

\* FAILED says nothing about what was stored.
UpdateFailed ==
  /\ pc = "updateFailed"
  /\ SettleBad([Bad("WRITE_FAILED", current.att + 1)
                  EXCEPT !.did = UpdateTarget])
  /\ UNCHANGED <<runStatus, world, port, circuit, runs, sent, overwritten>>

\* readProduct answers from the catalog when the id is in it.
Reading(view, d) == IF d \in DOMAIN view THEN view[d] ELSE dest[d]

\* readProduct of an update: the whole list is crawled, and the rows after the
\* one asked for are still awaited when that one has been read.
ReadUpdated ==
  /\ pc = "readUpdated"
  /\ catalog' \in Views
  /\ Goto("compareUpdated")
  /\ UNCHANGED <<store, world, sourceIdMap, circuit, trouble, runs, sent,
                 overwritten>>

\* compareProductExact, of the row as it was read.
CompareUpdated ==
  /\ pc = "compareUpdated"
  /\ \/ /\ Matches(cur, Reading(catalog, current.did))
        /\ Settle([current EXCEPT !.state = "VERIFIED"])
        /\ UNCHANGED trouble
     \/ /\ ~Matches(cur, Reading(catalog, current.did))
        /\ SettleBad(Bad("VERIFY_FAILED", current.att))
  /\ UNCHANGED <<runStatus, world, port, circuit, runs, sent, overwritten>>

-----------------------------------------------------------------------------
(* processCreateOp *)

\* resolveCategoryIds: a pending token needs the category to be there by now.
ResolveCategory ==
  /\ pc = "resolveCategory"
  /\ \/ /\ op.pending => Exists(op.cat)
        /\ Goto("findByIdentity") /\ UNCHANGED <<rec, trouble>>
     \/ /\ op.pending /\ ~Exists(op.cat)
        /\ SettleBad(Bad("BLOCKED", current.att))
  /\ UNCHANGED <<runStatus, world, port, circuit, runs, sent, overwritten>>

\* The record is WRITTEN with an id, then readProduct is awaited.
Written(d, att) ==
  /\ Save([current EXCEPT !.state = "WRITTEN", !.did = d, !.att = att])
  /\ ReadBack(d)

\* findByIdentity, resolveCreateResume and the attempt budget.
FindByIdentity ==
  /\ pc = "findByIdentity"
  /\ \E view \in Views : LET found == Candidates(view, cur, current.did) IN
       /\ catalog' = view
       /\ \/ /\ Ambiguous(found)
             /\ SettleBad(Bad("BLOCKED", current.att))
          \/ /\ \E d \in found : found = {d} /\ Written(d, current.att)
             /\ UNCHANGED trouble
          \/ /\ found = {} /\ current.state = "WRITTEN"
             /\ SettleBad(Bad("BLOCKED", current.att))
          \/ /\ found = {} /\ current.state # "WRITTEN"
             /\ current.att >= MaxCreateAttempts
             /\ SettleBad(Bad("WRITE_FAILED", current.att))
          \/ /\ found = {} /\ current.state # "WRITTEN"
             /\ current.att < MaxCreateAttempts
             /\ Goto("findAgain") /\ UNCHANGED <<rec, trouble>>
  /\ UNCHANGED <<runStatus, world, sourceIdMap, circuit, runs, sent,
                 overwritten>>

\* The identity check repeated right before the create.  A row that shows up
\* only now is read back without being stored first.
FindAgain ==
  /\ pc = "findAgain"
  /\ \E view \in Views : LET found == Candidates(view, cur, current.did) IN
       /\ catalog' = view
       /\ \/ /\ Ambiguous(found)
             /\ SettleBad(Bad("BLOCKED", current.att))
          \/ /\ \E d \in found : found = {d} /\ ReadBack(d)
             /\ UNCHANGED <<rec, trouble>>
          \/ /\ found = {}
             /\ Goto("listBefore") /\ UNCHANGED <<rec, trouble>>
  /\ UNCHANGED <<runStatus, world, sourceIdMap, circuit, runs, sent,
                 overwritten>>

\* createHiddenProduct returned CREATED with this id.
Created(d) ==
  /\ sourceIdMap' = [sourceIdMap EXCEPT ![cur] = d]
  /\ Written(d, current.att + 1)

\* The fast path of createHiddenProduct: a row with the menu number is taken
\* for the product.  Listing, the label gate or the form may fail instead.
ListBefore ==
  /\ pc = "listBefore"
  /\ LET rows == {d \in DOMAIN dest : dest[d].num = op.num} IN
       \/ \E d \in rows : Created(d)
       \/ rows = {} /\ Goto("clickSkab") /\ UNCHANGED <<rec, sourceIdMap>>
       \/ Goto("findAfterFail") /\ UNCHANGED <<rec, sourceIdMap>>
  /\ UNCHANGED <<runStatus, world, catalog, circuit, trouble, runs, sent,
                 overwritten>>

\* Mutant of ClickSkab: an answer that was not seen is a reason to click again.
ClickSkabTwice ==
  /\ pc = "clickSkab" /\ sent[cur] < 2
  /\ sent' = [sent EXCEPT ![cur] = @ + 1]
  /\ dest' = Append(dest, Newborn(cur, "exact")) /\ UNCHANGED late
  /\ \E seen \in {"listAfterOk", "clickSkab"} : Goto(seen)
  /\ UNCHANGED <<store, cats, port, circuit, trouble, runs, overwritten>>

\* clickSkabAndObserveCreate: what the server did with the request and what the
\* browser saw of it are independent.
ClickSkab ==
  /\ pc = "clickSkab"
  /\ sent' = [sent EXCEPT ![cur] = @ + 1]
  /\ \/ \E c \in Contents :
          dest' = Append(dest, Newborn(cur, c)) /\ UNCHANGED late
     \/ UNCHANGED <<dest, late>>
     \/ /\ \A i \in Ops : late[i] < MaxLate
        /\ late' = [late EXCEPT ![cur] = @ + 1] /\ UNCHANGED dest
  /\ \E seen \in {"listAfterOk", "listAfterError", "findAfterFail"} : Goto(seen)
  /\ UNCHANGED <<store, cats, port, circuit, trouble, runs, overwritten>>

\* Status below 400 (or none): the list is read up to three times until a row
\* shows up, and only here a create clears the catalog.  Listing may throw.
ListAfterOk ==
  /\ pc = "listAfterOk"
  /\ \/ /\ \E d \in RowsOf(cur) : Created(d)
        /\ catalog' = <<>>
     \/ Goto("findAfterFail") /\ UNCHANGED <<rec, port>>
  /\ UNCHANGED <<runStatus, world, circuit, trouble, runs, sent, overwritten>>

\* Status 400 or above: a row still means success; otherwise the error is
\* classified, and one that is deterministic trips the breaker.
ListAfterError ==
  /\ pc = "listAfterError"
  /\ \/ /\ \E d \in RowsOf(cur) : Created(d)
        /\ UNCHANGED circuit
     \/ /\ RowsOf(cur) = {}
        /\ Goto("findAfterReject") /\ circuit' = TRUE
        /\ UNCHANGED <<rec, sourceIdMap>>
     \/ Goto("findAfterFail") /\ UNCHANGED <<rec, sourceIdMap, circuit>>
  /\ UNCHANGED <<runStatus, world, catalog, trouble, runs, sent, overwritten>>

\* createHiddenProduct returned FAILED: one more look at the destination
\* decides between reuse, review, giving up and a later retry.
FindAfterFail ==
  /\ pc \in {"findAfterFail", "findAfterReject"}
  /\ LET att == current.att + 1
         giveUp == pc = "findAfterReject" \/ att >= MaxCreateAttempts IN
     \E view \in Views : LET found == Candidates(view, cur, current.did) IN
       /\ catalog' = view
       /\ \/ /\ Ambiguous(found)
             /\ SettleBad(Bad("BLOCKED", att))
          \/ /\ \E d \in found : found = {d} /\ Written(d, att)
             /\ UNCHANGED trouble
          \/ /\ found = {} /\ giveUp
             /\ SettleBad(Bad("WRITE_FAILED", att))
          \/ /\ found = {} /\ ~giveUp
             /\ SettleBad(Bad("PENDING_WRITE", att))
  /\ UNCHANGED <<runStatus, world, sourceIdMap, circuit, runs, sent,
                 overwritten>>

\* Mutant of Verdict: a difference is left for later.
VerdictPending(state, sys) ==
  [current EXCEPT !.state = IF state = "VERIFIED" THEN state ELSE "READ_BACK",
                  !.did = databaseId, !.sys = sys]

\* readProduct and compareProductExact.  READ_BACK is stored, then the verdict.
Verdict(state, sys) ==
  [current EXCEPT !.state = state, !.did = databaseId, !.sys = sys]

ReadProduct ==
  /\ pc = "readProduct"
  /\ \E view \in Views :
       /\ catalog' = view
       /\ \/ /\ Matches(cur, Reading(view, databaseId))
             /\ Settle(Verdict("VERIFIED", FALSE))
             /\ UNCHANGED trouble
          \/ /\ ~Matches(cur, Reading(view, databaseId))
             /\ SettleBad(Verdict("VERIFY_FAILED", FALSE))
  /\ UNCHANGED <<runStatus, world, sourceIdMap, circuit, runs, sent,
                 overwritten>>

\* A process killed between the two writes of ReadProduct leaves READ_BACK.
StopAtReadBack ==
  /\ pc = "readProduct"
  /\ Save(Verdict("READ_BACK", current.sys))
  /\ Memoryless
  /\ UNCHANGED <<runStatus, world, runs, sent, overwritten>>

-----------------------------------------------------------------------------
\* The process dies, or a destination call outside createHiddenProduct throws
\* out of executeMigrationPlan: the run keeps its status RUNNING.
Stop ==
  /\ pc # "off"
  /\ Memoryless
  /\ UNCHANGED <<store, world, runs, sent, overwritten>>

\* The server finishes a request nobody waits for any more.
Land(i) ==
  /\ late[i] > 0
  /\ late' = [late EXCEPT ![i] = @ - 1]
  /\ \/ /\ i \in Products
        /\ \E c \in Contents : dest' = Append(dest, Newborn(i, c))
        /\ UNCHANGED <<cats, overwritten>>
     \/ /\ i \in Creates \ Products
        /\ cats' = [cats EXCEPT ![Plan[i].cat] = @ + 1]
        /\ UNCHANGED <<dest, overwritten>>
     \/ /\ i \in Updates
        /\ \E c \in Contents :
             dest' = [dest EXCEPT ![Plan[i].target] = Rewritten(i, @, c)]
        /\ overwritten' = overwritten \cup {i}
        /\ UNCHANGED cats
  /\ UNCHANGED <<store, port, pc, cur, databaseId, circuit, trouble, runs,
                 sent>>

LoopHead == BlockRemaining \/ SkipDone \/ KeepBlocked \/ BeginCreate
              \/ BeginUpdate \/ Finish
CategoryOp == ListCategories \/ CreateCategory \/ CategoryReadBack
UpdateOp == UpdateProduct \/ UpdateAnswered \/ UpdateFailed \/ ReadUpdated
              \/ CompareUpdated
CreateOp == ResolveCategory \/ FindByIdentity \/ FindAgain \/ ListBefore
              \/ ClickSkab \/ ListAfterOk \/ ListAfterError \/ FindAfterFail
              \/ ReadProduct

\* What the running executor does by itself.
Step == LoopHead \/ CategoryOp \/ UpdateOp \/ CreateOp

Next == Start \/ Step \/ Stop \/ StopAtReadBack \/ \E i \in Ops : Land(i)

Spec == Init /\ [][Next]_vars
\* The executor runs on one thread that nothing holds back: every await has a
\* timeout (10 to 30 seconds), so a step that is possible is taken.
FairSpec == Spec /\ WF_vars(Step)

-----------------------------------------------------------------------------
(* What the executor promises. *)

TypeOK ==
  /\ rec \in [Ops -> OpRecord]
  /\ runStatus \in RunStates
  /\ dest \in Seq(Product) /\ cats \in [CatNames -> Nat]
  /\ late \in [Ops -> Nat]
  /\ DOMAIN catalog \subseteq DOMAIN dest
  /\ catalog \in [DOMAIN catalog -> Product]
  /\ sourceIdMap \in [Ops -> {NoId} \cup DOMAIN dest]
  /\ pc \in Labels /\ cur \in 1 .. Len(Plan) + 1
  /\ databaseId \in {NoId} \cup DOMAIN dest
  /\ circuit \in BOOLEAN /\ trouble \in BOOLEAN
  /\ runs \in Nat /\ sent \in [Ops -> Nat]
  /\ overwritten \subseteq Updates

\* The product that answers for an operation is at the destination and equals
\* the plan in every compared field.
Fulfilled(i) ==
  IF i \in Products \cup Updates
  THEN rec[i].did \in DOMAIN dest /\ Matches(i, dest[rec[i].did])
  ELSE Exists(Plan[i].cat)

\* A late request of an UPDATE, which nothing can call back, may rewrite the row
\* after it was read; until then the plan is fulfilled.
Stands(i) == Fulfilled(i) \/ i \in overwritten

\* VERIFIED is never claimed of a CREATE or UPDATE whose entity is missing or
\* differs from the plan, however the record got there: read back from a cached
\* catalog, adopted by number or name, or found again after a crash.  Only a
\* late request of the same UPDATE can make it untrue.
VerifiedHolds ==
  \A i \in Creates \cup Updates : rec[i].state = "VERIFIED" => Stands(i)

\* However often a plan is run again and wherever earlier runs stopped, no menu
\* number of the plan is at the destination twice and no category was made a
\* second time.
NeverDuplicated ==
  /\ \A i \in Products :
       ~Ambiguous({d \in DOMAIN dest : dest[d].num = Plan[i].num})
  /\ \A c \in CatNames : cats[c] <= 1 \/ cats[c] = Cats0[c]

\* A run that reports COMPLETED left every planned entity at the destination,
\* each CREATE answered by a product of its own.
CompletedMeansComplete ==
  runStatus = "COMPLETED" =>
    /\ \A i \in Creates \cup Updates : Stands(i)
    /\ \A i, j \in Products : rec[i].did = rec[j].did => i = j

\* A run that reached its end left no operation between write and verdict.
NothingHalfDone ==
  runStatus \notin {"NONE", "RUNNING"} =>
    \A i \in Ops : rec[i].state \notin {"NONE", "WRITTEN", "READ_BACK"}

\* A verified operation is never submitted, moved or re-bound again.
VerifiedIsFinal ==
  [][\A i \in Ops : rec[i].state = "VERIFIED" =>
       /\ rec'[i].state = "VERIFIED" /\ rec'[i].did = rec[i].did
       /\ sent'[i] = sent[i]]_vars

\* A create request is submitted only while nothing with the product's menu
\* number is listed at the destination.
NeverRecreate ==
  [][\A i \in Products : sent'[i] # sent[i] =>
       \A d \in DOMAIN dest : dest[d].num # Plan[i].num]_vars

\* After a deterministic rejection the rest of the run submits no create.
BreakerHolds == [][circuit => \A i \in Creates : sent'[i] = sent[i]]_vars

\* The executor keeps the promise of WriteOnce for the products of its plan,
\* when no request outlives its timeout: an entity is what has the product's
\* menu number.
Copies ==
  [i \in Products |->
     Cardinality({d \in DOMAIN dest : dest[d].num = Plan[i].num})]
Confirmed == {i \in Products : rec[i].state = "VERIFIED"}

Promise == INSTANCE WriteOnce WITH
  Entities <- Products, copies <- Copies, confirmed <- Confirmed

WritesOnce == Promise!WriteOnceSpec

\* Every run comes to an end: the loop neither hangs nor goes round.
RunEnds == (pc # "off") ~> (pc = "off")
=============================================================================
