--------------------------- MODULE ExecutorProofs ---------------------------
(***************************************************************************)
(* What the executor promises for every plan, every destination and every   *)
(* number of runs, crashes and late requests: a VERIFIED record is true, it *)
(* is final, a tripped breaker holds, the status a finished run stores is   *)
(* worth what it says, nothing is created twice, and what a recovery plan   *)
(* tells an operator to reuse is there.                                     *)
(*                                                                         *)
(* VerifiedHolds is not inductive.  A record may become VERIFIED on the     *)
(* word of the port's cached crawl, so the crawl must not promise more than *)
(* the destination keeps (CatalogFaithful); a later UPDATE may rewrite the  *)
(* row a record rests on, so no UPDATE may reach the row of another record  *)
(* (RecordsFit, OldRowsKept and what preflight guarantees); and the loop  *)
(* must hand each kind of operation to its own steps (AtLabel).  The later  *)
(* sections add to this invariant what their promise needs: DoneInv what    *)
(* lies behind the loop, DupInv whose numbers are taken and what is under   *)
(* way, BindInv and LookedInv what a record owes to the row it names.       *)
(***************************************************************************)
EXTENDS MigrationExecutor, RecoveryPlan, FiniteSetTheorems, SequenceTheorems, TLAPS

USE DEF NoId

CategoryLabels == {"listCategories", "createCategory", "categoryReadBack"}
UpdateLabels   == {"updateProduct", "updated", "updateFailed", "readUpdated",
                   "compareUpdated"}
CreateLabels   == {"resolveCategory", "findByIdentity", "findAgain",
                   "listBefore", "clickSkab", "listAfterOk", "listAfterError",
                   "findAfterFail", "findAfterReject", "readProduct"}

\* The rows of the beginning stay where they are and keep their numbers.
OldRowsKept ==
  /\ Len(dest) >= Len(Dest0)
  /\ \A d \in DOMAIN Dest0 : dest[d].num = Dest0[d].num

\* A crawl promises nothing of a CREATE that the destination does not keep.
Faithful(view) ==
  /\ DOMAIN view \subseteq DOMAIN dest
  /\ view \in [DOMAIN view -> Product]
  /\ \A d \in DOMAIN view, i \in Products :
       Matches(i, view[d]) => Matches(i, dest[d])

CatalogFaithful == Faithful(catalog)

\* A record names a row of the destination, that of an UPDATE its target, and
\* has one when the UPDATE is VERIFIED; it is VERIFIED only if the destination
\* fulfils the plan, but for the late requests of UPDATEs; and an operation
\* that nobody executes never becomes VERIFIED.
RecordFits(i) ==
  /\ i \in Creates \cup Updates => rec[i].did \in {NoId} \cup DOMAIN dest
  /\ i \in Updates => rec[i].did \in {NoId, Plan[i].target}
  /\ i \in Updates /\ rec[i].state = "VERIFIED" => rec[i].did # NoId
  /\ Plan[i].action \in {"BLOCK", "REVIEW"} => rec[i].state # "VERIFIED"
  /\ i \in Creates \cup Updates /\ rec[i].state = "VERIFIED" => Stands(i)

RecordsFit == \A i \in Ops : RecordFits(i)

\* Which operation each label works on, and what it relies on.
AtLabel ==
  /\ pc \in CategoryLabels => cur \in Creates \ Products
  /\ pc \in UpdateLabels => cur \in Updates /\ Plan[cur].target # NoId
  /\ pc \in CreateLabels => cur \in Products
  /\ pc \notin {"off", "loop"} => rec[cur].state # "VERIFIED"
  /\ pc = "readProduct" => databaseId # NoId
  /\ pc = "readUpdated" => rec[cur].did # NoId /\ catalog = <<>>
  /\ pc = "compareUpdated" =>
       /\ rec[cur].did # NoId
       /\ rec[cur].did \in DOMAIN catalog
            /\ Matches(cur, catalog[rec[cur].did]) => Stands(cur)

\* With the breaker tripped no step before a submission is reached.
BreakerTripped ==
  circuit => pc \in {"loop", "findAfterReject", "readProduct"} \cup UpdateLabels

Inv ==
  /\ TypeOK /\ OldRowsKept /\ CatalogFaithful
  /\ RecordsFit /\ AtLabel /\ BreakerTripped

-----------------------------------------------------------------------------
(* The plan. *)

LEMMA PlanFacts ==
  /\ Ops = 1 .. Len(Plan) /\ Len(Plan) \in Nat
  /\ \A i \in Ops : Plan[i] \in Operation
  /\ Creates \subseteq Ops /\ Products \subseteq Creates
  /\ Updates \subseteq Ops /\ Updates \cap Creates = {}
  /\ DOMAIN Dest0 = 1 .. Len(Dest0) /\ Len(Dest0) \in Nat
  /\ \A i \in Creates \ Products : Plan[i].entity = "category"
<1>1. Plan \in Seq(Operation) /\ Dest0 \in Seq(Product)
  BY PlanIsTyped DEF PlanAssumption
<1>2. /\ Ops = 1 .. Len(Plan) /\ Len(Plan) \in Nat
      /\ DOMAIN Dest0 = 1 .. Len(Dest0) /\ Len(Dest0) \in Nat
      /\ \A i \in Ops : Plan[i] \in Operation
  BY <1>1 DEF Ops
<1>3. \A i \in Ops : Plan[i].entity \in {"product", "category"}
  BY <1>2 DEF Operation
<1> QED BY <1>2, <1>3 DEF Creates, Products, Updates

LEMMA EmptyCatalog == DOMAIN <<>> = {} /\ <<>> \in [DOMAIN <<>> -> Product]
OBVIOUS

\* Counting one up in a table of counters.
LEMMA CountUp ==
  ASSUME NEW S, NEW f \in [S -> Nat], NEW x \in S
  PROVE  /\ [f EXCEPT ![x] = @ + 1] \in [S -> Nat]
         /\ \A y \in S : [f EXCEPT ![x] = @ + 1][y] >= f[y]
OBVIOUS

\* Creating appends a row, so the rows that exist stay as they are.
LEMMA AppendRow ==
  ASSUME NEW s \in Seq(Product), NEW p \in Product
  PROVE  /\ Append(s, p) \in Seq(Product)
         /\ Len(Append(s, p)) = Len(s) + 1
         /\ DOMAIN Append(s, p) = DOMAIN s \cup {Len(s) + 1}
         /\ \A d \in DOMAIN s : Append(s, p)[d] = s[d]
         /\ Append(s, p)[Len(s) + 1] = p
OBVIOUS

\* Updating rewrites one row, if it is there, and keeps its number.
LEMMA RewriteRow ==
  ASSUME NEW s \in Seq(Product), NEW t, NEW p,
         t \in DOMAIN s => p \in Product /\ p.num = s[t].num,
         NEW u, u = [s EXCEPT ![t] = p]
  PROVE  /\ u \in Seq(Product)
         /\ DOMAIN u = DOMAIN s /\ Len(u) = Len(s)
         /\ \A d \in DOMAIN s : d # t => u[d] = s[d]
         /\ \A d \in DOMAIN s : u[d].num = s[d].num
<1>1. CASE t \in DOMAIN s
  <2>1. u \in Seq(Product) /\ Len(u) = Len(s)
    BY <1>1, ExceptSeq
  <2>2. DOMAIN u = DOMAIN s /\ u[t] = p
        /\ \A d \in DOMAIN s : d # t => u[d] = s[d]
    BY <1>1
  <2> QED BY <1>1, <2>1, <2>2
<1>2. CASE t \notin DOMAIN s
  <2>1. s = [d \in DOMAIN s |-> s[d]]
    OBVIOUS
  <2>2. u = [d \in DOMAIN s |-> s[d]]
    BY <1>2
  <2> QED BY <2>1, <2>2
<1> QED BY <1>1, <1>2

\* Every crawl, and so every view of a step, is faithful.
LEMMA ViewsFaithful ==
  ASSUME Inv, NEW view \in Views
  PROVE  Faithful(view)
<1>1. CASE view = catalog
  BY <1>1 DEF Inv, CatalogFaithful
<1>2. CASE view \in Crawls
  <2>1. PICK bad \in SUBSET DOMAIN dest :
          view = [d \in DOMAIN dest |->
                    IF d \in bad THEN Unread(dest[d]) ELSE dest[d]]
    BY <1>2 DEF Crawls
  <2>2. ASSUME NEW d \in DOMAIN dest
        PROVE  dest[d] \in Product /\ Unread(dest[d]) \in Product
    <3>1. dest[d] \in Product
      BY DEF Inv, TypeOK
    <3> QED BY <3>1 DEF Product, Unread, Contents
  <2>3. \A d \in DOMAIN dest, i \in Products : ~Matches(i, Unread(dest[d]))
    BY <2>2, PlanFacts DEF Matches, Newborn, Unread, Product
  <2> QED BY <2>1, <2>2, <2>3 DEF Faithful
<1> QED BY <1>1, <1>2 DEF Views

\* A fresh crawl shows a row as planned only where it is.
LEMMA CrawlMatches ==
  ASSUME Inv, catalog = <<>>, NEW view \in Views, NEW d \in DOMAIN dest,
         NEW i \in Ops, Matches(i, view[d])
  PROVE  Matches(i, dest[d])
<1>1. PICK bad \in SUBSET DOMAIN dest :
        view = [e \in DOMAIN dest |->
                  IF e \in bad THEN Unread(dest[e]) ELSE dest[e]]
  BY EmptyCatalog DEF Crawls, Views
<1>2. dest[d] \in Product
  BY DEF Inv, TypeOK
<1>3. d \notin bad
  BY <1>1, <1>2 DEF Unread, Product, Matches, Newborn
<1> QED BY <1>1, <1>3

LEMMA CandidatesSeen ==
  \A view, i, known : Candidates(view, i, known) \subseteq DOMAIN view
BY DEF Candidates, Evidence

-----------------------------------------------------------------------------
(* What most steps have in common: they work on the record of one operation, *)
(* and what they do to the destination takes nothing away.                   *)

Surroundings ==
  /\ dest' \in Seq(Product) /\ cats' \in [CatNames -> Nat]
  /\ DOMAIN dest \subseteq DOMAIN dest'
  /\ \A d \in DOMAIN dest : dest'[d] = dest[d]
  /\ \A c \in CatNames : cats[c] > 0 => cats'[c] > 0
  /\ Faithful(catalog')
  /\ sourceIdMap' \in [Ops -> {NoId} \cup DOMAIN dest']
  /\ late' \in [Ops -> Nat] /\ sent' \in [Ops -> Nat] /\ runs' \in Nat
  /\ overwritten' = overwritten
  /\ runStatus' \in RunStates /\ trouble' \in BOOLEAN /\ circuit' \in BOOLEAN

LEMMA NothingAround ==
  ASSUME Inv, UNCHANGED <<runStatus, world, sourceIdMap, runs, sent, overwritten>>,
         catalog' \in Views \cup {catalog, <<>>},
         trouble' \in BOOLEAN, circuit' \in BOOLEAN
  PROVE  Surroundings
<1>1. Faithful(<<>>)
  BY EmptyCatalog DEF Faithful
<1>2. Faithful(catalog')
  BY <1>1, ViewsFaithful DEF Inv, CatalogFaithful
<1> QED BY <1>2 DEF Inv, TypeOK, Surroundings, world

LEMMA StepKeepsInv ==
  ASSUME Inv, Surroundings,
         rec' \in [Ops -> OpRecord],
         \A i \in Ops : rec'[i] = rec[i] \/ RecordFits(i)',
         pc' \in Labels, cur' \in 1 .. Len(Plan) + 1,
         databaseId' \in {NoId} \cup DOMAIN dest',
         AtLabel', BreakerTripped'
  PROVE  Inv'
<1>1. DOMAIN dest = 1 .. Len(dest) /\ Len(dest) \in Nat
      /\ DOMAIN dest' = 1 .. Len(dest') /\ Len(dest') \in Nat
  BY DEF Inv, TypeOK, Surroundings
<1>2. Len(dest') >= Len(dest)
  <2> SUFFICES ASSUME Len(dest) > 0 PROVE Len(dest') >= Len(dest)
    BY <1>1
  <2>1. Len(dest) \in DOMAIN dest
    BY <1>1
  <2>2. Len(dest) \in 1 .. Len(dest')
    BY <2>1, <1>1 DEF Surroundings
  <2> QED BY <2>2, <1>1
<1>3. OldRowsKept'
  BY <1>1, <1>2, PlanFacts DEF Inv, OldRowsKept, Surroundings
<1>4. Faithful(catalog)'
  BY DEF Faithful, Surroundings, Matches, Newborn
<1>5. TypeOK'
  BY <1>4 DEF Inv, TypeOK, Surroundings, Faithful
<1>6. ASSUME NEW i \in Ops, rec'[i] = rec[i] PROVE RecordFits(i)'
  <2>1. RecordFits(i) /\ rec'[i] = rec[i]
    BY <1>6 DEF Inv, RecordsFit
  <2>2. i \in Creates \cup Updates /\ Stands(i) => Stands(i)'
    <3>1. Plan[i].cat \in CatNames
      BY PlanFacts DEF Operation
    <3> QED BY <2>1, <3>1
      DEF Stands, Fulfilled, Surroundings, Matches, Newborn, Exists
  <2> QED BY <2>1, <2>2 DEF RecordFits, Surroundings
<1> QED BY <1>3, <1>4, <1>5, <1>6 DEF Inv, CatalogFaithful, RecordsFit

\* The operation is settled with a record that fits.
LEMMA SettleKeepsInv ==
  ASSUME Inv, NEW k \in Ops, k = cur, Surroundings,
         NEW r \in OpRecord, Settle(r), RecordFits(k)'
  PROVE  Inv'
<1>1. /\ rec' \in [Ops -> OpRecord]
      /\ \A i \in Ops : i # cur => rec'[i] = rec[i]
  BY DEF Inv, TypeOK, Settle, Save
<1>2. pc' = "loop" /\ cur' \in 1 .. Len(Plan) + 1 /\ databaseId' = NoId
  BY PlanFacts DEF Settle, NextOp
<1>3. AtLabel' /\ BreakerTripped'
  BY <1>2
  DEF AtLabel, BreakerTripped, CategoryLabels, UpdateLabels, CreateLabels
<1> QED BY <1>1, <1>2, <1>3, StepKeepsInv DEF Labels

\* Settling without a claim needs nothing more.
LEMMA BadKeepsInv ==
  ASSUME Inv, NEW k \in Ops, k = cur, Surroundings,
         NEW r \in OpRecord, SettleBad(r),
         r.state # "VERIFIED", r.did = rec[k].did
  PROVE  Inv'
<1>1. rec'[k] = r
  BY DEF Inv, TypeOK, SettleBad, Settle, Save
<1>2. RecordFits(k)'
  BY <1>1 DEF Inv, RecordsFit, RecordFits, Surroundings
<1> QED BY <1>2, SettleKeepsInv DEF SettleBad

LEMMA BadTyped ==
  ASSUME Inv, cur \in Ops, NEW s \in OpStates, NEW att \in Nat
  PROVE  /\ Bad(s, att) \in OpRecord
         /\ Bad(s, att).state = s /\ Bad(s, att).did = rec[cur].did
         /\ rec[cur].att \in Nat /\ rec[cur] \in OpRecord
<1>1. rec[cur] \in OpRecord
  BY DEF Inv, TypeOK
<1> QED BY <1>1 DEF Bad, OpRecord, current

LEMMA GotoKeepsInv ==
  ASSUME Inv, cur \in Ops, Surroundings, NEW label \in Labels, Goto(label),
         UNCHANGED rec, AtLabel', BreakerTripped'
  PROVE  Inv'
BY StepKeepsInv DEF Goto, Inv, TypeOK, Surroundings

LEMMA ReadBackKeepsInv ==
  ASSUME Inv, cur \in Products, Surroundings, NEW d \in DOMAIN dest,
         ReadBack(d), rec' \in [Ops -> OpRecord],
         \A i \in Ops : rec'[i] = rec[i] \/ RecordFits(i)',
         rec'[cur].state # "VERIFIED"
  PROVE  Inv'
<1>1. d # NoId /\ cur \in Ops
  BY PlanFacts DEF Inv, TypeOK
<1>2. /\ pc' = "readProduct" /\ cur' = cur /\ databaseId' = d
      /\ d \in DOMAIN dest'
  BY DEF ReadBack, Surroundings
<1>3. AtLabel' /\ BreakerTripped'
  BY <1>1, <1>2
  DEF AtLabel, BreakerTripped, CategoryLabels, UpdateLabels, CreateLabels
<1> QED BY <1>2, <1>3, StepKeepsInv DEF Labels, Inv, TypeOK

\* A CREATE is bound to a row and will be read back.
LEMMA WrittenKeepsInv ==
  ASSUME Inv, NEW k \in Products, k = cur, Surroundings,
         NEW d \in DOMAIN dest, NEW att \in Nat, Written(d, att)
  PROVE  Inv'
<1>0. k \in Ops /\ k \notin Updates /\ d # NoId /\ d \in Nat
      /\ Plan[k].action = "CREATE"
  BY PlanFacts DEF Inv, TypeOK, Creates, Products
<1>1. rec[k] \in OpRecord
  BY <1>0 DEF Inv, TypeOK
<1>2. [current EXCEPT !.state = "WRITTEN", !.did = d, !.att = att] \in OpRecord
  BY <1>0, <1>1 DEF OpRecord, OpStates, current
<1>3. /\ rec' \in [Ops -> OpRecord]
      /\ \A i \in Ops : i # k => rec'[i] = rec[i]
      /\ rec'[k].state = "WRITTEN" /\ rec'[k].did = d
  BY <1>0, <1>1, <1>2 DEF Inv, TypeOK, Written, Save, OpRecord, current
<1>4. RecordFits(k)'
  BY <1>0, <1>3 DEF RecordFits, Surroundings
<1> QED BY <1>3, <1>4, ReadBackKeepsInv DEF Written

-----------------------------------------------------------------------------
(* The steps. *)

LEMMA InitInv == Init => Inv
<1> SUFFICES ASSUME Init PROVE Inv
  OBVIOUS
<1>1. /\ dest = Dest0 /\ cats = Cats0 /\ catalog = <<>>
      /\ pc = "off" /\ cur = 1 /\ circuit = FALSE
      /\ \A i \in Ops : rec[i].state = "NONE" /\ rec[i].did = NoId
  BY DEF Init
<1>2. Dest0 \in Seq(Product) /\ Cats0 \in [CatNames -> Nat]
  BY PlanIsTyped DEF PlanAssumption
<1>3. Faithful(catalog)
  BY <1>1, EmptyCatalog DEF Faithful
<1>4. [state |-> "NONE", did |-> NoId, att |-> 0, sys |-> FALSE] \in OpRecord
  BY DEF OpRecord, OpStates
<1>5. TypeOK
  <2>1. rec \in [Ops -> OpRecord]
    BY <1>4 DEF Init
  <2>2. /\ late \in [Ops -> Nat] /\ sent \in [Ops -> Nat]
        /\ sourceIdMap \in [Ops -> {NoId} \cup DOMAIN dest]
    BY DEF Init
  <2>3. DOMAIN catalog \subseteq DOMAIN dest /\ catalog \in [DOMAIN catalog -> Product]
    BY <1>3 DEF Faithful
  <2>4. dest \in Seq(Product) /\ cats \in [CatNames -> Nat]
    BY <1>1, <1>2
  <2>5. pc \in Labels /\ runStatus \in RunStates
    BY DEF Init, Labels, RunStates
  <2>6. cur \in 1 .. Len(Plan) + 1 /\ runs \in Nat /\ databaseId = NoId
    BY PlanFacts DEF Init
  <2>7. circuit \in BOOLEAN /\ trouble \in BOOLEAN
    BY DEF Init
  <2>8. overwritten \subseteq Updates
    BY DEF Init
  <2> QED BY <2>1, <2>2, <2>3, <2>4, <2>5, <2>6, <2>7, <2>8 DEF TypeOK
<1>6. RecordsFit
  BY <1>1 DEF RecordsFit, RecordFits
<1> QED BY <1>1, <1>2, <1>3, <1>5, <1>6, PlanFacts
  DEF Inv, OldRowsKept, CatalogFaithful, AtLabel, BreakerTripped,
      CategoryLabels, UpdateLabels, CreateLabels

LEMMA StartInv == Inv /\ Start => Inv'
<1> SUFFICES ASSUME Inv, Start PROVE Inv'
  OBVIOUS
<1>1. Surroundings
  BY NothingAround DEF Inv, TypeOK, Start, Surroundings, world, port,
                       CatalogFaithful, RunStates
<1>2. \A i \in Ops : Seeded(i) \in OpRecord
  <2> SUFFICES ASSUME NEW i \in Ops PROVE Seeded(i) \in OpRecord
    OBVIOUS
  <2>1. Plan[i].target \in Nat
    BY PlanFacts DEF Operation
  <2> QED BY <2>1 DEF Seeded, OpRecord, OpStates
<1>3. rec' \in [Ops -> OpRecord]
  BY <1>2 DEF Start, Inv, TypeOK
<1>4. ASSUME NEW i \in Ops PROVE rec'[i] = rec[i] \/ RecordFits(i)'
  <2> SUFFICES ASSUME rec'[i] = Seeded(i) PROVE RecordFits(i)'
    BY DEF Start
  <2>1. i \in Creates \cup Updates => Plan[i].target \in 0 .. Len(Dest0)
    BY PreflightPassed, PlanFacts DEF Preflighted
  <2>2. 0 .. Len(Dest0) \subseteq {NoId} \cup DOMAIN dest
    BY PlanFacts DEF Inv, TypeOK, OldRowsKept
  <2>3. dest' = dest
    BY DEF Start, world
  <2>4. Seeded(i).did = Plan[i].target
    BY DEF Seeded
  <2>5. Seeded(i).state = "VERIFIED" => Plan[i].action = "SKIP"
    BY DEF Seeded
  <2> QED BY <2>1, <2>2, <2>3, <2>4, <2>5
    DEF RecordFits, Creates, Updates
<1>5. pc' = "loop" /\ cur' = 1
  BY DEF Start
<1>6. AtLabel' /\ BreakerTripped'
  BY <1>5
  DEF AtLabel, BreakerTripped, CategoryLabels, UpdateLabels, CreateLabels
<1>7. databaseId' \in {NoId} \cup DOMAIN dest'
  BY DEF Start, world, Inv, TypeOK
<1> QED BY <1>1, <1>3, <1>4, <1>5, <1>6, <1>7, StepKeepsInv, PlanFacts
  DEF Labels

LEMMA LoopHeadInv == Inv /\ LoopHead => Inv'
<1> SUFFICES ASSUME Inv, LoopHead PROVE Inv'
  OBVIOUS
<1>0. ASSUME cur \in Ops
      PROVE  /\ current \in OpRecord /\ current = rec[cur]
             /\ RecordFits(cur)
  BY <1>0 DEF Inv, TypeOK, RecordsFit, current
<1>1. CASE BlockRemaining
  <2>1. Surroundings
    BY <1>1, NothingAround DEF BlockRemaining, SettleBad, port, Inv, TypeOK
  <2> DEFINE r == [current EXCEPT !.state = "BLOCKED", !.sys = TRUE]
  <2>2. r \in OpRecord /\ r.state # "VERIFIED" /\ r.did = rec[cur].did
    BY <1>0, <1>1 DEF BlockRemaining, AtOp, OpRecord, OpStates
  <2> QED BY <1>1, <2>1, <2>2, BadKeepsInv DEF BlockRemaining, AtOp
<1>2. CASE SkipDone
  <2>1. Surroundings
    BY <1>2, NothingAround DEF SkipDone, port, Inv, TypeOK
  <2> DEFINE r == [current EXCEPT !.state = "VERIFIED"]
  <2>2. r \in OpRecord /\ r.did = rec[cur].did /\ r.state = "VERIFIED"
    BY <1>0, <1>2 DEF SkipDone, AtOp, OpRecord, OpStates
  <2>3. PICK k \in Ops : k = cur
    BY <1>2 DEF SkipDone, AtOp
  <2>4. rec'[k] = r /\ dest' = dest /\ cats' = cats
    BY <1>2, <2>3 DEF SkipDone, Settle, Save, Inv, TypeOK, world
  <2>5. RecordFits(k)'
    <3>1. k \in Creates \cup Updates => rec[k].state = "VERIFIED"
      BY <1>2, <2>3 DEF SkipDone, op, Creates, Updates, current
    <3>2. Plan[k].action \notin {"BLOCK", "REVIEW"}
      BY <1>0, <1>2, <2>3 DEF SkipDone, op, RecordFits
    <3>3. overwritten' = overwritten
      BY <1>2 DEF SkipDone
    <3> QED BY <1>0, <2>2, <2>3, <2>4, <3>1, <3>2, <3>3
      DEF RecordFits, Stands, Fulfilled, Matches, Newborn, Exists
  <2> QED BY <1>2, <2>1, <2>2, <2>3, <2>5, SettleKeepsInv DEF SkipDone
<1>3. CASE KeepBlocked
  <2>1. Surroundings
    BY <1>3, NothingAround DEF KeepBlocked, SettleBad, port, Inv, TypeOK
  <2> QED BY <1>0, <1>3, <2>1, BadTyped, BadKeepsInv
    DEF KeepBlocked, AtOp, OpStates, OpRecord
<1>4. CASE BeginCreate
  <2>1. Surroundings
    BY <1>4, NothingAround DEF BeginCreate, port, store, Inv, TypeOK
  <2>2. /\ cur \in Ops /\ rec' = rec /\ cur' = cur
        /\ rec[cur].state # "VERIFIED" /\ ~circuit' /\ cur \in Creates
    BY <1>4
    DEF BeginCreate, AtOp, store, Goto, SystemicBlock, current, op, Creates
  <2>3. CASE op.entity = "category"
    <3>1. Goto("listCategories") /\ cur \notin Products
      BY <1>4, <2>3 DEF BeginCreate, op, Products
    <3>2. AtLabel' /\ BreakerTripped'
      BY <2>2, <3>1
      DEF Goto, AtLabel, BreakerTripped, CategoryLabels, UpdateLabels,
          CreateLabels
    <3> QED BY <2>1, <2>2, <3>1, <3>2, GotoKeepsInv DEF Labels
  <2>4. CASE op.entity # "category"
    <3>1. Goto("resolveCategory") /\ cur \in Products
      BY <1>4, <2>2, <2>4, PlanFacts DEF BeginCreate, op
    <3>2. AtLabel' /\ BreakerTripped'
      BY <2>2, <3>1
      DEF Goto, AtLabel, BreakerTripped, CategoryLabels, UpdateLabels,
          CreateLabels
    <3> QED BY <2>1, <2>2, <3>1, <3>2, GotoKeepsInv DEF Labels
  <2> QED BY <2>3, <2>4
<1>5. CASE BeginUpdate
  <2>1. Surroundings
    BY <1>5, NothingAround DEF BeginUpdate, SettleBad, port, Inv, TypeOK
  <2>2. cur \in Ops /\ cur \in Updates /\ rec[cur].state # "VERIFIED"
    BY <1>5 DEF BeginUpdate, AtOp, Updates, op, current
  <2>3. CASE SettleBad(Bad("BLOCKED", current.att))
    BY <1>0, <2>1, <2>2, <2>3, BadTyped, BadKeepsInv DEF OpStates, OpRecord
  <2>4. CASE UpdateTarget # NoId /\ Goto("updateProduct") /\ rec' = rec
    <3>1. Plan[cur].target # NoId
      BY <1>0, <2>2, <2>4 DEF UpdateTarget, RecordFits, op
    <3>2. AtLabel' /\ BreakerTripped'
      BY <2>2, <2>4, <3>1
      DEF Goto, AtLabel, BreakerTripped, CategoryLabels, UpdateLabels,
          CreateLabels
    <3> QED BY <2>1, <2>2, <2>4, <3>2, GotoKeepsInv DEF Labels
  <2> QED BY <1>5, <2>3, <2>4 DEF BeginUpdate
<1>6. CASE Finish
  <2>1. Surroundings
    <3>1. FinalStatus \in RunStates
      BY DEF FinalStatus, RunStates
    <3>2. Faithful(<<>>)
      BY EmptyCatalog DEF Faithful
    <3> QED BY <1>6, <3>1, <3>2
      DEF Finish, Memoryless, Surroundings, world, Inv, TypeOK
  <2>2. /\ rec' = rec /\ pc' = "off" /\ cur' = 1 /\ circuit' = FALSE
        /\ databaseId' = NoId
    BY <1>6 DEF Finish, Memoryless
  <2>3. AtLabel' /\ BreakerTripped'
    BY <2>2
    DEF AtLabel, BreakerTripped, CategoryLabels, UpdateLabels, CreateLabels
  <2> QED BY <2>1, <2>2, <2>3, StepKeepsInv, PlanFacts DEF Labels, Inv, TypeOK
<1> QED BY <1>1, <1>2, <1>3, <1>4, <1>5, <1>6 DEF LoopHead

\* What the three category steps and the two update steps say at their label.
LEMMA CategoryOpInv == Inv /\ CategoryOp => Inv'
<1> SUFFICES ASSUME Inv, CategoryOp PROVE Inv'
  OBVIOUS
<1>1. /\ pc \in CategoryLabels /\ cur \in Ops
      /\ cur \in Creates \ Products /\ cur \notin Updates
      /\ rec[cur].state # "VERIFIED" /\ ~circuit
  BY PlanFacts
  DEF CategoryOp, ListCategories, CreateCategory, CategoryReadBack, Inv,
      AtLabel, BreakerTripped, CategoryLabels, UpdateLabels
<1>2. PICK k \in Ops : k = cur
  BY <1>1
<1>3. /\ current = rec[k] /\ current \in OpRecord /\ RecordFits(k)
      /\ op = Plan[k] /\ op.cat \in CatNames
      /\ k \in Creates \ Products /\ k \notin Updates
  BY <1>1, <1>2, PlanFacts
  DEF Inv, TypeOK, RecordsFit, current, op, Operation
\* The category is listed, and the operation is settled on it.
<1>4. ASSUME Exists(op.cat), Surroundings,
             Settle([current EXCEPT !.state = "VERIFIED"])
      PROVE  Inv'
  <2> DEFINE r == [current EXCEPT !.state = "VERIFIED"]
  <2>1. r \in OpRecord /\ r.did = rec[k].did /\ r.state = "VERIFIED"
    BY <1>3 DEF OpRecord, OpStates
  <2>2. rec'[k] = r
    BY <1>2, <1>4 DEF Settle, Save, Inv, TypeOK
  <2>3. cats'[Plan[k].cat] > 0
    BY <1>3, <1>4 DEF Surroundings, Exists
  <2>4. /\ rec'[k].did \in {NoId} \cup DOMAIN dest'
        /\ Plan[k].action = "CREATE"
    BY <1>3, <1>4, <2>1, <2>2 DEF RecordFits, Surroundings, Creates
  <2>5. RecordFits(k)'
    BY <1>3, <2>3, <2>4 DEF RecordFits, Stands, Fulfilled, Exists
  <2> QED BY <1>2, <1>4, <2>1, <2>5, SettleKeepsInv
<1>5. ASSUME Surroundings, SettleBad(Bad("WRITE_FAILED", current.att))
      PROVE  Inv'
  BY <1>2, <1>3, <1>5, BadTyped, BadKeepsInv DEF OpStates, OpRecord
<1>6. CASE ListCategories
  <2>1. Surroundings
    BY <1>6, NothingAround DEF ListCategories, port, Inv, TypeOK
  <2>2. CASE ~Exists(op.cat) /\ Goto("createCategory") /\ rec' = rec
    <3>1. AtLabel' /\ BreakerTripped'
      BY <1>1, <1>6, <2>2
      DEF ListCategories, Goto, AtLabel, BreakerTripped, CategoryLabels,
          UpdateLabels, CreateLabels
    <3> QED BY <1>1, <2>1, <2>2, <3>1, GotoKeepsInv DEF Labels
  <2> QED BY <1>6, <2>1, <2>2, <1>4 DEF ListCategories
<1>7. CASE CreateCategory
  <2>1. CASE /\ Exists(op.cat)
             /\ Settle([current EXCEPT !.state = "VERIFIED"])
             /\ UNCHANGED <<world, trouble, sent>>
    <3>1. Surroundings
      BY <1>7, <2>1, NothingAround DEF CreateCategory, port, Inv, TypeOK
    <3> QED BY <2>1, <3>1, <1>4
  <2>2. CASE SettleBad(Bad("WRITE_FAILED", current.att))
             /\ UNCHANGED <<world, sent>>
    <3>1. Surroundings
      BY <1>7, <2>2, NothingAround
      DEF CreateCategory, SettleBad, port, Inv, TypeOK
    <3> QED BY <2>2, <3>1, <1>5
  <2>3. CASE /\ sent' = [sent EXCEPT ![cur] = @ + 1]
             /\ UNCHANGED dest
             /\ \/ cats' = [cats EXCEPT ![op.cat] = @ + 1] /\ UNCHANGED late
                \/ UNCHANGED <<cats, late>>
                \/ /\ late' = [late EXCEPT ![cur] = @ + 1]
                   /\ UNCHANGED cats
             /\ \/ Goto("categoryReadBack") /\ UNCHANGED <<rec, trouble>>
                \/ SettleBad(Bad("WRITE_FAILED", current.att))
    <3>1. /\ dest' = dest
          /\ sent' = [sent EXCEPT ![cur] = @ + 1]
          /\ cats' = cats \/ cats' = [cats EXCEPT ![op.cat] = @ + 1]
          /\ late' = late \/ late' = [late EXCEPT ![cur] = @ + 1]
          /\ UNCHANGED <<runStatus, port, circuit, runs, overwritten>>
      BY <1>7, <2>3 DEF CreateCategory
    <3>2. /\ cats' \in [CatNames -> Nat]
          /\ \A c \in CatNames : cats[c] > 0 => cats'[c] > 0
      <4>1. cats \in [CatNames -> Nat]
        BY DEF Inv, TypeOK
      <4>2. CASE cats' = cats
        BY <4>1, <4>2
      <4>3. CASE cats' = [cats EXCEPT ![op.cat] = @ + 1]
        <5>1. \A c \in CatNames : cats'[c] >= cats[c] /\ cats'[c] \in Nat
                                    /\ cats[c] \in Nat
          BY <1>3, <4>1, <4>3, CountUp
        <5> QED BY <1>3, <4>1, <4>3, <5>1
      <4> QED BY <3>1, <4>2, <4>3
    <3>3. late' \in [Ops -> Nat] /\ sent' \in [Ops -> Nat]
      <4>1. late \in [Ops -> Nat] /\ sent \in [Ops -> Nat]
        BY DEF Inv, TypeOK
      <4> QED BY <1>1, <3>1, <4>1, CountUp
    <3>4. trouble' \in BOOLEAN
      BY <1>7, <2>3 DEF CreateCategory, SettleBad, Inv, TypeOK
    <3>5. Surroundings
      BY <3>1, <3>2, <3>3, <3>4
      DEF Surroundings, Inv, TypeOK, CatalogFaithful, port
    <3>6. CASE Goto("categoryReadBack") /\ rec' = rec
      <4>1. AtLabel' /\ BreakerTripped'
        BY <1>1, <3>1, <3>6
        DEF Goto, AtLabel, BreakerTripped, CategoryLabels, UpdateLabels,
            CreateLabels
      <4> QED BY <1>1, <3>5, <3>6, <4>1, GotoKeepsInv DEF Labels
    <3> QED BY <2>3, <3>5, <3>6, <1>5
  <2> QED BY <1>7, <2>1, <2>2, <2>3 DEF CreateCategory
<1>8. CASE CategoryReadBack
  <2>1. Surroundings
    BY <1>8, NothingAround DEF CategoryReadBack, SettleBad, port, Inv, TypeOK
  <2> QED BY <1>8, <2>1, <1>4, <1>5 DEF CategoryReadBack
<1> QED BY <1>6, <1>7, <1>8 DEF CategoryOp

\* What storing the form of an UPDATE, now or late, leaves alone: the rows'
\* numbers, and everything another operation rests on.  No CREATE rests on a row
\* that old, and no other UPDATE has that target.
LEMMA RewriteKeeps ==
  ASSUME Inv, NEW k \in Updates, NEW c \in Contents,
         dest' = [dest EXCEPT ![Plan[k].target] =
                    Rewritten(k, dest[Plan[k].target], c)],
         UNCHANGED <<rec, cats>>
  PROVE  /\ dest' \in Seq(Product)
         /\ DOMAIN dest' = DOMAIN dest /\ Len(dest') = Len(dest)
         /\ \A d \in DOMAIN dest : dest'[d].num = dest[d].num
         /\ \A d \in DOMAIN dest : d # Plan[k].target => dest'[d] = dest[d]
         /\ \A i \in Products, d \in DOMAIN dest :
              Matches(i, dest[d]) => dest'[d] = dest[d]
         /\ \A i \in Creates \cup Updates :
              i # k /\ Fulfilled(i) /\ RecordFits(i) => Fulfilled(i)'
<1> DEFINE t == Plan[k].target
<1>0. /\ k \in Ops /\ t \in 0 .. Len(Dest0) /\ dest \in Seq(Product)
      /\ DOMAIN dest = 1 .. Len(dest) /\ Len(dest) \in Nat
      /\ Len(Dest0) \in Nat
  BY PreflightPassed, PlanFacts DEF Preflighted, Inv, TypeOK
<1>1. t \in DOMAIN dest =>
        /\ Rewritten(k, dest[t], c) \in Product
        /\ Rewritten(k, dest[t], c).num = dest[t].num
  <2> SUFFICES ASSUME t \in DOMAIN dest
               PROVE  /\ Rewritten(k, dest[t], c) \in Product
                      /\ Rewritten(k, dest[t], c).num = dest[t].num
    OBVIOUS
  <2>1. dest[t] \in Product /\ Plan[k] \in Operation
    BY <1>0, PlanFacts
  <2> HIDE DEF t
  <2> QED BY <2>1 DEF Rewritten, Newborn, Product, Operation
<1>2. /\ dest' \in Seq(Product)
      /\ DOMAIN dest' = DOMAIN dest /\ Len(dest') = Len(dest)
      /\ \A d \in DOMAIN dest : dest'[d].num = dest[d].num
      /\ \A d \in DOMAIN dest : d # t => dest'[d] = dest[d]
  <2> DEFINE p == Rewritten(k, dest[t], c)
  <2>1. dest' = [dest EXCEPT ![t] = p]
    OBVIOUS
  <2>2. t \in DOMAIN dest => p \in Product /\ p.num = dest[t].num
    BY <1>1
  <2>3. dest \in Seq(Product)
    BY <1>0
  <2> DEFINE u == dest'
  <2>4. u = [dest EXCEPT ![t] = p]
    BY <2>1
  <2> HIDE DEF p, t, u
  <2>5. /\ u \in Seq(Product)
        /\ DOMAIN u = DOMAIN dest /\ Len(u) = Len(dest)
        /\ \A d \in DOMAIN dest : d # t => u[d] = dest[d]
        /\ \A d \in DOMAIN dest : u[d].num = dest[d].num
    BY <2>2, <2>3, <2>4, RewriteRow
  <2> QED BY <2>5 DEF u
<1>3. ASSUME NEW i \in Products, NEW d \in DOMAIN dest, Matches(i, dest[d])
      PROVE  d # t
  <2> SUFFICES ASSUME d = t PROVE FALSE
    OBVIOUS
  <2>1. d \in DOMAIN Dest0
    BY <1>0, PlanFacts
  <2>2. dest[d].num = Dest0[d].num /\ Dest0[d].num # Plan[i].num
    BY <2>1, PreflightPassed DEF Preflighted, Inv, OldRowsKept
  <2> QED BY <1>3, <2>2 DEF Matches, Newborn
<1>4. ASSUME NEW i \in Creates \cup Updates, i # k, Fulfilled(i), RecordFits(i)
      PROVE  Fulfilled(i)'
  <2>1. CASE i \in Products
    <3>1. rec[i].did \in DOMAIN dest /\ Matches(i, dest[rec[i].did])
      BY <1>4, <2>1 DEF Fulfilled
    <3>2. rec[i].did # t
      BY <2>1, <3>1, <1>3
    <3> QED BY <1>2, <2>1, <3>1, <3>2 DEF Fulfilled, Matches, Newborn
  <2>2. CASE i \in Updates
    <3>1. rec[i].did \in DOMAIN dest /\ Matches(i, dest[rec[i].did])
      BY <1>4, <2>2 DEF Fulfilled
    <3>2. rec[i].did # NoId /\ rec[i].did = Plan[i].target
      BY <1>0, <1>4, <2>2, <3>1 DEF RecordFits
    <3>3. rec[i].did # t
      BY <1>4, <2>2, <3>2, PreflightPassed DEF Preflighted
    <3> QED BY <1>2, <2>2, <3>1, <3>3 DEF Fulfilled, Matches, Newborn
  <2>3. CASE i \notin Products /\ i \notin Updates
    BY <1>4, <2>3 DEF Fulfilled, Exists
  <2> QED BY <2>1, <2>2, <2>3
<1> QED BY <1>2, <1>3, <1>4

\* Storing the form of an UPDATE keeps the invariant: the operation itself is not
\* VERIFIED, or the request was a late one.
LEMMA RewriteInv ==
  ASSUME Inv, NEW k \in Updates, NEW c \in Contents,
         dest' = [dest EXCEPT ![Plan[k].target] =
                    Rewritten(k, dest[Plan[k].target], c)],
         UNCHANGED <<rec, runStatus, cats, catalog, sourceIdMap, cur,
                     databaseId, circuit, trouble, runs>>,
         overwritten \subseteq overwritten', overwritten' \subseteq Updates,
         rec[k].state # "VERIFIED" \/ k \in overwritten',
         late' \in [Ops -> Nat], sent' \in [Ops -> Nat],
         pc' \in Labels, AtLabel', BreakerTripped'
  PROVE  Inv'
<1>1. /\ dest' \in Seq(Product)
      /\ DOMAIN dest' = DOMAIN dest /\ Len(dest') = Len(dest)
      /\ \A d \in DOMAIN dest : dest'[d].num = dest[d].num
      /\ \A i \in Products, d \in DOMAIN dest :
           Matches(i, dest[d]) => dest'[d] = dest[d]
      /\ \A i \in Creates \cup Updates :
           i # k /\ Fulfilled(i) /\ RecordFits(i) => Fulfilled(i)'
  BY RewriteKeeps
<1>2. TypeOK'
  BY <1>1 DEF Inv, TypeOK
<1>3. OldRowsKept'
  <2>1. \A d \in DOMAIN Dest0 : d \in DOMAIN dest
    BY PlanFacts DEF Inv, OldRowsKept, TypeOK
  <2> QED BY <1>1, <2>1 DEF Inv, OldRowsKept
<1>4. CatalogFaithful'
  BY <1>1 DEF Inv, CatalogFaithful, Faithful, Matches, Newborn
<1>5. ASSUME NEW i \in Ops PROVE RecordFits(i)'
  <2>1. RecordFits(i) /\ rec' = rec
    BY DEF Inv, RecordsFit
  <2>2. i \in Creates \cup Updates /\ rec[i].state = "VERIFIED" => Stands(i)'
    <3> SUFFICES ASSUME i \in Creates \cup Updates, rec[i].state = "VERIFIED"
                 PROVE  Stands(i)'
      OBVIOUS
    <3>1. Fulfilled(i) \/ i \in overwritten
      BY <2>1 DEF RecordFits, Stands
    <3>2. CASE i \in overwritten'
      BY <3>2 DEF Stands
    <3>3. CASE i \notin overwritten'
      <4>1. i # k /\ Fulfilled(i)
        BY <3>1, <3>3
      <4>2. Fulfilled(i)'
        BY <1>1, <2>1, <4>1
      <4> QED BY <4>2 DEF Stands
    <3> QED BY <3>2, <3>3
  <2> QED BY <1>1, <2>1, <2>2 DEF RecordFits
<1> QED BY <1>2, <1>3, <1>4, <1>5 DEF Inv, RecordsFit

\* Where the steps of an UPDATE start from.
LEMMA UpdateFacts ==
  ASSUME Inv, pc \in UpdateLabels
  PROVE  /\ cur \in Updates /\ cur \in Ops /\ cur \notin Creates
         /\ UpdateTarget = Plan[cur].target /\ Plan[cur].target # NoId
         /\ Plan[cur].target \in DOMAIN dest
         /\ rec[cur].state # "VERIFIED" /\ RecordFits(cur)
         /\ current = rec[cur] /\ rec[cur] \in OpRecord
         /\ rec[cur].att + 1 \in Nat
<1>1. cur \in Updates /\ cur \in Ops /\ cur \notin Creates
      /\ Plan[cur].target # NoId
  BY PlanFacts DEF Inv, AtLabel
<1>2. Plan[cur].target \in DOMAIN dest
  BY <1>1, PreflightPassed, PlanFacts DEF Preflighted, Inv, TypeOK, OldRowsKept
<1>3. rec[cur] \in OpRecord /\ RecordFits(cur)
  BY <1>1 DEF Inv, TypeOK, RecordsFit
<1>4. rec[cur].state # "VERIFIED"
  BY DEF Inv, AtLabel, UpdateLabels
<1> QED BY <1>1, <1>2, <1>3, <1>4 DEF UpdateTarget, op, current, OpRecord

LEMMA UpdateProductInv == Inv /\ UpdateProduct => Inv'
<1> SUFFICES ASSUME Inv, UpdateProduct PROVE Inv'
  OBVIOUS
<1>1. pc \in UpdateLabels
  BY DEF UpdateProduct, UpdateLabels
<1>2. PICK k \in Updates : k = cur
  BY <1>1, UpdateFacts
<1>3. k \in Ops /\ rec[k].state # "VERIFIED" /\ UpdateTarget = Plan[k].target
  BY <1>1, <1>2, UpdateFacts
<1>4. PICK seen \in {"updated", "updateFailed"} : Goto(seen)
  BY DEF UpdateProduct
<1>5. AtLabel' /\ BreakerTripped'
  <2>1. /\ pc' = seen /\ cur' = cur /\ rec' = rec
    BY <1>4 DEF Goto, UpdateProduct, store
  <2>2. cur \in Updates /\ Plan[cur].target # NoId /\ rec[cur].state # "VERIFIED"
    BY <1>1, UpdateFacts
  <2> QED BY <2>1, <2>2
    DEF AtLabel, BreakerTripped, CategoryLabels, UpdateLabels, CreateLabels
<1>6. late' \in [Ops -> Nat] /\ sent' \in [Ops -> Nat]
  <2>1. late \in [Ops -> Nat] /\ sent \in [Ops -> Nat]
    BY DEF Inv, TypeOK
  <2>2. /\ late' = late \/ late' = [late EXCEPT ![k] = @ + 1]
        /\ sent' = sent \/ sent' = [sent EXCEPT ![k] = @ + 1]
    BY <1>2 DEF UpdateProduct
  <2> QED BY <1>3, <2>1, <2>2, CountUp
<1>7. /\ UNCHANGED <<rec, runStatus, cats, catalog, sourceIdMap, circuit,
                     trouble, runs, overwritten>>
      /\ cur' = cur /\ databaseId' = databaseId /\ pc' \in Labels
  BY <1>4 DEF UpdateProduct, store, port, Goto, Labels
<1>8. CASE dest' = dest
  <2>1. Surroundings
    BY <1>6, <1>7, <1>8 DEF Surroundings, Inv, TypeOK, CatalogFaithful
  <2> QED BY <1>2, <1>3, <1>4, <1>5, <1>7, <2>1, GotoKeepsInv DEF Labels
<1>9. CASE \E c \in Contents :
             dest' = [dest EXCEPT ![UpdateTarget] =
                        Rewritten(cur, dest[UpdateTarget], c)]
  <2>1. PICK c \in Contents :
          dest' = [dest EXCEPT ![Plan[k].target] =
                     Rewritten(k, dest[Plan[k].target], c)]
    BY <1>2, <1>3, <1>9
  <2>2. overwritten \subseteq overwritten' /\ overwritten' \subseteq Updates
    BY <1>7 DEF Inv, TypeOK
  <2> QED BY <1>3, <1>5, <1>6, <1>7, <2>1, <2>2, RewriteInv
<1> QED BY <1>8, <1>9 DEF UpdateProduct

\* The answer is recorded: WRITTEN and a cleared catalog, or WRITE_FAILED.
LEMMA UpdateSettledInv == Inv /\ (UpdateAnswered \/ UpdateFailed) => Inv'
<1> SUFFICES ASSUME Inv, UpdateAnswered \/ UpdateFailed PROVE Inv'
  OBVIOUS
<1>1. pc \in UpdateLabels
  BY DEF UpdateAnswered, UpdateFailed, UpdateLabels
<1>2. PICK k \in Ops : k = cur
  BY <1>1, UpdateFacts
<1> DEFINE t == Plan[k].target
<1>3. /\ UpdateTarget = t /\ t # NoId /\ t \in DOMAIN dest /\ t \in Nat
      /\ k \in Updates /\ Plan[k].action = "UPDATE" /\ k \notin Creates
      /\ current = rec[k] /\ current \in OpRecord /\ current.att + 1 \in Nat
  BY <1>1, <1>2, UpdateFacts DEF Updates, Inv, TypeOK
\* A record of this operation that claims nothing fits.
<1>4. ASSUME rec'[k].did = t, rec'[k].state # "VERIFIED", dest' = dest
      PROVE  RecordFits(k)'
  BY <1>3, <1>4 DEF RecordFits
<1>5. CASE UpdateAnswered
  <2> DEFINE r == [current EXCEPT !.state = "WRITTEN", !.att = @ + 1,
                                  !.did = UpdateTarget]
  <2>1. r \in OpRecord /\ r.state = "WRITTEN" /\ r.did = t
    BY <1>3 DEF OpRecord, OpStates
  <2>2. /\ rec' = [rec EXCEPT ![k] = r] /\ Goto("readUpdated")
        /\ catalog' = <<>> /\ dest' = dest
    BY <1>2, <1>5 DEF UpdateAnswered, Save, world
  <2> HIDE DEF r
  <2>3. /\ rec' \in [Ops -> OpRecord] /\ rec'[k] = r
        /\ \A i \in Ops : i # k => rec'[i] = rec[i]
    BY <2>1, <2>2 DEF Inv, TypeOK
  <2>4. RecordFits(k)'
    BY <1>4, <2>1, <2>2, <2>3
  <2>5. Surroundings
    BY <1>5, NothingAround DEF UpdateAnswered, Inv, TypeOK
  <2>6. pc' = "readUpdated" /\ cur' = cur /\ databaseId' = databaseId
    BY <2>2 DEF Goto
  <2>7. AtLabel' /\ BreakerTripped'
    BY <1>2, <1>3, <2>1, <2>2, <2>3, <2>6
    DEF AtLabel, BreakerTripped, CategoryLabels, UpdateLabels, CreateLabels
  <2> QED BY <2>3, <2>4, <2>5, <2>6, <2>7, StepKeepsInv
    DEF Inv, TypeOK, Labels, Surroundings
<1>6. CASE UpdateFailed
  <2> DEFINE r == [Bad("WRITE_FAILED", current.att + 1)
                     EXCEPT !.did = UpdateTarget]
  <2>1. r \in OpRecord /\ r.state = "WRITE_FAILED" /\ r.did = t
    BY <1>3 DEF Bad, OpRecord, OpStates
  <2>2. Settle(r) /\ dest' = dest
    BY <1>6 DEF UpdateFailed, SettleBad, world
  <2>3. Surroundings
    BY <1>6, NothingAround DEF UpdateFailed, SettleBad, port, Inv, TypeOK
  <2> HIDE DEF r
  <2>4. rec'[k] = r
    BY <1>2, <2>2 DEF Settle, Save, Inv, TypeOK
  <2>5. RecordFits(k)'
    BY <1>4, <2>1, <2>2, <2>4
  <2> QED BY <1>2, <2>1, <2>2, <2>3, <2>5, SettleKeepsInv
<1> QED BY <1>5, <1>6

\* The row of the update is read: a row that was read as planned is so.
LEMMA ReadUpdatedInv == Inv /\ ReadUpdated => Inv'
<1> SUFFICES ASSUME Inv, ReadUpdated PROVE Inv'
  OBVIOUS
<1>1. pc \in UpdateLabels /\ rec[cur].did # NoId /\ catalog = <<>>
  BY DEF ReadUpdated, UpdateLabels, Inv, AtLabel
<1>2. /\ cur \in Updates /\ cur \in Ops /\ rec[cur].did \in DOMAIN dest
      /\ Plan[cur].target # NoId /\ rec[cur].state # "VERIFIED"
      /\ cur \notin Creates
  BY <1>1, UpdateFacts DEF RecordFits
<1>3. Surroundings
  BY NothingAround DEF ReadUpdated, store, Inv, TypeOK
<1>4. /\ catalog' \in Views /\ rec' = rec /\ dest' = dest
      /\ pc' = "compareUpdated" /\ cur' = cur /\ Goto("compareUpdated")
  BY DEF ReadUpdated, store, world, Goto
<1>5. Matches(cur, catalog'[rec[cur].did]) => Stands(cur)'
  <2> SUFFICES ASSUME Matches(cur, catalog'[rec[cur].did]) PROVE Stands(cur)'
    OBVIOUS
  <2>1. PICK k \in Ops : k = cur
    BY <1>2
  <2>2. Matches(k, dest[rec[k].did])
    BY <1>1, <1>2, <1>4, <2>1, CrawlMatches
  <2>3. k \in Updates /\ rec[k].did \in DOMAIN dest
    BY <1>2, <2>1
  <2>4. Stands(k)'
    BY <1>4, <2>2, <2>3 DEF Stands, Fulfilled, Matches, Newborn
  <2> QED BY <1>4, <2>1, <2>4 DEF Stands, Fulfilled, Matches, Newborn
<1>6. BreakerTripped'
  BY <1>4 DEF BreakerTripped, UpdateLabels
<1>7. AtLabel'
  <2>1. Matches(cur, catalog[rec[cur].did])' => Stands(cur)'
    BY <1>4, <1>5 DEF Matches, Newborn
  <2> QED BY <1>1, <1>2, <1>4, <2>1
    DEF AtLabel, CategoryLabels, UpdateLabels, CreateLabels
<1> QED BY <1>2, <1>3, <1>4, <1>6, <1>7, GotoKeepsInv DEF Labels

LEMMA CompareUpdatedInv == Inv /\ CompareUpdated => Inv'
<1> SUFFICES ASSUME Inv, CompareUpdated PROVE Inv'
  OBVIOUS
<1>1. pc \in UpdateLabels /\ pc = "compareUpdated"
  BY DEF CompareUpdated, UpdateLabels
<1>2. PICK k \in Ops : k = cur
  BY <1>1, UpdateFacts
<1>3. /\ current = rec[k] /\ current \in OpRecord /\ RecordFits(k)
      /\ k \in Updates /\ rec[k].did \in DOMAIN dest
  BY <1>1, <1>2, UpdateFacts DEF Inv, AtLabel, RecordFits
<1>4. Surroundings
  BY NothingAround DEF CompareUpdated, SettleBad, port, Inv, TypeOK
<1>5. CASE /\ Matches(cur, Reading(catalog, current.did))
           /\ Settle([current EXCEPT !.state = "VERIFIED"])
  <2> DEFINE r == [current EXCEPT !.state = "VERIFIED"]
  <2>1. r \in OpRecord /\ r.did = rec[k].did
    BY <1>3 DEF OpRecord, OpStates
  <2>2. rec'[k] = r
    BY <1>2, <1>5 DEF Settle, Save, Inv, TypeOK
  <2>3. Stands(k)
    <3>1. CASE rec[k].did \in DOMAIN catalog
      BY <1>1, <1>2, <1>3, <1>5, <3>1 DEF Inv, AtLabel, Reading
    <3>2. CASE rec[k].did \notin DOMAIN catalog
      BY <1>2, <1>3, <1>5, <3>2 DEF Reading, Stands, Fulfilled
    <3> QED BY <3>1, <3>2
  <2>4. Plan[k].action = "UPDATE"
    BY <1>3 DEF Updates
  <2>5. rec'[k].did = rec[k].did
    BY <2>1, <2>2
  <2>6. Stands(k)'
    BY <1>3, <1>4, <2>3, <2>5
    DEF Stands, Fulfilled, Surroundings, Matches, Newborn
  <2>7. RecordFits(k)'
    BY <1>3, <1>4, <2>4, <2>5, <2>6 DEF RecordFits, Surroundings
  <2> QED BY <1>2, <1>4, <1>5, <2>1, <2>7, SettleKeepsInv
<1>6. CASE SettleBad(Bad("VERIFY_FAILED", current.att))
  BY <1>2, <1>3, <1>4, <1>6, BadTyped, BadKeepsInv DEF OpStates, OpRecord
<1> QED BY <1>5, <1>6 DEF CompareUpdated

\* Where the steps of a product CREATE start from.
LEMMA CreateFacts ==
  ASSUME Inv, pc \in CreateLabels
  PROVE  /\ cur \in Products /\ cur \in Ops /\ cur \notin Updates
         /\ rec[cur].state # "VERIFIED" /\ rec[cur].att \in Nat
         /\ current = rec[cur] /\ op = Plan[cur] /\ rec[cur] \in OpRecord
         /\ Plan[cur].cat \in CatNames
         /\ Plan[cur].num \in Nat /\ Plan[cur].name \in STRING
         /\ circuit => pc \in {"findAfterReject", "readProduct"}
<1>1. cur \in Products /\ cur \in Ops /\ cur \notin Updates
  BY PlanFacts DEF Inv, AtLabel
<1>2. rec[cur] \in OpRecord /\ Plan[cur] \in Operation
  BY <1>1, PlanFacts DEF Inv, TypeOK
<1>3. rec[cur].state # "VERIFIED"
  BY DEF Inv, AtLabel, CreateLabels
<1>4. circuit => pc \in {"findAfterReject", "readProduct"}
  BY DEF Inv, BreakerTripped, CreateLabels, UpdateLabels
<1> QED BY <1>1, <1>2, <1>3, <1>4 DEF current, op, OpRecord, Operation

\* The ways on from a step of a CREATE: give up for now, bind a row, read one
\* back, or go to the next label of the operation.
LEMMA CreateStepInv ==
  ASSUME Inv, pc \in CreateLabels, Surroundings,
         \/ \E s \in OpStates \ {"VERIFIED"}, att \in Nat :
              SettleBad(Bad(s, att))
         \/ \E d \in DOMAIN dest, att \in Nat : Written(d, att)
         \/ \E d \in DOMAIN dest : ReadBack(d) /\ UNCHANGED rec
         \/ \E label \in CreateLabels \ {"readProduct"} :
              /\ Goto(label) /\ UNCHANGED rec
              /\ circuit' => label = "findAfterReject"
  PROVE  Inv'
<1>1. cur \in Products /\ cur \in Ops /\ rec[cur].state # "VERIFIED"
  BY CreateFacts
<1>2. PICK k \in Products : k = cur
  BY <1>1
<1>3. ASSUME NEW s \in OpStates \ {"VERIFIED"}, NEW att \in Nat,
             SettleBad(Bad(s, att))
      PROVE  Inv'
  BY <1>1, <1>2, <1>3, BadTyped, BadKeepsInv
<1>4. ASSUME NEW d \in DOMAIN dest, NEW att \in Nat, Written(d, att)
      PROVE  Inv'
  BY <1>2, <1>4, WrittenKeepsInv
<1>5. ASSUME NEW label \in CreateLabels \ {"readProduct"},
             Goto(label), UNCHANGED rec,
             circuit' => label = "findAfterReject"
      PROVE  Inv'
  <2>1. AtLabel' /\ BreakerTripped'
    BY <1>1, <1>5
    DEF Goto, AtLabel, BreakerTripped, CategoryLabels, UpdateLabels,
        CreateLabels
  <2>2. label \in Labels
    BY <1>5 DEF CreateLabels, Labels
  <2> QED BY <1>1, <1>5, <2>1, <2>2, GotoKeepsInv
<1>6. ASSUME NEW d \in DOMAIN dest, ReadBack(d), UNCHANGED rec PROVE Inv'
  BY <1>1, <1>6, ReadBackKeepsInv DEF Inv, TypeOK
<1> QED BY <1>3, <1>4, <1>5, <1>6

\* The steps that look for the product before and after the request.
LEMMA LookInv ==
  Inv /\ (ResolveCategory \/ FindByIdentity \/ FindAgain \/ FindAfterFail)
    => Inv'
<1> SUFFICES ASSUME Inv, ResolveCategory \/ FindByIdentity \/ FindAgain
                           \/ FindAfterFail
             PROVE  Inv'
  OBVIOUS
<1>1. pc \in CreateLabels
  BY DEF ResolveCategory, FindByIdentity, FindAgain, FindAfterFail, CreateLabels
<1>2. current.att \in Nat /\ current.att + 1 \in Nat
  BY <1>1, CreateFacts
<1>3. \A view \in Views : \A d \in Candidates(view, cur, current.did) :
        d \in DOMAIN dest
  BY ViewsFaithful, CandidatesSeen DEF Faithful
<1>4. circuit => pc = "findAfterReject" \/ pc = "readProduct"
  BY <1>1, CreateFacts
<1>5. CASE ResolveCategory
  <2>1. Surroundings
    BY <1>5, NothingAround DEF ResolveCategory, SettleBad, port, Inv, TypeOK
  <2>2. \/ SettleBad(Bad("BLOCKED", current.att))
        \/ Goto("findByIdentity") /\ UNCHANGED rec /\ ~circuit'
    BY <1>4, <1>5 DEF ResolveCategory
  <2> QED BY <1>1, <1>2, <2>1, <2>2, CreateStepInv DEF OpStates, CreateLabels
<1>6. CASE FindByIdentity
  <2>1. PICK view \in Views :
          /\ catalog' = view
          /\ \/ SettleBad(Bad("BLOCKED", current.att))
             \/ /\ \E d \in Candidates(view, cur, current.did) :
                     Written(d, current.att)
                /\ UNCHANGED trouble
             \/ SettleBad(Bad("WRITE_FAILED", current.att))
             \/ Goto("findAgain") /\ UNCHANGED <<rec, trouble>>
    BY <1>6 DEF FindByIdentity
  <2>2. Surroundings
    BY <1>6, <2>1, NothingAround DEF FindByIdentity, SettleBad, Inv, TypeOK
  <2>3. circuit' = circuit /\ ~circuit
    BY <1>4, <1>6 DEF FindByIdentity
  <2> QED BY <1>1, <1>2, <1>3, <2>1, <2>2, <2>3, CreateStepInv
    DEF OpStates, CreateLabels
<1>7. CASE FindAgain
  <2>1. PICK view \in Views :
          /\ catalog' = view
          /\ \/ SettleBad(Bad("BLOCKED", current.att))
             \/ /\ \E d \in Candidates(view, cur, current.did) :
                     ReadBack(d)
                /\ UNCHANGED <<rec, trouble>>
             \/ Goto("listBefore") /\ UNCHANGED <<rec, trouble>>
    BY <1>7 DEF FindAgain
  <2>2. Surroundings
    BY <1>7, <2>1, NothingAround DEF FindAgain, SettleBad, Inv, TypeOK
  <2>3. circuit' = circuit /\ ~circuit
    BY <1>4, <1>7 DEF FindAgain
  <2> QED BY <1>1, <1>2, <1>3, <2>1, <2>2, <2>3, CreateStepInv
    DEF OpStates, CreateLabels
<1>8. CASE FindAfterFail
  <2>1. PICK view \in Views :
          /\ catalog' = view
          /\ \/ SettleBad(Bad("BLOCKED", current.att + 1))
             \/ /\ \E d \in Candidates(view, cur, current.did) :
                     Written(d, current.att + 1)
                /\ UNCHANGED trouble
             \/ SettleBad(Bad("WRITE_FAILED", current.att + 1))
             \/ SettleBad(Bad("PENDING_WRITE", current.att + 1))
    BY <1>8 DEF FindAfterFail
  <2>2. Surroundings
    BY <1>8, <2>1, NothingAround DEF FindAfterFail, SettleBad, Inv, TypeOK
  <2> QED BY <1>1, <1>2, <1>3, <2>1, <2>2, CreateStepInv
    DEF OpStates, CreateLabels
<1> QED BY <1>5, <1>6, <1>7, <1>8

\* A row appended to the destination leaves everything else as it was.
LEMMA AppendAround ==
  ASSUME Inv, NEW p \in Product, dest' = Append(dest, p),
         UNCHANGED <<runStatus, cats, port, trouble, runs, overwritten>>,
         circuit' \in BOOLEAN,
         late' \in [Ops -> Nat], sent' \in [Ops -> Nat]
  PROVE  Surroundings
<1>1. /\ dest' \in Seq(Product) /\ DOMAIN dest \subseteq DOMAIN dest'
      /\ \A d \in DOMAIN dest : dest'[d] = dest[d]
  BY AppendRow DEF Inv, TypeOK
<1>2. \A c \in CatNames : cats[c] > 0 => cats'[c] > 0
  OBVIOUS
<1>3. sourceIdMap' \in [Ops -> {NoId} \cup DOMAIN dest']
  BY <1>1 DEF Inv, TypeOK, port
<1> QED BY <1>1, <1>2, <1>3
  DEF Inv, TypeOK, Surroundings, CatalogFaithful, port

LEMMA NewbornTyped ==
  ASSUME NEW i \in Ops, NEW c \in Contents
  PROVE  Newborn(i, c) \in Product
BY PlanFacts DEF Newborn, Product, Operation

\* The steps of createHiddenProduct.
LEMMA CreateHiddenInv ==
  Inv /\ (ListBefore \/ ClickSkab \/ ListAfterOk \/ ListAfterError) => Inv'
<1> SUFFICES ASSUME Inv,
                    ListBefore \/ ClickSkab \/ ListAfterOk \/ ListAfterError
             PROVE  Inv'
  OBVIOUS
<1>1. pc \in CreateLabels /\ pc \notin {"findAfterReject", "readProduct"}
  BY DEF ListBefore, ClickSkab, ListAfterOk, ListAfterError, CreateLabels
<1>2. cur \in Ops /\ current.att + 1 \in Nat /\ ~circuit
  BY <1>1, CreateFacts
\* A row is taken for the product and remembered under its source id.
<1>3. ASSUME NEW d \in DOMAIN dest, Created(d),
             UNCHANGED <<runStatus, world, circuit, trouble, runs, sent, overwritten>>,
             catalog' \in {catalog, <<>>}
      PROVE  Inv'
  <2>1. sourceIdMap' \in [Ops -> {NoId} \cup DOMAIN dest]
    BY <1>2, <1>3 DEF Created, Inv, TypeOK
  <2>2. Faithful(catalog')
    BY <1>3, EmptyCatalog DEF Faithful, Inv, CatalogFaithful
  <2>3. Surroundings
    BY <1>3, <2>1, <2>2 DEF Surroundings, Inv, TypeOK, world
  <2> QED BY <1>1, <1>2, <1>3, <2>3, CreateStepInv DEF Created
<1>4. CASE ListBefore
  <2>1. CASE /\ \/ Goto("clickSkab") \/ Goto("findAfterFail")
             /\ UNCHANGED <<rec, sourceIdMap>>
    <3>1. Surroundings
      BY <1>4, <2>1, NothingAround DEF ListBefore, Inv, TypeOK
    <3> QED BY <1>1, <1>2, <1>4, <2>1, <3>1, CreateStepInv
      DEF ListBefore, CreateLabels
  <2>2. CASE \E d \in DOMAIN dest : Created(d)
    BY <1>4, <2>2, <1>3 DEF ListBefore
  <2> QED BY <1>4, <2>1, <2>2 DEF ListBefore
<1>5. CASE ClickSkab
  <2>1. sent' \in [Ops -> Nat]
    <3>1. sent \in [Ops -> Nat] /\ sent' = [sent EXCEPT ![cur] = @ + 1]
      BY <1>5 DEF ClickSkab, Inv, TypeOK
    <3> QED BY <1>2, <3>1, CountUp
  <2>2. late' \in [Ops -> Nat]
    <3>1. late \in [Ops -> Nat]
          /\ (late' = late \/ late' = [late EXCEPT ![cur] = @ + 1])
      BY <1>5 DEF ClickSkab, Inv, TypeOK
    <3> QED BY <1>2, <3>1, CountUp
  <2>3. UNCHANGED <<runStatus, rec, cats, port, circuit, trouble, runs,
                    overwritten>>
    BY <1>5 DEF ClickSkab, store
  <2>4. Surroundings
    <3>1. CASE \E c \in Contents : dest' = Append(dest, Newborn(cur, c))
      BY <1>2, <2>1, <2>2, <2>3, <3>1, AppendAround, NewbornTyped
      DEF Inv, TypeOK
    <3>2. CASE dest' = dest
      BY <2>1, <2>2, <2>3, <3>2
      DEF Surroundings, Inv, TypeOK, CatalogFaithful, port
    <3> QED BY <1>5, <3>1, <3>2 DEF ClickSkab
  <2>5. \E seen \in {"listAfterOk", "listAfterError", "findAfterFail"} :
          Goto(seen)
    BY <1>5 DEF ClickSkab
  <2> QED BY <1>1, <1>2, <2>3, <2>4, <2>5, CreateStepInv DEF CreateLabels
<1>6. CASE ListAfterOk
  <2>1. CASE Goto("findAfterFail") /\ UNCHANGED <<rec, port>>
    <3>1. Surroundings
      BY <1>6, <2>1, NothingAround DEF ListAfterOk, Inv, TypeOK, port
    <3> QED BY <1>1, <1>2, <1>6, <2>1, <3>1, CreateStepInv
      DEF ListAfterOk, CreateLabels
  <2>2. CASE catalog' = <<>> /\ \E d \in DOMAIN dest : Created(d)
    BY <1>6, <2>2, <1>3 DEF ListAfterOk
  <2> QED BY <1>6, <2>1, <2>2 DEF ListAfterOk, RowsOf
<1>7. CASE ListAfterError
  <2>1. CASE /\ UNCHANGED <<rec, sourceIdMap>>
             /\ \/ Goto("findAfterReject") /\ circuit' = TRUE
                \/ Goto("findAfterFail") /\ UNCHANGED circuit
    <3>1. Surroundings
      BY <1>7, <2>1, NothingAround DEF ListAfterError, Inv, TypeOK
    <3> QED BY <1>1, <1>2, <2>1, <3>1, CreateStepInv DEF CreateLabels
  <2>2. CASE circuit' = circuit /\ \E d \in DOMAIN dest : Created(d)
    BY <1>7, <2>2, <1>3 DEF ListAfterError
  <2> QED BY <1>7, <2>1, <2>2 DEF ListAfterError, RowsOf
<1> QED BY <1>4, <1>5, <1>6, <1>7

\* The verdict.  The row may come from the cached crawl, which is faithful.
LEMMA ReadProductInv == Inv /\ ReadProduct => Inv'
<1> SUFFICES ASSUME Inv, ReadProduct PROVE Inv'
  OBVIOUS
<1>1. pc \in CreateLabels /\ pc = "readProduct"
  BY DEF ReadProduct, CreateLabels
<1>2. PICK k \in Products : k = cur
  BY <1>1, CreateFacts
<1>3. /\ k \in Ops /\ k \notin Updates /\ Plan[k].action = "CREATE"
      /\ current = rec[k] /\ current \in OpRecord
      /\ databaseId \in DOMAIN dest /\ databaseId \in Nat
  BY <1>1, <1>2, CreateFacts, PlanFacts
  DEF Creates, Products, Inv, AtLabel, TypeOK
<1>4. PICK view \in Views :
        /\ catalog' = view
        /\ \/ /\ Matches(cur, Reading(view, databaseId))
              /\ Settle(Verdict("VERIFIED", FALSE))
              /\ UNCHANGED trouble
           \/ SettleBad(Verdict("VERIFY_FAILED", FALSE))
  BY DEF ReadProduct
<1>5. Surroundings
  BY <1>4, NothingAround DEF ReadProduct, SettleBad, Inv, TypeOK
\* Whatever the verdict is, it is stored with the row it is about.
<1>6. ASSUME NEW s \in OpStates, Settle(Verdict(s, FALSE)),
             s = "VERIFIED" => Matches(k, dest[databaseId])
      PROVE  Inv'
  <2>1. /\ Verdict(s, FALSE) \in OpRecord /\ Verdict(s, FALSE).state = s
        /\ Verdict(s, FALSE).did = databaseId
    BY <1>3 DEF Verdict, OpRecord
  <2>2. rec'[k] = Verdict(s, FALSE)
    BY <1>2, <1>3, <1>6 DEF Settle, Save, Inv, TypeOK
  <2>3. rec'[k].did = databaseId /\ rec'[k].state = s
    BY <2>1, <2>2
  <2>4. PICK d \in DOMAIN dest : d = databaseId
    BY <1>3
  <2>5. d \in DOMAIN dest' /\ dest'[d] = dest[d] /\ rec'[k].did = d
    BY <1>5, <2>3, <2>4 DEF Surroundings
  <2>6. s = "VERIFIED" => Matches(k, dest[d])
    BY <1>6, <2>4
  <2>7. RecordFits(k)'
    BY <1>2, <1>3, <2>3, <2>5, <2>6
    DEF RecordFits, Stands, Fulfilled, Matches, Newborn
  <2> QED BY <1>2, <1>3, <1>5, <1>6, <2>1, <2>7, SettleKeepsInv
<1>7. CASE /\ Matches(cur, Reading(view, databaseId))
           /\ Settle(Verdict("VERIFIED", FALSE))
  <2>1. Matches(k, dest[databaseId])
    BY <1>2, <1>3, <1>7, ViewsFaithful DEF Reading, Faithful
  <2> QED BY <1>6, <1>7, <2>1 DEF OpStates
<1>8. CASE SettleBad(Verdict("VERIFY_FAILED", FALSE))
  BY <1>6, <1>8 DEF OpStates, SettleBad
<1> QED BY <1>4, <1>7, <1>8

\* The process stops, or a late request lands.
LEMMA StopInv == Inv /\ (Stop \/ StopAtReadBack) => Inv'
<1> SUFFICES ASSUME Inv, Stop \/ StopAtReadBack PROVE Inv'
  OBVIOUS
<1>1. Memoryless /\ UNCHANGED <<runStatus, world, runs, sent, overwritten>>
  BY DEF Stop, StopAtReadBack, store
<1>2. Faithful(<<>>)
  BY EmptyCatalog DEF Faithful
<1>3. Surroundings
  BY <1>1, <1>2 DEF Memoryless, Surroundings, Inv, TypeOK, world
<1>4. /\ AtLabel' /\ BreakerTripped'
      /\ pc' = "off" /\ cur' = 1 /\ databaseId' = NoId
  BY <1>1
  DEF Memoryless, AtLabel, BreakerTripped, CategoryLabels, UpdateLabels,
      CreateLabels
<1>5. /\ rec' \in [Ops -> OpRecord]
      /\ \A i \in Ops : rec'[i] = rec[i] \/ RecordFits(i)'
  <2>1. CASE Stop
    BY <2>1 DEF Stop, store, Inv, TypeOK
  <2>2. CASE StopAtReadBack
    <3>0. pc \in CreateLabels /\ pc = "readProduct"
      BY <2>2 DEF StopAtReadBack, CreateLabels
    <3>1. PICK k \in Products : k = cur
      BY <3>0, CreateFacts
    <3>2. k \in Ops /\ k \notin Updates /\ Plan[k].action = "CREATE"
      BY PlanFacts DEF Creates, Products
    <3>3. databaseId \in DOMAIN dest /\ databaseId \in Nat
      BY <3>0 DEF Inv, TypeOK, AtLabel
    <3> DEFINE r == Verdict("READ_BACK", current.sys)
    <3>4. r \in OpRecord /\ r.did = databaseId /\ r.state = "READ_BACK"
      BY <3>0, <3>3, CreateFacts DEF Verdict, OpRecord, OpStates
    <3>5. rec' = [rec EXCEPT ![k] = r]
      BY <2>2, <3>1 DEF StopAtReadBack, Save
    <3> HIDE DEF r
    <3>6. rec'[k] = r /\ rec' \in [Ops -> OpRecord]
          /\ \A i \in Ops : i # k => rec'[i] = rec[i]
      BY <3>2, <3>4, <3>5 DEF Inv, TypeOK
    <3>7. rec'[k].did \in DOMAIN dest' /\ rec'[k].state = "READ_BACK"
      BY <1>1, <3>3, <3>4, <3>6 DEF world
    <3>8. RecordFits(k)'
      BY <3>2, <3>7 DEF RecordFits
    <3> QED BY <3>6, <3>8
  <2> QED BY <2>1, <2>2
<1> QED BY <1>3, <1>4, <1>5, StepKeepsInv, PlanFacts DEF Labels

LEMMA LandInv == ASSUME Inv, NEW i \in Ops, Land(i) PROVE Inv'
<1>1. late' \in [Ops -> Nat]
  BY DEF Land, Inv, TypeOK
<1>2. UNCHANGED <<rec, runStatus, port, pc, cur, databaseId, circuit, trouble,
                  runs, sent>>
  BY DEF Land, store
<1>3. ASSUME Surroundings PROVE Inv'
  <2>1. Stands(cur) /\ cur \in Updates => Stands(cur)'
    BY <1>2, <1>3 DEF Stands, Fulfilled, Surroundings, Matches, Newborn
  <2>2. AtLabel' /\ BreakerTripped'
    BY <1>2, <2>1
    DEF Inv, AtLabel, BreakerTripped, port, Matches, Newborn, UpdateLabels
  <2> QED BY <1>2, <1>3, <2>2, StepKeepsInv DEF Inv, TypeOK, Surroundings
<1>4. CASE \E c \in Contents : dest' = Append(dest, Newborn(i, c))
                              /\ UNCHANGED <<cats, overwritten>>
  BY <1>1, <1>2, <1>3, <1>4, AppendAround, NewbornTyped DEF Inv, TypeOK
<1>5. CASE cats' = [cats EXCEPT ![Plan[i].cat] = @ + 1]
             /\ UNCHANGED <<dest, overwritten>>
  <2>1. Plan[i].cat \in CatNames /\ cats \in [CatNames -> Nat]
    BY PlanFacts DEF Operation, Inv, TypeOK
  <2>2. /\ cats' \in [CatNames -> Nat]
        /\ \A c \in CatNames : cats'[c] >= cats[c] /\ cats[c] \in Nat
    BY <1>5, <2>1, CountUp
  <2>3. \A c \in CatNames : cats[c] > 0 => cats'[c] > 0
    BY <2>2
  <2>4. Surroundings
    BY <1>1, <1>2, <1>5, <2>2, <2>3
    DEF Surroundings, Inv, TypeOK, CatalogFaithful, port
  <2> QED BY <1>3, <2>4
<1>6. CASE /\ i \in Updates /\ overwritten' = overwritten \cup {i}
           /\ UNCHANGED cats
           /\ \E c \in Contents :
                dest' = [dest EXCEPT ![Plan[i].target] =
                           Rewritten(i, dest[Plan[i].target], c)]
  <2>1. PICK c \in Contents :
          dest' = [dest EXCEPT ![Plan[i].target] =
                     Rewritten(i, dest[Plan[i].target], c)]
    BY <1>6
  <2>2. i \in Updates /\ UNCHANGED <<rec, cats>>
    BY <1>2, <1>6
  <2>3. \A j \in Creates \cup Updates :
          j # i /\ Fulfilled(j) /\ RecordFits(j) => Fulfilled(j)'
    BY <2>1, <2>2, RewriteKeeps
  <2>4. overwritten \subseteq overwritten' /\ i \in overwritten'
        /\ overwritten' \subseteq Updates
    BY <1>6 DEF Inv, TypeOK
  <2>5. cur \in Updates /\ Stands(cur) => Stands(cur)'
    <3> SUFFICES ASSUME cur \in Updates, Stands(cur) PROVE Stands(cur)'
      OBVIOUS
    <3>1. PICK k \in Updates : k = cur
      OBVIOUS
    <3>2. RecordFits(k) /\ k \in Creates \cup Updates /\ cur' = k
      BY <1>2, <3>1, PlanFacts DEF Inv, RecordsFit
    <3>3. Stands(k)'
      BY <2>3, <2>4, <3>1, <3>2 DEF Stands
    <3> QED BY <3>2, <3>3 DEF Stands, Fulfilled, Matches, Newborn
  <2>6. AtLabel' /\ BreakerTripped'
    BY <1>2, <2>5
    DEF Inv, AtLabel, BreakerTripped, port, Matches, Newborn, UpdateLabels
  <2> QED BY <1>1, <1>2, <1>6, <2>1, <2>4, <2>6, RewriteInv
    DEF port, Inv, TypeOK
<1> QED BY <1>4, <1>5, <1>6 DEF Land

LEMMA NextInv == Inv /\ [Next]_vars => Inv'
<1> SUFFICES ASSUME Inv, [Next]_vars PROVE Inv'
  OBVIOUS
<1>1. CASE UNCHANGED vars
  <2>1. UNCHANGED <<rec, runStatus, dest, cats, late, catalog, sourceIdMap,
                    pc, cur, databaseId, circuit, trouble, runs, sent, overwritten>>
    BY <1>1 DEF vars
  <2>2. Surroundings
    BY <2>1 DEF Surroundings, Inv, TypeOK, CatalogFaithful
  <2>3. AtLabel' /\ BreakerTripped'
    BY <2>1
    DEF Inv, AtLabel, BreakerTripped, Stands, Fulfilled, Exists, Matches, Newborn
  <2> QED BY <2>1, <2>2, <2>3, StepKeepsInv DEF Inv, TypeOK
<1>2. CASE UpdateOp
  BY <1>2, UpdateProductInv, UpdateSettledInv, ReadUpdatedInv,
     CompareUpdatedInv
  DEF UpdateOp
<1>3. CASE CreateOp
  BY <1>3, LookInv, CreateHiddenInv, ReadProductInv DEF CreateOp
<1>4. CASE Step
  BY <1>2, <1>3, <1>4, LoopHeadInv, CategoryOpInv DEF Step
<1> QED BY <1>1, <1>4, StartInv, StopInv, LandInv DEF Next

-----------------------------------------------------------------------------
(* The theorems. *)

LEMMA Invariance == Spec => []Inv
BY InitInv, NextInv, PTL DEF Spec

\* Every variable keeps its type, in particular every cached id and every
\* remembered source id names a row of the destination.
THEOREM ExecutorTyped == Spec => []TypeOK
BY Invariance, PTL DEF Inv

\* executeMigrationPlan never reports VERIFIED of an operation that the
\* destination does not fulfil, for every plan, crash and late request: an
\* UPDATE only loses that when a late request of its own is stored after all.
THEOREM VerifiedIsTrue == Spec => []VerifiedHolds
<1>1. Inv => VerifiedHolds
  BY PlanFacts DEF Inv, RecordsFit, RecordFits, VerifiedHolds
<1> QED BY <1>1, Invariance, PTL
-----------------------------------------------------------------------------
(* Steps in the light of the invariant. *)

\* What VerifiedIsFinal says of one step.
KeepsVerified ==
  \A i \in Ops : rec[i].state = "VERIFIED" =>
    /\ rec'[i].state = "VERIFIED" /\ rec'[i].did = rec[i].did
    /\ sent'[i] = sent[i]

\* A step that works on a record not yet verified touches no other.
LEMMA OneRecord ==
  ASSUME Inv, cur \in Ops, rec[cur].state # "VERIFIED",
         rec' = rec \/ \E r \in OpRecord : rec' = [rec EXCEPT ![cur] = r],
         sent' = sent \/ sent' = [sent EXCEPT ![cur] = @ + 1]
  PROVE  KeepsVerified
<1>1. \A i \in Ops : i # cur => rec'[i] = rec[i] /\ sent'[i] = sent[i]
  BY DEF Inv, TypeOK
<1> QED BY <1>1 DEF KeepsVerified

LEMMA OffLoopKeepsVerified ==
  ASSUME Inv, Inv', CategoryOp \/ UpdateOp \/ CreateOp
  PROVE  KeepsVerified
<1>1. pc \in CategoryLabels \cup UpdateLabels \cup CreateLabels
  BY DEF CategoryOp, ListCategories, CreateCategory, CategoryReadBack,
         UpdateOp, UpdateProduct, UpdateAnswered, UpdateFailed, ReadUpdated,
         CompareUpdated,
         CreateOp, ResolveCategory, FindByIdentity, FindAgain, ListBefore,
         ClickSkab, ListAfterOk, ListAfterError, FindAfterFail, ReadProduct,
         CategoryLabels, UpdateLabels, CreateLabels
<1>2. cur \in Ops /\ rec[cur].state # "VERIFIED"
  BY <1>1, PlanFacts
  DEF Inv, AtLabel, CategoryLabels, UpdateLabels, CreateLabels
<1>3. rec' = rec \/ \E r : rec' = [rec EXCEPT ![cur] = r]
  <2>1. CASE CategoryOp
    BY <2>1 DEF CategoryOp, ListCategories, CreateCategory, CategoryReadBack,
                Settle, SettleBad, Save, store
  <2>2. CASE UpdateOp
    BY <2>2 DEF UpdateOp, UpdateProduct, UpdateAnswered, UpdateFailed,
                ReadUpdated, CompareUpdated, Settle, SettleBad, Save, store
  <2>3. CASE ResolveCategory \/ FindByIdentity \/ FindAgain
    BY <2>3 DEF ResolveCategory, FindByIdentity, FindAgain, Settle, SettleBad,
                Save, Written
  <2>4. CASE ListBefore \/ ClickSkab \/ ListAfterOk \/ ListAfterError
    BY <2>4 DEF ListBefore, ClickSkab, ListAfterOk, ListAfterError, Created,
                Save, Written, store
  <2>5. CASE FindAfterFail \/ ReadProduct
    BY <2>5 DEF FindAfterFail, ReadProduct, Settle, SettleBad, Save, Written
  <2> QED BY <2>1, <2>2, <2>3, <2>4, <2>5 DEF CreateOp
<1>4. rec' = rec \/ \E r \in OpRecord : rec' = [rec EXCEPT ![cur] = r]
  BY <1>2, <1>3 DEF Inv, TypeOK
<1>5. sent' = sent \/ sent' = [sent EXCEPT ![cur] = @ + 1]
  BY DEF CategoryOp, ListCategories, CreateCategory, CategoryReadBack,
         UpdateOp, UpdateProduct, UpdateAnswered, UpdateFailed, ReadUpdated,
         CompareUpdated,
         CreateOp, ResolveCategory, FindByIdentity, FindAgain, ListBefore,
         ClickSkab, ListAfterOk, ListAfterError, FindAfterFail, ReadProduct
<1> QED BY <1>2, <1>4, <1>5, OneRecord

LEMMA StepKeepsVerified ==
  ASSUME Inv, Inv', [Next]_vars
  PROVE  KeepsVerified
<1>1. CASE CategoryOp \/ UpdateOp \/ CreateOp
  BY <1>1, OffLoopKeepsVerified
<1>2. CASE BlockRemaining
  <2>1. cur \in Ops /\ rec[cur].state # "VERIFIED" /\ sent' = sent
    BY <1>2 DEF BlockRemaining, AtOp, SystemicBlock, current
  <2>2. \E r : rec' = [rec EXCEPT ![cur] = r]
    BY <1>2 DEF BlockRemaining, SettleBad, Settle, Save
  <2>3. \E r \in OpRecord : rec' = [rec EXCEPT ![cur] = r]
    BY <2>1, <2>2 DEF Inv, TypeOK
  <2> QED BY <2>1, <2>3, OneRecord
<1>3. CASE SkipDone
  <2>1. /\ cur \in Ops /\ sent' = sent
        /\ rec' = [rec EXCEPT ![cur] = [rec[cur] EXCEPT !.state = "VERIFIED"]]
    BY <1>3 DEF SkipDone, AtOp, Settle, Save, current
  <2>2. rec[cur] \in OpRecord
    BY <2>1 DEF Inv, TypeOK
  <2> QED BY <2>1, <2>2 DEF KeepsVerified, Inv, TypeOK, OpRecord
<1>4. CASE KeepBlocked
  <2>1. /\ cur \in Ops /\ Plan[cur].action \in {"BLOCK", "REVIEW"}
        /\ sent' = sent
    BY <1>4 DEF KeepBlocked, AtOp, op
  <2>2. rec[cur].state # "VERIFIED"
    BY <2>1 DEF Inv, RecordsFit, RecordFits
  <2>3. \E r : rec' = [rec EXCEPT ![cur] = r]
    BY <1>4 DEF KeepBlocked, SettleBad, Settle, Save
  <2>4. \E r \in OpRecord : rec' = [rec EXCEPT ![cur] = r]
    BY <2>1, <2>3 DEF Inv, TypeOK
  <2> QED BY <2>1, <2>2, <2>4, OneRecord
<1>5. CASE BeginUpdate
  <2>1. cur \in Ops /\ rec[cur].state # "VERIFIED" /\ sent' = sent
    BY <1>5 DEF BeginUpdate, AtOp, current
  <2>2. rec' = rec \/ \E r : rec' = [rec EXCEPT ![cur] = r]
    BY <1>5 DEF BeginUpdate, SettleBad, Settle, Save
  <2>3. rec' = rec \/ \E r \in OpRecord : rec' = [rec EXCEPT ![cur] = r]
    BY <2>1, <2>2 DEF Inv, TypeOK
  <2> QED BY <2>1, <2>3, OneRecord
<1>6. CASE BeginCreate \/ Finish \/ Stop \/ UNCHANGED vars
           \/ \E i \in Ops : Land(i)
  BY <1>6 DEF BeginCreate, Finish, Stop, Land, vars, store, KeepsVerified
<1>7. CASE Start
  BY <1>7 DEF Start, KeepsVerified
<1>8. CASE StopAtReadBack
  <2>1. pc \in CreateLabels /\ sent' = sent
    BY <1>8 DEF StopAtReadBack, CreateLabels
  <2>2. \E r : rec' = [rec EXCEPT ![cur] = r]
    BY <1>8 DEF StopAtReadBack, Save
  <2>3. cur \in Ops /\ rec[cur].state # "VERIFIED"
    BY <2>1, CreateFacts
  <2>4. \E r \in OpRecord : rec' = [rec EXCEPT ![cur] = r]
    BY <2>2, <2>3 DEF Inv, TypeOK
  <2> QED BY <2>1, <2>3, <2>4, OneRecord
<1> QED BY <1>1, <1>2, <1>3, <1>4, <1>5, <1>6, <1>7, <1>8
  DEF Next, Step, LoopHead

\* No later run writes, moves or re-binds what a run has verified, wherever
\* runs stop (the early returns on VERIFIED in executor.ts).
THEOREM VerifiedStays == Spec => VerifiedIsFinal
<1>1. Inv /\ Inv' /\ [Next]_vars => KeepsVerified
  BY StepKeepsVerified
<1> QED BY <1>1, Invariance, PTL DEF Spec, VerifiedIsFinal, KeepsVerified

\* A deterministic rejection ends the submissions of its run (the circuit
\* breaker of createCircuitBreaker.ts and its check at the head of the loop).
THEOREM BreakerStops == Spec => BreakerHolds
<1>1. Inv /\ [Next]_vars => (circuit => \A i \in Creates : sent'[i] = sent[i])
  <2> SUFFICES ASSUME Inv, [Next]_vars, circuit
               PROVE  \A i \in Creates : sent'[i] = sent[i]
    OBVIOUS
  <2>1. pc \notin {"createCategory", "clickSkab"}
    BY DEF Inv, BreakerTripped, UpdateLabels
  <2>2. sent' = sent \/ UpdateProduct
    BY <2>1
    DEF vars, Next, Start, Stop, StopAtReadBack, Land, Step,
        LoopHead, BlockRemaining, SkipDone, KeepBlocked, BeginCreate,
        BeginUpdate, Finish,
        CategoryOp, ListCategories, CreateCategory, CategoryReadBack,
        UpdateOp, UpdateAnswered, UpdateFailed, ReadUpdated, CompareUpdated,
        CreateOp, ResolveCategory, FindByIdentity, FindAgain, ListBefore,
        ClickSkab, ListAfterOk, ListAfterError, FindAfterFail, ReadProduct
  <2>3. CASE UpdateProduct
    <3>1. cur \notin Creates
      BY <2>3, UpdateFacts DEF UpdateProduct, UpdateLabels
    <3> QED BY <2>3, <3>1, PlanFacts DEF UpdateProduct, Inv, TypeOK
  <2> QED BY <2>2, <2>3
<1> QED BY <1>1, Invariance, PTL DEF Spec, BreakerHolds

-----------------------------------------------------------------------------
(* What a finished run may say of itself.  Its status is computed from the  *)
(* records, so it is worth as much as the loop that filled them: every      *)
(* operation the loop has left has a verdict, and a run without trouble has *)
(* left none but VERIFIED ones.                                             *)

\* The states in which the loop leaves an operation.
Verdicts == OpStates \ {"NONE", "WRITTEN", "READ_BACK"}

DoneInv ==
  /\ pc # "off" => runStatus = "RUNNING"
  /\ pc # "off" => \A i \in Ops : i < cur => rec[i].state \in Verdicts
  /\ pc # "off" /\ ~trouble =>
       \A i \in Creates \cup Updates : i < cur => rec[i].state = "VERIFIED"
  /\ runStatus \notin {"NONE", "RUNNING"} =>
       \A i \in Ops : rec[i].state \in Verdicts
  /\ runStatus = "COMPLETED" =>
       \A i \in Creates \cup Updates : rec[i].state = "VERIFIED"

LEMMA StatesAreStates ==
  ASSUME Inv PROVE \A i \in Ops : rec[i] \in OpRecord /\ rec[i].state \in OpStates
BY DEF Inv, TypeOK, OpRecord

\* The two things a step inside a run may do: work on, or settle the operation
\* at hand; it is VERIFIED or it is trouble.
Works ==
  /\ pc # "off" /\ pc' # "off" /\ runStatus' = runStatus
  /\ cur' = cur /\ trouble' = trouble
  /\ \A i \in Ops : i # cur => rec'[i] = rec[i]

Settles ==
  /\ pc # "off" /\ pc' # "off" /\ runStatus' = runStatus
  /\ cur' = cur + 1
  /\ \A i \in Ops : i # cur => rec'[i] = rec[i]
  /\ cur \in Ops => rec'[cur].state \in Verdicts
  /\ \/ trouble' = TRUE
     \/ /\ trouble' = trouble
        /\ cur \in Ops => rec'[cur].state = "VERIFIED"

LEMMA WorkKeepsDone ==
  ASSUME Inv, DoneInv, Works \/ Settles PROVE DoneInv'
<1>1. cur \in Nat /\ Ops \subseteq Nat /\ Creates \cup Updates \subseteq Ops
  BY PlanFacts DEF Inv, TypeOK
<1>2. ASSUME NEW i \in Ops, i < cur', i # cur
      PROVE  i < cur /\ rec'[i] = rec[i]
  BY <1>1, <1>2 DEF Works, Settles
<1>3. ASSUME cur < cur'
      PROVE  Settles
  BY <1>1, <1>3 DEF Works, Settles
<1>4. pc # "off" /\ runStatus' = runStatus /\ runStatus = "RUNNING"
  BY DEF Works, Settles, DoneInv
<1>5. \A i \in Ops : i < cur' => rec'[i].state \in Verdicts
  <2> SUFFICES ASSUME NEW i \in Ops, i < cur' PROVE rec'[i].state \in Verdicts
    OBVIOUS
  <2>1. CASE i = cur
    BY <1>3, <2>1 DEF Settles
  <2>2. CASE i # cur
    BY <1>2, <1>4, <2>2 DEF DoneInv
  <2> QED BY <2>1, <2>2
<1>6. ~trouble' =>
        \A i \in Creates \cup Updates : i < cur' => rec'[i].state = "VERIFIED"
  <2> SUFFICES ASSUME ~trouble', NEW i \in Creates \cup Updates, i < cur'
               PROVE  rec'[i].state = "VERIFIED"
    OBVIOUS
  <2>1. ~trouble
    BY DEF Works, Settles
  <2>2. CASE i = cur
    <3>1. Settles /\ cur \in Ops
      BY <1>1, <1>3, <2>2
    <3>2. trouble' # TRUE
      OBVIOUS
    <3> QED BY <2>2, <3>1, <3>2 DEF Settles
  <2>3. CASE i # cur
    BY <1>1, <1>2, <1>4, <2>1, <2>3 DEF DoneInv
  <2> QED BY <2>2, <2>3
<1> QED BY <1>4, <1>5, <1>6 DEF DoneInv

\* Settle with a given state, as every action of the executor does it.
LEMMA Settling ==
  ASSUME Inv, NEW r, Settle(r), r.state \in Verdicts,
         pc # "off", runStatus' = runStatus,
         trouble' = TRUE \/ (trouble' = trouble /\ r.state = "VERIFIED")
  PROVE  Settles
<1>1. rec' = [rec EXCEPT ![cur] = r] /\ pc' = "loop" /\ cur' = cur + 1
  BY DEF Settle, Save, NextOp
<1>2. DOMAIN rec = Ops
  BY DEF Inv, TypeOK
<1>3. /\ \A i \in Ops : i # cur => rec'[i] = rec[i]
      /\ cur \in Ops => rec'[cur] = r
  BY <1>1, <1>2
<1> QED BY <1>1, <1>3 DEF Settles

\* A record that gets a new state and keeps the rest.
LEMMA NewState ==
  ASSUME Inv, cur \in Ops, NEW s, NEW a
  PROVE  /\ [current EXCEPT !.state = s].state = s
         /\ [current EXCEPT !.state = s, !.sys = TRUE].state = s
         /\ Bad(s, a).state = s
         /\ Verdict(s, FALSE).state = s
BY StatesAreStates DEF current, Bad, Verdict, OpRecord

LEMMA VerdictStates ==
  {"PENDING_WRITE", "VERIFIED", "BLOCKED", "WRITE_FAILED", "VERIFY_FAILED"}
    \subseteq Verdicts
BY DEF Verdicts, OpStates

\* Giving an operation up, or verifying it.
LEMMA GivesUp ==
  ASSUME Inv, cur \in Ops, pc # "off", runStatus' = runStatus,
         \/ \E s \in Verdicts : \E a, d : SettleBad([Bad(s, a) EXCEPT !.did = d])
         \/ \E s \in Verdicts : \E a : SettleBad(Bad(s, a))
         \/ \E s \in Verdicts : SettleBad([current EXCEPT !.state = s, !.sys = TRUE])
         \/ \E s \in Verdicts : SettleBad(Verdict(s, FALSE))
  PROVE  Settles
<1>1. \E r : SettleBad(r) /\ r.state \in Verdicts
  <2>1. CASE \E s \in Verdicts : \E a, d : SettleBad([Bad(s, a) EXCEPT !.did = d])
    <3>1. PICK s, a, d : s \in Verdicts /\ SettleBad([Bad(s, a) EXCEPT !.did = d])
      BY <2>1
    <3>2. [Bad(s, a) EXCEPT !.did = d].state = s
      BY StatesAreStates DEF current, Bad, OpRecord
    <3> QED BY <3>1, <3>2
  <2>2. CASE \E s \in Verdicts : \E a : SettleBad(Bad(s, a))
    <3>1. PICK s, a : s \in Verdicts /\ SettleBad(Bad(s, a))
      BY <2>2
    <3>2. Bad(s, a).state = s
      BY NewState
    <3> QED BY <3>1, <3>2
  <2>3. CASE \E s \in Verdicts :
               SettleBad([current EXCEPT !.state = s, !.sys = TRUE])
    BY <2>3, NewState
  <2>4. CASE \E s \in Verdicts : SettleBad(Verdict(s, FALSE))
    BY <2>4, NewState
  <2> QED BY <2>1, <2>2, <2>3, <2>4
<1>2. PICK r : SettleBad(r) /\ r.state \in Verdicts
  BY <1>1
<1> QED BY <1>2, Settling DEF SettleBad

LEMMA Verifies ==
  ASSUME Inv, cur \in Ops, pc # "off", runStatus' = runStatus,
         trouble' = trouble,
         \/ Settle([current EXCEPT !.state = "VERIFIED"])
         \/ Settle(Verdict("VERIFIED", FALSE))
  PROVE  Settles
BY NewState, Settling, VerdictStates

LEMMA Working ==
  ASSUME Inv, pc # "off", runStatus' = runStatus, trouble' = trouble,
         rec' = rec \/ \E r : Save(r),
         (\E l \in Labels \ {"off"} : Goto(l)) \/ (\E d : ReadBack(d))
  PROVE  Works
<1>1. \A i \in Ops : i # cur => rec'[i] = rec[i]
  BY DEF Inv, TypeOK, Save
<1>2. cur' = cur /\ pc' # "off"
  BY DEF Goto, ReadBack
<1> QED BY <1>1, <1>2 DEF Works

LEMMA LoopHeadDone ==
  ASSUME Inv, LoopHead, ~Finish PROVE Works \/ Settles
<1>0. LoopHead => pc = "loop" /\ runStatus' = runStatus
  BY DEF LoopHead, BlockRemaining, SkipDone, KeepBlocked, BeginCreate,
         BeginUpdate, AtOp, store
<1>1. CASE BlockRemaining
  <2>1. cur \in Ops /\ pc # "off" /\ runStatus' = runStatus
        /\ SettleBad([current EXCEPT !.state = "BLOCKED", !.sys = TRUE])
    BY <1>1 DEF BlockRemaining, AtOp
  <2> QED BY <2>1, GivesUp, VerdictStates
<1>2. CASE SkipDone
  <2>1. cur \in Ops /\ pc # "off" /\ runStatus' = runStatus
        /\ trouble' = trouble /\ Settle([current EXCEPT !.state = "VERIFIED"])
    BY <1>2 DEF SkipDone, AtOp
  <2> QED BY <2>1, Verifies
<1>3. CASE KeepBlocked
  <2>1. cur \in Ops /\ pc # "off" /\ runStatus' = runStatus
        /\ SettleBad(Bad("BLOCKED", current.att))
    BY <1>3 DEF KeepBlocked, AtOp
  <2> QED BY <2>1, GivesUp, VerdictStates
<1>4. CASE BeginCreate
  <2>1. pc # "off" /\ runStatus' = runStatus /\ trouble' = trouble /\ rec' = rec
        /\ \E l \in Labels \ {"off"} : Goto(l)
    BY <1>4 DEF BeginCreate, AtOp, store, Labels
  <2> QED BY <2>1, Working
<1>5. CASE BeginUpdate
  <2>1. cur \in Ops /\ pc # "off" /\ runStatus' = runStatus
    BY <1>5 DEF BeginUpdate, AtOp
  <2>2. CASE SettleBad(Bad("BLOCKED", current.att))
    BY <2>1, <2>2, GivesUp, VerdictStates
  <2>3. CASE Goto("updateProduct") /\ UNCHANGED <<rec, trouble>>
    BY <2>1, <2>3, Working DEF Labels
  <2> QED BY <1>5, <2>2, <2>3 DEF BeginUpdate
<1> QED BY <1>1, <1>2, <1>3, <1>4, <1>5 DEF LoopHead

LEMMA CategoryDone == ASSUME Inv, CategoryOp PROVE Works \/ Settles
<1>1. pc \in CategoryLabels /\ pc # "off" /\ runStatus' = runStatus
  BY DEF CategoryOp, ListCategories, CreateCategory, CategoryReadBack,
         CategoryLabels
<1>2. cur \in Ops
  BY <1>1, PlanFacts DEF Inv, AtLabel
<1>3. \/ trouble' = trouble /\ Settle([current EXCEPT !.state = "VERIFIED"])
      \/ SettleBad(Bad("WRITE_FAILED", current.att))
      \/ /\ rec' = rec /\ trouble' = trouble
         /\ \E l \in Labels \ {"off"} : Goto(l)
  BY DEF CategoryOp, ListCategories, CreateCategory, CategoryReadBack, Labels
<1> QED BY <1>1, <1>2, <1>3, Verifies, GivesUp, Working, VerdictStates

LEMMA UpdateDone == ASSUME Inv, UpdateOp PROVE Works \/ Settles
<1>1. pc \in UpdateLabels /\ pc # "off" /\ runStatus' = runStatus
  BY DEF UpdateOp, UpdateProduct, UpdateAnswered, UpdateFailed, ReadUpdated,
         CompareUpdated, UpdateLabels, store
<1>2. cur \in Ops
  BY <1>1, PlanFacts DEF Inv, AtLabel
<1>3. CASE UpdateProduct \/ UpdateAnswered \/ ReadUpdated
  <2>1. /\ rec' = rec \/ \E r : Save(r)
        /\ trouble' = trouble /\ \E l \in Labels \ {"off"} : Goto(l)
    BY <1>3 DEF UpdateProduct, UpdateAnswered, ReadUpdated, Labels, store
  <2> QED BY <1>1, <2>1, Working
<1>4. CASE UpdateFailed
  <2>1. SettleBad([Bad("WRITE_FAILED", current.att + 1)
                     EXCEPT !.did = UpdateTarget])
    BY <1>4 DEF UpdateFailed
  <2> QED BY <1>1, <1>2, <2>1, GivesUp, VerdictStates
<1>5. CASE CompareUpdated
  <2>1. \/ trouble' = trouble /\ Settle([current EXCEPT !.state = "VERIFIED"])
        \/ SettleBad(Bad("VERIFY_FAILED", current.att))
    BY <1>5 DEF CompareUpdated
  <2> QED BY <1>1, <1>2, <2>1, Verifies, GivesUp, VerdictStates
<1> QED BY <1>3, <1>4, <1>5 DEF UpdateOp

LEMMA CreateDone == ASSUME Inv, CreateOp PROVE Works \/ Settles
<1>1. pc \in CreateLabels /\ pc # "off" /\ runStatus' = runStatus
  BY DEF CreateOp, ResolveCategory, FindByIdentity, FindAgain, ListBefore,
         ClickSkab, ListAfterOk, ListAfterError, FindAfterFail, ReadProduct,
         CreateLabels, store
<1>2. cur \in Ops
  BY <1>1, CreateFacts
<1>3. CASE ReadProduct
  <2>1. \/ trouble' = trouble /\ Settle(Verdict("VERIFIED", FALSE))
        \/ SettleBad(Verdict("VERIFY_FAILED", FALSE))
    BY <1>3 DEF ReadProduct
  <2> QED BY <1>1, <1>2, <2>1, Verifies, GivesUp, VerdictStates
<1>4. CASE ResolveCategory \/ FindByIdentity \/ FindAgain \/ FindAfterFail
  <2>1. \/ \E s \in {"BLOCKED", "WRITE_FAILED", "PENDING_WRITE"} : \E a :
             SettleBad(Bad(s, a))
        \/ \E d, a : Written(d, a) /\ trouble' = trouble
        \/ /\ rec' = rec /\ trouble' = trouble
           /\ (\E l \in Labels \ {"off"} : Goto(l)) \/ (\E d : ReadBack(d))
    BY <1>4 DEF ResolveCategory, FindByIdentity, FindAgain, FindAfterFail,
                Labels
  <2>2. ASSUME NEW d, NEW a, Written(d, a), trouble' = trouble PROVE Works
    BY <1>1, <2>2, Working DEF Written
  <2> QED BY <1>1, <1>2, <2>1, <2>2, Working, GivesUp, VerdictStates
<1>5. CASE ListBefore \/ ClickSkab \/ ListAfterOk \/ ListAfterError
  <2>1. /\ trouble' = trouble
        /\ \/ \E d, a : Written(d, a)
           \/ rec' = rec /\ \E l \in Labels \ {"off"} : Goto(l)
    BY <1>5 DEF ListBefore, ClickSkab, ListAfterOk, ListAfterError, Created,
                store, Labels
  <2>2. ASSUME NEW d, NEW a, Written(d, a) PROVE Works
    BY <1>1, <2>1, <2>2, Working DEF Written
  <2> QED BY <1>1, <2>1, <2>2, Working
<1> QED BY <1>3, <1>4, <1>5 DEF CreateOp

\* The status is computed when the loop is past its last operation.
LEMMA FinishDone == ASSUME Inv, DoneInv, Finish PROVE DoneInv'
<1>1. \A i \in Ops : i < cur
  BY PlanFacts DEF Finish, Inv, TypeOK
<1>2. \A i \in Ops : rec'[i].state \in Verdicts
  BY <1>1 DEF Finish, DoneInv
<1>3. runStatus' = "COMPLETED" =>
        \A i \in Creates \cup Updates : rec'[i].state = "VERIFIED"
  <2>1. CASE Workflow = "CREATE_MENU"
    BY <2>1, PreflightPassed DEF Finish, FinalStatus, Preflighted
  <2>2. CASE Workflow # "CREATE_MENU"
    BY <1>1, <2>2, PlanFacts DEF Finish, FinalStatus, DoneInv
  <2> QED BY <2>1, <2>2
<1>4. pc' = "off"
  BY DEF Finish, Memoryless
<1> QED BY <1>2, <1>3, <1>4 DEF DoneInv

LEMMA DoneInvariance == Spec => []DoneInv
<1>1. Init => DoneInv
  BY DEF Init, DoneInv
<1>2. Inv /\ DoneInv /\ [Next]_vars => DoneInv'
  <2> SUFFICES ASSUME Inv, DoneInv, [Next]_vars PROVE DoneInv'
    OBVIOUS
  <2>1. CASE Step /\ ~Finish
    BY <2>1, LoopHeadDone, CategoryDone, UpdateDone, CreateDone, WorkKeepsDone
    DEF Step
  <2>2. CASE Finish
    BY <2>2, FinishDone
  <2>3. CASE Start
    <3>1. \A i \in Ops : ~(i < 1)
      BY PlanFacts
    <3> QED BY <2>3, <3>1, PlanFacts DEF Start, DoneInv
  <2>4. CASE Stop
    BY <2>4 DEF Stop, Memoryless, store, DoneInv
  <2>5. CASE StopAtReadBack
    BY <2>5 DEF StopAtReadBack, Memoryless, DoneInv
  <2>6. CASE UNCHANGED <<store, pc, cur, trouble>>
    BY <2>6 DEF store, DoneInv
  <2> QED BY <2>1, <2>2, <2>3, <2>4, <2>5, <2>6
    DEF Next, Step, Land, vars, store
<1> QED BY <1>1, <1>2, Invariance, PTL DEF Spec

\* A run that reached its end left no operation between write and verdict,
\* wherever earlier runs were stopped (the loop of executeMigrationPlan).
THEOREM NothingIsHalfDone == Spec => []NothingHalfDone
<1>1. DoneInv => NothingHalfDone
  BY DEF DoneInv, NothingHalfDone, Verdicts
<1> QED BY <1>1, DoneInvariance, PTL

\* COMPLETED is true: every planned category, product and improvement is at
\* the destination as planned, and no product answers for two operations.
THEOREM CompletedIsComplete == Spec => []CompletedMeansComplete
<1>1. Inv /\ DoneInv => CompletedMeansComplete
  <2> SUFFICES ASSUME Inv, DoneInv, runStatus = "COMPLETED"
               PROVE  /\ \A i \in Creates \cup Updates : Stands(i)
                      /\ \A i, j \in Products : rec[i].did = rec[j].did => i = j
    BY DEF CompletedMeansComplete
  <2>1. \A i \in Creates \cup Updates : rec[i].state = "VERIFIED"
    BY DEF DoneInv
  <2>2. \A i \in Creates \cup Updates : Stands(i)
    BY <2>1, PlanFacts DEF Inv, RecordsFit, RecordFits
  <2>3. ASSUME NEW i \in Products PROVE dest[rec[i].did].num = Plan[i].num
    <3>1. i \in Creates /\ i \notin Updates
      BY PlanFacts
    <3>2. Matches(i, dest[rec[i].did])
      BY <2>2, <3>1 DEF Stands, Fulfilled, Inv, TypeOK
    <3> QED BY <3>2 DEF Matches, Newborn
  <2> QED BY <2>2, <2>3, PreflightPassed DEF Preflighted
<1> QED BY <1>1, Invariance, DoneInvariance, PTL


-----------------------------------------------------------------------------
(***************************************************************************)
(* No duplicates, for every plan, every number of runs and wherever each of *)
(* them stops, provided that no create request outlives its timeout (MaxLate*)
(* = 0; run exec_late shows that this is needed).                           *)
(*                                                                         *)
(* The argument: a product CREATE is submitted only from the label          *)
(* clickSkab, which is reached only from a listing that showed no row with  *)
(* the menu number, and nothing else may add a row before the submission    *)
(* (Fresh); two CREATEs have different numbers and no listed product has    *)
(* either (PreflightPassed).  A category is submitted only when the listing *)
(* of the same step has none of its name.                                   *)
(***************************************************************************)

\* No request is left in flight.
NoLate == \A i \in Ops : late[i] = 0

\* About to submit, the executor is right that no row has the menu number.
Fresh == pc = "clickSkab" => \A d \in DOMAIN dest : dest[d].num # Plan[cur].num

DupInv == Inv /\ NoLate /\ Fresh /\ NeverDuplicated

\* A step that appends no row and changes no number and no category.
Quiet ==
  /\ DOMAIN dest' = DOMAIN dest
  /\ \A d \in DOMAIN dest : dest'[d].num = dest[d].num
  /\ UNCHANGED <<cats, late>>

LEMMA QuietKeepsDupInv ==
  ASSUME DupInv, Inv', Quiet,
         pc' = "clickSkab" =>
           \A d \in DOMAIN dest : dest[d].num # Plan[cur'].num
  PROVE  DupInv'
<1>1. NoLate'
  BY DEF DupInv, NoLate, Quiet
<1>2. Fresh'
  BY DEF Fresh, Quiet
<1>3. NeverDuplicated'
  BY DEF DupInv, NeverDuplicated, Ambiguous, Quiet
<1> QED BY <1>1, <1>2, <1>3 DEF DupInv

\* Most steps leave the destination alone and do not submit next.
LEMMA BystanderKeepsDupInv ==
  ASSUME DupInv, Inv', UNCHANGED world, pc' # "clickSkab"
  PROVE  DupInv'
<1>1. Quiet
  BY DEF Quiet, world
<1> QED BY <1>1, QuietKeepsDupInv

LEMMA LoopHeadDup ==
  ASSUME DupInv, Inv', Start \/ LoopHead \/ Stop \/ StopAtReadBack
  PROVE  DupInv'
<1>1. UNCHANGED world
  BY DEF Start, Stop, StopAtReadBack, LoopHead, BlockRemaining, SkipDone,
         KeepBlocked, BeginCreate, BeginUpdate, Finish
<1>2. pc' # "clickSkab"
  BY DEF Start, Stop, StopAtReadBack, LoopHead, BlockRemaining, SkipDone,
         KeepBlocked, BeginCreate, BeginUpdate, Finish, Memoryless,
         SettleBad, Settle, NextOp, Goto
<1> QED BY <1>1, <1>2, BystanderKeepsDupInv

LEMMA LookDup ==
  ASSUME DupInv, Inv',
         \/ ListCategories \/ CategoryReadBack
         \/ UpdateAnswered \/ UpdateFailed \/ ReadUpdated \/ CompareUpdated
         \/ ResolveCategory \/ FindByIdentity \/ FindAgain
         \/ ListAfterOk \/ ListAfterError \/ FindAfterFail \/ ReadProduct
  PROVE  DupInv'
<1>1. UNCHANGED world
  BY DEF ListCategories, CategoryReadBack, UpdateAnswered, UpdateFailed,
         ReadUpdated, CompareUpdated, ResolveCategory, FindByIdentity, FindAgain, ListAfterOk, ListAfterError,
         FindAfterFail, ReadProduct
<1>2. CASE ListCategories \/ CategoryReadBack
  <2>1. pc' # "clickSkab"
    BY <1>2 DEF ListCategories, CategoryReadBack, SettleBad, Settle, NextOp, Goto
  <2> QED BY <1>1, <2>1, BystanderKeepsDupInv
<1>5. CASE UpdateAnswered \/ UpdateFailed \/ ReadUpdated \/ CompareUpdated
  <2>1. pc' # "clickSkab"
    BY <1>5 DEF UpdateAnswered, UpdateFailed, ReadUpdated, CompareUpdated,
                SettleBad, Settle, NextOp, Goto
  <2> QED BY <1>1, <2>1, BystanderKeepsDupInv
<1>3. CASE ResolveCategory \/ FindByIdentity \/ FindAgain
  <2>1. pc' # "clickSkab"
    BY <1>3 DEF ResolveCategory, FindByIdentity, FindAgain, SettleBad,
                Settle, NextOp, Goto, Written, ReadBack
  <2> QED BY <1>1, <2>1, BystanderKeepsDupInv
<1>4. CASE ListAfterOk \/ ListAfterError \/ FindAfterFail \/ ReadProduct
  <2>1. pc' # "clickSkab"
    BY <1>4 DEF ListAfterOk, ListAfterError, FindAfterFail, ReadProduct,
                SettleBad, Settle, NextOp, Goto, Created, Written, ReadBack
  <2> QED BY <1>1, <2>1, BystanderKeepsDupInv
<1> QED BY <1>2, <1>3, <1>4, <1>5

\* The listing right before the submission is what makes Fresh true.
LEMMA ListBeforeDup == ASSUME DupInv, Inv', ListBefore PROVE DupInv'
<1>1. Quiet
  BY DEF ListBefore, Quiet, world
<1>2. pc' = "clickSkab" =>
        \A d \in DOMAIN dest : dest[d].num # Plan[cur'].num
  BY DEF ListBefore, Goto, Created, Written, ReadBack, op
<1> QED BY <1>1, <1>2, QuietKeepsDupInv

LEMMA UpdateKeepsNumbers ==
  ASSUME Inv, UpdateProduct
  PROVE  /\ DOMAIN dest' = DOMAIN dest
         /\ \A d \in DOMAIN dest : dest'[d].num = dest[d].num
<1>1. pc \in UpdateLabels
  BY DEF UpdateProduct, UpdateLabels
<1>2. PICK k \in Updates : k = cur
  BY <1>1, UpdateFacts
<1>3. UNCHANGED <<rec, cats>> /\ UpdateTarget = Plan[k].target
  BY <1>1, <1>2, UpdateFacts DEF UpdateProduct, store
<1>4. \/ dest' = dest
      \/ \E c \in Contents :
           dest' = [dest EXCEPT ![Plan[k].target] =
                      Rewritten(k, dest[Plan[k].target], c)]
  BY <1>2, <1>3 DEF UpdateProduct
<1> QED BY <1>3, <1>4, RewriteKeeps

LEMMA UpdateDup ==
  ASSUME DupInv, Inv', UpdateProduct, MaxLate = 0
  PROVE  DupInv'
<1>1. cats' = cats /\ pc' # "clickSkab"
  BY DEF UpdateProduct, Goto
<1>2. late' = late
  <2>1. cur \in Ops
    BY UpdateFacts DEF DupInv, UpdateProduct, UpdateLabels
  <2>2. ~ \A i \in Ops : late[i] < MaxLate
    BY <2>1 DEF DupInv, NoLate
  <2> QED BY <2>2 DEF UpdateProduct
<1>3. /\ DOMAIN dest' = DOMAIN dest
      /\ \A d \in DOMAIN dest : dest'[d].num = dest[d].num
  BY UpdateKeepsNumbers DEF DupInv
<1> QED BY <1>1, <1>2, <1>3, QuietKeepsDupInv DEF Quiet

LEMMA CreateCategoryDup ==
  ASSUME DupInv, Inv', CreateCategory, MaxLate = 0
  PROVE  DupInv'
<1>1. /\ dest' = dest /\ pc' # "clickSkab" /\ late' = late
      /\ \/ cats' = cats
         \/ ~Exists(op.cat) /\ cats' = [cats EXCEPT ![op.cat] = @ + 1]
  <2>1. cur \in Ops
    BY PlanFacts
    DEF CreateCategory, DupInv, Inv, AtLabel, CategoryLabels
  <2>2. ~ \A i \in Ops : late[i] < MaxLate
    BY <2>1 DEF DupInv, NoLate
  <2> QED BY <2>2 DEF CreateCategory, Settle, SettleBad, NextOp, Goto, world
<1>2. \A c \in CatNames : cats'[c] <= 1 \/ cats'[c] = Cats0[c]
  <2>1. /\ \A c \in CatNames : cats[c] <= 1 \/ cats[c] = Cats0[c]
        /\ cats \in [CatNames -> Nat]
    BY DEF DupInv, Inv, TypeOK, NeverDuplicated
  <2>2. CASE ~Exists(op.cat) /\ cats' = [cats EXCEPT ![op.cat] = @ + 1]
    <3>1. \A c \in CatNames : c # op.cat => cats'[c] = cats[c]
      BY <2>1, <2>2
    <3>2. op.cat \in CatNames => cats'[op.cat] = 1
      BY <2>1, <2>2 DEF Exists
    <3> QED BY <2>1, <3>1, <3>2
  <2> QED BY <1>1, <2>1, <2>2
<1>3. NeverDuplicated'
  BY <1>1, <1>2 DEF DupInv, NeverDuplicated
<1> QED BY <1>1, <1>3 DEF DupInv, NoLate, Fresh

\* The one step that adds a product.
LEMMA ClickSkabDup ==
  ASSUME DupInv, Inv', ClickSkab, MaxLate = 0
  PROVE  DupInv'
<1>1. pc = "clickSkab" /\ pc' # "clickSkab" /\ UNCHANGED cats
  BY DEF ClickSkab, Goto
<1>2. PICK k \in Products : k = cur
  BY <1>1 DEF DupInv, Inv, AtLabel, CreateLabels
<1>3. /\ late' = late
      /\ dest' = dest \/ \E c \in Contents : dest' = Append(dest, Newborn(k, c))
  <2>1. ~ \A i \in Ops : late[i] < MaxLate
    BY <1>2, PlanFacts DEF DupInv, NoLate
  <2> QED BY <1>2, <2>1 DEF ClickSkab
<1>4. \A d \in DOMAIN dest : dest[d].num # Plan[k].num
  BY <1>1, <1>2 DEF DupInv, Fresh
<1>5. ASSUME NEW i \in Products
      PROVE  ~Ambiguous({d \in DOMAIN dest' : dest'[d].num = Plan[i].num})
  <2>1. ~Ambiguous({d \in DOMAIN dest : dest[d].num = Plan[i].num})
    BY DEF DupInv, NeverDuplicated
  <2>2. CASE dest' = dest
    BY <2>1, <2>2
  <2>3. ASSUME NEW c \in Contents, dest' = Append(dest, Newborn(k, c))
        PROVE  ~Ambiguous({d \in DOMAIN dest' : dest'[d].num = Plan[i].num})
    <3>1. dest \in Seq(Product) /\ Newborn(k, c) \in Product
      BY <1>2, NewbornTyped, PlanFacts DEF DupInv, Inv, TypeOK
    <3>2. /\ DOMAIN dest' = DOMAIN dest \cup {Len(dest) + 1}
          /\ \A d \in DOMAIN dest : dest'[d] = dest[d]
          /\ dest'[Len(dest) + 1].num = Plan[k].num
      BY <2>3, <3>1, AppendRow DEF Newborn
    <3>3. CASE i = k
      BY <1>4, <3>2, <3>3 DEF Ambiguous
    <3>4. CASE i # k
      <4>1. Plan[i].num # Plan[k].num
        BY <1>2, <3>4, PreflightPassed DEF Preflighted
      <4> QED BY <2>1, <3>2, <4>1 DEF Ambiguous
    <3> QED BY <3>3, <3>4
  <2> QED BY <1>3, <2>2, <2>3
<1>6. NeverDuplicated'
  BY <1>1, <1>5 DEF DupInv, NeverDuplicated
<1> QED BY <1>1, <1>3, <1>6 DEF DupInv, NoLate, Fresh

LEMMA DupStep ==
  ASSUME MaxLate = 0, DupInv, Inv', [Next]_vars
  PROVE  DupInv'
<1>1. CASE UNCHANGED vars
  <2>1. Quiet /\ pc' = pc /\ cur' = cur
    BY <1>1 DEF vars, Quiet
  <2> QED BY <2>1, QuietKeepsDupInv DEF DupInv, Fresh
<1>2. CASE CategoryOp
  BY <1>2, LookDup, CreateCategoryDup DEF CategoryOp
<1>3. CASE UpdateOp
  BY <1>3, LookDup, UpdateDup DEF UpdateOp
<1>4. CASE CreateOp
  BY <1>4, LookDup, ListBeforeDup, ClickSkabDup DEF CreateOp
<1>5. CASE \E i \in Ops : Land(i)
  BY <1>5 DEF Land, DupInv, NoLate
<1> QED BY <1>1, <1>2, <1>3, <1>4, <1>5, LoopHeadDup DEF Next, Step

\* What PreflightPassed makes true at the start.
LEMMA DupInit ==
  ASSUME Init PROVE DupInv
<1>1. Inv
  BY InitInv
<1>2. NoLate /\ Fresh
  BY DEF Init, NoLate, Fresh
<1>3. NeverDuplicated
  BY PreflightPassed DEF Preflighted, Init, NeverDuplicated, Ambiguous
<1> QED BY <1>1, <1>2, <1>3 DEF DupInv

LEMMA DupInvariance ==
  ASSUME MaxLate = 0
  PROVE  Spec => []DupInv
<1>1. Init => DupInv
  BY DupInit
<1>2. DupInv /\ [Next]_vars => DupInv'
  <2> SUFFICES ASSUME DupInv, [Next]_vars PROVE DupInv'
    OBVIOUS
  <2>1. Inv'
    BY NextInv DEF DupInv
  <2> QED BY <2>1, DupStep
<1> QED BY <1>1, <1>2, PTL DEF Spec

\* "Retries must not create duplicates" (docs/RELIABILITY.md): holds of
\* executeMigrationPlan and its port as long as requests do not land late.
THEOREM NoDuplicates ==
  ASSUME MaxLate = 0
  PROVE  Spec => []NeverDuplicated
<1>1. DupInv => NeverDuplicated
  BY DEF DupInv
<1> QED BY <1>1, DupInvariance, PTL

\* Each submission of a product finds its menu number free at the destination
\* (the listing at the head of createHiddenProduct).
THEOREM NoRecreate ==
  ASSUME MaxLate = 0
  PROVE  Spec => NeverRecreate
<1>1. DupInv /\ [Next]_vars =>
        \A i \in Products : sent'[i] # sent[i] =>
          \A d \in DOMAIN dest : dest[d].num # Plan[i].num
  <2> SUFFICES ASSUME DupInv, [Next]_vars, NEW i \in Products,
                      sent'[i] # sent[i]
               PROVE  \A d \in DOMAIN dest : dest[d].num # Plan[i].num
    OBVIOUS
  <2>1. CreateCategory \/ ClickSkab \/ UpdateProduct
    BY DEF vars, Next, Start, Stop, StopAtReadBack, Land, Step,
        LoopHead, BlockRemaining, SkipDone, KeepBlocked, BeginCreate,
        BeginUpdate, Finish, CategoryOp, ListCategories, CategoryReadBack,
        UpdateOp, UpdateAnswered, UpdateFailed, ReadUpdated, CompareUpdated,
        CreateOp, ResolveCategory, FindByIdentity, FindAgain, ListBefore,
        ListAfterOk, ListAfterError, FindAfterFail, ReadProduct
  <2>2. i \in Ops /\ sent \in [Ops -> Nat]
    BY PlanFacts DEF DupInv, Inv, TypeOK
  <2>3. i = cur
    BY <2>1, <2>2 DEF CreateCategory, ClickSkab, UpdateProduct
  <2>4. ~CreateCategory /\ ~UpdateProduct
    BY <2>3, PlanFacts
    DEF CreateCategory, UpdateProduct, DupInv, Inv, AtLabel, CategoryLabels,
        UpdateLabels
  <2> QED BY <2>1, <2>3, <2>4 DEF ClickSkab, DupInv, Fresh
<1> QED BY <1>1, DupInvariance, PTL DEF Spec, NeverRecreate

-----------------------------------------------------------------------------
(***************************************************************************)
(* The executor implements WriteOnce.  A step is a Store when the server    *)
(* stores the request of clickSkab, a Confirm when it settles a product as  *)
(* VERIFIED, and a stutter otherwise.                                       *)
(***************************************************************************)

\* No step verifies the creation of another product than the one at hand.
LEMMA OnlyCurrent ==
  ASSUME Inv, [Next]_vars, NEW i \in Products, i # cur, rec'[i].state = "VERIFIED"
  PROVE  rec[i].state = "VERIFIED"
<1>0. i \in Ops /\ Plan[i].action = "CREATE"
  BY PlanFacts DEF Products, Creates
<1>1. CASE Step /\ ~Finish
  <2>1. Works \/ Settles
    BY <1>1, LoopHeadDone, CategoryDone, UpdateDone, CreateDone DEF Step
  <2>2. rec'[i] = rec[i]
    BY <1>0, <2>1 DEF Works, Settles
  <2> QED BY <2>2
<1>2. CASE StopAtReadBack
  BY <1>0, <1>2 DEF StopAtReadBack, Save, Inv, TypeOK
<1>3. CASE Finish \/ Stop \/ (\E k \in Ops : Land(k)) \/ UNCHANGED vars
  BY <1>3 DEF Finish, Stop, Land, store, vars
<1>4. CASE Start
  BY <1>0, <1>4 DEF Start, Seeded
<1> QED BY <1>1, <1>2, <1>3, <1>4 DEF Next, Step

\* Only the submission of a create adds a row or has a menu number appear.
LEMMA RowsElsewhere ==
  ASSUME DupInv, [Next]_vars, ~ClickSkab
  PROVE  /\ DOMAIN dest' = DOMAIN dest
         /\ \A d \in DOMAIN dest : dest'[d].num = dest[d].num
<1>1. CASE UpdateProduct
  BY <1>1, UpdateKeepsNumbers DEF DupInv
<1>2. CASE LoopHead \/ Start \/ Stop \/ StopAtReadBack \/ UNCHANGED vars
  BY <1>2 DEF Start, Stop, StopAtReadBack, LoopHead, BlockRemaining, SkipDone,
              KeepBlocked, BeginCreate, BeginUpdate, Finish, world, vars
<1>3. CASE CategoryOp
  BY <1>3 DEF CategoryOp, ListCategories, CreateCategory, CategoryReadBack, world
<1>4. CASE CreateOp
  BY <1>4 DEF CreateOp, ResolveCategory, FindByIdentity, FindAgain, ListBefore,
              ListAfterOk, ListAfterError, FindAfterFail, ReadProduct, world
<1>6. CASE UpdateAnswered \/ UpdateFailed \/ ReadUpdated \/ CompareUpdated
  BY <1>6 DEF UpdateAnswered, UpdateFailed, ReadUpdated, CompareUpdated, world
<1>5. ~ \E i \in Ops : Land(i)
  BY DEF DupInv, NoLate, Land
<1> QED BY <1>1, <1>2, <1>3, <1>4, <1>5, <1>6 DEF Next, Step, UpdateOp

\* The rows an entity of WriteOnce stands for.
RowsWith(i) == {d \in DOMAIN dest : dest[d].num = Plan[i].num}

LEMMA StoreStep ==
  ASSUME DupInv, ClickSkab, MaxLate = 0
  PROVE  \/ Copies' = Copies /\ Confirmed' = Confirmed
         \/ \E i \in Products : Promise!Store(i)
<1>1. PICK k \in Products : k = cur /\ pc = "clickSkab"
  BY DEF ClickSkab, DupInv, Inv, AtLabel, CreateLabels
<1>2. Confirmed' = Confirmed
  BY DEF ClickSkab, store, Confirmed
<1>3. dest' = dest \/ \E c \in Contents : dest' = Append(dest, Newborn(k, c))
  <2>1. ~ \A i \in Ops : late[i] < MaxLate
    BY <1>1, PlanFacts DEF DupInv, NoLate
  <2> QED BY <1>1, <2>1 DEF ClickSkab
<1>4. CASE dest' = dest
  BY <1>2, <1>4 DEF Copies
<1>5. ASSUME NEW c \in Contents, dest' = Append(dest, Newborn(k, c))
      PROVE  Promise!Store(k)
  <2>1. dest \in Seq(Product) /\ Newborn(k, c) \in Product
    BY <1>1, NewbornTyped, PlanFacts DEF DupInv, Inv, TypeOK
  <2>2. /\ DOMAIN dest' = DOMAIN dest \cup {Len(dest) + 1}
        /\ \A d \in DOMAIN dest : dest'[d] = dest[d]
        /\ dest'[Len(dest) + 1].num = Plan[k].num
    BY <1>5, <2>1, AppendRow DEF Newborn
  <2>3. RowsWith(k) = {} /\ RowsWith(k)' = {Len(dest) + 1}
    <3>1. \A d \in DOMAIN dest : dest[d].num # Plan[k].num
      BY <1>1 DEF DupInv, Fresh
    <3> QED BY <2>2, <3>1 DEF RowsWith
  <2>4. ASSUME NEW i \in Products, i # k
        PROVE  RowsWith(i)' = RowsWith(i)
    <3>1. Plan[i].num # Plan[k].num
      BY <2>4, PreflightPassed DEF Preflighted
    <3>2. Len(dest) + 1 \notin RowsWith(i)'
      BY <2>2, <3>1 DEF RowsWith
    <3> QED BY <2>2, <3>2 DEF RowsWith
  <2>5. Copies = [i \in Products |-> Cardinality(RowsWith(i))]
    BY DEF Copies, RowsWith
  <2>6. Copies' = [i \in Products |-> Cardinality(RowsWith(i)')]
    BY DEF Copies, RowsWith
  <2>7. Copies[k] = 0 /\ Copies'[k] = 1
    BY <2>3, <2>5, <2>6, FS_EmptySet, FS_Singleton
  <2>8. \A i \in Products : i # k => Copies'[i] = Copies[i]
    BY <2>4, <2>5, <2>6
  <2>9. Copies' = [Copies EXCEPT ![k] = 1]
    BY <2>5, <2>6, <2>7, <2>8
  <2> QED BY <1>2, <2>7, <2>9 DEF Promise!Store
<1> QED BY <1>2, <1>3, <1>4, <1>5

LEMMA ConfirmStep ==
  ASSUME DupInv, DupInv', Inv', [Next]_vars, ~ClickSkab
  PROVE  \/ Copies' = Copies /\ Confirmed' = Confirmed
         \/ \E i \in Products : Promise!Confirm(i)
<1>1. Copies' = Copies
  <2>1. ASSUME NEW i \in Products PROVE RowsWith(i)' = RowsWith(i)
    BY RowsElsewhere DEF RowsWith
  <2>2. Copies = [i \in Products |-> Cardinality(RowsWith(i))]
    BY DEF Copies, RowsWith
  <2>3. Copies' = [i \in Products |-> Cardinality(RowsWith(i)')]
    BY DEF Copies, RowsWith
  <2> QED BY <2>1, <2>2, <2>3
<1>2. Confirmed \subseteq Confirmed'
  BY StepKeepsVerified, PlanFacts DEF DupInv, KeepsVerified, Confirmed
<1>3. ASSUME NEW i \in Confirmed' \ Confirmed
      PROVE  Promise!Confirm(i)
  <2>1. i \in Products /\ rec'[i].state = "VERIFIED" /\ rec[i].state # "VERIFIED"
    BY <1>3 DEF Confirmed
  <2>2. i = cur
    BY <2>1, OnlyCurrent, PlanFacts DEF DupInv
  <2>3. Confirmed' = Confirmed \cup {i}
    BY <1>2, <1>3, <2>2, OnlyCurrent, PlanFacts DEF DupInv, Confirmed
  <2>4. PICK d \in DOMAIN dest' : dest'[d].num = Plan[i].num
    <3>1. i \in Creates /\ i \in Ops /\ i \notin Updates
      BY <2>1, PlanFacts DEF Products
    <3>2. RecordsFit'
      BY DEF Inv
    <3>3. Fulfilled(i)'
      BY <2>1, <3>1, <3>2 DEF RecordsFit, RecordFits, Stands, Inv, TypeOK
    <3> QED BY <2>1, <3>1, <3>3 DEF Fulfilled, Matches, Newborn
  <2>5. \A e \in DOMAIN dest' : dest'[e].num = Plan[i].num => e = d
    BY <2>1, <2>4 DEF DupInv, NeverDuplicated, Ambiguous
  <2>6. RowsWith(i)' = {d}
    BY <2>4, <2>5 DEF RowsWith
  <2>7. Copies'[i] = 1
    BY <2>1, <2>6, FS_Singleton DEF Copies, RowsWith
  <2>8. Copies[i] = 1
    BY <1>1, <2>7
  <2> QED BY <1>1, <2>3, <2>8 DEF Promise!Confirm
<1>4. CASE Confirmed' = Confirmed
  BY <1>1, <1>4
<1>5. CASE Confirmed' # Confirmed
  <2>1. PICK i \in Confirmed' : i \notin Confirmed
    BY <1>2, <1>5
  <2>2. i \in Products
    BY DEF Confirmed
  <2> QED BY <1>3, <2>1, <2>2
<1> QED BY <1>4, <1>5

\* What executeMigrationPlan promises in three lines, and keeps with its records,
\* cached crawl, retries, stops and new runs: each product of the plan comes to
\* be at the destination once, and is verified while it is and for good.
THEOREM ExecutorWritesOnce ==
  ASSUME MaxLate = 0
  PROVE  Spec => WritesOnce
<1>1. Init => Promise!WriteOnceInit
  <2> SUFFICES ASSUME Init PROVE Promise!WriteOnceInit
    OBVIOUS
  <2>1. Confirmed = {}
    BY PlanFacts DEF Init, Confirmed
  <2>2. ASSUME NEW i \in Products PROVE RowsWith(i) = {}
    BY PreflightPassed DEF Preflighted, Init, RowsWith
  <2>3. Copies = [i \in Products |-> 0]
    BY <2>2, FS_EmptySet DEF Copies, RowsWith
  <2> QED BY <2>1, <2>3 DEF Promise!WriteOnceInit
<1>2. DupInv /\ DupInv' /\ [Next]_vars =>
        [Promise!WriteOnceNext]_<<Copies, Confirmed>>
  <2> SUFFICES ASSUME DupInv, DupInv', [Next]_vars
               PROVE  [Promise!WriteOnceNext]_<<Copies, Confirmed>>
    OBVIOUS
  <2>1. Inv'
    BY DEF DupInv
  <2> QED BY <2>1, StoreStep, ConfirmStep DEF Promise!WriteOnceNext
<1> QED BY <1>1, <1>2, DupInvariance, PTL
        DEF Spec, WritesOnce, Promise!WriteOnceSpec

-----------------------------------------------------------------------------
(***************************************************************************)
(* What a recovery plan calls reusable exists, for every plan, destination  *)
(* and number of runs, crashes and late requests.                           *)
(*                                                                         *)
(* A record is bound to a row on the word of three witnesses: the record of *)
(* an earlier run, the port's map of source ids and its cached crawl.  The  *)
(* invariant says of each that the row it names carries the number or the   *)
(* name of its operation, or did so before an UPDATE renamed it; it stays   *)
(* true because rows keep their number, and all but the targets of UPDATEs  *)
(* their name (RowsKept).                                                   *)
(***************************************************************************)

Halfway == {"WRITTEN", "READ_BACK"}

\* A cached row has the number and the name of the row it stands for, as far
\* as no UPDATE may rename that row.
NamesFaithful(view) ==
  \A d \in DOMAIN view :
    /\ view[d].num = dest[d].num
    /\ view[d].name = dest[d].name \/ MayBeRenamed(d)

RecordsBound ==
  \A i \in Products : rec[i].did # NoId => IsRowOf(i, rec[i].did)

MapBound ==
  \A i \in Products : sourceIdMap[i] # NoId => IsRowOf(i, sourceIdMap[i])

\* The row that is about to be read back.
RowBound == pc = "readProduct" => IsRowOf(cur, databaseId)

\* Only products are ever between write and verdict, and they name a row.
HalfwayBound ==
  \A i \in Creates \cup Updates : rec[i].state \in Halfway =>
    i \in Products \cup Updates /\ rec[i].did # NoId

BindInv ==
  /\ Inv /\ NamesFaithful(catalog)
  /\ RecordsBound /\ MapBound /\ RowBound /\ HalfwayBound

\* A step leaves every row where it is, with its number and, but for the
\* targets of UPDATEs, its name.
RowsKept ==
  /\ DOMAIN dest \subseteq DOMAIN dest'
  /\ \A d \in DOMAIN dest :
       /\ dest'[d].num = dest[d].num
       /\ dest'[d].name = dest[d].name \/ MayBeRenamed(d)

-----------------------------------------------------------------------------
(* Rows and witnesses. *)

LEMMA StepKeepsRows == ASSUME Inv, [Next]_vars PROVE RowsKept
<1>0. dest \in Seq(Product)
  BY DEF Inv, TypeOK
<1>1. ASSUME NEW i \in Ops, NEW c \in Contents,
             dest' = Append(dest, Newborn(i, c))
      PROVE  RowsKept
  BY <1>0, <1>1, NewbornTyped, AppendRow DEF RowsKept
<1>2. CASE ClickSkab
  <2>1. cur \in Ops
    BY <1>2, CreateFacts DEF ClickSkab, CreateLabels
  <2> QED BY <1>1, <1>2, <2>1 DEF ClickSkab, RowsKept
\* Storing the form of an UPDATE renames at most its target.
<1>3. ASSUME NEW k \in Updates, NEW c \in Contents,
             dest' = [dest EXCEPT ![Plan[k].target] =
                        Rewritten(k, dest[Plan[k].target], c)],
             UNCHANGED <<rec, cats>>
      PROVE  RowsKept
  <2>1. \A d \in DOMAIN dest : d # Plan[k].target => dest'[d] = dest[d]
    BY <1>3, RewriteKeeps
  <2>2. /\ DOMAIN dest' = DOMAIN dest
        /\ \A d \in DOMAIN dest : dest'[d].num = dest[d].num
    BY <1>3, RewriteKeeps
  <2> QED BY <2>1, <2>2 DEF RowsKept, MayBeRenamed
<1>4. CASE UpdateProduct
  <2>1. PICK k \in Updates : k = cur /\ UpdateTarget = Plan[k].target
    BY <1>4, UpdateFacts DEF UpdateProduct, UpdateLabels
  <2>2. \/ dest' = dest
        \/ \E c \in Contents :
             dest' = [dest EXCEPT ![Plan[k].target] =
                        Rewritten(k, dest[Plan[k].target], c)]
    BY <1>4, <2>1 DEF UpdateProduct
  <2>3. UNCHANGED <<rec, cats>>
    BY <1>4 DEF UpdateProduct, store
  <2> QED BY <1>3, <2>2, <2>3 DEF RowsKept
<1>5. ASSUME NEW i \in Ops, Land(i) PROVE RowsKept
  <2>1. CASE \E c \in Contents : dest' = Append(dest, Newborn(i, c))
    BY <1>1, <2>1
  <2>2. CASE dest' = dest
    BY <2>2 DEF RowsKept
  <2>3. CASE /\ i \in Updates /\ UNCHANGED cats
             /\ \E c \in Contents :
                  dest' = [dest EXCEPT ![Plan[i].target] =
                             Rewritten(i, dest[Plan[i].target], c)]
    BY <1>3, <1>5, <2>3 DEF Land, store
  <2> QED BY <1>5, <2>1, <2>2, <2>3 DEF Land
<1>6. ASSUME dest' = dest PROVE RowsKept
  BY <1>6 DEF RowsKept
<1> QED BY <1>2, <1>4, <1>5, <1>6
  DEF vars, world, Next, Start, Stop, StopAtReadBack, Step, LoopHead,
      BlockRemaining, SkipDone, KeepBlocked, BeginCreate, BeginUpdate, Finish,
      CategoryOp, ListCategories, CreateCategory, CategoryReadBack, UpdateOp,
      UpdateAnswered, UpdateFailed, ReadUpdated, CompareUpdated, CreateOp,
      ResolveCategory, FindByIdentity, FindAgain, ListBefore, ListAfterOk,
      ListAfterError, FindAfterFail, ReadProduct

LEMMA ViewNames ==
  ASSUME BindInv, NEW view \in Views
  PROVE  DOMAIN view \subseteq DOMAIN dest /\ NamesFaithful(view)
<1>1. DOMAIN view \subseteq DOMAIN dest
  BY ViewsFaithful DEF BindInv, Faithful
<1>2. CASE view = catalog
  BY <1>1, <1>2 DEF BindInv, NamesFaithful
<1>3. CASE view \in Crawls
  <2>1. PICK bad \in SUBSET DOMAIN dest :
          view = [d \in DOMAIN dest |->
                    IF d \in bad THEN Unread(dest[d]) ELSE dest[d]]
    BY <1>3 DEF Crawls
  <2>2. \A d \in DOMAIN dest : dest[d] \in Product
    BY DEF BindInv, Inv, TypeOK
  <2> QED BY <2>1, <2>2 DEF NamesFaithful, Unread, Product
<1> QED BY <1>1, <1>2, <1>3 DEF Views

\* Whatever witness a look relies on, what it finds is a row of the operation.
LEMMA CandidatesBound ==
  ASSUME BindInv, NEW view \in Views, NEW i \in Products,
         NEW d \in Candidates(view, i, rec[i].did)
  PROVE  IsRowOf(i, d)
<1>1. d \in DOMAIN view /\ d \in DOMAIN dest /\ NamesFaithful(view)
  BY ViewNames, CandidatesSeen
<1>2. d # NoId
  BY <1>1 DEF BindInv, Inv, TypeOK
<1>3. d = rec[i].did \/ d = sourceIdMap[i] \/ d \in Evidence(view, i)
  BY DEF Candidates
<1>4. CASE d = rec[i].did
  BY <1>2, <1>4 DEF BindInv, RecordsBound
<1>5. CASE d = sourceIdMap[i]
  BY <1>2, <1>5 DEF BindInv, MapBound
<1>6. CASE d \in Evidence(view, i)
  BY <1>1, <1>6 DEF Evidence, NamesFaithful, IsRowOf
<1> QED BY <1>3, <1>4, <1>5, <1>6

LEMMA RowStays ==
  ASSUME RowsKept, NEW i, NEW d, IsRowOf(i, d)
  PROVE  IsRowOf(i, d)'
BY DEF RowsKept, IsRowOf, MayBeRenamed

-----------------------------------------------------------------------------
(* What a step may do to the witnesses. *)

\* Operation i is bound no worse than before.
Rebinds(i) ==
  /\ i \in Products =>
       rec'[i].did \in {rec[i].did, NoId} \/ IsRowOf(i, rec'[i].did)
  /\ rec'[i].state \in Halfway =>
       \/ rec'[i] = rec[i]
       \/ i \in Products \cup Updates /\ rec'[i].did # NoId

Witnesses ==
  /\ \/ catalog' = catalog \/ catalog' = <<>>
     \/ catalog' \in Views /\ dest' = dest
  /\ \A i \in Products :
       \/ sourceIdMap'[i] \in {sourceIdMap[i], NoId}
       \/ IsRowOf(i, sourceIdMap'[i])
  /\ pc' = "readProduct" => IsRowOf(cur', databaseId')

LEMMA KeepsBindInv ==
  ASSUME BindInv, Inv', RowsKept, Witnesses,
         \A i \in Creates \cup Updates : Rebinds(i)
  PROVE  BindInv'
<1>1. NamesFaithful(catalog)'
  <2>1. CASE catalog' = catalog
    <3>1. DOMAIN catalog \subseteq DOMAIN dest
      BY DEF BindInv, Inv, TypeOK
    <3> QED BY <2>1, <3>1 DEF BindInv, NamesFaithful, RowsKept, MayBeRenamed
  <2>2. CASE catalog' = <<>>
    BY <2>2, EmptyCatalog DEF NamesFaithful
  <2>3. CASE catalog' \in Views /\ dest' = dest
    BY <2>3, ViewNames DEF NamesFaithful, MayBeRenamed
  <2> QED BY <2>1, <2>2, <2>3 DEF Witnesses
<1>2. RecordsBound'
  BY RowStays, PlanFacts DEF BindInv, RecordsBound, Rebinds
<1>3. MapBound'
  BY RowStays DEF BindInv, MapBound, Witnesses
<1>4. RowBound'
  BY RowStays DEF RowBound, Witnesses
<1>5. HalfwayBound'
  BY DEF BindInv, HalfwayBound, Rebinds
<1> QED BY <1>1, <1>2, <1>3, <1>4, <1>5 DEF BindInv

-----------------------------------------------------------------------------
(* The steps. *)

\* Saving a record of the operation at hand.
LEMMA SaveRebinds ==
  ASSUME BindInv, NEW k \in Ops, k = cur, NEW r, Save(r),
         k \in Products => r.did \in {rec[k].did, NoId} \/ IsRowOf(k, r.did),
         r.state \in Halfway => k \in Products \cup Updates /\ r.did # NoId
  PROVE  \A i \in Creates \cup Updates : Rebinds(i)
<1>1. /\ rec'[k] = r
      /\ \A i \in Ops : i # k => rec'[i] = rec[i]
  BY DEF BindInv, Inv, TypeOK, Save
<1> QED BY <1>1, PlanFacts DEF Rebinds

\* A step that takes no witness but views and changes no record, or settles
\* one without binding it.
LEMMA SettleBinds ==
  ASSUME BindInv, Inv', [Next]_vars,
         \/ catalog' = catalog \/ catalog' = <<>>
         \/ catalog' \in Views /\ dest' = dest,
         sourceIdMap' = sourceIdMap \/ sourceIdMap' = [i \in Ops |-> NoId],
         pc' # "readProduct",
         \/ rec' = rec
         \/ \E k \in Ops : \E r : /\ k = cur /\ Save(r)
                             /\ r.did = rec[k].did /\ r.state \notin Halfway
  PROVE  BindInv'
<1>1. RowsKept
  BY StepKeepsRows DEF BindInv
<1>2. Witnesses
  BY PlanFacts DEF Witnesses
<1>3. \A i \in Creates \cup Updates : Rebinds(i)
  <2>1. CASE rec' = rec
    BY <2>1 DEF Rebinds
  <2>2. ASSUME NEW k \in Ops, NEW r, k = cur, Save(r),
               r.did = rec[k].did, r.state \notin Halfway
        PROVE  \A i \in Creates \cup Updates : Rebinds(i)
    BY <2>2, SaveRebinds
  <2> QED BY <2>1, <2>2
<1> QED BY <1>1, <1>2, <1>3, KeepsBindInv

LEMMA InitBind == Init => BindInv
<1> SUFFICES ASSUME Init PROVE BindInv
  OBVIOUS
<1>1. Inv
  BY InitInv
<1>2. NamesFaithful(catalog)
  BY EmptyCatalog DEF Init, NamesFaithful
<1>3. \A i \in Ops : rec[i].did = NoId /\ rec[i].state = "NONE"
                    /\ sourceIdMap[i] = NoId
  BY DEF Init
<1> QED BY <1>1, <1>2, <1>3, PlanFacts
  DEF Init, BindInv, RecordsBound, MapBound, RowBound, HalfwayBound, Halfway

\* A first start binds nothing but updates, which carry their row.
LEMMA StartBind == ASSUME BindInv, Inv', Start, RowsKept PROVE BindInv'
<1>1. Witnesses
  BY DEF Start, port, Witnesses
<1>2. ASSUME NEW i \in Creates \cup Updates PROVE Rebinds(i)
  <2>1. i \in Ops
    BY PlanFacts
  <2>2. CASE rec[i].state # "NONE"
    BY <2>1, <2>2 DEF Start, Rebinds
  <2>3. CASE rec[i].state = "NONE"
    <3>1. rec'[i] = Seeded(i)
      BY <2>1, <2>3 DEF Start
    <3>2. rec'[i].did = Plan[i].target
      BY <3>1 DEF Seeded
    <3>3. rec'[i].state = "PENDING_WRITE"
      BY <3>1 DEF Seeded, Creates, Updates
    <3>4. i \in Products => Plan[i].target = NoId
      BY PreflightPassed, PlanFacts DEF Preflighted
    <3> QED BY <3>2, <3>3, <3>4 DEF Rebinds, Halfway
  <2> QED BY <2>2, <2>3
<1> QED BY <1>1, <1>2, KeepsBindInv

\* Steps that settle an operation or go to the next label: none binds a row.
LEMMA LoopHeadBind ==
  ASSUME BindInv, Inv', [Next]_vars, LoopHead PROVE BindInv'
<1>1. /\ catalog' = catalog \/ catalog' = <<>>
      /\ sourceIdMap' = sourceIdMap \/ sourceIdMap' = [i \in Ops |-> NoId]
      /\ pc' # "readProduct"
  BY DEF LoopHead, BlockRemaining, SkipDone, KeepBlocked, BeginCreate,
         BeginUpdate, Finish, Memoryless, SettleBad, Settle, NextOp, Goto, port
<1>2. \/ rec' = rec
      \/ /\ cur \in Ops
         /\ \/ Save([rec[cur] EXCEPT !.state = "BLOCKED", !.sys = TRUE])
            \/ Save([rec[cur] EXCEPT !.state = "VERIFIED"])
            \/ Save(Bad("BLOCKED", current.att))
  BY DEF LoopHead, BlockRemaining, SkipDone, KeepBlocked, BeginCreate,
         BeginUpdate, Finish, SettleBad, Settle, AtOp, store, current
<1>3. ASSUME NEW k \in Ops, k = cur
      PROVE  /\ rec[k] \in OpRecord
             /\ [rec[k] EXCEPT !.state = "BLOCKED", !.sys = TRUE].did
                  = rec[k].did
             /\ [rec[k] EXCEPT !.state = "BLOCKED", !.sys = TRUE].state
                  = "BLOCKED"
             /\ [rec[k] EXCEPT !.state = "VERIFIED"].did = rec[k].did
             /\ [rec[k] EXCEPT !.state = "VERIFIED"].state = "VERIFIED"
             /\ Bad("BLOCKED", current.att).did = rec[k].did
             /\ Bad("BLOCKED", current.att).state = "BLOCKED"
  <2>1. rec[k] \in OpRecord
    BY DEF BindInv, Inv, TypeOK
  <2> QED BY <1>3, <2>1 DEF OpRecord, Bad, current
<1>4. \/ rec' = rec
      \/ \E k \in Ops : \E r : /\ k = cur /\ Save(r)
                          /\ r.did = rec[k].did /\ r.state \notin Halfway
  BY <1>2, <1>3 DEF Halfway
<1> QED BY <1>1, <1>4, SettleBinds

LEMMA BadRecord ==
  ASSUME Inv, NEW k \in Ops, k = cur, NEW s, NEW att
  PROVE  Bad(s, att).did = rec[k].did /\ Bad(s, att).state = s
<1>1. rec[k] \in OpRecord
  BY DEF Inv, TypeOK
<1> QED BY <1>1 DEF Bad, current, OpRecord

LEMMA CategoryBind ==
  ASSUME BindInv, Inv', [Next]_vars,
         CategoryOp \/ ReadUpdated \/ CompareUpdated \/ ResolveCategory
  PROVE  BindInv'
<1>1. PICK k \in Ops : k = cur
  BY PlanFacts
  DEF BindInv, Inv, AtLabel, CategoryLabels, UpdateLabels, CreateLabels,
      CategoryOp, ListCategories, CreateCategory, CategoryReadBack,
      ReadUpdated, CompareUpdated, ResolveCategory
<1>2. /\ catalog' = catalog \/ (catalog' \in Views /\ dest' = dest)
      /\ sourceIdMap' = sourceIdMap /\ pc' # "readProduct"
  BY DEF CategoryOp, ListCategories, CreateCategory, CategoryReadBack,
         ReadUpdated, CompareUpdated, ResolveCategory, SettleBad, Settle,
         NextOp, Goto, port, world
<1>3. \/ rec' = rec
      \/ Save([rec[k] EXCEPT !.state = "VERIFIED"])
      \/ \E s \in {"BLOCKED", "WRITE_FAILED", "VERIFY_FAILED"} :
           Save(Bad(s, current.att))
  BY <1>1
  DEF CategoryOp, ListCategories, CreateCategory, CategoryReadBack,
      ReadUpdated, CompareUpdated, ResolveCategory, SettleBad, Settle, store,
      current
<1>4. /\ [rec[k] EXCEPT !.state = "VERIFIED"].did = rec[k].did
      /\ [rec[k] EXCEPT !.state = "VERIFIED"].state = "VERIFIED"
  <2>1. rec[k] \in OpRecord
    BY DEF BindInv, Inv, TypeOK
  <2> QED BY <2>1 DEF OpRecord
<1>5. \/ rec' = rec
      \/ \E r : Save(r) /\ r.did = rec[k].did /\ r.state \notin Halfway
  BY <1>1, <1>3, <1>4, BadRecord DEF Halfway, BindInv
<1> QED BY <1>1, <1>2, <1>5, SettleBinds

LEMMA UpdateBind ==
  ASSUME BindInv, Inv', RowsKept,
         UpdateProduct \/ UpdateAnswered \/ UpdateFailed
  PROVE  BindInv'
<1>1. pc \in UpdateLabels
  BY DEF UpdateProduct, UpdateAnswered, UpdateFailed, UpdateLabels
<1>2. PICK k \in Ops : /\ k = cur /\ k \in Updates /\ k \notin Products
                      /\ UpdateTarget # NoId
                      /\ current = rec[k] /\ rec[k] \in OpRecord
  BY <1>1, UpdateFacts, PlanFacts DEF BindInv
<1>3. Witnesses
  BY DEF UpdateProduct, UpdateAnswered, UpdateFailed, Witnesses, SettleBad,
         Settle, NextOp, Goto, port
<1>4. rec' = rec \/ \E r : Save(r) /\ r.did = UpdateTarget
  <2>1. LET w == [current EXCEPT !.state = "WRITTEN", !.att = @ + 1,
                                 !.did = UpdateTarget]
            f == [Bad("WRITE_FAILED", current.att + 1)
                    EXCEPT !.did = UpdateTarget] IN
          rec' = rec \/ Save(w) \/ Save(f)
    BY DEF UpdateProduct, UpdateAnswered, UpdateFailed, SettleBad, Settle, store
  <2>2. [current EXCEPT !.state = "WRITTEN", !.att = @ + 1,
                        !.did = UpdateTarget].did = UpdateTarget
    BY <1>2 DEF OpRecord
  <2>3. [Bad("WRITE_FAILED", current.att + 1)
           EXCEPT !.did = UpdateTarget].did = UpdateTarget
    BY <1>2 DEF OpRecord, Bad
  <2> QED BY <2>1, <2>2, <2>3
<1>5. CASE rec' = rec
  <2>1. \A i \in Creates \cup Updates : Rebinds(i)
    BY <1>5 DEF Rebinds
  <2> QED BY <1>3, <2>1, KeepsBindInv
<1>6. CASE \E r : Save(r) /\ r.did = UpdateTarget
  <2>1. \A i \in Creates \cup Updates : Rebinds(i)
    BY <1>2, <1>6, SaveRebinds
  <2> QED BY <1>3, <2>1, KeepsBindInv
<1> QED BY <1>4, <1>5, <1>6

\* The ways on from a step of a CREATE, as in CreateStepInv: give up for now,
\* bind a row of the operation, read one back, or go to the next label.
LEMMA CreateStepBind ==
  ASSUME BindInv, Inv', RowsKept, pc \in CreateLabels,
         \/ catalog' = catalog \/ catalog' = <<>>
         \/ catalog' \in Views /\ dest' = dest,
         \A i \in Products :
           sourceIdMap'[i] = sourceIdMap[i] \/ IsRowOf(i, sourceIdMap'[i]),
         \/ \E s \in {"BLOCKED", "WRITE_FAILED", "PENDING_WRITE"} : \E att :
              SettleBad(Bad(s, att))
         \/ \E d, att : IsRowOf(cur, d) /\ Written(d, att)
         \/ \E d : IsRowOf(cur, d) /\ ReadBack(d) /\ UNCHANGED rec
         \/ \E label : label # "readProduct" /\ Goto(label) /\ UNCHANGED rec
  PROVE  BindInv'
<1>1. PICK k \in Products : k = cur /\ k \in Ops /\ rec[k] \in OpRecord
  BY CreateFacts DEF BindInv
<1>2. pc' = "readProduct" => IsRowOf(cur', databaseId')
  BY DEF SettleBad, Settle, NextOp, Written, ReadBack, Goto
<1>3. Witnesses
  BY <1>2 DEF Witnesses
<1>4. ASSUME NEW s \in {"BLOCKED", "WRITE_FAILED", "PENDING_WRITE"}, NEW att,
             SettleBad(Bad(s, att))
      PROVE  \A i \in Creates \cup Updates : Rebinds(i)
  BY <1>1, <1>4, BadRecord, SaveRebinds
  DEF BindInv, SettleBad, Settle, Halfway
<1>5. ASSUME NEW d, NEW att, IsRowOf(cur, d), Written(d, att)
      PROVE  \A i \in Creates \cup Updates : Rebinds(i)
  <2>1. d # NoId
    BY <1>5 DEF IsRowOf, BindInv, Inv, TypeOK
  <2>2. [current EXCEPT !.state = "WRITTEN", !.did = d, !.att = att].did = d
    BY <1>1 DEF OpRecord, current
  <2> QED BY <1>1, <1>5, <2>1, <2>2, SaveRebinds DEF Written
<1>6. ASSUME rec' = rec PROVE \A i \in Creates \cup Updates : Rebinds(i)
  BY <1>6 DEF Rebinds
<1> QED BY <1>3, <1>4, <1>5, <1>6, KeepsBindInv

\* The looks before and after a request.
LEMMA LookBind ==
  ASSUME BindInv, Inv', RowsKept, FindByIdentity \/ FindAgain \/ FindAfterFail
  PROVE  BindInv'
<1>1. pc \in CreateLabels
  BY DEF FindByIdentity, FindAgain, FindAfterFail, CreateLabels
<1>2. cur \in Products /\ current = rec[cur]
  BY <1>1, CreateFacts DEF BindInv
<1>3. \A view \in Views : \A d \in Candidates(view, cur, current.did) :
        IsRowOf(cur, d)
  BY <1>2, CandidatesBound
<1>4. dest' = dest /\ sourceIdMap' = sourceIdMap /\ catalog' \in Views
  BY DEF FindByIdentity, FindAgain, FindAfterFail, world
<1>5. CASE FindByIdentity
  BY <1>1, <1>3, <1>4, <1>5, CreateStepBind DEF FindByIdentity
<1>6. CASE FindAgain
  BY <1>1, <1>3, <1>4, <1>6, CreateStepBind DEF FindAgain
<1>7. CASE FindAfterFail
  BY <1>1, <1>3, <1>4, <1>7, CreateStepBind DEF FindAfterFail
<1> QED BY <1>5, <1>6, <1>7

\* createHiddenProduct: the row it returns was listed with the number or the
\* name of the product.
LEMMA CreateHiddenBind ==
  ASSUME BindInv, Inv', RowsKept,
         ListBefore \/ ClickSkab \/ ListAfterOk \/ ListAfterError
  PROVE  BindInv'
<1>1. pc \in CreateLabels
  BY DEF ListBefore, ClickSkab, ListAfterOk, ListAfterError, CreateLabels
<1>2. cur \in Products /\ cur \in Ops /\ op = Plan[cur]
  BY <1>1, CreateFacts DEF BindInv
<1>3. ASSUME NEW d, IsRowOf(cur, d), Created(d)
      PROVE  /\ \A i \in Products :
                  \/ sourceIdMap'[i] = sourceIdMap[i]
                  \/ IsRowOf(i, sourceIdMap'[i])
             /\ Written(d, current.att + 1)
  BY <1>2, <1>3, PlanFacts DEF Created, BindInv, Inv, TypeOK
<1>4. catalog' = catalog \/ catalog' = <<>>
  BY DEF ListBefore, ClickSkab, ListAfterOk, ListAfterError, port
<1>5. \/ \E d : IsRowOf(cur, d) /\ Created(d)
      \/ \E label : /\ label # "readProduct" /\ Goto(label)
                    /\ UNCHANGED <<rec, sourceIdMap>>
  <2>1. CASE ListBefore
    BY <1>2, <2>1 DEF ListBefore, IsRowOf
  <2>2. CASE ClickSkab
    BY <2>2 DEF ClickSkab, store, port
  <2>3. CASE ListAfterOk
    BY <2>3 DEF ListAfterOk, RowsOf, IsRowOf, port
  <2>4. CASE ListAfterError
    BY <2>4 DEF ListAfterError, RowsOf, IsRowOf
  <2> QED BY <2>1, <2>2, <2>3, <2>4
<1>6. CASE \E d : IsRowOf(cur, d) /\ Created(d)
  BY <1>1, <1>3, <1>4, <1>6, CreateStepBind
<1>7. CASE \E label : /\ label # "readProduct" /\ Goto(label)
                     /\ UNCHANGED <<rec, sourceIdMap>>
  BY <1>1, <1>4, <1>7, CreateStepBind
<1> QED BY <1>5, <1>6, <1>7

\* Reading back stores the row it was told to read.
LEMMA ReadProductBind ==
  ASSUME BindInv, Inv', RowsKept, ReadProduct \/ StopAtReadBack
  PROVE  BindInv'
<1>1. pc = "readProduct" /\ pc \in CreateLabels
  BY DEF ReadProduct, StopAtReadBack, CreateLabels
<1>2. PICK k \in Products : k = cur /\ k \in Ops /\ rec[k] \in OpRecord
  BY <1>1, CreateFacts DEF BindInv
<1>3. IsRowOf(k, databaseId) /\ databaseId # NoId
  BY <1>1, <1>2 DEF BindInv, RowBound, Inv, AtLabel
<1>4. Witnesses
  <2>1. CASE ReadProduct
    BY <2>1 DEF ReadProduct, Witnesses, Settle, SettleBad, NextOp, world
  <2>2. CASE StopAtReadBack
    BY <2>2, PlanFacts DEF StopAtReadBack, Memoryless, Witnesses
  <2> QED BY <2>1, <2>2
<1>5. PICK s, sys : Save(Verdict(s, sys))
  BY DEF ReadProduct, StopAtReadBack, Settle, SettleBad
<1>6. Verdict(s, sys).did = databaseId
  BY <1>2 DEF Verdict, current, OpRecord
<1>7. \A i \in Creates \cup Updates : Rebinds(i)
  BY <1>2, <1>3, <1>5, <1>6, SaveRebinds
<1> QED BY <1>4, <1>7, KeepsBindInv

LEMMA BystanderBind ==
  ASSUME BindInv, Inv', RowsKept,
         Stop \/ (\E i \in Ops : Land(i)) \/ UNCHANGED vars
  PROVE  BindInv'
<1>1. rec' = rec
  BY DEF Stop, Land, vars, store
<1>2. Witnesses
  <2>1. CASE Stop
    BY <2>1, PlanFacts DEF Stop, Memoryless, Witnesses
  <2>2. CASE UNCHANGED <<port, pc, cur, databaseId>>
    BY <2>2 DEF port, Witnesses, BindInv, RowBound
  <2> QED BY <2>1, <2>2 DEF Land, vars, port
<1> QED BY <1>1, <1>2, KeepsBindInv DEF Rebinds

LEMMA BindInvariance == Spec => []BindInv
<1>1. BindInv /\ [Next]_vars => BindInv'
  <2> SUFFICES ASSUME BindInv, [Next]_vars PROVE BindInv'
    OBVIOUS
  <2>1. Inv' /\ RowsKept
    BY NextInv, StepKeepsRows DEF BindInv
  <2> QED BY <2>1, StartBind, LoopHeadBind, CategoryBind, UpdateBind, LookBind,
             CreateHiddenBind, ReadProductBind, BystanderBind
    DEF Next, Step, UpdateOp, CreateOp
<1> QED BY <1>1, InitBind, PTL DEF Spec

\* What buildRecoveryPlan tells an operator to reuse ("Never recreate") is at
\* the destination, whatever happened between the write and the plan.
THEOREM ReusableIsThere == Spec => []ReusableExists
<1>1. BindInv => ReusableExists
  <2> SUFFICES ASSUME BindInv, NEW i \in Creates \cup Updates, Reusable(i)
               PROVE  IF i \in Updates THEN rec[i].did \in DOMAIN dest
                      ELSE IF i \in Products THEN IsRowOf(i, rec[i].did)
                      ELSE Exists(Plan[i].cat)
    BY DEF ReusableExists
  <2>1. rec[i].state = "VERIFIED" \/ rec[i].state \in Halfway
    BY DEF Reusable, RecoveryState, Halfway
  <2>2. i \in Ops /\ RecordFits(i)
    BY PlanFacts DEF BindInv, Inv, RecordsFit
  <2>3. CASE rec[i].state = "VERIFIED"
    BY <2>2, <2>3
    DEF RecordFits, Stands, Fulfilled, Matches, Newborn, IsRowOf, BindInv, Inv,
        TypeOK
  <2>4. CASE rec[i].state \in Halfway
    BY <2>2, <2>4
    DEF BindInv, HalfwayBound, RecordsBound, RecordFits
  <2> QED BY <2>1, <2>3, <2>4
<1> QED BY <1>1, BindInvariance, PTL

-----------------------------------------------------------------------------
(* Nothing reusable is forgotten.  A create gives up on an operation and      *)
(* leaves it pending only after two looks that found no row.  That the first  *)
(* look cannot miss the row of a record that was being read back when a run   *)
(* stopped is the point: the cached crawl of a run holds every row an earlier *)
(* run has bound (CatalogCovers).                                            *)

\* Products the loop has not looked at in this run.
Ahead(i) ==
  i > cur \/ (i = cur /\ pc \in {"loop", "resolveCategory", "findByIdentity"})

CatalogCovers ==
  /\ pc = "off" => catalog = <<>>
  /\ DOMAIN catalog # {} =>
       \A i \in Products : Ahead(i) => rec[i].did \in {NoId} \cup DOMAIN catalog

\* Past the first look there is nothing written to be found.
Missed == {"findAgain", "listBefore", "clickSkab", "listAfterOk",
           "listAfterError", "findAfterFail", "findAfterReject"}
NothingMissed == pc \in Missed => rec[cur].state \notin Halfway

LookedInv == BindInv /\ CatalogCovers /\ NothingMissed

LEMMA ViewsCover ==
  ASSUME LookedInv, NEW view \in Views, NEW i \in Products, Ahead(i)
  PROVE  rec[i].did \in {NoId} \cup DOMAIN view
<1>1. CASE DOMAIN catalog = {}
  <2>1. DOMAIN view = DOMAIN dest
    BY <1>1 DEF Views, Crawls
  <2> QED BY <2>1, PlanFacts DEF LookedInv, BindInv, Inv, RecordsFit, RecordFits
<1>2. CASE DOMAIN catalog # {}
  BY <1>2 DEF Views, LookedInv, CatalogCovers
<1> QED BY <1>1, <1>2

\* The first look finds the row of a record that names one.
LEMMA FirstLook ==
  ASSUME LookedInv, pc = "findByIdentity", NEW view \in Views,
         Candidates(view, cur, current.did) = {}, current.state # "WRITTEN"
  PROVE  rec[cur].state \notin Halfway
<1>1. cur \in Products /\ current = rec[cur]
  BY CreateFacts DEF LookedInv, BindInv, CreateLabels
<1>2. Ahead(cur)
  BY DEF Ahead
<1>3. rec[cur].did \notin DOMAIN view
  BY <1>1 DEF Candidates
<1>4. rec[cur].did = NoId
  BY <1>1, <1>2, <1>3, ViewsCover
<1> QED BY <1>1, <1>4, PlanFacts DEF LookedInv, BindInv, HalfwayBound

\* The loop goes on to the next operation or works on at this one.
Advance ==
  /\ \A i \in Ops : i # cur => rec'[i] = rec[i]
  /\ catalog' = catalog \/ catalog' = <<>> \/ catalog' \in Views
  /\ \/ NextOp
     \/ /\ cur' = cur
        /\ pc' \notin {"off", "loop", "resolveCategory", "findByIdentity"}
     \/ /\ cur' = cur /\ rec' = rec
        /\ pc' \in {"resolveCategory", "findByIdentity"}
        /\ pc \in {"loop", "resolveCategory"}

LEMMA AdvanceCovers == ASSUME LookedInv, Advance PROVE CatalogCovers'
<1>1. cur \in Nat /\ Products \subseteq Ops /\ Ops \subseteq Nat
  BY PlanFacts DEF LookedInv, BindInv, Inv, TypeOK
<1>2. ASSUME NEW i \in Products, Ahead(i)'
      PROVE  Ahead(i) /\ rec'[i].did = rec[i].did
  BY <1>1, <1>2 DEF Advance, NextOp, Ahead
<1>3. ASSUME NEW i \in Products, Ahead(i)', DOMAIN catalog' # {}
      PROVE  rec'[i].did \in {NoId} \cup DOMAIN catalog'
  <2>1. CASE catalog' = catalog
    BY <1>2, <1>3, <2>1 DEF LookedInv, CatalogCovers
  <2>2. CASE catalog' = <<>>
    BY <1>3, <2>2
  <2>3. CASE catalog' \in Views
    BY <1>2, <1>3, <2>3, ViewsCover
  <2> QED BY <2>1, <2>2, <2>3 DEF Advance
<1>4. pc' # "off"
  BY DEF Advance, NextOp
<1> QED BY <1>3, <1>4 DEF CatalogCovers

\* Records other than that of the operation at hand are left alone.
LEMMA SaveElsewhere ==
  ASSUME Inv, rec' = rec \/ \E r : Save(r)
  PROVE  \A i \in Ops : i # cur => rec'[i] = rec[i]
BY DEF Inv, TypeOK, Save

LEMMA LoopAdvances ==
  ASSUME LookedInv, LoopHead \/ CategoryOp \/ UpdateOp, ~Finish
  PROVE  Advance /\ pc' \notin Missed
<1>1. rec' = rec \/ \E r : Save(r)
  BY DEF LoopHead, BlockRemaining, SkipDone, KeepBlocked, BeginCreate,
         BeginUpdate, SettleBad, Settle, store, CategoryOp, ListCategories,
         CreateCategory, CategoryReadBack, UpdateOp, UpdateProduct,
         UpdateAnswered, UpdateFailed, ReadUpdated, CompareUpdated
<1>2. \A i \in Ops : i # cur => rec'[i] = rec[i]
  BY <1>1, SaveElsewhere DEF LookedInv, BindInv
<1>3. CASE LoopHead
  BY <1>2, <1>3
  DEF LoopHead, BlockRemaining, SkipDone, KeepBlocked, BeginCreate,
      BeginUpdate, AtOp, SettleBad, Settle, NextOp, Goto, store, port,
      Advance, Missed
<1>4. CASE CategoryOp
  BY <1>2, <1>4
  DEF CategoryOp, ListCategories, CreateCategory, CategoryReadBack, SettleBad,
      Settle, NextOp, Goto, port, Advance, Missed
<1>5. CASE UpdateOp
  BY <1>2, <1>5
  DEF UpdateOp, UpdateProduct, UpdateAnswered, UpdateFailed, ReadUpdated,
      CompareUpdated, SettleBad, Settle, NextOp, Goto, port, Advance, Missed
<1> QED BY <1>3, <1>4, <1>5

LEMMA CreateAdvances ==
  ASSUME LookedInv, CreateOp
  PROVE  Advance /\ NothingMissed'
<1>1. rec' = rec \/ \E r : Save(r)
  BY DEF CreateOp, ResolveCategory, FindByIdentity, FindAgain, ListBefore,
         ClickSkab, ListAfterOk, ListAfterError, FindAfterFail, ReadProduct,
         SettleBad, Settle, Created, Written, store
<1>2. \A i \in Ops : i # cur => rec'[i] = rec[i]
  BY <1>1, SaveElsewhere DEF LookedInv, BindInv
<1>3. CASE ResolveCategory
  BY <1>2, <1>3
  DEF ResolveCategory, SettleBad, Settle, NextOp, Goto, port, Advance,
      NothingMissed, Missed
<1>4. CASE FindByIdentity
  <2>1. Advance
    BY <1>2, <1>4
    DEF FindByIdentity, SettleBad, Settle, NextOp, Goto, Written, ReadBack,
        Advance
  <2>2. pc' \in Missed =>
          rec' = rec /\ cur' = cur /\ rec[cur].state \notin Halfway
    BY <1>4, FirstLook
    DEF FindByIdentity, SettleBad, Settle, NextOp, Goto, Written, ReadBack,
        Missed
  <2> QED BY <2>1, <2>2 DEF NothingMissed
<1>5. CASE FindAgain \/ FindAfterFail \/ ReadProduct
  BY <1>2, <1>5
  DEF FindAgain, FindAfterFail, ReadProduct, SettleBad, Settle, NextOp, Goto,
      Written, ReadBack, Advance, LookedInv, NothingMissed, Missed
<1>6. CASE ListBefore \/ ListAfterOk \/ ListAfterError
  BY <1>2, <1>6
  DEF ListBefore, ListAfterOk, ListAfterError, Goto, Created, Written,
      ReadBack, port, Advance, LookedInv, NothingMissed, Missed
<1>7. CASE ClickSkab
  BY <1>2, <1>7
  DEF ClickSkab, Goto, port, store, Advance, LookedInv, NothingMissed, Missed
<1> QED BY <1>3, <1>4, <1>5, <1>6, <1>7 DEF CreateOp

LEMMA LookedInvariance == Spec => []LookedInv
<1>1. Init => LookedInv
  BY InitBind, EmptyCatalog
  DEF Init, LookedInv, CatalogCovers, NothingMissed, Missed
<1>2. LookedInv /\ BindInv' /\ [Next]_vars => LookedInv'
  <2> SUFFICES ASSUME LookedInv, BindInv', [Next]_vars PROVE LookedInv'
    OBVIOUS
  <2>1. CASE CreateOp \/ ((LoopHead \/ CategoryOp \/ UpdateOp) /\ ~Finish)
    BY <2>1, LoopAdvances, CreateAdvances, AdvanceCovers
    DEF LookedInv, NothingMissed
  <2>2. CASE Finish \/ Stop \/ StopAtReadBack
    BY <2>2, EmptyCatalog
    DEF Finish, Stop, StopAtReadBack, Memoryless, LookedInv, CatalogCovers,
        NothingMissed, Missed
  <2>3. CASE Start
    BY <2>3, EmptyCatalog
    DEF Start, port, LookedInv, CatalogCovers, NothingMissed, Missed
  <2>4. CASE UNCHANGED <<store, port, pc, cur>>
    BY <2>4
    DEF store, port, LookedInv, CatalogCovers, NothingMissed, Ahead
  <2> QED BY <2>1, <2>2, <2>3, <2>4 DEF Next, Step, Land, vars, store, port
<1> QED BY <1>1, <1>2, BindInvariance, PTL DEF Spec

\* A step that leaves a record pending starts from one that nothing was ever
\* written for.
LEMMA StepRemembers ==
  ASSUME LookedInv, [Next]_vars, NEW i \in Ops, Reusable(i)
  PROVE  RecoveryState(rec'[i]) # "NOT_STARTED"
<1>1. rec[i].state \in {"VERIFIED", "WRITTEN", "READ_BACK"}
  BY DEF Reusable, RecoveryState
<1>2. SUFFICES rec'[i].state \notin {"NONE", "PENDING_WRITE"}
  BY DEF RecoveryState
<1>3. rec \in [Ops -> OpRecord]
  BY DEF LookedInv, BindInv, Inv, TypeOK
<1> DEFINE Started(r) == r.state \notin {"NONE", "PENDING_WRITE"}
<1>4. CASE rec'[i] = rec[i]
  BY <1>1, <1>4
<1>5. SUFFICES ASSUME rec'[i] # rec[i] PROVE Started(rec'[i])
  BY <1>4
<1>6. ASSUME NEW r, Save(r), Started(r) PROVE Started(rec'[i])
  BY <1>3, <1>5, <1>6 DEF Save
<1>7. ASSUME rec' = rec \/ \E r : Save(r)
      PROVE  /\ i = cur /\ current \in OpRecord
             /\ \E r : Save(r)
  BY <1>3, <1>5, <1>7 DEF Save, current
<1>8. ASSUME current \in OpRecord
      PROVE  /\ \A s, att : Bad(s, att).state = s
             /\ \A s, sys : Verdict(s, sys).state = s
             /\ \A d, att : [current EXCEPT !.state = "WRITTEN", !.did = d,
                                          !.att = att].state = "WRITTEN"
             /\ [current EXCEPT !.state = "BLOCKED", !.sys = TRUE].state
                  = "BLOCKED"
             /\ [current EXCEPT !.state = "VERIFIED"].state = "VERIFIED"
             /\ [current EXCEPT !.state = "WRITTEN", !.att = @ + 1,
                               !.did = UpdateTarget].state = "WRITTEN"
             /\ \A att : [Bad("WRITE_FAILED", att)
                           EXCEPT !.did = UpdateTarget].state = "WRITE_FAILED"
  BY <1>8 DEF Bad, Verdict, OpRecord
<1>9. CASE LoopHead
  <2>1. /\ rec' = rec \/ \E r : Save(r)
        /\ \/ rec' = rec
           \/ Save([current EXCEPT !.state = "BLOCKED", !.sys = TRUE])
           \/ Save([current EXCEPT !.state = "VERIFIED"])
           \/ Save(Bad("BLOCKED", current.att))
    BY <1>9
    DEF LoopHead, BlockRemaining, SkipDone, KeepBlocked, BeginCreate,
        BeginUpdate, Finish, SettleBad, Settle, store
  <2> QED BY <1>5, <1>6, <1>7, <1>8, <2>1
<1>10. CASE CategoryOp
  <2>1. /\ rec' = rec \/ \E r : Save(r)
        /\ \/ rec' = rec
           \/ Save([current EXCEPT !.state = "VERIFIED"])
           \/ Save(Bad("WRITE_FAILED", current.att))
    BY <1>10
    DEF CategoryOp, ListCategories, CreateCategory, CategoryReadBack,
        SettleBad, Settle
  <2> QED BY <1>5, <1>6, <1>7, <1>8, <2>1
<1>11. CASE UpdateOp
  <2> DEFINE written == [current EXCEPT !.state = "WRITTEN", !.att = @ + 1,
                                        !.did = UpdateTarget]
             failed  == [Bad("WRITE_FAILED", current.att + 1)
                           EXCEPT !.did = UpdateTarget]
             done    == [current EXCEPT !.state = "VERIFIED"]
             differs == Bad("VERIFY_FAILED", current.att)
  <2>1. \/ rec' = rec
        \/ Save(written) \/ Save(failed) \/ Save(done) \/ Save(differs)
    BY <1>11
    DEF UpdateOp, UpdateProduct, UpdateAnswered, UpdateFailed, ReadUpdated,
        CompareUpdated, SettleBad, Settle, store
  <2>2. rec' = rec \/ \E r : Save(r)
    BY <2>1
  <2>3. current \in OpRecord
    BY <1>7, <2>2
  <2>4. /\ written.state = "WRITTEN" /\ failed.state = "WRITE_FAILED"
        /\ done.state = "VERIFIED" /\ differs.state = "VERIFY_FAILED"
    BY <1>8, <2>3
  <2> HIDE DEF written, failed, done, differs
  <2> QED BY <1>5, <1>6, <2>1, <2>4
<1>12. CASE ResolveCategory \/ FindByIdentity \/ FindAgain
  <2>1. /\ rec' = rec \/ \E r : Save(r)
        /\ \/ rec' = rec
           \/ \E s \in {"BLOCKED", "WRITE_FAILED"} : \E att : Save(Bad(s, att))
           \/ \E d, att : Save([current EXCEPT !.state = "WRITTEN", !.did = d,
                                               !.att = att])
    BY <1>12
    DEF ResolveCategory, FindByIdentity, FindAgain, SettleBad, Settle, Written
  <2> QED BY <1>5, <1>6, <1>7, <1>8, <2>1
<1>13. CASE ListBefore \/ ClickSkab \/ ListAfterOk \/ ListAfterError
  <2>1. /\ rec' = rec \/ \E r : Save(r)
        /\ \/ rec' = rec
           \/ \E d, att : Save([current EXCEPT !.state = "WRITTEN", !.did = d,
                                               !.att = att])
    BY <1>13
    DEF ListBefore, ClickSkab, ListAfterOk, ListAfterError, Created, Written,
        store
  <2> QED BY <1>5, <1>6, <1>7, <1>8, <2>1
<1>14. CASE ReadProduct \/ StopAtReadBack
  <2>1. /\ rec' = rec \/ \E r : Save(r)
        /\ \E s \in {"VERIFIED", "VERIFY_FAILED", "READ_BACK"} : \E sys :
             Save(Verdict(s, sys))
    BY <1>14 DEF ReadProduct, StopAtReadBack, SettleBad, Settle
  <2> QED BY <1>6, <1>7, <1>8, <2>1
<1>15. CASE FindAfterFail
  <2>1. rec' = rec \/ \E r : Save(r)
    BY <1>15 DEF FindAfterFail, SettleBad, Settle, Written
  <2>2. pc \in CreateLabels /\ pc \in Missed
    BY <1>15 DEF FindAfterFail, CreateLabels, Missed
  <2>3. rec[cur].state \notin {"VERIFIED", "WRITTEN", "READ_BACK"}
    BY <2>2, CreateFacts DEF LookedInv, BindInv, NothingMissed, Halfway
  <2> QED BY <1>1, <1>7, <2>1, <2>3
<1>16. CASE Start
  BY <1>1, <1>16 DEF Start
<1>17. CASE Stop \/ (\E k \in Ops : Land(k)) \/ UNCHANGED vars
  BY <1>5, <1>17 DEF Stop, Land, vars, store
<1> QED BY <1>9, <1>10, <1>11, <1>12, <1>13, <1>14, <1>15, <1>16, <1>17
  DEF Next, Step, CreateOp

\* An operation that a recovery plan has once called persisted or verified is
\* never again reported as not started (recoveryState of recoveryPlan.ts).
THEOREM NothingForgotten == Spec => NeverForgotten
<1>1. LookedInv /\ [Next]_vars =>
        \A i \in Ops : Reusable(i) => RecoveryState(rec'[i]) # "NOT_STARTED"
  BY StepRemembers
<1> QED BY <1>1, LookedInvariance, PTL DEF Spec, NeverForgotten
=============================================================================
