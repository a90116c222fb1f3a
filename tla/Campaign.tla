------------------------------- MODULE Campaign -------------------------------
(***************************************************************************)
(* The recovery of one restaurant's destination by approved scripts:        *)
(* scripts/bella-*.mts and scripts/execute-approved-bella-*.mts.            *)
(*                                                                         *)
(* An interrupted portal job left an empty category behind.  Preparation    *)
(* scripts write the target menu and plans; a person approves a plan by     *)
(* writing its hashes into an executor (the AUTH constant); an executor     *)
(* compares the files and the world with its hashes and then writes row by  *)
(* row, and stops for good (exit 2) at the first thing it did not expect.   *)
(* A script may be started again at any time, whatever the last one left.   *)
(*                                                                         *)
(* Assumed: one script runs at a time, and no create request outlives the   *)
(* script that sent it.  Hashes are what they hash, and a plan that is      *)
(* written again has another hash (its time is in it).  Locks on the        *)
(* version, host and source file, which nothing here changes, are left out, *)
(* and so is bella-continuation-readiness, whose files no script reads.     *)
(***************************************************************************)
EXTENDS Integers, Sequences, FiniteSets

CONSTANTS
  Cats,      \* the categories of the target menu
  Menu,      \* the numbers of its products, in its order
  Good,      \* the versions of the target menu whose quality is 12/0/0
  NamedAs,   \* what the receipt naming makes of each version
  Kept,      \* the products whose text the receipt naming leaves as it was
  Foreign,   \* menu numbers other people use
  MaxEdits,  \* bound: changes by other people
  MaxRuns    \* bound: times an executor is started

Items == {Menu[k] : k \in DOMAIN Menu}
First == Menu[1]  \* "Smash burger"
Pizza == "PIZZA"
Names == Cats \cup Items \cup Foreign \cup {Pizza}
Kinds == {"category", "product"}

\* Versions of bella-target-menu.json: none yet, as extracted, with the accepted
\* reviews, and what the receipt naming may make of these two.
None == 0  Extracted == 1  Reviewed == 2
Versions == 0 .. 4

ASSUME CampaignConstants ==
  /\ Menu \in Seq(Items) /\ Menu # <<>> /\ Kept \subseteq Items
  /\ \A k, l \in DOMAIN Menu : Menu[k] = Menu[l] => k = l
  /\ Cats \cap Items = {} /\ Cats \cap Foreign = {} /\ Items \cap Foreign = {}
  /\ Pizza \notin Cats \cup Items \cup Foreign
  /\ IsFiniteSet(Cats)
  /\ Good \subseteq Versions /\ NamedAs \in [Versions -> Versions]
  /\ MaxEdits \in Nat /\ MaxRuns \in Nat

\* A row of the destination; its database id is its position in rows.  made is
\* the version of the target menu whose text it has (None: another text), plain
\* whether its name reads back letter by letter, and own whether a script or the
\* incident made it and nobody else has touched it.
Row == [kind : Kinds, name : Names, made : Versions, plain : BOOLEAN,
        hidden : BOOLEAN, gone : BOOLEAN, own : BOOLEAN]

VARIABLES
  rows,
  menu,       \* the target menu, and whether bella-quality.json says 12/0/0
  frozen,     \* the version whose hash stands in the preparation scripts
  files,      \* of the first plan and the fresh snapshot, those there are
  receipts,   \* what the preparation scripts last proposed for each executor
  auth,       \* what each executor was approved for and still finds
  run,        \* the executor that runs
  published,  \* ids publication runs have recorded as PUBLISHED_VERIFIED
  success,    \* the executors that have reported success
  edits, runs

prepared == <<menu, frozen, files, receipts, auth>>
vars == <<rows, prepared, run, published, success, edits, runs>>

Executors == {"recovery", "continuation", "publication"}

Rows(kind) == {i \in DOMAIN rows : rows[i].kind = kind /\ ~rows[i].gone}
NamesOf(kind) == {rows[i].name : i \in Rows(kind)}

\* What listCategories and listProducts show of a row.
View == {[id |-> i, kind |-> rows[i].kind, name |-> rows[i].name,
          hidden |-> rows[i].hidden] : i \in {i \in DOMAIN rows : ~rows[i].gone}}

NoReceipt == [menu |-> None, view |-> {}]
NoRun == [script |-> "none", at |-> "none", menu |-> None, todo |-> {}, row |-> 0]
Idle == run = NoRun

Orphan == [kind |-> "category", name |-> Pizza, made |-> None, plain |-> TRUE,
           hidden |-> FALSE, gone |-> FALSE, own |-> TRUE]

Init ==
  /\ rows = <<Orphan>>
  /\ menu = [version |-> None, ok |-> FALSE] /\ frozen = None /\ files = {}
  /\ receipts = [e \in Executors |-> NoReceipt]
  /\ auth = [e \in Executors |-> NoReceipt]
  /\ run = NoRun /\ published = {} /\ success = {}
  /\ edits = 0 /\ runs = 0

-----------------------------------------------------------------------------
(* Reading the destination. *)

\* The text of product n is the same in two versions of the target menu.
SameText(n, v, w) == v = w \/ (n \in Kept /\ NamedAs[v] = NamedAs[w])

\* compareProductFieldAware, and compareProductExact, which calls it: the row says
\* what version v says, its texts perhaps in another form.
FieldAware(i, v) ==
  /\ rows[i].name \in Items /\ rows[i].made # None
  /\ SameText(rows[i].name, rows[i].made, v)

\* The check of receipt names: the name itself is the target's.
NameEquals(i) == rows[i].plain

CategoriesMatch ==
  NamesOf("category") = Cats /\ Cardinality(Rows("category")) = Cardinality(Cats)

\* The incident's category is still there and empty, and there is no product.
IncidentOrphan ==
  /\ 1 \in Rows("category") /\ rows[1].name = Pizza
  /\ Rows("product") = {}

\* Every product of the target menu once, as it says, and no other product.
ProductsMatch(v) ==
  /\ NamesOf("product") = Items
  /\ Cardinality(Rows("product")) = Cardinality(Items)
  /\ \A i \in Rows("product") : FieldAware(i, v)

\* targetMenuEquality
EqualsTarget(v) == CategoriesMatch /\ ProductsMatch(v)

-----------------------------------------------------------------------------
(* Preparation.  Nothing here writes to the destination, and a script that     *)
(* finds another target menu than the one its hash is of stops at once.        *)

\* A proposal replaces the plan file, and what was approved of the old one is
\* void.  The publication's AUTH holds the hash of the target menu only.
Propose(e, ready, view) ==
  /\ receipts' = [receipts EXCEPT ![e] =
                    IF ready THEN [menu |-> menu.version, view |-> view] ELSE NoReceipt]
  /\ auth' = IF e = "publication" THEN auth ELSE [auth EXCEPT ![e] = NoReceipt]

\* The files a preparation script may write, but for the target menu.
Planning(e, ready, view) ==
  Propose(e, ready, view) /\ UNCHANGED <<rows, menu, frozen, run, published, success, edits, runs>>

MenuWritten ==
  UNCHANGED <<rows, frozen, files, receipts, auth, run, published, success, edits, runs>>

\* bella-recovery-prep-intel: the menu is extracted, also over a later version.
PrepIntel ==
  /\ Idle
  /\ menu' = [version |-> Extracted, ok |-> Extracted \in Good]
  /\ MenuWritten

\* bella-build-recovery-plan: a first plan, for a destination that is written
\* down in the script; only the next script reads it.
BuildRecoveryPlan ==
  /\ Idle /\ menu.version # None
  /\ files' = files \cup {"draft"}
  /\ UNCHANGED <<rows, menu, frozen, receipts, auth, run, published, success, edits, runs>>

\* bella-apply-accepted-reviews: both questions are answered, the menu is
\* extracted again with the answers, and its quality is what it then is.
ApplyAcceptedReviews ==
  /\ Idle /\ menu.version # None /\ "draft" \in files
  /\ menu' = [version |-> Reviewed, ok |-> Reviewed \in Good]
  /\ MenuWritten

\* A person writes the hash of the target menu into the preparation scripts.
Freeze ==
  /\ Idle /\ menu.version \notin {None, frozen} /\ frozen' = menu.version
  /\ UNCHANGED <<rows, menu, files, receipts, auth, run, published, success, edits, runs>>

\* bella-final-recovery-readiness: writes a fresh snapshot and the plan.  It may
\* report READY, but the executor wants the hash of the rebind's snapshot.
FinalRecoveryReadiness ==
  /\ Idle /\ menu.version # None /\ menu.version = frozen
  /\ files' = files \cup {"fresh"} /\ Planning("recovery", FALSE, {})

\* bella-rebuild-final-readiness: the same from the snapshot that is there.
RebuildFinalReadiness ==
  /\ Idle /\ menu.version # None /\ menu.version = frozen /\ "fresh" \in files
  /\ UNCHANGED files /\ Planning("recovery", FALSE, {})

\* bella-deploy-rebind: the snapshot is written first; unless the orphan is
\* confirmed the script stops there, and nothing matches the snapshot any more.
DeployRebind ==
  /\ Idle /\ menu.version # None /\ menu.version = frozen
  /\ UNCHANGED files /\ Planning("recovery", IncidentOrphan /\ menu.ok, View)

\* Mutant of FirstVerified: it is enough that the first product is listed.
FirstListed(v) == First \in NamesOf("product")

\* The first product is there, as version v of the menu has it, and hidden.
FirstVerified(v) ==
  \E i \in Rows("product") :
    rows[i].name = First /\ FieldAware(i, v) /\ rows[i].hidden

\* bella-rebind-receipt-naming: the names of the target menu are qualified by
\* their categories, and the file is overwritten before anything is compared.
\* Another menu than the frozen one is replaced by an archived copy if a person
\* has kept one, and else named all the same; the quality beside it stays.
RebindReceiptNaming ==
  /\ Idle /\ menu.version # None
  /\ \E v \in {menu.version, frozen} \ {None} : menu' = [menu EXCEPT !.version = NamedAs[v]]
  /\ MenuWritten

\* bella-final-continuation-rebind: evaluates the quality itself.
FinalContinuationRebind ==
  /\ Idle /\ menu.version # None /\ menu.version = frozen
  /\ UNCHANGED files
  /\ Planning("continuation",
       /\ menu.version \in Good /\ FirstVerified(menu.version) /\ CategoriesMatch
       /\ Cardinality(Rows("product")) = 1,
       View)

\* bella-final-destination-reconciliation
FinalReconciliation ==
  /\ Idle /\ menu.version # None /\ menu.version = frozen
  /\ UNCHANGED files
  /\ Planning("publication",
       /\ EqualsTarget(menu.version)
       /\ \A i \in Rows("product") : rows[i].hidden /\ NameEquals(i),
       {})

\* A person reads a report and writes its hashes into the executor.
Approve(e) ==
  /\ Idle /\ receipts[e] \notin {NoReceipt, auth[e]}
  /\ auth' = [auth EXCEPT ![e] = receipts[e]]
  /\ UNCHANGED <<rows, menu, frozen, files, receipts, run, published, success, edits, runs>>

-----------------------------------------------------------------------------
(* The executors.  Every stop(...) is Stopped, from which nothing goes on. *)

Stopped == run' = NoRun
At(script, place) == run.script = script /\ run.at = place

\* The locks every executor has: the target menu is the approved one, and those
\* that create products want its quality to be 12/0/0.
Locked(e) ==
  /\ Idle /\ runs < MaxRuns /\ runs' = runs + 1
  /\ auth[e] # NoReceipt /\ menu.version = auth[e].menu
  /\ e # "publication" => menu.ok

Begin(e, place, todo) ==
  run' = [script |-> e, at |-> place, menu |-> menu.version, todo |-> todo,
          row |-> 0]

\* execute-approved-bella-recovery: the destination lists what was approved and
\* the incident's category is empty.
StartRecovery ==
  /\ Locked("recovery")
  /\ View = auth["recovery"].view /\ IncidentOrphan
  /\ Begin("recovery", "orphan", Cats)
  /\ UNCHANGED <<rows, prepared, published, success, edits>>

\* Mutant of Doomed: the category is looked up by its name.
DoomedByName == {i \in Rows("category") : rows[i].name = Pizza}

\* The category the deletion is for.
Doomed == {1} \cap Rows("category")

\* deleteCategory, and the list once more: it goes on only if it is gone.
DeleteOrphan ==
  /\ At("recovery", "orphan")
  /\ \/ \E i \in Doomed : rows' = [rows EXCEPT ![i].gone = TRUE]
     \/ UNCHANGED rows
  /\ IF 1 \in Rows("category")' THEN Stopped
     ELSE run' = [run EXCEPT !.at = "categories"] \/ Stopped
  /\ UNCHANGED <<prepared, published, success, edits, runs>>

\* A category that is listed is taken; another is created and read back.
CreateCategory(c) ==
  /\ At("recovery", "categories") /\ c \in run.todo
  /\ \/ c \in NamesOf("category") /\ UNCHANGED rows
     \/ /\ c \notin NamesOf("category")
        /\ rows' = Append(rows, [Orphan EXCEPT !.name = c])
     \/ c \notin NamesOf("category") /\ UNCHANGED rows
  /\ \/ /\ c \in NamesOf("category")'
        /\ run' = [run EXCEPT !.todo = @ \ {c}]
     \/ c \notin NamesOf("category") /\ Stopped
  /\ UNCHANGED <<prepared, published, success, edits, runs>>

BeginProducts ==
  /\ At("recovery", "categories") /\ run.todo = {}
  /\ run' = [run EXCEPT !.at = "products", !.todo = Items]
  /\ UNCHANGED <<rows, prepared, published, success, edits, runs>>

\* execute-approved-bella-continuation: the destination lists what was approved,
\* which is the target's categories and one product, and that one is verified.
StartContinuation ==
  /\ Locked("continuation")
  /\ View = auth["continuation"].view
  /\ CategoriesMatch /\ Cardinality(Rows("product")) = 1
  /\ FirstVerified(menu.version)
  /\ Begin("continuation", "products", Items \ {First})
  /\ UNCHANGED <<rows, prepared, published, success, edits>>

\* Products come in the order of the target menu, and are published in the order
\* of their numbers, taken to be the same.
InTurn(n, others) ==
  \E k \in DOMAIN Menu : Menu[k] = n /\ \A l \in 1 .. k - 1 : Menu[l] \notin others

\* Mutant of CreateProduct: a create whose answer was lost is sent again.
CreateProductAgain(n) ==
  /\ run.at = "products" /\ n \in run.todo /\ InTurn(n, run.todo)
  /\ \E row \in [kind : {"product"}, name : {n}, made : {run.menu, None},
                 plain : BOOLEAN, hidden : BOOLEAN, gone : {FALSE},
                 own : {TRUE}] : rows' = Append(rows, row)
  /\ \/ run' = [run EXCEPT !.at = "reading", !.row = Len(rows) + 1]
     \/ UNCHANGED run
  /\ UNCHANGED <<prepared, published, success, edits, runs>>

\* One product of the recovery or the continuation: a number that is listed
\* stops the run, and so does every answer but CREATED.  What is stored may be
\* public, have another text, or read back in another form.
CreateProduct(n) ==
  /\ run.at = "products" /\ n \in run.todo /\ InTurn(n, run.todo)
  /\ \/ n \in NamesOf("product") /\ Stopped /\ UNCHANGED rows
     \/ /\ n \notin NamesOf("product")
        /\ \E row \in [kind : {"product"}, name : {n}, made : {run.menu, None},
                       plain : BOOLEAN, hidden : BOOLEAN, gone : {FALSE},
                       own : {TRUE}] : rows' = Append(rows, row)
        /\ \/ run' = [run EXCEPT !.at = "reading", !.row = Len(rows) + 1]
           \/ Stopped
     \/ n \notin NamesOf("product") /\ Stopped /\ UNCHANGED rows
  /\ UNCHANGED <<prepared, published, success, edits, runs>>

\* Mutant of StagedAs: a product that turns out to be public is only noted.
StagedAsShown(i, v) == FieldAware(i, v)

\* What a product must be after its creation for the run to go on.
StagedAs(i, v) ==
  /\ rows[i].hidden /\ FieldAware(i, v)
  /\ run.script = "continuation" => NameEquals(i)

ReadBack ==
  /\ run.at = "reading"
  /\ IF ~rows[run.row].gone /\ StagedAs(run.row, run.menu)
     THEN run' = [run EXCEPT !.at = "products", !.row = 0,
                             !.todo = @ \ {rows[run.row].name}]
     ELSE Stopped
  /\ UNCHANGED <<rows, prepared, published, success, edits, runs>>

Report(e, good) ==
  /\ success' = IF good THEN success \cup {e} ELSE success
  /\ Stopped

\* The recovery looks each number up once, wherever the list has it first: it
\* wants the target's categories and no "PIZZA", and does not count the rows.
RecoveryEnds ==
  \E found \in SUBSET Rows("product") :
    /\ {rows[i].name : i \in found} = NamesOf("product")
    /\ \A i, k \in found : rows[i].name = rows[k].name => i = k
    /\ Report("recovery",
         /\ NamesOf("product") = Items
         /\ \A i \in found : FieldAware(i, run.menu)
         /\ Cats \subseteq NamesOf("category")
         /\ Pizza \notin NamesOf("category")
         /\ \A i \in Rows("product") : rows[i].hidden)

\* The continuation wants the categories and the products and no other.
ContinuationEnds ==
  Report("continuation",
    EqualsTarget(run.menu) /\ \A i \in Rows("product") : rows[i].hidden)

\* Full verification of the staged menu.
VerifyStaged ==
  /\ run.at = "products" /\ run.todo = {}
  /\ IF run.script = "recovery" THEN RecoveryEnds ELSE ContinuationEnds
  /\ UNCHANGED <<rows, prepared, published, edits, runs>>

\* Mutant of StartPublication: what is public already is left alone.
StartPublicationRest ==
  /\ Locked("publication")
  /\ EqualsTarget(menu.version)
  /\ Begin("publication", "publishing", {i \in Rows("product") : rows[i].hidden})
  /\ UNCHANGED <<rows, prepared, published, success, edits>>

\* bella-publication-certification: bound to the target menu, not to a snapshot
\* of the destination; everything must be there as the target says, and hidden.
StartPublication ==
  /\ Locked("publication")
  /\ EqualsTarget(menu.version)
  /\ \A i \in Rows("product") : rows[i].hidden
  /\ Begin("publication", "publishing", Rows("product"))
  /\ UNCHANGED <<rows, prepared, published, success, edits>>

\* One visibility operation: the product still reads as the target says and the
\* form shows its name; its checkbox is set and the whole form is submitted, which
\* may change the text; an answer that is not seen or says error stops the run.
Publish(i) ==
  /\ At("publication", "publishing") /\ i \in run.todo
  /\ InTurn(rows[i].name, {rows[k].name : k \in run.todo})
  /\ \/ /\ ~rows[i].gone /\ FieldAware(i, run.menu) /\ NameEquals(i)
        /\ \/ \E made \in {rows[i].made, None} :
                rows' = [rows EXCEPT ![i].hidden = FALSE, ![i].made = made]
           \/ UNCHANGED rows
        /\ run' = [run EXCEPT !.at = "checking", !.row = i] \/ Stopped
     \/ /\ rows[i].gone \/ ~FieldAware(i, run.menu) \/ ~NameEquals(i)
        /\ Stopped /\ UNCHANGED rows
  /\ UNCHANGED <<prepared, published, success, edits, runs>>

\* What a product must be after its publication for the run to go on.
LiveAs(i, v) == ~rows[i].gone /\ ~rows[i].hidden /\ FieldAware(i, v)

CheckPublished ==
  /\ At("publication", "checking")
  /\ IF LiveAs(run.row, run.menu)
     THEN /\ published' = published \cup {run.row}
          /\ run' = [run EXCEPT !.at = "publishing", !.row = 0,
                                !.todo = @ \ {run.row}]
     ELSE Stopped /\ UNCHANGED published
  /\ UNCHANGED <<rows, prepared, success, edits, runs>>

\* The storefront and the list of products once more.
VerifyLive ==
  /\ At("publication", "publishing") /\ run.todo = {}
  /\ Report("publication",
       /\ ProductsMatch(run.menu)
       /\ \A i \in Rows("product") : ~rows[i].hidden /\ NameEquals(i))
  /\ UNCHANGED <<rows, prepared, published, edits, runs>>

\* An executor ends anywhere: a lost login, a page that does not load, a kill.
Abort ==
  /\ ~Idle /\ Stopped
  /\ UNCHANGED <<rows, prepared, published, success, edits, runs>>

\* Other people work at the destination at any time: they add a row, delete
\* one, change its text, hide it or show it.
Edit ==
  /\ edits < MaxEdits /\ edits' = edits + 1
  /\ \/ \E k \in Kinds :
          \E n \in (IF k = "category" THEN Cats \cup {Pizza} ELSE Items \cup Foreign) :
            \E hidden \in (IF k = "category" THEN {FALSE} ELSE BOOLEAN) :
              rows' = Append(rows, [kind |-> k, name |-> n, made |-> None,
                                    plain |-> TRUE, hidden |-> hidden,
                                    gone |-> FALSE, own |-> FALSE])
     \/ \E i \in {i \in DOMAIN rows : ~rows[i].gone} :
          \/ rows' = [rows EXCEPT ![i].gone = TRUE, ![i].own = FALSE]
          \/ /\ rows[i].kind = "product"
             /\ \/ rows' = [rows EXCEPT ![i].made = None, ![i].own = FALSE]
                \/ rows' = [rows EXCEPT ![i].hidden = ~@, ![i].own = FALSE]
  /\ UNCHANGED <<prepared, run, published, success, runs>>

Prepare ==
  \/ PrepIntel \/ BuildRecoveryPlan \/ ApplyAcceptedReviews
  \/ Freeze \/ FinalRecoveryReadiness \/ RebuildFinalReadiness \/ DeployRebind
  \/ RebindReceiptNaming \/ FinalContinuationRebind \/ FinalReconciliation
Execute ==
  \/ StartRecovery \/ DeleteOrphan \/ (\E c \in Cats : CreateCategory(c))
  \/ BeginProducts \/ StartContinuation \/ (\E n \in Items : CreateProduct(n))
  \/ ReadBack \/ VerifyStaged
  \/ StartPublication \/ (\E i \in DOMAIN rows : Publish(i))
  \/ CheckPublished \/ VerifyLive \/ Abort

Next == Prepare \/ (\E e \in Executors : Approve(e)) \/ Execute \/ Edit

Spec == Init /\ [][Next]_vars

-----------------------------------------------------------------------------
(* What the campaign may not do, whatever was started again after a stop. *)

CampaignTypeOK ==
  /\ rows \in Seq(Row)
  /\ menu \in [version : Versions, ok : BOOLEAN]
  /\ frozen \in Versions /\ files \subseteq {"draft", "fresh"}
  /\ \A e \in Executors :
       {receipts[e].menu, auth[e].menu} \subseteq Versions
  /\ run.menu \in Versions /\ run.row \in 0 .. Len(rows)
  /\ published \subseteq DOMAIN rows /\ success \subseteq Executors

\* No product of the target menu is ever there twice by the scripts' hand,
\* although each of them may be started again after any stop.
NoTwin ==
  \A i, k \in Rows("product") :
    rows[i].own /\ rows[k].own /\ rows[i].name = rows[k].name => i = k

\* At most one product stands in public that no publication run has verified:
\* each executor stops at the first one, and none starts over it.
ExposureBounded ==
  Cardinality({i \in Rows("product") :
                 rows[i].own /\ ~rows[i].hidden} \ published) <= 1

\* While an executor creates products, everything the scripts have staged so
\* far, by whatever run and under whatever version of the target menu, is hidden
\* and reads as the menu that is being written.
StagedAsApproved ==
  run.at = "products" =>
    \A i \in Rows("product") :
      rows[i].own => rows[i].hidden /\ FieldAware(i, run.menu)

\* VERIFIED_LIVE is only ever reported after at least as many rows as the target
\* menu has products were published and each verified.
LiveMeansAll ==
  "publication" \in success => Cardinality(published) >= Cardinality(Items)

\* A script deletes the incident's category and nothing else: not even a
\* category of that name that somebody made meanwhile.
OnlyTheOrphanGoes ==
  [][\A i \in DOMAIN rows :
       ~rows[i].gone /\ rows'[i].gone /\ edits' = edits =>
         i = 1 /\ rows[i].own]_vars
=============================================================================
