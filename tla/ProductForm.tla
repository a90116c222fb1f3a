----------------------------- MODULE ProductForm -----------------------------
(***************************************************************************)
(* How one planned product gets through the admin form, await by await:     *)
(* createHiddenProduct and updateProductViaOpdater of                       *)
(* runner/tahDestinationPort.ts with the helpers of tah/write/formFill.ts,  *)
(* the observed click, and the read-back of runner/executor.ts.             *)
(*                                                                         *)
(* MigrationExecutor has one step for all this and lets it go wrong in any  *)
(* way; here is which ways there are.  Any await may throw; the remove      *)
(* button of a row may do nothing; a request may be stored, refused, or be  *)
(* stored when nobody waits for it any more; its answer may be missing.     *)
(*                                                                         *)
(* Rows of the three lists are [name, ore]; an ingredient has no price and  *)
(* is given 0.  Name and description are one value, text.                   *)
(***************************************************************************)
EXTENDS Integers, Sequences, FiniteSets, SequencesExt

CONSTANTS
  Payloads,    \* the products a plan may hold
  Stored,      \* what the destination may hold for an UPDATE
  Categories,  \* ids of the category boxes the form has
  Gated,       \* what gateWriteLabels makes of a text or an ingredient
  Shortened,   \* what slice makes of a label, by field
  Cap,         \* rows the port fills at most, by kind of operation and list
  Guard,       \* removals it tries at most, by list
  MaxRuns,     \* bound: runs of the executor that come to the operation
  MaxLate      \* bound: requests that are stored after their answer was given up

Blank   == ""
Refused == "refused"
Kinds   == {"CREATE", "UPDATE"}
Lists   == <<"variants", "ingredients", "additions">>
Priced  == {"variants", "additions"}
NoRow   == [hidden |-> TRUE, text |-> Blank, price |-> 0, cats |-> {},
            rows |-> [l \in ToSet(Lists) |-> << >>]]

\* The literals are named because the provers do not know them for strings.
Names   == STRING \cup {Blank, "Alm."}
Row     == [name : Names, ore : Int]
RowLists == [ToSet(Lists) -> Seq(Row)]

ASSUME FormConstants ==
  /\ \A p \in Payloads :
       /\ p.text # Blank /\ p.hidden \in BOOLEAN /\ p.rows \in RowLists
       /\ \A i \in DOMAIN p.rows["ingredients"] :
            Gated[p.rows["ingredients"][i].name] \in Names
       /\ \A l \in Priced : \A i \in DOMAIN p.rows[l] :
            Shortened["row"][p.rows[l][i].name] \in Names
  /\ \A r \in Stored : r.hidden \in BOOLEAN /\ r.rows \in RowLists
  /\ \A k \in Kinds, l \in ToSet(Lists) : Cap[k][l] \in Nat \ {0}
  /\ \A l \in ToSet(Lists) : Guard[l] \in Nat
  /\ MaxRuns \in Nat /\ MaxLate \in Nat

VARIABLES
  kind, payload,  \* the operation
  first,          \* what the destination held before it
  row,            \* what it holds; NoRow when nothing
  late,           \* submitted forms that may still be stored
  pc,             \* the call that is awaited
  list,           \* which of Lists is being set
  clicks,         \* removals tried on it
  form,           \* the form in the browser; shown is the box Aktiv?
  listed,         \* whether the admin list said Skjult, at the read-back
  cached,         \* the product as the read-back found it on its edit page
  verdict,        \* state of the operation record
  runs, lates

vars == <<kind, payload, first, row, late, pc, list, clicks, form, listed, cached,
          verdict, runs, lates>>

\* The rows of a list that have a name.
NonBlank(s) ==
  LET kept[i \in 0 .. Len(s)] ==
        IF i = 0 THEN << >>
        ELSE IF s[i].name # Blank THEN Append(kept[i - 1], s[i]) ELSE kept[i - 1]
  IN  kept[Len(s)]
FirstOf(s, n) == SubSeq(s, 1, IF Len(s) < n THEN Len(s) ELSE n)

\* The form takes whole kroner, and the server multiplies them again.
WholeKroner(ore) == 100 * ((ore + 50) \div 100)

GateRefuses ==
  \/ Gated[payload.text] = Refused
  \/ \E i \in DOMAIN payload.rows["ingredients"] :
       Gated[payload.rows["ingredients"][i].name] = Refused

NoForm == [shown |-> FALSE, text |-> Blank, price |-> 0, cats |-> {}, rows |-> NoRow.rows]

PlannedText == Shortened[kind][Gated[payload.text]]

\* The rows the port wants to see in list l.
PlannedRows(l) ==
  CASE l = "ingredients" ->
         LET named == [i \in DOMAIN payload.rows[l] |->
                        [name |-> Gated[payload.rows[l][i].name], ore |-> 0]]
         IN  FirstOf(NonBlank(named), Cap[kind][l])
    [] l = "variants" /\ payload.rows[l] = << >> -> << [name |-> "Alm.", ore |-> 0] >>
    [] OTHER ->
         LET cut == FirstOf(payload.rows[l], Cap[kind][l])
         IN  [i \in DOMAIN cut |-> [name |-> Shortened["row"][cut[i].name],
                                    ore  |-> WholeKroner(cut[i].ore)]]

Init ==
  /\ kind \in Kinds /\ payload \in Payloads
  /\ row \in IF kind = "CREATE" THEN {NoRow} ELSE Stored
  /\ first = row
  /\ form = NoForm /\ list = 1 /\ clicks = 0 /\ listed = FALSE /\ cached = NoRow
  /\ pc = "idle" /\ verdict = "PLANNED" /\ late = {} /\ runs = 0 /\ lates = 0

Goes(to) ==
  /\ pc' = to
  /\ UNCHANGED <<kind, payload, first, row, late, list, clicks, form, listed, cached,
                 verdict, runs, lates>>

Fails == /\ pc' = "idle" /\ verdict' = "WRITE_FAILED"

\* The page is left, and what was on it is gone.
LeavesPage == /\ form' = NoForm
              /\ list' = 1 /\ clicks' = 0

-----------------------------------------------------------------------------
(* A run of the executor comes to the operation *)

\* A listed number is not created again; the gate may refuse the labels.
Start ==
  /\ pc = "idle" /\ verdict # "VERIFIED" /\ runs < MaxRuns
  /\ runs' = runs + 1
  /\ IF kind = "CREATE" /\ payload.cats = << >> THEN Fails
     ELSE IF kind = "CREATE" /\ row # NoRow THEN pc' = "list" /\ UNCHANGED verdict
     ELSE IF GateRefuses THEN Fails
     ELSE pc' = "open" /\ UNCHANGED verdict
  /\ UNCHANGED <<kind, payload, first, row, late, list, clicks, form, listed, cached, lates>>

\* The page as the server renders it, with text and price filled.  A hidden
\* product's box may be rendered checked; a new form has one empty variant.
Open ==
  /\ pc = "open"
  /\ \E box \in BOOLEAN, ticked \in {{}, Categories} :
       /\ kind = "UPDATE" => ticked = {} /\ (~row.hidden => box)
       /\ form' = [shown |-> box, text |-> PlannedText,
                   price |-> WholeKroner(payload.price),
                   cats  |-> IF kind = "UPDATE" THEN row.cats ELSE ticked,
                   rows  |-> IF kind = "UPDATE" THEN row.rows
                             ELSE [NoRow.rows EXCEPT !["variants"] =
                                     << [name |-> Blank, ore |-> 0] >>]]
  /\ pc' = "trim" /\ list' = 1 /\ clicks' = 0
  /\ UNCHANGED <<kind, payload, first, row, late, listed, cached, verdict, runs, lates>>

-----------------------------------------------------------------------------
(* Its three lists, one after the other: trimThenFillNamedPriceRows and      *)
(* setIngredientRows.  A new form has nothing to trim.                      *)

HasExcess(l) == kind = "UPDATE" /\ Len(form.rows[l]) > Len(PlannedRows(l))
MayRemove(l) == HasExcess(l) /\ clicks < Guard[l]

\* The list with its rows from the n-th on made blank.
BlankFrom(l, n) ==
  [i \in DOMAIN form.rows[l] |->
     IF i < n THEN form.rows[l][i] ELSE [name |-> Blank, ore |-> 0]]

ListBecomes(l, s) == form' = [form EXCEPT !.rows[l] = s]

\* Mutant of Tried: only rows that went are counted.
TriedIfGone(goes) == IF goes THEN clicks + 1 ELSE clicks
Tried(goes) == clicks + 1

\* The remove button of the last row is clicked, and the row goes,
ClickRemove == /\ pc = "trim" /\ MayRemove(Lists[list])
               /\ Goes("detach")
RowGoes ==
  LET l == Lists[list] IN
  /\ pc = "detach" /\ pc' = "trim"
  /\ ListBecomes(l, Front(form.rows[l]))
  /\ clicks' = Tried(TRUE)
  /\ UNCHANGED <<kind, payload, first, row, late, list, listed, cached, verdict, runs, lates>>

\* or it stays.  That ends the loop for a priced list; ingredients are tried
\* again, or their last row has no button and is made blank.
RowStays ==
  LET l == Lists[list] IN
  /\ pc = "detach"
  /\ \/ l \in Priced /\ pc' = "fill" /\ UNCHANGED <<form, clicks>>
     \/ l \notin Priced /\ pc' = "trim" /\ clicks' = Tried(FALSE) /\ UNCHANGED form
     \/ /\ l \notin Priced /\ pc' = "fill" /\ UNCHANGED clicks
        /\ ListBecomes(l, BlankFrom(l, Len(form.rows[l])))
  /\ UNCHANGED <<kind, payload, first, row, late, list, listed, cached, verdict, runs, lates>>

Trimmed == /\ pc = "trim" /\ ~MayRemove(Lists[list])
           /\ Goes("fill")

\* Mutant of LeftOver: rows beyond the planned ones keep what they hold.
LeftOverAsItIs(l) ==
  SubSeq(form.rows[l], Len(PlannedRows(l)) + 1, Len(form.rows[l]))
\* Rows beyond the planned ones: blank in a priced list ("absolute guarantee").
LeftOver(l) ==
  LET n == Len(PlannedRows(l)) + 1
  IN  SubSeq(IF l \in Priced THEN BlankFrom(l, n) ELSE form.rows[l], n, Len(form.rows[l]))

FillList ==
  LET l == Lists[list] IN
  /\ pc = "fill"
  /\ ListBecomes(l, PlannedRows(l) \o LeftOver(l))
  /\ clicks' = 0
  /\ IF list = Len(Lists) THEN pc' = "boxes" /\ UNCHANGED list
     ELSE pc' = "trim" /\ list' = list + 1
  /\ UNCHANGED <<kind, payload, first, row, late, listed, cached, verdict, runs, lates>>

-----------------------------------------------------------------------------
(* The boxes, the click, and what comes of it *)

\* A create ticks its first category only; an id without a box ticks nothing.
TickCategories ==
  /\ pc = "boxes"
  /\ form' = [form EXCEPT !.cats =
       IF payload.cats = << >> THEN @
       ELSE Categories \cap
              (IF kind = "CREATE" THEN {payload.cats[1]} ELSE ToSet(payload.cats))]
  /\ pc' = "active"
  /\ UNCHANGED <<kind, payload, first, row, late, list, clicks, listed, cached, verdict, runs, lates>>

\* Mutant of Aktiv: the box of an existing product is left as it was rendered.
AktivAsRendered == IF kind = "UPDATE" THEN form.shown ELSE ~payload.hidden
Aktiv == ~payload.hidden

SetActive ==
  /\ pc = "active"
  /\ form' = [form EXCEPT !.shown = Aktiv]
  /\ pc' = "submit"
  /\ UNCHANGED <<kind, payload, first, row, late, list, clicks, listed, cached, verdict, runs, lates>>

\* An await throws, or the button cannot be clicked: the port answers FAILED.
FailsBefore ==
  /\ pc \in {"open", "trim", "detach", "fill", "boxes", "active", "submit", "find"} /\ Fails
  /\ LeavesPage /\ UNCHANGED <<kind, payload, first, row, late, listed, cached, runs, lates>>

\* What the server makes of a submitted form; it may keep rows without a name.
\* A second product of the same number is MigrationExecutor's subject.
Stores(f, keeps) ==
  IF kind = "CREATE" /\ row # NoRow THEN row
  ELSE [hidden |-> ~f.shown, text |-> f.text, price |-> f.price, cats |-> f.cats,
        rows |-> [l \in ToSet(Lists) |->
                    IF keeps THEN f.rows[l] ELSE NonBlank(f.rows[l])]]

\* "unseen": the request is not observed, or the click throws after sending it.
\* "none": no answer in time, which counts as status -1 and as no error.
Click ==
  /\ pc = "submit"
  /\ \E answer \in {"ok", "error", "none", "unseen"} :
       /\ \/ \E keeps \in BOOLEAN : row' = Stores(form, keeps) /\ UNCHANGED <<late, lates>>
          \/ UNCHANGED <<row, late, lates>>
          \/ /\ answer \in {"none", "unseen"} /\ lates < MaxLate
             /\ late' = late \cup {form} /\ lates' = lates + 1
             /\ UNCHANGED row
       /\ \/ answer = "unseen" /\ Fails
          \/ answer = "error" /\ kind = "UPDATE" /\ Fails
          \/ /\ answer \in {"ok", "none"} /\ kind = "UPDATE"
             /\ pc' = "list" /\ verdict' = "WRITTEN"
          \/ /\ answer # "unseen" /\ kind = "CREATE"
             /\ pc' = "find" /\ verdict' = "WRITE_ATTEMPTED"
  /\ LeavesPage /\ UNCHANGED <<kind, payload, first, listed, cached, runs>>

\* The created product is looked for in the admin list, whatever the answer.
FindCreated ==
  /\ pc = "find"
  /\ IF row = NoRow THEN Fails ELSE pc' = "list" /\ verdict' = "WRITTEN"
  /\ UNCHANGED <<kind, payload, first, row, late, list, clicks, form, listed, cached, runs, lates>>

Land ==
  /\ \E f \in late, keeps \in BOOLEAN :
       /\ row' = Stores(f, keeps)
       /\ late' = late \ {f}
  /\ UNCHANGED <<kind, payload, first, pc, list, clicks, form, listed, cached, verdict, runs, lates>>

-----------------------------------------------------------------------------
(* The read-back: the status from the list, then everything else *)

ReadList ==
  /\ pc = "list"
  /\ listed' = row.hidden
  /\ pc' = "read"
  /\ UNCHANGED <<kind, payload, first, row, late, list, clicks, form, cached, verdict, runs, lates>>

Times(n, s) == Len(SelectSeq(s, LAMBDA r : r.name = n))
SameIngredients(a, b) ==
  \A n \in {r.name : r \in ToSet(a) \cup ToSet(b)} \ {Blank} : Times(n, a) = Times(n, b)

\* compareProductExact, but for the visibility: the fields of the edit form.
SameFields(p, r) ==
  /\ p.text = r.text /\ p.price = r.price /\ ToSet(p.cats) = r.cats
  /\ \A l \in Priced : p.rows[l] = r.rows[l]
  /\ SameIngredients(p.rows["ingredients"], r.rows["ingredients"])

\* Mutant of Verifies: money is compared in the unit the form was filled with.
VerifiesKroner(read) ==
  /\ SameFields([payload EXCEPT !.price = WholeKroner(@)], read)
  /\ payload.hidden = listed
Verifies(read) == SameFields(payload, read) /\ payload.hidden = listed

\* An edit page that is not one reads as a product without anything.  The
\* edit pages of the other products are read before anyone looks at it.
ReadForm ==
  /\ pc = "read" /\ pc' = "compare"
  /\ cached' \in {row, NoRow}
  /\ UNCHANGED <<kind, payload, first, row, late, list, clicks, form, listed, verdict, runs, lates>>

Compare ==
  /\ pc = "compare" /\ pc' = "idle"
  /\ verdict' = IF Verifies(cached) THEN "VERIFIED" ELSE "VERIFY_FAILED"
  /\ listed' = FALSE /\ cached' = NoRow
  /\ UNCHANGED <<kind, payload, first, row, late, list, clicks, form, runs, lates>>

\* The process dies, or the read-back throws: the record stays as it was.
Stop ==
  /\ pc # "idle" /\ pc' = "idle"
  /\ LeavesPage /\ listed' = FALSE /\ cached' = NoRow
  /\ UNCHANGED <<kind, payload, first, row, late, verdict, runs, lates>>

Handler ==
  \/ Open \/ ClickRemove \/ RowGoes \/ RowStays \/ Trimmed \/ FillList \/ TickCategories \/ SetActive
  \/ Click \/ FindCreated \/ ReadList \/ ReadForm \/ Compare

Next == Start \/ Handler \/ FailsBefore \/ Land \/ Stop

Spec == Init /\ [][Next]_vars

\* Every await of the port has a time limit.
FairSpec == Spec /\ WF_vars(Handler)

-----------------------------------------------------------------------------
(* What should hold *)

Planned(r) ==
  /\ r.text = PlannedText /\ r.price = WholeKroner(payload.price)
  /\ r.hidden = payload.hidden
  /\ \A l \in Priced : NonBlank(r.rows[l]) = NonBlank(PlannedRows(l))

\* However a run is cut short, and whenever its requests are stored: text,
\* price, visibility, variants and additions of the product are all as they
\* were, or all as the port plans them.  No variant of the old menu survives
\* next to the new ones (trimThenFillNamedPriceRows, "absolute guarantee").
OldOrPlanned == row = first \/ Planned(row)

\* A product that is to stay hidden is never shown to customers: not by the
\* box of an edit form that is rendered checked for a hidden product
\* (setActiveCheckbox), and not by a request that is stored late.
NeverShown == [][payload.hidden /\ row.hidden => row'.hidden]_vars

\* An operation is VERIFIED only when the product, as it was read, carried all
\* that was planned: labels before the gate and the cuts, rows before the caps,
\* prices in oere, every category.  Status and edit page are read at two times
\* and compared at a third (refreshCatalogFromList, processUpdateOp); a late
\* request stored in between leaves a planned product of the same status.
VerifiedWasWhole ==
  [][verdict' = "VERIFIED" /\ verdict # "VERIFIED" =>
       /\ SameFields(payload, cached)
       /\ row = cached \/ Planned(row)
       /\ row.hidden = payload.hidden]_vars

\* The port comes to an answer, also when the remove buttons do nothing
\* (guard of setIngredientRows).
FormSettles == pc # "idle" ~> pc = "idle"

-----------------------------------------------------------------------------
(* What the documents say of the form and the code does not keep.  Each can *)
(* be put in form.cfg as an INVARIANT to see how.                           *)

\* docs/RELIABILITY.md: "No fixed row limit".  A create fills 8, 12 and 8 rows.
NoFixedRowLimit ==
  pc = "submit" =>
    \A l \in ToSet(Lists) : Len(NonBlank(form.rows[l])) >= Len(payload.rows[l])

\* docs/DOMAIN_RULES.md: "blank rows must be removed before Skab/Opdater".
NoBlankRow ==
  pc = "submit" => \A l \in ToSet(Lists) : NonBlank(form.rows[l]) = form.rows[l]

\* docs/TAH_ADMIN_CONTRACT.md: "Actual intended rows == WritePlan rows".
\* setIngredientRows submits the old ingredients it could not remove.
NoOldIngredient ==
  pc = "submit" => Len(NonBlank(form.rows["ingredients"]))
                     <= Len(PlannedRows("ingredients"))

\* The product is whole when it is called VERIFIED.  A late form, with an
\* ingredient it could not remove, is stored after the edit page was read.
WholeAtVerdict ==
  [][verdict' = "VERIFIED" /\ verdict # "VERIFIED" => SameFields(payload, row)]_vars
=============================================================================
