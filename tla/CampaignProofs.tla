---------------------------- MODULE CampaignProofs ----------------------------
(***************************************************************************)
(* What the recovery scripts may not do, for any target menu, any edits of  *)
(* other people and any order of stops and new starts.                      *)
(*                                                                         *)
(* The five promises lean on one another: that at most one product stands   *)
(* in public unverified (ExposureBounded) holds because every executor      *)
(* stops at the first one and starts only where everything the scripts have *)
(* staged is hidden, so what is exposed is always the row being worked on   *)
(* (ExposedRow); that all of it is staged as approved while products are    *)
(* created holds from the start of an executor on (Staged); and that        *)
(* VERIFIED_LIVE means all of the menu holds because a publication has      *)
(* every name of the menu among what it has to do and what is published     *)
(* (ToPublish).                                                             *)
(***************************************************************************)
EXTENDS Campaign, FiniteSetTheorems, SequenceTheorems, TLAPS

USE DEF prepared

\* The products of the destination that scripts made and nobody else touched,
\* and those of them that are public though no publication has verified them.
Own     == {i \in Rows("product") : rows[i].own}
Exposed == {i \in Own : ~rows[i].hidden} \ published
NamesAt(S) == {rows[i].name : i \in S}

RunPlaces == {"none", "orphan", "categories", "products", "reading",
              "publishing", "checking"}

Typed ==
  /\ rows \in Seq(Row) /\ DOMAIN rows # {}
  /\ menu = [version |-> menu.version, ok |-> menu.ok] /\ menu.version \in Versions
  /\ run = [script |-> run.script, at |-> run.at, menu |-> run.menu,
            todo |-> run.todo, row |-> run.row]
  /\ run.at \in RunPlaces /\ run.menu \in Versions
  /\ published \subseteq DOMAIN rows

\* The incident's category stays what it was until it is deleted.
OrphanOwn == rows[1].kind = "category" /\ (rows[1].gone \/ rows[1].own)

ExposedRow ==
  /\ \A i, k \in Exposed : i = k
  /\ run.at \in {"reading", "checking"} => Exposed \subseteq {run.row}
  /\ run.at \in {"orphan", "categories", "products", "publishing"} => Exposed = {}

StagedRow(i) == rows[i].hidden /\ FieldAware(i, run.menu)

Staged ==
  /\ run.at \in {"orphan", "categories"} => Own = {}
  /\ run.at = "products" => \A i \in Own : StagedRow(i)
  /\ run.at = "reading" => \A i \in Own \ {run.row} : StagedRow(i)

ToPublish ==
  /\ run.at \in {"products", "reading"} => run.script # "publication"
  /\ run.at \in {"publishing", "checking"} =>
       run.todo \subseteq DOMAIN rows /\ Items \subseteq NamesAt(run.todo \cup published)
  /\ run.at = "checking" => run.row \in run.todo
  /\ "publication" \in success => Items \subseteq NamesAt(published)

CampaignInv ==
  Typed /\ OrphanOwn /\ NoTwin /\ ExposedRow /\ Staged /\ ToPublish

-----------------------------------------------------------------------------
(* What a step does to the rows *)

LEMMA VersionsAre ==
  None \in Versions /\ Extracted \in Versions /\ Reviewed \in Versions
BY DEF Versions, None, Extracted, Reviewed

LEMMA RowsAre ==
  ASSUME Typed
  PROVE  /\ DOMAIN rows = 1 .. Len(rows) /\ Len(rows) \in Nat /\ 1 \in DOMAIN rows
         /\ \A i \in DOMAIN rows : rows[i] \in Row
<1>1. rows \in Seq(Row) /\ DOMAIN rows # {}
  BY DEF Typed
<1> QED BY <1>1

LEMMA RowAdded ==
  ASSUME Typed, NEW new \in Row, rows' = Append(rows, new)
  PROVE  /\ rows' \in Seq(Row) /\ DOMAIN rows' = DOMAIN rows \cup {Len(rows) + 1}
         /\ Len(rows) + 1 \notin DOMAIN rows
         /\ \A i \in DOMAIN rows : rows'[i] = rows[i]
         /\ rows'[Len(rows) + 1] = new
<1>1. /\ rows' \in Seq(Row) /\ Len(rows') = Len(rows) + 1
      /\ \A i \in 1 .. Len(rows) : rows'[i] = rows[i]
      /\ rows'[Len(rows) + 1] = new
  BY AppendProperties DEF Typed
<1> QED BY <1>1, RowsAre

LEMMA RowSet ==
  ASSUME Typed, NEW i \in DOMAIN rows, NEW new \in Row, rows' = [rows EXCEPT ![i] = new]
  PROVE  /\ rows' \in Seq(Row) /\ DOMAIN rows' = DOMAIN rows
         /\ \A k \in DOMAIN rows : k # i => rows'[k] = rows[k]
         /\ rows'[i] = new
<1>1. rows \in Seq(Row) /\ i \in 1 .. Len(rows)
  BY RowsAre DEF Typed
<1>2. rows' \in Seq(Row)
  BY <1>1, ExceptSeq
<1> QED BY <1>2

\* A row keeps its place, its name and its kind, and what is gone stays gone.
RowsStay ==
  /\ rows' \in Seq(Row) /\ DOMAIN rows \subseteq DOMAIN rows'
  /\ \A i \in DOMAIN rows :
       rows'[i].name = rows[i].name /\ rows'[i].kind = rows[i].kind

\* Nothing the scripts have staged changes, but some of it may cease to be theirs.
QuietStep ==
  /\ RowsStay /\ OrphanOwn'
  /\ Own' \subseteq Own /\ \A i \in Own' : rows'[i] = rows[i]

LEMMA SameRowsQuiet ==
  ASSUME CampaignInv, UNCHANGED rows
  PROVE  QuietStep
BY DEF CampaignInv, Typed, OrphanOwn, QuietStep, RowsStay, Own, Rows

LEMMA AddedQuiet ==
  ASSUME CampaignInv, NEW new \in Row, rows' = Append(rows, new),
         new.kind = "category" \/ ~new.own
  PROVE  QuietStep
<1>1. RowsStay /\ OrphanOwn'
  BY RowAdded, RowsAre DEF CampaignInv, RowsStay, OrphanOwn
<1>2. ASSUME NEW i \in Own' PROVE i \in Own /\ rows'[i] = rows[i]
  <2>1. i \in DOMAIN rows' /\ rows'[i].kind = "product" /\ ~rows'[i].gone /\ rows'[i].own
    BY DEF Own, Rows
  <2>2. i \in DOMAIN rows /\ rows'[i] = rows[i]
    BY <2>1, RowAdded DEF CampaignInv
  <2> QED BY <2>1, <2>2 DEF Own, Rows
<1> QED BY <1>1, <1>2 DEF QuietStep

LEMMA SetQuiet ==
  ASSUME CampaignInv, NEW i \in DOMAIN rows, NEW new \in Row,
         rows' = [rows EXCEPT ![i] = new],
         new.name = rows[i].name, new.kind = rows[i].kind,
         new.gone \/ ~new.own, i = 1 => new.gone
  PROVE  QuietStep
<1>1. RowsStay /\ OrphanOwn'
  BY RowSet, RowsAre DEF CampaignInv, RowsStay, OrphanOwn
<1>2. ASSUME NEW k \in Own' PROVE k \in Own /\ rows'[k] = rows[k]
  <2>1. k \in DOMAIN rows' /\ rows'[k].kind = "product" /\ ~rows'[k].gone /\ rows'[k].own
    BY DEF Own, Rows
  <2>2. k \in DOMAIN rows /\ k # i /\ rows'[k] = rows[k]
    BY <2>1, RowSet DEF CampaignInv
  <2> QED BY <2>1, <2>2 DEF Own, Rows
<1> QED BY <1>1, <1>2 DEF QuietStep

LEMMA EditQuiet ==
  ASSUME CampaignInv, Edit
  PROVE  QuietStep
<1>1. ASSUME NEW k \in Kinds,
             NEW n \in (IF k = "category" THEN Cats \cup {Pizza} ELSE Items \cup Foreign),
             NEW hidden \in (IF k = "category" THEN {FALSE} ELSE BOOLEAN),
             rows' = Append(rows, [kind |-> k, name |-> n, made |-> None,
                                   plain |-> TRUE, hidden |-> hidden,
                                   gone |-> FALSE, own |-> FALSE])
      PROVE  QuietStep
  <2> DEFINE new == [kind |-> k, name |-> n, made |-> None, plain |-> TRUE,
                     hidden |-> hidden, gone |-> FALSE, own |-> FALSE]
  <2>1. n \in Names
    BY DEF Names
  <2>11. hidden \in BOOLEAN
    <3>1. CASE k = "category"
      BY <3>1
    <3>2. CASE k # "category"
      BY <3>2
    <3> QED BY <3>1, <3>2
  <2>2. new \in Row /\ new.own = FALSE
    BY <2>1, <2>11, VersionsAre DEF Row
  <2> HIDE DEF new
  <2> QED BY <1>1, <2>2, AddedQuiet DEF new
<1>2. ASSUME NEW i \in DOMAIN rows, ~rows[i].gone,
             \/ rows' = [rows EXCEPT ![i].gone = TRUE, ![i].own = FALSE]
             \/ /\ rows[i].kind = "product"
                /\ \/ rows' = [rows EXCEPT ![i].made = None, ![i].own = FALSE]
                   \/ rows' = [rows EXCEPT ![i].hidden = ~@, ![i].own = FALSE]
      PROVE  QuietStep
  <2>1. rows[i] \in Row /\ (rows[i].kind = "product" => i # 1)
    BY RowsAre DEF CampaignInv, OrphanOwn
  <2>2. CASE rows' = [rows EXCEPT ![i].gone = TRUE, ![i].own = FALSE]
    <3> DEFINE new == [rows[i] EXCEPT !.gone = TRUE, !.own = FALSE]
    <3>1. new \in Row /\ new.name = rows[i].name /\ new.kind = rows[i].kind /\ new.gone = TRUE
      BY <2>1 DEF Row
    <3>2. rows' = [rows EXCEPT ![i] = new]
      BY <2>2
    <3> HIDE DEF new
    <3> QED BY <3>1, <3>2, SetQuiet
  <2>3. CASE rows[i].kind = "product" /\ rows' = [rows EXCEPT ![i].made = None, ![i].own = FALSE]
    <3> DEFINE new == [rows[i] EXCEPT !.made = None, !.own = FALSE]
    <3>1. new \in Row /\ new.name = rows[i].name /\ new.kind = rows[i].kind /\ new.own = FALSE
      BY <2>1, VersionsAre DEF Row
    <3>2. rows' = [rows EXCEPT ![i] = new]
      BY <2>3
    <3> HIDE DEF new
    <3> QED BY <2>1, <2>3, <3>1, <3>2, SetQuiet
  <2>4. CASE rows[i].kind = "product" /\ rows' = [rows EXCEPT ![i].hidden = ~@, ![i].own = FALSE]
    <3> DEFINE new == [rows[i] EXCEPT !.hidden = ~@, !.own = FALSE]
    <3>1. new \in Row /\ new.name = rows[i].name /\ new.kind = rows[i].kind /\ new.own = FALSE
      BY <2>1 DEF Row
    <3>2. rows' = [rows EXCEPT ![i] = new]
      BY <2>4
    <3> HIDE DEF new
    <3> QED BY <2>1, <2>4, <3>1, <3>2, SetQuiet
  <2> QED BY <1>2, <2>2, <2>3, <2>4
<1> QED BY <1>1, <1>2 DEF Edit

-----------------------------------------------------------------------------
(* Quiet steps *)

RunTyped(r) ==
  /\ r = [script |-> r.script, at |-> r.at, menu |-> r.menu, todo |-> r.todo, row |-> r.row]
  /\ r.at \in RunPlaces /\ r.menu \in Versions

MenuTyped(m) == m = [version |-> m.version, ok |-> m.ok] /\ m.version \in Versions

LEMMA NoRunTyped == RunTyped(NoRun) /\ NoRun.at = "none"
BY VersionsAre DEF RunTyped, NoRun, RunPlaces

\* What a quiet step leaves true, whatever becomes of the run.
LEMMA QuietFacts ==
  ASSUME CampaignInv, QuietStep, published \subseteq published', published' \subseteq DOMAIN rows
  PROVE  /\ rows' \in Seq(Row) /\ DOMAIN rows' # {} /\ published' \subseteq DOMAIN rows'
         /\ NoTwin'
         /\ Exposed' \subseteq Exposed
         /\ \A i \in Own' : i \in Own /\ rows'[i].hidden = rows[i].hidden
                            /\ \A v : FieldAware(i, v)' <=> FieldAware(i, v)
         /\ \A S : S \subseteq DOMAIN rows => NamesAt(S)' = NamesAt(S)
<1>1. rows' \in Seq(Row) /\ DOMAIN rows' # {} /\ published' \subseteq DOMAIN rows'
  BY DEF QuietStep, RowsStay, CampaignInv, Typed
<1>2. NoTwin'
  BY DEF QuietStep, RowsStay, CampaignInv, NoTwin, Own
<1>3. Exposed' \subseteq Exposed
  BY DEF QuietStep, Exposed
<1>4. ASSUME NEW i \in Own'
      PROVE  i \in Own /\ rows'[i].hidden = rows[i].hidden
             /\ \A v : FieldAware(i, v)' <=> FieldAware(i, v)
  <2>1. i \in Own /\ rows'[i] = rows[i]
    BY DEF QuietStep
  <2> QED BY <2>1 DEF FieldAware
<1>5. ASSUME NEW S, S \subseteq DOMAIN rows PROVE NamesAt(S)' = NamesAt(S)
  BY <1>5 DEF NamesAt, QuietStep, RowsStay
<1> QED BY <1>1, <1>2, <1>3, <1>4, <1>5

\* A quiet step that leaves the run where it is, or ends it.
LEMMA QuietKeepsInv ==
  ASSUME CampaignInv, QuietStep, UNCHANGED <<published, success>>,
         MenuTyped(menu'), run' = run \/ run' = NoRun
  PROVE  CampaignInv'
<1>1. published \subseteq DOMAIN rows
  BY DEF CampaignInv, Typed
<1>2. /\ rows' \in Seq(Row) /\ DOMAIN rows' # {} /\ published' \subseteq DOMAIN rows'
      /\ NoTwin' /\ Exposed' \subseteq Exposed /\ OrphanOwn'
      /\ DOMAIN rows \subseteq DOMAIN rows'
  BY <1>1, QuietFacts DEF QuietStep, RowsStay
<1>3. /\ \A i \in Own' : i \in Own /\ rows'[i].hidden = rows[i].hidden
                            /\ \A v : FieldAware(i, v)' <=> FieldAware(i, v)
      /\ \A S : S \subseteq DOMAIN rows => NamesAt(S)' = NamesAt(S)
  BY <1>1, QuietFacts
<1>4. Typed'
  BY <1>2, NoRunTyped DEF CampaignInv, Typed, MenuTyped, RunTyped
<1>5. ExposedRow'
  BY <1>2, NoRunTyped DEF CampaignInv, ExposedRow
<1>6. Staged'
  <2>1. CASE run' = NoRun
    BY <2>1, NoRunTyped DEF Staged
  <2>2. CASE run' = run
    <3>1. \A i \in Own' : StagedRow(i) => StagedRow(i)'
      BY <1>3, <2>2 DEF StagedRow, FieldAware
    <3> QED BY <1>3, <2>2, <3>1 DEF CampaignInv, Staged
  <2> QED BY <2>1, <2>2
<1>7. ToPublish'
  <2>1. NamesAt(published)' = NamesAt(published)
    BY <1>1, <1>3
  <2>2. run.todo \subseteq DOMAIN rows =>
          NamesAt(run.todo \cup published)' = NamesAt(run.todo \cup published) \/ run' # run
    <3>1. ASSUME run.todo \subseteq DOMAIN rows, run' = run
          PROVE  NamesAt(run.todo \cup published)' = NamesAt(run.todo \cup published)
      <4> DEFINE S == run.todo \cup published
      <4>1. S \subseteq DOMAIN rows /\ S' = S
        BY <1>1, <3>1
      <4>2. {rows'[i].name : i \in S} = {rows[i].name : i \in S}
        BY <4>1 DEF QuietStep, RowsStay
      <4> QED BY <4>1, <4>2 DEF NamesAt
    <3> QED BY <3>1
  <2>3. "publication" \in success' => Items \subseteq NamesAt(published)'
    BY <2>1 DEF CampaignInv, ToPublish
  <2>4. CASE run' = NoRun
    BY <2>3, <2>4, NoRunTyped DEF ToPublish
  <2>5. CASE run' = run
    BY <1>2, <2>2, <2>3, <2>5 DEF CampaignInv, ToPublish
  <2> QED BY <2>4, <2>5
<1> QED BY <1>2, <1>4, <1>5, <1>6, <1>7 DEF CampaignInv

\* The run goes on to another place, and what that place relies on holds.
LEMMA RunGoesOn ==
  ASSUME CampaignInv, QuietStep, UNCHANGED <<menu, published, success>>, RunTyped(run'),
         run'.at \in {"orphan", "categories", "products"},
         Exposed = {},
         run'.at \in {"orphan", "categories"} => Own = {},
         run'.at = "products" =>
           /\ run'.script # "publication"
           /\ \A i \in Own : rows[i].hidden /\ FieldAware(i, run'.menu)
  PROVE  CampaignInv'
<1>1. published \subseteq DOMAIN rows
  BY DEF CampaignInv, Typed
<1>2. /\ rows' \in Seq(Row) /\ DOMAIN rows' # {} /\ published' \subseteq DOMAIN rows'
      /\ NoTwin' /\ Exposed' \subseteq Exposed /\ OrphanOwn'
      /\ \A i \in Own' : i \in Own /\ rows'[i].hidden = rows[i].hidden
                            /\ \A v : FieldAware(i, v)' <=> FieldAware(i, v)
      /\ NamesAt(published)' = NamesAt(published)
  BY <1>1, QuietFacts DEF QuietStep
<1>3. Typed'
  BY <1>2 DEF CampaignInv, Typed, RunTyped
<1>4. ExposedRow'
  BY <1>2 DEF ExposedRow
<1>5. Staged'
  <2>1. run'.at \in {"orphan", "categories"} => Own' = {}
    BY <1>2
  <2>2. ASSUME run'.at = "products", NEW i \in Own' PROVE StagedRow(i)'
    <3>1. rows'[i].hidden /\ FieldAware(i, run'.menu)
      BY <1>2, <2>2
    <3>2. i \in Own' /\ rows'[i] = rows[i]
      BY DEF QuietStep
    <3> QED BY <3>1, <3>2 DEF StagedRow, FieldAware
  <2> QED BY <2>1, <2>2 DEF Staged
<1>6. ToPublish'
  BY <1>2 DEF ToPublish, CampaignInv
<1> QED BY <1>2, <1>3, <1>4, <1>5, <1>6 DEF CampaignInv

-----------------------------------------------------------------------------
(* The steps of the executors *)

LEMMA StartsKeepInv ==
  ASSUME CampaignInv, StartRecovery \/ StartContinuation \/ StartPublication
  PROVE  CampaignInv'
<1> USE DEF Begin
<1>0. QuietStep
  BY SameRowsQuiet DEF StartRecovery, StartContinuation, StartPublication
<1>1. menu.version \in Versions
  BY DEF CampaignInv, Typed
<1>2. CASE StartRecovery
  <2>1. Own = {} /\ Exposed = {}
    BY <1>2 DEF StartRecovery, IncidentOrphan, Own, Exposed
  <2> QED BY <1>0, <1>1, <1>2, <2>1, RunGoesOn DEF StartRecovery, RunTyped, RunPlaces
<1>3. CASE StartContinuation
  <2>1. PICK i \in Rows("product") : FieldAware(i, menu.version) /\ rows[i].hidden
    BY <1>3 DEF StartContinuation, FirstVerified
  <2>2. Rows("product") = {i}
    <3>1. IsFiniteSet(1 .. Len(rows))
      BY RowsAre, FS_Interval DEF CampaignInv
    <3>2. IsFiniteSet(Rows("product"))
      BY <3>1, RowsAre, FS_Subset DEF CampaignInv, Rows
    <3>3. PICK x : Rows("product") = {x}
      BY <1>3, <3>2, FS_Singleton DEF StartContinuation
    <3> QED BY <3>3
  <2>3. Own \subseteq {i} /\ Exposed = {}
    BY <2>1, <2>2 DEF Own, Exposed
  <2> QED BY <1>0, <1>1, <1>3, <2>1, <2>3, RunGoesOn DEF StartContinuation, RunTyped, RunPlaces
<1>4. CASE StartPublication
  <2>1. /\ UNCHANGED <<rows, menu, published, success>>
        /\ run' = [script |-> "publication", at |-> "publishing", menu |-> menu.version,
                   todo |-> Rows("product"), row |-> 0]
        /\ \A i \in Rows("product") : rows[i].hidden
        /\ NamesOf("product") = Items
    BY <1>4 DEF StartPublication, EqualsTarget, ProductsMatch
  <2>2. Exposed' = {} /\ Own' = Own
    BY <2>1 DEF Exposed, Own, Rows
  <2>3. Items \subseteq NamesAt(Rows("product") \cup published)
    BY <2>1 DEF NamesOf, NamesAt
  <2>4. ToPublish'
    <3>1. run'.todo \subseteq DOMAIN rows /\ Items \subseteq {rows[i].name : i \in run'.todo \cup published}
      BY <2>1, <2>3 DEF Rows, NamesAt
    <3>2. "publication" \in success => Items \subseteq {rows[i].name : i \in published}
      BY DEF CampaignInv, ToPublish, NamesAt
    <3> QED BY <2>1, <3>1, <3>2 DEF ToPublish, NamesAt
  <2>5. Typed' /\ OrphanOwn' /\ NoTwin' /\ Staged' /\ ExposedRow'
    BY <1>1, <2>1, <2>2
    DEF CampaignInv, Typed, RunPlaces, OrphanOwn, NoTwin, Rows, Staged, ExposedRow
  <2> QED BY <2>4, <2>5 DEF CampaignInv
<1> QED BY <1>2, <1>3, <1>4

LEMMA DeleteOrphanQuiet ==
  ASSUME CampaignInv, DeleteOrphan
  PROVE  QuietStep
<1>1. CASE UNCHANGED rows
  BY <1>1, SameRowsQuiet
<1>2. CASE 1 \in Rows("category") /\ rows' = [rows EXCEPT ![1].gone = TRUE]
  <2> DEFINE new == [rows[1] EXCEPT !.gone = TRUE]
  <2>1. 1 \in DOMAIN rows /\ rows[1] \in Row
    BY RowsAre DEF CampaignInv
  <2>2. new \in Row /\ new.name = rows[1].name /\ new.kind = rows[1].kind /\ new.gone = TRUE
    BY <2>1 DEF Row
  <2>3. rows' = [rows EXCEPT ![1] = new]
    BY <1>2
  <2> HIDE DEF new
  <2> QED BY <2>1, <2>2, <2>3, SetQuiet
<1> QED BY <1>1, <1>2 DEF DeleteOrphan, Doomed

LEMMA DeleteOrphanKeepsInv ==
  ASSUME CampaignInv, DeleteOrphan
  PROVE  CampaignInv'
<1>1. QuietStep /\ UNCHANGED <<menu, published, success>> /\ run.at = "orphan"
  BY DeleteOrphanQuiet DEF DeleteOrphan, At
<1>2. CASE run' = NoRun
  BY <1>1, <1>2, QuietKeepsInv DEF CampaignInv, Typed, MenuTyped
<1>3. CASE run' = [run EXCEPT !.at = "categories"]
  <2>1. RunTyped(run') /\ run'.at = "categories"
    BY <1>3 DEF CampaignInv, Typed, RunTyped, RunPlaces
  <2> QED BY <1>1, <2>1, RunGoesOn DEF CampaignInv, ExposedRow, Staged
<1> QED BY <1>2, <1>3 DEF DeleteOrphan, Stopped

LEMMA CreateCategoryKeepsInv ==
  ASSUME CampaignInv, NEW c \in Cats, CreateCategory(c)
  PROVE  CampaignInv'
<1>1. QuietStep
  <2>1. CASE UNCHANGED rows
    BY <2>1, SameRowsQuiet
  <2>2. CASE rows' = Append(rows, [Orphan EXCEPT !.name = c])
    <3>1. [Orphan EXCEPT !.name = c] \in Row /\ [Orphan EXCEPT !.name = c].kind = "category"
      BY VersionsAre DEF Orphan, Row, Kinds, Names
    <3> QED BY <2>2, <3>1, AddedQuiet
  <2> QED BY <2>1, <2>2 DEF CreateCategory
<1>2. UNCHANGED <<menu, published, success>> /\ run.at = "categories"
  BY DEF CreateCategory, At
<1>3. CASE run' = NoRun
  BY <1>1, <1>2, <1>3, QuietKeepsInv DEF CampaignInv, Typed, MenuTyped
<1>4. CASE run' = [run EXCEPT !.todo = @ \ {c}]
  <2>1. RunTyped(run') /\ run'.at = "categories"
    BY <1>2, <1>4 DEF CampaignInv, Typed, RunTyped, RunPlaces
  <2> QED BY <1>1, <1>2, <2>1, RunGoesOn DEF CampaignInv, ExposedRow, Staged
<1> QED BY <1>3, <1>4 DEF CreateCategory, Stopped

\* What the server may have stored of a created product.
LEMMA CreatedRow ==
  ASSUME Typed, NEW n \in Items,
         NEW row \in [kind : {"product"}, name : {n}, made : {run.menu, None},
                      plain : BOOLEAN, hidden : BOOLEAN, gone : {FALSE}, own : {TRUE}]
  PROVE  row \in Row /\ row.kind = "product" /\ row.name = n /\ ~row.gone /\ row.own
<1>1. /\ {n} \subseteq Names /\ {run.menu, None} \subseteq Versions
      /\ {"product"} \subseteq Kinds /\ {FALSE} \subseteq BOOLEAN /\ {TRUE} \subseteq BOOLEAN
  BY VersionsAre DEF Names, Kinds, Typed
<1>2. ASSUME NEW A, NEW B, NEW C, NEW D, NEW E, A \subseteq Kinds, B \subseteq Names,
             C \subseteq Versions, D \subseteq BOOLEAN, E \subseteq BOOLEAN,
             row \in [kind : A, name : B, made : C, plain : BOOLEAN, hidden : BOOLEAN,
                      gone : D, own : E]
      PROVE  row \in Row
  BY <1>2 DEF Row
<1>3. row \in Row
  BY <1>1, <1>2, Zenon
<1>4. row.kind = "product" /\ row.name = n /\ row.gone = FALSE /\ row.own = TRUE
  OBVIOUS
<1> QED BY <1>3, <1>4

LEMMA CreateProductKeepsInv ==
  ASSUME CampaignInv, NEW n \in Items, CreateProduct(n)
  PROVE  CampaignInv'
<1>1. /\ UNCHANGED <<menu, published, success>> /\ run.at = "products"
      /\ n \notin NamesOf("product") \/ (Stopped /\ UNCHANGED rows)
  BY DEF CreateProduct
<1>2. CASE UNCHANGED rows /\ Stopped
  BY <1>1, <1>2, SameRowsQuiet, QuietKeepsInv DEF Stopped, CampaignInv, Typed, MenuTyped
<1>3. ASSUME NEW row \in [kind : {"product"}, name : {n}, made : {run.menu, None},
                          plain : BOOLEAN, hidden : BOOLEAN, gone : {FALSE}, own : {TRUE}],
             rows' = Append(rows, row), n \notin NamesOf("product"),
             \/ run' = [run EXCEPT !.at = "reading", !.row = Len(rows) + 1]
             \/ Stopped
      PROVE  CampaignInv'
  <2> DEFINE new == Len(rows) + 1
  <2>0. row \in Row /\ row.kind = "product" /\ row.name = n /\ ~row.gone /\ row.own
    BY CreatedRow DEF CampaignInv
  <2>1. /\ rows' \in Seq(Row) /\ DOMAIN rows' = DOMAIN rows \cup {new}
        /\ new \notin DOMAIN rows
        /\ \A i \in DOMAIN rows : rows'[i] = rows[i]
        /\ rows'[new] = row
    BY <1>3, <2>0, RowAdded DEF CampaignInv
  <2> HIDE DEF new
  <2>2. RunTyped(run') /\ (run'.at = "none" \/ (run'.at = "reading" /\ run'.row = new
                                                /\ run'.script = run.script /\ run'.menu = run.menu))
    BY <1>3, NoRunTyped DEF Stopped, CampaignInv, Typed, RunTyped, RunPlaces, new
  <2>3. Own' \subseteq Own \cup {new} /\ Own \subseteq DOMAIN rows
    BY <2>1 DEF Own, Rows
  <2>4. Typed' /\ OrphanOwn'
    BY <1>1, <2>1, <2>2, RowsAre DEF CampaignInv, Typed, RunTyped, OrphanOwn
  <2>5. NoTwin'
    <3> SUFFICES ASSUME NEW i \in Own', NEW k \in Own', rows'[i].name = rows'[k].name
                 PROVE  i = k
      BY DEF NoTwin, Own
    <3>1. \A m \in Own : rows'[m].name = rows[m].name /\ rows[m].name # n
      BY <1>3, <2>1, <2>3 DEF NamesOf, Own
    <3>2. rows'[new].name = n
      BY <2>0, <2>1
    <3> QED BY <2>3, <3>1, <3>2 DEF CampaignInv, NoTwin, Own
  <2>6. Exposed' \subseteq {new}
    <3>1. Exposed = {}
      BY <1>1 DEF CampaignInv, ExposedRow
    <3>2. \A i \in Own : rows'[i] = rows[i]
      BY <2>1, <2>3
    <3> QED BY <1>1, <2>3, <3>1, <3>2 DEF Exposed
  <2>7. ExposedRow'
    BY <2>2, <2>6 DEF ExposedRow
  <2>8. Staged'
    <3> SUFFICES ASSUME run'.at = "reading", NEW i \in Own' \ {new} PROVE StagedRow(i)'
      BY <2>2 DEF Staged
    <3>1. i \in Own /\ rows'[i] = rows[i] /\ StagedRow(i)
      BY <1>1, <2>1, <2>3 DEF CampaignInv, Staged
    <3> QED BY <2>2, <3>1 DEF StagedRow, FieldAware
  <2>9. ToPublish'
    <3>1. NamesAt(published)' = NamesAt(published)
      BY <1>1, <2>1 DEF NamesAt, CampaignInv, Typed
    <3> QED BY <1>1, <2>2, <3>1 DEF CampaignInv, ToPublish
  <2> QED BY <2>4, <2>5, <2>7, <2>8, <2>9 DEF CampaignInv
<1> QED BY <1>1, <1>2, <1>3 DEF CreateProduct

LEMMA ReadBackKeepsInv ==
  ASSUME CampaignInv, ReadBack
  PROVE  CampaignInv'
<1>1. QuietStep /\ UNCHANGED <<menu, rows, published, success>> /\ run.at = "reading"
  BY SameRowsQuiet DEF ReadBack
<1>2. CASE run' = NoRun
  BY <1>1, <1>2, QuietKeepsInv DEF CampaignInv, Typed, MenuTyped
<1>3. CASE /\ ~rows[run.row].gone /\ StagedAs(run.row, run.menu)
           /\ run' = [run EXCEPT !.at = "products", !.row = 0,
                                 !.todo = @ \ {rows[run.row].name}]
  <2>1. RunTyped(run') /\ run'.at = "products" /\ run'.menu = run.menu
        /\ run'.script = run.script
    BY <1>3 DEF CampaignInv, Typed, RunTyped, RunPlaces
  <2>2. StagedRow(run.row)
    BY <1>3 DEF StagedAs, StagedRow
  <2>3. \A i \in Own : StagedRow(i)
    BY <1>1, <2>2 DEF CampaignInv, Staged
  <2>4. Exposed = {}
    BY <1>1, <2>2 DEF CampaignInv, ExposedRow, Exposed, StagedRow
  <2> QED BY <1>1, <2>1, <2>3, <2>4, RunGoesOn DEF StagedRow, CampaignInv, ToPublish
<1> QED BY <1>2, <1>3 DEF ReadBack, Stopped

\* A run that reports and ends.
LEMMA ReportKeepsInv ==
  ASSUME CampaignInv, VerifyStaged \/ VerifyLive
  PROVE  CampaignInv'
<1>1. QuietStep /\ UNCHANGED <<menu, rows, published>> /\ run' = NoRun
  BY SameRowsQuiet
  DEF VerifyStaged, RecoveryEnds, ContinuationEnds, VerifyLive, Report, Stopped
<1>2. "publication" \in success' => Items \subseteq NamesAt(published)
  <2>1. CASE VerifyStaged
    <3>1. success' = success \/ success' = success \cup {"recovery"}
          \/ success' = success \cup {"continuation"}
      BY <2>1 DEF VerifyStaged, RecoveryEnds, ContinuationEnds, Report
    <3>2. "publication" \in success' => "publication" \in success
      BY <3>1
    <3> QED BY <3>2 DEF CampaignInv, ToPublish
  <2>2. CASE VerifyLive
    <3>1. run.todo = {} /\ run.at = "publishing"
      BY <2>2 DEF VerifyLive, At
    <3>2. run.todo \cup published = published
      BY <3>1
    <3> QED BY <3>1, <3>2 DEF CampaignInv, ToPublish
  <2> QED BY <2>1, <2>2
<1>3. NamesAt(published)' = NamesAt(published)
  BY <1>1 DEF NamesAt
<1>4. ToPublish'
  BY <1>1, <1>2, <1>3, NoRunTyped DEF ToPublish
<1>5. Typed' /\ OrphanOwn' /\ NoTwin' /\ ExposedRow' /\ Staged'
  BY <1>1, NoRunTyped
  DEF CampaignInv, Typed, RunTyped, OrphanOwn, NoTwin, Rows, Own, Exposed, ExposedRow, Staged
<1> QED BY <1>4, <1>5 DEF CampaignInv

\* No row but i changes, and i keeps all but its text and its visibility.
SamePlaces(i) ==
  /\ rows' \in Seq(Row) /\ DOMAIN rows' = DOMAIN rows
  /\ \A k \in DOMAIN rows : k # i => rows'[k] = rows[k]
  /\ rows'[i].name = rows[i].name /\ rows'[i].kind = rows[i].kind
  /\ rows'[i].own = rows[i].own /\ rows'[i].gone = rows[i].gone

\* A visibility operation changes nothing else.
LEMMA PublishedRow ==
  ASSUME CampaignInv, NEW i \in DOMAIN rows, Publish(i)
  PROVE  SamePlaces(i)
<1>1. CASE UNCHANGED rows
  BY <1>1 DEF CampaignInv, Typed, SamePlaces
<1>2. ASSUME NEW made \in {rows[i].made, None},
             rows' = [rows EXCEPT ![i].hidden = FALSE, ![i].made = made]
      PROVE  SamePlaces(i)
  <2> DEFINE new == [rows[i] EXCEPT !.hidden = FALSE, !.made = made]
  <2>0. rows[i] \in Row
    BY RowsAre DEF CampaignInv
  <2>1. /\ new \in Row /\ new.name = rows[i].name /\ new.kind = rows[i].kind
        /\ new.own = rows[i].own /\ new.gone = rows[i].gone
    BY <2>0, VersionsAre DEF Row
  <2>2. rows' = [rows EXCEPT ![i] = new]
    BY <1>2
  <2> HIDE DEF new
  <2> QED BY <2>1, <2>2, RowSet DEF CampaignInv, SamePlaces
<1>3. UNCHANGED rows \/ \E made \in {rows[i].made, None} :
        rows' = [rows EXCEPT ![i].hidden = FALSE, ![i].made = made]
  BY DEF Publish
<1> QED BY <1>1, <1>2, <1>3

\* One visibility operation exposes no other row than its own.
LEMMA PublishKeepsInv ==
  ASSUME CampaignInv, NEW i \in DOMAIN rows, Publish(i)
  PROVE  CampaignInv'
<1>1. /\ UNCHANGED <<menu, published, success>> /\ run.at = "publishing" /\ i \in run.todo
      /\ Exposed = {}
  BY DEF Publish, At, CampaignInv, ExposedRow
<1>2. SamePlaces(i)
  BY PublishedRow
<1>3. Own' = Own /\ NoTwin' /\ OrphanOwn'
  BY <1>2 DEF SamePlaces, Own, Rows, CampaignInv, NoTwin, OrphanOwn
<1>4. Exposed' \subseteq {i}
  <2>1. ASSUME NEW k \in Exposed', k # i PROVE FALSE
    <3>1. k \in Own /\ rows'[k] = rows[k]
      BY <1>2, <1>3, <2>1 DEF SamePlaces, Exposed, Own, Rows
    <3> QED BY <1>1, <2>1, <3>1 DEF Exposed
  <2> QED BY <2>1
<1>5. RunTyped(run') /\ (run'.at = "none" \/ (run'.at = "checking" /\ run'.row = i
                                              /\ run'.todo = run.todo))
  <2>1. CASE run' = NoRun
    BY <2>1, NoRunTyped
  <2>2. CASE run' = [run EXCEPT !.at = "checking", !.row = i]
    BY <2>2 DEF CampaignInv, Typed, RunTyped, RunPlaces
  <2> QED BY <2>1, <2>2 DEF Publish, Stopped
<1>6. Typed'
  BY <1>1, <1>2, <1>5 DEF SamePlaces, CampaignInv, Typed, RunTyped
<1>7. ExposedRow' /\ Staged'
  BY <1>4, <1>5 DEF ExposedRow, Staged
<1>8. ToPublish'
  <2>1. run.todo \subseteq DOMAIN rows /\ published \subseteq DOMAIN rows
    BY <1>1 DEF CampaignInv, ToPublish, Typed
  <2>2. \A k \in DOMAIN rows : rows'[k].name = rows[k].name
    BY <1>2 DEF SamePlaces
  <2>3. /\ {rows'[k].name : k \in run.todo \cup published} = NamesAt(run.todo \cup published)
        /\ {rows'[k].name : k \in published} = NamesAt(published)
    BY <2>1, <2>2 DEF NamesAt
  <2>4. /\ Items \subseteq NamesAt(run.todo \cup published)
        /\ "publication" \in success => Items \subseteq NamesAt(published)
    BY <1>1 DEF CampaignInv, ToPublish
  <2> QED BY <1>1, <1>2, <1>5, <2>1, <2>3, <2>4 DEF SamePlaces, ToPublish, NamesAt
<1> QED BY <1>3, <1>6, <1>7, <1>8 DEF CampaignInv

LEMMA CheckPublishedKeepsInv ==
  ASSUME CampaignInv, CheckPublished
  PROVE  CampaignInv'
<1>1. QuietStep /\ UNCHANGED <<menu, rows, success>> /\ run.at = "checking"
  BY SameRowsQuiet DEF CheckPublished, At
<1>2. CASE run' = NoRun /\ UNCHANGED published
  BY <1>1, <1>2, QuietKeepsInv DEF CampaignInv, Typed, MenuTyped
<1>3. CASE /\ published' = published \cup {run.row}
           /\ run' = [run EXCEPT !.at = "publishing", !.row = 0, !.todo = @ \ {run.row}]
  <2>1. /\ run.row \in run.todo /\ run.todo \subseteq DOMAIN rows
        /\ Items \subseteq NamesAt(run.todo \cup published)
        /\ "publication" \in success => Items \subseteq NamesAt(published)
        /\ Exposed \subseteq {run.row} /\ published \subseteq DOMAIN rows
    BY <1>1 DEF CampaignInv, ToPublish, ExposedRow, Typed
  <2>2. RunTyped(run') /\ run'.at = "publishing" /\ run'.todo = run.todo \ {run.row}
    BY <1>3 DEF CampaignInv, Typed, RunTyped, RunPlaces
  <2>3. Typed' /\ OrphanOwn' /\ NoTwin'
    BY <1>1, <1>3, <2>1, <2>2 DEF CampaignInv, Typed, RunTyped, OrphanOwn, NoTwin, Rows
  <2>4. Own' = Own /\ Exposed' = {}
    BY <1>1, <1>3, <2>1 DEF Own, Rows, Exposed
  <2>5. ExposedRow' /\ Staged'
    BY <2>2, <2>4 DEF ExposedRow, Staged
  <2>6. ToPublish'
    <3>1. run'.todo \cup published' = run.todo \cup published
      BY <1>3, <2>1, <2>2
    <3>2. NamesAt(published) \subseteq {rows[k].name : k \in published'}
      BY <1>3 DEF NamesAt
    <3> QED BY <1>1, <2>1, <2>2, <3>1, <3>2 DEF ToPublish, NamesAt
  <2> QED BY <2>3, <2>5, <2>6 DEF CampaignInv
<1> QED BY <1>2, <1>3 DEF CheckPublished, Stopped

-----------------------------------------------------------------------------
(* The invariant *)

LEMMA CampaignInitInv == Init => CampaignInv
<1> SUFFICES ASSUME Init PROVE CampaignInv
  OBVIOUS
<1>1. Orphan \in Row /\ Orphan.kind = "category" /\ Orphan.own = TRUE
  BY VersionsAre DEF Orphan, Row, Kinds, Names
<1>2. rows \in Seq(Row) /\ DOMAIN rows = {1} /\ rows[1] = Orphan
  BY <1>1 DEF Init
<1>3. Rows("product") = {} /\ Own = {} /\ Exposed = {}
  BY <1>1, <1>2 DEF Rows, Own, Exposed
<1>4. Typed
  BY <1>2, VersionsAre, NoRunTyped DEF Init, Typed, RunTyped
<1>5. OrphanOwn /\ NoTwin /\ ExposedRow /\ Staged /\ ToPublish
  BY <1>1, <1>2, <1>3, NoRunTyped
  DEF Init, OrphanOwn, NoTwin, ExposedRow, Staged, ToPublish
<1> QED BY <1>4, <1>5 DEF CampaignInv

\* Preparation and approval write nothing.
LEMMA PrepareKeepsInv ==
  ASSUME CampaignInv, frozen \in Versions, Prepare \/ \E e \in Executors : Approve(e)
  PROVE  CampaignInv'
<1>1. UNCHANGED <<rows, run, published, success>>
  BY DEF Prepare, PrepIntel, BuildRecoveryPlan, ApplyAcceptedReviews, Freeze,
    FinalRecoveryReadiness, RebuildFinalReadiness, DeployRebind, RebindReceiptNaming,
    FinalContinuationRebind, FinalReconciliation, Planning, MenuWritten, Approve
<1>2. MenuTyped(menu')
  <2>1. MenuTyped(menu)
    BY DEF CampaignInv, Typed, MenuTyped
  <2>2. PrepIntel \/ ApplyAcceptedReviews => MenuTyped(menu')
    BY VersionsAre DEF PrepIntel, ApplyAcceptedReviews, MenuTyped
  <2>3. ASSUME RebindReceiptNaming PROVE MenuTyped(menu')
    <3>1. PICK v \in {menu.version, frozen} \ {None} : menu' = [menu EXCEPT !.version = NamedAs[v]]
      BY <2>3 DEF RebindReceiptNaming
    <3>2. v \in Versions
      BY DEF CampaignInv, Typed
    <3>3. NamedAs[v] \in Versions
      BY <3>2, CampaignConstants
    <3> QED BY <2>1, <3>1, <3>3 DEF MenuTyped
  <2>4. PrepIntel \/ ApplyAcceptedReviews \/ RebindReceiptNaming \/ UNCHANGED menu
    BY DEF Prepare, BuildRecoveryPlan, Freeze, FinalRecoveryReadiness,
      RebuildFinalReadiness, DeployRebind, FinalContinuationRebind,
      FinalReconciliation, Planning, Approve
  <2> QED BY <2>1, <2>2, <2>3, <2>4
<1> QED BY <1>1, <1>2, SameRowsQuiet, QuietKeepsInv

LEMMA CampaignStepInv ==
  CampaignInv /\ frozen \in Versions /\ [Next]_vars => CampaignInv'
<1> SUFFICES ASSUME CampaignInv, frozen \in Versions, [Next]_vars PROVE CampaignInv'
  OBVIOUS
<1>0. MenuTyped(menu)
  BY DEF CampaignInv, Typed, MenuTyped
<1>1. CASE BeginProducts
  <2>1. QuietStep /\ UNCHANGED <<menu, published, success>>
        /\ run.at = "categories" /\ run.script = "recovery"
    BY <1>1, SameRowsQuiet DEF BeginProducts, At
  <2>2. RunTyped(run') /\ run'.at = "products" /\ run'.script = "recovery"
    BY <1>1, <2>1 DEF BeginProducts, CampaignInv, Typed, RunTyped, RunPlaces
  <2> QED BY <2>1, <2>2, RunGoesOn DEF CampaignInv, ExposedRow, Staged
<1>2. CASE Abort
  BY <1>0, <1>2, SameRowsQuiet, QuietKeepsInv DEF Abort, Stopped
<1>3. CASE Edit
  <2>1. UNCHANGED <<menu, published, success, run>>
    BY <1>3 DEF Edit
  <2> QED BY <1>0, <1>3, <2>1, EditQuiet, QuietKeepsInv
<1>4. CASE UNCHANGED vars
  <2>1. UNCHANGED <<rows, menu, published, success, run>>
    BY <1>4 DEF vars
  <2> QED BY <1>0, <2>1, SameRowsQuiet, QuietKeepsInv
<1> QED BY <1>1, <1>2, <1>3, <1>4, PrepareKeepsInv, StartsKeepInv, DeleteOrphanKeepsInv,
           CreateCategoryKeepsInv, CreateProductKeepsInv, ReadBackKeepsInv, ReportKeepsInv,
           PublishKeepsInv, CheckPublishedKeepsInv DEF Next, Execute

\* The scripts hold the hash of a version there is.
LEMMA FrozenStep ==
  CampaignInv /\ frozen \in Versions /\ [Next]_vars => (frozen \in Versions)'
<1> SUFFICES ASSUME CampaignInv, frozen \in Versions, [Next]_vars PROVE frozen' \in Versions
  OBVIOUS
<1>1. CASE Freeze
  BY <1>1 DEF Freeze, CampaignInv, Typed
<1>2. CASE Prepare /\ ~Freeze
  BY <1>2 DEF Prepare, PrepIntel, BuildRecoveryPlan, ApplyAcceptedReviews,
    FinalRecoveryReadiness, RebuildFinalReadiness, DeployRebind, RebindReceiptNaming,
    FinalContinuationRebind, FinalReconciliation, Planning, MenuWritten
<1>3. CASE Execute
  <2>1. DeleteOrphan \/ (\E c \in Cats : CreateCategory(c)) \/ BeginProducts => UNCHANGED frozen
    BY DEF DeleteOrphan, CreateCategory, BeginProducts
  <2>2. StartRecovery \/ StartContinuation \/ StartPublication => UNCHANGED frozen
    BY DEF StartRecovery, StartContinuation, StartPublication
  <2>3. (\E n \in Items : CreateProduct(n)) \/ ReadBack \/ VerifyStaged => UNCHANGED frozen
    BY DEF CreateProduct, ReadBack, VerifyStaged
  <2>4. (\E i \in DOMAIN rows : Publish(i)) \/ CheckPublished \/ VerifyLive \/ Abort
          => UNCHANGED frozen
    BY DEF Publish, CheckPublished, VerifyLive, Abort
  <2> QED BY <1>3, <2>1, <2>2, <2>3, <2>4 DEF Execute
<1>4. CASE Edit \/ (\E e \in Executors : Approve(e)) \/ UNCHANGED vars
  BY <1>4 DEF Edit, Approve, vars
<1> QED BY <1>1, <1>2, <1>3, <1>4 DEF Next

LEMMA CampaignInvariant == Spec => []CampaignInv
<1>1. Init => CampaignInv /\ frozen \in Versions
  BY CampaignInitInv, VersionsAre DEF Init
<1> QED BY <1>1, CampaignStepInv, FrozenStep, PTL DEF Spec

LEMMA NoEditWhilePreparing == Prepare => UNCHANGED <<rows, edits>>
BY DEF Prepare, PrepIntel, BuildRecoveryPlan, ApplyAcceptedReviews, Freeze,
  FinalRecoveryReadiness, RebuildFinalReadiness, DeployRebind, RebindReceiptNaming,
  FinalContinuationRebind, FinalReconciliation, Planning, MenuWritten

LEMMA NoEditWhileExecuting == Execute => UNCHANGED edits
<1>1. DeleteOrphan \/ (\E c \in Cats : CreateCategory(c)) \/ BeginProducts => edits' = edits
  BY DEF DeleteOrphan, CreateCategory, BeginProducts
<1>2. StartRecovery \/ StartContinuation \/ StartPublication => edits' = edits
  BY DEF StartRecovery, StartContinuation, StartPublication
<1>3. (\E n \in Items : CreateProduct(n)) \/ ReadBack \/ VerifyStaged => edits' = edits
  BY DEF CreateProduct, ReadBack, VerifyStaged
<1>4. (\E i \in DOMAIN rows : Publish(i)) \/ CheckPublished \/ VerifyLive \/ Abort
        => edits' = edits
  BY DEF Publish, CheckPublished, VerifyLive, Abort
<1> QED BY <1>1, <1>2, <1>3, <1>4 DEF Execute

\* Only other people's changes are counted.
LEMMA EditsGrow ==
  ASSUME edits \in Nat, [Next]_vars
  PROVE  edits' \in Nat /\ (Edit => edits' # edits)
<1>1. Edit => edits' = edits + 1
  BY DEF Edit
<1>2. Edit \/ edits' = edits
  <2>1. (\E e \in Executors : Approve(e)) => edits' = edits
    BY DEF Approve
  <2>2. UNCHANGED vars => edits' = edits
    BY DEF vars
  <2> QED BY <2>1, <2>2, NoEditWhilePreparing, NoEditWhileExecuting DEF Next
<1> QED BY <1>1, <1>2

LEMMA EditsCounted == Spec => [](edits \in Nat)
<1>1. Init => edits \in Nat
  BY DEF Init
<1>2. edits \in Nat /\ [Next]_vars => (edits \in Nat)'
  BY EditsGrow
<1> QED BY <1>1, <1>2, PTL DEF Spec

-----------------------------------------------------------------------------
(* The promises *)

\* No product of the target menu is ever there twice by the scripts' hand.
THEOREM NoTwins == Spec => []NoTwin
BY CampaignInvariant, PTL DEF CampaignInv

\* At most one product stands in public that no publication run has verified.
THEOREM ExposureIsBounded == Spec => []ExposureBounded
<1>1. CampaignInv => ExposureBounded
  <2> SUFFICES ASSUME CampaignInv PROVE Cardinality(Exposed) <= 1
    <3>1. Exposed = {i \in Rows("product") : rows[i].own /\ ~rows[i].hidden} \ published
      BY DEF Exposed, Own
    <3> QED BY <3>1 DEF ExposureBounded
  <2>1. CASE Exposed = {}
    BY <2>1, FS_EmptySet
  <2>2. CASE Exposed # {}
    <3>1. PICK x : Exposed = {x}
      BY <2>2 DEF CampaignInv, ExposedRow
    <3> QED BY <3>1, FS_Singleton
  <2> QED BY <2>1, <2>2
<1> QED BY <1>1, CampaignInvariant, PTL

\* While an executor creates products, everything the scripts have staged is
\* hidden and reads as the menu that is being written.
THEOREM StagedIsApproved == Spec => []StagedAsApproved
<1>1. CampaignInv => StagedAsApproved
  BY DEF CampaignInv, Staged, StagedRow, StagedAsApproved, Own
<1> QED BY <1>1, CampaignInvariant, PTL

\* VERIFIED_LIVE is only reported after every product of the target menu has
\* been published and verified, one row for each.
THEOREM LiveIsAll == Spec => []LiveMeansAll
<1>1. CampaignInv => LiveMeansAll
  <2> SUFFICES ASSUME CampaignInv, "publication" \in success
               PROVE  Cardinality(published) >= Cardinality(Items)
    BY DEF LiveMeansAll
  <2> DEFINE S == {i \in published : rows[i].name \in Items}
             f == [i \in S |-> rows[i].name]
  <2>1. published \subseteq 1 .. Len(rows) /\ Len(rows) \in Nat
        /\ Items \subseteq {rows[i].name : i \in published}
    BY RowsAre DEF CampaignInv, Typed, ToPublish, NamesAt
  <2>2. IsFiniteSet(published) /\ S \in SUBSET published
    <3>1. IsFiniteSet(1 .. Len(rows))
      BY <2>1, FS_Interval
    <3>2. published \in SUBSET (1 .. Len(rows))
      BY <2>1
    <3> HIDE DEF S
    <3>3. IsFiniteSet(published)
      BY <3>1, <3>2, FS_Subset
    <3> QED BY <3>3 DEF S
  <2>3. f \in Surjection(S, Items)
    BY <2>1 DEF Surjection
  <2>4. IsFiniteSet(S) /\ Cardinality(S) <= Cardinality(published)
    BY <2>2, FS_Subset
  <2>5. Cardinality(Items) <= Cardinality(S) /\ IsFiniteSet(Items)
    BY <2>3, <2>4, FS_Surjection
  <2>6. Cardinality(Items) \in Nat /\ Cardinality(S) \in Nat /\ Cardinality(published) \in Nat
    BY <2>2, <2>4, <2>5, FS_CardinalityType
  <2> QED BY <2>4, <2>5, <2>6
<1> QED BY <1>1, CampaignInvariant, PTL

\* A script deletes the incident's category and nothing else.
THEOREM OnlyOrphanGoes == Spec => OnlyTheOrphanGoes
<1>1. CampaignInv /\ edits \in Nat /\ [Next]_vars =>
        (\A i \in DOMAIN rows :
           ~rows[i].gone /\ rows'[i].gone /\ edits' = edits => i = 1 /\ rows[i].own)
  <2> SUFFICES ASSUME CampaignInv, edits \in Nat, [Next]_vars, NEW i \in DOMAIN rows,
                      ~rows[i].gone, rows'[i].gone, edits' = edits
               PROVE  i = 1 /\ rows[i].own
    OBVIOUS
  <2>1. CASE DeleteOrphan
    BY <2>1, RowsAre DEF DeleteOrphan, Doomed, CampaignInv, OrphanOwn
  <2>2. CASE \E new \in Row : rows' = Append(rows, new)
    BY <2>2, RowAdded DEF CampaignInv
  <2>3. CASE UNCHANGED rows
    BY <2>3
  <2>4. ASSUME NEW c \in Cats, CreateCategory(c) PROVE FALSE
    <3>1. [Orphan EXCEPT !.name = c] \in Row
      BY VersionsAre DEF Orphan, Row, Kinds, Names
    <3> QED BY <2>2, <2>3, <2>4, <3>1, RowAdded DEF CreateCategory, CampaignInv
  <2>5. ASSUME NEW n \in Items, CreateProduct(n) PROVE FALSE
    <3>1. ASSUME NEW row \in [kind : {"product"}, name : {n}, made : {run.menu, None},
                               plain : BOOLEAN, hidden : BOOLEAN, gone : {FALSE},
                               own : {TRUE}],
                 rows' = Append(rows, row)
          PROVE  FALSE
      <4>1. row \in Row
        BY CreatedRow DEF CampaignInv
      <4> QED BY <2>2, <3>1, <4>1, RowAdded DEF CampaignInv
    <3> QED BY <2>3, <2>5, <3>1 DEF CreateProduct
  <2>6. ASSUME NEW k \in DOMAIN rows, Publish(k) PROVE FALSE
    <3>1. rows'[i].gone = rows[i].gone
      BY <2>6, PublishedRow DEF SamePlaces
    <3> QED BY <3>1
  <2>7. ~Edit
    BY EditsGrow
  <2>8. CASE Prepare
    BY <2>3, <2>8, NoEditWhilePreparing
  <2>9. ASSUME NEW e \in Executors, Approve(e) PROVE FALSE
    BY <2>3, <2>9 DEF Approve
  <2> QED BY <2>1, <2>3, <2>4, <2>5, <2>6, <2>7, <2>8, <2>9
    DEF Next, Execute, vars, StartRecovery, StartContinuation, StartPublication,
      BeginProducts, ReadBack, VerifyStaged, CheckPublished, VerifyLive, Abort
<1> QED BY <1>1, CampaignInvariant, EditsCounted, PTL DEF Spec, OnlyTheOrphanGoes
=============================================================================
