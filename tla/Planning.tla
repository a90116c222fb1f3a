------------------------------- MODULE Planning -------------------------------
(***************************************************************************)
(* How a menu becomes a write plan: menu numbers (domain/numbering.ts), the *)
(* destination's categories (planning/categoryMapping.ts), one operation    *)
(* per product (planning/dryRun.ts, createPreflight.ts), the merge with the *)
(* live card for QA_RECONCILE (qaLiveImprove.ts, menuReconcile.ts), and the *)
(* order of the operations (runner/categorySequence.ts).                    *)
(*                                                                         *)
(* A plan is executed, up to any point and with any operation failing, and  *)
(* the menu is planned once more against what is there then.               *)
(*                                                                         *)
(* Menu numbers are texts: "7", "07" and "7A" are three of them.  The value *)
(* of a field stands for its text up to case and blanks.  How good a text   *)
(* is and what polishing makes of it depend on the field and on the name of *)
(* the product; polishing what is polished may change it once more.         *)
(* Left out: what a person has decided for a single product, placement by   *)
(* kind of dish (categoryIds are those of the live row), and the SKIP that  *)
(* is planned for each canary.                                              *)
(***************************************************************************)
EXTENDS Integers, Sequences, FiniteSets, FiniteSetsExt

CONSTANTS
  Cases,        \* what is planned: menu, destination, workflow, capabilities
  MaxRounds,    \* bound: times the menu is planned
  Near,         \* pairs of category names of which one contains the other
  Short,        \* names of fewer than four letters
  Placeholder,  \* names of source structure ("UNLABELLED_...")
  Durum,        \* destination names that hold "durum" or "pitabroed"
  Garlic,       \* destination names that hold "hvidloeg" or "tilbehoer"
  Values, Empty,  \* texts of fields
  Score, Polish,  \* [field][name of the product][text]: its quality, its hygiene
  Alm,          \* the variant list "Alm."
  Topping,      \* names of toppings, which no product may be given
  Forced,       \* <<field, name, before, after>>: changes that are always kept
  Refused       \* <<field, name, text>>: texts that the write gate refuses

Fields == {"name", "description", "ingredients", "additions", "variants",
           "basePrice"}
Card   == [Fields -> Values]

\* A menu number, as text.
Num    == [value : Nat, form : {"plain", "padded", "letter"}]
NoNum  == [value |-> 0, form |-> "none"]
Plain(n) == [value |-> n, form |-> "plain"]
\* parsePureIntegerMenuNumber and numericEquivalentMenuNumber
IsInteger(n)  == n.form \in {"plain", "padded"}
Equivalent(n) == IF IsInteger(n) THEN Plain(n.value) ELSE n

Statuses == {"READY", "WARNING", "MANUAL_REVIEW_REQUIRED", "BLOCKED"}
\* flaw: the name reads badly, or the payload breaks the input contract.
Product == [cat : Nat, printed : Num \cup {NoNum}, status : Statuses,
            flaw : {"none", "label", "input"}, card : Card]
\* A row of the destination; its database id is its position, cat that of its
\* category (0: none).
Row == [num : Num \cup {NoNum}, cat : Nat, canary : BOOLEAN, card : Card]
\* origin: whether the menu is that of a source, or was built from the live one.
Case == [menu : Seq(Product), catNames : Seq(STRING), origin : {"source", "live"},
         rows : Seq(Row), cats : Seq(STRING), qa : BOOLEAN,
         certified : SUBSET {"createCategory", "create", "update"}]

ASSUME PlanningConstants ==
  /\ \A c \in Cases : c \in Case
  /\ \A c \in Cases : \A k, l \in DOMAIN c.menu :
       c.menu[k].cat \in DOMAIN c.catNames
         /\ (k <= l => c.menu[k].cat <= c.menu[l].cat)
  /\ Empty \in Values /\ Alm \in Values
  /\ Score \in [Fields -> [Values -> [Values -> Nat]]]
  /\ Polish \in [Fields -> [Values -> [Values -> Values]]]
  /\ MaxRounds \in Nat

VARIABLES
  job,      \* menu, catNames, origin, qa, certified: what does not change
  rows, cats,
  number,   \* assignedMenuNumber of the products numbered so far
  running, nextSequential, cursor,  \* locals of assignMenuNumbers
  phase,    \* "numbering", "planning", "planned", "executing"
  at,       \* the product or operation that is next
  plan, round

numbering == <<running, nextSequential, cursor>>
vars == <<job, rows, cats, number, numbering, phase, at, plan, round>>

menu == job.menu
Unnumbered(k) == menu[k].printed = NoNum

-----------------------------------------------------------------------------
(* assignMenuNumbers: a category at a time, a product at a time. *)

\* Mutant of Highest: numbers with leading zeros are not seen.
HighestPlain(S) == Max({0} \cup {n.value : n \in {n \in S : n.form = "plain"}})

Highest(S) == Max({0} \cup {n.value : n \in {n \in S : IsInteger(n)}})
Printed == {menu[k].printed : k \in {k \in DOMAIN menu : ~Unnumbered(k)}}
PrintedIn(c) == \E k \in DOMAIN menu : menu[k].cat = c /\ ~Unnumbered(k)

NextDecadeBlockStart(h) == IF h < 1 THEN 1 ELSE ((h + 10) \div 10) * 10

Used == Printed \cup {number[k] : k \in DOMAIN number}

\* takeNextUnused: among one number more than there are used ones, one is free.
NextUnused(preferred) ==
  Min({n \in preferred .. preferred + Cardinality(Used) : Plain(n) \notin Used})

\* A category without printed numbers starts a block of its own.
OwnBlock(c) == Printed = {} \/ ~PrintedIn(c)
FirstOfCategory(k) == k = 1 \/ menu[k - 1].cat # menu[k].cat
Cursor(k) ==
  IF FirstOfCategory(k) THEN NextDecadeBlockStart(running) ELSE cursor

Numbered(n) ==
  /\ number' = Append(number, n)
  /\ running' = Highest({n, Plain(running)})

KeepNumber(k) ==
  /\ ~Unnumbered(k) /\ Numbered(menu[k].printed)
  /\ UNCHANGED <<nextSequential, cursor>>

BlockNumber(k) ==
  /\ Unnumbered(k) /\ OwnBlock(menu[k].cat)
  /\ LET n == NextUnused(Cursor(k)) IN Numbered(Plain(n)) /\ cursor' = n + 1
  /\ UNCHANGED nextSequential

GapNumber(k) ==
  /\ Unnumbered(k) /\ ~OwnBlock(menu[k].cat)
  /\ LET n == NextUnused(nextSequential)
     IN  Numbered(Plain(n)) /\ nextSequential' = n + 1
  /\ UNCHANGED cursor

NumberProduct ==
  /\ phase = "numbering" /\ at \in DOMAIN menu
  /\ KeepNumber(at) \/ BlockNumber(at) \/ GapNumber(at)
  /\ at' = at + 1
  /\ UNCHANGED <<job, rows, cats, phase, plan, round>>

StartPlanning ==
  /\ phase = "numbering" /\ at \notin DOMAIN menu
  /\ phase' = "planning" /\ at' = 1
  /\ UNCHANGED <<job, rows, cats, number, numbering, plan, round>>

\* DomainRuleEngine: a printed number that is there twice is for review, one that
\* numbering has brought about would be an error of its own.
Shares(k) == \E l \in DOMAIN menu : l # k /\ number[l] = number[k]
Status(k) ==
  IF job.origin = "source" /\ Shares(k)
  THEN IF Unnumbered(k) THEN "BLOCKED" ELSE "MANUAL_REVIEW_REQUIRED"
  ELSE menu[k].status

-----------------------------------------------------------------------------
(* The category of a product. *)

Outcome(o, id) == [outcome |-> o, id |-> id]
Called(name) == {i \in DOMAIN cats : cats[i] = name}
Soft(name)   == {i \in DOMAIN cats : <<cats[i], name>> \in Near}
TheOnly(S)   == CHOOSE i \in S : TRUE

\* mapSourceCategoriesToDestination
MapCategory(name) ==
  LET exact == Called(name)  soft == Soft(name)
  IN  IF name \in Placeholder THEN Outcome("placeholder", 0)
      ELSE IF Cardinality(exact) = 1 THEN Outcome("mapped", TheOnly(exact))
      ELSE IF exact # {} THEN Outcome("ambiguous", 0)
      ELSE IF Cardinality(soft) = 1 /\ name \notin Short
      THEN Outcome("mapped", TheOnly(soft))
      ELSE IF Cardinality(soft) > 1 THEN Outcome("ambiguous", 0)
      ELSE Outcome("missing", 0)

\* mapProductToDestinationCategory: numbers 36 to 38 have rules of their own, and
\* only for 36 and 37 a category may be missing.
MapProduct(k) ==
  LET n == IF Unnumbered(k) THEN number[k] ELSE menu[k].printed
      wanted == IF n = Plain(38) THEN Garlic ELSE Durum
      hits == {i \in DOMAIN cats : cats[i] \in wanted}
  IN  IF n \in {Plain(36), Plain(37), Plain(38)} /\ Cardinality(hits) = 1
      THEN Outcome("mapped", TheOnly(hits))
      ELSE IF n \in {Plain(36), Plain(37)} /\ hits = {} THEN Outcome("missing", 0)
      ELSE Outcome("review", 0)

CatNameOf(k) == job.catNames[menu[k].cat]
Mapping(k) ==
  LET m == MapCategory(CatNameOf(k))
      p == IF m.outcome = "placeholder" THEN MapProduct(k) ELSE m
  IN  IF p.outcome # "missing" THEN p
      ELSE IF "createCategory" \in job.certified THEN Outcome("pending", 0)
      ELSE Outcome("blocked", 0)

-----------------------------------------------------------------------------
(* The merge of a live card with the card of the menu. *)

Or(v, w) == IF v # Empty THEN v ELSE w
\* isLiveFieldDefective
Defective(f, name, v) == Score[f][name][v] <= 1

\* The name of buildQaTargetPayload: the live one, or what can be recovered of it,
\* or that of the menu.
IntendedName(live, source) ==
  LET l == Polish["name"][live][live]  s == Polish["name"][live][source]
  IN  IF Defective("name", live, live) THEN Or(l, Or(s, live)) ELSE l

\* Its other fields: the live text, polished, unless the menu has a better one.
\* Additions are polished once more.  No list of variants is empty after polishing,
\* so the menu's are never taken.
Intended(f, name, live, source) ==
  LET old == live.name
      polish == Polish[f][name]
      l == polish[live[f]]  s == polish[source[f]]
      better(n) == Score[f][n][s] > Score[f][n][l]
  IN  CASE f = "name" -> name
        [] f = "ingredients" -> IF better(old) \/ l = Empty THEN Or(s, l) ELSE l
        [] f = "description" ->
             IF better(name) \/ Defective(f, name, l) THEN Or(s, l) ELSE l
        [] f = "additions" -> polish[IF better(name) \/ l = Empty THEN s ELSE l]
        [] f = "variants" -> Or(l, Alm)
        [] f = "basePrice" -> Or(live[f], source[f])

\* filterNeverWorseDeltas, with what it takes for the quality of a live text.
Worse(f, name, before, after) ==
  \/ f = "name" /\ after \in Topping
  \/ /\ <<f, name, before, after>> \notin Forced
     /\ ~Defective(f, name, before) /\ Score[f][name][after] < Score[f][name][before]

Merge(i, k) ==
  LET live == rows[i].card  source == menu[k].card
      name == IntendedName(live.name, source.name)
      card == [f \in Fields |-> Intended(f, name, live, source)]
      deltas == {f \in Fields : card[f] # live[f]}
  IN  [card |-> card, deltas |-> deltas,
       blocked |-> {f \in deltas : Worse(f, live.name, live[f], card[f])}]

\* qaTargetHasWriteBlockingIssues
Unfit(card) == \E f \in Fields : <<f, card.name, card[f]>> \in Refused

-----------------------------------------------------------------------------
(* buildDryRunWritePlan: one operation per product. *)

\* matchDestinationByEvidence, among all rows but the canaries.
Matches(k) ==
  {i \in DOMAIN rows : ~rows[i].canary /\
     IF number[k] # NoNum THEN rows[i].num = number[k]
     ELSE /\ rows[i].card.name = menu[k].card.name
          /\ Mapping(k).outcome = "mapped" => rows[i].cat = Mapping(k).id}

\* Mutant of PreflightBlocks: numbers are compared letter by letter.
PreflightExact(k) ==
  \E l \in DOMAIN menu : l # k /\ number[l] = number[k]

\* preflightBlockReason: a number or name that the menu has twice, or a number
\* that is listed, in whatever form it is written.
PreflightBlocks(k) ==
  \/ \E l \in DOMAIN menu : l # k /\
       \/ number[k] # NoNum /\ Equivalent(number[l]) = Equivalent(number[k])
       \/ menu[l].card.name = menu[k].card.name
  \/ \E i \in DOMAIN rows :
       /\ number[k] # NoNum /\ ~rows[i].canary
       /\ Equivalent(rows[i].num) = Equivalent(number[k])

\* A product that the destination has already.
ActionForListed(i, k) ==
  LET m == Merge(i, k)
  IN  IF ~job.qa THEN "BLOCK"
      ELSE IF m.deltas \ m.blocked = {} THEN "SKIP"
      ELSE IF Unfit(m.card) THEN "REVIEW"
      ELSE IF "update" \notin job.certified THEN "BLOCK"
      ELSE "UPDATE"

ActionForNew(k) ==
  IF "create" \notin job.certified THEN "BLOCK"
  ELSE IF menu[k].status = "WARNING" \/ menu[k].flaw = "label" THEN "REVIEW"
  ELSE IF PreflightBlocks(k) \/ number[k] = NoNum \/ menu[k].flaw = "input" THEN "BLOCK"
  ELSE "CREATE"

ActionFor(k) ==
  LET o == Mapping(k).outcome  found == Matches(k)
  IN  IF o = "review" THEN "REVIEW"
      ELSE IF o \in {"ambiguous", "blocked"} THEN "BLOCK"
      ELSE IF Status(k) \in {"BLOCKED", "MANUAL_REVIEW_REQUIRED"} THEN "REVIEW"
      ELSE IF Cardinality(found) > 1 THEN "REVIEW"
      ELSE IF found # {} THEN ActionForListed(TheOnly(found), k)
      ELSE ActionForNew(k)

\* source: the product (or category) of the menu that the operation is for.
Operation(entity, action, k) ==
  [entity |-> entity, action |-> action, source |-> k, cat |-> menu[k].cat,
   pending |-> FALSE, target |-> 0, card |-> menu[k].card, deferred |-> {}]

CreatesOf(c) == {i \in DOMAIN plan : plan[i].entity = "category" /\ plan[i].cat = c}
\* A category that is missing is created once, before its first product.
CategoryFor(k) ==
  IF Mapping(k).outcome = "pending" /\ CreatesOf(menu[k].cat) = {}
  THEN <<Operation("category", "CREATE", k)>> ELSE <<>>

ProductFor(k) ==
  LET op == Operation("product", ActionFor(k), k)
      i  == TheOnly(Matches(k))
      m  == Merge(i, k)
  IN  CASE op.action = "UPDATE" -> [op EXCEPT !.target = i, !.card = m.card,
                                              !.deferred = m.blocked]
        [] op.action = "CREATE" -> [op EXCEPT !.pending = Mapping(k).outcome = "pending"]
        [] OTHER -> op

\* Mutant of PlanProduct: the category comes behind its product.
PlanProductFirst ==
  /\ phase = "planning" /\ at \in DOMAIN menu
  /\ plan' = plan \o <<ProductFor(at)>> \o CategoryFor(at)
  /\ at' = at + 1
  /\ UNCHANGED <<job, rows, cats, number, numbering, phase, round>>

PlanProduct ==
  /\ phase = "planning" /\ at \in DOMAIN menu
  /\ plan' = plan \o CategoryFor(at) \o <<ProductFor(at)>>
  /\ at' = at + 1
  /\ UNCHANGED <<job, rows, cats, number, numbering, phase, round>>

-----------------------------------------------------------------------------
(* orderOperationsForMinimizedCategoryExposure *)

IsCategory(op) == op.entity = "category"
NameOf(op) == job.catNames[op.cat]

\* A product to be created in a pending category takes the first category of that
\* name that nobody has taken.
Dependent(op) == op.action = "CREATE" /\ ~IsCategory(op) /\ op.pending
CategoriesCalled(name) == {i \in DOMAIN plan : IsCategory(plan[i]) /\ NameOf(plan[i]) = name}

\* The operations but the categories, each behind the category it takes.
Minimized[i \in 0 .. Len(plan)] ==
  IF i = 0 THEN [out |-> <<>>, used |-> {}]
  ELSE LET op == plan[i]  before == Minimized[i - 1]
           free == CategoriesCalled(NameOf(op)) \ before.used
       IN  IF IsCategory(op) THEN before
           ELSE IF Dependent(op) /\ free # {}
           THEN [out |-> Append(Append(before.out, plan[Min(free)]), op),
                 used |-> before.used \cup {Min(free)}]
           ELSE [before EXCEPT !.out = Append(@, op)]

\* If a category is left over, the operations stay as they were.
Ordered ==
  LET minimized == Minimized[Len(plan)]
  IN  IF minimized.used = {i \in DOMAIN plan : IsCategory(plan[i])}
      THEN minimized.out ELSE plan

FreezePlan ==
  /\ phase = "planning" /\ at \notin DOMAIN menu
  /\ plan' = Ordered /\ phase' = "planned" /\ at' = 1 /\ round' = round + 1
  /\ UNCHANGED <<job, rows, cats, number, numbering>>

-----------------------------------------------------------------------------
(* Execution (MigrationExecutor has its steps): in the order of the plan, each *)
(* operation gets through or does not, and the run may stop at any of them.    *)

CategoryMade(op) ==
  /\ IsCategory(op) /\ Called(NameOf(op)) = {}
  /\ cats' = Append(cats, NameOf(op))
  /\ UNCHANGED rows

ProductMade(op) ==
  /\ ~IsCategory(op) /\ op.action = "CREATE"
  /\ LET home == IF op.pending THEN Called(NameOf(op)) ELSE {Mapping(op.source).id}
     IN  /\ home # {}
         /\ rows' = Append(rows, [num |-> number[op.source], cat |-> TheOnly(home),
                                  canary |-> FALSE, card |-> op.card])
  /\ UNCHANGED cats

ProductImproved(op) ==
  /\ ~IsCategory(op) /\ op.action = "UPDATE"
  /\ rows' = [rows EXCEPT ![op.target].card = op.card]
  /\ UNCHANGED cats

Execute ==
  /\ phase \in {"planned", "executing"} /\ at \in DOMAIN plan
  /\ \/ CategoryMade(plan[at]) \/ ProductMade(plan[at]) \/ ProductImproved(plan[at])
     \/ UNCHANGED <<rows, cats>>
  /\ phase' = "executing" /\ at' = at + 1
  /\ UNCHANGED <<job, number, numbering, plan, round>>

PlanAgain ==
  /\ phase = "executing" /\ round < MaxRounds
  /\ phase' = "planning" /\ at' = 1 /\ plan' = <<>>
  /\ UNCHANGED <<job, rows, cats, number, numbering, round>>

Init ==
  \E c \in Cases :
    /\ job = [menu |-> c.menu, catNames |-> c.catNames, origin |-> c.origin,
              qa |-> c.qa, certified |-> c.certified]
    /\ rows = c.rows /\ cats = c.cats
    \* A menu built from the live one keeps the live numbers.
    /\ number = IF c.origin = "source" THEN <<>>
                ELSE [k \in DOMAIN c.menu |-> c.menu[k].printed]
    /\ phase = IF c.origin = "source" THEN "numbering" ELSE "planning"
    /\ running = Highest(Printed) /\ nextSequential = Highest(Printed) + 1
    /\ cursor = 0
    /\ at = 1 /\ plan = <<>> /\ round = 0

Next ==
  \/ NumberProduct \/ StartPlanning \/ PlanProduct \/ FreezePlan
  \/ Execute \/ PlanAgain

Spec == Init /\ [][Next]_vars

-----------------------------------------------------------------------------
(* What numbering and planning promise. *)

\* "Domain must never introduce assigned collisions itself": a number that was
\* generated is no other product's, in whatever form it is written.
NumbersUnique ==
  job.origin = "source" =>
    \A k, l \in DOMAIN number :
      k # l /\ Unnumbered(k) => Equivalent(number[k]) # Equivalent(number[l])

Writes(action) ==
  {i \in DOMAIN plan : ~IsCategory(plan[i]) /\ plan[i].action = action}

\* No two products to be created have one number, and none of these numbers is
\* listed.
CreatesAreNew ==
  \A i \in Writes("CREATE") :
    LET n == Equivalent(number[plan[i].source])
    IN  /\ \A l \in Writes("CREATE") : i # l => Equivalent(number[plan[l].source]) # n
        /\ \A r \in DOMAIN rows : ~rows[r].canary => Equivalent(rows[r].num) # n

UpdatesDiffer == \A i, l \in Writes("UPDATE") : plan[i].target = plan[l].target => i = l

\* A plan is what the executor takes it to be (MigrationExecutor!Preflighted):
\* its creates are new, also to what an earlier plan has created before it was
\* given up, and no live row is updated twice.  A menu that was built from the live
\* one need not keep the latter (RowIsOneProducts).
PlanIsPreflighted ==
  phase = "planned" =>
    /\ CreatesAreNew
    /\ job.origin = "source" => UpdatesDiffer
    /\ ~job.qa => Writes("UPDATE") = {}

\* Whatever is created in a category that does not exist yet comes behind the
\* creation of that category, also when a part of the plan is reordered.
CategoryFirst ==
  phase = "planned" =>
    \A i \in DOMAIN plan : Dependent(plan[i]) =>
      \E l \in 1 .. i - 1 : IsCategory(plan[l]) /\ NameOf(plan[l]) = NameOf(plan[i])

-----------------------------------------------------------------------------
(* Statements of the repository that the code does not keep. *)

\* dryRun.ts: "never overwrite good live with worse source/PDF".  A field that an
\* update reports as deferred, because its change would be for the worse, keeps
\* its live text.
DeferredIsKept ==
  phase = "planned" =>
    \A i \in Writes("UPDATE") : \A f \in plan[i].deferred :
      plan[i].card[f] = rows[plan[i].target].card[f]

\* RELIABILITY.md: "prefer human review over silent automation when ambiguous".
\* Two products without a number that have come to have the name of one live row
\* are for review.  (The plan has two updates of that row.  It is not written, as
\* evaluateMenuCoherence refuses a menu that has a name twice.)
RowIsOneProducts == phase = "planned" => UpdatesDiffer

\* INCIDENT_REGRESSION_REGISTRY.md: "category only immediately before its hidden
\* products".
NoEmptyCategory ==
  phase = "planned" =>
    \A i \in DOMAIN plan : IsCategory(plan[i]) =>
      i < Len(plan) /\ Dependent(plan[i + 1]) /\ NameOf(plan[i + 1]) = NameOf(plan[i])
=============================================================================
