---------------------------- MODULE PlanningProofs ----------------------------
(***************************************************************************)
(* What numbering and planning promise for every menu and destination: a    *)
(* generated number is no other product's, a plan is what the executor      *)
(* takes it to be, and a category comes before what is created in it.       *)
(*                                                                         *)
(* None of them is inductive.  A generated number is new because all that   *)
(* numbering counts up from stays above the highest printed number          *)
(* (NumbersGood).  The others rest on what is true of every operation when  *)
(* it is planned, on the order of the products in the plan (Sound), and on  *)
(* the ordering of the operations keeping both.                             *)
(***************************************************************************)
EXTENDS Planning, FiniteSetTheorems, SequenceTheorems, WellFoundedInduction, TLAPS

Top == Highest(Printed)

JobGood ==
  /\ menu \in Seq(Product)
  /\ \A k, l \in DOMAIN menu : k <= l => menu[k].cat <= menu[l].cat
  /\ job.origin \in {"source", "live"}
  /\ phase \in {"numbering", "planning", "planned", "executing"}

\* Numbering is at its product, or through.
Counted ==
  /\ number \in Seq(Num)
  /\ phase = "numbering" => at \in 1 .. Len(menu) + 1 /\ Len(number) = at - 1
  /\ phase # "numbering" => Len(number) = Len(menu)

\* Whatever numbering counts up from is above the printed numbers.
Above ==
  /\ running \in Nat /\ running >= Top
  /\ nextSequential \in Nat /\ nextSequential > Top
  /\ cursor \in Nat
  /\ phase = "numbering" /\ at > 1 /\ OwnBlock(menu[at - 1].cat) => cursor > Top

\* What is printed is kept, what is generated is new.
New ==
  /\ \A k \in DOMAIN number :
       IF Unnumbered(k) THEN number[k].form = "plain" /\ number[k].value > Top
       ELSE number[k] = menu[k].printed
  /\ \A k, l \in DOMAIN number :
       k # l /\ Unnumbered(k) /\ Unnumbered(l) => number[k] # number[l]

NumbersGood == job.origin = "source" => Counted /\ Above /\ New

\* The products that may be created, those that may be updated, and the rows that
\* they are found in.
Creatable == {k \in DOMAIN menu : ~PreflightBlocks(k) /\ number[k] # NoNum}
Updatable ==
  {k \in DOMAIN menu :
     job.qa /\ Status(k) \notin {"BLOCKED", "MANUAL_REVIEW_REQUIRED"}}
Found == [k \in DOMAIN menu |-> Matches(k)]

\* What is true of an operation on a product when it is planned.
Good(op) ==
  ~IsCategory(op) =>
    /\ op.action = "CREATE" => op.source \in Creatable
    /\ op.action = "UPDATE" =>
         op.source \in Updatable /\ op.target \in Found[op.source]

IsSeq(s) == s \in Seq({s[i] : i \in DOMAIN s})

\* The operations on products come in the order of the menu.
InOrder(s) ==
  \A i, l \in DOMAIN s :
    i < l /\ ~IsCategory(s[i]) /\ ~IsCategory(s[l]) => s[i].source < s[l].source

AfterCategory(s) ==
  \A i \in DOMAIN s : Dependent(s[i]) =>
    \E l \in 1 .. i - 1 : IsCategory(s[l]) /\ NameOf(s[l]) = NameOf(s[i])

Sound(s, n) ==
  /\ IsSeq(s) /\ InOrder(s) /\ AfterCategory(s)
  /\ \A i \in DOMAIN s : s[i].source \in 1 .. n /\ Good(s[i])

PlanGood ==
  /\ phase = "numbering" => plan = << >>
  /\ phase = "planning" => at \in 1 .. Len(menu) + 1 /\ Sound(plan, at - 1)
  /\ phase = "planned" => Sound(plan, Len(menu))

PlanningInv == JobGood /\ NumbersGood /\ PlanGood

-----------------------------------------------------------------------------
(* Least and greatest numbers *)

\* Induction, as the absence of a smallest counterexample.
LEMMA SmallestOf ==
  ASSUME NEW T \in SUBSET Nat, T # {}
  PROVE  \E n \in T : \A m \in T : n <= m
<1>1. IsWellFoundedOn(OpToRel(<, Nat), Nat)
  BY NatLessThanWellFounded
<1>2. PICK n \in T : \A m \in T : <<m, n>> \notin OpToRel(<, Nat)
  BY <1>1, WFMin
<1>3. \A m \in T : ~(m < n)
  BY <1>2 DEF OpToRel
<1> QED BY <1>3

LEMMA MinOf ==
  ASSUME NEW T \in SUBSET Nat, T # {}
  PROVE  Min(T) \in T /\ \A m \in T : Min(T) <= m
<1>1. PICK n \in T : \A m \in T : n <= m
  BY SmallestOf
<1> QED BY <1>1 DEF Min

LEMMA MaxOf ==
  ASSUME NEW T \in SUBSET Nat, 0 \in T, NEW b \in Nat, \A t \in T : t <= b
  PROVE  Max(T) \in T /\ \A t \in T : t <= Max(T)
<1> DEFINE Bounds == {n \in Nat : \A t \in T : t <= n}
<1>1. PICK n \in Bounds : \A m \in Bounds : n <= m
  <2>1. Bounds \in SUBSET Nat /\ b \in Bounds
    OBVIOUS
  <2> HIDE DEF Bounds
  <2> QED BY <2>1, SmallestOf
<1>2. n \in T
  <2> SUFFICES ASSUME n \notin T PROVE FALSE
    OBVIOUS
  <2>1. n # 0 /\ n - 1 \in Nat
    OBVIOUS
  <2>2. \A t \in T : t <= n - 1
    OBVIOUS
  <2>3. n - 1 \in Bounds
    BY <2>1, <2>2
  <2> QED BY <1>1, <2>1, <2>3
<1>3. \A t \in T : n >= t
  BY <1>1
<1> QED BY <1>2, <1>3 DEF Max

LEMMA BlockIsAbove ==
  ASSUME NEW h \in Nat
  PROVE  NextDecadeBlockStart(h) \in Nat /\ NextDecadeBlockStart(h) > h
BY DEF NextDecadeBlockStart

\* Finitely many numbers have a bound.
LEMMA BoundOf ==
  ASSUME NEW f, NEW n \in Nat, \A k \in 1 .. n : f[k] \in Nat
  PROVE  \E b \in Nat : \A k \in 1 .. n : f[k] <= b
<1> DEFINE Bad == {m \in 0 .. n : ~\E b \in Nat : \A k \in 1 .. m : f[k] <= b}
<1>1. Bad = {}
  <2> SUFFICES ASSUME Bad # {} PROVE FALSE
    OBVIOUS
  <2>1. Bad \in SUBSET Nat
    OBVIOUS
  <2>2. PICK m \in Bad : \A l \in Bad : m <= l
    <3> HIDE DEF Bad
    <3> QED BY <2>1, SmallestOf
  <2>3. 0 \notin Bad
    OBVIOUS
  <2>4. m \in 1 .. n /\ m - 1 \in 0 .. n
    <3>1. m \in 0 .. n /\ m # 0
      BY <2>2, <2>3
    <3> QED BY <3>1
  <2>5. PICK b \in Nat : \A k \in 1 .. m - 1 : f[k] <= b
    <3>1. m - 1 \notin Bad
      <4> HIDE DEF Bad
      <4> QED BY <2>1, <2>2, <2>4
    <3> QED BY <2>4, <3>1
  <2>6. PICK c \in Nat : b <= c /\ f[m] <= c
    <3>1. CASE f[m] <= b
      BY <3>1
    <3>2. CASE ~(f[m] <= b)
      BY <2>4, <3>2
    <3> QED BY <3>1, <3>2
  <2>7. \A k \in 1 .. m : f[k] <= c
    <3> SUFFICES ASSUME NEW k \in 1 .. m, k # m PROVE f[k] <= c
      BY <2>6
    <3>1. k \in 1 .. m - 1 /\ k \in 1 .. n
      BY <2>4
    <3>2. f[k] \in Nat /\ f[k] <= b
      BY <2>5, <3>1
    <3> QED BY <2>6, <3>2
  <2>8. m \notin Bad
    BY <2>7
  <2> QED BY <2>2, <2>8
<1>2. n \in 0 .. n
  OBVIOUS
<1>3. n \notin Bad
  <2> HIDE DEF Bad
  <2> QED BY <1>1
<1> QED BY <1>2, <1>3

\* Of the values of the printed numbers there is a greatest one.
LEMMA TopIsHighest ==
  ASSUME menu \in Seq(Product)
  PROVE  /\ Top \in Nat
         /\ \A k \in DOMAIN menu : ~Unnumbered(k) /\ IsInteger(menu[k].printed) =>
              menu[k].printed.value <= Top
         /\ \A k \in DOMAIN menu : ~Unnumbered(k) => menu[k].printed \in Num
<1>1. ASSUME NEW k \in DOMAIN menu, ~Unnumbered(k)
      PROVE  menu[k].printed \in Num /\ menu[k].printed.value \in Nat
  <2>1. menu[k] \in Product
    OBVIOUS
  <2>2. menu[k].printed \in Num
    BY <1>1, <2>1 DEF Unnumbered, Product
  <2> QED BY <2>2 DEF Num
<1> DEFINE f == [k \in 1 .. Len(menu) |->
                  IF Unnumbered(k) THEN 0 ELSE menu[k].printed.value]
<1>2. DOMAIN menu = 1 .. Len(menu) /\ Len(menu) \in Nat
  OBVIOUS
<1>3. PICK b \in Nat : \A k \in DOMAIN menu : ~Unnumbered(k) => menu[k].printed.value <= b
  <2>1. \A k \in 1 .. Len(menu) : f[k] \in Nat
    BY <1>1, <1>2
  <2>2. PICK b \in Nat : \A k \in 1 .. Len(menu) : f[k] <= b
    <3> HIDE DEF f
    <3> QED BY <1>2, <2>1, BoundOf
  <2> QED BY <1>2, <2>2
<1> DEFINE T == {0} \cup {n.value : n \in {n \in Printed : IsInteger(n)}}
<1>4. T \in SUBSET Nat /\ 0 \in T /\ \A t \in T : t <= b
  BY <1>1, <1>3 DEF Printed
<1>5. Top = Max(T)
  BY DEF Top, Highest
<1>6. Max(T) \in T /\ \A t \in T : t <= Max(T)
  <2> HIDE DEF T
  <2> QED BY <1>4, MaxOf
<1>7. ASSUME NEW k \in DOMAIN menu, ~Unnumbered(k), IsInteger(menu[k].printed)
      PROVE  menu[k].printed.value \in T
  BY <1>7 DEF Printed
<1> HIDE DEF T
<1> QED BY <1>1, <1>4, <1>5, <1>6, <1>7

-----------------------------------------------------------------------------
(* Numbering *)

LEMMA UsedIsFinite ==
  ASSUME menu \in Seq(Product), number \in Seq(Num)
  PROVE  IsFiniteSet(Used)
<1> DEFINE P == {k \in DOMAIN menu : ~Unnumbered(k)}
           f == [k \in P |-> menu[k].printed]
           g == [k \in DOMAIN number |-> number[k]]
           N == {number[k] : k \in DOMAIN number}
<1>1. /\ DOMAIN menu = 1 .. Len(menu) /\ Len(menu) \in Nat
      /\ DOMAIN number = 1 .. Len(number) /\ Len(number) \in Nat
  OBVIOUS
<1>2. IsFiniteSet(DOMAIN menu) /\ IsFiniteSet(DOMAIN number)
  BY <1>1, FS_Interval
<1>3. IsFiniteSet(P)
  BY <1>2, FS_Subset
<1>4. f \in Surjection(P, Printed)
  BY DEF Surjection, Printed
<1>5. g \in Surjection(DOMAIN number, N)
  BY DEF Surjection
<1>6. IsFiniteSet(Printed)
  <2> HIDE DEF f, P
  <2> QED BY <1>3, <1>4, FS_Surjection
<1>7. IsFiniteSet(N)
  <2> HIDE DEF g, N
  <2> QED BY <1>2, <1>5, FS_Surjection
<1>8. Used = Printed \cup N
  BY DEF Used
<1> HIDE DEF N
<1> QED BY <1>6, <1>7, <1>8, FS_Union

\* takeNextUnused finds a number that is free.
LEMMA NextUnusedIsFree ==
  ASSUME menu \in Seq(Product), number \in Seq(Num), NEW p \in Nat
  PROVE  /\ NextUnused(p) \in Nat /\ NextUnused(p) >= p
         /\ Plain(NextUnused(p)) \notin Used
<1> DEFINE c == Cardinality(Used)
           free == {n \in p .. p + c : Plain(n) \notin Used}
<1>1. IsFiniteSet(Used) /\ c \in Nat
  BY UsedIsFinite, FS_CardinalityType
<1> HIDE DEF c
<1>2. free # {}
  <2> SUFFICES ASSUME free = {} PROVE FALSE
    OBVIOUS
  <2> DEFINE f == [n \in p .. p + c |-> Plain(n)]
  <2>1. f \in Injection(p .. p + c, Used)
    <3>1. \A n \in p .. p + c : Plain(n) \in Used
      OBVIOUS
    <3>2. \A n, m \in p .. p + c : Plain(n) = Plain(m) => n = m
      BY DEF Plain
    <3> QED BY <3>1, <3>2 DEF Injection, IsInjective
  <2>2. IsFiniteSet(p .. p + c) /\ Cardinality(p .. p + c) = c + 1
    <3>1. p \in Int /\ p + c \in Int /\ ~(p > p + c) /\ (p + c) - p + 1 = c + 1
      BY <1>1
    <3> QED BY <3>1, FS_Interval
  <2>3. Cardinality(p .. p + c) <= Cardinality(Used)
    <3> HIDE DEF f
    <3> QED BY <1>1, <2>1, FS_Injection
  <2> QED BY <1>1, <2>2, <2>3 DEF c
<1>3. free \in SUBSET Nat
  BY <1>1
<1>4. Min(free) \in free
  <2> HIDE DEF free
  <2> QED BY <1>2, <1>3, MinOf
<1>5. NextUnused(p) = Min(free)
  BY DEF NextUnused, c
<1>6. NextUnused(p) \in free
  BY <1>4, <1>5
<1> QED BY <1>1, <1>6

\* What numbering has counted up to does not go back.
LEMMA HighestOfTwo ==
  ASSUME NEW n \in Num, NEW r \in Nat
  PROVE  Highest({n, Plain(r)}) \in Nat /\ Highest({n, Plain(r)}) >= r
<1> DEFINE T == {0} \cup {x.value : x \in {x \in {n, Plain(r)} : IsInteger(x)}}
           b == IF n.value <= r THEN r ELSE n.value
<1>1. n.value \in Nat
  BY DEF Num
<1>2. r \in T /\ T \in SUBSET Nat /\ 0 \in T
  <2>1. IsInteger(Plain(r)) /\ Plain(r).value = r
    BY DEF IsInteger, Plain
  <2> QED BY <1>1, <2>1
<1>3. b \in Nat /\ \A t \in T : t <= b
  BY <1>1 DEF Plain
<1>4. Highest({n, Plain(r)}) = Max(T)
  BY DEF Highest
<1> HIDE DEF T, b
<1>5. Max(T) \in T /\ r <= Max(T)
  BY <1>2, <1>3, MaxOf
<1> QED BY <1>2, <1>4, <1>5

LEMMA TopStays ==
  ASSUME job' = job
  PROVE  /\ Top' = Top /\ menu' = menu /\ Printed' = Printed
         /\ \A k : Unnumbered(k)' = Unnumbered(k)
         /\ \A c : OwnBlock(c)' = OwnBlock(c)
BY DEF Top, Highest, Printed, Unnumbered, OwnBlock, PrintedIn, menu, IsInteger

\* A number that is appended is printed, or new.
LEMMA NumberAppended ==
  ASSUME JobGood, Counted, New, phase = "numbering", at \in DOMAIN menu,
         job' = job, phase' = phase, at' = at + 1,
         NEW n \in Num, number' = Append(number, n),
         Unnumbered(at) => n.form = "plain" /\ n.value > Top /\ n \notin Used,
         ~Unnumbered(at) => n = menu[at].printed
  PROVE  Counted' /\ New'
<1>1. /\ Len(number) = at - 1 /\ at \in 1 .. Len(menu) /\ Len(menu) \in Nat
      /\ DOMAIN number = 1 .. at - 1
  BY DEF JobGood, Counted
<1>2. /\ number' \in Seq(Num) /\ Len(number') = at /\ DOMAIN number' = 1 .. at
      /\ number'[at] = n /\ \A k \in 1 .. at - 1 : number'[k] = number[k]
  BY <1>1, AppendProperties DEF Counted
<1>3. Counted'
  BY <1>1, <1>2, TopStays DEF Counted
<1>4. ASSUME NEW k \in 1 .. at
      PROVE  IF Unnumbered(k) THEN number'[k].form = "plain" /\ number'[k].value > Top
             ELSE number'[k] = menu[k].printed
  <2>1. CASE k = at
    BY <1>2, <2>1
  <2>2. CASE k # at
    <3>1. k \in 1 .. at - 1 /\ k \in DOMAIN number
      BY <1>1, <2>2
    <3> QED BY <1>2, <3>1 DEF New
  <2> QED BY <2>1, <2>2
<1>5. ASSUME NEW k \in 1 .. at, NEW l \in 1 .. at, k < l, Unnumbered(k), Unnumbered(l)
      PROVE  number'[k] # number'[l]
  <2>1. k \in 1 .. at - 1 /\ k \in DOMAIN number /\ number'[k] = number[k]
    BY <1>1, <1>2, <1>5
  <2>2. CASE l = at
    <3>1. number[k] \in Used
      BY <2>1 DEF Used
    <3> QED BY <1>2, <1>5, <2>1, <2>2, <3>1
  <2>3. CASE l # at
    <3>1. l \in 1 .. at - 1 /\ l \in DOMAIN number /\ number'[l] = number[l]
      BY <1>1, <1>2, <2>3
    <3>2. k # l
      BY <1>1, <1>5
    <3> QED BY <1>5, <2>1, <3>1, <3>2 DEF New
  <2> QED BY <2>2, <2>3
<1>6. New'
  <2>1. \A k \in 1 .. at :
          IF Unnumbered(k)' THEN number'[k].form = "plain" /\ number'[k].value > Top'
          ELSE number'[k] = menu'[k].printed
    BY <1>4, TopStays
  <2>2. \A k, l \in 1 .. at :
          k # l /\ Unnumbered(k)' /\ Unnumbered(l)' => number'[k] # number'[l]
    <3> SUFFICES ASSUME NEW k \in 1 .. at, NEW l \in 1 .. at, k # l,
                        Unnumbered(k), Unnumbered(l)
                 PROVE  number'[k] # number'[l]
      BY TopStays
    <3>1. k < l \/ l < k
      BY <1>1
    <3> QED BY <1>5, <3>1
  <2> QED BY <1>2, <2>1, <2>2 DEF New
<1> QED BY <1>3, <1>6

LEMMA NumberProductKeeps ==
  ASSUME PlanningInv, NumberProduct
  PROVE  PlanningInv'
<1> DEFINE k == at
<1>1. /\ JobGood /\ NumbersGood /\ PlanGood
      /\ phase = "numbering" /\ k \in DOMAIN menu /\ at' = at + 1
      /\ UNCHANGED <<job, rows, cats, phase, plan, round>>
  BY DEF PlanningInv, NumberProduct
<1>2. JobGood' /\ PlanGood'
  BY <1>1, TopStays DEF JobGood, PlanGood
<1>3. SUFFICES ASSUME job.origin = "source" PROVE Counted' /\ Above' /\ New'
  BY <1>1, <1>2 DEF PlanningInv, NumbersGood
<1>4. Counted /\ Above /\ New
  BY <1>1, <1>3 DEF NumbersGood
<1>5. /\ menu \in Seq(Product) /\ number \in Seq(Num)
      /\ running \in Nat /\ nextSequential \in Nat /\ cursor \in Nat /\ Top \in Nat
      /\ running >= Top /\ nextSequential > Top
      /\ k \in 1 .. Len(menu) /\ Len(menu) \in Nat
  BY <1>1, <1>4, TopIsHighest DEF JobGood, Counted, Above
<1>6. ASSUME NEW m \in Nat
      PROVE  /\ Plain(m) \in Num /\ Plain(m).form = "plain" /\ Plain(m).value = m
             /\ IsInteger(Plain(m))
  BY DEF Plain, Num, IsInteger
<1>7. ASSUME NEW n \in Num, Numbered(n)
      PROVE  /\ number' = Append(number, n)
             /\ running' \in Nat /\ running' >= Top'
  <2>1. Highest({n, Plain(running)}) \in Nat /\ Highest({n, Plain(running)}) >= running
    BY <1>5, HighestOfTwo
  <2> QED BY <1>1, <1>5, <1>7, <2>1, TopStays DEF Numbered
<1>8. CASE KeepNumber(k)
  <2>1. /\ ~Unnumbered(k) /\ Numbered(menu[k].printed)
        /\ UNCHANGED <<nextSequential, cursor>>
    BY <1>8 DEF KeepNumber
  <2>2. menu[k].printed \in Num
    BY <1>1, <1>5, <2>1, TopIsHighest
  <2>3. Counted' /\ New'
    BY <1>1, <1>4, <1>7, <2>1, <2>2, NumberAppended
  <2>4. ~OwnBlock(menu[k].cat)
    <3>1. menu[k].printed \in Printed
      BY <1>1, <2>1 DEF Printed
    <3> QED BY <1>1, <2>1, <3>1 DEF OwnBlock, PrintedIn
  <2>5. Above'
    BY <1>1, <1>5, <1>7, <2>1, <2>2, <2>4, TopStays DEF Above
  <2> QED BY <2>3, <2>5
<1>9. CASE BlockNumber(k)
  <2> DEFINE m == NextUnused(Cursor(k))
  <2>1. /\ Unnumbered(k) /\ OwnBlock(menu[k].cat)
        /\ Numbered(Plain(m)) /\ cursor' = m + 1
        /\ UNCHANGED nextSequential
    BY <1>9 DEF BlockNumber
  <2>2. Cursor(k) \in Nat /\ Cursor(k) > Top
    <3>1. CASE FirstOfCategory(k)
      <4>1. /\ NextDecadeBlockStart(running) \in Nat
            /\ NextDecadeBlockStart(running) > running
        BY <1>5, BlockIsAbove
      <4> QED BY <1>5, <3>1, <4>1 DEF Cursor
    <3>2. CASE ~FirstOfCategory(k)
      <4>1. k > 1 /\ menu[k - 1].cat = menu[k].cat
        BY <1>5, <3>2 DEF FirstOfCategory
      <4>2. cursor > Top
        BY <1>1, <1>4, <2>1, <4>1 DEF Above
      <4> QED BY <1>5, <3>2, <4>2 DEF Cursor
    <3> QED BY <3>1, <3>2
  <2>3. m \in Nat /\ m >= Cursor(k) /\ Plain(m) \notin Used
    BY <1>5, <2>2, NextUnusedIsFree
  <2> HIDE DEF m
  <2>4. m > Top
    BY <1>5, <2>2, <2>3
  <2>5. Counted' /\ New'
    BY <1>1, <1>4, <1>6, <1>7, <2>1, <2>3, <2>4, NumberAppended
  <2>6. Above'
    BY <1>1, <1>5, <1>6, <1>7, <2>1, <2>3, <2>4, TopStays DEF Above
  <2> QED BY <2>5, <2>6
<1>10. CASE GapNumber(k)
  <2> DEFINE m == NextUnused(nextSequential)
  <2>1. /\ Unnumbered(k) /\ ~OwnBlock(menu[k].cat)
        /\ Numbered(Plain(m)) /\ nextSequential' = m + 1
        /\ UNCHANGED cursor
    BY <1>10 DEF GapNumber
  <2>2. m \in Nat /\ m >= nextSequential /\ Plain(m) \notin Used
    BY <1>5, NextUnusedIsFree
  <2> HIDE DEF m
  <2>3. m > Top
    BY <1>5, <2>2
  <2>4. Counted' /\ New'
    BY <1>1, <1>4, <1>6, <1>7, <2>1, <2>2, <2>3, NumberAppended
  <2>5. Above'
    BY <1>1, <1>5, <1>6, <1>7, <2>1, <2>2, <2>3, TopStays DEF Above
  <2> QED BY <2>4, <2>5
<1> QED BY <1>8, <1>9, <1>10 DEF NumberProduct

LEMMA NumbersGoodIsUnique ==
  ASSUME PlanningInv
  PROVE  NumbersUnique
<1> SUFFICES ASSUME job.origin = "source",
                    NEW k \in DOMAIN number, NEW l \in DOMAIN number,
                    k # l, Unnumbered(k)
             PROVE  Equivalent(number[k]) # Equivalent(number[l])
  BY DEF NumbersUnique
<1>1. /\ menu \in Seq(Product) /\ New /\ number \in Seq(Num) /\ Top \in Nat
      /\ DOMAIN number \subseteq DOMAIN menu
  <2>1. JobGood /\ Counted /\ New
    BY DEF PlanningInv, NumbersGood
  <2>2. menu \in Seq(Product) /\ number \in Seq(Num) /\ Len(number) <= Len(menu)
    BY <2>1 DEF JobGood, Counted
  <2>3. Len(menu) \in Nat /\ Len(number) \in Nat
    BY <2>2
  <2> QED BY <2>1, <2>2, <2>3, TopIsHighest
<1>2. /\ number[k] \in Num /\ number[l] \in Num
      /\ number[k].form = "plain" /\ number[k].value > Top
  BY <1>1 DEF New
<1>3. Equivalent(number[k]) = Plain(number[k].value)
  BY <1>2 DEF Equivalent, IsInteger
<1>4. CASE Unnumbered(l)
  <2>1. number[l].form = "plain" /\ number[k] # number[l]
    BY <1>1, <1>4 DEF New
  <2>2. Equivalent(number[l]) = Plain(number[l].value)
    BY <2>1 DEF Equivalent, IsInteger
  <2>3. number[k].value # number[l].value
    BY <1>2, <2>1 DEF Num
  <2> QED BY <1>3, <2>2, <2>3 DEF Plain
<1>5. CASE ~Unnumbered(l) /\ IsInteger(number[l])
  <2>1. number[l] = menu[l].printed
    BY <1>1, <1>5 DEF New
  <2>2. number[l].value <= Top
    BY <1>1, <1>5, <2>1, TopIsHighest
  <2>3. number[l].value \in Nat /\ number[k].value \in Nat
    BY <1>2 DEF Num
  <2> QED BY <1>1, <1>2, <1>3, <1>5, <2>2, <2>3 DEF Plain, Equivalent
<1>6. CASE ~Unnumbered(l) /\ ~IsInteger(number[l])
  <2>1. Equivalent(number[l]) = number[l] /\ number[l].form # "plain"
    BY <1>6 DEF Equivalent, IsInteger
  <2>2. Plain(number[k].value).form = "plain"
    BY DEF Plain
  <2> QED BY <1>3, <2>1, <2>2
<1> QED BY <1>4, <1>5, <1>6

-----------------------------------------------------------------------------
(* Planning a product *)

LEMMA SeqOfItsOwn ==
  ASSUME NEW S, NEW s \in Seq(S)
  PROVE  IsSeq(s)
<1>1. s \in [1 .. Len(s) -> {s[i] : i \in DOMAIN s}] /\ Len(s) \in Nat
  OBVIOUS
<1> QED BY <1>1 DEF IsSeq

\* What a sequence becomes with one more operation at its end.
LEMMA Appending ==
  ASSUME NEW s, IsSeq(s), NEW op
  PROVE  /\ IsSeq(Append(s, op)) /\ Len(s) \in Nat
         /\ DOMAIN s = 1 .. Len(s) /\ DOMAIN Append(s, op) = 1 .. Len(s) + 1
         /\ \A i \in 1 .. Len(s) : Append(s, op)[i] = s[i]
         /\ Append(s, op)[Len(s) + 1] = op
<1> DEFINE S == {s[i] : i \in DOMAIN s} \cup {op}
<1>1. s \in Seq(S)
  <2>1. {s[i] : i \in DOMAIN s} \subseteq S
    OBVIOUS
  <2> HIDE DEF S
  <2> QED BY <2>1 DEF IsSeq
<1>2. op \in S
  OBVIOUS
<1> HIDE DEF S
<1>3. /\ Append(s, op) \in Seq(S) /\ Len(Append(s, op)) = Len(s) + 1
      /\ \A i \in 1 .. Len(s) : Append(s, op)[i] = s[i]
      /\ Append(s, op)[Len(s) + 1] = op
  BY <1>1, <1>2, AppendProperties
<1>4. Len(s) \in Nat /\ DOMAIN s = 1 .. Len(s)
  BY <1>1
<1>5. DOMAIN Append(s, op) = 1 .. Len(s) + 1
  BY <1>3
<1>6. IsSeq(Append(s, op))
  BY <1>3, SeqOfItsOwn
<1> QED BY <1>3, <1>4, <1>5, <1>6

\* A category may always follow.
LEMMA CategoryFollows ==
  ASSUME NEW s, NEW n \in Nat, Sound(s, n), NEW op, IsCategory(op),
         op.source \in 1 .. n
  PROVE  Sound(Append(s, op), n)
<1> DEFINE t == Append(s, op)
<1>1. /\ IsSeq(t) /\ Len(s) \in Nat
      /\ DOMAIN s = 1 .. Len(s) /\ DOMAIN t = 1 .. Len(s) + 1
      /\ \A i \in 1 .. Len(s) : t[i] = s[i]
      /\ t[Len(s) + 1] = op
  BY Appending DEF Sound
<1> HIDE DEF t
<1>2. ASSUME NEW i \in DOMAIN t, ~(IsCategory(t[i]))
      PROVE  i \in DOMAIN s /\ t[i] = s[i]
  BY <1>1, <1>2
<1>3. InOrder(t)
  BY <1>2 DEF InOrder, Sound
<1>4. AfterCategory(t)
  <2> SUFFICES ASSUME NEW i \in DOMAIN t, Dependent(t[i])
               PROVE  \E l \in 1 .. i - 1 : IsCategory(t[l]) /\ NameOf(t[l]) = NameOf(t[i])
    BY DEF AfterCategory
  <2>1. i \in DOMAIN s /\ t[i] = s[i]
    BY <1>2 DEF Dependent
  <2>2. PICK l \in 1 .. i - 1 : IsCategory(s[l]) /\ NameOf(s[l]) = NameOf(s[i])
    BY <2>1 DEF AfterCategory, Sound
  <2>3. l \in 1 .. Len(s)
    BY <1>1, <2>1
  <2> QED BY <1>1, <2>1, <2>2, <2>3
<1>5. ASSUME NEW i \in DOMAIN t PROVE t[i].source \in 1 .. n /\ Good(t[i])
  <2>1. CASE i = Len(s) + 1
    BY <1>1, <2>1 DEF Good
  <2>2. CASE i # Len(s) + 1
    <3>1. i \in DOMAIN s /\ t[i] = s[i]
      BY <1>1, <2>2
    <3> QED BY <3>1 DEF Sound
  <2> QED BY <2>1, <2>2
<1> QED BY <1>1, <1>3, <1>4, <1>5 DEF Sound, t

\* A product that is behind all others may follow, when its category has come.
LEMMA ProductFollows ==
  ASSUME NEW s, NEW n \in Nat, Sound(s, n), NEW op, ~IsCategory(op), Good(op),
         op.source \in 1 .. n,
         \A i \in DOMAIN s : ~IsCategory(s[i]) => s[i].source < op.source,
         Dependent(op) =>
           \E l \in DOMAIN s : IsCategory(s[l]) /\ NameOf(s[l]) = NameOf(op)
  PROVE  Sound(Append(s, op), n)
<1> DEFINE t == Append(s, op)
<1>1. /\ IsSeq(t) /\ Len(s) \in Nat
      /\ DOMAIN s = 1 .. Len(s) /\ DOMAIN t = 1 .. Len(s) + 1
      /\ \A i \in 1 .. Len(s) : t[i] = s[i]
      /\ t[Len(s) + 1] = op
  BY Appending DEF Sound
<1> HIDE DEF t
<1>2. InOrder(t)
  <2> SUFFICES ASSUME NEW i \in DOMAIN t, NEW l \in DOMAIN t, i < l,
                      ~IsCategory(t[i]), ~IsCategory(t[l])
               PROVE  t[i].source < t[l].source
    BY DEF InOrder
  <2>1. i \in DOMAIN s /\ t[i] = s[i]
    BY <1>1
  <2>2. CASE l = Len(s) + 1
    BY <1>1, <2>1, <2>2
  <2>3. CASE l # Len(s) + 1
    <3>1. l \in DOMAIN s /\ t[l] = s[l]
      BY <1>1, <2>3
    <3> QED BY <2>1, <3>1 DEF InOrder, Sound
  <2> QED BY <2>2, <2>3
<1>3. AfterCategory(t)
  <2> SUFFICES ASSUME NEW i \in DOMAIN t, Dependent(t[i])
               PROVE  \E l \in 1 .. i - 1 : IsCategory(t[l]) /\ NameOf(t[l]) = NameOf(t[i])
    BY DEF AfterCategory
  <2>1. CASE i = Len(s) + 1
    <3>1. PICK l \in DOMAIN s : IsCategory(s[l]) /\ NameOf(s[l]) = NameOf(op)
      BY <1>1, <2>1
    <3>2. l \in 1 .. i - 1 /\ t[l] = s[l] /\ t[i] = op
      BY <1>1, <2>1
    <3> QED BY <3>1, <3>2
  <2>2. CASE i # Len(s) + 1
    <3>1. i \in DOMAIN s /\ t[i] = s[i]
      BY <1>1, <2>2
    <3>2. PICK l \in 1 .. i - 1 : IsCategory(s[l]) /\ NameOf(s[l]) = NameOf(s[i])
      BY <3>1 DEF AfterCategory, Sound
    <3>3. l \in 1 .. Len(s)
      BY <1>1, <3>1
    <3> QED BY <1>1, <3>1, <3>2, <3>3
  <2> QED BY <2>1, <2>2
<1>4. ASSUME NEW i \in DOMAIN t PROVE t[i].source \in 1 .. n /\ Good(t[i])
  <2>1. CASE i = Len(s) + 1
    BY <1>1, <2>1
  <2>2. CASE i # Len(s) + 1
    <3>1. i \in DOMAIN s /\ t[i] = s[i]
      BY <1>1, <2>2
    <3> QED BY <3>1 DEF Sound
  <2> QED BY <2>1, <2>2
<1> QED BY <1>1, <1>2, <1>3, <1>4 DEF Sound, t

LEMMA OneMore ==
  ASSUME NEW s, IsSeq(s), NEW op
  PROVE  s \o <<op>> = Append(s, op) /\ s \o << >> = s
<1> DEFINE S == {s[i] : i \in DOMAIN s} \cup {op}
<1>1. s \in Seq(S)
  <2>1. {s[i] : i \in DOMAIN s} \subseteq S
    OBVIOUS
  <2> HIDE DEF S
  <2> QED BY <2>1 DEF IsSeq
<1>2. op \in S
  OBVIOUS
<1> HIDE DEF S
<1> QED BY <1>1, <1>2, AppendIsConcat, ConcatEmptySeq

LEMMA CategoryPlanned ==
  ASSUME NEW k
  PROVE  LET op == Operation("category", "CREATE", k)
         IN  IsCategory(op) /\ op.source = k /\ op.cat = menu[k].cat
BY DEF Operation, IsCategory

LEMMA ProductPlanned ==
  ASSUME NEW k
  PROVE  LET op == ProductFor(k)
         IN  /\ ~IsCategory(op) /\ op.source = k /\ op.cat = menu[k].cat
             /\ op.action = ActionFor(k)
             /\ op.action = "UPDATE" => op.target = TheOnly(Matches(k))
             /\ Dependent(op) => Mapping(k).outcome = "pending"
<1> DEFINE op == Operation("product", ActionFor(k), k)
<1>1. /\ op.entity = "product" /\ op.source = k /\ op.cat = menu[k].cat
      /\ op.action = ActionFor(k) /\ op.pending = FALSE
      /\ op = [entity |-> op.entity, action |-> op.action, source |-> op.source,
               cat |-> op.cat, pending |-> op.pending, target |-> op.target,
               card |-> op.card, deferred |-> op.deferred]
  BY DEF Operation
<1> HIDE DEF op
<1>2. CASE op.action = "UPDATE"
  <2>1. ProductFor(k) = [op EXCEPT !.target = TheOnly(Matches(k)),
                           !.card = Merge(TheOnly(Matches(k)), k).card,
                           !.deferred = Merge(TheOnly(Matches(k)), k).blocked]
    BY <1>2 DEF ProductFor, op
  <2> QED BY <1>1, <1>2, <2>1 DEF IsCategory, Dependent
<1>3. CASE op.action = "CREATE"
  <2>1. ProductFor(k) = [op EXCEPT !.pending = Mapping(k).outcome = "pending"]
    BY <1>3 DEF ProductFor, op
  <2> QED BY <1>1, <1>3, <2>1 DEF IsCategory, Dependent
<1>4. CASE op.action \notin {"UPDATE", "CREATE"}
  <2>1. ProductFor(k) = op
    BY <1>4 DEF ProductFor, op
  <2> QED BY <1>1, <1>4, <2>1 DEF IsCategory, Dependent
<1> QED BY <1>2, <1>3, <1>4

\* What an action rests on.
LEMMA ActionIsGood ==
  ASSUME NEW k
  PROVE  /\ ActionFor(k) = "CREATE" => ~PreflightBlocks(k) /\ number[k] # NoNum
         /\ ActionFor(k) = "UPDATE" =>
              /\ job.qa /\ Matches(k) # {}
              /\ Status(k) \notin {"BLOCKED", "MANUAL_REVIEW_REQUIRED"}
<1>1. ASSUME NEW i
      PROVE  /\ ActionForListed(i, k) # "CREATE"
             /\ ActionForListed(i, k) = "UPDATE" => job.qa
  BY DEF ActionForListed
<1>2. /\ ActionForNew(k) # "UPDATE"
      /\ ActionForNew(k) = "CREATE" => ~PreflightBlocks(k) /\ number[k] # NoNum
  BY DEF ActionForNew
<1> QED BY <1>1, <1>2 DEF ActionFor

LEMMA ProductIsGood ==
  ASSUME NEW k \in DOMAIN menu
  PROVE  Good(ProductFor(k))
<1>1. /\ ProductFor(k).source = k /\ ProductFor(k).action = ActionFor(k)
      /\ ActionFor(k) = "UPDATE" => ProductFor(k).target = TheOnly(Matches(k))
  BY ProductPlanned
<1>2. Matches(k) # {} => TheOnly(Matches(k)) \in Matches(k)
  BY DEF TheOnly
<1> QED BY <1>1, <1>2, ActionIsGood DEF Good, Creatable, Updatable, Found

\* What is sound is so as long as nothing is executed.
LEMMA GroundStays ==
  ASSUME UNCHANGED <<job, rows, cats, number>>
  PROVE  UNCHANGED <<Creatable, Updatable, Found, menu>>
<1>1. menu' = menu
  BY DEF menu
<1>2. Creatable' = Creatable
  BY DEF Creatable, PreflightBlocks, menu
<1>3. Updatable' = Updatable
  BY DEF Updatable, Status, Shares, Unnumbered, menu
<1>4. Found' = Found
  BY DEF Found, Matches, Mapping, MapCategory, MapProduct, CatNameOf, Called, Soft,
         Unnumbered, menu
<1> QED BY <1>1, <1>2, <1>3, <1>4

LEMMA SoundStays ==
  ASSUME UNCHANGED <<job, rows, cats, number>>
  PROVE  /\ Sound(plan', at' - 1) => Sound(plan, at - 1)'
         /\ Sound(plan', Len(menu)) => Sound(plan, Len(menu))'
<1>1. UNCHANGED <<Creatable, Updatable, Found, menu>>
  BY GroundStays
<1>2. Sound(plan', at' - 1) => Sound(plan, at - 1)'
  BY <1>1 DEF Sound, IsSeq, InOrder, AfterCategory, Good, NameOf
<1>3. Sound(plan', Len(menu)) => Sound(plan, Len(menu))'
  BY <1>1 DEF Sound, IsSeq, InOrder, AfterCategory, Good, NameOf
<1> QED BY <1>2, <1>3

LEMMA PlanProductKeeps ==
  ASSUME PlanningInv, PlanProduct
  PROVE  Sound(plan', at) /\ at \in 1 .. Len(menu) /\ Len(menu) \in Nat
<1>1. /\ at \in 1 .. Len(menu) /\ Len(menu) \in Nat /\ Sound(plan, at - 1)
      /\ plan' = plan \o CategoryFor(at) \o <<ProductFor(at)>>
  BY DEF PlanningInv, JobGood, PlanGood, PlanProduct
<1> DEFINE c == Operation("category", "CREATE", at)
           op == ProductFor(at)
           s == plan \o CategoryFor(at)
<1>2. Sound(plan, at) /\ \A i \in DOMAIN plan : plan[i].source < at
  BY <1>1 DEF Sound
<1>3. /\ IsCategory(c) /\ c.source = at /\ c.cat = menu[at].cat
      /\ ~IsCategory(op) /\ op.source = at /\ op.cat = menu[at].cat /\ Good(op)
      /\ Dependent(op) => Mapping(at).outcome = "pending"
  <2>1. at \in DOMAIN menu
    BY DEF PlanProduct
  <2> QED BY <2>1, CategoryPlanned, ProductPlanned, ProductIsGood
<1>4. /\ Sound(s, at)
      /\ \A i \in DOMAIN s : ~IsCategory(s[i]) => s[i].source < at
      /\ Dependent(op) => \E l \in DOMAIN s : IsCategory(s[l]) /\ NameOf(s[l]) = NameOf(op)
  <2>1. CASE CategoryFor(at) = <<c>>
    <3>1. s = Append(plan, c)
      BY <1>2, <2>1, OneMore DEF Sound
    <3>2. Sound(Append(plan, c), at)
      <4> HIDE DEF c
      <4> QED BY <1>1, <1>2, <1>3, CategoryFollows
    <3>3. /\ Len(plan) \in Nat /\ DOMAIN plan = 1 .. Len(plan)
          /\ DOMAIN Append(plan, c) = 1 .. Len(plan) + 1
          /\ \A i \in 1 .. Len(plan) : Append(plan, c)[i] = plan[i]
          /\ Append(plan, c)[Len(plan) + 1] = c
      <4> HIDE DEF c
      <4> QED BY <1>2, Appending DEF Sound
    <3>4. NameOf(c) = NameOf(op)
      BY <1>3 DEF NameOf
    <3> HIDE DEF c, op, s
    <3>5. ASSUME NEW i \in DOMAIN s, ~IsCategory(s[i]) PROVE s[i].source < at
      <4>1. i \in DOMAIN plan /\ s[i] = plan[i]
        BY <1>3, <3>1, <3>3, <3>5
      <4> QED BY <1>2, <4>1
    <3>6. Len(plan) + 1 \in DOMAIN s /\ s[Len(plan) + 1] = c
      BY <3>1, <3>3
    <3> QED BY <1>3, <3>1, <3>2, <3>4, <3>5, <3>6
  <2>2. CASE CategoryFor(at) # <<c>>
    <3>1. CategoryFor(at) = << >>
      BY <2>2 DEF CategoryFor
    <3>2. s = plan
      BY <1>2, <3>1, OneMore DEF Sound
    <3>3. ASSUME Dependent(op)
          PROVE  \E l \in DOMAIN plan : IsCategory(plan[l]) /\ NameOf(plan[l]) = NameOf(op)
      <4>1. PICK l \in DOMAIN plan : plan[l].entity = "category" /\ plan[l].cat = menu[at].cat
        BY <1>3, <2>2, <3>3 DEF CategoryFor, CreatesOf
      <4> QED BY <1>3, <4>1 DEF IsCategory, NameOf
    <3> QED BY <1>2, <3>2, <3>3
  <2> QED BY <2>1, <2>2
<1>5. plan' = Append(s, op)
  <2>1. plan' = s \o <<op>>
    BY <1>1
  <2> HIDE DEF s, op
  <2> QED BY <1>4, <2>1, OneMore DEF Sound
<1> HIDE DEF s, op
<1>6. at \in Nat /\ op.source \in 1 .. at
  BY <1>1, <1>3
<1>7. \A i \in DOMAIN s : ~IsCategory(s[i]) => s[i].source < op.source
  BY <1>3, <1>4
<1>8. Sound(Append(s, op), at)
  BY <1>3, <1>4, <1>6, <1>7, ProductFollows
<1> QED BY <1>1, <1>5, <1>8

-----------------------------------------------------------------------------
(* The order of the operations *)

\* One operation more, behind the category it takes.
Placed(i, before) ==
  LET op == plan[i]
      free == CategoriesCalled(NameOf(op)) \ before.used
  IN  IF IsCategory(op) THEN before
      ELSE IF Dependent(op) /\ free # {}
      THEN [out |-> Append(Append(before.out, plan[Min(free)]), op),
            used |-> before.used \cup {Min(free)}]
      ELSE [before EXCEPT !.out = Append(@, op)]

\* f arranges the first n operations of the plan.
Arranged(n, f) ==
  f = [i \in 0 .. n |->
        IF i = 0 THEN [out |-> << >>, used |-> {}] ELSE Placed(i, f[i - 1])]

LEMMA ArrangedExists ==
  ASSUME NEW n \in Nat
  PROVE  \E f : Arranged(n, f)
<1> DEFINE Bad == {k \in Nat : ~\E f : Arranged(k, f)}
<1> SUFFICES ASSUME Bad # {} PROVE FALSE
  OBVIOUS
<1>1. PICK k \in Bad : \A m \in Bad : k <= m
  <2>1. Bad \in SUBSET Nat
    OBVIOUS
  <2> HIDE DEF Bad
  <2> QED BY <2>1, SmallestOf
<1> DEFINE none == [out |-> << >>, used |-> {}]
<1>2. k # 0
  <2>1. Arranged(0, [i \in 0 .. 0 |-> none])
    BY DEF Arranged
  <2> QED BY <2>1
<1>3. PICK f : Arranged(k - 1, f)
  <2>1. k - 1 \in Nat /\ k - 1 \notin Bad
    BY <1>1, <1>2
  <2> QED BY <2>1
<1> DEFINE g == [i \in 0 .. k |-> IF i < k THEN f[i] ELSE Placed(k, f[k - 1])]
<1>4. \A i \in 0 .. k : g[i] = IF i = 0 THEN none ELSE Placed(i, g[i - 1])
  <2>1. k \in Nat /\ \A i \in 0 .. k - 1 : g[i] = f[i]
    OBVIOUS
  <2>2. \A i \in 0 .. k - 1 : f[i] = IF i = 0 THEN none ELSE Placed(i, f[i - 1])
    BY <1>3 DEF Arranged
  <2>3. \A i \in 1 .. k : g[i - 1] = f[i - 1] /\ i - 1 \in 0 .. k - 1
    BY <2>1
  <2>4. g[k] = Placed(k, f[k - 1])
    BY <2>1
  <2> HIDE DEF g
  <2> QED BY <1>2, <2>1, <2>2, <2>3, <2>4
<1>5. g = [i \in 0 .. k |-> g[i]]
  OBVIOUS
<1>6. Arranged(k, g)
  <2> HIDE DEF g
  <2> QED BY <1>4, <1>5 DEF Arranged
<1> QED BY <1>6

LEMMA MinimizedIsArranged ==
  ASSUME IsSeq(plan)
  PROVE  \E f : /\ Minimized[Len(plan)] = f[Len(plan)]
                /\ f[0] = [out |-> << >>, used |-> {}]
                /\ \A i \in 1 .. Len(plan) : f[i] = Placed(i, f[i - 1])
<1>1. Len(plan) \in Nat
  BY DEF IsSeq
<1> DEFINE f == CHOOSE h : Arranged(Len(plan), h)
<1>2. Arranged(Len(plan), f)
  BY <1>1, ArrangedExists
<1>3. Minimized[Len(plan)] = f[Len(plan)]
  BY DEF Minimized, Arranged, Placed
<1> HIDE DEF f
<1>4. \A i \in 0 .. Len(plan) :
        f[i] = IF i = 0 THEN [out |-> << >>, used |-> {}] ELSE Placed(i, f[i - 1])
  BY <1>2 DEF Arranged
<1>5. 0 \in 0 .. Len(plan) /\ \A i \in 1 .. Len(plan) : i \in 0 .. Len(plan) /\ i # 0
  BY <1>1
<1> QED BY <1>3, <1>4, <1>5

\* What is arranged is sound, its products are those that were looked at, and the
\* categories that are taken are there.
WellArranged(i, m) ==
  /\ m = [out |-> m.out, used |-> m.used]
  /\ Sound(m.out, Len(menu))
  /\ \A p \in DOMAIN m.out : ~IsCategory(m.out[p]) =>
       \E j \in 1 .. i : m.out[p] = plan[j]
  /\ \A c \in m.used : \E p \in DOMAIN m.out : m.out[p] = plan[c]

LEMMA PlacedWell ==
  ASSUME Sound(plan, Len(menu)), menu \in Seq(Product),
         NEW i \in 1 .. Len(plan), NEW m, WellArranged(i - 1, m)
  PROVE  WellArranged(i, Placed(i, m))
<1> DEFINE op == plan[i]
           free == CategoriesCalled(NameOf(op)) \ m.used
           n == Len(menu)
<1>1. /\ n \in Nat /\ Len(plan) \in Nat /\ DOMAIN plan = 1 .. Len(plan)
      /\ i \in DOMAIN plan /\ op.source \in 1 .. n /\ Good(op)
  BY DEF Sound, IsSeq
<1>2. /\ m = [out |-> m.out, used |-> m.used] /\ Sound(m.out, n) /\ IsSeq(m.out)
      /\ \A p \in DOMAIN m.out : ~IsCategory(m.out[p]) =>
           \E j \in 1 .. i - 1 : m.out[p] = plan[j]
      /\ \A c \in m.used : \E p \in DOMAIN m.out : m.out[p] = plan[c]
  BY DEF WellArranged, Sound
<1>3. CASE IsCategory(op)
  <2>1. Placed(i, m) = m
    BY <1>3 DEF Placed
  <2>2. \A j \in 1 .. i - 1 : j \in 1 .. i
    OBVIOUS
  <2> QED BY <1>2, <2>1, <2>2 DEF WellArranged
<1>4. ASSUME ~IsCategory(op), NEW p \in DOMAIN m.out, ~IsCategory(m.out[p])
      PROVE  m.out[p].source < op.source
  <2>1. PICK j \in 1 .. i - 1 : m.out[p] = plan[j]
    BY <1>2, <1>4
  <2>2. j \in DOMAIN plan /\ j < i
    BY <1>1
  <2> QED BY <1>1, <1>4, <2>1, <2>2 DEF Sound, InOrder
<1>5. CASE ~IsCategory(op) /\ Dependent(op) /\ free # {}
  <2> DEFINE c == Min(free)
             s == Append(m.out, plan[c])
             t == Append(s, op)
  <2>1. c \in free
    <3>1. free \in SUBSET Nat
      BY <1>1 DEF CategoriesCalled
    <3> HIDE DEF free
    <3> QED BY <1>5, <3>1, MinOf
  <2>2. c \in DOMAIN plan /\ IsCategory(plan[c]) /\ NameOf(plan[c]) = NameOf(op)
    BY <2>1 DEF CategoriesCalled
  <2>3. Placed(i, m) = [out |-> t, used |-> m.used \cup {c}]
    BY <1>5 DEF Placed
  <2> HIDE DEF c, free
  <2>4. plan[c].source \in 1 .. n
    BY <2>2 DEF Sound
  <2>5. Sound(s, n)
    BY <1>1, <1>2, <2>2, <2>4, CategoryFollows
  <2>6. /\ Len(m.out) \in Nat /\ DOMAIN m.out = 1 .. Len(m.out)
        /\ DOMAIN s = 1 .. Len(m.out) + 1
        /\ \A p \in 1 .. Len(m.out) : s[p] = m.out[p]
        /\ s[Len(m.out) + 1] = plan[c]
    BY <1>2, Appending
  <2>7. /\ Len(s) = Len(m.out) + 1
        /\ DOMAIN t = 1 .. Len(s) + 1 /\ \A p \in 1 .. Len(s) : t[p] = s[p]
        /\ t[Len(s) + 1] = op
    <3>1. IsSeq(s)
      BY <2>5 DEF Sound
    <3>2. /\ Len(s) \in Nat /\ DOMAIN s = 1 .. Len(s)
          /\ DOMAIN t = 1 .. Len(s) + 1 /\ \A p \in 1 .. Len(s) : t[p] = s[p]
          /\ t[Len(s) + 1] = op
      <4> HIDE DEF s
      <4> QED BY <3>1, Appending
    <3>3. Len(s) = Len(m.out) + 1
      <4> HIDE DEF s
      <4> QED BY <2>6, <3>2
    <3> QED BY <3>2, <3>3
  <2>8. ASSUME NEW p \in DOMAIN s, ~IsCategory(s[p])
        PROVE  p \in DOMAIN m.out /\ s[p] = m.out[p]
    <3> HIDE DEF s
    <3> QED BY <2>2, <2>6, <2>8
  <2>9. Sound(t, n)
    <3>1. \A p \in DOMAIN s : ~IsCategory(s[p]) => s[p].source < op.source
      BY <1>4, <1>5, <2>8
    <3>2. \E l \in DOMAIN s : IsCategory(s[l]) /\ NameOf(s[l]) = NameOf(op)
      <4>1. Len(m.out) + 1 \in DOMAIN s
        BY <2>6
      <4> QED BY <2>2, <2>6, <4>1
    <3> HIDE DEF s
    <3> QED BY <1>1, <1>5, <2>5, <3>1, <3>2, ProductFollows
  <2>10. ASSUME NEW p \in DOMAIN t, ~IsCategory(t[p])
         PROVE  \E j \in 1 .. i : t[p] = plan[j]
    <3> HIDE DEF s, t
    <3>1. CASE p = Len(s) + 1
      BY <2>7, <3>1 DEF op
    <3>2. CASE p # Len(s) + 1
      <4>1. p \in 1 .. Len(s) /\ p \in DOMAIN s /\ t[p] = s[p]
        BY <2>6, <2>7, <3>2
      <4>2. p \in DOMAIN m.out /\ t[p] = m.out[p]
        BY <2>8, <2>10, <4>1
      <4>3. PICK j \in 1 .. i - 1 : t[p] = plan[j]
        BY <1>2, <2>10, <4>2
      <4> QED BY <4>3
    <3> QED BY <3>1, <3>2
  <2>11. ASSUME NEW d \in m.used \cup {c}
         PROVE  \E p \in DOMAIN t : t[p] = plan[d]
    <3> HIDE DEF s, t
    <3>1. CASE d = c
      <4>1. Len(s) \in DOMAIN t /\ t[Len(s)] = plan[c]
        BY <2>6, <2>7
      <4> QED BY <3>1, <4>1
    <3>2. CASE d \in m.used
      <4>1. PICK p \in DOMAIN m.out : m.out[p] = plan[d]
        BY <1>2, <3>2
      <4>2. p \in DOMAIN t /\ t[p] = m.out[p]
        BY <2>6, <2>7
      <4> QED BY <4>1, <4>2
    <3> QED BY <3>1, <3>2
  <2> HIDE DEF t, s
  <2> QED BY <2>3, <2>9, <2>10, <2>11 DEF WellArranged
<1>6. CASE ~IsCategory(op) /\ ~(Dependent(op) /\ free # {})
  <2> DEFINE t == Append(m.out, op)
  <2>1. Placed(i, m) = [m EXCEPT !.out = t]
    BY <1>6 DEF Placed
  <2>2. Placed(i, m) = [out |-> t, used |-> m.used]
    <3> HIDE DEF t
    <3> QED BY <1>2, <2>1
  <2>3. /\ Len(m.out) \in Nat /\ DOMAIN m.out = 1 .. Len(m.out)
        /\ DOMAIN t = 1 .. Len(m.out) + 1
        /\ \A p \in 1 .. Len(m.out) : t[p] = m.out[p]
        /\ t[Len(m.out) + 1] = op
    BY <1>2, Appending
  <2>4. Sound(t, n)
    <3>1. ASSUME Dependent(op)
          PROVE  \E l \in DOMAIN m.out : IsCategory(m.out[l]) /\ NameOf(m.out[l]) = NameOf(op)
      <4>1. PICK l \in 1 .. i - 1 : IsCategory(plan[l]) /\ NameOf(plan[l]) = NameOf(op)
        BY <1>1, <3>1 DEF Sound, AfterCategory
      <4>2. l \in CategoriesCalled(NameOf(op))
        BY <1>1, <4>1 DEF CategoriesCalled
      <4>3. l \in m.used
        BY <1>6, <3>1, <4>2
      <4> QED BY <1>2, <4>1, <4>3
    <3> HIDE DEF op
    <3> QED BY <1>1, <1>2, <1>4, <1>6, <3>1, ProductFollows
  <2>5. ASSUME NEW p \in DOMAIN t, ~IsCategory(t[p])
        PROVE  \E j \in 1 .. i : t[p] = plan[j]
    <3> HIDE DEF t
    <3>1. CASE p = Len(m.out) + 1
      BY <2>3, <3>1 DEF op
    <3>2. CASE p # Len(m.out) + 1
      <4>1. p \in DOMAIN m.out /\ t[p] = m.out[p]
        BY <2>3, <3>2
      <4>2. PICK j \in 1 .. i - 1 : t[p] = plan[j]
        BY <1>2, <2>5, <4>1
      <4> QED BY <4>2
    <3> QED BY <3>1, <3>2
  <2>6. ASSUME NEW d \in m.used
        PROVE  \E p \in DOMAIN t : t[p] = plan[d]
    <3> HIDE DEF t
    <3>1. PICK p \in DOMAIN m.out : m.out[p] = plan[d]
      BY <1>2
    <3>2. p \in DOMAIN t /\ t[p] = m.out[p]
      BY <2>3
    <3> QED BY <3>1, <3>2
  <2> HIDE DEF t
  <2> QED BY <2>2, <2>4, <2>5, <2>6 DEF WellArranged
<1> QED BY <1>3, <1>5, <1>6

LEMMA OrderedIsSound ==
  ASSUME Sound(plan, Len(menu)), menu \in Seq(Product)
  PROVE  /\ Sound(Ordered, Len(menu))
         /\ \A p \in DOMAIN Ordered : ~IsCategory(Ordered[p]) =>
              \E j \in DOMAIN plan : Ordered[p] = plan[j]
<1>1. Len(plan) \in Nat /\ IsSeq(plan)
  BY DEF Sound, IsSeq
<1>2. PICK f : /\ Minimized[Len(plan)] = f[Len(plan)]
               /\ f[0] = [out |-> << >>, used |-> {}]
               /\ \A i \in 1 .. Len(plan) : f[i] = Placed(i, f[i - 1])
  BY <1>1, MinimizedIsArranged
<1> DEFINE Bad == {i \in 0 .. Len(plan) : ~WellArranged(i, f[i])}
<1>3. Bad = {}
  <2> SUFFICES ASSUME Bad # {} PROVE FALSE
    OBVIOUS
  <2>1. Bad \in SUBSET Nat
    OBVIOUS
  <2>2. PICK k \in Bad : \A m \in Bad : k <= m
    <3> HIDE DEF Bad
    <3> QED BY <2>1, SmallestOf
  <2>3. WellArranged(0, f[0])
    <3>1. Sound(<< >>, Len(menu))
      BY DEF Sound, IsSeq, InOrder, AfterCategory
    <3>2. f[0].out = << >> /\ f[0].used = {}
      BY <1>2
    <3> QED BY <1>2, <3>1, <3>2 DEF WellArranged
  <2>4. k \in 1 .. Len(plan) /\ k - 1 \in 0 .. Len(plan)
    <3>1. k \in 0 .. Len(plan) /\ k # 0
      BY <2>2, <2>3
    <3> QED BY <1>1, <3>1
  <2>5. WellArranged(k - 1, f[k - 1])
    <3>1. k - 1 \notin Bad
      <4> HIDE DEF Bad
      <4> QED BY <2>1, <2>2, <2>4
    <3> QED BY <2>4, <3>1
  <2>6. WellArranged(k, f[k])
    <3>1. f[k] = Placed(k, f[k - 1])
      BY <1>2, <2>4
    <3>2. WellArranged(k, Placed(k, f[k - 1]))
      BY <2>4, <2>5, PlacedWell
    <3> QED BY <3>1, <3>2
  <2> QED BY <2>2, <2>6
<1>4. WellArranged(Len(plan), Minimized[Len(plan)])
  <2>1. Len(plan) \in 0 .. Len(plan) /\ Len(plan) \notin Bad
    BY <1>1, <1>3
  <2> QED BY <1>2, <2>1
<1>5. Ordered = plan \/ Ordered = Minimized[Len(plan)].out
  BY DEF Ordered
<1>6. DOMAIN plan = 1 .. Len(plan)
  BY <1>1 DEF IsSeq
<1> QED BY <1>4, <1>5, <1>6 DEF WellArranged

-----------------------------------------------------------------------------
(* The invariant *)

LEMMA NumbersStay ==
  ASSUME PlanningInv, UNCHANGED <<job, number, numbering>>,
         phase = "numbering" => at \notin DOMAIN menu,
         phase' \in {"planning", "planned", "executing"}
  PROVE  JobGood' /\ NumbersGood'
<1>1. JobGood'
  BY TopStays DEF PlanningInv, JobGood
<1>2. NumbersGood'
  <2> SUFFICES ASSUME job.origin = "source" PROVE Counted' /\ Above' /\ New'
    BY DEF NumbersGood
  <2>1. Counted /\ Above /\ New
    BY DEF PlanningInv, NumbersGood
  <2>2. Counted'
    <3>1. Len(number) = Len(menu)
      <4>1. CASE phase = "numbering"
        <5>1. /\ at \in 1 .. Len(menu) + 1 /\ Len(number) = at - 1
              /\ Len(menu) \in Nat /\ DOMAIN menu = 1 .. Len(menu)
          BY <2>1, <4>1 DEF Counted, PlanningInv, JobGood
        <5> QED BY <4>1, <5>1
      <4>2. CASE phase # "numbering"
        BY <2>1, <4>2 DEF Counted
      <4> QED BY <4>1, <4>2
    <3> QED BY <2>1, <3>1, TopStays DEF Counted
  <2>3. Above'
    BY <2>1, TopStays DEF Above, numbering
  <2>4. New'
    BY <2>1, TopStays DEF New
  <2> QED BY <2>2, <2>3, <2>4
<1> QED BY <1>1, <1>2

LEMMA NothingPlanned ==
  ASSUME NEW n
  PROVE  Sound(<< >>, n)
BY DEF Sound, IsSeq, InOrder, AfterCategory

LEMMA PlanningStep ==
  ASSUME PlanningInv, [Next]_vars
  PROVE  PlanningInv'
<1>1. CASE UNCHANGED vars
  <2>1. /\ UNCHANGED <<job, rows, cats, number, numbering, phase, at, plan>>
        /\ JobGood /\ NumbersGood /\ PlanGood
    BY <1>1 DEF vars, PlanningInv
  <2>2. JobGood' /\ NumbersGood'
    BY <2>1, TopStays DEF JobGood, NumbersGood, Counted, Above, New, numbering
  <2>3. PlanGood'
    BY <2>1, TopStays, SoundStays DEF PlanGood
  <2> QED BY <2>2, <2>3 DEF PlanningInv
<1>2. CASE NumberProduct
  BY <1>2, NumberProductKeeps
<1>3. CASE StartPlanning
  <2>1. /\ phase = "numbering" /\ at \notin DOMAIN menu /\ phase' = "planning" /\ at' = 1
        /\ UNCHANGED <<job, rows, cats, number, numbering, plan>>
    BY <1>3 DEF StartPlanning
  <2>2. plan' = << >> /\ Len(menu) \in Nat
    BY <2>1 DEF PlanningInv, PlanGood, JobGood
  <2>3. Sound(plan', at' - 1)
    BY <2>2, NothingPlanned
  <2>4. PlanGood'
    BY <2>1, <2>2, <2>3, TopStays, SoundStays DEF PlanGood
  <2> QED BY <2>1, <2>4, NumbersStay DEF PlanningInv
<1>4. CASE PlanProduct
  <2>1. /\ phase = "planning" /\ phase' = "planning" /\ at' = at + 1
        /\ UNCHANGED <<job, rows, cats, number, numbering>>
    BY <1>4 DEF PlanProduct
  <2>2. Sound(plan', at) /\ at \in 1 .. Len(menu) /\ Len(menu) \in Nat
    BY <1>4, PlanProductKeeps
  <2>3. Sound(plan', at' - 1) /\ at' \in 1 .. Len(menu) + 1
    <3>1. at' - 1 = at
      BY <2>1, <2>2
    <3> QED BY <2>1, <2>2, <3>1
  <2>4. PlanGood'
    BY <2>1, <2>3, TopStays, SoundStays DEF PlanGood
  <2> QED BY <2>1, <2>4, NumbersStay DEF PlanningInv
<1>5. CASE FreezePlan
  <2>1. /\ phase = "planning" /\ at \notin DOMAIN menu /\ phase' = "planned"
        /\ plan' = Ordered
        /\ UNCHANGED <<job, rows, cats, number, numbering>>
    BY <1>5 DEF FreezePlan
  <2>2. /\ menu \in Seq(Product) /\ at \in 1 .. Len(menu) + 1 /\ Sound(plan, at - 1)
    BY <2>1 DEF PlanningInv, JobGood, PlanGood
  <2>3. at - 1 = Len(menu)
    <3>1. Len(menu) \in Nat /\ DOMAIN menu = 1 .. Len(menu)
      BY <2>2
    <3> QED BY <2>1, <2>2, <3>1
  <2>4. Sound(plan', Len(menu))
    BY <2>1, <2>2, <2>3, OrderedIsSound
  <2>5. PlanGood'
    BY <2>1, <2>4, SoundStays DEF PlanGood
  <2> QED BY <2>1, <2>5, NumbersStay DEF PlanningInv
<1>6. CASE Execute
  <2>1. /\ phase # "numbering" /\ phase' = "executing"
        /\ UNCHANGED <<job, number, numbering>>
    BY <1>6 DEF Execute
  <2>2. PlanGood'
    BY <2>1 DEF PlanGood
  <2> QED BY <2>1, <2>2, NumbersStay DEF PlanningInv
<1>7. CASE PlanAgain
  <2>1. /\ phase = "executing" /\ phase' = "planning" /\ at' = 1 /\ plan' = << >>
        /\ UNCHANGED <<job, rows, cats, number, numbering>>
    BY <1>7 DEF PlanAgain
  <2>2. Sound(plan', at' - 1) /\ Len(menu) \in Nat
    BY <2>1, NothingPlanned DEF PlanningInv, JobGood
  <2>3. PlanGood'
    BY <2>1, <2>2, TopStays, SoundStays DEF PlanGood
  <2> QED BY <2>1, <2>3, NumbersStay DEF PlanningInv
<1> QED BY <1>1, <1>2, <1>3, <1>4, <1>5, <1>6, <1>7 DEF Next

LEMMA PlanningInit ==
  ASSUME Init
  PROVE  PlanningInv
<1>1. PICK c \in Cases :
        /\ job = [menu |-> c.menu, catNames |-> c.catNames, origin |-> c.origin,
                  qa |-> c.qa, certified |-> c.certified]
        /\ number = IF c.origin = "source" THEN << >>
                    ELSE [k \in DOMAIN c.menu |-> c.menu[k].printed]
        /\ phase = IF c.origin = "source" THEN "numbering" ELSE "planning"
        /\ running = Top /\ nextSequential = Top + 1 /\ cursor = 0
        /\ at = 1 /\ plan = << >>
  BY DEF Init, Top
<1>2. /\ menu = c.menu /\ job.origin = c.origin
      /\ c.menu \in Seq(Product) /\ c.origin \in {"source", "live"}
      /\ \A k, l \in DOMAIN c.menu : k <= l => c.menu[k].cat <= c.menu[l].cat
  <2>1. c \in Case
    BY PlanningConstants
  <2>2. c.menu \in Seq(Product) /\ c.origin \in {"source", "live"}
    BY <2>1 DEF Case
  <2> QED BY <1>1, <2>2, PlanningConstants DEF menu
<1>3. JobGood
  BY <1>1, <1>2 DEF JobGood
<1>4. Top \in Nat /\ Len(menu) \in Nat
  BY <1>2, TopIsHighest
<1>5. NumbersGood
  <2> SUFFICES ASSUME job.origin = "source" PROVE Counted /\ Above /\ New
    BY DEF NumbersGood
  <2>1. number = << >> /\ phase = "numbering"
    BY <1>1, <1>2
  <2> QED BY <1>1, <1>4, <2>1 DEF Counted, Above, New
<1>6. PlanGood
  <2>1. Sound(plan, at - 1)
    BY <1>1, NothingPlanned
  <2> QED BY <1>1, <1>4, <2>1 DEF PlanGood
<1> QED BY <1>3, <1>5, <1>6 DEF PlanningInv

LEMMA PlanningInvariant == Spec => []PlanningInv
BY PlanningInit, PlanningStep, PTL DEF Spec

-----------------------------------------------------------------------------
(* The theorems *)

\* A number that assignMenuNumbers generates is no other product's, in whatever
\* form it is written, for every menu.
THEOREM GeneratedIsNew == Spec => []NumbersUnique
<1>1. PlanningInv => NumbersUnique
  BY NumbersGoodIsUnique
<1> QED BY <1>1, PlanningInvariant, PTL

\* In a frozen plan the products to be created in a category that is missing come
\* behind its creation, whether their order was minimised or not.
THEOREM CategoryComesFirst == Spec => []CategoryFirst
<1>1. PlanningInv => CategoryFirst
  BY DEF PlanningInv, PlanGood, CategoryFirst, Sound, AfterCategory
<1> QED BY <1>1, PlanningInvariant, PTL

LEMMA ProductsOfPlan ==
  ASSUME JobGood, Sound(plan, Len(menu)),
         NEW action, NEW i \in Writes(action), NEW l \in Writes(action), i # l
  PROVE  plan[i].source # plan[l].source
<1>1. i \in DOMAIN plan /\ l \in DOMAIN plan /\ ~IsCategory(plan[i]) /\ ~IsCategory(plan[l])
  BY DEF Writes
<1>2. DOMAIN plan = 1 .. Len(plan) /\ Len(plan) \in Nat /\ Len(menu) \in Nat
  BY DEF Sound, IsSeq, JobGood
<1>3. plan[i].source \in 1 .. Len(menu) /\ plan[l].source \in 1 .. Len(menu)
  BY <1>1 DEF Sound
<1>4. i < l \/ l < i
  BY <1>1, <1>2
<1>5. plan[i].source < plan[l].source \/ plan[l].source < plan[i].source
  BY <1>1, <1>4 DEF Sound, InOrder
<1> QED BY <1>2, <1>3, <1>5

LEMMA CreatesOfPlanAreNew ==
  ASSUME JobGood, Sound(plan, Len(menu))
  PROVE  CreatesAreNew
<1>1. ASSUME NEW i \in Writes("CREATE")
      PROVE  /\ plan[i].source \in DOMAIN menu /\ number[plan[i].source] # NoNum
             /\ ~PreflightBlocks(plan[i].source)
  BY <1>1 DEF Writes, Sound, Good, Creatable
<1>2. SUFFICES ASSUME NEW i \in Writes("CREATE")
               PROVE  LET n == Equivalent(number[plan[i].source])
                      IN  /\ \A l \in Writes("CREATE") :
                               i # l => Equivalent(number[plan[l].source]) # n
                          /\ \A r \in DOMAIN rows :
                               ~rows[r].canary => Equivalent(rows[r].num) # n
  BY DEF CreatesAreNew
<1>3. ASSUME NEW l \in Writes("CREATE"), i # l
      PROVE  Equivalent(number[plan[l].source]) # Equivalent(number[plan[i].source])
  <2>1. plan[l].source \in DOMAIN menu /\ plan[l].source # plan[i].source
    BY <1>1, <1>3, ProductsOfPlan
  <2> QED BY <1>1, <2>1 DEF PreflightBlocks
<1>4. ASSUME NEW r \in DOMAIN rows, ~rows[r].canary
      PROVE  Equivalent(rows[r].num) # Equivalent(number[plan[i].source])
  BY <1>1, <1>4 DEF PreflightBlocks
<1> QED BY <1>3, <1>4

\* Two products of a source that are found in one row have its number twice, and
\* are for review.
LEMMA UpdatesOfPlanDiffer ==
  ASSUME PlanningInv, phase = "planned", job.origin = "source"
  PROVE  UpdatesDiffer
<1>1. /\ JobGood /\ Counted /\ New /\ Sound(plan, Len(menu)) /\ menu \in Seq(Product)
      /\ number \in Seq(Num) /\ Len(number) = Len(menu)
  BY DEF PlanningInv, NumbersGood, PlanGood, JobGood, Counted
<1>2. SUFFICES ASSUME NEW i \in Writes("UPDATE"), NEW l \in Writes("UPDATE"),
                      plan[i].target = plan[l].target, i # l
               PROVE  FALSE
  BY DEF UpdatesDiffer
<1>3. ASSUME NEW j \in Writes("UPDATE")
      PROVE  /\ plan[j].source \in Updatable
             /\ plan[j].target \in Found[plan[j].source]
  BY <1>1, <1>3 DEF Writes, Sound, Good
<1> DEFINE k == plan[i].source
           m == plan[l].source
           t == plan[i].target
<1>4. /\ k \in Updatable /\ k \in DOMAIN menu /\ t \in Matches(k)
      /\ m \in Updatable /\ m \in DOMAIN menu /\ t \in Matches(m)
  BY <1>2, <1>3 DEF Updatable, Found
<1>5. k # m
  BY <1>1, <1>2, ProductsOfPlan
<1>6. ASSUME NEW n \in DOMAIN menu, t \in Matches(n)
      PROVE  rows[t].num = number[n]
  <2>1. n \in 1 .. Len(number) /\ number[n] \in Num
    BY <1>1
  <2>2. number[n] # NoNum
    BY <2>1 DEF Num, NoNum
  <2> QED BY <1>6, <2>2 DEF Matches
<1>7. Shares(k)
  BY <1>4, <1>5, <1>6 DEF Shares
<1>8. Status(k) \in {"BLOCKED", "MANUAL_REVIEW_REQUIRED"}
  BY <1>7 DEF Status
<1> QED BY <1>4, <1>8 DEF Updatable

\* A plan is what the executor relies on, for every menu and destination: its creates
\* have numbers that neither another create nor a listed row has, no row is updated
\* by two products of a source, and only a reconcile job updates.
THEOREM PlansArePreflighted == Spec => []PlanIsPreflighted
<1>1. ASSUME PlanningInv, phase = "planned"
      PROVE  /\ CreatesAreNew
             /\ job.origin = "source" => UpdatesDiffer
             /\ ~job.qa => Writes("UPDATE") = {}
  <2>1. JobGood /\ Sound(plan, Len(menu))
    BY <1>1 DEF PlanningInv, PlanGood
  <2>2. CreatesAreNew
    BY <2>1, CreatesOfPlanAreNew
  <2>3. job.origin = "source" => UpdatesDiffer
    BY <1>1, UpdatesOfPlanDiffer
  <2>4. ~job.qa => Writes("UPDATE") = {}
    BY <2>1 DEF Sound, Good, Writes, Updatable
  <2> QED BY <2>2, <2>3, <2>4
<1>2. PlanningInv => PlanIsPreflighted
  BY <1>1 DEF PlanIsPreflighted
<1> QED BY <1>2, PlanningInvariant, PTL
=============================================================================
