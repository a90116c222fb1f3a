------------------------------ MODULE FormProofs ------------------------------
(***************************************************************************)
(* What the form promises for every product, every list a row button will  *)
(* not clear, every number of runs and every late request: customers never  *)
(* see a product that is to stay hidden, VERIFIED is said of a product that  *)
(* was whole as it was read, and what is stored is the old menu or the      *)
(* planned one.                                                            *)
(*                                                                         *)
(* None of the three is inductive.  All rest on what is in the form while   *)
(* its lists are set one by one (FilledSoFar), on what every submitted form *)
(* and so every late one carries (Ready), and on the status being read from *)
(* the list before the rest of the product and compared later still         *)
(* (StatusStillTrue, ReadIsOldOrPlanned).                                   *)
(***************************************************************************)
EXTENDS ProductForm, SequenceTheorems, WellFoundedInduction, TLAPS

InForm   == {"trim", "detach", "fill", "boxes", "active"}
ListsSet == {"boxes", "active"}

\* What a submitted form carries, whoever submits it.
Ready(f) ==
  /\ f.text = PlannedText /\ f.price = WholeKroner(payload.price)
  /\ f.shown = ~payload.hidden
  /\ f.rows \in RowLists
  /\ \A l \in Priced : NonBlank(f.rows[l]) = NonBlank(PlannedRows(l))

Typed ==
  /\ kind \in Kinds /\ payload \in Payloads
  /\ list \in 1 .. 3
  /\ row.hidden \in BOOLEAN /\ row.rows \in RowLists
  /\ form = [shown |-> form.shown, text |-> form.text, price |-> form.price,
             cats |-> form.cats, rows |-> form.rows]
  /\ form.rows \in RowLists /\ form.shown \in BOOLEAN

\* While the lists are set: text and price are filled, and so are the lists
\* that come before the current one.
FilledSoFar ==
  pc \in InForm =>
    /\ form.text = PlannedText /\ form.price = WholeKroner(payload.price)
    /\ \A i \in 1 .. 3 : (i < list \/ pc \in ListsSet) /\ Lists[i] \in Priced =>
         NonBlank(form.rows[Lists[i]]) = NonBlank(PlannedRows(Lists[i]))

\* A status that was read from the list is still that of the product when it
\* is the planned one: no late form changes it to anything else.
StatusStillTrue ==
  pc \in {"read", "compare"} /\ listed = payload.hidden => row.hidden = payload.hidden

\* What was read from the edit page is still there, or a late form was stored.
ReadIsOldOrPlanned ==
  pc = "compare" => cached \in {row, NoRow} \/ Planned(row)

FormInv ==
  /\ Typed /\ FilledSoFar /\ StatusStillTrue /\ ReadIsOldOrPlanned /\ OldOrPlanned
  /\ pc = "submit" => Ready(form)
  /\ \A f \in late : Ready(f)

-----------------------------------------------------------------------------
(* Rows with a name *)

\* Induction, as the absence of a smallest counterexample.
LEMMA SmallestOf ==
  ASSUME NEW T \in SUBSET Nat, T # {}
  PROVE  \E n \in T : \A m \in T : n <= m
<1>1. IsWellFoundedOn(OpToRel(<, Nat), Nat)
  BY NatLessThanWellFounded
<1>2. PICK n \in T : \A m \in T : <<m, n>> \notin OpToRel(<, Nat)
  BY <1>1, WFMin
<1>3. \A m \in T : ~(m < n)
  BY <1>2 DEF OpToRel
<1> QED BY <1>3

\* f collects the rows with a name among the first n of s.
Kept(s, n, f) ==
  f = [i \in 0 .. n |->
        IF i = 0 THEN << >>
        ELSE IF s[i].name # Blank THEN Append(f[i - 1], s[i]) ELSE f[i - 1]]

LEMMA KeptExists ==
  ASSUME NEW s, NEW n \in Nat
  PROVE  \E f : Kept(s, n, f)
<1> DEFINE Bad == {k \in Nat : ~\E f : Kept(s, k, f)}
<1> SUFFICES ASSUME Bad # {} PROVE FALSE
  OBVIOUS
<1>1. PICK k \in Bad : \A m \in Bad : k <= m
  <2>1. Bad \in SUBSET Nat
    OBVIOUS
  <2> HIDE DEF Bad
  <2> QED BY <2>1, SmallestOf
<1>2. k # 0
  <2>1. Kept(s, 0, [i \in 0 .. 0 |-> << >>])
    BY DEF Kept
  <2> QED BY <2>1
<1>3. PICK f : Kept(s, k - 1, f)
  <2>1. k - 1 \in Nat /\ k - 1 \notin Bad
    BY <1>1, <1>2
  <2> QED BY <2>1
<1> DEFINE next == IF s[k].name # Blank THEN Append(f[k - 1], s[k]) ELSE f[k - 1]
           g == [i \in 0 .. k |-> IF i < k THEN f[i] ELSE next]
<1>4. \A i \in 0 .. k :
        g[i] = IF i = 0 THEN << >>
               ELSE IF s[i].name # Blank THEN Append(g[i - 1], s[i]) ELSE g[i - 1]
  <2>1. k \in Nat /\ \A i \in 0 .. k - 1 : g[i] = f[i]
    OBVIOUS
  <2>2. \A i \in 0 .. k - 1 : f[i] = IF i = 0 THEN << >>
          ELSE IF s[i].name # Blank THEN Append(f[i - 1], s[i]) ELSE f[i - 1]
    BY <1>3 DEF Kept
  <2>3. \A i \in 1 .. k : g[i - 1] = f[i - 1] /\ i - 1 \in 0 .. k - 1
    BY <2>1
  <2>4. g[k] = next
    BY <2>1
  <2> HIDE DEF g
  <2> QED BY <1>2, <2>1, <2>2, <2>3, <2>4
<1>5. g = [i \in 0 .. k |-> g[i]]
  OBVIOUS
<1>6. Kept(s, k, g)
  <2> HIDE DEF g
  <2> QED BY <1>4, <1>5 DEF Kept
<1> QED BY <1>6

LEMMA NonBlankIsKept ==
  ASSUME NEW S, NEW s \in Seq(S)
  PROVE  \E f : /\ NonBlank(s) = f[Len(s)] /\ f[0] = << >>
                /\ \A i \in 1 .. Len(s) : f[i] =
                     IF s[i].name # Blank THEN Append(f[i - 1], s[i]) ELSE f[i - 1]
<1> DEFINE f == CHOOSE h : Kept(s, Len(s), h)
<1>1. Kept(s, Len(s), f)
  BY KeptExists
<1>2. NonBlank(s) = f[Len(s)]
  BY DEF NonBlank, Kept
<1>3. Len(s) \in Nat
  OBVIOUS
<1> HIDE DEF f
<1>4. /\ f[0] = << >>
      /\ \A i \in 1 .. Len(s) : f[i] =
           IF s[i].name # Blank THEN Append(f[i - 1], s[i]) ELSE f[i - 1]
  <2>1. \A i \in 0 .. Len(s) : f[i] = IF i = 0 THEN << >>
          ELSE IF s[i].name # Blank THEN Append(f[i - 1], s[i]) ELSE f[i - 1]
    BY <1>1 DEF Kept
  <2>2. 0 \in 0 .. Len(s) /\ \A i \in 1 .. Len(s) : i \in 0 .. Len(s) /\ i # 0
    BY <1>3
  <2> QED BY <2>1, <2>2
<1> QED BY <1>2, <1>4

\* The rows that are left are rows of the list, and all have a name.
LEMMA NonBlankNamed ==
  ASSUME NEW S, NEW s \in Seq(S)
  PROVE  /\ NonBlank(s) \in Seq(S)
         /\ \A i \in 1 .. Len(NonBlank(s)) : NonBlank(s)[i].name # Blank
<1>1. PICK f : /\ NonBlank(s) = f[Len(s)] /\ f[0] = << >>
               /\ \A i \in 1 .. Len(s) : f[i] =
                    IF s[i].name # Blank THEN Append(f[i - 1], s[i]) ELSE f[i - 1]
  BY NonBlankIsKept
<1> DEFINE Good(q) == q \in Seq(S) /\ \A i \in 1 .. Len(q) : q[i].name # Blank
           Bad     == {i \in 0 .. Len(s) : ~Good(f[i])}
<1>2. Bad = {}
  <2> SUFFICES ASSUME Bad # {} PROVE FALSE
    OBVIOUS
  <2>1. Bad \in SUBSET Nat
    OBVIOUS
  <2>2. PICK k \in Bad : \A m \in Bad : k <= m
    <3> HIDE DEF Bad
    <3> QED BY <2>1, SmallestOf
  <2>3. Good(f[0])
    BY <1>1
  <2>4. k \in 1 .. Len(s) /\ k - 1 \in 0 .. Len(s) /\ ~Good(f[k])
    BY <2>2, <2>3
  <2>5. Good(f[k - 1])
    BY <2>2, <2>4
  <2>6. s[k] \in S
    BY <2>4
  <2>7. CASE s[k].name # Blank
    <3>1. f[k] = Append(f[k - 1], s[k])
      BY <1>1, <2>4, <2>7
    <3>2. /\ f[k] \in Seq(S) /\ Len(f[k]) = Len(f[k - 1]) + 1
          /\ \A i \in 1 .. Len(f[k - 1]) : f[k][i] = f[k - 1][i]
          /\ f[k][Len(f[k - 1]) + 1] = s[k]
      BY <2>5, <2>6, <3>1, AppendProperties
    <3>3. Len(f[k - 1]) \in Nat /\ Len(f[k]) = Len(f[k - 1]) + 1
      BY <2>5, <3>2
    <3>4. ASSUME NEW i \in 1 .. Len(f[k]) PROVE f[k][i].name # Blank
      <4>1. i \in 1 .. Len(f[k - 1]) \/ i = Len(f[k - 1]) + 1
        BY <3>3
      <4> QED BY <2>5, <2>7, <3>2, <4>1
    <3> QED BY <2>4, <3>2, <3>4
  <2>8. CASE s[k].name = Blank
    BY <1>1, <2>4, <2>5, <2>8
  <2> QED BY <2>7, <2>8
<1>3. Len(s) \in 0 .. Len(s)
  OBVIOUS
<1> QED BY <1>1, <1>2, <1>3

\* Blank rows at the end are as good as none, and naming is enough to be left.
LEMMA NonBlankPrefix ==
  ASSUME NEW S, NEW s \in Seq(S), NEW n \in 0 .. Len(s),
         \A i \in n + 1 .. Len(s) : s[i].name = Blank
  PROVE  NonBlank(s) = NonBlank(SubSeq(s, 1, n))
<1> DEFINE t == SubSeq(s, 1, n)
<1>1. /\ t \in Seq(S) /\ Len(t) = n
      /\ \A i \in 1 .. n : t[i] = s[i]
  OBVIOUS
<1>2. PICK f : /\ NonBlank(s) = f[Len(s)] /\ f[0] = << >>
               /\ \A i \in 1 .. Len(s) : f[i] =
                    IF s[i].name # Blank THEN Append(f[i - 1], s[i]) ELSE f[i - 1]
  BY NonBlankIsKept
<1> HIDE DEF t
<1>3. PICK g : /\ NonBlank(t) = g[Len(t)] /\ g[0] = << >>
               /\ \A i \in 1 .. Len(t) : g[i] =
                    IF t[i].name # Blank THEN Append(g[i - 1], t[i]) ELSE g[i - 1]
  BY <1>1, NonBlankIsKept
<1> DEFINE Bad == {i \in 0 .. Len(s) : f[i] # g[IF i <= n THEN i ELSE n]}
<1>4. Bad = {}
  <2> SUFFICES ASSUME Bad # {} PROVE FALSE
    OBVIOUS
  <2>1. Bad \in SUBSET Nat
    OBVIOUS
  <2>2. PICK k \in Bad : \A m \in Bad : k <= m
    <3> HIDE DEF Bad
    <3> QED BY <2>1, SmallestOf
  <2>3. 0 \notin Bad
    BY <1>2, <1>3
  <2>4. k \in 1 .. Len(s) /\ k - 1 \in 0 .. Len(s)
    BY <2>2, <2>3
  <2>5. f[k - 1] = g[IF k - 1 <= n THEN k - 1 ELSE n]
    BY <2>2, <2>4
  <2>6. CASE k <= n
    <3>1. f[k - 1] = g[k - 1] /\ t[k] = s[k] /\ k \in 1 .. Len(t)
      BY <1>1, <2>4, <2>5, <2>6
    <3>2. f[k] = g[k]
      BY <1>2, <1>3, <2>4, <3>1
    <3> QED BY <2>2, <2>6, <3>2
  <2>7. CASE k > n
    <3>1. f[k - 1] = g[n]
      BY <2>4, <2>5, <2>7
    <3>2. s[k].name = Blank
      BY <2>4, <2>7
    <3>3. f[k] = g[n]
      BY <1>2, <2>4, <3>1, <3>2
    <3> QED BY <2>2, <2>7, <3>3
  <2> QED BY <2>4, <2>6, <2>7
<1>5. Len(s) \in 0 .. Len(s) /\ (Len(s) <= n => Len(s) = n)
  OBVIOUS
<1> QED BY <1>1, <1>2, <1>3, <1>4, <1>5 DEF t

\* A list whose rows all have a name is left as it is.
LEMMA NonBlankOfNamed ==
  ASSUME NEW S, NEW s \in Seq(S), \A i \in 1 .. Len(s) : s[i].name # Blank
  PROVE  NonBlank(s) = s
<1>1. PICK f : /\ NonBlank(s) = f[Len(s)] /\ f[0] = << >>
               /\ \A i \in 1 .. Len(s) : f[i] =
                    IF s[i].name # Blank THEN Append(f[i - 1], s[i]) ELSE f[i - 1]
  BY NonBlankIsKept
<1> DEFINE Bad == {i \in 0 .. Len(s) : f[i] # SubSeq(s, 1, i)}
<1>2. Bad = {}
  <2> SUFFICES ASSUME Bad # {} PROVE FALSE
    OBVIOUS
  <2>1. Bad \in SUBSET Nat
    OBVIOUS
  <2>2. PICK k \in Bad : \A m \in Bad : k <= m
    <3> HIDE DEF Bad
    <3> QED BY <2>1, SmallestOf
  <2>3. SubSeq(s, 1, 0) = << >>
    BY SubSeqEmpty
  <2>4. k # 0
    BY <1>1, <2>3
  <2>5. k \in 1 .. Len(s) /\ k - 1 \in 0 .. Len(s)
    BY <2>4
  <2>6. f[k - 1] = SubSeq(s, 1, k - 1)
    BY <2>2, <2>5
  <2>7. f[k] = Append(SubSeq(s, 1, k - 1), s[k])
    BY <1>1, <2>5, <2>6
  <2>8. SubSeq(s, 1, k) = Append(SubSeq(s, 1, k - 1), s[k])
    <3>1. SubSeq(s, 1, k - 1) \in Seq(S) /\ s[k] \in S
      BY <2>5
    <3>2. SubSeq(s, 1, k) = SubSeq(s, 1, k - 1) \o << s[k] >>
      BY <2>5, SubSeqRecursiveSecond
    <3> QED BY <3>1, <3>2, AppendIsConcat
  <2> QED BY <2>2, <2>7, <2>8
<1>3. Len(s) \in 0 .. Len(s) /\ SubSeq(s, 1, Len(s)) = s
  BY SubSeqFull
<1> QED BY <1>1, <1>2, <1>3

\* Dropping the rows without a name once is enough.
LEMMA NonBlankTwice ==
  ASSUME NEW S, NEW s \in Seq(S)
  PROVE  NonBlank(NonBlank(s)) = NonBlank(s)
BY NonBlankNamed, NonBlankOfNamed

-----------------------------------------------------------------------------
(* The lists *)

LEMMA ListNames ==
  /\ ToSet(Lists) = {"variants", "ingredients", "additions"}
  /\ DOMAIN Lists = 1 .. 3 /\ Len(Lists) = 3
  /\ Lists[1] = "variants" /\ Lists[2] = "ingredients" /\ Lists[3] = "additions"
  /\ Priced \subseteq ToSet(Lists) /\ "ingredients" \in ToSet(Lists)
  /\ "ingredients" \notin Priced
<1>1. DOMAIN Lists = 1 .. 3 /\ Len(Lists) = 3
  BY DEF Lists
<1> QED BY <1>1 DEF ToSet, Lists, Priced

LEMMA TableIsList ==
  ASSUME NEW S, NEW n \in Nat, NEW f \in [1 .. n -> S]
  PROVE  f \in Seq(S) /\ Len(f) = n
OBVIOUS

LEMMA FirstOfRows ==
  ASSUME NEW S, NEW s \in Seq(S), NEW n \in Nat
  PROVE  FirstOf(s, n) \in Seq(S) /\ Len(FirstOf(s, n)) <= Len(s)
         /\ \A i \in 1 .. Len(FirstOf(s, n)) : FirstOf(s, n)[i] = s[i]
BY DEF FirstOf

LEMMA PlannedAreRows ==
  ASSUME Typed, NEW l \in ToSet(Lists)
  PROVE  PlannedRows(l) \in Seq(Row)
<1>1. /\ payload.rows \in RowLists /\ payload.rows[l] \in Seq(Row)
      /\ Cap[kind][l] \in Nat
  BY FormConstants DEF Typed, RowLists
<1>2. CASE l = "ingredients"
  <2> DEFINE named == [i \in DOMAIN payload.rows[l] |->
                        [name |-> Gated[payload.rows[l][i].name], ore |-> 0]]
  <2>1. \A i \in DOMAIN payload.rows[l] : Gated[payload.rows[l][i].name] \in Names
    BY <1>2, FormConstants DEF Typed
  <2>2. named \in Seq(Row)
    <3>1. DOMAIN payload.rows[l] = 1 .. Len(payload.rows[l]) /\ Len(payload.rows[l]) \in Nat
      BY <1>1
    <3>2. \A i \in 1 .. Len(payload.rows[l]) : named[i] \in Row
      BY <2>1, <3>1 DEF Row
    <3>3. named \in [1 .. Len(payload.rows[l]) -> Row]
      BY <3>1, <3>2
    <3> HIDE DEF named
    <3> QED BY <3>1, <3>3, TableIsList
  <2> HIDE DEF named
  <2>3. NonBlank(named) \in Seq(Row)
    BY <2>2, NonBlankNamed
  <2>4. FirstOf(NonBlank(named), Cap[kind][l]) \in Seq(Row)
    BY <1>1, <2>3, FirstOfRows
  <2> QED BY <1>2, <2>4 DEF PlannedRows, named
<1>3. CASE l # "ingredients"
  <2> DEFINE cut == FirstOf(payload.rows[l], Cap[kind][l])
             cuts == [i \in DOMAIN cut |-> [name |-> Shortened["row"][cut[i].name],
                                            ore  |-> WholeKroner(cut[i].ore)]]
  <2>1. l \in Priced
    BY <1>3, ListNames DEF Priced
  <2>2. \A i \in DOMAIN payload.rows[l] :
          Shortened["row"][payload.rows[l][i].name] \in Names
    BY <2>1, FormConstants DEF Typed
  <2>3. /\ cut \in Seq(Row) /\ Len(cut) <= Len(payload.rows[l])
        /\ \A i \in 1 .. Len(cut) : cut[i] = payload.rows[l][i]
    BY <1>1, FirstOfRows
  <2> HIDE DEF cut
  <2>4. DOMAIN cut = 1 .. Len(cut) /\ Len(cut) \in Nat
        /\ DOMAIN payload.rows[l] = 1 .. Len(payload.rows[l]) /\ Len(payload.rows[l]) \in Nat
    BY <1>1, <2>3
  <2>5. \A i \in 1 .. Len(cut) : cut[i] \in Row
    BY <2>3, ElementOfSeq
  <2>6. \A i \in 1 .. Len(cut) : WholeKroner(cut[i].ore) \in Int
    BY <2>5 DEF Row, WholeKroner
  <2>7. \A i \in 1 .. Len(cut) : Shortened["row"][cut[i].name] \in Names
    BY <2>2, <2>3, <2>4
  <2>8. \A i \in 1 .. Len(cut) : cuts[i] \in Row
    BY <2>4, <2>6, <2>7 DEF Row
  <2>9. cuts \in Seq(Row)
    <3>1. cuts \in [1 .. Len(cut) -> Row]
      BY <2>4, <2>8
    <3> HIDE DEF cuts
    <3> QED BY <2>4, <3>1, TableIsList
  <2>10. << [name |-> "Alm.", ore |-> 0] >> \in Seq(Row)
    <3>1. [name |-> "Alm.", ore |-> 0] \in Row
      BY DEF Row, Names
    <3> QED BY <3>1
  <2> QED BY <1>3, <2>9, <2>10 DEF PlannedRows, cut
<1> QED BY <1>2, <1>3

\* After a list is filled its named rows are the planned ones, whatever was
\* left of the old list behind them.
LEMMA FilledIsPlanned ==
  ASSUME Typed, NEW l \in ToSet(Lists)
  PROVE  /\ PlannedRows(l) \o LeftOver(l) \in Seq(Row)
         /\ l \in Priced =>
              NonBlank(PlannedRows(l) \o LeftOver(l)) = NonBlank(PlannedRows(l))
<1> DEFINE p == PlannedRows(l)
           n == Len(p) + 1
           old == form.rows[l]
           src == IF l \in Priced THEN BlankFrom(l, n) ELSE old
           rest == SubSeq(src, n, Len(old))
           all == p \o rest
<1>1. p \in Seq(Row) /\ old \in Seq(Row)
  BY PlannedAreRows DEF Typed, RowLists
<1> HIDE DEF p
<1>2. /\ n \in Nat \ {0} /\ Len(old) \in Nat /\ Len(p) \in Nat
      /\ DOMAIN old = 1 .. Len(old)
  BY <1>1
<1>3. /\ \A i \in n .. Len(old) : src[i] \in Row
      /\ l \in Priced => \A i \in n .. Len(old) : src[i].name = Blank
  <2>1. CASE l \in Priced
    <3>1. \A i \in 1 .. Len(old) : n <= i => src[i] = [name |-> Blank, ore |-> 0]
      BY <1>2, <2>1 DEF BlankFrom
    <3>2. [name |-> Blank, ore |-> 0] \in Row
      BY DEF Row, Names
    <3>3. \A i \in n .. Len(old) : i \in 1 .. Len(old) /\ n <= i
      BY <1>2
    <3> HIDE DEF src
    <3> QED BY <3>1, <3>2, <3>3
  <2>2. CASE l \notin Priced
    BY <1>1, <1>2, <2>2
  <2> QED BY <2>1, <2>2
<1>4. rest = LeftOver(l)
  BY DEF LeftOver, p
<1> HIDE DEF src, old
<1>5. /\ rest \in Seq(Row)
      /\ Len(rest) = IF n <= Len(old) THEN Len(old) - n + 1 ELSE 0
      /\ \A i \in 1 .. Len(old) - n + 1 : rest[i] = src[n + i - 1]
  <2>1. n \in Int /\ Len(old) \in Int
    BY <1>2
  <2> QED BY <1>3, <2>1, SubSeqProperties
<1>6. l \in Priced => \A i \in 1 .. Len(rest) : rest[i].name = Blank
  BY <1>2, <1>3, <1>5
<1>51. Len(rest) \in Nat
  BY <1>5
<1> HIDE DEF rest
<1>7. /\ all \in Seq(Row) /\ Len(all) = Len(p) + Len(rest)
      /\ \A i \in 1 .. Len(p) : all[i] = p[i]
      /\ \A i \in Len(p) + 1 .. Len(all) : all[i] = rest[i - Len(p)]
                                           /\ i - Len(p) \in 1 .. Len(rest)
  <2>1. /\ all \in Seq(Row) /\ Len(all) = Len(p) + Len(rest)
        /\ \A i \in 1 .. Len(p) + Len(rest) :
             all[i] = IF i <= Len(p) THEN p[i] ELSE rest[i - Len(p)]
    BY <1>1, <1>5, ConcatProperties
  <2> HIDE DEF all
  <2> QED BY <1>2, <1>51, <2>1
<1>8. CASE l \in Priced
  <2> HIDE DEF all
  <2>1. Len(p) \in 0 .. Len(all)
    BY <1>2, <1>51, <1>7
  <2>2. \A i \in Len(p) + 1 .. Len(all) : all[i].name = Blank
    BY <1>6, <1>7, <1>8
  <2>3. NonBlank(all) = NonBlank(SubSeq(all, 1, Len(p)))
    BY <1>7, <2>1, <2>2, NonBlankPrefix
  <2>4. SubSeq(all, 1, Len(p)) = p
    BY <1>1, <1>2, <1>51, <1>7
  <2> QED BY <1>4, <1>7, <2>3, <2>4 DEF all, p
<1> QED BY <1>4, <1>7, <1>8 DEF p

-----------------------------------------------------------------------------
(* The invariant *)

LEMMA FormInitInv == Init => FormInv
<1> SUFFICES ASSUME Init PROVE FormInv
  OBVIOUS
<1>1. << >> \in Seq(Row)
  OBVIOUS
<1>2. NoRow.rows \in RowLists /\ NoRow.hidden = TRUE
  BY <1>1 DEF NoRow, RowLists
<1>3. row.hidden \in BOOLEAN /\ row.rows \in RowLists
  BY <1>2, FormConstants DEF Init
<1>4. form = NoForm /\ form.rows \in RowLists
  BY <1>2 DEF Init, NoForm
<1> QED BY <1>3, <1>4
  DEF Init, FormInv, Typed, NoForm, FilledSoFar, StatusStillTrue, ReadIsOldOrPlanned, OldOrPlanned, InForm

\* The plan of an operation is always the same.
LEMMA PlanStays ==
  ASSUME UNCHANGED <<kind, payload>>
  PROVE  /\ PlannedText' = PlannedText
         /\ \A l : PlannedRows(l)' = PlannedRows(l)
         /\ \A f : Ready(f)' <=> Ready(f)
<1>1. PlannedText' = PlannedText /\ \A l : PlannedRows(l)' = PlannedRows(l)
  BY DEF PlannedText, PlannedRows
<1>2. ASSUME NEW f PROVE Ready(f)' <=> Ready(f)
  BY <1>1 DEF Ready, RowLists, WholeKroner
<1> QED BY <1>1, <1>2

\* The status of the product, and whether it is the old or the planned one.
LEMMA RowKept ==
  ASSUME FormInv, UNCHANGED <<kind, payload, first, row>>
  PROVE  /\ OldOrPlanned' /\ payload' \in Payloads /\ kind' \in Kinds
         /\ row'.hidden \in BOOLEAN /\ row'.rows \in RowLists
<1>1. Planned(row)' <=> Planned(row)
  BY PlanStays DEF Planned
<1> QED BY <1>1 DEF FormInv, OldOrPlanned, Typed

\* What a ready form makes of the product is the planned product.
LEMMA StoresPlanned ==
  ASSUME FormInv, NEW f, Ready(f), NEW keeps \in BOOLEAN,
         UNCHANGED <<kind, payload, first>>, row' = Stores(f, keeps)
  PROVE  /\ OldOrPlanned' /\ payload' \in Payloads /\ kind' \in Kinds
         /\ row'.hidden \in BOOLEAN /\ row'.rows \in RowLists
         /\ row'.hidden \in {row.hidden, payload.hidden}
         /\ row' = row \/ Planned(row)'
<1>1. CASE kind = "CREATE" /\ row # NoRow
  BY <1>1, RowKept DEF Stores, FormInv, Typed
<1>2. CASE ~(kind = "CREATE" /\ row # NoRow)
  <2> DEFINE kept(l) == IF keeps THEN f.rows[l] ELSE NonBlank(f.rows[l])
  <2>1. row' = [hidden |-> ~f.shown, text |-> f.text, price |-> f.price,
                cats |-> f.cats, rows |-> [l \in ToSet(Lists) |-> kept(l)]]
    BY <1>2 DEF Stores
  <2>2. payload.hidden \in BOOLEAN /\ row'.hidden = payload.hidden
    <3>1. payload.hidden \in BOOLEAN
      BY FormConstants DEF FormInv, Typed
    <3>2. row'.hidden = ~f.shown
      BY <2>1
    <3>3. f.shown = ~payload.hidden
      BY DEF Ready
    <3> QED BY <3>1, <3>2, <3>3
  <2>3. ASSUME NEW l \in ToSet(Lists)
        PROVE  kept(l) \in Seq(Row) /\ NonBlank(kept(l)) = NonBlank(f.rows[l])
    <3>1. f.rows[l] \in Seq(Row)
      BY DEF Ready, RowLists
    <3> QED BY <3>1, NonBlankNamed, NonBlankTwice
  <2>4. row'.rows \in RowLists
    BY <2>1, <2>3 DEF RowLists
  <2>5. \A l \in Priced : NonBlank(row'.rows[l]) = NonBlank(PlannedRows(l))
    BY <2>1, <2>3, ListNames DEF Ready
  <2>6. Planned(row)'
    BY <2>1, <2>2, <2>5, PlanStays DEF Planned, Ready, WholeKroner
  <2> QED BY <2>2, <2>4, <2>6 DEF OldOrPlanned, FormInv, Typed
<1> QED BY <1>1, <1>2

\* The empty form has no rows.
LEMMA NoFormTyped ==
  /\ NoForm = [shown |-> NoForm.shown, text |-> NoForm.text, price |-> NoForm.price,
               cats |-> NoForm.cats, rows |-> NoForm.rows]
  /\ NoForm.rows \in RowLists /\ NoForm.shown \in BOOLEAN
<1>1. << >> \in Seq(Row)
  OBVIOUS
<1> QED BY <1>1 DEF NoForm, NoRow, RowLists

\* Setting one list leaves the rest of the form as it was.
LEMMA ListSet ==
  ASSUME Typed, NEW l \in ToSet(Lists), NEW s \in Seq(Row), ListBecomes(l, s)
  PROVE  /\ form' = [shown |-> form'.shown, text |-> form'.text, price |-> form'.price,
                     cats |-> form'.cats, rows |-> form'.rows]
         /\ form'.rows \in RowLists /\ form'.shown \in BOOLEAN
         /\ form'.text = form.text /\ form'.price = form.price
         /\ form'.rows[l] = s
         /\ \A k \in ToSet(Lists) : k # l => form'.rows[k] = form.rows[k]
<1> DEFINE rs == [form.rows EXCEPT ![l] = s]
<1>1. form' = [shown |-> form.shown, text |-> form.text, price |-> form.price,
               cats |-> form.cats, rows |-> rs]
  BY DEF ListBecomes, Typed
<1>2. /\ rs \in RowLists /\ rs[l] = s
      /\ \A k \in ToSet(Lists) : k # l => rs[k] = form.rows[k]
  BY DEF Typed, RowLists
<1> HIDE DEF rs
<1> QED BY <1>1, <1>2 DEF Typed

\* A new state of the list being set leaves the lists before it as they are.
LEMMA EarlierListsKept ==
  ASSUME FormInv, pc \in {"trim", "detach", "fill"}, NEW s \in Seq(Row),
         ListBecomes(Lists[list], s) \/ UNCHANGED form,
         pc' \in {"trim", "detach", "fill"},
         UNCHANGED <<kind, payload, first, row, late, list, listed, cached>>
  PROVE  FormInv'
<1>1. Lists[list] \in ToSet(Lists)
  BY DEF FormInv, Typed, ToSet, Lists
<1>2. /\ form' = [shown |-> form'.shown, text |-> form'.text, price |-> form'.price,
                  cats |-> form'.cats, rows |-> form'.rows]
      /\ form'.rows \in RowLists /\ form'.shown \in BOOLEAN
      /\ form'.text = form.text /\ form'.price = form.price
      /\ \A k \in ToSet(Lists) : k # Lists[list] => form'.rows[k] = form.rows[k]
  BY <1>1, ListSet DEF FormInv, Typed
<1>3. FilledSoFar'
  <2>1. ASSUME NEW i \in 1 .. 3, i < list, Lists[i] \in Priced
        PROVE  NonBlank(form'.rows[Lists[i]]) = NonBlank(PlannedRows(Lists[i]))
    <3>1. Lists[i] # Lists[list] /\ Lists[i] \in ToSet(Lists)
      BY <2>1, ListNames DEF FormInv, Typed
    <3> QED BY <1>2, <2>1, <3>1 DEF FormInv, FilledSoFar, InForm
  <2> QED BY <1>2, <2>1, PlanStays
    DEF FormInv, FilledSoFar, InForm, ListsSet, WholeKroner
<1> QED BY <1>2, <1>3, RowKept, PlanStays DEF FormInv, Typed, StatusStillTrue, ReadIsOldOrPlanned

\* A step that touches neither product nor form, nor comes to either of them.
LEMMA NothingTouched ==
  ASSUME FormInv, UNCHANGED <<kind, payload, first, row, late>>,
         form' = form \/ form' = NoForm, list' \in {list, 1},
         pc' \notin InForm \cup {"submit", "read", "compare"}
  PROVE  FormInv'
BY RowKept, PlanStays, NoFormTyped
DEF FormInv, Typed, FilledSoFar, StatusStillTrue, ReadIsOldOrPlanned

LEMMA FormStepInv == FormInv /\ [Next]_vars => FormInv'
<1> SUFFICES ASSUME FormInv, [Next]_vars PROVE FormInv'
  OBVIOUS
<1>1. CASE Start
  BY <1>1, NothingTouched DEF Start, Fails, InForm
<1>2. CASE Open
  <2>1. PICK box \in BOOLEAN, ticked \in {{}, Categories} :
          form' = [shown |-> box, text |-> PlannedText,
                   price |-> WholeKroner(payload.price),
                   cats  |-> IF kind = "UPDATE" THEN row.cats ELSE ticked,
                   rows  |-> IF kind = "UPDATE" THEN row.rows
                             ELSE [NoRow.rows EXCEPT !["variants"] =
                                     << [name |-> Blank, ore |-> 0] >>]]
    BY <1>2 DEF Open
  <2>2. [NoRow.rows EXCEPT !["variants"] = << [name |-> Blank, ore |-> 0] >>] \in RowLists
    <3>1. [name |-> Blank, ore |-> 0] \in Row
      BY DEF Row, Names
    <3>2. << [name |-> Blank, ore |-> 0] >> \in Seq(Row) /\ << >> \in Seq(Row)
      BY <3>1
    <3>3. NoRow.rows \in RowLists
      BY <3>2 DEF NoRow, RowLists
    <3> QED BY <3>2, <3>3 DEF RowLists
  <2>3. form'.rows \in RowLists
    BY <2>1, <2>2 DEF FormInv, Typed
  <2>4. FilledSoFar'
    BY <1>2, <2>1, PlanStays DEF Open, FilledSoFar, InForm, ListsSet, WholeKroner
  <2> QED BY <1>2, <2>1, <2>3, <2>4, RowKept, PlanStays
    DEF Open, FormInv, Typed, StatusStillTrue, ReadIsOldOrPlanned
<1>3. CASE ClickRemove
  BY <1>3, EarlierListsKept, EmptySeq DEF ClickRemove, Goes
<1>4. CASE RowGoes
  <2>1. form.rows[Lists[list]] \in Seq(Row)
    BY ListNames DEF FormInv, Typed, RowLists
  <2>2. Front(form.rows[Lists[list]]) \in Seq(Row)
    BY <2>1 DEF Front
  <2> QED BY <1>4, <2>2, EarlierListsKept DEF RowGoes
<1>5. CASE RowStays
  <2> DEFINE old == form.rows[Lists[list]]
             new == BlankFrom(Lists[list], Len(old))
  <2>1. old \in Seq(Row)
    BY ListNames DEF FormInv, Typed, RowLists
  <2>2. new \in Seq(Row)
    <3>1. [name |-> Blank, ore |-> 0] \in Row
      BY DEF Row, Names
    <3>2. new \in [1 .. Len(old) -> Row]
      BY <2>1, <3>1 DEF BlankFrom
    <3> QED BY <2>1, <3>2, TableIsList
  <2> QED BY <1>5, <2>2, EarlierListsKept DEF RowStays
<1>6. CASE Trimmed
  BY <1>6, EarlierListsKept, EmptySeq DEF Trimmed, Goes
<1>7. CASE FillList
  <2> DEFINE l == Lists[list]
             s == PlannedRows(l) \o LeftOver(l)
  <2>1. l \in ToSet(Lists) /\ list \in 1 .. 3
    BY ListNames DEF FormInv, Typed
  <2>2. /\ s \in Seq(Row) /\ ListBecomes(l, s)
        /\ l \in Priced => NonBlank(s) = NonBlank(PlannedRows(l))
    BY <1>7, <2>1, FilledIsPlanned DEF FillList, FormInv
  <2> HIDE DEF s
  <2>3. /\ form' = [shown |-> form'.shown, text |-> form'.text, price |-> form'.price,
                    cats |-> form'.cats, rows |-> form'.rows]
        /\ form'.rows \in RowLists /\ form'.shown \in BOOLEAN
        /\ form'.text = form.text /\ form'.price = form.price
        /\ form'.rows[l] = s
        /\ \A k \in ToSet(Lists) : k # l => form'.rows[k] = form.rows[k]
    BY <2>1, <2>2, ListSet DEF FormInv
  <2>4. ASSUME NEW i \in 1 .. 3, i <= list, Lists[i] \in Priced
        PROVE  NonBlank(form'.rows[Lists[i]]) = NonBlank(PlannedRows(Lists[i]))
    <3>1. CASE i = list
      BY <2>2, <2>3, <2>4, <3>1
    <3>2. CASE i < list
      <4>1. Lists[i] # l /\ Lists[i] \in ToSet(Lists)
        BY <2>1, <3>2, ListNames
      <4> QED BY <1>7, <2>3, <2>4, <3>2, <4>1
        DEF FillList, FormInv, FilledSoFar, InForm
    <3> QED BY <2>1, <2>4, <3>1, <3>2
  <2>5. \/ pc' = "boxes" /\ list' = 3 /\ list = 3
        \/ pc' = "trim" /\ list' = list + 1 /\ list < 3
    BY <1>7, <2>1, ListNames DEF FillList
  <2>6. FilledSoFar'
    <3>1. UNCHANGED <<kind, payload>>
      BY <1>7 DEF FillList
    <3>2. form'.text = PlannedText /\ form'.price = WholeKroner(payload.price)
      BY <1>7, <2>3 DEF FillList, FormInv, FilledSoFar, InForm
    <3>3. ASSUME NEW i \in 1 .. 3, i < list' \/ pc' \in ListsSet, Lists[i] \in Priced
          PROVE  NonBlank(form'.rows[Lists[i]]) = NonBlank(PlannedRows(Lists[i]))
      <4>1. i <= list
        BY <2>1, <2>5, <3>3 DEF ListsSet
      <4> QED BY <2>4, <3>3, <4>1
    <3> QED BY <3>1, <3>2, <3>3, PlanStays DEF FilledSoFar, WholeKroner
  <2>7. list' \in 1 .. 3
    BY <2>1, <2>5
  <2> QED BY <1>7, <2>3, <2>5, <2>6, <2>7, RowKept, PlanStays
    DEF FillList, FormInv, Typed, StatusStillTrue, ReadIsOldOrPlanned
<1>8. CASE TickCategories
  <2>1. /\ form' = [shown |-> form.shown, text |-> form.text, price |-> form.price,
                    cats |-> form'.cats, rows |-> form.rows]
        /\ pc = "boxes" /\ pc' = "active"
    BY <1>8 DEF TickCategories, FormInv, Typed
  <2>2. FilledSoFar'
    BY <1>8, <2>1, PlanStays
    DEF TickCategories, FormInv, FilledSoFar, InForm, ListsSet, WholeKroner
  <2> QED BY <1>8, <2>1, <2>2, RowKept, PlanStays
    DEF TickCategories, FormInv, Typed, StatusStillTrue, ReadIsOldOrPlanned
<1>9. CASE SetActive
  <2>1. /\ form' = [shown |-> ~payload.hidden, text |-> form.text, price |-> form.price,
                    cats |-> form.cats, rows |-> form.rows]
        /\ pc = "active" /\ pc' = "submit"
    BY <1>9 DEF SetActive, Aktiv, FormInv, Typed
  <2>2. \A l \in Priced : \E i \in 1 .. 3 : l = Lists[i]
    BY ListNames DEF Priced
  <2>3. Ready(form')
    BY <2>1, <2>2
    DEF FormInv, Typed, FilledSoFar, InForm, ListsSet, Ready
  <2>4. Ready(form)' /\ \A f \in late : Ready(f)'
    BY <1>9, <2>3, PlanStays DEF SetActive, FormInv
  <2>5. form'.shown \in BOOLEAN
    BY <2>1, FormConstants DEF FormInv, Typed
  <2> QED BY <1>9, <2>1, <2>4, <2>5, RowKept
    DEF SetActive, FormInv, Typed, FilledSoFar, InForm, StatusStillTrue, ReadIsOldOrPlanned
<1>10. CASE FailsBefore
  BY <1>10, NothingTouched DEF FailsBefore, Fails, LeavesPage, InForm
<1>11. CASE Click
  <2>1. /\ Ready(form) /\ form' = NoForm /\ list' = 1
        /\ pc' \in {"idle", "list", "find"}
        /\ UNCHANGED <<kind, payload, first>>
        /\ \/ \E keeps \in BOOLEAN : row' = Stores(form, keeps)
           \/ UNCHANGED row
        /\ late' \subseteq late \cup {form}
    BY <1>11 DEF Click, LeavesPage, Fails, FormInv
  <2>2. /\ OldOrPlanned' /\ payload' \in Payloads /\ kind' \in Kinds
        /\ row'.hidden \in BOOLEAN /\ row'.rows \in RowLists
    BY <2>1, StoresPlanned, RowKept
  <2>3. \A f \in late' : Ready(f)'
    BY <2>1, PlanStays DEF FormInv
  <2> QED BY <2>1, <2>2, <2>3, NoFormTyped
    DEF FormInv, Typed, FilledSoFar, InForm, StatusStillTrue, ReadIsOldOrPlanned
<1>12. CASE FindCreated
  BY <1>12, NothingTouched DEF FindCreated, Fails, InForm
<1>13. CASE Land
  <2>1. PICK f \in late, keeps \in BOOLEAN :
          row' = Stores(f, keeps) /\ late' = late \ {f}
    BY <1>13 DEF Land
  <2>2. UNCHANGED <<kind, payload, first, pc, list, form, listed, cached>>
    BY <1>13 DEF Land
  <2>3. /\ OldOrPlanned' /\ payload' \in Payloads /\ kind' \in Kinds
        /\ row'.hidden \in BOOLEAN /\ row'.rows \in RowLists
        /\ row'.hidden \in {row.hidden, payload.hidden}
        /\ row' = row \/ Planned(row)'
    BY <2>1, <2>2, StoresPlanned DEF FormInv
  <2>4. FilledSoFar' /\ (pc' = "submit" => Ready(form)') /\ \A g \in late' : Ready(g)'
    BY <2>1, <2>2, PlanStays DEF FormInv, FilledSoFar, WholeKroner
  <2>5. StatusStillTrue'
    BY <2>2, <2>3 DEF FormInv, StatusStillTrue
  <2>6. ReadIsOldOrPlanned'
    BY <2>2, <2>3, RowKept, PlanStays DEF FormInv, ReadIsOldOrPlanned, Planned
  <2> QED BY <2>2, <2>3, <2>4, <2>5, <2>6 DEF FormInv, Typed
<1>14. CASE ReadList
  BY <1>14, RowKept, PlanStays
  DEF ReadList, FormInv, Typed, FilledSoFar, InForm, StatusStillTrue, ReadIsOldOrPlanned
<1>15. CASE ReadForm
  BY <1>15, RowKept, PlanStays
  DEF ReadForm, FormInv, Typed, FilledSoFar, InForm, StatusStillTrue, ReadIsOldOrPlanned
<1>18. CASE Compare
  BY <1>18, NothingTouched DEF Compare, InForm
<1>16. CASE Stop
  BY <1>16, NothingTouched DEF Stop, LeavesPage, InForm
<1>17. CASE UNCHANGED vars
  BY <1>17, RowKept, PlanStays
  DEF vars, FormInv, Typed, FilledSoFar, StatusStillTrue, ReadIsOldOrPlanned,
      Planned, WholeKroner
<1> QED BY <1>1, <1>2, <1>3, <1>4, <1>5, <1>6, <1>7, <1>8, <1>9, <1>10, <1>11,
           <1>12, <1>13, <1>14, <1>15, <1>16, <1>17, <1>18 DEF Next, Handler

LEMMA FormInvariant == Spec => []FormInv
BY FormInitInv, FormStepInv, PTL DEF Spec

-----------------------------------------------------------------------------
(* The promises *)

\* Whenever its requests are stored, text, price, visibility, variants and
\* additions of the product are all as they were or all as the port plans them
\* (trimThenFillNamedPriceRows).
THEOREM ProductIsOldOrPlanned == Spec => []OldOrPlanned
BY FormInvariant, PTL DEF FormInv

\* No request, late or not, shows a product that is to stay hidden
\* (setActiveCheckbox).
THEOREM HiddenStaysHidden == Spec => NeverShown
<1>1. FormInv /\ [Next]_vars => (payload.hidden /\ row.hidden => row'.hidden)
  <2> SUFFICES ASSUME FormInv, [Next]_vars, payload.hidden, row.hidden
               PROVE  row'.hidden
    OBVIOUS
  <2>1. CASE Click
    <3>1. /\ Ready(form) /\ UNCHANGED <<kind, payload, first>>
          /\ \/ \E keeps \in BOOLEAN : row' = Stores(form, keeps)
             \/ UNCHANGED row
      BY <2>1 DEF Click, FormInv
    <3> QED BY <3>1, StoresPlanned
  <2>2. CASE Land
    BY <2>2, StoresPlanned DEF Land, FormInv
  <2>3. CASE UNCHANGED row
    BY <2>3
  <2> QED BY <2>1, <2>2, <2>3
    DEF Next, Handler, Start, Open, ClickRemove, RowGoes, RowStays, Trimmed, Goes,
        FillList, TickCategories, SetActive, FailsBefore, FindCreated, ReadList,
        ReadForm, Compare, Stop, vars
<1> QED BY <1>1, FormInvariant, PTL DEF Spec, NeverShown

\* A record becomes VERIFIED only when the product carried all that was planned
\* as it was read, and what is stored by then is that or what a late request of
\* the operation made of it: never another status, and never the old menu
\* (refreshCatalogFromList, processUpdateOp, verifyProductFields).
THEOREM VerifiedIsWhole == Spec => VerifiedWasWhole
<1>1. FormInv /\ [Next]_vars =>
        (verdict' = "VERIFIED" /\ verdict # "VERIFIED" =>
           /\ SameFields(payload, cached)
           /\ row = cached \/ Planned(row)
           /\ row.hidden = payload.hidden)
  <2> SUFFICES ASSUME FormInv, [Next]_vars, verdict' = "VERIFIED", verdict # "VERIFIED"
               PROVE  /\ SameFields(payload, cached)
                      /\ row = cached \/ Planned(row)
                      /\ row.hidden = payload.hidden
    OBVIOUS
  <2>1. Compare
    BY DEF Next, Handler, Start, Open, ClickRemove, RowGoes, RowStays, Trimmed, Goes,
        FillList, TickCategories, SetActive, FailsBefore, FindCreated, ReadList,
        ReadForm, Click, Land, Stop, Fails, vars
  <2>2. pc = "compare" /\ SameFields(payload, cached) /\ payload.hidden = listed
    BY <2>1 DEF Compare, Verifies
  <2>3. cached # NoRow
    BY <2>2, FormConstants DEF SameFields, NoRow, FormInv, Typed
  <2> QED BY <2>2, <2>3 DEF FormInv, StatusStillTrue, ReadIsOldOrPlanned
<1> QED BY <1>1, FormInvariant, PTL DEF Spec, VerifiedWasWhole
=============================================================================
