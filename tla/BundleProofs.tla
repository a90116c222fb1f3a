----------------------------- MODULE BundleProofs -----------------------------
(***************************************************************************)
(* What an approval binds, for any number of jobs, menus, edits of the      *)
(* destination and redeployments: nothing is written on ground the plan did *)
(* not know, nor from a plan that was made without looking, and the premises*)
(* of a plan hold when its writing begins.                                  *)
(*                                                                         *)
(* KnownGround is inductive only with the write lock: it is the holder      *)
(* alone that writes (LockHeld).  OfflineNeverWrites needs that a bundle is *)
(* never made anew once its job has written (Authors).  PremisesHold needs  *)
(* that the operations of a bundle are the plan of its own snapshot         *)
(* (Frozen).                                                                *)
(***************************************************************************)
EXTENDS ExecutionBundle, SequenceTheorems, TLAPS

\* Products and categories have names of their own kind.
WellNamed ==
  /\ \A i \in DOMAIN rows : rows[i].name \in Names(rows[i].kind)
  /\ \A j \in Jobs : \A e \in bundle[j].operations \cup todo[j] : e.name \in Names(e.kind)

LockHeld == \A j \in Jobs : at[j] \in Live => lock = j

Frozen == \A j \in Jobs : at[j] \in Live \cup {"awaiting"} =>
            bundle[j].operations = PlanOf(j, bundle[j].snapshot)

LiveIsKnown == \A j \in Jobs : at[j] \in Live => bundle[j].status = "LIVE_COMPLETE"

\* Who has written something is past planning for good.
Authors == \A j \in Jobs, i \in DOMAIN rows :
             rows[i].by = j => at[j] \in {"writing", "done", "failed"}

BundleInv ==
  /\ BundleTypeOK /\ WellNamed /\ LockHeld /\ Frozen /\ LiveIsKnown /\ Authors
  /\ KnownGround /\ OfflineNeverWrites

-----------------------------------------------------------------------------
(* The destination *)

\* All that ever happens to the rows: they are added by somebody, and those
\* that are there keep their kind and author and stay gone when they are.
RowsChange(who) ==
  /\ rows' \in Seq(Row)
  /\ DOMAIN rows \subseteq DOMAIN rows'
  /\ \A i \in DOMAIN rows' : rows'[i].name \in Names(rows'[i].kind)
  /\ \A i \in DOMAIN rows :
       /\ rows'[i].by = rows[i].by /\ rows'[i].kind = rows[i].kind
       /\ rows[i].gone => rows'[i].gone
  /\ \A i \in DOMAIN rows' \ DOMAIN rows : rows'[i].by = who

LEMMA SameRowsChange ==
  ASSUME BundleInv, UNCHANGED rows, NEW who
  PROVE  RowsChange(who)
BY DEF BundleInv, BundleTypeOK, WellNamed, RowsChange

LEMMA AddRowChange ==
  ASSUME BundleInv, NEW k \in Kinds, NEW n \in Names(k), NEW who \in Jobs \cup {Nobody},
         AddRow(k, n, who)
  PROVE  RowsChange(who)
<1> DEFINE new == [kind |-> k, name |-> n, rest |-> 0, gone |-> FALSE, by |-> who]
<1>1. new \in Row
  BY DEF Row, Names
<1>2. rows \in Seq(Row) /\ rows' = Append(rows, new)
  BY DEF BundleInv, BundleTypeOK, AddRow
<1>3. new.by = who /\ new.name = n /\ new.kind = k
  OBVIOUS
<1> HIDE DEF new
<1>4. /\ rows' \in Seq(Row) /\ Len(rows') = Len(rows) + 1
      /\ \A i \in 1 .. Len(rows) : rows'[i] = rows[i]
      /\ rows'[Len(rows) + 1] = new
  BY <1>1, <1>2, AppendProperties
<1>5. /\ DOMAIN rows = 1 .. Len(rows) /\ Len(rows) \in Nat
      /\ DOMAIN rows' = DOMAIN rows \cup {Len(rows) + 1}
  BY <1>2, <1>4
<1> QED BY <1>3, <1>4, <1>5 DEF RowsChange, BundleInv, WellNamed

LEMMA SetRowChange ==
  ASSUME BundleInv, NEW i \in DOMAIN rows, NEW new \in Row,
         rows' = [rows EXCEPT ![i] = new],
         new.by = rows[i].by, new.kind = rows[i].kind, rows[i].gone => new.gone,
         new.name \in Names(new.kind), NEW who
  PROVE  RowsChange(who)
<1>1. rows \in Seq(Row) /\ i \in 1 .. Len(rows) /\ DOMAIN rows = 1 .. Len(rows)
  BY DEF BundleInv, BundleTypeOK
<1>2. rows' \in Seq(Row) /\ DOMAIN rows' = DOMAIN rows
  BY <1>1, ExceptSeq
<1>3. \A k \in DOMAIN rows : rows'[k] = IF k = i THEN new ELSE rows[k]
  OBVIOUS
<1> QED BY <1>1, <1>2, <1>3 DEF RowsChange, BundleInv, WellNamed

LEMMA EditChange ==
  ASSUME BundleInv, Edit
  PROVE  RowsChange(Nobody)
<1>1. CASE \E k \in Kinds : \E n \in Names(k) : AddRow(k, n, Nobody)
  BY <1>1, AddRowChange
<1>2. ASSUME NEW i \in DOMAIN rows,
             \/ rows' = [rows EXCEPT ![i].gone = TRUE]
             \/ rows' = [rows EXCEPT ![i].rest = @ + 1]
             \/ \E n \in Names(rows[i].kind) : rows' = [rows EXCEPT ![i].name = n]
      PROVE  RowsChange(Nobody)
  <2>1. rows \in Seq(Row) /\ rows[i] \in Row /\ rows[i].name \in Names(rows[i].kind)
    BY DEF BundleInv, BundleTypeOK, WellNamed
  <2>2. CASE rows' = [rows EXCEPT ![i].gone = TRUE]
    <3> DEFINE new == [rows[i] EXCEPT !.gone = TRUE]
    <3>1. /\ new \in Row /\ new.by = rows[i].by /\ new.kind = rows[i].kind
          /\ new.gone /\ new.name = rows[i].name
      BY <2>1 DEF Row
    <3>2. rows' = [rows EXCEPT ![i] = new]
      BY <2>2
    <3> HIDE DEF new
    <3> QED BY <2>1, <3>1, <3>2, SetRowChange
  <2>3. CASE rows' = [rows EXCEPT ![i].rest = @ + 1]
    <3> DEFINE new == [rows[i] EXCEPT !.rest = @ + 1]
    <3>1. /\ new \in Row /\ new.by = rows[i].by /\ new.kind = rows[i].kind
          /\ new.gone = rows[i].gone /\ new.name = rows[i].name
      BY <2>1 DEF Row
    <3>2. rows' = [rows EXCEPT ![i] = new]
      BY <2>3
    <3> HIDE DEF new
    <3> QED BY <2>1, <3>1, <3>2, SetRowChange
  <2>4. ASSUME NEW n \in Names(rows[i].kind), rows' = [rows EXCEPT ![i].name = n]
        PROVE  RowsChange(Nobody)
    <3> DEFINE new == [rows[i] EXCEPT !.name = n]
    <3>1. /\ new \in Row /\ new.by = rows[i].by /\ new.kind = rows[i].kind
          /\ new.gone = rows[i].gone /\ new.name = n
      BY <2>1 DEF Row, Names
    <3>2. rows' = [rows EXCEPT ![i] = new]
      BY <2>4
    <3> HIDE DEF new
    <3> QED BY <2>1, <3>1, <3>2, SetRowChange
  <2> QED BY <1>2, <2>2, <2>3, <2>4
<1> QED BY <1>1, <1>2 DEF Edit

\* The admin lists say of a name what a snapshot of them says.
LEMMA ListedIsSeen ==
  ASSUME NEW k, NEW n
  PROVE  Listed(k, n) <=> n \in NamesIn(View(k))
<1>1. ASSUME Listed(k, n) PROVE n \in NamesIn(View(k))
  <2>1. PICK i \in DOMAIN rows : rows[i].kind = k /\ ~rows[i].gone /\ rows[i].name = n
    BY <1>1 DEF Listed
  <2>2. <<i, n>> \in View(k)
    BY <2>1 DEF View
  <2>3. <<i, n>>[2] = n
    OBVIOUS
  <2> QED BY <2>2, <2>3 DEF NamesIn
<1>2. ASSUME n \in NamesIn(View(k)) PROVE Listed(k, n)
  <2>1. PICK r \in View(k) : r[2] = n
    BY <1>2 DEF NamesIn
  <2>2. PICK i \in DOMAIN rows : rows[i].kind = k /\ ~rows[i].gone /\ r = <<i, rows[i].name>>
    BY DEF View
  <2> QED BY <2>1, <2>2 DEF Listed
<1> QED BY <1>1, <1>2

\* A snapshot of the lists has the type of a snapshot.
LEMMA ViewsTyped ==
  ASSUME BundleInv
  PROVE  View("category") \in SUBSET (Nat \X CatNames) /\ View("product") \in SUBSET (Nat \X Items)
<1>1. \A i \in DOMAIN rows : i \in Nat
  BY DEF BundleInv, BundleTypeOK
<1> QED BY <1>1 DEF View, BundleInv, WellNamed, Names

LEMMA PlanTyped ==
  ASSUME NEW j \in Jobs, NEW s \in Snapshot
  PROVE  /\ PlanOf(j, s) \in SUBSET Entry
         /\ \A e \in PlanOf(j, s) : e.name \in Names(e.kind)
BY BundleConstants DEF PlanOf, Entry, Names, Kinds

-----------------------------------------------------------------------------
(* The invariant *)

Past == {"writing", "done", "failed"}

\* Rows change by the hand of nobody or of a job that writes.
Writer(who) ==
  \/ who = Nobody
  \/ who \in Jobs /\ at[who] = "writing" /\ at'[who] = "writing"

\* Whoever has written was not planning, and is not.
LEMMA AuthorsKept ==
  ASSUME BundleInv, NEW who, Writer(who), RowsChange(who),
         \A j \in Jobs : at[j] \in Past => at'[j] \in Past /\ bundle'[j] = bundle[j]
  PROVE  Authors' /\ OfflineNeverWrites'
<1> SUFFICES ASSUME NEW j \in Jobs, NEW i \in DOMAIN rows', rows'[i].by = j
             PROVE  at'[j] \in Past /\ bundle'[j].status = "LIVE_COMPLETE"
  BY DEF Authors, OfflineNeverWrites, Past
<1>1. CASE i \in DOMAIN rows
  <2>1. rows[i].by = j
    BY <1>1 DEF RowsChange
  <2> QED BY <1>1, <2>1 DEF BundleInv, Authors, OfflineNeverWrites, Past
<1>2. CASE i \notin DOMAIN rows
  <2>1. who = j /\ at[j] = "writing"
    BY <1>2, BundleConstants DEF RowsChange, Writer
  <2> QED BY <2>1 DEF BundleInv, LiveIsKnown, Live, Past
<1> QED BY <1>1, <1>2

\* As long as nobody begins to write, what a writing job knows suffices: only
\* it adds rows of its own, and those of others keep their ids.
LEMMA GroundKept ==
  ASSUME BundleInv, NEW who, Writer(who), RowsChange(who),
         \A j \in Jobs : at'[j] = "writing" => at[j] = "writing" /\ bundle'[j] = bundle[j]
  PROVE  KnownGround'
<1> SUFFICES ASSUME NEW j \in Jobs, at'[j] = "writing", NEW i \in DOMAIN rows',
                    ~rows'[i].gone, rows'[i].kind = "product",
                    rows'[i].by \notin {j, Nobody}
             PROVE  \E n \in Items : <<i, n>> \in bundle'[j].snapshot.products
  BY DEF KnownGround
<1>1. at[j] = "writing" /\ bundle'[j] = bundle[j]
  OBVIOUS
<1>2. i \in DOMAIN rows
  <2>1. who \in {j, Nobody}
    <3>1. who # Nobody => who \in Jobs /\ at[who] = "writing"
      BY DEF Writer
    <3> QED BY <1>1, <3>1 DEF BundleInv, LockHeld, Live
  <2> QED BY <2>1 DEF RowsChange
<1>3. ~rows[i].gone /\ rows[i].kind = "product" /\ rows[i].by \notin {j, Nobody}
  BY <1>2 DEF RowsChange
<1> QED BY <1>1, <1>2, <1>3 DEF BundleInv, KnownGround

\* A step that only moves one job on, and not into the live part.
LEMMA JobMoves ==
  ASSUME BundleInv, NEW j \in Jobs, NEW p \in Places,
         UNCHANGED <<rows, contract, env, bundle, todo, edits, deploys>>,
         seen' \in [Jobs -> Snapshot], Goto(j, p),
         at[j] \in Past => p \in Past,
         p \in Live => lock' = j /\ bundle[j].status = "LIVE_COMPLETE",
         p \in Live \cup {"awaiting"} => at[j] \in Live \cup {"awaiting"},
         p # "writing",
         lock' \in Jobs \cup {Nobody},
         \A k \in Jobs \ {j} : lock = k => lock' = k,
         p \in Live => \A k \in Jobs \ {j} : at[k] \notin Live
  PROVE  BundleInv'
<1>1. /\ at' \in [Jobs -> Places] /\ at'[j] = p
      /\ \A k \in Jobs \ {j} : at'[k] = at[k]
  BY DEF Goto, BundleInv, BundleTypeOK
<1>2. BundleTypeOK'
  BY <1>1 DEF BundleInv, BundleTypeOK
<1>3. WellNamed'
  BY DEF BundleInv, WellNamed
<1>4. LockHeld' /\ LiveIsKnown' /\ Frozen'
  BY <1>1 DEF BundleInv, LockHeld, LiveIsKnown, Frozen, PlanOf
<1>5. Writer(Nobody) /\ RowsChange(Nobody)
  BY SameRowsChange DEF Writer
<1>6. Authors' /\ OfflineNeverWrites' /\ KnownGround'
  BY <1>1, <1>5, AuthorsKept, GroundKept
<1> QED BY <1>2, <1>3, <1>4, <1>6 DEF BundleInv

\* Planning ends with a bundle whose operations are the plan of its snapshot.
LEMMA FreezeKeepsInv ==
  ASSUME BundleInv, NEW j \in Jobs, at[j] \in Planning,
         NEW s \in Snapshot, NEW st \in Statuses, Freeze(j, s, st),
         Goto(j, "awaiting"), seen' \in [Jobs -> Snapshot],
         UNCHANGED <<rows, contract, env, todo, lock, edits, deploys>>
  PROVE  BundleInv'
<1>1. /\ at' \in [Jobs -> Places] /\ at'[j] = "awaiting"
      /\ \A k \in Jobs \ {j} : at'[k] = at[k]
  BY DEF Goto, BundleInv, BundleTypeOK, Places
<1> DEFINE new == [productionSha |-> env.sha, snapshot |-> s, status |-> st,
                   operations |-> PlanOf(j, s)]
<1>2. new \in Bundle
  BY PlanTyped DEF Bundle, BundleInv, BundleTypeOK
<1>3. /\ bundle' \in [Jobs -> Bundle] /\ bundle'[j] = new
      /\ \A k \in Jobs \ {j} : bundle'[k] = bundle[k]
  BY <1>2 DEF Freeze, BundleInv, BundleTypeOK
<1>4. new.operations = PlanOf(j, s) /\ new.snapshot = s
  OBVIOUS
<1> HIDE DEF new
<1>5. BundleTypeOK'
  BY <1>1, <1>3 DEF BundleInv, BundleTypeOK
<1>6. WellNamed'
  BY <1>3, <1>4, PlanTyped DEF BundleInv, WellNamed
<1>7. LockHeld' /\ LiveIsKnown'
  BY <1>1, <1>3 DEF BundleInv, LockHeld, LiveIsKnown, Live
<1>8. Frozen'
  <2>1. ASSUME NEW k \in Jobs, at'[k] \in Live \cup {"awaiting"}
        PROVE  bundle'[k].operations = PlanOf(k, bundle'[k].snapshot)
    BY <1>1, <1>3, <1>4, <2>1 DEF BundleInv, Frozen
  <2> QED BY <2>1 DEF Frozen, PlanOf
<1>9. Writer(Nobody) /\ RowsChange(Nobody)
  BY SameRowsChange DEF Writer
<1>10. Authors' /\ OfflineNeverWrites' /\ KnownGround'
  BY <1>1, <1>3, <1>9, AuthorsKept, GroundKept DEF Planning, Past
<1> QED BY <1>5, <1>6, <1>7, <1>8, <1>10 DEF BundleInv

LEMMA BundleInitInv == Init => BundleInv
<1> SUFFICES ASSUME Init PROVE BundleInv
  OBVIOUS
<1>1. NoSnapshot \in Snapshot
  BY DEF NoSnapshot, Snapshot
<1>2. NoBundle \in Bundle
  BY <1>1 DEF NoBundle, Bundle, Statuses
<1>3. rows \in Seq(Row) /\ \A i \in DOMAIN rows :
        rows[i].by = Nobody /\ rows[i].name \in Names(rows[i].kind)
  BY BundleConstants DEF Init
<1>4. BundleTypeOK
  <2>1. contract \in {"certified", "drifted"} /\ lock \in Jobs \cup {Nobody}
        /\ edits \in Nat /\ deploys \in Nat
    BY DEF Init
  <2>2. env \in [sha : Nat, offline : BOOLEAN, killed : BOOLEAN]
    <3>1. env \in [sha : {1}, offline : BOOLEAN, killed : {FALSE}]
      BY DEF Init
    <3>2. {1} \subseteq Nat /\ {FALSE} \subseteq BOOLEAN
      OBVIOUS
    <3>3. ASSUME NEW A, NEW B, A \subseteq Nat, B \subseteq BOOLEAN,
                 env \in [sha : A, offline : BOOLEAN, killed : B]
          PROVE  env \in [sha : Nat, offline : BOOLEAN, killed : BOOLEAN]
      BY <3>3
    <3> QED BY <3>1, <3>2, <3>3, Zenon
  <2>3. at \in [Jobs -> Places] /\ todo \in [Jobs -> SUBSET Entry]
    BY DEF Init, Places, Planning
  <2>4. bundle \in [Jobs -> Bundle] /\ seen \in [Jobs -> Snapshot]
    BY <1>1, <1>2 DEF Init
  <2> QED BY <1>3, <2>1, <2>2, <2>3, <2>4 DEF BundleTypeOK
<1>5. WellNamed
  BY <1>3 DEF Init, WellNamed, NoBundle
<1>6. Authors /\ OfflineNeverWrites
  BY <1>3, BundleConstants DEF Authors, OfflineNeverWrites
<1> QED BY <1>4, <1>5, <1>6
  DEF Init, BundleInv, LockHeld, Frozen, LiveIsKnown, KnownGround, Live

\* Releasing takes the lock from nobody else.
LEMMA ReleaseFacts ==
  ASSUME BundleInv, NEW j \in Jobs, Release(j)
  PROVE  lock' \in Jobs \cup {Nobody} /\ \A k \in Jobs \ {j} : lock = k => lock' = k
BY DEF Release, BundleInv, BundleTypeOK

LEMMA OneLive ==
  ASSUME BundleInv, NEW j \in Jobs, at[j] \in Live \/ lock = Nobody
  PROVE  \A k \in Jobs \ {j} : at[k] \notin Live
BY BundleConstants DEF BundleInv, LockHeld

\* Once a snapshot is complete it has the type of one.
LEMMA LoadedTyped ==
  ASSUME BundleInv, NEW j \in Jobs
  PROVE  /\ Loaded(j) \in Snapshot /\ Loaded(j).products = View("product")
         /\ [seen EXCEPT ![j] = Loaded(j)] \in [Jobs -> Snapshot]
<1>1. seen[j] \in Snapshot
  BY DEF BundleInv, BundleTypeOK
<1>2. Loaded(j) \in Snapshot /\ Loaded(j).products = View("product")
  BY <1>1, ViewsTyped DEF Loaded, Snapshot
<1> QED BY <1>2 DEF BundleInv, BundleTypeOK

LEMMA CompareKeepsInv ==
  ASSUME BundleInv, NEW j \in Jobs, Compare(j)
  PROVE  BundleInv'
<1>1. CASE ~Fresh(j)
  BY <1>1, JobMoves, LoadedTyped, ReleaseFacts DEF Compare, Places, Live, Past
<1>2. CASE Fresh(j)
  <2>1. /\ at' \in [Jobs -> Places] /\ at'[j] = "writing" /\ at[j] = "comparing"
        /\ \A k \in Jobs \ {j} : at'[k] = at[k]
        /\ UNCHANGED <<rows, contract, env, bundle, lock, edits, deploys>>
        /\ seen' \in [Jobs -> Snapshot]
    BY <1>2, LoadedTyped DEF Compare, Goto, BundleInv, BundleTypeOK, Places, Live
  <2>2. /\ todo' = [todo EXCEPT ![j] = bundle[j].operations]
        /\ bundle[j] \in Bundle
    BY <1>2 DEF Compare, BundleInv, BundleTypeOK
  <2>3. BundleTypeOK'
    BY <2>1, <2>2 DEF BundleInv, BundleTypeOK, Bundle
  <2>4. WellNamed'
    BY <2>1, <2>2 DEF BundleInv, BundleTypeOK, WellNamed
  <2>5. LockHeld' /\ LiveIsKnown' /\ Frozen'
    BY <2>1 DEF BundleInv, LockHeld, LiveIsKnown, Frozen, Live, PlanOf
  <2>6. Authors' /\ OfflineNeverWrites'
    <3>1. Writer(Nobody) /\ RowsChange(Nobody)
      BY <2>1, SameRowsChange DEF Writer
    <3> QED BY <2>1, <3>1, AuthorsKept DEF Past
  <2>7. KnownGround'
    <3> SUFFICES ASSUME NEW k \in Jobs, at'[k] = "writing", NEW i \in DOMAIN rows,
                        ~rows[i].gone, rows[i].kind = "product"
                 PROVE  \E n \in Items : <<i, n>> \in bundle[k].snapshot.products
      BY <2>1 DEF KnownGround
    <3>1. k = j
      BY <2>1, OneLive DEF Live
    <3>2. bundle[j].snapshot.products = View("product")
      BY <1>2, LoadedTyped DEF Fresh, Validates
    <3>3. <<i, rows[i].name>> \in View("product") /\ rows[i].name \in Items
      BY DEF View, BundleInv, WellNamed, Names
    <3> QED BY <3>1, <3>2, <3>3
  <2> QED BY <2>3, <2>4, <2>5, <2>6, <2>7 DEF BundleInv
<1> QED BY <1>1, <1>2

LEMMA WriteKeepsInv ==
  ASSUME BundleInv, NEW j \in Jobs, Write(j)
  PROVE  BundleInv'
<1>1. PICK e \in todo[j] :
        /\ todo' = [todo EXCEPT ![j] = @ \ {e}]
        /\ AddRow(e.kind, e.name, j) \/ UNCHANGED rows
  BY DEF Write
<1>2. UNCHANGED <<contract, env, at, bundle, seen, lock, edits, deploys>>
      /\ at[j] = "writing"
  BY DEF Write
<1>3. e \in Entry /\ e.name \in Names(e.kind)
  BY DEF BundleInv, BundleTypeOK, WellNamed
<1>4. RowsChange(j) /\ Writer(j)
  BY <1>1, <1>2, <1>3, AddRowChange, SameRowsChange DEF Entry, Writer
<1>5. BundleTypeOK'
  BY <1>1, <1>2, <1>4 DEF BundleInv, BundleTypeOK, RowsChange
<1>6. WellNamed'
  BY <1>1, <1>2, <1>4 DEF BundleInv, BundleTypeOK, WellNamed, RowsChange
<1>7. LockHeld' /\ LiveIsKnown' /\ Frozen'
  BY <1>2 DEF BundleInv, LockHeld, LiveIsKnown, Frozen, PlanOf
<1>8. Authors' /\ OfflineNeverWrites' /\ KnownGround'
  BY <1>2, <1>4, AuthorsKept, GroundKept
<1> QED BY <1>5, <1>6, <1>7, <1>8 DEF BundleInv

LEMMA BundleStepInv == BundleInv /\ [Next]_vars => BundleInv'
<1> SUFFICES ASSUME BundleInv, [Next]_vars PROVE BundleInv'
  OBVIOUS
<1>1. CASE Edit
  <2>1. UNCHANGED <<contract, env, at, bundle, seen, todo, lock, deploys>>
        /\ edits' \in Nat
    BY <1>1 DEF Edit, Edited, BundleInv, BundleTypeOK
  <2>2. RowsChange(Nobody) /\ Writer(Nobody)
    BY <1>1, EditChange DEF Writer
  <2>3. BundleTypeOK' /\ WellNamed'
    BY <2>1, <2>2 DEF BundleInv, BundleTypeOK, WellNamed, RowsChange
  <2>4. LockHeld' /\ LiveIsKnown' /\ Frozen'
    BY <2>1 DEF BundleInv, LockHeld, LiveIsKnown, Frozen, PlanOf
  <2>5. Authors' /\ OfflineNeverWrites' /\ KnownGround'
    BY <2>1, <2>2, AuthorsKept, GroundKept
  <2> QED BY <2>3, <2>4, <2>5 DEF BundleInv
<1>2. CASE Drift
  BY <1>2 DEF Drift, Edited, BundleInv, BundleTypeOK, WellNamed, LockHeld,
    LiveIsKnown, Frozen, PlanOf, Authors, KnownGround, OfflineNeverWrites
<1>3. CASE Redeploy
  <2>1. /\ UNCHANGED <<rows, contract, bundle, seen, todo, edits>>
        /\ env' \in [sha : Nat, offline : BOOLEAN, killed : BOOLEAN]
        /\ deploys' \in Nat /\ lock' = Nobody
    BY <1>3 DEF Redeploy, BundleInv, BundleTypeOK
  <2>2. /\ at' \in [Jobs -> Places]
        /\ \A j \in Jobs : at'[j] \notin Live /\ (at[j] \in Past => at'[j] \in Past)
        /\ \A j \in Jobs : at'[j] = "awaiting" => at[j] = "awaiting"
    BY <1>3 DEF Redeploy, BundleInv, BundleTypeOK, Places, Live, Past
  <2>3. BundleTypeOK' /\ WellNamed'
    BY <2>1, <2>2 DEF BundleInv, BundleTypeOK, WellNamed
  <2>4. LockHeld' /\ LiveIsKnown' /\ Frozen'
    BY <2>1, <2>2 DEF BundleInv, LockHeld, LiveIsKnown, Frozen, PlanOf
  <2>5. RowsChange(Nobody) /\ Writer(Nobody)
    BY <2>1, SameRowsChange DEF Writer
  <2>6. Authors' /\ OfflineNeverWrites' /\ KnownGround'
    BY <2>1, <2>2, <2>5, AuthorsKept, GroundKept DEF Live
  <2> QED BY <2>3, <2>4, <2>6 DEF BundleInv
<1>4. ASSUME NEW j \in Jobs, PlanStep(j) \/ Approve(j) \/ LiveStep(j) \/ LiveFails(j)
      PROVE  BundleInv'
  <2>0. /\ lock \in Jobs \cup {Nobody} /\ seen \in [Jobs -> Snapshot]
        /\ [cats |-> View("category"), products |-> {}] \in Snapshot
    BY ViewsTyped DEF BundleInv, BundleTypeOK, Snapshot
  <2>1. CASE PlanOffline(j)
    <3>1. NoSnapshot \in Snapshot
      BY DEF NoSnapshot, Snapshot
    <3> QED BY <2>0, <2>1, <3>1, FreezeKeepsInv DEF PlanOffline, Planning, Statuses
  <2>2. CASE OpenAdmin(j)
    BY <2>0, <2>2, JobMoves DEF OpenAdmin, Places, Planning, Live, Past
  <2>3. CASE ReadCategories(j, "listing", "planning")
    BY <2>0, <2>3, JobMoves DEF ReadCategories, Places, Planning, Live, Past
  <2>4. CASE PlanLive(j)
    BY <2>4, LoadedTyped, FreezeKeepsInv DEF PlanLive, Planning, Statuses
  <2>5. CASE PlanFails(j)
    BY <2>0, <2>5, JobMoves DEF PlanFails, Places, Live, Past
  <2>6. CASE Approve(j)
    <3>1. CASE Validates(bundle[j], bundle[j].snapshot)
      BY <2>0, <2>6, <3>1, OneLive, BundleConstants, JobMoves
      DEF Approve, TakesLock, Validates, Places, Live, Past
    <3>2. CASE ~Validates(bundle[j], bundle[j].snapshot)
      BY <2>0, <2>6, <3>2, JobMoves DEF Approve, Places, Live, Past
    <3> QED BY <3>1, <3>2
  <2>7. CASE Login(j)
    BY <2>0, <2>7, OneLive, JobMoves
    DEF Login, Places, Live, Past, BundleInv, LockHeld, LiveIsKnown
  <2>8. CASE ReadCategories(j, "checking", "comparing")
    BY <2>0, <2>8, OneLive, JobMoves
    DEF ReadCategories, Places, Live, Past, BundleInv, LockHeld, LiveIsKnown
  <2>9. CASE Finish(j)
    BY <2>0, <2>9, ReleaseFacts, JobMoves DEF Finish, Places, Live, Past
  <2>10. CASE LiveFails(j)
    BY <2>0, <2>10, ReleaseFacts, JobMoves DEF LiveFails, Places, Live, Past
  <2> QED BY <1>4, <2>1, <2>2, <2>3, <2>4, <2>5, <2>6, <2>7, <2>8, <2>9, <2>10,
             CompareKeepsInv, WriteKeepsInv DEF PlanStep, LiveStep
<1>5. CASE UNCHANGED vars
  BY <1>5 DEF vars, BundleInv, BundleTypeOK, WellNamed, LockHeld,
    LiveIsKnown, Frozen, PlanOf, Authors, KnownGround, OfflineNeverWrites
<1> QED BY <1>1, <1>2, <1>3, <1>4, <1>5 DEF Next

LEMMA BundleInvariant == Spec => []BundleInv
BY BundleInitInv, BundleStepInv, PTL DEF Spec

-----------------------------------------------------------------------------
(* The promises *)

\* While a job writes, whatever other jobs have put at the destination was in
\* the snapshot of its bundle (the second comparison of liveExecute.ts, under
\* the destination write lock).
THEOREM GroundIsKnown == Spec => []KnownGround
BY BundleInvariant, PTL DEF BundleInv

\* A plan made without looking at the destination is never written
\* (validateExecutionBundle asks for LIVE_COMPLETE).
THEOREM OfflinePlansStayPlans == Spec => []OfflineNeverWrites
BY BundleInvariant, PTL DEF BundleInv

\* When a job begins to write, no product it is to create is listed and every
\* product its plan relied on still is.
THEOREM PremisesHoldAtWriting == Spec => PremisesHold
<1>1. BundleInv /\ [Next]_vars =>
        (\A j \in Jobs : at[j] # "writing" /\ at'[j] = "writing" =>
           /\ \A e \in bundle[j].operations :
                e.kind = "product" => ~Listed("product", e.name)
           /\ \A n \in Want[j] :
                [kind |-> "product", name |-> n] \notin bundle[j].operations
                  => Listed("product", n))
  <2> SUFFICES ASSUME BundleInv, [Next]_vars,
                      NEW j \in Jobs, at[j] # "writing", at'[j] = "writing"
               PROVE  /\ \A e \in bundle[j].operations :
                           e.kind = "product" => ~Listed("product", e.name)
                      /\ \A n \in Want[j] :
                           [kind |-> "product", name |-> n] \notin bundle[j].operations
                             => Listed("product", n)
    OBVIOUS
  <2>1. Compare(j) /\ Fresh(j)
    BY DEF Next, PlanStep, LiveStep, Edit, Drift, Redeploy, PlanOffline, OpenAdmin,
      ReadCategories, PlanLive, PlanFails, Approve, Login, Compare, Write, Finish,
      LiveFails, Goto, vars, BundleInv, BundleTypeOK
  <2>2. bundle[j].snapshot.products = View("product")
    BY <2>1, LoadedTyped DEF Fresh, Validates
  <2>3. bundle[j].operations = PlanOf(j, bundle[j].snapshot)
    BY <2>1 DEF Compare, BundleInv, Frozen, Live
  <2>4. \A n : Listed("product", n) <=> n \in NamesIn(bundle[j].snapshot.products)
    BY <2>2, ListedIsSeen
  <2>5. \A e \in bundle[j].operations : e.kind = "product" =>
          e.name \notin NamesIn(bundle[j].snapshot.products)
    BY <2>3 DEF PlanOf
  <2>6. \A n \in Want[j] : n \notin NamesIn(bundle[j].snapshot.products) =>
          [kind |-> "product", name |-> n] \in bundle[j].operations
    BY <2>3 DEF PlanOf
  <2> QED BY <2>4, <2>5, <2>6
<1> QED BY <1>1, BundleInvariant, PTL DEF Spec, PremisesHold
=============================================================================
