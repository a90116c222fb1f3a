--------------------------- MODULE DecisionsProofs ---------------------------
(***************************************************************************)
(* What learning from people promises for all cases, answers and stops of   *)
(* the process: what is decided by itself was decided that way by people,   *)
(* a policy that was overruled and taken back stays down, and the override  *)
(* in force is the last that was stored.                                    *)
(*                                                                         *)
(* None of the three is inductive.  What a case was decided by lies in the  *)
(* past, and only what can no longer change tells of it: the version that   *)
(* was in force then, the decisions it rests on (Sound), and that these     *)
(* concern the case (Covers).  That an overruled policy stays down takes    *)
(* the case it was overruled for to be one that shadowEvaluate will look at *)
(* again, which holds because the policy had decided it.  And an override   *)
(* is replaced in two statements, so that the row which is about to be      *)
(* stored must be known to be newer than all that are there (FactsGood).    *)
(***************************************************************************)
EXTENDS Decisions, FiniteSetTheorems, SequenceTheorems, TLAPS

-----------------------------------------------------------------------------
(* The shape of the state. *)

Human == [case : Cases, option : Options, corrects : Nat]
VersionRow == [status : {"SHADOW", "ACTIVE"}, support : SUBSET Nat, after : Nat]
\* What a policy may say is what can be made of a decision.
Terms == {TermsOf(c, o, s) : c \in Cases, o \in Options, s \in Scopes}
Policy == [terms : Terms, versions : Seq(VersionRow)]
FactId == [kind : {"override"}, restaurant : STRING, target : Nat]
            \cup [kind : {"category"}, restaurant : STRING, target : STRING]
FactValue == Options \cup Nat
FactRow == [id : FactId, version : Nat, status : {"ACTIVE", "SUPERSEDED"},
            value : FactValue, human : Nat]

Answering == [step : {"demote", "resolve", "learn"}, case : Cases,
              option : Options, scope : Scopes, human : Nat]
Learning == [step : {"promote", "fact"}, policy : Nat, case : Cases,
             option : Options, human : Nat]
Enacting == [step : {"enact"}, row : FactRow]

Shape ==
  /\ asked \in Packs
  /\ DOMAIN cases = Cases
  /\ \A c \in Cases : DOMAIN cases[c] = {"status", "option", "of"}
  /\ humans \in Seq(Human)
  /\ policies \in Seq(Policy)
  /\ facts \subseteq FactRow
  /\ doing \in {Idle} \cup Answering \cup Learning \cup Enacting

-----------------------------------------------------------------------------
(* What holds of one policy, of one case and of the facts.  Each speaks of   *)
(* the decisions H on record, to which decisions are only ever added.        *)

\* t says of the case what the policy is about, in the restaurant it is for.
Covers(t, c) ==
  /\ Applies(t, c)
  /\ t.restaurant = IF t.scope = "GLOBAL" THEN None ELSE Feature[c].restaurant

\* A version of a policy with terms t rests on decisions that say the same; it
\* is in force on two of them, and not for everyone; and what it came after is
\* an answer to a case that the policy covers.
Sound(t, v, H) ==
  /\ \A h \in v.support :
       h \in DOMAIN H /\ TermsOf(H[h].case, H[h].option, t.scope) = t
  /\ v.status = "ACTIVE" => t.scope # "GLOBAL" /\ Cardinality(v.support) >= 2
  /\ v.after # 0 => v.after \in DOMAIN H /\ Covers(t, H[v.after].case)

Overruled(t, V, H) ==
  \E n \in DOMAIN V : V[n].after # 0 /\ H[V[n].after].option # t.option

\* The versions V of a policy with terms t: once overruled, never in force.
GoodVersions(t, V, H) ==
  /\ Len(V) > 0
  /\ \A n \in DOMAIN V : Sound(t, V[n], H)
  /\ Overruled(t, V, H) => V[Len(V)].status # "ACTIVE"

PoliciesGood ==
  \A p \in DOMAIN policies :
    GoodVersions(policies[p].terms, policies[p].versions, humans)

Agreeing(c, o, H) ==
  {h \in DOMAIN H : H[h].option = o /\ Feature[H[h].case].type = Feature[c].type}

\* What decided a case is on record: the policy with the version that was in
\* force, or three decisions of people.
CaseBacked(c) ==
  /\ cases[c].status = "AUTO_POLICY" =>
       LET of == cases[c].of IN
       /\ of.id \in DOMAIN policies
       /\ of.version \in DOMAIN policies[of.id].versions
       /\ policies[of.id].versions[of.version].status = "ACTIVE"
       /\ Covers(policies[of.id].terms, c)
       /\ cases[c].option = policies[of.id].terms.option
  /\ cases[c].status = "AUTO_PRECEDENT" =>
       Cardinality(Agreeing(c, cases[c].option, humans)) >= 3

CasesBacked == \A c \in Cases : CaseBacked(c)

\* The answer that is being stored is the last decision on record.
AnswerAtHand ==
  /\ doing.step \in {"demote", "resolve", "learn", "promote", "fact"} =>
       /\ doing.human = Len(humans) /\ doing.human # 0
       /\ humans[doing.human].case = doing.case
       /\ humans[doing.human].option = doing.option
  /\ doing.step = "demote" => cases[doing.case].status = "AUTO_POLICY"
  /\ doing.step = "promote" =>
       /\ doing.policy \in DOMAIN policies
       /\ policies[doing.policy].terms.scope # "GLOBAL"

Owned(f) ==
  f.id.kind = "override" =>
    f.human \in DOMAIN humans /\ f.id = OverrideId(humans[f.human].case)

\* r is newer than every row in force under its id.
Newer(r) ==
  \A f \in facts : f.status = "ACTIVE" /\ f.id = r.id =>
    f.version < r.version /\ (f.id.kind = "override" => f.human <= r.human)

\* Whatever was stored under an id has a last row in force, and that holds the
\* last answer.
FactsGood ==
  /\ \A f \in facts : Owned(f)
  /\ \A f \in facts : f.status = "ACTIVE" => \E g \in ActiveSets : g.id = f.id
  /\ \A f \in ActiveSets, g \in facts :
       g.status = "ACTIVE" /\ g.id = f.id /\ f.id.kind = "override"
         => g.human <= f.human
  /\ doing.step = "enact" =>
       doing.row.status = "ACTIVE" /\ Owned(doing.row) /\ Newer(doing.row)

LearnInv == Shape /\ PoliciesGood /\ CasesBacked /\ AnswerAtHand /\ FactsGood

-----------------------------------------------------------------------------
(* Cases and what is said of them. *)

LEMMA CaseFacts ==
  ASSUME NEW c \in Cases
  PROVE  /\ Feature[c].options \subseteq Options
         /\ Feature[c].restaurant \in STRING /\ Feature[c].number \in Nat
         /\ Feature[c].key \in Nat /\ Feature[c].key > 0
BY DecisionConstants DEF DecisionConstants, Features

\* A policy that applies to a case is for the case's restaurant or for all: that
\* of one case because its key names the restaurant.
LEMMA AppliesCovers ==
  ASSUME NEW t \in Terms, NEW d \in Cases, Applies(t, d)
  PROVE  Covers(t, d)
<1>1. PICK c \in Cases, o \in Options, s \in Scopes : t = TermsOf(c, o, s)
  BY DEF Terms
<1>2. t.scope = s
  BY <1>1 DEF TermsOf
<1>3. CASE s = "GLOBAL"
  BY <1>1, <1>3 DEF TermsOf, Covers
<1>4. CASE s = "EXACT_CASE"
  <2>1. t.key = Feature[c].key /\ t.restaurant = Feature[c].restaurant
    BY <1>1, <1>4 DEF TermsOf
  <2>2. Feature[c].key = Feature[d].key
    BY <2>1, CaseFacts DEF Applies
  <2>3. Feature[c].restaurant = Feature[d].restaurant
    BY <2>2, DecisionConstants DEF DecisionConstants
  <2> QED BY <1>2, <1>4, <2>1, <2>3 DEF Covers
<1>5. CASE s \in {"RESTAURANT", "RESTAURANT_CATEGORY"}
  BY <1>2, <1>5 DEF Applies, Covers
<1> QED BY <1>3, <1>4, <1>5 DEF Scopes

-----------------------------------------------------------------------------
(* Decisions are added and never changed, and so are versions. *)

LEMMA Grown ==
  ASSUME NEW S, NEW H \in Seq(S), NEW x \in S
  PROVE  /\ Append(H, x) \in Seq(S) /\ Len(Append(H, x)) = Len(H) + 1
         /\ DOMAIN H = 1 .. Len(H) /\ Len(H) \in Nat
         /\ DOMAIN Append(H, x) = DOMAIN H \cup {Len(H) + 1}
         /\ \A h \in DOMAIN H : Append(H, x)[h] = H[h]
         /\ Append(H, x)[Len(H) + 1] = x
OBVIOUS

LEMMA SoundStays ==
  ASSUME NEW H \in Seq(Human), NEW x \in Human, NEW t, NEW v, Sound(t, v, H)
  PROVE  Sound(t, v, Append(H, x))
BY Grown DEF Sound

LEMMA GoodStays ==
  ASSUME NEW H \in Seq(Human), NEW x \in Human, NEW t, NEW V \in Seq(VersionRow),
         GoodVersions(t, V, H)
  PROVE  GoodVersions(t, V, Append(H, x))
<1>1. \A n \in DOMAIN V : Sound(t, V[n], Append(H, x))
  BY SoundStays DEF GoodVersions
<1>2. Overruled(t, V, Append(H, x)) => Overruled(t, V, H)
  <2> SUFFICES ASSUME NEW n \in DOMAIN V, V[n].after # 0,
                      Append(H, x)[V[n].after].option # t.option
               PROVE  H[V[n].after].option # t.option
    BY DEF Overruled
  <2>1. V[n].after \in DOMAIN H
    BY DEF GoodVersions, Sound
  <2> QED BY <2>1, Grown
<1> QED BY <1>1, <1>2 DEF GoodVersions

\* One version more, which is in force only if nothing speaks against it.
LEMMA GoodGrows ==
  ASSUME NEW H, NEW t, NEW V \in Seq(VersionRow), NEW v \in VersionRow,
         \A n \in DOMAIN V : Sound(t, V[n], H), Sound(t, v, H),
         v.status = "ACTIVE" => ~Overruled(t, Append(V, v), H)
  PROVE  GoodVersions(t, Append(V, v), H)
<1>1. /\ DOMAIN Append(V, v) = DOMAIN V \cup {Len(V) + 1}
      /\ Len(Append(V, v)) = Len(V) + 1 /\ Len(V) \in Nat
      /\ \A n \in DOMAIN V : Append(V, v)[n] = V[n]
      /\ Append(V, v)[Len(V) + 1] = v
  BY Grown
<1> QED BY <1>1 DEF GoodVersions

LEMMA Recorded ==
  ASSUME NEW S, NEW H \in Seq(S), NEW T, T \subseteq DOMAIN H
  PROVE  IsFiniteSet(T) /\ Cardinality(T) \in Nat
<1>1. IsFiniteSet(1 .. Len(H)) /\ DOMAIN H = 1 .. Len(H)
  BY FS_Interval
<1>2. IsFiniteSet(T)
  BY <1>1, FS_Subset
<1> QED BY <1>2, FS_CardinalityType

LEMMA AgreeingGrows ==
  ASSUME NEW H \in Seq(Human), NEW x \in Human, NEW c, NEW o,
         Cardinality(Agreeing(c, o, H)) >= 3
  PROVE  Cardinality(Agreeing(c, o, Append(H, x))) >= 3
<1> DEFINE A == Agreeing(c, o, H)
           B == Agreeing(c, o, Append(H, x))
<1>1. A \subseteq B
  BY Grown DEF Agreeing
<1>2. B \subseteq DOMAIN Append(H, x) /\ A \subseteq DOMAIN H
  BY DEF Agreeing
<1> HIDE DEF A, B
<1>3. IsFiniteSet(B) /\ Cardinality(A) \in Nat /\ Cardinality(B) \in Nat
  BY <1>2, Recorded, Grown
<1>4. Cardinality(A) <= Cardinality(B)
  BY <1>1, <1>3, FS_Subset
<1>5. Cardinality(A) >= 3
  BY DEF A
<1>6. Cardinality(B) >= 3
  BY <1>3, <1>4, <1>5
<1> QED BY <1>6 DEF B

LEMMA VersionAdded ==
  ASSUME policies \in Seq(Policy), NEW p \in DOMAIN policies,
         NEW v \in VersionRow, Versioned(p, v)
  PROVE  /\ policies' \in Seq(Policy) /\ DOMAIN policies' = DOMAIN policies
         /\ Len(policies') = Len(policies)
         /\ \A q \in DOMAIN policies : q # p => policies'[q] = policies[q]
         /\ policies'[p].terms = policies[p].terms
         /\ policies'[p].versions = Append(policies[p].versions, v)
<1> DEFINE new == [policies[p] EXCEPT !.versions = Append(@, v)]
<1>1. policies[p] \in Policy
  OBVIOUS
<1>2. policies[p].versions \in Seq(VersionRow)
  BY <1>1 DEF Policy
<1>3. Append(policies[p].versions, v) \in Seq(VersionRow)
  BY <1>2, Grown
<1>4. /\ new \in Policy /\ new.terms = policies[p].terms
      /\ new.versions = Append(policies[p].versions, v)
  BY <1>1, <1>3 DEF Policy
<1>5. policies' = [policies EXCEPT ![p] = new]
  BY DEF Versioned
<1> HIDE DEF new
<1>6. policies' \in Seq(Policy) /\ Len(policies') = Len(policies)
  BY <1>4, <1>5, ExceptSeq
<1>7. /\ DOMAIN policies' = DOMAIN policies /\ policies'[p] = new
      /\ \A q \in DOMAIN policies : q # p => policies'[q] = policies[q]
  BY <1>5
<1> QED BY <1>4, <1>6, <1>7

-----------------------------------------------------------------------------
(* The policies. *)

LEMMA PolicyShape ==
  ASSUME policies \in Seq(Policy), NEW p \in DOMAIN policies
  PROVE  /\ policies[p] \in Policy /\ policies[p].terms \in Terms
         /\ policies[p].versions \in Seq(VersionRow)
<1>1. policies[p] \in Policy
  OBVIOUS
<1> QED BY <1>1 DEF Policy

\* What is known of the policies when one of them gets a version.
LEMMA VersionKeeps ==
  ASSUME LearnInv, NEW p \in DOMAIN policies, NEW v \in VersionRow,
         Versioned(p, v), Sound(policies[p].terms, v, humans),
         v.status = "ACTIVE" =>
           ~Overruled(policies[p].terms, Append(policies[p].versions, v), humans),
         humans' = humans
  PROVE  /\ policies' \in Seq(Policy) /\ PoliciesGood'
         /\ DOMAIN policies' = DOMAIN policies
         /\ \A q \in DOMAIN policies :
              /\ policies'[q].terms = policies[q].terms
              /\ DOMAIN policies[q].versions \subseteq DOMAIN policies'[q].versions
              /\ \A n \in DOMAIN policies[q].versions :
                   policies'[q].versions[n] = policies[q].versions[n]
<1>0. policies \in Seq(Policy) /\ PoliciesGood
  BY DEF LearnInv, Shape
<1>1. \A q \in DOMAIN policies : policies[q].versions \in Seq(VersionRow)
  BY <1>0, PolicyShape
<1>2. /\ policies' \in Seq(Policy) /\ DOMAIN policies' = DOMAIN policies
      /\ \A q \in DOMAIN policies : q # p => policies'[q] = policies[q]
      /\ policies'[p].terms = policies[p].terms
      /\ policies'[p].versions = Append(policies[p].versions, v)
  BY <1>0, VersionAdded
<1>3. GoodVersions(policies[p].terms, Append(policies[p].versions, v), humans)
  BY <1>0, <1>1, GoodGrows DEF PoliciesGood, GoodVersions
<1>4. PoliciesGood'
  BY <1>0, <1>2, <1>3 DEF PoliciesGood
<1>5. ASSUME NEW q \in DOMAIN policies
      PROVE  /\ policies'[q].terms = policies[q].terms
             /\ DOMAIN policies[q].versions \subseteq DOMAIN policies'[q].versions
             /\ \A n \in DOMAIN policies[q].versions :
                  policies'[q].versions[n] = policies[q].versions[n]
  <2>1. CASE q = p
    BY <1>1, <1>2, <2>1, Grown
  <2>2. CASE q # p
    BY <1>2, <2>2
  <2> QED BY <2>1, <2>2
<1> QED BY <1>2, <1>4, <1>5

\* Cases that are left alone stay backed while versions and policies are added.
PoliciesKept ==
  /\ DOMAIN policies \subseteq DOMAIN policies'
  /\ \A q \in DOMAIN policies :
       /\ policies'[q].terms = policies[q].terms
       /\ DOMAIN policies[q].versions \subseteq DOMAIN policies'[q].versions
       /\ \A n \in DOMAIN policies[q].versions :
            policies'[q].versions[n] = policies[q].versions[n]

LEMMA BackedStays ==
  ASSUME NEW c, CaseBacked(c), cases'[c] = cases[c], PoliciesKept,
         humans' = humans
  PROVE  CaseBacked(c)'
BY DEF CaseBacked, PoliciesKept

\* Statements that touch no fact leave the facts good.
LEMMA FactsStay ==
  ASSUME FactsGood, facts' = facts, humans' = humans, doing'.step # "enact"
  PROVE  FactsGood'
<1>1. ActiveSets' = ActiveSets
  BY DEF ActiveSets
<1> QED BY <1>1 DEF FactsGood, Owned

\* The shapes that an answer takes on its way.
LEMMA DoingShape ==
  ASSUME Shape
  PROVE  /\ doing.step \in {"demote", "resolve", "learn"} => doing \in Answering
         /\ doing.step \in {"promote", "fact"} => doing \in Learning
         /\ doing.step = "enact" => doing \in Enacting
         /\ doing.step = "idle" => doing = Idle
BY DEF Shape, Idle, Answering, Learning, Enacting

LEMMA IdleShape ==
  /\ Idle.step = "idle"
  /\ doing = Idle => doing.step = "idle"
BY DEF Idle

-----------------------------------------------------------------------------
(* One answer, a statement at a time. *)

LEMMA AnswerInv ==
  ASSUME LearnInv, NEW c \in Cases, NEW o \in Options, NEW s \in Scopes,
         NEW k \in BOOLEAN, Answer(c, o, s, k)
  PROVE  LearnInv'
<1> USE DEF LearnInv
<1> DEFINE x == [case |-> c, option |-> o,
                 corrects |-> IF k THEN cases[c].of.id ELSE 0]
<1>0. /\ humans' = Append(humans, x) /\ UNCHANGED <<asked, cases, policies, facts>>
      /\ doing' = [step |-> IF k THEN "demote" ELSE "resolve",
                   case |-> c, option |-> o, scope |-> s,
                   human |-> Len(humans) + 1]
      /\ k => cases[c].status = "AUTO_POLICY"
  BY DEF Answer
<1>1. humans \in Seq(Human) /\ policies \in Seq(Policy) /\ Len(humans) \in Nat
  BY DEF Shape
<1>2. x \in Human
  <2>1. CASE k
    <3>1. cases[c].of.id \in DOMAIN policies
      BY <1>0, <2>1 DEF CasesBacked, CaseBacked
    <3> QED BY <1>1, <2>1, <3>1 DEF Human
  <2>2. CASE ~k
    BY <2>2 DEF Human
  <2> QED BY <2>1, <2>2
<1> x.case = c /\ x.option = o
  OBVIOUS
<1> HIDE DEF x
<1>3. /\ humans' \in Seq(Human) /\ Len(humans') = Len(humans) + 1
      /\ DOMAIN humans' = DOMAIN humans \cup {Len(humans) + 1}
      /\ \A h \in DOMAIN humans : humans'[h] = humans[h]
      /\ humans'[Len(humans) + 1] = x
  BY <1>0, <1>1, <1>2, Grown
<1>4. doing' \in Answering
  BY <1>0, <1>1 DEF Answering
<1>5. Shape'
  BY <1>0, <1>3, <1>4 DEF Shape
<1>6. PoliciesGood'
  <2>1. \A p \in DOMAIN policies : policies[p].versions \in Seq(VersionRow)
    BY <1>1, PolicyShape
  <2> QED BY <1>0, <1>1, <1>2, <2>1, GoodStays DEF PoliciesGood
<1>7. CasesBacked'
  <2>1. ASSUME NEW d \in Cases, cases[d].status = "AUTO_PRECEDENT"
        PROVE  Cardinality(Agreeing(d, cases[d].option, humans')) >= 3
    <3>1. Cardinality(Agreeing(d, cases[d].option, humans)) >= 3
      BY <2>1 DEF CasesBacked, CaseBacked
    <3> QED BY <1>0, <1>1, <1>2, <3>1, AgreeingGrows
  <2> QED BY <1>0, <2>1 DEF CasesBacked, CaseBacked
<1>8. AnswerAtHand'
  BY <1>0, <1>1, <1>3 DEF AnswerAtHand
<1>9. FactsGood'
  <2>1. ActiveSets' = ActiveSets
    BY <1>0 DEF ActiveSets
  <2>2. \A f \in facts : Owned(f) => Owned(f)'
    BY <1>3 DEF Owned
  <2>3. doing'.step # "enact"
    BY <1>0
  <2> QED BY <1>0, <2>1, <2>2, <2>3 DEF FactsGood
<1> QED BY <1>5, <1>6, <1>7, <1>8, <1>9

\* The overruled policy loses its force: what had put it in force was its last
\* version, and the answer is to a case it had decided.
LEMMA DemoteInv == ASSUME LearnInv, Demote PROVE LearnInv'
<1> USE DEF LearnInv
<1> DEFINE of == cases[doing.case].of
           V == policies[of.id].versions
           v == Version("SHADOW", Latest(of.id).support, doing.human)
<1>0. /\ doing.step = "demote" /\ UNCHANGED <<asked, cases, humans, facts>>
      /\ \/ /\ Versioned(of.id, v)
            /\ doing' = [doing EXCEPT !.step = "resolve"]
         \/ UNCHANGED policies /\ doing' = Idle
  BY DEF Demote
<1>1. doing \in Answering
  BY <1>0, DoingShape
<1>2. /\ doing.human = Len(humans) /\ doing.human # 0
      /\ humans[doing.human].case = doing.case
      /\ humans[doing.human].option = doing.option
      /\ cases[doing.case].status = "AUTO_POLICY"
  BY <1>0 DEF AnswerAtHand
<1>3. doing.case \in Cases /\ doing.human \in Nat
  BY <1>1 DEF Answering
<1>4. /\ of.id \in DOMAIN policies
      /\ Covers(policies[of.id].terms, doing.case)
  BY <1>2, <1>3 DEF CasesBacked, CaseBacked
<1>5. policies[of.id] \in Policy
  BY <1>4 DEF Shape
<1>6. V \in Seq(VersionRow) /\ Len(V) > 0
  BY <1>4, <1>5 DEF Policy, PoliciesGood, GoodVersions
<1>7. V[Len(V)] \in VersionRow /\ Len(V) \in DOMAIN V
  BY <1>6
<1>8. v \in VersionRow /\ v.status = "SHADOW" /\ v.after = doing.human
      /\ v.support = V[Len(V)].support
  BY <1>3, <1>7 DEF Version, VersionRow, Latest
<1> HIDE DEF v
<1>9. doing.human \in DOMAIN humans
  BY <1>2, <1>3 DEF Shape
<1>10. Sound(policies[of.id].terms, v, humans)
  BY <1>2, <1>4, <1>7, <1>8, <1>9 DEF PoliciesGood, GoodVersions, Sound
<1>11. doing'.step # "enact" /\ doing' \in {Idle} \cup Answering
  BY <1>0, <1>1, IdleShape DEF Answering
<1>12. FactsGood'
  BY <1>0, <1>11, FactsStay
<1>13. CASE Versioned(of.id, v) /\ doing' = [doing EXCEPT !.step = "resolve"]
  <2>1. policies' \in Seq(Policy) /\ PoliciesGood' /\ PoliciesKept
    BY <1>0, <1>4, <1>8, <1>10, <1>13, VersionKeeps DEF PoliciesKept
  <2>2. Shape'
    BY <1>0, <1>11, <2>1 DEF Shape
  <2>3. CasesBacked'
    BY <1>0, <2>1, BackedStays DEF CasesBacked
  <2>4. AnswerAtHand'
    BY <1>0, <1>1, <1>2, <1>13 DEF AnswerAtHand, Answering
  <2> QED BY <1>12, <2>1, <2>2, <2>3, <2>4
<1>14. CASE UNCHANGED policies /\ doing' = Idle
  <2>1. Shape' /\ PoliciesGood'
    BY <1>0, <1>14 DEF Shape, PoliciesGood
  <2>2. CasesBacked'
    BY <1>0, <1>14 DEF CasesBacked, CaseBacked
  <2>3. AnswerAtHand'
    BY <1>14, IdleShape DEF AnswerAtHand
  <2> QED BY <1>12, <2>1, <2>2, <2>3
<1> QED BY <1>0, <1>13, <1>14

LEMMA ResolveInv == ASSUME LearnInv, ResolveCase PROVE LearnInv'
<1> USE DEF LearnInv
<1>0. /\ doing.step = "resolve" /\ UNCHANGED <<asked, humans, policies, facts>>
      /\ cases' = [cases EXCEPT ![doing.case].status = "HUMAN_RESOLVED",
                                ![doing.case].option = doing.option]
      /\ doing' = [doing EXCEPT !.step = "learn"]
  BY DEF ResolveCase
<1>1. doing \in Answering
  BY <1>0, DoingShape
<1>2. doing.case \in Cases
  BY <1>1 DEF Answering
<1>3. doing' \in Answering /\ doing'.step = "learn"
      /\ doing'.human = doing.human /\ doing'.case = doing.case
      /\ doing'.option = doing.option
  BY <1>0, <1>1 DEF Answering
<1>4. /\ DOMAIN cases' = Cases
      /\ \A c \in Cases : DOMAIN cases'[c] = {"status", "option", "of"}
      /\ \A c \in Cases : c # doing.case => cases'[c] = cases[c]
      /\ cases'[doing.case].status = "HUMAN_RESOLVED"
  BY <1>0, <1>2 DEF Shape
<1>5. Shape'
  BY <1>0, <1>3, <1>4 DEF Shape
<1>6. PoliciesGood'
  BY <1>0 DEF PoliciesGood
<1>7. CasesBacked'
  <2>1. ASSUME NEW c \in Cases, c = doing.case PROVE CaseBacked(c)'
    BY <1>4, <2>1 DEF CaseBacked
  <2>2. ASSUME NEW c \in Cases, c # doing.case PROVE CaseBacked(c)'
    BY <1>0, <1>4, <2>2, BackedStays DEF CasesBacked, PoliciesKept
  <2>3. \A c \in Cases : CaseBacked(c)'
    <3> SUFFICES ASSUME NEW c \in Cases PROVE CaseBacked(c)'
      OBVIOUS
    <3> QED BY <2>1, <2>2
  <2> QED BY <2>3 DEF CasesBacked
<1>8. AnswerAtHand'
  BY <1>0, <1>3 DEF AnswerAtHand
<1>9. FactsGood'
  BY <1>0, <1>3, FactsStay
<1> QED BY <1>5, <1>6, <1>7, <1>8, <1>9

\* A decision joins a policy that says the same or makes one of its own.
LEMMA LearnKeeps == ASSUME LearnInv, Learn PROVE LearnInv'
<1> USE DEF LearnInv
<1> DEFINE t == TermsOf(doing.case, doing.option, doing.scope)
           Next_(p) == [step |-> IF t.scope = "GLOBAL" THEN "fact" ELSE "promote",
                        policy |-> p, case |-> doing.case,
                        option |-> doing.option, human |-> doing.human]
           Shadow(support) == Version("SHADOW", support, 0)
           Joins(p) == /\ t.scope # "GLOBAL" /\ p \in DOMAIN policies
                       /\ policies[p].terms = t
                       /\ Versioned(p, Shadow(Latest(p).support \cup {doing.human}))
                       /\ doing' = Next_(p)
           Makes == /\ policies' = Append(policies,
                         [terms |-> t, versions |-> <<Shadow({doing.human})>>])
                    /\ doing' = Next_(Len(policies) + 1)
           Bars == /\ UNCHANGED policies
                   /\ doing' = [Next_(0) EXCEPT !.step = "fact"]
<1>0. doing.step = "learn" /\ UNCHANGED <<asked, cases, humans, facts>>
  BY DEF Learn
<1>1. (\E p : Joins(p)) \/ Makes \/ Bars
  BY DEF Learn, Mergeable
<1>2. doing \in Answering
  BY <1>0, DoingShape
<1>3. /\ doing.case \in Cases /\ doing.option \in Options
      /\ doing.scope \in Scopes /\ doing.human \in Nat
  BY <1>2 DEF Answering
<1>4. /\ doing.human = Len(humans) /\ doing.human # 0
      /\ humans[doing.human].case = doing.case
      /\ humans[doing.human].option = doing.option
  BY <1>0 DEF AnswerAtHand
<1>5. doing.human \in DOMAIN humans /\ policies \in Seq(Policy)
  BY <1>3, <1>4 DEF Shape
<1>6. t \in Terms /\ t.scope = doing.scope
      /\ TermsOf(humans[doing.human].case, humans[doing.human].option, t.scope) = t
  BY <1>3, <1>4 DEF Terms, TermsOf
<1> HIDE DEF t
\* What both ways of learning have in common.
<1>7. ASSUME NEW p \in Nat
      PROVE  /\ Next_(p) \in Learning /\ Next_(p).human = doing.human
             /\ Next_(p).case = doing.case /\ Next_(p).option = doing.option
             /\ Next_(p).policy = p
             /\ Next_(p).step = IF t.scope = "GLOBAL" THEN "fact" ELSE "promote"
  BY <1>3 DEF Learning
<1>8. ASSUME NEW V \in SUBSET Nat
      PROVE  Shadow(V) \in VersionRow /\ Shadow(V).support = V
             /\ Shadow(V).status = "SHADOW" /\ Shadow(V).after = 0
  BY DEF Version, VersionRow
<1> HIDE DEF Next_, Shadow
<1>9. CASE \E p : Joins(p)
  <2>1. PICK p : Joins(p)
    BY <1>9
  <2>2. p \in DOMAIN policies /\ p \in Nat
    BY <1>5, <2>1
  <2> DEFINE V == policies[p].versions
             S == V[Len(V)].support \cup {doing.human}
  <2>3. V \in Seq(VersionRow) /\ Len(V) > 0
    BY <1>5, <2>2, PolicyShape DEF PoliciesGood, GoodVersions
  <2>4. V[Len(V)] \in VersionRow /\ Len(V) \in DOMAIN V
    BY <2>3
  <2>5. S \in SUBSET Nat
    BY <1>3, <2>4 DEF VersionRow
  <2>6. Sound(t, V[Len(V)], humans)
    BY <2>1, <2>2, <2>4 DEF PoliciesGood, GoodVersions
  <2>7. Sound(t, Shadow(S), humans)
    BY <1>5, <1>6, <1>8, <2>5, <2>6 DEF Sound
  <2>8. Versioned(p, Shadow(S)) /\ policies[p].terms = t
    BY <2>1 DEF Latest
  <2>9. Shadow(S) \in VersionRow /\ Shadow(S).status # "ACTIVE"
    BY <1>8, <2>5
  <2> HIDE DEF S
  <2>10. policies' \in Seq(Policy) /\ PoliciesGood' /\ PoliciesKept
    BY <1>0, <2>2, <2>7, <2>8, <2>9, VersionKeeps DEF PoliciesKept
  <2>11. doing' = Next_(p) /\ t.scope # "GLOBAL"
    BY <2>1
  <2>12. p \in DOMAIN policies' /\ policies'[p].terms = t
    BY <2>2, <2>8, <2>10 DEF PoliciesKept
  <2>13. Shape'
    BY <1>0, <1>7, <2>2, <2>10, <2>11 DEF Shape
  <2>14. CasesBacked'
    BY <1>0, <2>10, BackedStays DEF CasesBacked
  <2>15. AnswerAtHand'
    BY <1>0, <1>4, <1>7, <2>2, <2>11, <2>12 DEF AnswerAtHand
  <2>16. doing'.step # "enact"
    BY <1>7, <2>2, <2>11
  <2>17. FactsGood'
    BY <1>0, <2>16, FactsStay
  <2> QED BY <2>10, <2>13, <2>14, <2>15, <2>17
<1>10. CASE Makes
  <2> DEFINE v == Shadow({doing.human})
             P == [terms |-> t, versions |-> <<v>>]
             n == Len(policies) + 1
  <2>1. /\ v \in VersionRow /\ v.status = "SHADOW" /\ v.after = 0
        /\ v.support = {doing.human}
    BY <1>3, <1>8
  <2>2. /\ P \in Policy /\ P.terms = t /\ Len(P.versions) = 1
        /\ DOMAIN P.versions = {1} /\ P.versions[1] = v
    BY <1>6, <2>1 DEF Policy
  <2>3. Sound(t, v, humans)
    BY <1>5, <1>6, <2>1 DEF Sound
  <2> HIDE DEF v
  <2>4. GoodVersions(t, P.versions, humans)
    BY <2>1, <2>2, <2>3 DEF GoodVersions
  <2>5. policies' = Append(policies, P) /\ doing' = Next_(n)
    BY <1>10 DEF v
  <2> HIDE DEF P
  <2>6. /\ policies' \in Seq(Policy)
        /\ DOMAIN policies' = DOMAIN policies \cup {n} /\ n \in Nat
        /\ \A q \in DOMAIN policies : policies'[q] = policies[q]
        /\ policies'[n] = P
    BY <1>5, <2>2, <2>5, Grown
  <2> HIDE DEF n
  <2>7. PoliciesGood'
    BY <1>0, <2>2, <2>4, <2>6 DEF PoliciesGood
  <2>8. PoliciesKept
    BY <2>6 DEF PoliciesKept
  <2>9. Shape'
    BY <1>0, <1>7, <2>5, <2>6 DEF Shape
  <2>10. CasesBacked'
    BY <1>0, <2>8, BackedStays DEF CasesBacked
  <2>11. AnswerAtHand'
    BY <1>0, <1>4, <1>7, <2>2, <2>5, <2>6 DEF AnswerAtHand
  <2>12. FactsGood'
    <3>1. doing'.step # "enact"
      BY <1>7, <2>5, <2>6
    <3> QED BY <1>0, <3>1, FactsStay
  <2> QED BY <2>7, <2>9, <2>10, <2>11, <2>12
<1>11. CASE Bars
  <2>1. /\ doing' \in Learning /\ doing'.step = "fact"
        /\ doing'.human = doing.human /\ doing'.case = doing.case
        /\ doing'.option = doing.option
    BY <1>3, <1>11 DEF Learning, Next_
  <2>2. Shape'
    BY <1>0, <1>11, <2>1 DEF Shape
  <2>3. PoliciesGood' /\ PoliciesKept
    BY <1>0, <1>11 DEF PoliciesGood, PoliciesKept
  <2>4. CasesBacked'
    BY <1>0, <2>3, BackedStays DEF CasesBacked
  <2>5. AnswerAtHand'
    BY <1>0, <1>4, <2>1 DEF AnswerAtHand
  <2>6. FactsGood'
    BY <1>0, <2>1, FactsStay
  <2> QED BY <2>2, <2>3, <2>4, <2>5, <2>6
<1> QED BY <1>1, <1>9, <1>10, <1>11

\* A policy that was overruled does not pass: shadowEvaluate looks at the answer
\* that overruled it, because the policy covers its case.
LEMMA PassesUnruled ==
  ASSUME LearnInv, NEW p \in DOMAIN policies, ShadowPasses(p)
  PROVE  ~Overruled(policies[p].terms, policies[p].versions, humans)
<1> SUFFICES ASSUME NEW n \in DOMAIN policies[p].versions,
                    policies[p].versions[n].after # 0,
                    humans[policies[p].versions[n].after].option
                      # policies[p].terms.option
             PROVE  FALSE
  BY DEF Overruled
<1> DEFINE h == policies[p].versions[n].after
<1>1. h \in DOMAIN humans /\ Covers(policies[p].terms, humans[h].case)
  BY DEF LearnInv, PoliciesGood, GoodVersions, Sound
<1>2. humans[h].option = policies[p].terms.option
  BY <1>1 DEF ShadowPasses, Covers
<1> QED BY <1>2

LEMMA PromoteInv == ASSUME LearnInv, Promote PROVE LearnInv'
<1> USE DEF LearnInv
<1> DEFINE p == doing.policy
           V == policies[p].versions
           v == Version("ACTIVE", Latest(p).support, 0)
<1>0. /\ doing.step = "promote" /\ UNCHANGED <<asked, cases, humans, facts>>
      /\ doing' = [doing EXCEPT !.step = "fact"]
      /\ \/ /\ ShadowPasses(p) /\ Cardinality(Latest(p).support) >= 2
            /\ Versioned(p, v)
         \/ UNCHANGED policies
  BY DEF Promote
<1>1. doing \in Learning
  BY <1>0, DoingShape
<1>2. /\ doing' \in Learning /\ doing'.step = "fact"
      /\ doing'.human = doing.human /\ doing'.case = doing.case
      /\ doing'.option = doing.option
  BY <1>0, <1>1 DEF Learning
<1>3. AnswerAtHand'
  BY <1>0, <1>2 DEF AnswerAtHand
<1>4. FactsGood'
  BY <1>0, <1>2, FactsStay
<1>5. policies' \in Seq(Policy) /\ PoliciesGood' /\ PoliciesKept
  <2>1. CASE UNCHANGED policies
    BY <1>0, <2>1 DEF Shape, PoliciesGood, PoliciesKept
  <2>2. CASE ShadowPasses(p) /\ Cardinality(Latest(p).support) >= 2
               /\ Versioned(p, v)
    <3>1. p \in DOMAIN policies /\ policies[p].terms.scope # "GLOBAL"
      BY <1>0 DEF AnswerAtHand
    <3>2. V \in Seq(VersionRow) /\ Len(V) > 0
      BY <3>1, PolicyShape DEF Shape, PoliciesGood, GoodVersions
    <3>3. V[Len(V)] \in VersionRow /\ Len(V) \in DOMAIN V
      BY <3>2
    <3>4. /\ v \in VersionRow /\ v.after = 0 /\ v.status = "ACTIVE"
          /\ v.support = V[Len(V)].support
          /\ Cardinality(v.support) >= 2
      BY <2>2, <3>3 DEF Version, VersionRow, Latest
    <3>5. ~Overruled(policies[p].terms, V, humans)
      BY <2>2, <3>1, PassesUnruled
    <3> HIDE DEF v
    <3>6. Versioned(p, v)
      BY <2>2
    <3>7. Sound(policies[p].terms, v, humans)
      BY <3>1, <3>3, <3>4 DEF PoliciesGood, GoodVersions, Sound
    <3>8. ~Overruled(policies[p].terms, Append(V, v), humans)
      <4>1. /\ DOMAIN Append(V, v) = DOMAIN V \cup {Len(V) + 1}
            /\ \A n \in DOMAIN V : Append(V, v)[n] = V[n]
            /\ Append(V, v)[Len(V) + 1] = v
        BY <3>2, <3>4, Grown
      <4> QED BY <3>4, <3>5, <4>1 DEF Overruled
    <3> HIDE DEF p
    <3> QED BY <1>0, <3>1, <3>4, <3>6, <3>7, <3>8, VersionKeeps DEF PoliciesKept
  <2> QED BY <1>0, <2>1, <2>2
<1>6. Shape'
  BY <1>0, <1>2, <1>5 DEF Shape
<1>7. CasesBacked'
  BY <1>0, <1>5, BackedStays DEF CasesBacked
<1> QED BY <1>3, <1>4, <1>5, <1>6, <1>7

-----------------------------------------------------------------------------
(* The facts. *)

LEMMA RowChanged ==
  ASSUME NEW f \in FactRow, NEW n \in Nat, NEW o,
         o = [f EXCEPT !.version = n, !.status = "SUPERSEDED"]
  PROVE  /\ o \in FactRow /\ o.status = "SUPERSEDED"
         /\ o.id = f.id /\ o.human = f.human
BY DEF FactRow

LEMMA ActiveFacts ==
  \A f : f \in ActiveSets <=>
    /\ f \in facts /\ f.status = "ACTIVE"
    /\ \A g \in facts : g.id = f.id /\ g.status = "ACTIVE" => g.version <= f.version
BY DEF ActiveSets

\* A row in force that is newer than the others of its id takes their place.
LEMMA RowInForce ==
  ASSUME FactsGood, facts \subseteq FactRow, NEW r \in FactRow,
         facts' = facts \cup {r}, r.status = "ACTIVE", Owned(r), Newer(r),
         humans' = humans, doing'.step # "enact"
  PROVE  FactsGood'
<1>1. \A f : f \in ActiveSets' <=>
        /\ f \in facts' /\ f.status = "ACTIVE"
        /\ \A g \in facts' : g.id = f.id /\ g.status = "ACTIVE"
             => g.version <= f.version
  BY DEF ActiveSets
<1>2. \A f \in facts \cup {r} : f.version \in Nat
  BY DEF FactRow
<1>3. \A f \in facts : f.status = "ACTIVE" /\ f.id = r.id => f.version < r.version
  BY DEF Newer
<1>4. r \in ActiveSets'
  BY <1>1, <1>2, <1>3
<1>5. ASSUME NEW f \in ActiveSets, f.id # r.id
      PROVE  f \in ActiveSets'
  BY <1>1, <1>5, ActiveFacts
<1>6. ASSUME NEW f \in ActiveSets', f # r
      PROVE  f \in ActiveSets /\ f.id # r.id
  <2>1. f \in facts /\ f.status = "ACTIVE"
    BY <1>1, <1>6
  <2>2. f.id # r.id
    <3> SUFFICES ASSUME f.id = r.id PROVE FALSE
      OBVIOUS
    <3>1. r.version <= f.version
      BY <1>1, <1>6
    <3>2. f.version < r.version /\ f.version \in Nat /\ r.version \in Nat
      BY <1>2, <1>3, <2>1
    <3> QED BY <3>1, <3>2
  <2>3. f \in ActiveSets
    BY <1>1, <1>6, ActiveFacts
  <2> QED BY <2>2, <2>3
<1>7. \A f \in facts' : Owned(f)'
  BY DEF FactsGood, Owned
<1>8. ASSUME NEW f \in facts', f.status = "ACTIVE"
      PROVE  \E g \in ActiveSets' : g.id = f.id
  <2>1. CASE f.id = r.id
    BY <1>4, <2>1
  <2>2. CASE f.id # r.id
    <3>1. PICK g \in ActiveSets : g.id = f.id
      BY <1>8, <2>2 DEF FactsGood
    <3> QED BY <1>5, <2>2, <3>1
  <2> QED BY <2>1, <2>2
<1>9. ASSUME NEW f \in ActiveSets', NEW g \in facts', g.status = "ACTIVE",
             g.id = f.id, f.id.kind = "override"
      PROVE  g.human <= f.human
  <2>1. CASE f = r /\ g = r
    BY <2>1 DEF FactRow
  <2>2. CASE f = r /\ g # r
    BY <1>9, <2>2 DEF Newer
  <2>3. CASE f # r
    BY <1>6, <1>9, <2>3 DEF FactsGood
  <2> QED BY <2>1, <2>2, <2>3
<1> QED BY <1>7, <1>8, <1>9 DEF FactsGood

\* A row that is out of force changes nothing of what is in force.
LEMMA RowSuperseded ==
  ASSUME FactsGood, NEW r, facts' = facts \cup {r}, r.status = "SUPERSEDED",
         Owned(r), humans' = humans,
         doing'.step = "enact" => /\ doing'.row.status = "ACTIVE"
                                  /\ Owned(doing'.row) /\ Newer(doing'.row)
  PROVE  FactsGood'
<1>1. ActiveSets' = ActiveSets
  <2>1. \A f : f \in ActiveSets' <=>
          /\ f \in facts' /\ f.status = "ACTIVE"
          /\ \A g \in facts' : g.id = f.id /\ g.status = "ACTIVE"
               => g.version <= f.version
    BY DEF ActiveSets
  <2>2. \A f : f \in ActiveSets' <=> f \in ActiveSets
    BY <2>1, ActiveFacts
  <2> QED BY <2>2
<1>2. \A f \in facts' : Owned(f)'
  BY DEF FactsGood, Owned
<1>3. \A f \in facts' : f.status = "ACTIVE" => \E g \in ActiveSets' : g.id = f.id
  BY <1>1 DEF FactsGood
<1>4. \A f \in ActiveSets', g \in facts' :
        g.status = "ACTIVE" /\ g.id = f.id /\ f.id.kind = "override"
          => g.human <= f.human
  BY <1>1 DEF FactsGood
<1>5. \A q : (Owned(q) => Owned(q)') /\ (Newer(q) => Newer(q)')
  BY DEF Owned, Newer
<1> QED BY <1>2, <1>3, <1>4, <1>5 DEF FactsGood

\* Replacing, in one statement or up to the one that enacts the new row.
LEMMA ReplaceInv ==
  ASSUME LearnInv, NEW id \in FactId, NEW value \in FactValue,
         NEW human \in Nat, Replace(id, value, human),
         UNCHANGED <<asked, cases, humans, policies>>,
         id.kind = "override" =>
           /\ human = Len(humans) /\ human # 0
           /\ id = OverrideId(humans[human].case)
  PROVE  LearnInv'
<1> USE DEF LearnInv
<1>1. facts \subseteq FactRow /\ Len(humans) \in Nat
      /\ DOMAIN humans = 1 .. Len(humans)
  BY DEF Shape
<1>2. \A n \in Nat, s \in {"ACTIVE", "SUPERSEDED"} :
        /\ Row(id, n, s, value, human) \in FactRow
        /\ Row(id, n, s, value, human).id = id
        /\ Row(id, n, s, value, human).version = n
        /\ Row(id, n, s, value, human).status = s
        /\ Row(id, n, s, value, human).human = human
  BY DEF Row, FactRow
<1>3. ASSUME NEW r \in FactRow, r.id = id, r.human = human
      PROVE  Owned(r)
  BY <1>1, <1>3 DEF Owned
<1>4. ASSUME NEW f \in facts, f.id = id, id.kind = "override"
      PROVE  f.human <= human
  <2>1. f.human \in DOMAIN humans
    BY <1>4 DEF FactsGood, Owned
  <2> QED BY <1>1, <1>4, <2>1
<1>5. ASSUME doing' \in {Idle} \cup Enacting, facts' \subseteq FactRow, FactsGood'
      PROVE  LearnInv'
  <2>1. doing'.step \in {"idle", "enact"}
    BY <1>5, IdleShape DEF Enacting
  <2>2. Shape'
    BY <1>5 DEF Shape
  <2>3. PoliciesGood' /\ PoliciesKept
    BY DEF PoliciesGood, PoliciesKept
  <2>4. CasesBacked'
    BY <2>3, BackedStays DEF CasesBacked
  <2>5. AnswerAtHand'
    BY <2>1 DEF AnswerAtHand
  <2> QED BY <1>5, <2>2, <2>3, <2>4, <2>5
<1>6. CASE Existing(id) = {}
  <2> DEFINE r == Row(id, 1, "ACTIVE", value, human)
  <2>1. facts' = facts \cup {r} /\ doing' = Idle
    BY <1>6 DEF Replace
  <2>2. r \in FactRow /\ r.id = id /\ r.status = "ACTIVE" /\ Owned(r)
    BY <1>2, <1>3
  <2>3. \A f \in facts : ~(f.status = "ACTIVE" /\ f.id = id)
    BY <1>6 DEF Existing, FactsGood
  <2>4. Newer(r)
    BY <2>2, <2>3 DEF Newer
  <2> HIDE DEF r
  <2>5. FactsGood'
    BY <1>1, <2>1, <2>2, <2>4, IdleShape, RowInForce
  <2>6. facts' \subseteq FactRow
    BY <1>1, <2>1, <2>2
  <2> QED BY <1>5, <2>1, <2>5, <2>6
<1>7. CASE Existing(id) # {}
  <2>1. PICK f \in Existing(id) :
          IF Stored(f.id, f.version + 1)
          THEN UNCHANGED facts /\ doing' = Idle
          ELSE /\ facts' = facts \cup
                    {[f EXCEPT !.version = f.version + 1, !.status = "SUPERSEDED"]}
               /\ doing' = [step |-> "enact",
                            row |-> Row(f.id, f.version + 2, "ACTIVE", value, human)]
    BY <1>7 DEF Replace
  <2>2. f \in ActiveSets /\ f.id = id /\ f \in FactRow /\ f \in facts
    BY <1>1, ActiveFacts DEF Existing
  <2>3. CASE Stored(f.id, f.version + 1)
    <3>1. facts' = facts /\ doing' = Idle
      BY <2>1, <2>3
    <3>2. FactsGood'
      BY <3>1, IdleShape, FactsStay
    <3> QED BY <1>1, <1>5, <3>1, <3>2
  <2>4. CASE ~Stored(f.id, f.version + 1)
    <3> DEFINE o == [f EXCEPT !.version = f.version + 1, !.status = "SUPERSEDED"]
               r == Row(id, f.version + 2, "ACTIVE", value, human)
    <3>1. f.version \in Nat
      BY <2>2 DEF FactRow
    <3>2. facts' = facts \cup {o} /\ doing' = [step |-> "enact", row |-> r]
      BY <2>1, <2>2, <2>4
    <3>3. /\ o \in FactRow /\ o.status = "SUPERSEDED"
          /\ o.id = f.id /\ o.human = f.human
      <4>1. o = [f EXCEPT !.version = f.version + 1, !.status = "SUPERSEDED"]
        OBVIOUS
      <4>2. f \in FactRow /\ f.version + 1 \in Nat
        BY <2>2, <3>1
      <4> HIDE DEF o
      <4> QED BY <4>1, <4>2, RowChanged
    <3>4. /\ r \in FactRow /\ r.id = id /\ r.status = "ACTIVE"
          /\ r.version = f.version + 2 /\ r.human = human
      BY <1>2, <3>1
    <3> HIDE DEF o, r
    <3>5. Owned(o)
      BY <2>2, <3>3 DEF FactsGood, Owned
    <3>6. Owned(r)
      BY <1>3, <3>4
    <3>7. Newer(r)
      <4> SUFFICES ASSUME NEW g \in facts, g.status = "ACTIVE", g.id = r.id
                   PROVE  /\ g.version < r.version
                          /\ g.id.kind = "override" => g.human <= r.human
        BY DEF Newer
      <4>1. g.version <= f.version /\ g.version \in Nat
        BY <1>1, <2>2, <3>4, ActiveFacts DEF FactRow
      <4>2. g.id.kind = "override" => g.human <= r.human
        BY <1>4, <3>4
      <4> QED BY <3>1, <3>4, <4>1, <4>2
    <3>8. doing'.step = "enact" /\ doing'.row = r /\ doing' \in Enacting
      BY <3>2, <3>4 DEF Enacting
    <3>9. FactsGood'
      BY <3>2, <3>3, <3>4, <3>5, <3>6, <3>7, <3>8, RowSuperseded
    <3>10. facts' \subseteq FactRow
      BY <1>1, <3>2, <3>3
    <3> QED BY <1>5, <3>8, <3>9, <3>10
  <2> QED BY <2>3, <2>4
<1> QED BY <1>6, <1>7

LEMMA OverrideFactInv == ASSUME LearnInv, OverrideFact PROVE LearnInv'
<1> USE DEF LearnInv
<1>0. doing.step = "fact" /\ UNCHANGED <<asked, cases, humans, policies>>
  BY DEF OverrideFact
<1>1. doing \in Learning
  BY <1>0, DoingShape
<1>2. doing.case \in Cases /\ doing.option \in Options /\ doing.human \in Nat
  BY <1>1 DEF Learning
<1>3. /\ doing.human = Len(humans) /\ doing.human # 0
      /\ humans[doing.human].case = doing.case
  BY <1>0 DEF AnswerAtHand
<1>4. CASE Replace(OverrideId(doing.case), doing.option, doing.human)
  <2>1. OverrideId(doing.case) \in FactId /\ doing.option \in FactValue
    BY <1>2, CaseFacts DEF OverrideId, FactId, FactValue
  <2> QED BY <1>0, <1>2, <1>3, <1>4, <2>1, ReplaceInv
<1>5. CASE doing' = Idle /\ UNCHANGED facts
  <2>1. Shape'
    BY <1>0, <1>5 DEF Shape
  <2>2. PoliciesGood' /\ PoliciesKept
    BY <1>0 DEF PoliciesGood, PoliciesKept
  <2>3. CasesBacked'
    BY <1>0, <2>2, BackedStays DEF CasesBacked
  <2>4. AnswerAtHand'
    BY <1>5, IdleShape DEF AnswerAtHand
  <2>5. FactsGood'
    BY <1>0, <1>5, IdleShape, FactsStay
  <2> QED BY <2>1, <2>2, <2>3, <2>4, <2>5
<1> QED BY <1>4, <1>5 DEF OverrideFact

LEMMA LearnCategoryInv ==
  ASSUME LearnInv, NEW e \in asked.learn, LearnCategory(e[1], e[2])
  PROVE  LearnInv'
<1>1. asked.learn \subseteq (STRING \X STRING) \X Nat
  BY DecisionConstants DEF LearnInv, Shape, DecisionConstants
<1>2. e[1][1] \in STRING /\ e[1][2] \in STRING /\ e[2] \in FactValue
  BY <1>1 DEF FactValue
<1>3. CategoryId(e[1]) \in FactId /\ CategoryId(e[1]).kind # "override"
  BY <1>2 DEF CategoryId, FactId
<1>4. /\ Replace(CategoryId(e[1]), e[2], 0)
      /\ UNCHANGED <<asked, cases, humans, policies>>
  BY DEF LearnCategory
<1> QED BY <1>2, <1>3, <1>4, ReplaceInv

LEMMA EnactInv == ASSUME LearnInv, Enact PROVE LearnInv'
<1> USE DEF LearnInv
<1>0. /\ doing.step = "enact" /\ facts' = facts \cup {doing.row}
      /\ doing' = Idle /\ UNCHANGED <<asked, cases, humans, policies>>
  BY DEF Enact
<1>1. doing.row \in FactRow
  BY <1>0, DoingShape DEF Enacting
<1>2. facts \subseteq FactRow
  BY DEF Shape
<1>3. doing.row.status = "ACTIVE" /\ Owned(doing.row) /\ Newer(doing.row)
  BY <1>0 DEF FactsGood
<1>4. FactsGood'
  BY <1>0, <1>1, <1>2, <1>3, IdleShape, RowInForce
<1>5. Shape'
  BY <1>0, <1>1, <1>2 DEF Shape
<1>6. PoliciesGood' /\ PoliciesKept
  BY <1>0 DEF PoliciesGood, PoliciesKept
<1>7. CasesBacked'
  BY <1>0, <1>6, BackedStays DEF CasesBacked
<1>8. AnswerAtHand'
  BY <1>0, IdleShape DEF AnswerAtHand
<1> QED BY <1>4, <1>5, <1>6, <1>7, <1>8

-----------------------------------------------------------------------------
(* The engine. *)

\* A case is decided and nothing else happens.
LEMMA FinishInv ==
  ASSUME LearnInv, NEW c \in Cases, NEW status, NEW option, NEW of,
         Finish(c, status, option, of), doing = Idle,
         status = "AUTO_POLICY" =>
           /\ of.id \in DOMAIN policies
           /\ of.version \in DOMAIN policies[of.id].versions
           /\ policies[of.id].versions[of.version].status = "ACTIVE"
           /\ Covers(policies[of.id].terms, c)
           /\ option = policies[of.id].terms.option,
         status = "AUTO_PRECEDENT" =>
           Cardinality(Agreeing(c, option, humans)) >= 3
  PROVE  LearnInv'
<1> USE DEF LearnInv
<1>0. /\ cases' = [cases EXCEPT
                     ![c] = [status |-> status, option |-> option, of |-> of]]
      /\ UNCHANGED <<asked, humans, policies, facts, doing>>
  BY DEF Finish
<1>1. /\ DOMAIN cases' = Cases
      /\ \A d \in Cases : d # c => cases'[d] = cases[d]
      /\ cases'[c] = [status |-> status, option |-> option, of |-> of]
  BY <1>0 DEF Shape
<1>2. Shape'
  BY <1>0, <1>1 DEF Shape
<1>3. PoliciesGood' /\ PoliciesKept
  BY <1>0 DEF PoliciesGood, PoliciesKept
<1>4. CasesBacked'
  <2>1. /\ cases'[c].status = status /\ cases'[c].option = option
        /\ cases'[c].of = of
    BY <1>1
  <2>2. CaseBacked(c)'
    BY <1>0, <2>1 DEF CaseBacked
  <2>3. ASSUME NEW d \in Cases, d # c PROVE CaseBacked(d)'
    BY <1>0, <1>1, <1>3, <2>3, BackedStays DEF CasesBacked
  <2> QED BY <2>2, <2>3 DEF CasesBacked
<1>5. AnswerAtHand'
  BY <1>0, IdleShape DEF AnswerAtHand
<1>6. FactsGood'
  BY <1>0, IdleShape, FactsStay
<1> QED BY <1>2, <1>3, <1>4, <1>5, <1>6

LEMMA ByPolicyInv ==
  ASSUME LearnInv, NEW c \in Cases, ByPolicy(c)
  PROVE  LearnInv'
<1>1. doing = Idle
  BY DEF ByPolicy, Undetermined, Pending
<1>2. PICK p \in Applicable(c) :
        Finish(c, "AUTO_POLICY", policies[p].terms.option,
               [id |-> p, version |-> Len(policies[p].versions)])
  BY DEF ByPolicy
<1> DEFINE of == [id |-> p, version |-> Len(policies[p].versions)]
<1>3. /\ p \in DOMAIN policies /\ Applies(policies[p].terms, c)
      /\ policies[p].versions[Len(policies[p].versions)].status = "ACTIVE"
  BY DEF Applicable, Latest
<1>4. policies[p].terms \in Terms /\ policies[p].versions \in Seq(VersionRow)
  BY <1>3, PolicyShape DEF LearnInv, Shape
<1>5. Len(policies[p].versions) > 0
  BY <1>3 DEF LearnInv, PoliciesGood, GoodVersions
<1>6. Len(policies[p].versions) \in DOMAIN policies[p].versions
  BY <1>4, <1>5
<1>7. Covers(policies[p].terms, c)
  BY <1>3, <1>4, AppliesCovers
<1>8. of.id = p /\ of.version = Len(policies[p].versions)
      /\ Finish(c, "AUTO_POLICY", policies[p].terms.option, of)
  BY <1>2
<1> HIDE DEF of
<1> QED BY <1>1, <1>3, <1>6, <1>7, <1>8, FinishInv

LEMMA ByPrecedentInv ==
  ASSUME LearnInv, NEW c \in Cases, ByPrecedent(c)
  PROVE  LearnInv'
<1> DEFINE P == Precedents(c)
           f == [h \in P |-> humans[h].option]
<1>1. PICK o \in OptionsOf(P) : Finish(c, "AUTO_PRECEDENT", o, NoPolicy)
  BY DEF ByPrecedent
<1>2. doing = Idle /\ Cardinality(OptionsOf(P)) = 1 /\ Cardinality(P) >= 3
  BY DEF ByPrecedent, Undetermined, Pending, PrecedentGate
<1>3. humans \in Seq(Human) /\ P \subseteq DOMAIN humans
  BY DEF LearnInv, Shape, Precedents
<1>4. IsFiniteSet(P) /\ Cardinality(P) \in Nat
  BY <1>3, Recorded
<1>5. IsFiniteSet(OptionsOf(P))
  <2>1. f \in Surjection(P, OptionsOf(P))
    BY DEF Surjection, OptionsOf
  <2> QED BY <1>4, <2>1, FS_Surjection
<1>6. \A h \in P : humans[h].option = o
  <2>1. PICK x : OptionsOf(P) = {x}
    BY <1>2, <1>5, FS_Singleton
  <2>2. \A h \in P : humans[h].option \in OptionsOf(P)
    BY DEF OptionsOf
  <2> QED BY <1>1, <2>1, <2>2
<1>7. P \subseteq Agreeing(c, o, humans)
  BY <1>3, <1>6 DEF Precedents, Agreeing
<1>8. /\ IsFiniteSet(Agreeing(c, o, humans))
      /\ Cardinality(Agreeing(c, o, humans)) \in Nat
  BY <1>3, Recorded DEF Agreeing
<1>9. Cardinality(P) <= Cardinality(Agreeing(c, o, humans))
  BY <1>7, <1>8, FS_Subset
<1>10. Cardinality(Agreeing(c, o, humans)) >= 3
  BY <1>2, <1>4, <1>8, <1>9
<1> QED BY <1>1, <1>2, <1>10, FinishInv

LEMMA EngineInv ==
  ASSUME LearnInv, NEW c \in Cases, Engine(c)
  PROVE  LearnInv'
<1>1. CASE ByDeterministic(c)
  BY <1>1, FinishInv DEF ByDeterministic, Pending
<1>2. CASE PolicyConflict(c)
  BY <1>2, FinishInv DEF PolicyConflict, Undetermined, Pending
<1>3. CASE ByReasoner(c)
  <2>1. doing = Idle
    BY <1>3 DEF ByReasoner, Undetermined, Pending
  <2>2. \/ \E o : Finish(c, "AUTO_AI", o, NoPolicy)
        \/ Finish(c, "HUMAN_REVIEW_REQUIRED", None, NoPolicy)
    BY <1>3 DEF ByReasoner
  <2> QED BY <2>1, <2>2, FinishInv
<1> QED BY <1>1, <1>2, <1>3, ByPolicyInv, ByPrecedentInv DEF Engine

\* A stop loses the rest of the answer, and nothing that was stored.
LEMMA StopInv == ASSUME LearnInv, Stop PROVE LearnInv'
<1> USE DEF LearnInv
<1>0. doing' = Idle /\ UNCHANGED <<asked, cases, humans, policies, facts>>
  BY DEF Stop
<1>1. Shape'
  BY <1>0 DEF Shape
<1>2. PoliciesGood' /\ PoliciesKept
  BY <1>0 DEF PoliciesGood, PoliciesKept
<1>3. CasesBacked'
  BY <1>0, <1>2, BackedStays DEF CasesBacked
<1>4. AnswerAtHand'
  BY <1>0, IdleShape DEF AnswerAtHand
<1>5. FactsGood'
  BY <1>0, IdleShape, FactsStay
<1> QED BY <1>1, <1>2, <1>3, <1>4, <1>5

LEMMA InitInv == Init => LearnInv
<1> SUFFICES ASSUME Init PROVE LearnInv
  OBVIOUS
<1> USE DEF Init
<1>1. Shape
  BY EmptySeq DEF Shape, Unresolved
<1>2. PoliciesGood
  BY DEF PoliciesGood
<1>3. CasesBacked
  BY DEF CasesBacked, CaseBacked, Unresolved
<1>4. AnswerAtHand
  BY IdleShape DEF AnswerAtHand
<1>5. FactsGood
  BY IdleShape DEF FactsGood, ActiveSets
<1> QED BY <1>1, <1>2, <1>3, <1>4, <1>5 DEF LearnInv

LEMMA NextInv == ASSUME LearnInv, [Next]_vars PROVE LearnInv'
<1>0. asked.cases \subseteq Cases /\ asked.scopes \subseteq Scopes
  BY DecisionConstants DEF LearnInv, Shape, DecisionConstants
<1>1. CASE UNCHANGED vars
  <2>1. UNCHANGED <<asked, cases, humans, policies, facts, doing>>
    BY <1>1 DEF vars
  <2>2. Shape' /\ PoliciesGood' /\ AnswerAtHand'
    BY <2>1 DEF LearnInv, Shape, PoliciesGood, AnswerAtHand
  <2>3. CasesBacked'
    BY <2>1 DEF LearnInv, CasesBacked, CaseBacked
  <2>4. FactsGood'
    BY <2>1 DEF LearnInv, FactsGood, ActiveSets, Owned, Newer
  <2> QED BY <2>2, <2>3, <2>4 DEF LearnInv
<1>2. ASSUME NEW c \in asked.cases, NEW o \in Feature[c].options,
             NEW s \in asked.scopes, NEW k \in BOOLEAN, Answer(c, o, s, k)
      PROVE  LearnInv'
  <2>1. c \in Cases /\ s \in Scopes
    BY <1>0
  <2>2. o \in Options
    BY <2>1, CaseFacts
  <2> QED BY <1>2, <2>1, <2>2, AnswerInv
<1>3. ASSUME NEW c \in asked.cases, Engine(c)
      PROVE  LearnInv'
  BY <1>0, <1>3, EngineInv
<1>4. ASSUME NEW e \in asked.learn, LearnCategory(e[1], e[2])
      PROVE  LearnInv'
  BY <1>4, LearnCategoryInv
<1>5. CASE Demote \/ ResolveCase \/ Learn \/ Promote
  BY <1>5, DemoteInv, ResolveInv, LearnKeeps, PromoteInv
<1>6. CASE OverrideFact \/ Enact \/ Stop
  BY <1>6, OverrideFactInv, EnactInv, StopInv
<1> QED BY <1>1, <1>2, <1>3, <1>4, <1>5, <1>6 DEF Next

LEMMA Invariance == Spec => []LearnInv
<1>1. LearnInv /\ [Next]_vars => LearnInv'
  BY NextInv
<1> QED BY <1>1, InitInv, PTL DEF Spec

-----------------------------------------------------------------------------
(* What learning promises. *)

\* A policy that a person has overruled, and that was taken back for it, is
\* never in force again (shadowEvaluate in tryPromoteShadowToActive).
THEOREM OverruledPolicyStaysDown == Spec => []OverruledStaysDown
<1>1. LearnInv => OverruledStaysDown
  BY DEF LearnInv, PoliciesGood, GoodVersions, Overruled, Latest,
         OverruledStaysDown
<1> QED BY <1>1, Invariance, PTL

\* The override of a product that is in force is the last that was stored,
\* wherever the process has stopped (applyTilbehorOverrideFromAnswer).
THEOREM LastOverrideIsInForce == Spec => []OverrideInForce
<1>1. LearnInv => OverrideInForce
  <2> SUFFICES ASSUME LearnInv, NEW c \in asked.cases
               PROVE  LET rows == {f \in facts : f.status = "ACTIVE"
                            /\ f.id.kind = "override" /\ f.human # 0
                            /\ OverrideId(humans[f.human].case) = OverrideId(c)}
                      IN  rows # {} => \E f \in ActiveSets :
                            f.id = OverrideId(c) /\ \A g \in rows : g.human <= f.human
    BY DEF OverrideInForce
  <2> DEFINE rows == {f \in facts : f.status = "ACTIVE"
                        /\ f.id.kind = "override" /\ f.human # 0
                        /\ OverrideId(humans[f.human].case) = OverrideId(c)}
  <2>1. \A f \in rows : f \in facts /\ f.status = "ACTIVE" /\ f.id = OverrideId(c)
                            /\ f.id.kind = "override"
    BY DEF LearnInv, FactsGood, Owned
  <2> SUFFICES ASSUME NEW e \in rows
               PROVE  \E f \in ActiveSets : f.id = OverrideId(c)
                        /\ \A g \in rows : g.human <= f.human
    OBVIOUS
  <2> HIDE DEF rows
  <2>2. PICK f \in ActiveSets : f.id = OverrideId(c)
    BY <2>1 DEF LearnInv, FactsGood
  <2>3. f.id.kind = "override"
    BY <2>1, <2>2
  <2>4. \A g \in rows : g.human <= f.human
    BY <2>1, <2>2, <2>3 DEF LearnInv, FactsGood
  <2> QED BY <2>2, <2>4
<1> QED BY <1>1, Invariance, PTL

\* What is decided by policy or by precedent was decided that way by people:
\* twice in the restaurant itself, or three times anywhere (the thresholds of
\* tryPromoteShadowToActive and runAutoDecisionGate).
THEOREM AutomaticIsBacked == Spec => []AutoIsBacked
<1>1. LearnInv => AutoIsBacked
  <2> SUFFICES ASSUME LearnInv, NEW c \in asked.cases
               PROVE  LET here == {h \in Agreeing(c, cases[c].option, humans) :
                            Feature[humans[h].case].restaurant = Feature[c].restaurant}
                      IN  /\ cases[c].status = "AUTO_POLICY" => Cardinality(here) >= 2
                          /\ cases[c].status = "AUTO_PRECEDENT" =>
                               Cardinality(Agreeing(c, cases[c].option, humans)) >= 3
    BY DEF AutoIsBacked, Agreeing
  <2> DEFINE here == {h \in Agreeing(c, cases[c].option, humans) :
                        Feature[humans[h].case].restaurant = Feature[c].restaurant}
  <2>1. c \in Cases /\ humans \in Seq(Human)
    BY DecisionConstants DEF LearnInv, Shape, DecisionConstants
  <2>2. CaseBacked(c)
    BY <2>1 DEF LearnInv, CasesBacked
  <2>3. ASSUME cases[c].status = "AUTO_POLICY" PROVE Cardinality(here) >= 2
    <3> DEFINE of == cases[c].of
               t == policies[of.id].terms
               v == policies[of.id].versions[of.version]
    <3>1. /\ of.id \in DOMAIN policies
          /\ of.version \in DOMAIN policies[of.id].versions
          /\ v.status = "ACTIVE" /\ Covers(t, c) /\ cases[c].option = t.option
      BY <2>2, <2>3 DEF CaseBacked
    <3>2. Sound(t, v, humans)
      BY <3>1 DEF LearnInv, PoliciesGood, GoodVersions
    <3> HIDE DEF t, v
    <3>3. v.support \subseteq DOMAIN humans /\ Cardinality(v.support) >= 2
          /\ t.scope # "GLOBAL"
      BY <3>1, <3>2 DEF Sound
    <3>4. ASSUME NEW h \in v.support PROVE h \in here
      <4> DEFINE d == humans[h].case
      <4>1. h \in DOMAIN humans /\ TermsOf(d, humans[h].option, t.scope) = t
        BY <3>2 DEF Sound
      <4>2. /\ t.option = humans[h].option /\ t.type = Feature[d].type
            /\ t.restaurant = Feature[d].restaurant
        BY <3>3, <4>1 DEF TermsOf
      <4>3. t.type = Feature[c].type
        BY <3>1 DEF Covers, Applies
      <4>4. Feature[d].restaurant = Feature[c].restaurant
        BY <3>1, <3>3, <4>2 DEF Covers
      <4> QED BY <3>1, <4>1, <4>2, <4>3, <4>4 DEF Agreeing
    <3>5. here \subseteq DOMAIN humans
      BY DEF Agreeing
    <3> HIDE DEF here
    <3>6. /\ IsFiniteSet(here) /\ Cardinality(here) \in Nat
          /\ Cardinality(v.support) \in Nat
      BY <2>1, <3>3, <3>5, Recorded
    <3>7. Cardinality(v.support) <= Cardinality(here)
      BY <3>4, <3>6, FS_Subset
    <3> QED BY <3>3, <3>6, <3>7
  <2> QED BY <2>2, <2>3 DEF CaseBacked
<1> QED BY <1>1, Invariance, PTL

=============================================================================
