------------------------------ MODULE Decisions ------------------------------
(***************************************************************************)
(* What the system learns from its operators (src/decisions, and            *)
(* learning/tilbehorOverride.ts and categoryIngredientAdditions.ts, which   *)
(* write the facts): decision cases, the decisions of people, the policies  *)
(* that are made of them, and the facts about additions.                    *)
(*                                                                         *)
(* It all lies in one SQLite file, and every statement is stored for itself.*)
(* An answer is a series of statements within one turn of the process: a    *)
(* stop may fall between any two, and no other answer can.                  *)
(*                                                                         *)
(* A resolution and the id of its option are one value.  The markers of a   *)
(* case include its price structure.  Candidates, outcomes and the support  *)
(* table are written and never read, and are left out.  The reasoner is a   *)
(* port of the engine: it may propose anything, and answers at once.        *)
(***************************************************************************)
EXTENDS Integers, Sequences, FiniteSets

CONSTANTS
  Cases, Feature,  \* decision cases, and the features of each
  Packs,           \* what may come up together: cases, scopes of answers, additions
  Options,         \* what can be decided
  Inventing,       \* options that would invent contents of a menu
  Amounts,         \* options with a fixed price or a list of options
  None,
  MaxHumans, MaxVersion, MaxStops  \* bounds: decisions, versions of a fact, stops

Scopes == {"EXACT_CASE", "RESTAURANT_CATEGORY", "RESTAURANT", "GLOBAL"}
Override == {"KEEP_TILBEHOR", "SUPPRESS_TILBEHOR"}
Features == [type : {"PRODUCT_CHOICE", "TILBEHOR_OVERRIDE"}, key : Nat,
             restaurant : STRING, category : STRING, number : Nat,
             markers : SUBSET STRING, risk : {"LOW", "MEDIUM", "HIGH"},
             source : Options \cup {None},  \* what the source text says by itself
             options : SUBSET Options]      \* what may be answered

ASSUME DecisionConstants ==
  /\ Feature \in [Cases -> Features] /\ Packs \subseteq
       [cases : SUBSET Cases, scopes : SUBSET Scopes,
        learn : SUBSET ((STRING \X STRING) \X Nat)]
  \* exactCaseKey is a text that begins with the type and the restaurant.
  /\ \A c \in Cases : Feature[c].key > 0
  /\ \A c, d \in Cases : Feature[c].key = Feature[d].key
       => Feature[c].restaurant = Feature[d].restaurant
  /\ Inventing \subseteq Options /\ Amounts \subseteq Options
  /\ Override \subseteq Options /\ None \notin Options
  /\ MaxVersion \in Nat /\ MaxStops \in Nat
  /\ MaxHumans \in 0 .. 10  \* retrievePrecedents looks at ten

VARIABLES
  asked,     \* the pack: cases, scopes, and what planning learns of a category
  cases,     \* decision_cases: status, option, and the policy that decided
  humans,    \* human_decisions, in the order they were taken
  policies,  \* decision_policies: terms, and the versions of each
  facts,     \* rows of decision_addition_set_facts
  doing,     \* the statements that are still to be made
  stops      \* how often the process has stopped

vars == <<asked, cases, humans, policies, facts, doing, stops>>

Idle == [step |-> "idle"]
NoPolicy == [id |-> 0, version |-> 0]
Unresolved == [status |-> "UNRESOLVED", option |-> None, of |-> NoPolicy]
Resolved(c) == cases[c].status \in
  {"HUMAN_RESOLVED", "AUTO_DETERMINISTIC", "AUTO_POLICY", "AUTO_PRECEDENT", "AUTO_AI"}

-----------------------------------------------------------------------------
(* Policies. *)

\* generatePolicyCandidate: what a decision on a case says of other cases.
TermsOf(c, option, scope) ==
  [scope |-> scope, option |-> option,
   type |-> Feature[c].type, markers |-> Feature[c].markers,
   key |-> IF scope = "EXACT_CASE" THEN Feature[c].key ELSE 0,
   restaurant |-> IF scope = "GLOBAL" THEN None ELSE Feature[c].restaurant,
   category |-> IF scope = "RESTAURANT_CATEGORY" THEN Feature[c].category ELSE None]

\* Mutant of Applies: the restaurant is not looked at.
AppliesAnywhere(t, c) ==
  LET f == Feature[c] IN
  /\ t.type = f.type /\ t.markers \subseteq f.markers
  /\ t.key \in {0, f.key} /\ t.category \in {None, f.category}

\* matchPolicy
Applies(t, c) ==
  LET f == Feature[c] IN
  /\ t.type = f.type /\ t.markers \subseteq f.markers
  /\ t.key \in {0, f.key}
  /\ t.scope \in {"RESTAURANT", "RESTAURANT_CATEGORY"} => t.restaurant = f.restaurant
  /\ t.category \in {None, f.category}

Latest(p) == policies[p].versions[Len(policies[p].versions)]
Version(status, support, after) ==
  [status |-> status, support |-> support, after |-> after]

\* A status is a new version; rows are never changed, and none is there twice.
Versioned(p, v) == policies' = [policies EXCEPT ![p].versions = Append(@, v)]

\* Mutant of ShadowPasses: only the decisions it was made from are looked at.
ShadowPassesOwn(p) ==
  \A h \in Latest(p).support : humans[h].option = policies[p].terms.option

\* shadowEvaluate: no decision on record would have come out differently.
ShadowPasses(p) ==
  LET t == policies[p].terms IN
  \A h \in DOMAIN humans :
    LET c == humans[h].case IN
    (t.restaurant \in {None, Feature[c].restaurant} /\ Applies(t, c))
      => humans[h].option = t.option

\* mergeSupportIntoMatchingShadow
Mergeable(p, t) ==
  /\ Latest(p).status = "SHADOW" /\ policies[p].terms = t
  /\ t.option \notin Inventing

-----------------------------------------------------------------------------
(* recordHumanDecision, a statement at a time. *)

Answer(c, option, scope, correction) ==
  /\ doing = Idle /\ cases[c].status # "HUMAN_RESOLVED" /\ Len(humans) < MaxHumans
  /\ correction => cases[c].status = "AUTO_POLICY"
  /\ humans' = Append(humans, [case |-> c, option |-> option,
                 corrects |-> IF correction THEN cases[c].of.id ELSE 0])
  /\ doing' = [step |-> IF correction THEN "demote" ELSE "resolve",
               case |-> c, option |-> option, scope |-> scope,
               human |-> Len(humans) + 1]
  /\ UNCHANGED <<asked, stops, cases, policies, facts>>

\* handleHumanCorrection: the version that decided, which is ACTIVE for ever, gets
\* a SHADOW successor.  If it has one already, the statement throws.
Demote ==
  LET of == cases[doing.case].of IN
  /\ doing.step = "demote"
  /\ IF Len(policies[of.id].versions) = of.version
     THEN /\ Versioned(of.id, Version("SHADOW", Latest(of.id).support, doing.human))
          /\ doing' = [doing EXCEPT !.step = "resolve"]
     ELSE UNCHANGED policies /\ doing' = Idle
  /\ UNCHANGED <<asked, stops, cases, humans, facts>>

ResolveCase ==
  /\ doing.step = "resolve"
  /\ cases' = [cases EXCEPT ![doing.case].status = "HUMAN_RESOLVED",
                            ![doing.case].option = doing.option]
  /\ doing' = [doing EXCEPT !.step = "learn"]
  /\ UNCHANGED <<asked, stops, humans, policies, facts>>

\* A decision joins a SHADOW policy that says the same, or makes one, unless it
\* invents something or would carry a price from one restaurant to the others.
Learn ==
  LET t == TermsOf(doing.case, doing.option, doing.scope)
      known == {p \in DOMAIN policies : Mergeable(p, t)}
      barred == t.option \in Inventing \/ (t.scope = "GLOBAL" /\ t.option \in Amounts)
      Shadow(support) == Version("SHADOW", support, 0)
      Next_(p) == [step |-> IF t.scope = "GLOBAL" THEN "fact" ELSE "promote",
                   policy |-> p, case |-> doing.case, option |-> doing.option,
                   human |-> doing.human]
  IN  /\ doing.step = "learn"
      /\ \/ /\ t.scope # "GLOBAL"
            /\ \E p \in known :
                 /\ Versioned(p, Shadow(Latest(p).support \cup {doing.human}))
                 /\ doing' = Next_(p)
         \/ /\ t.scope = "GLOBAL" \/ known = {}
            /\ ~barred
            /\ policies' = Append(policies, [terms |-> t, versions |-> <<Shadow({doing.human})>>])
            /\ doing' = Next_(Len(policies) + 1)
         \/ /\ t.scope = "GLOBAL" \/ known = {}
            /\ barred /\ UNCHANGED policies
            /\ doing' = [Next_(0) EXCEPT !.step = "fact"]
      /\ UNCHANGED <<asked, stops, cases, humans, facts>>

\* tryPromoteShadowToActive: two decisions, and none against it.
Promote ==
  /\ doing.step = "promote"
  /\ LET p == doing.policy  ready == ShadowPasses(p) /\ Cardinality(Latest(p).support) >= 2
     IN  IF ready THEN Versioned(p, Version("ACTIVE", Latest(p).support, 0))
                  ELSE UNCHANGED policies
  /\ doing' = [doing EXCEPT !.step = "fact"]
  /\ UNCHANGED <<asked, stops, cases, humans, facts>>

-----------------------------------------------------------------------------
(* Facts: each has an id, and its rows are versions. *)

\* listActiveAdditionSets: the last ACTIVE row of each fact, whatever follows it.
ActiveSets ==
  {f \in facts : f.status = "ACTIVE" /\
     \A g \in facts : g.id = f.id /\ g.status = "ACTIVE" => g.version <= f.version}

Stored(id, version) == \E f \in facts : f.id = id /\ f.version = version
Row(id, version, status, value, human) ==
  [id |-> id, version |-> version, status |-> status, value |-> value, human |-> human]

OverrideId(c) == [kind |-> "override", restaurant |-> Feature[c].restaurant,
                  target |-> Feature[c].number]
CategoryId(l) == [kind |-> "category", restaurant |-> l[1], target |-> l[2]]

\* Mutant of Existing: an override of any product of the restaurant.
ExistingOf(id) ==
  {f \in ActiveSets : [f.id EXCEPT !.target = id.target] = id}

Existing(id) == {f \in ActiveSets : f.id = id}

\* The row it replaces gets a successor that is SUPERSEDED, and that one the new
\* row.  A row that is there already makes the statement throw.
Replace(id, value, human) ==
  LET old == Existing(id) IN
  IF old = {}
  THEN /\ facts' = facts \cup {Row(id, 1, "ACTIVE", value, human)}
       /\ ~Stored(id, 1) /\ doing' = Idle
  ELSE LET f == CHOOSE f \in old : TRUE IN
       /\ f.version + 2 <= MaxVersion
       /\ IF Stored(f.id, f.version + 1)
          THEN UNCHANGED facts /\ doing' = Idle
          ELSE /\ facts' = facts \cup
                    {[f EXCEPT !.version = f.version + 1, !.status = "SUPERSEDED"]}
               /\ doing' = [step |-> "enact",
                            row |-> Row(f.id, f.version + 2, "ACTIVE", value, human)]

\* applyTilbehorOverrideFromAnswer
OverrideFact ==
  /\ doing.step = "fact"
  /\ IF Feature[doing.case].type = "TILBEHOR_OVERRIDE" /\ doing.option \in Override
     THEN Replace(OverrideId(doing.case), doing.option, doing.human)
     ELSE doing' = Idle /\ UNCHANGED facts
  /\ UNCHANGED <<asked, stops, cases, humans, policies>>

\* upsertCategoryIngredientAdditionFacts, when a menu is planned.
LearnCategory(l, value) ==
  /\ doing = Idle
  /\ \A f \in Existing(CategoryId(l)) : f.value # value
  /\ Replace(CategoryId(l), value, 0)
  /\ UNCHANGED <<asked, stops, cases, humans, policies>>

Enact ==
  /\ doing.step = "enact"
  /\ facts' = facts \cup {doing.row} /\ doing' = Idle
  /\ UNCHANGED <<asked, stops, cases, humans, policies>>

-----------------------------------------------------------------------------
(* DecisionEngine.resolve *)

Specificity == [EXACT_CASE |-> 400, RESTAURANT_CATEGORY |-> 300, RESTAURANT |-> 200,
                GLOBAL |-> 100]

\* findApplicablePolicies: of those that apply, the most specific.
Applicable(c) ==
  LET matches == {p \in DOMAIN policies : Latest(p).status = "ACTIVE"
                                            /\ Applies(policies[p].terms, c)}
      Rank(p) == Specificity[policies[p].terms.scope]
  IN  {p \in matches : \A q \in matches : Rank(q) <= Rank(p)}

\* retrievePrecedents and evaluatePrecedentConsensus
Precedents(c) ==
  {h \in DOMAIN humans : /\ Feature[humans[h].case].type = Feature[c].type
                         /\ cases[humans[h].case].status = "HUMAN_RESOLVED"}
OptionsOf(P) == {humans[h].option : h \in P}
Homes(P)     == {Feature[humans[h].case].restaurant : h \in P}

\* runAutoDecisionGate
PrecedentGate(c) ==
  LET P == Precedents(c) IN
  /\ Cardinality(OptionsOf(P)) = 1 /\ Cardinality(P) >= 3
  /\ Feature[c].risk = "HIGH" => Cardinality(Homes(P)) >= 2
ReasonerGate(c) ==
  LET P == Precedents(c) IN
  /\ Feature[c].risk # "HIGH"
  /\ Cardinality(P) >= 2 /\ Cardinality(OptionsOf(P)) = 1

Finish(c, status, option, of) ==
  /\ cases' = [cases EXCEPT ![c] = [status |-> status, option |-> option, of |-> of]]
  /\ UNCHANGED <<asked, stops, humans, policies, facts, doing>>

Pending(c) == doing = Idle /\ ~Resolved(c)
Undetermined(c) == Pending(c) /\ Feature[c].source = None
PolicyOptions(c) == {policies[p].terms.option : p \in Applicable(c)}

ByDeterministic(c) ==
  /\ Pending(c) /\ Feature[c].source # None
  /\ Finish(c, "AUTO_DETERMINISTIC", Feature[c].source, NoPolicy)
PolicyConflict(c) ==
  /\ Undetermined(c) /\ Cardinality(PolicyOptions(c)) > 1
  /\ Finish(c, "POLICY_CONFLICT", None, NoPolicy)
ByPolicy(c) ==
  /\ Undetermined(c) /\ Cardinality(PolicyOptions(c)) = 1
  /\ \E p \in Applicable(c) :
       Finish(c, "AUTO_POLICY", policies[p].terms.option,
              [id |-> p, version |-> Len(policies[p].versions)])
ByPrecedent(c) ==
  /\ Undetermined(c) /\ Applicable(c) = {} /\ PrecedentGate(c)
  /\ \E o \in OptionsOf(Precedents(c)) : Finish(c, "AUTO_PRECEDENT", o, NoPolicy)
ByReasoner(c) ==
  /\ Undetermined(c) /\ Applicable(c) = {} /\ ~PrecedentGate(c)
  /\ \/ ReasonerGate(c) /\ \E o \in Feature[c].options : Finish(c, "AUTO_AI", o, NoPolicy)
     \/ Finish(c, "HUMAN_REVIEW_REQUIRED", None, NoPolicy)

-----------------------------------------------------------------------------
\* The process stops: what was stored is there, the rest of the answer is lost.
Stop ==
  /\ doing # Idle /\ stops < MaxStops
  /\ doing' = Idle /\ stops' = stops + 1
  /\ UNCHANGED <<asked, cases, humans, policies, facts>>

Init ==
  /\ asked \in Packs
  /\ cases = [c \in Cases |-> Unresolved]
  /\ humans = <<>> /\ policies = <<>> /\ facts = {} /\ doing = Idle /\ stops = 0

Engine(c) ==
  \/ ByDeterministic(c) \/ PolicyConflict(c) \/ ByPolicy(c)
  \/ ByPrecedent(c) \/ ByReasoner(c)

Next ==
  \/ \E c \in asked.cases : \E o \in Feature[c].options, s \in asked.scopes, k \in BOOLEAN :
       Answer(c, o, s, k)
  \/ Demote \/ ResolveCase \/ Learn \/ Promote \/ OverrideFact \/ Enact
  \/ \E c \in asked.cases : Feature[c].type = "PRODUCT_CHOICE" /\ Engine(c)
  \/ \E e \in asked.learn : LearnCategory(e[1], e[2])
  \/ Stop

Spec == Init /\ [][Next]_vars

-----------------------------------------------------------------------------
(* What learning promises. *)

\* DECISION_LEARNING.md: "Restaurant / exact-case ACTIVE requires >= 2 supporting
\* human decisions".  Whatever is decided by policy or by precedent was decided
\* in that way by people, twice in the restaurant itself or three times anywhere.
AutoIsBacked ==
  \A c \in asked.cases :
    LET agreeing == {h \in DOMAIN humans :
                       /\ humans[h].option = cases[c].option
                       /\ Feature[humans[h].case].type = Feature[c].type}
        here == {h \in agreeing :
                   Feature[humans[h].case].restaurant = Feature[c].restaurant}
    IN  /\ cases[c].status = "AUTO_POLICY" => Cardinality(here) >= 2
        /\ cases[c].status = "AUTO_PRECEDENT" => Cardinality(agreeing) >= 3

\* A policy that a person has overruled, and that was taken back for it, is never
\* in force again, however many decisions are taken in its favour later.
OverruledStaysDown ==
  \A p \in DOMAIN policies :
    (\E v \in DOMAIN policies[p].versions :
       LET h == policies[p].versions[v].after
       IN  h # 0 /\ humans[h].option # policies[p].terms.option)
      => Latest(p).status # "ACTIVE"

\* The override of a product that is in force is the last that was stored for it,
\* wherever the process has stopped.
OverrideInForce ==
  \A c \in asked.cases :
    LET rows == {f \in facts : f.status = "ACTIVE" /\ f.id.kind = "override"
                   /\ f.human # 0 /\ OverrideId(humans[f.human].case) = OverrideId(c)}
    IN  rows # {} =>
          \E f \in ActiveSets : f.id = OverrideId(c) /\ \A g \in rows : g.human <= f.human

-----------------------------------------------------------------------------
(* Statements of the repository that the code does not keep. *)

\* DECISION_LEARNING.md: "Human corrects an auto resolution -> ... prior ACTIVE
\* policy downgraded to SHADOW for revalidation".
CorrectionDemotes ==
  doing = Idle =>
    \A h \in DOMAIN humans :
      LET p == humans[h].corrects IN
      (p # 0 /\ humans[h].option # policies[p].terms.option)
        => ~\E q \in DOMAIN policies :
              /\ policies[q].terms = policies[p].terms /\ Latest(q).status = "ACTIVE"

\* A fact that is in force can be replaced: the key of its successor is free.
FactsStayWritable ==
  doing = Idle => \A f \in ActiveSets : ~Stored(f.id, f.version + 1)

\* gate.ts: "AI_NEEDS_SUPPORTING_PRECEDENTS".
ReasonerIsSupported ==
  [][\A c \in Cases :
       cases'[c].status = "AUTO_AI" /\ cases[c].status # "AUTO_AI"
         => cases'[c].option \in OptionsOf(Precedents(c))]_vars
=============================================================================
