----------------------------- MODULE MCDecisions -----------------------------
(* Two restaurants.  The first two packs choose between options, with an answer *)
(* for the restaurant or the category, or for all or one case only; in the      *)
(* third one case is answered by its source; the last one is about additions.   *)
EXTENDS Decisions

Everything == {"A", "B", "Combo", "KEEP_TILBEHOR", "SUPPRESS_TILBEHOR", "ACCEPT_POLICY_STRIP"}

F(type, key, restaurant, number, markers, risk, options) ==
  [type |-> type, key |-> key, restaurant |-> restaurant, category |-> "Grill",
   number |-> number, markers |-> markers, risk |-> risk, source |-> "none",
   options |-> options]
Choice(key, restaurant, markers, risk, options) ==
  F("PRODUCT_CHOICE", key, restaurant, key, markers, risk, options)
Extra(number, options) ==
  F("TILBEHOR_OVERRIDE", 10 + number, "r", number, {}, "LOW", options)

SmallFeature ==
  [c1 |-> Choice(1, "r", {"VAELG"}, "MEDIUM", {"A"}),
   c2 |-> Choice(1, "r", {"VAELG"}, "MEDIUM", {"A"}),
   c3 |-> Choice(2, "r", {"VAELG"}, "MEDIUM", {"A", "B"}),
   c4 |-> Choice(3, "r", {"VAELG", "ELLER"}, "MEDIUM", {"A"}),
   c5 |-> Choice(4, "s", {}, "HIGH", {"A", "B"}),
   c6 |-> [Choice(5, "s", {"ELLER"}, "MEDIUM", {"A", "Combo"}) EXCEPT !.source = "A"],
   c7 |-> Choice(6, "r", {"ELLER"}, "MEDIUM", {"B"}),
   c8 |-> Choice(7, "r", {"ELLER"}, "MEDIUM", {"B"}),
   c9 |-> Choice(4, "s", {"VAELG"}, "MEDIUM", {"A"}),
   t1 |-> Extra(1, {"KEEP_TILBEHOR"}), t2 |-> Extra(1, {"SUPPRESS_TILBEHOR"}),
   t3 |-> Extra(1, {"KEEP_TILBEHOR", "ACCEPT_POLICY_STRIP"}),
   t4 |-> Extra(2, {"KEEP_TILBEHOR"})]
SmallCases == DOMAIN SmallFeature

Pack(C, S, L) == [cases |-> C, scopes |-> S, learn |-> L]
SmallPacks ==
  {Pack({"c1", "c2", "c3", "c4"}, {"RESTAURANT"}, {}),
   Pack({"c1", "c3", "c9"}, {"RESTAURANT_CATEGORY"}, {}),
   Pack({"c1", "c5", "c6"}, {"EXACT_CASE", "GLOBAL"}, {}),
   Pack({"c1", "c2", "c4", "c7", "c8"}, {"RESTAURANT"}, {}),
   Pack({"t1", "t2", "t3", "t4"}, {"EXACT_CASE"},
        {<<<<"r", "Grill">>, 1>>, <<<<"r", "Grill">>, 2>>})}
=============================================================================
