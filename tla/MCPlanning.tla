----------------------------- MODULE MCPlanning -----------------------------
(* Small menus and destinations.  A text is empty, bad, glued (polishing has *)
(* to be done twice), untidy, rough (polishing makes it worse), neat or rich. *)
EXTENDS Planning

Texts == {"", "bad", "glued", "untidy", "rough", "neat", "rich", "A", "B"}
Worth == [v \in Texts |-> CASE v = "" -> 0 [] v = "bad" -> 1 [] v = "glued" -> 3
            [] v \in {"untidy", "neat"} -> 4 [] v = "rich" -> 6 [] OTHER -> 5]
\* B is a drink: it is to have no additions.
Drink == [v \in Texts |-> IF v = "" THEN 8 ELSE 0]
Scores == [f \in Fields |-> [n \in Texts |->
             IF f = "additions" /\ n = "B" THEN Drink ELSE Worth]]
Hygiene == [f \in Fields |-> [n \in Texts |-> [v \in Texts |->
              CASE v = "glued" -> "untidy" [] v \in {"untidy", "rough"} -> "neat"
                [] v = "bad" -> "" [] OTHER -> v]]]
Priors == {<<f, n, "rough", "">> : f \in Fields, n \in Texts}
Gate   == {<<f, n, "bad">> : f \in Fields, n \in Texts}
Contained == {<<"Pizzas", "Pizza">>}
Sizzle   == {"UNLABELLED_1"}
Breads   == {"Durum"}
Dips     == {"Tilbehor"}
All      == {"createCategory", "create", "update"}
ShortNames == {"Sub"}

CardOf(name) == [f \in Fields |-> IF f = "name" THEN name ELSE "neat"]
Prod(cat, printed, name, status) ==
  [cat |-> cat, printed |-> printed, status |-> status, flaw |-> "none",
   card |-> CardOf(name)]
RowOf(num, cat, name) ==
  [num |-> num, cat |-> cat, canary |-> FALSE, card |-> CardOf(name)]
Canary == [RowOf(Plain(99001), 1, "A") EXCEPT !.canary = TRUE]
Padded(n) == [value |-> n, form |-> "padded"]
Letter(n) == [value |-> n, form |-> "letter"]

\* Numbers in every mixture, names twice, a listed number in another form.
ToNumber ==
  {[menu |-> [k \in 1 .. 3 |-> Prod(homes[k], n[k], names[k], "READY")],
    catNames |-> <<"Pizza", "Grill">>, origin |-> "source", rows |-> r,
    cats |-> <<"Grill">>, qa |-> FALSE, certified |-> All] :
     homes \in {<<1, 1, 2>>, <<1, 2, 2>>},
     n \in [1 .. 3 -> {NoNum, Plain(1), Padded(1), Plain(9)}],
     names \in {<<"A", "B", "rich">>, <<"A", "B", "A">>},
     r \in {<<Canary>>, <<RowOf(Padded(1), 1, "A")>>}}

\* Categories that are missing, there once or twice, similar, or a placeholder,
\* and products that are held back.
ToMap ==
  {[menu |-> <<Prod(1, m, "A", s[1]), [Prod(1, Letter(3), "B", s[2]) EXCEPT !.flaw = fl],
               Prod(2, NoNum, "rich", s[3])>>,
    catNames |-> c, origin |-> "source", rows |-> <<>>, cats |-> d,
    qa |-> FALSE, certified |-> w] :
     fl \in {"none", "label", "input"},
     m \in {Plain(36), Plain(38), Plain(5)}, s \in [1 .. 3 -> {"READY", "MANUAL_REVIEW_REQUIRED"}],
     c \in {<<"Pizza", "Grill">>, <<"Pizza", "Pizza">>, <<"UNLABELLED_1", "Sub">>},
     d \in {<<>>, <<"Pizzas", "Durum">>, <<"Tilbehor">>, <<"Pizza", "Pizza">>},
     w \in {All, {"create"}}}

\* One field differs from the others.
Varied ==
  UNION {{[CardOf("A") EXCEPT ![f] = v] : v \in Texts} : f \in Fields}

\* A live row to be improved, and a product that is not there yet.
ToImprove ==
  {[menu |-> <<[Prod(1, Plain(1), "A", "READY") EXCEPT !.card = [source EXCEPT !.name = "A"]],
               Prod(1, n, "B", "READY")>>,
    catNames |-> <<"Grill">>, origin |-> "source",
    rows |-> <<[RowOf(Plain(1), 1, "A") EXCEPT !.card = live]>>,
    cats |-> <<"Grill">>, qa |-> TRUE, certified |-> w] :
     n \in {NoNum, Plain(1)}, w \in {All, {"create"}},
     source \in Varied, live \in Varied}

\* QA without a source: the menu is the live one, some rows have no number, and
\* one name was made to agree with another.
FromLive ==
  {[menu |-> <<[Prod(1, n, "A", "READY") EXCEPT !.card.description = e],
               [Prod(h, m, q, "READY") EXCEPT !.card.description = d]>>,
    catNames |-> c, origin |-> "live",
    rows |-> <<[RowOf(n, 1, "rough") EXCEPT !.card.description = e],
               [RowOf(m, h, q) EXCEPT !.card.description = d]>>,
    cats |-> c, qa |-> TRUE, certified |-> All] :
     n \in {NoNum, Plain(4)}, m \in {NoNum, Plain(4)}, h \in {1, 2},
     d \in {"neat", "untidy"}, e \in {"neat", "rich"}, q \in {"A", "B"},
     c \in {<<"Pizza", "Grill">>, <<"Pizza", "Pizza">>}}

SmallCases == ToNumber \cup ToMap \cup ToImprove \cup FromLive
=============================================================================
