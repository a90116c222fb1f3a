------------------------------- MODULE MCForm -------------------------------
(* Names are short words; a long one is cut, a rough one repaired by the     *)
(* label gate, a garbled one refused.                                       *)
EXTENDS ProductForm

R(n, o)  == [name |-> n, ore |-> o]
Named(n) == R(n, 0)
Card(t, p, c, h, v, i, a) ==
  [text |-> t, price |-> p, cats |-> c, hidden |-> h,
   rows |-> ("variants" :> v @@ "ingredients" :> i @@ "additions" :> a)]

Alm == <<R("Alm.", 0)>>
Sizes == <<R("Alm.", 0), R("Stor", 2000)>>

\* Plain, hidden or not; then several rows, and categories with and without a
\* box; prices that are no whole kroner, and nothing at all; labels that are
\* cut, repaired or refused.
Products ==
  {Card("neat", 9900, <<"1">>, h, Alm, <<Named("ham")>>, << >>) : h \in BOOLEAN} \cup
  {Card("neat", 9900, c, TRUE, Sizes, <<Named("ham"), Named("ost")>>, <<R("dip", 500)>>) :
     c \in {<<"1", "2">>, <<"9">>}} \cup
  {Card("neat", 9950, << >>, FALSE, Alm, << >>, << >>),
   Card("neat", 9950, <<"1">>, FALSE, Alm, << >>, << >>),
   Card("long", 0, <<"1">>, FALSE, << >>, << >>, << >>),
   Card("rough", 9900, <<"1">>, TRUE, <<R("long", 0)>>, <<Named("rough")>>, << >>),
   Card("neat", 9900, <<"1">>, TRUE, Alm, <<Named("garbled")>>, << >>)}

Menu ==
  {[text |-> "old", price |-> 8900, cats |-> {"1"}, hidden |-> hide,
    rows |-> ("variants" :> (IF hide THEN Sizes \o <<R("Maxi", 4000)>> ELSE Alm)
              @@ "ingredients" :> <<Named("ham"), Named("ost")>>
              @@ "additions" :> <<R("pommes", 1500)>>)] : hide \in BOOLEAN}

Words == {"", "neat", "old", "long", "rough", "garbled", "ham", "ost"}
GateOf == [w \in Words |-> IF w = "rough" THEN "neat"
                           ELSE IF w = "garbled" THEN Refused ELSE w]
Cut == [f \in {"CREATE", "UPDATE", "row"} |->
          [w \in Words \cup {"Alm.", "Stor", "Maxi", "dip", "pommes"} |->
             IF w = "long" /\ f # "UPDATE" THEN "cut" ELSE w]]
Caps == [k \in Kinds |-> [l \in ToSet(Lists) |-> IF k = "CREATE" THEN 1 ELSE 2]]
Guards == [l \in ToSet(Lists) |-> 2]
=============================================================================
