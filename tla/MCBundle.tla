------------------------------ MODULE MCBundle ------------------------------
(* Two jobs of one restaurant that want a product in common; their destination *)
(* is empty at first, or has another product and its category.              *)
EXTENDS ExecutionBundle

CONSTANTS j1, j2, n1, n2, c1

Overlapping == [j \in Jobs |-> IF j = j1 THEN {n1} ELSE {n1, n2}]
OneCategory == [n \in Items |-> c1]
RowOf(k, n) == [kind |-> k, name |-> n, rest |-> 0, gone |-> FALSE, by |-> Nobody]
EmptyOrOpened == {<<>>, <<RowOf("category", c1), RowOf("product", n2)>>}
=============================================================================
