------------------------------ MODULE MCExecutor ------------------------------
(* Small plans for model checking MigrationExecutor and RecoveryPlan. *)
EXTENDS RecoveryPlan

Oper(entity, action, num, name, cat, pending, target) ==
  [entity |-> entity, action |-> action, num |-> num, name |-> name,
   cat |-> cat, pending |-> pending, target |-> target]

\* A category that does not exist yet, a product in it, an operation nobody
\* executes, and a product in an existing category whose name is already at the
\* destination.
CreatePlan ==
  << Oper("category", "CREATE", 0, "Pizza", "Pizza", FALSE, NoId),
     Oper("product", "CREATE", 1, "Hawaii", "Pizza", TRUE, NoId),
     Oper("product", "REVIEW", 8, "Kebab", "Grill", FALSE, NoId),
     Oper("product", "CREATE", 2, "Durum", "Grill", FALSE, NoId) >>

CreateDest ==
  << [num |-> 9, name |-> "Durum", cat |-> "Grill", content |-> "other"] >>

MenuCats == [c \in {"Pizza", "Grill"} |-> IF c = "Grill" THEN 1 ELSE 0]

\* One product and nothing at the destination.
LatePlan == << Oper("product", "CREATE", 2, "Durum", "Grill", FALSE, NoId) >>
Nothing == <<>>

\* A live row that is improved, one that is left as it is, and a row without a
\* number, whose new name is not found: the dry-run of a QA_RECONCILE job plans
\* it as a product to be created, here in a category that is missing too.
MixedPlan ==
  << CreatePlan[1], CreatePlan[2],
     Oper("product", "UPDATE", 5, "Cola", "Grill", FALSE, 1),
     Oper("product", "SKIP", 6, "Fanta", "Grill", FALSE, 2) >>

MixedDest ==
  << [num |-> 5, name |-> "Cola", cat |-> "Grill", content |-> "other"],
     [num |-> 6, name |-> "Fanta", cat |-> "Grill", content |-> "exact"] >>
=============================================================================
