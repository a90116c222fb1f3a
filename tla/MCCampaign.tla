----------------------------- MODULE MCCampaign -----------------------------
(* A target menu of one category and three products.  The naming changes the *)
(* names of all but the first once the reviews are in; only the extraction   *)
(* is not of the wanted quality; other people use one more number.           *)
EXTENDS Campaign

ThreeProducts == <<"1", "2", "3">>
Qualified == [v \in Versions |-> IF v = Reviewed THEN 3 ELSE v]
=============================================================================
