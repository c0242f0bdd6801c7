------------------------------ MODULE MCEditor ------------------------------
(* The transform "y" refuses the param 2. *)
EXTENDS Editor, TLC
TwoChanges == [t \in Threads |-> IF t \in Changers THEN 2 ELSE 1]
KernelAndRecipe == {[steps |-> <<>>, param |-> 2], [steps |-> <<"x", "y">>, param |-> 1]}
TwoOpeners == Permutations(Openers)
YRefusesTwo == {<<"y", 2>>}
=============================================================================
