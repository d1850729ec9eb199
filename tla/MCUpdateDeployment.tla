------------------------- MODULE MCUpdateDeployment -------------------------
(* Instances of UpdateDeployment: each release asks for its predecessor.   *)
EXTENDS UpdateDeployment

OneBefore == [r \in Releases |-> IF r = 1 THEN 0 ELSE r - 1]
=============================================================================
