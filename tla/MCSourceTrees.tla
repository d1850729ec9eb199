--------------------------- MODULE MCSourceTrees ---------------------------
(* Instances of SourceTrees: two jobs of one source, or one of each of two. *)
EXTENDS SourceTrees, TLC

CONSTANTS j1, j2, s1, s2

SharedOrSeparate == {[j \in {j1, j2} |-> s1], (j1 :> s1) @@ (j2 :> s2)}
TreeSymmetry == Permutations(Tree) \cup Permutations(Worker)
=============================================================================
