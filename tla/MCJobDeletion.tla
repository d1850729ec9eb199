--------------------------- MODULE MCJobDeletion ---------------------------
(* Instances of JobDeletion for TLC. *)
EXTENDS JobDeletion

CONSTANTS j1, r1, r2

OneJob     == {j1}
OneReader  == {r1}
TwoReaders == {r1, r2}

=============================================================================
