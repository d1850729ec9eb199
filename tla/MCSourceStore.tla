--------------------------- MODULE MCSourceStore ---------------------------
(* Instances of SourceStore for TLC. *)
EXTENDS SourceStore

CONSTANTS s1, u1, u2, j1, j2

OneSource  == {s1}
TwoUploads == {u1, u2}
TwoJobs    == {j1, j2}

=============================================================================
