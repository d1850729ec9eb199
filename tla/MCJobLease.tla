----------------------------- MODULE MCJobLease -----------------------------
(* Instances of JobLease for TLC. *)
EXTENDS JobLease, TLC

CONSTANTS w1, w2, w3, j1, j2

OneJob       == {j1}
TwoJobs      == {j1, j2}
TwoWorkers   == {w1, w2}
ThreeWorkers == {w1, w2, w3}

=============================================================================
