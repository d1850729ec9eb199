------------------------------- MODULE JobRow -------------------------------
(***************************************************************************)
(* One row of the table `jobs`, and the SQL statements of                  *)
(* packages/database that the renderer worker, its recovery and the        *)
(* users' operations run on it.  Every statement is an UPDATE whose WHERE  *)
(* clause compares the row with what the caller expects, so it is given    *)
(* as two operators: the WHERE clause as a predicate (`CanX`) and the SET  *)
(* clause as the new row (`X`).  A statement whose WHERE clause fails      *)
(* changes no row, and the caller sees `changes = 0`.                      *)
(*                                                                         *)
(* A lease is abstracted to its holder and to whether its deadline has     *)
(* passed: `expired` stands for lease_expires_at < now.  Time stamps,      *)
(* error codes and sizes are left out.                                     *)
(*                                                                         *)
(* An operator named X_Y is X with the slip Y: a variant no specification  *)
(* uses, kept to show that a property notices it.                          *)
(***************************************************************************)
EXTENDS Naturals

CONSTANTS Worker,    \* worker processes; a process identity is used once
          NoOwner    \* lease_owner IS NULL

ASSUME NoOwnerAssumption == NoOwner \notin [worker : Worker, recovery : BOOLEAN]

Active   == {"reserved", "uploading", "queued", "validating", "running"}
Ended    == {"succeeded", "failed", "timeout", "rejected"}
Terminal == Ended \cup {"canceled", "expired"}
Status   == Active \cup Terminal \cup {"deleting", "deleted"}

\* lease_owner is a worker's id, or `<id>:recovery:<generation>` while that
\* worker recovers the job; the generation in it is the row's own.
Owner        == [worker : Worker, recovery : BOOLEAN]
Lease(w)     == [worker |-> w, recovery |-> FALSE]
Recoverer(w) == [worker |-> w, recovery |-> TRUE]

Row == [status  : Status,
        owner   : Owner \cup {NoOwner},
        gen     : Nat,
        expired : BOOLEAN,
        cancel  : BOOLEAN]

QueuedRow == [status |-> "queued", owner |-> NoOwner, gen |-> 0,
              expired |-> FALSE, cancel |-> FALSE]

-----------------------------------------------------------------------------
(* Statements a worker runs under its lease.                               *)

\* WHERE lease_owner = ? AND lease_generation = ?
Owned(row, owner, gen) == row.owner = owner /\ row.gen = gen

CanClaim(row)  == row.status = "queued"
Claimed(row, w) == [row EXCEPT !.status = "validating", !.owner = Lease(w),
                               !.gen = @ + 1, !.expired = FALSE]

CanHeartbeat(row, owner, gen) ==
    Owned(row, owner, gen) /\ row.status \in {"validating", "running"}
Renewed(row) == [row EXCEPT !.expired = FALSE]

CanMarkCanceled(row, owner, gen) ==
    Owned(row, owner, gen) /\ row.status \in {"validating", "running", "canceled"}
MarkedCanceled(row) == [row EXCEPT !.status = "canceled", !.owner = NoOwner,
                                   !.expired = FALSE]

CanFinishFailure_Unfenced(row, owner, gen) == row.status \in {"validating", "running"}
CanFinishFailure(row, owner, gen) ==
    Owned(row, owner, gen) /\ row.status \in {"validating", "running"}

\* transitionOwned, in the two forms its callers use: to `running` under the
\* lease, and to a final status that clears the lease.
CanTransition(row, owner, gen, from) == Owned(row, owner, gen) /\ row.status = from
Running(row) == [row EXCEPT !.status = "running"]
Finished(row, to) == [row EXCEPT !.status = to, !.owner = NoOwner, !.expired = FALSE]

-----------------------------------------------------------------------------
(* Statements of the recovery of stale leases.                             *)

Stale_Active(row) == /\ row.status \in {"validating", "running"}
                     /\ row.owner # NoOwner
                     /\ row.expired
Stale(row) == /\ row.status \in {"validating", "running", "canceled"}
              /\ row.owner # NoOwner
              /\ row.expired

RecoveryClaimed(row, w) == [row EXCEPT !.owner = Recoverer(w), !.gen = @ + 1,
                                       !.expired = FALSE]

CanExpireClaim(row, w, gen) ==
    /\ Owned(row, Recoverer(w), gen)
    /\ row.status \in {"validating", "running", "canceled"}
ClaimExpired(row) == [row EXCEPT !.expired = TRUE]

CanRecover(row, w, gen) ==
    /\ Owned(row, Recoverer(w), gen)
    /\ row.status \in {"validating", "running"}
Requeued(row) == [row EXCEPT !.status = "queued", !.owner = NoOwner, !.expired = FALSE]

-----------------------------------------------------------------------------
(* Statements of the users' operations.                                    *)

CanCancel(row) == row.status \in Active
Canceled(row)  == [row EXCEPT !.cancel = TRUE,
                              !.status = IF @ = "running" THEN @ ELSE "canceled"]

-----------------------------------------------------------------------------
(* What a worker process looks up in the rows.                             *)

\* ownedActiveJobIds: the leases, recovery claims included, of worker `v`.
OwnedActive(row, v) == /\ row.status \in {"validating", "running", "canceled"}
                       /\ row.owner \in {Lease(v), Recoverer(v)}

\* A job the worker loop no longer waits for before it claims another one.
Settled(row) == /\ row.status \notin {"validating", "running"}
                /\ ~(row.status = "canceled" /\ row.owner # NoOwner)
=============================================================================
