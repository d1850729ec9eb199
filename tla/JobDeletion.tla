----------------------------- MODULE JobDeletion -----------------------------
(***************************************************************************)
(* How a job leaves the system: its deletion by a user or by the end of    *)
(* its retention, the cleanup process that removes its directory, the      *)
(* downloads that read from it, and the SVG retry that puts an ended job   *)
(* back into the queue.                                                    *)
(*                                                                         *)
(* The worker of JobLease is abstracted to the steps in which it changes   *)
(* the row or the published directory: `running` stands for validating     *)
(* and running, `failed` for every end an SVG retry accepts, and a job     *)
(* renders a PDF and then its SVG pages.  Time is abstracted to `due`      *)
(* (deletion_next_attempt_at is NULL or has passed) and `old` (the         *)
(* retention of the artifacts is over).                                    *)
(***************************************************************************)
EXTENDS Naturals

CONSTANTS Job, Reader,
          None,           \* no job
          MaxAttempts,    \* maxCleanupAttempts, 10 in the code
          MaxRetries,     \* SVG attempts of a job, 8 in the code
          MaxAsks,        \* bound: deletions a user asks for, of one job
          MaxCrashes      \* bound: crashes of the cleanup process

ASSUME JobDeletionAssumption == /\ None \notin Job
                                /\ MaxAttempts \in Nat \ {0}
                                /\ {MaxRetries, MaxAsks, MaxCrashes} \subseteq Nat

VARIABLES rows,       \* the rows of table jobs and their output stages
          artifacts,  \* jobs with artifact rows
          dir,        \* each job's published directory
          working,    \* the job the worker process is at
          cleaner,    \* the cleanup process
          reading,    \* each download stream: the job it reads
          live        \* download streams whose lease row is unexpired

vars == <<rows, artifacts, dir, working, cleaner, reading, live>>

Ended    == {"succeeded", "failed"}
Deletion == {"retained", "pending", "deleting", "retry", "failed", "deleted"}

Row == [status   : Ended \cup {"queued", "running", "deleting", "deleted"},
        render   : Ended \cup {"none"},
        deletion : Deletion,
        attempts : 0..MaxAttempts,
        due      : BOOLEAN,
        old      : BOOLEAN,
        leased   : BOOLEAN,
        pdf      : BOOLEAN,     \* the PDF checkpoint is published
        retries  : 0..MaxRetries,
        asks     : 0..MaxAsks]

NewRow == [status |-> "queued", render |-> "none", deletion |-> "retained",
           attempts |-> 0, due |-> TRUE, old |-> FALSE, leased |-> FALSE,
           pdf |-> FALSE, retries |-> 0, asks |-> 0]

Cleaner == [pc      : {"off", "pass", "claimed", "removed", "failed"},
            todo    : SUBSET Job,
            job     : Job \cup {None},
            crashes : 0..MaxCrashes]

CleanerOff == [pc |-> "off", todo |-> {}, job |-> None, crashes |-> 0]

Init == /\ rows = [j \in Job |-> NewRow]
        /\ artifacts = {} /\ dir = [j \in Job |-> "absent"]
        /\ working = None /\ cleaner = CleanerOff
        /\ reading = [r \in Reader |-> None] /\ live = {}

Set(j, row) == rows' = [rows EXCEPT ![j] = row]

-----------------------------------------------------------------------------
(* The worker.                                                             *)

Claim(j) ==
    /\ working = None /\ rows[j].status = "queued"
    /\ Set(j, [rows[j] EXCEPT !.status = "running", !.leased = TRUE])
    /\ working' = j
    /\ UNCHANGED <<artifacts, dir, cleaner, reading, live>>

\* Every publication is guarded by the row being `running` under the lease.
PublishPdf(j) ==
    /\ working = j /\ rows[j].status = "running" /\ ~rows[j].pdf
    /\ Set(j, [rows[j] EXCEPT !.pdf = TRUE])
    /\ artifacts' = artifacts \cup {j}
    /\ dir' = [dir EXCEPT ![j] = "whole"]
    /\ UNCHANGED <<working, cleaner, reading, live>>

\* The SVG stage ends, or the PDF stage fails and leaves its diagnostics.  The
\* SVG stage checks the PDF it is made from.
Finish(j) ==
    /\ working = j /\ rows[j].status = "running"
    /\ \E s \in IF rows[j].pdf /\ dir[j] = "whole" THEN Ended ELSE {"failed"} :
         Set(j, [rows[j] EXCEPT !.status = s, !.render = s, !.leased = FALSE])
    /\ artifacts' = artifacts \cup {j}
    /\ dir' = [dir EXCEPT ![j] = IF rows[j].pdf THEN @ ELSE "whole"]
    /\ working' = None
    /\ UNCHANGED <<cleaner, reading, live>>

\* The row is no longer `running`: every write of the attempt is fenced.
Abandon ==
    /\ working # None /\ rows[working].status # "running"
    /\ working' = None
    /\ UNCHANGED <<rows, artifacts, dir, cleaner, reading, live>>

-----------------------------------------------------------------------------
(* The users.                                                              *)

MarkDeleting(j) ==
    /\ rows[j].status \in Ended /\ rows[j].asks < MaxAsks
    /\ Set(j, [rows[j] EXCEPT !.render = rows[j].status, !.status = "deleting",
                              !.deletion = "pending", !.attempts = 0, !.due = TRUE,
                              !.asks = @ + 1])
    /\ UNCHANGED <<artifacts, dir, working, cleaner, reading, live>>

\* requeueSvg: the failed SVG stage of a job whose PDF is published.
RetrySvg(j) ==
    /\ rows[j].status = "failed" /\ ~rows[j].leased
    /\ rows[j].pdf /\ j \in artifacts /\ ~rows[j].old
    /\ rows[j].retries < MaxRetries
    /\ Set(j, [rows[j] EXCEPT !.status = "queued", !.render = "none",
                              !.retries = @ + 1])
    /\ UNCHANGED <<artifacts, dir, working, cleaner, reading, live>>

\* ARTIFACT_AVAILABLE_SQL
Available(j) ==
    /\ j \in artifacts /\ ~rows[j].old
    /\ \/ rows[j].status \in Ended
       \/ rows[j].status \in {"queued", "running"} /\ rows[j].pdf

\* The lease row is inserted in the transaction that looks the artifact up.
Download(r, j) ==
    /\ reading[r] = None /\ Available(j)
    /\ reading' = [reading EXCEPT ![r] = j]
    /\ live' = live \cup {r}
    /\ UNCHANGED <<rows, artifacts, dir, working, cleaner>>

\* The API process stalls or dies: the lease is not renewed and runs out.
LeaseLapses(r) ==
    /\ r \in live
    /\ live' = live \ {r}
    /\ UNCHANGED <<rows, artifacts, dir, working, cleaner, reading>>

\* The stream ends, fails, or is destroyed because its lease was lost.
DownloadEnds(r) ==
    /\ reading[r] # None
    /\ reading' = [reading EXCEPT ![r] = None]
    /\ live' = live \ {r}
    /\ UNCHANGED <<rows, artifacts, dir, working, cleaner>>

-----------------------------------------------------------------------------
(* The cleanup process: one pass over the jobs it selected at its start.   *)

Leased(j) == \E r \in live : reading[r] = j

CanClean_Unleased(j) ==
    \/ rows[j].deletion = "retained" /\ rows[j].status \in Ended /\ rows[j].old
    \/ rows[j].status = "deleting"
         /\ rows[j].deletion \in {"retained", "pending", "deleting"}
    \/ rows[j].deletion \in {"pending", "deleting", "retry"} /\ rows[j].due
CanClean(j) ==
    /\ \/ rows[j].deletion = "retained" /\ rows[j].status \in Ended /\ rows[j].old
       \/ rows[j].status = "deleting"
            /\ rows[j].deletion \in {"retained", "pending", "deleting"}
       \/ rows[j].deletion \in {"pending", "deleting", "retry"} /\ rows[j].due
    /\ ~Leased(j)

CleanStart ==
    /\ cleaner.pc = "off" /\ \E j \in Job : CanClean(j)
    /\ cleaner' = [cleaner EXCEPT !.pc = "pass", !.todo = {j \in Job : CanClean(j)}]
    /\ UNCHANGED <<rows, artifacts, dir, working, reading, live>>

\* The claim checks again what the selection saw.
CleanClaim(j) ==
    /\ cleaner.pc = "pass" /\ j \in cleaner.todo
    /\ IF CanClean(j)
       THEN /\ Set(j, [rows[j] EXCEPT
                 !.render = IF @ = "none" /\ rows[j].status \in Ended
                            THEN rows[j].status ELSE @,
                 !.status = "deleting", !.deletion = "deleting",
                 !.attempts = IF @ < MaxAttempts THEN @ + 1 ELSE @,
                 !.due = TRUE])
            /\ cleaner' = [cleaner EXCEPT !.pc = "claimed", !.todo = @ \ {j}, !.job = j]
       ELSE /\ cleaner' = [cleaner EXCEPT !.todo = @ \ {j}]
            /\ UNCHANGED rows
    /\ UNCHANGED <<artifacts, dir, working, reading, live>>

CleanRemove_Skipping ==
    /\ cleaner.pc = "claimed"
    /\ cleaner' = [cleaner EXCEPT !.pc = "removed"]
    /\ UNCHANGED <<rows, artifacts, dir, working, reading, live>>

CleanRemove ==
    /\ cleaner.pc = "claimed"
    /\ dir' = [dir EXCEPT ![cleaner.job] = "absent"]
    /\ cleaner' = [cleaner EXCEPT !.pc = "removed"]
    /\ UNCHANGED <<rows, artifacts, working, reading, live>>

\* rm stops at an entry it cannot remove, or the transaction after it fails.
CleanRemoveFails ==
    /\ cleaner.pc = "claimed"
    /\ \E d \in {dir[cleaner.job], "partial", "absent"} :
         /\ dir[cleaner.job] = "absent" => d = "absent"
         /\ dir' = [dir EXCEPT ![cleaner.job] = d]
    /\ cleaner' = [cleaner EXCEPT !.pc = "failed"]
    /\ UNCHANGED <<rows, artifacts, working, reading, live>>

Claimed(j) == rows[j].status = "deleting" /\ rows[j].deletion = "deleting"

\* Artifact rows and status go in one transaction, rolled back when the row is
\* no longer in the claimed state.
CleanFinish ==
    /\ cleaner.pc = "removed"
    /\ LET j == cleaner.job IN
       IF Claimed(j)
       THEN /\ Set(j, [rows[j] EXCEPT !.status = "deleted", !.deletion = "deleted",
                                      !.due = TRUE])
            /\ artifacts' = artifacts \ {j}
            /\ cleaner' = [cleaner EXCEPT !.pc = "pass", !.job = None]
       ELSE /\ cleaner' = [cleaner EXCEPT !.pc = "failed"]
            /\ UNCHANGED <<rows, artifacts>>
    /\ UNCHANGED <<dir, working, reading, live>>

Restored_Failed(row) ==
    [row EXCEPT !.status = "failed", !.due = row.attempts >= MaxAttempts,
                !.deletion = IF row.attempts < MaxAttempts THEN "retry" ELSE "failed"]
Restored_Endless(row) ==
    [row EXCEPT !.status = IF row.render = "none" THEN @ ELSE row.render,
                !.deletion = "retry", !.due = FALSE]

\* The render result is restored, and a job that failed too often is given up.
Restored(row) ==
    [row EXCEPT !.status = IF row.render = "none" THEN @ ELSE row.render,
                !.deletion = IF row.attempts < MaxAttempts THEN "retry" ELSE "failed",
                !.due = row.attempts >= MaxAttempts]

CleanFails ==
    /\ cleaner.pc = "failed"
    /\ LET j == cleaner.job IN
       IF Claimed(j) THEN Set(j, Restored(rows[j])) ELSE UNCHANGED rows
    /\ cleaner' = [cleaner EXCEPT !.pc = "pass", !.job = None]
    /\ UNCHANGED <<artifacts, dir, working, reading, live>>

CleanEnds ==
    /\ cleaner.pc = "pass" /\ cleaner.todo = {}
    /\ cleaner' = [cleaner EXCEPT !.pc = "off"]
    /\ UNCHANGED <<rows, artifacts, dir, working, reading, live>>

CleanCrash ==
    /\ cleaner.pc # "off" /\ cleaner.crashes < MaxCrashes
    /\ cleaner' = [CleanerOff EXCEPT !.crashes = cleaner.crashes + 1]
    /\ UNCHANGED <<rows, artifacts, dir, working, reading, live>>

-----------------------------------------------------------------------------
(* Time.                                                                   *)

Due(j) == /\ ~rows[j].due
          /\ Set(j, [rows[j] EXCEPT !.due = TRUE])
          /\ UNCHANGED <<artifacts, dir, working, cleaner, reading, live>>

\* Retention starts at the PDF's publication, else at the end of the job.
Age(j) == /\ ~rows[j].old
          /\ rows[j].pdf \/ rows[j].status \notin {"queued", "running"}
          /\ Set(j, [rows[j] EXCEPT !.old = TRUE])
          /\ UNCHANGED <<artifacts, dir, working, cleaner, reading, live>>

-----------------------------------------------------------------------------

Cleaning == \/ CleanStart \/ (\E j \in Job : CleanClaim(j)) \/ CleanRemove
            \/ CleanRemoveFails \/ CleanFinish \/ CleanFails \/ CleanEnds

Next == \/ \E j \in Job : \/ Claim(j) \/ PublishPdf(j) \/ Finish(j)
                          \/ MarkDeleting(j) \/ RetrySvg(j) \/ Due(j) \/ Age(j)
                          \/ \E r \in Reader : Download(r, j)
        \/ \E r \in Reader : LeaseLapses(r) \/ DownloadEnds(r)
        \/ Abandon \/ Cleaning \/ CleanCrash

Spec == Init /\ [][Next]_vars

\* The timer starts the cleanup every hour, time passes, and streams end.
Fairness == /\ WF_vars(Cleaning)
            /\ \A j \in Job : WF_vars(Due(j)) /\ WF_vars(Age(j))
            /\ \A r \in Reader : WF_vars(DownloadEnds(r))

FairSpec == Spec /\ Fairness

-----------------------------------------------------------------------------
(* Properties.                                                             *)

\* Every variable is in its range: in particular the status a failed deletion
\* writes back is one of the row's own, and a stream has a lease only while it
\* reads.
TypeOK == /\ rows \in [Job -> Row]
          /\ artifacts \subseteq Job
          /\ dir \in [Job -> {"absent", "partial", "whole"}]
          /\ working \in Job \cup {None}
          /\ cleaner \in Cleaner
          /\ reading \in [Reader -> Job \cup {None}]
          /\ live \subseteq {r \in Reader : reading[r] # None}

\* The rows tell the truth about the files: a deleted job left neither, and as
\* long as no deletion of it failed, whatever can be downloaded is whole.
\* Rows and files are changed by different processes, never in one step.
FilesMatchRows ==
    \A j \in Job :
      /\ rows[j].status = "deleted" => dir[j] = "absent" /\ j \notin artifacts
      /\ Available(j) /\ rows[j].deletion = "retained" => dir[j] = "whole"

\* The directory a stream reads stays as it is while the stream's lease lives,
\* whatever deletion, retry or retention does in between (OPERATIONS.md: the
\* cleanup must skip active artifact download leases).
ReadersUndisturbed ==
    [][\A r \in live : dir'[reading[r]] = dir[reading[r]]]_vars

\* A job's render result outlives every failed deletion, restart of the cleanup
\* and second deletion; only an SVG retry takes it back.
Result(row) == IF row.status \in Ended THEN row.status ELSE row.render

ResultKept ==
    [][\A j \in Job : Result(rows[j]) # "none" /\ Result(rows'[j]) # Result(rows[j])
                         => rows'[j].status = "queued"]_vars

\* A deletion that has begun is completed or given up after a bounded number of
\* attempts; downloads and failures cannot postpone it for ever.
DeletionSettles ==
    \A j \in Job : rows[j].status = "deleting"
                      ~> rows[j].status = "deleted" \/ rows[j].deletion = "failed"

\* The documented order `terminal -> deleting -> deleted`: the cleanup never
\* takes a job that is queued or being rendered.
DeletionFromTerminal ==
    [][\A j \in Job : rows'[j].status = "deleting" /\ rows[j].status # "deleting"
                         => rows[j].status \in Ended]_vars

=============================================================================
