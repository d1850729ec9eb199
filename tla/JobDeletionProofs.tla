------------------------- MODULE JobDeletionProofs -------------------------
(***************************************************************************)
(* The safety of JobDeletion for any number of jobs, downloads, attempts,  *)
(* retries and crashes: rows and files agree, readers are left alone, and  *)
(* the result of a render outlives every deletion that fails.              *)
(*                                                                         *)
(* TypeOK is inductive.  The three promises follow from what each process  *)
(* knows of a job: `Outcome` of its row, `Files` of its directory and its  *)
(* artifact rows, `Claims` of the job the cleanup is at.                   *)
(***************************************************************************)
EXTENDS JobDeletion, TLAPS

-----------------------------------------------------------------------------
(* The inductive invariant.                                                *)

\* A render result is there exactly when it was reached, and is not contradicted.
Outcome(j) ==
    /\ rows[j].status \in {"queued", "running"} => rows[j].render = "none"
    /\ rows[j].status \in Ended => rows[j].render \in {"none", rows[j].status}

\* What has artifact rows has a PDF or an end, and until a deletion it is whole.
Files(j) ==
    /\ j \in artifacts => rows[j].pdf \/ rows[j].status \notin {"queued", "running"}
    /\ rows[j].deletion = "retained" /\ (j \in artifacts \/ rows[j].pdf) => dir[j] = "whole"
    /\ rows[j].status = "deleted"
         => rows[j].deletion = "deleted" /\ dir[j] = "absent" /\ j \notin artifacts

\* The job the cleanup has claimed is still claimed, and nobody reads it.
AtJob == cleaner.pc \in {"claimed", "removed", "failed"}
Claims ==
    /\ AtJob => cleaner.job \in Job /\ Claimed(cleaner.job) /\ ~Leased(cleaner.job)
    /\ cleaner.pc = "removed" => dir[cleaner.job] = "absent"

Readers == \A r \in live : reading[r] \in artifacts

Recorded == \A j \in Job : Outcome(j) /\ Files(j)
IInv == TypeOK /\ Recorded /\ Claims /\ Readers

-----------------------------------------------------------------------------
(* Rows.                                                                   *)

\* The row of j gets these values, the others stay.
RowGoes(j, status, render, deletion, pdf) ==
    /\ rows' \in [Job -> Row]
    /\ rows'[j].status = status /\ rows'[j].render = render
    /\ rows'[j].deletion = deletion /\ rows'[j].pdf = pdf
    /\ \A k \in Job \ {j} : rows'[k] = rows[k]

LEMMA RowSet ==
  ASSUME TypeOK, NEW j \in Job, NEW row \in Row, Set(j, row)
  PROVE  RowGoes(j, row.status, row.render, row.deletion, row.pdf)
  BY DEF TypeOK, Set, RowGoes

LEMMA InitHolds == Init => IInv
<1> SUFFICES ASSUME Init PROVE IInv
  OBVIOUS
<1>1. NewRow \in Row /\ CleanerOff \in Cleaner
  <2>1. 0 \in 0..MaxAttempts /\ 0 \in 0..MaxRetries /\ 0 \in 0..MaxAsks /\ 0 \in 0..MaxCrashes
    BY JobDeletionAssumption
  <2> QED
    BY <2>1 DEF NewRow, Row, CleanerOff, Cleaner, Ended, Deletion
<1>2. TypeOK
  BY <1>1 DEF Init, TypeOK
<1>3. Recorded
  BY DEF Init, NewRow, Recorded, Outcome, Files, Ended
<1>4. Claims /\ Readers
  BY DEF Init, CleanerOff, Claims, AtJob, Readers
<1> QED
  BY <1>2, <1>3, <1>4 DEF IInv

\* What each writer of a row writes is a row.
LEMMA WorkerRows ==
  ASSUME NEW row \in Row
  PROVE  /\ [row EXCEPT !.status = "running", !.leased = TRUE] \in Row
         /\ [row EXCEPT !.pdf = TRUE] \in Row
         /\ \A s \in Ended :
              [row EXCEPT !.status = s, !.render = s, !.leased = FALSE] \in Row
  BY DEF Row, Ended

LEMMA MarkedRow ==
  ASSUME NEW row \in Row, row.status \in Ended, row.asks < MaxAsks
  PROVE  [row EXCEPT !.render = row.status, !.status = "deleting",
                     !.deletion = "pending", !.attempts = 0, !.due = TRUE,
                     !.asks = @ + 1] \in Row
<1>1. row.asks + 1 \in 0..MaxAsks /\ 0 \in 0..MaxAttempts
  BY JobDeletionAssumption DEF Row
<1>2. row.status \in Ended \cup {"none"}
  OBVIOUS
<1> QED
  BY <1>1, <1>2 DEF Row, Deletion

LEMMA RetriedRow ==
  ASSUME NEW row \in Row, row.retries < MaxRetries
  PROVE  [row EXCEPT !.status = "queued", !.render = "none", !.retries = @ + 1] \in Row
<1>1. row.retries + 1 \in 0..MaxRetries
  BY JobDeletionAssumption DEF Row
<1> QED
  BY <1>1 DEF Row

LEMMA AgedRows ==
  ASSUME NEW row \in Row
  PROVE  [row EXCEPT !.due = TRUE] \in Row /\ [row EXCEPT !.old = TRUE] \in Row
  BY DEF Row

LEMMA ClaimedRow ==
  ASSUME NEW row \in Row, NEW render \in Ended \cup {"none"}, NEW attempts \in 0..MaxAttempts
  PROVE  [row EXCEPT !.render = render, !.status = "deleting", !.deletion = "deleting",
                     !.attempts = attempts, !.due = TRUE] \in Row
  BY DEF Row, Deletion

LEMMA RestoredRow == ASSUME NEW row \in Row PROVE Restored(row) \in Row
<1> DEFINE status == IF row.render = "none" THEN row.status ELSE row.render
           deletion == IF row.attempts < MaxAttempts THEN "retry" ELSE "failed"
<1>1. status \in Ended \cup {"queued", "running", "deleting", "deleted"} /\ deletion \in Deletion
  BY DEF Row, Deletion
<1>2. (row.attempts >= MaxAttempts) \in BOOLEAN
  OBVIOUS
<1>3. Restored(row) = [row EXCEPT !.status = status, !.deletion = deletion,
                                  !.due = row.attempts >= MaxAttempts]
  BY DEF Restored, Row
<1> HIDE DEF status, deletion
<1> QED
  BY <1>1, <1>2, <1>3 DEF Row

LEMMA DeletedRow ==
  ASSUME NEW row \in Row
  PROVE  [row EXCEPT !.status = "deleted", !.deletion = "deleted", !.due = TRUE] \in Row
  BY DEF Row, Deletion

-----------------------------------------------------------------------------
(* The worker and the users.                                               *)

LEMMA ClaimSafe == ASSUME IInv, NEW j \in Job, Claim(j) PROVE IInv'
<1> USE DEF IInv
<1> rows[j] \in Row
  BY DEF TypeOK
<1>1. RowGoes(j, "running", rows[j].render, rows[j].deletion, rows[j].pdf)
  <2> DEFINE row == [rows[j] EXCEPT !.status = "running", !.leased = TRUE]
  <2>1. row \in Row /\ Set(j, row)
    BY WorkerRows DEF Claim
  <2>2. row.status = "running" /\ row.render = rows[j].render
        /\ row.deletion = rows[j].deletion /\ row.pdf = rows[j].pdf
    BY DEF Row
  <2> HIDE DEF row
  <2> QED
    BY <2>1, <2>2, RowSet
<1>2. TypeOK'
  BY <1>1 DEF Claim, TypeOK, RowGoes
<1>3. Recorded'
  BY <1>1 DEF Claim, RowGoes, Recorded, Outcome, Files, Ended
<1>4. Claims' /\ Readers'
  BY <1>1 DEF Claim, RowGoes, Claims, AtJob, Claimed, Leased, Readers
<1> QED
  BY <1>2, <1>3, <1>4

LEMMA PublishSafe == ASSUME IInv, NEW j \in Job, PublishPdf(j) PROVE IInv'
<1> USE DEF IInv
<1> rows[j] \in Row
  BY DEF TypeOK
<1>1. RowGoes(j, "running", rows[j].render, rows[j].deletion, TRUE)
  <2> DEFINE row == [rows[j] EXCEPT !.pdf = TRUE]
  <2>1. row \in Row /\ Set(j, row)
    BY WorkerRows DEF PublishPdf
  <2>2. row.status = "running" /\ row.render = rows[j].render
        /\ row.deletion = rows[j].deletion /\ row.pdf = TRUE
    BY DEF PublishPdf, Row
  <2> HIDE DEF row
  <2> QED
    BY <2>1, <2>2, RowSet
<1>2. TypeOK'
  BY <1>1 DEF PublishPdf, TypeOK, RowGoes
<1>3. Recorded'
  BY <1>1 DEF PublishPdf, TypeOK, RowGoes, Recorded, Outcome, Files, Ended
<1>4. Claims' /\ Readers'
  BY <1>1 DEF PublishPdf, TypeOK, RowGoes, Claims, AtJob, Claimed, Leased, Readers
<1> QED
  BY <1>2, <1>3, <1>4

LEMMA FinishSafe == ASSUME IInv, NEW j \in Job, Finish(j) PROVE IInv'
<1> USE DEF IInv
<1> rows[j] \in Row
  BY DEF TypeOK
<1>1. PICK s \in Ended : Set(j, [rows[j] EXCEPT !.status = s, !.render = s, !.leased = FALSE])
  BY DEF Finish, Ended
<1>2. RowGoes(j, s, s, rows[j].deletion, rows[j].pdf)
  <2> DEFINE row == [rows[j] EXCEPT !.status = s, !.render = s, !.leased = FALSE]
  <2>1. row \in Row /\ Set(j, row)
    BY <1>1, WorkerRows
  <2>2. row.status = s /\ row.render = s /\ row.deletion = rows[j].deletion
        /\ row.pdf = rows[j].pdf
    BY DEF Row
  <2> HIDE DEF row
  <2> QED
    BY <2>1, <2>2, RowSet
<1>3. TypeOK'
  BY <1>2 DEF Finish, TypeOK, RowGoes
<1>4. Recorded'
  BY <1>2 DEF Finish, TypeOK, RowGoes, Recorded, Outcome, Files, Ended
<1>5. Claims' /\ Readers'
  BY <1>2 DEF Finish, TypeOK, RowGoes, Claims, AtJob, Claimed, Leased, Readers
<1> QED
  BY <1>3, <1>4, <1>5

LEMMA MarkSafe == ASSUME IInv, NEW j \in Job, MarkDeleting(j) PROVE IInv'
<1> USE DEF IInv
<1> rows[j] \in Row
  BY DEF TypeOK
<1>1. RowGoes(j, "deleting", rows[j].status, "pending", rows[j].pdf)
  <2> DEFINE row == [rows[j] EXCEPT !.render = rows[j].status, !.status = "deleting",
                                    !.deletion = "pending", !.attempts = 0, !.due = TRUE,
                                    !.asks = @ + 1]
  <2>1. row \in Row /\ Set(j, row)
    BY MarkedRow DEF MarkDeleting
  <2>2. row.status = "deleting" /\ row.render = rows[j].status
        /\ row.deletion = "pending" /\ row.pdf = rows[j].pdf
    BY DEF Row
  <2> HIDE DEF row
  <2> QED
    BY <2>1, <2>2, RowSet
<1>2. TypeOK'
  BY <1>1 DEF MarkDeleting, TypeOK, RowGoes
<1>3. Recorded'
  BY <1>1 DEF MarkDeleting, RowGoes, Recorded, Outcome, Files, Ended
<1>4. Claims' /\ Readers'
  BY <1>1 DEF MarkDeleting, RowGoes, Claims, AtJob, Claimed, Leased, Readers, Ended
<1> QED
  BY <1>2, <1>3, <1>4

LEMMA RetrySafe == ASSUME IInv, NEW j \in Job, RetrySvg(j) PROVE IInv'
<1> USE DEF IInv
<1> rows[j] \in Row
  BY DEF TypeOK
<1>1. RowGoes(j, "queued", "none", rows[j].deletion, rows[j].pdf)
  <2> DEFINE row == [rows[j] EXCEPT !.status = "queued", !.render = "none", !.retries = @ + 1]
  <2>1. row \in Row /\ Set(j, row)
    BY RetriedRow DEF RetrySvg
  <2>2. row.status = "queued" /\ row.render = "none"
        /\ row.deletion = rows[j].deletion /\ row.pdf = rows[j].pdf
    BY DEF Row
  <2> HIDE DEF row
  <2> QED
    BY <2>1, <2>2, RowSet
<1>2. TypeOK'
  BY <1>1 DEF RetrySvg, TypeOK, RowGoes
<1>3. Recorded'
  BY <1>1 DEF RetrySvg, RowGoes, Recorded, Outcome, Files, Ended
<1>4. Claims' /\ Readers'
  BY <1>1 DEF RetrySvg, RowGoes, Claims, AtJob, Claimed, Leased, Readers
<1> QED
  BY <1>2, <1>3, <1>4

LEMMA TimeSafe == ASSUME IInv, NEW j \in Job, Due(j) \/ Age(j) PROVE IInv'
<1> USE DEF IInv
<1> rows[j] \in Row
  BY DEF TypeOK
<1>1. RowGoes(j, rows[j].status, rows[j].render, rows[j].deletion, rows[j].pdf)
  <2>1. PICK row \in {[rows[j] EXCEPT !.due = TRUE], [rows[j] EXCEPT !.old = TRUE]} :
            Set(j, row)
    BY DEF Due, Age
  <2>2. row \in Row
    BY AgedRows
  <2>3. row.status = rows[j].status /\ row.render = rows[j].render
        /\ row.deletion = rows[j].deletion /\ row.pdf = rows[j].pdf
    BY DEF Row
  <2> QED
    BY <2>1, <2>2, <2>3, RowSet
<1>2. UNCHANGED <<artifacts, dir, working, cleaner, reading, live>>
  BY DEF Due, Age
<1>3. TypeOK'
  BY <1>1, <1>2 DEF TypeOK, RowGoes
<1>4. Recorded'
  BY <1>1, <1>2 DEF RowGoes, Recorded, Outcome, Files
<1>5. Claims' /\ Readers'
  BY <1>1, <1>2 DEF RowGoes, Claims, AtJob, Claimed, Leased, Readers
<1> QED
  BY <1>3, <1>4, <1>5

LEMMA AbandonSafe == ASSUME IInv, Abandon PROVE IInv'
<1> USE DEF IInv, Abandon
<1>1. TypeOK'
  BY DEF TypeOK
<1>2. Recorded' /\ Claims' /\ Readers'
  BY DEF Recorded, Outcome, Files, Claims, AtJob, Claimed, Leased, Readers
<1> QED
  BY <1>1, <1>2

\* The claimed job cannot be downloaded: it is neither at an end nor in work.
LEMMA DownloadSafe ==
  ASSUME IInv, NEW r \in Reader, NEW j \in Job, Download(r, j) PROVE IInv'
<1> USE DEF IInv, Download
<1>1. TypeOK'
  BY JobDeletionAssumption DEF TypeOK
<1>2. j \in artifacts /\ ~Claimed(j) /\ reading'[r] = j /\ live' = live \cup {r}
  BY DEF TypeOK, Available, Claimed, Ended
<1>3. Recorded' /\ Readers'
  BY <1>2 DEF Recorded, Outcome, Files, Readers, TypeOK
<1>4. ASSUME NEW k \in Job, ~Leased(k), k # j PROVE ~Leased(k)'
  BY <1>2, <1>4 DEF Leased, TypeOK
<1>5. Claims'
  BY <1>2, <1>4 DEF Claims, AtJob, Claimed
<1> QED
  BY <1>1, <1>3, <1>5

LEMMA StreamSafe ==
  ASSUME IInv, NEW r \in Reader, LeaseLapses(r) \/ DownloadEnds(r) PROVE IInv'
<1> USE DEF IInv, LeaseLapses, DownloadEnds
<1>1. TypeOK'
  BY DEF TypeOK
<1>2. live' = live \ {r} /\ \A s \in live' : reading'[s] = reading[s]
  BY DEF TypeOK
<1>3. Recorded' /\ Readers'
  BY <1>2 DEF Recorded, Outcome, Files, Readers
<1>4. Claims'
  BY <1>2 DEF Claims, AtJob, Claimed, Leased
<1> QED
  BY <1>1, <1>3, <1>4

-----------------------------------------------------------------------------
(* The cleanup.                                                            *)

\* The cleanup moves on and only the directory may follow.
LEMMA CleanerMoves ==
  ASSUME IInv, NEW pc \in {"off", "pass", "claimed", "removed", "failed"},
         NEW todo \in SUBSET Job, NEW job \in Job \cup {None}, NEW crashes \in 0..MaxCrashes,
         cleaner' = [pc |-> pc, todo |-> todo, job |-> job, crashes |-> crashes],
         UNCHANGED <<rows, artifacts, dir, working, reading, live>>,
         pc \in {"claimed", "removed", "failed"} => AtJob /\ job = cleaner.job,
         pc = "removed" => dir[job] = "absent"
  PROVE  IInv'
<1> USE DEF IInv
<1>1. TypeOK'
  BY DEF TypeOK, Cleaner
<1>2. Recorded' /\ Readers'
  BY DEF Recorded, Outcome, Files, Readers
<1>3. Claims'
  BY DEF Claims, AtJob, Claimed, Leased
<1> QED
  BY <1>1, <1>2, <1>3

LEMMA PassSafe == ASSUME IInv, CleanStart \/ CleanEnds \/ CleanCrash PROVE IInv'
<1> cleaner \in Cleaner
  BY DEF IInv, TypeOK
<1>1. CASE CleanStart
  <2>1. cleaner' = [pc |-> "pass", todo |-> {j \in Job : CanClean(j)},
                    job |-> cleaner.job, crashes |-> cleaner.crashes]
    BY <1>1 DEF CleanStart, Cleaner
  <2> QED
    BY <1>1, <2>1, CleanerMoves DEF CleanStart, Cleaner
<1>2. CASE CleanEnds
  <2>1. cleaner' = [pc |-> "off", todo |-> cleaner.todo,
                    job |-> cleaner.job, crashes |-> cleaner.crashes]
    BY <1>2 DEF CleanEnds, Cleaner
  <2> QED
    BY <1>2, <2>1, CleanerMoves DEF CleanEnds, Cleaner
<1>3. CASE CleanCrash
  <2>1. cleaner' = [pc |-> "off", todo |-> {}, job |-> None,
                    crashes |-> cleaner.crashes + 1]
    BY <1>3 DEF CleanCrash, CleanerOff
  <2>2. cleaner.crashes + 1 \in 0..MaxCrashes
    BY <1>3, JobDeletionAssumption DEF CleanCrash, Cleaner
  <2> QED
    BY <1>3, <2>1, <2>2, CleanerMoves DEF CleanCrash
<1> QED
  BY <1>1, <1>2, <1>3

LEMMA CleanClaimSafe == ASSUME IInv, NEW j \in Job, CleanClaim(j) PROVE IInv'
<1> USE DEF IInv
<1> rows[j] \in Row /\ cleaner \in Cleaner
  BY DEF TypeOK
<1>1. CASE ~CanClean(j)
  <2>1. cleaner' = [pc |-> "pass", todo |-> cleaner.todo \ {j},
                    job |-> cleaner.job, crashes |-> cleaner.crashes]
    BY <1>1 DEF CleanClaim, Cleaner
  <2> QED
    BY <1>1, <2>1, CleanerMoves DEF CleanClaim, Cleaner
<1>2. CASE CanClean(j)
  <2> DEFINE render == IF rows[j].render = "none" /\ rows[j].status \in Ended
                       THEN rows[j].status ELSE rows[j].render
             attempts == IF rows[j].attempts < MaxAttempts
                         THEN rows[j].attempts + 1 ELSE rows[j].attempts
             row == [rows[j] EXCEPT !.render = render, !.status = "deleting",
                                    !.deletion = "deleting", !.attempts = attempts,
                                    !.due = TRUE]
  <2>1. render \in Ended \cup {"none"}
    BY DEF Row
  <2>2. attempts \in 0..MaxAttempts
    BY JobDeletionAssumption DEF Row
  <2>3. Set(j, row)
    BY <1>2 DEF CleanClaim, Row
  <2>4. UNCHANGED <<artifacts, dir, working, reading, live>>
    BY DEF CleanClaim
  <2>5. cleaner' = [pc |-> "claimed", todo |-> cleaner.todo \ {j}, job |-> j,
                    crashes |-> cleaner.crashes]
    BY <1>2 DEF CleanClaim, Cleaner
  <2>6. RowGoes(j, "deleting", render, "deleting", rows[j].pdf)
    <3> HIDE DEF render, attempts
    <3>1. row \in Row
      BY <2>1, <2>2, ClaimedRow
    <3>2. row.status = "deleting" /\ row.render = render
          /\ row.deletion = "deleting" /\ row.pdf = rows[j].pdf
      BY DEF Row
    <3> HIDE DEF row
    <3> QED
      BY <2>3, <3>1, <3>2, RowSet
  <2> HIDE DEF render, attempts, row
  <2>7. TypeOK'
    BY <2>4, <2>5, <2>6 DEF TypeOK, RowGoes, Cleaner
  <2>8. Recorded'
    BY <2>4, <2>6 DEF RowGoes, Recorded, Outcome, Files, Ended
  <2>9. Claims' /\ Readers'
    BY <1>2, <2>4, <2>5, <2>6
       DEF RowGoes, CanClean, Claims, AtJob, Claimed, Leased, Readers
  <2> QED
    BY <2>7, <2>8, <2>9
<1> QED
  BY <1>1, <1>2

\* The directory of the claimed job may change: its row is past `retained`.
LEMMA RemoveSafe == ASSUME IInv, CleanRemove \/ CleanRemoveFails PROVE IInv'
<1> USE DEF IInv
<1> cleaner \in Cleaner
  BY DEF TypeOK
<1> DEFINE j == cleaner.job
<1>1. /\ AtJob /\ j \in Job /\ Claimed(j) /\ ~Leased(j)
      /\ UNCHANGED <<rows, artifacts, working, reading, live>>
  BY DEF CleanRemove, CleanRemoveFails, Claims, AtJob
<1>2. PICK pc \in {"removed", "failed"}, d \in {"absent", "partial", "whole"} :
        /\ cleaner' = [pc |-> pc, todo |-> cleaner.todo, job |-> j,
                       crashes |-> cleaner.crashes]
        /\ dir' = [dir EXCEPT ![j] = d]
        /\ pc = "removed" => d = "absent"
  <2>1. CASE CleanRemove
    BY <2>1 DEF CleanRemove, Cleaner
  <2>2. CASE CleanRemoveFails
    <3>1. PICK d \in {"absent", "partial", "whole"} : dir' = [dir EXCEPT ![j] = d]
      BY <1>1, <2>2 DEF CleanRemoveFails, TypeOK
    <3>2. cleaner' = [pc |-> "failed", todo |-> cleaner.todo, job |-> j,
                      crashes |-> cleaner.crashes]
      BY <2>2 DEF CleanRemoveFails, Cleaner
    <3> QED
      BY <3>1, <3>2
  <2> QED
    BY <2>1, <2>2
<1>3. TypeOK'
  BY <1>1, <1>2 DEF TypeOK, Cleaner
<1>4. /\ dir'[j] = d
      /\ \A k \in Job \ {j} : dir'[k] = dir[k]
  BY <1>1, <1>2 DEF TypeOK
<1>5. Recorded'
  BY <1>1, <1>4 DEF Claimed, Recorded, Outcome, Files
<1>6. Claims' /\ Readers'
  BY <1>1, <1>2, <1>4 DEF Claims, AtJob, Claimed, Leased, Readers
<1> QED
  BY <1>3, <1>5, <1>6

LEMMA CleanFinishSafe == ASSUME IInv, CleanFinish PROVE IInv'
<1> USE DEF IInv
<1> cleaner \in Cleaner
  BY DEF TypeOK
<1> DEFINE j == cleaner.job
<1>1. j \in Job /\ Claimed(j) /\ ~Leased(j) /\ dir[j] = "absent" /\ rows[j] \in Row
  BY DEF CleanFinish, Claims, AtJob, TypeOK
<1>2. /\ cleaner' = [pc |-> "pass", todo |-> cleaner.todo, job |-> None,
                     crashes |-> cleaner.crashes]
      /\ artifacts' = artifacts \ {j}
      /\ UNCHANGED <<dir, working, reading, live>>
  BY <1>1 DEF CleanFinish, Cleaner
<1>3. RowGoes(j, "deleted", rows[j].render, "deleted", rows[j].pdf)
  <2> DEFINE row == [rows[j] EXCEPT !.status = "deleted", !.deletion = "deleted",
                                    !.due = TRUE]
  <2>1. Set(j, row)
    BY <1>1 DEF CleanFinish
  <2>2. row \in Row
    BY <1>1, DeletedRow
  <2>3. row.status = "deleted" /\ row.render = rows[j].render
        /\ row.deletion = "deleted" /\ row.pdf = rows[j].pdf
    BY <1>1 DEF Row
  <2> HIDE DEF row, j
  <2> QED
    BY <1>1, <2>1, <2>2, <2>3, RowSet
<1> HIDE DEF j
<1>4. TypeOK'
  BY <1>2, <1>3 DEF TypeOK, RowGoes, Cleaner
<1>5. Recorded'
  BY <1>1, <1>2, <1>3 DEF RowGoes, Recorded, Outcome, Files, Ended
<1>6. Claims' /\ Readers'
  BY <1>1, <1>2 DEF Claims, AtJob, Leased, Readers
<1> QED
  BY <1>4, <1>5, <1>6

LEMMA CleanFailsSafe == ASSUME IInv, CleanFails PROVE IInv'
<1> USE DEF IInv
<1> cleaner \in Cleaner
  BY DEF TypeOK
<1> DEFINE j == cleaner.job
           status == IF rows[j].render = "none" THEN rows[j].status ELSE rows[j].render
           deletion == IF rows[j].attempts < MaxAttempts THEN "retry" ELSE "failed"
<1>1. j \in Job /\ Claimed(j) /\ rows[j] \in Row
  BY DEF CleanFails, Claims, AtJob, TypeOK
<1>2. /\ cleaner' = [pc |-> "pass", todo |-> cleaner.todo, job |-> None,
                     crashes |-> cleaner.crashes]
      /\ UNCHANGED <<artifacts, dir, working, reading, live>>
  BY DEF CleanFails, Cleaner
<1>3. RowGoes(j, status, rows[j].render, deletion, rows[j].pdf)
  <2>1. Set(j, Restored(rows[j]))
    BY <1>1 DEF CleanFails
  <2>2. Restored(rows[j]) \in Row
    BY <1>1, RestoredRow
  <2>3. Restored(rows[j]).status = status /\ Restored(rows[j]).render = rows[j].render
        /\ Restored(rows[j]).deletion = deletion /\ Restored(rows[j]).pdf = rows[j].pdf
    BY <1>1 DEF Restored, Row
  <2> HIDE DEF status, deletion, j
  <2> QED
    BY <1>1, <2>1, <2>2, <2>3, RowSet
<1>4. status \in Ended \cup {"deleting"} /\ (status \in Ended => status = rows[j].render)
      /\ deletion \in {"retry", "failed"}
  BY <1>1 DEF Claimed, Row, Ended
<1> HIDE DEF j, status, deletion
<1>5. TypeOK'
  BY <1>2, <1>3 DEF TypeOK, RowGoes, Cleaner
<1>6. Recorded'
  BY <1>1, <1>2, <1>3, <1>4 DEF RowGoes, Recorded, Outcome, Files, Ended
<1>7. Claims' /\ Readers'
  BY <1>2 DEF Claims, AtJob, Readers
<1> QED
  BY <1>5, <1>6, <1>7

LEMMA NextSafe == ASSUME IInv, [Next]_vars PROVE IInv'
<1>1. CASE UNCHANGED vars
  BY <1>1 DEF vars, IInv, TypeOK, Recorded, Outcome, Files, Claims, AtJob, Claimed,
              Leased, Readers
<1>2. CASE Next
  BY <1>2, ClaimSafe, PublishSafe, FinishSafe, MarkSafe, RetrySafe, TimeSafe,
     AbandonSafe, DownloadSafe, StreamSafe, PassSafe, CleanClaimSafe, RemoveSafe,
     CleanFinishSafe, CleanFailsSafe DEF Next, Cleaning
<1> QED
  BY <1>1, <1>2

LEMMA AlwaysIInv == Spec => []IInv
<1>1. Init => IInv
  BY InitHolds
<1>2. IInv /\ [Next]_vars => IInv'
  BY NextSafe
<1> QED
  BY <1>1, <1>2, PTL DEF Spec

\* What the cleanup's claim writes of a result.
LEMMA CleanClaimRow ==
  ASSUME TypeOK, NEW j \in Job, CleanClaim(j), rows' # rows
  PROVE  /\ rows'[j].status = "deleting"
         /\ rows'[j].render = IF rows[j].render = "none" /\ rows[j].status \in Ended
                              THEN rows[j].status ELSE rows[j].render
<1> DEFINE render == IF rows[j].render = "none" /\ rows[j].status \in Ended
                     THEN rows[j].status ELSE rows[j].render
           attempts == IF rows[j].attempts < MaxAttempts
                       THEN rows[j].attempts + 1 ELSE rows[j].attempts
<1>1. rows[j] \in Row /\ rows \in [Job -> Row]
  BY DEF TypeOK
<1>2. rows' = [rows EXCEPT ![j] = [rows[j] EXCEPT !.render = render, !.status = "deleting",
                                     !.deletion = "deleting", !.attempts = attempts,
                                     !.due = TRUE]]
  BY <1>1 DEF CleanClaim, Set, Row
<1> HIDE DEF render, attempts
<1>3. rows'[j].status = "deleting" /\ rows'[j].render = render
  BY <1>1, <1>2 DEF Row
<1> QED
  BY <1>3 DEF render

-----------------------------------------------------------------------------
(* The theorems.                                                           *)

\* Whatever the users, the worker and the cleanup do to a job at the same time,
\* rows, directories, streams and the cleanup's own state stay in their ranges:
\* every row a claim, a failure or a retry writes is one the table admits.
THEOREM DeletionTyped == Spec => []TypeOK
<1>1. IInv => TypeOK
  BY DEF IInv
<1> QED
  BY <1>1, AlwaysIInv, PTL

\* A deleted job has left no directory and no artifact row, and what can be
\* downloaded before any deletion failed is whole, though rows and files are
\* never changed in one step.
THEOREM FilesMatch == Spec => []FilesMatchRows
<1>1. IInv => FilesMatchRows
  BY DEF IInv, Recorded, Files, FilesMatchRows, Available
<1> QED
  BY <1>1, AlwaysIInv, PTL

\* No stream with a living lease sees its directory change: a publication finds
\* no artifact row of what it publishes, and the cleanup claims only what nobody
\* reads, which nobody can begin to read until the cleanup lets go of it.
THEOREM ReadersLeftAlone == Spec => ReadersUndisturbed
<1> DEFINE Undisturbed == \A r \in live : dir'[reading[r]] = dir[reading[r]]
<1>1. ASSUME IInv, [Next]_vars PROVE Undisturbed
  <2> SUFFICES ASSUME dir' # dir, NEW r \in live
               PROVE  dir'[reading[r]] = dir[reading[r]]
    OBVIOUS
  <2>0. reading[r] \in artifacts /\ reading[r] \in Job
    BY <1>1 DEF IInv, Readers, TypeOK
  <2>1. CASE \E j \in Job : PublishPdf(j) \/ Finish(j)
    <3>1. PICK j \in Job : PublishPdf(j) \/ Finish(j)
      BY <2>1
    <3>2. rows[j].status = "running" /\ ~rows[j].pdf /\ \A k \in Job \ {j} : dir'[k] = dir[k]
      BY <1>1, <3>1 DEF PublishPdf, Finish, IInv, TypeOK
    <3>3. j \notin artifacts
      BY <1>1, <3>2 DEF IInv, Recorded, Files
    <3> QED
      BY <2>0, <3>2, <3>3
  <2>2. CASE CleanRemove \/ CleanRemoveFails
    <3>1. ~Leased(cleaner.job)
      BY <1>1, <2>2 DEF CleanRemove, CleanRemoveFails, IInv, Claims, AtJob
    <3>2. \A k \in Job \ {cleaner.job} : dir'[k] = dir[k]
      BY <1>1, <2>2 DEF CleanRemove, CleanRemoveFails, IInv, TypeOK
    <3> QED
      BY <2>0, <3>1, <3>2 DEF Leased
  <2> QED
    BY <1>1, <2>1, <2>2 DEF vars, Next, Cleaning, Claim, MarkDeleting, RetrySvg, Due,
       Age, Download, LeaseLapses, DownloadEnds, Abandon, CleanStart, CleanClaim,
       CleanFinish, CleanFails, CleanEnds, CleanCrash
<1>2. IInv /\ [Next]_vars => [Undisturbed]_vars
  BY <1>1
<1> QED
  BY <1>2, AlwaysIInv, PTL DEF Spec, ReadersUndisturbed

\* What a job was rendered to is never forgotten or rewritten by its deletion,
\* by the failures and restarts of the cleanup or by a second deletion: only the
\* retry of its SVG pages takes it back, and that queues the job.
THEOREM ResultsKept == Spec => ResultKept
<1> DEFINE Kept == \A j \in Job : Result(rows[j]) # "none" /\ Result(rows'[j]) # Result(rows[j])
                                     => rows'[j].status = "queued"
<1>1. ASSUME IInv, [Next]_vars PROVE Kept
  <2> SUFFICES ASSUME rows' # rows PROVE Kept
    OBVIOUS
  <2> rows \in [Job -> Row] /\ Recorded
    BY <1>1 DEF IInv, TypeOK
  <2>1. ASSUME NEW j \in Job, Claim(j) \/ PublishPdf(j) \/ Finish(j) PROVE Kept
    <3>1. rows[j].status \in {"queued", "running"} /\ Result(rows[j]) = "none"
      BY <2>1 DEF Claim, PublishPdf, Finish, Result, Recorded, Outcome, Ended
    <3>2. \A k \in Job \ {j} : rows'[k] = rows[k]
      BY <2>1 DEF Claim, PublishPdf, Finish, Set
    <3> QED
      BY <3>1, <3>2
  <2>2. ASSUME NEW j \in Job, MarkDeleting(j) \/ RetrySvg(j) PROVE Kept
    <3>1. \A k \in Job \ {j} : rows'[k] = rows[k]
      BY <2>2 DEF MarkDeleting, RetrySvg, Set
    <3>2. rows'[j].status = "queued" \/ Result(rows'[j]) = Result(rows[j])
      BY <2>2 DEF MarkDeleting, RetrySvg, Set, Result, Ended, Row
    <3> QED
      BY <3>1, <3>2
  <2>3. ASSUME NEW j \in Job, CleanClaim(j) PROVE Kept
    <3>1. \A k \in Job \ {j} : rows'[k] = rows[k]
      BY <2>3 DEF CleanClaim, Set
    <3>2. Result(rows[j]) # "none" => Result(rows'[j]) = Result(rows[j])
      <4>1. CASE rows' = rows
        BY <4>1
      <4>2. CASE rows' # rows
        <5>1. /\ rows'[j].status = "deleting"
              /\ rows'[j].render = IF rows[j].render = "none" /\ rows[j].status \in Ended
                                   THEN rows[j].status ELSE rows[j].render
          BY <1>1, <2>3, <4>2, CleanClaimRow DEF IInv
        <5>2. rows[j].status \in Ended => rows[j].render \in {"none", rows[j].status}
          BY DEF Recorded, Outcome
        <5> QED
          BY <5>1, <5>2 DEF Result, Ended
      <4> QED
        BY <4>1, <4>2
    <3> QED
      BY <3>1, <3>2
  <2>4. ASSUME CleanFinish \/ CleanFails PROVE Kept
    <3> DEFINE j == cleaner.job
    <3>1. j \in Job /\ Claimed(j) /\ rows[j] \in Row
      BY <1>1, <2>4 DEF CleanFinish, CleanFails, IInv, Claims, AtJob
    <3>2. \A k \in Job \ {j} : rows'[k] = rows[k]
      BY <2>4 DEF CleanFinish, CleanFails, Set
    <3>3. Result(rows'[j]) = Result(rows[j])
      <4>1. CASE CleanFinish
        <5>1. rows' = [rows EXCEPT ![j] = [rows[j] EXCEPT !.status = "deleted",
                                             !.deletion = "deleted", !.due = TRUE]]
          BY <3>1, <4>1 DEF CleanFinish, Set
        <5>2. rows'[j].status = "deleted" /\ rows'[j].render = rows[j].render
          BY <3>1, <5>1 DEF Row
        <5> QED
          BY <3>1, <5>2 DEF Claimed, Result, Ended
      <4>2. CASE CleanFails
        <5>1. rows'[j] = Restored(rows[j])
          BY <3>1, <4>2 DEF CleanFails, Set
        <5>2. /\ rows'[j].render = rows[j].render
              /\ rows'[j].status = IF rows[j].render = "none" THEN rows[j].status
                                   ELSE rows[j].render
          BY <3>1, <5>1 DEF Restored, Row
        <5>3. rows[j].render \in Ended \cup {"none"} /\ rows[j].status = "deleting"
          BY <3>1 DEF Claimed, Row
        <5> QED
          BY <5>2, <5>3 DEF Result, Ended
      <4> QED
        BY <2>4, <4>1, <4>2
    <3> QED
      BY <3>2, <3>3
  <2>5. ASSUME NEW j \in Job, Due(j) \/ Age(j) PROVE Kept
    <3>1. \A k \in Job \ {j} : rows'[k] = rows[k]
      BY <2>5 DEF Due, Age, Set
    <3>2. Result(rows'[j]) = Result(rows[j])
      BY <2>5 DEF Due, Age, Set, Result, Row
    <3> QED
      BY <3>1, <3>2
  <2> HIDE DEF Kept
  <2> QED
    BY <1>1, <2>1, <2>2, <2>3, <2>4, <2>5 DEF vars, Next, Cleaning, Download,
       LeaseLapses, DownloadEnds, Abandon, CleanStart, CleanRemove, CleanRemoveFails,
       CleanEnds, CleanCrash
<1>2. IInv /\ [Next]_vars => [Kept]_vars
  BY <1>1
<1> QED
  BY <1>2, AlwaysIInv, PTL DEF Spec, ResultKept
=============================================================================
