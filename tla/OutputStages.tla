---------------------------- MODULE OutputStages ----------------------------
(***************************************************************************)
(* One job with PDF and SVG output: its two stages, the storage            *)
(* generations their results are published under, the record of a failure, *)
(* the retry of the SVG stage, and the recovery that prunes what a dead    *)
(* attempt has left (apps/renderer-worker/src/staged-job-processor.ts,     *)
(* failure.ts, stage-recovery.ts).                                         *)
(*                                                                         *)
(* An attempt under lease generation g publishes its PDF as outputs/2g and *)
(* its SVG pages as outputs/2g+1; a failure without a PDF publishes its    *)
(* diagnostics as outputs/g.  Containers are those of JobLease and are     *)
(* abstracted to the end of a stage; `failed` stands for timeout too.      *)
(***************************************************************************)
EXTENDS JobRow, FiniteSets

CONSTANTS MaxAttempts,   \* SVG attempts of a job, 8 in the code
          MaxFaults,     \* bound: stalls, crashes, daemon outages, retries
          MaxCancels,    \* bound: cancellations a user asks for
          Downloads      \* bound: whether artifacts are downloaded

ASSUME OutputStagesAssumption == /\ {MaxAttempts, MaxFaults, MaxCancels} \subseteq Nat
                                 /\ Downloads \in BOOLEAN

VARIABLES job,       \* the row of the job
          stages,    \* its row in job_output_stages
          rows,      \* generation of its artifact rows, 0 for none
          outputs,   \* directories outputs/<at>
          proc,      \* where each worker process is
          rec,       \* where each recovery pass is
          reading,   \* an artifact is being downloaded under a live lease
          faults, cancels

vars == <<job, stages, rows, outputs, proc, rec, reading, faults, cancels>>

StageStatus == {"queued", "running", "succeeded", "failed", "canceled", "skipped"}
Stages == [made : BOOLEAN, pdf : StageStatus, svg : StageStatus,
           pdfGen : Nat, svgGen : Nat, attempt : Nat]
Output == [at : Nat, kind : {"pdf", "svg", "diagnostics"}, gen : Nat]

Places == {"idle", "claimed", "prepared", "pdf", "pdf_good", "pdf_bad", "bad_renamed",
           "pdf_renewed", "pdf_renamed", "verify", "svg", "svg_done", "svg_renewed",
           "svg_renamed", "final", "last", "failing", "fail_staging", "fail_ready",
           "fail_renamed"}
Process == [pc : Places, gen : Nat, mine : SUBSET Nat,
            next : {"idle", "failing"}, svg : {"succeeded", "failed"}]
Recovery == [pc : {"idle", "claimed", "prune_pdf", "prune_svg", "finish"},
             gen : Nat, stale : Nat, status : Status, keep : SUBSET Nat]

IdleProcess == [pc |-> "idle", gen |-> 0, mine |-> {}, next |-> "idle", svg |-> "failed"]
IdleRecovery == [pc |-> "idle", gen |-> 0, stale |-> 0, status |-> "queued", keep |-> {}]

Init == /\ job = QueuedRow
        /\ stages = [made |-> FALSE, pdf |-> "queued", svg |-> "queued",
                     pdfGen |-> 0, svgGen |-> 0, attempt |-> 1]
        /\ rows = [main |-> 0, svg |-> 0]
        /\ outputs = {} /\ reading = FALSE
        /\ proc = [w \in Worker |-> IdleProcess]
        /\ rec = [w \in Worker |-> IdleRecovery]
        /\ faults = 0 /\ cancels = 0

\* storageGeneration
StorageGeneration(gen, svg) == gen * 2 + IF svg THEN 1 ELSE 0

Present(n) == \E d \in outputs : d.at = n
Published  == stages.made /\ stages.pdf = "succeeded"

-----------------------------------------------------------------------------
(* The triggers on a change of the job's status.                           *)

Open == {"queued", "running"}

\* output_stages_terminal
EndedStages_PdfOnly(s, status) ==
    LET end == IF status = "rejected" THEN "failed" ELSE status
    IN [s EXCEPT !.pdf = IF @ \in Open THEN end ELSE @]
EndedStages(s, status) ==
    LET end == IF status = "rejected" THEN "failed" ELSE status
    IN [s EXCEPT !.pdf = IF @ \in Open THEN end ELSE @,
                 !.svg = IF @ \in Open
                           THEN IF s.pdf # "succeeded" THEN "skipped" ELSE end ELSE @]

\* output_stages_recover
RequeuedStages(s) == [s EXCEPT !.pdf = IF @ = "running" THEN "queued" ELSE @,
                               !.svg = IF @ = "running" THEN "queued" ELSE @]

\* The stages after the row of the job has become `row`.
Triggered(s, row) ==
    IF ~s.made THEN s
    ELSE IF row.status \in {"failed", "canceled", "rejected"} THEN EndedStages(s, row.status)
    ELSE IF row.status = "queued" /\ job.status \in {"validating", "running"}
           THEN RequeuedStages(s) ELSE s

SetJob(row) == job' = row /\ stages' = Triggered(stages, row)

-----------------------------------------------------------------------------
(* processStagedJob.                                                       *)

Owns(w)       == Owned(job, Lease(w), proc[w].gen)
StageOwned(w) == Owns(w) /\ job.status = "running" /\ ~job.cancel

At(w, pc)   == proc[w].pc = pc
Goto(w, pc) == proc' = [proc EXCEPT ![w] = IF pc = "idle" THEN IdleProcess
                                                        ELSE [@ EXCEPT !.pc = pc]]
Leave(w, next) == proc' = [proc EXCEPT ![w].pc = "final", ![w].next = next, ![w].svg = "failed"]

KeepJob   == UNCHANGED <<job, stages>>
KeepFiles == UNCHANGED <<rows, outputs>>
Aside     == UNCHANGED <<rec, reading, faults, cancels>>

\* canceled(): the owner of a job whose cancellation was requested ends it.
EndCanceled(w) == IF Owns(w) /\ job.cancel THEN SetJob(MarkedCanceled(job)) ELSE KeepJob

\* stoppedOrFenced(): fenced and canceled attempts return, others throw.
StoppedOrFenced(w) == EndCanceled(w) /\ Leave(w, IF Owns(w) /\ ~job.cancel THEN "failing"
                                                                          ELSE "idle")

Claim(w) ==
    /\ At(w, "idle") /\ CanClaim(job)
    /\ SetJob(Claimed(job, w))
    /\ proc' = [proc EXCEPT ![w] = [IdleProcess EXCEPT !.pc = "claimed", !.gen = job.gen + 1]]
    /\ KeepFiles /\ Aside

\* owns, canceled and outputStages.initialize
Begin(w) ==
    /\ At(w, "claimed")
    /\ IF ~Owns(w) \/ job.cancel THEN EndCanceled(w) /\ Leave(w, "idle")
       ELSE LET made == job.status \in {"validating", "running"}
            IN /\ stages' = [stages EXCEPT !.made = @ \/ made]
               /\ job' = job
               /\ IF stages.made \/ made THEN Goto(w, "prepared") ELSE Leave(w, "idle")
    /\ KeepFiles /\ Aside

\* Extraction fails, or the job runs: with the PDF stage, or with the published PDF.
Run(w) ==
    /\ At(w, "prepared")
    /\ \/ KeepJob /\ Leave(w, "failing")
       \/ IF ~CanTransition(job, Lease(w), proc[w].gen, "validating")
            THEN KeepJob /\ Leave(w, "idle")
            ELSE IF stages.pdf = "succeeded"
              THEN job' = Running(job) /\ stages' = stages /\ Goto(w, "verify")
            ELSE IF stages.pdf = "queued" /\ ~job.cancel
              THEN /\ job' = Running(job)
                   /\ stages' = [stages EXCEPT !.pdf = "running"]
                   /\ Goto(w, "pdf")
              ELSE /\ SetJob(IF job.cancel THEN MarkedCanceled(job) ELSE Running(job))
                   /\ Leave(w, IF job.cancel THEN "idle" ELSE "failing")
    /\ KeepFiles /\ Aside

\* The container has ended, or its output is refused.
PdfEnds(w) ==
    /\ At(w, "pdf")
    /\ IF ~Owns(w) \/ job.cancel THEN EndCanceled(w) /\ Leave(w, "idle")
       ELSE /\ KeepJob
            /\ \/ \E pc \in {"pdf_good", "pdf_bad"} : Goto(w, pc)
               \/ Leave(w, "failing")
    /\ KeepFiles /\ Aside

\* The rename of a candidate onto a directory that is not empty fails.
Place(w, n, kind, pc) ==
    IF Present(n) THEN outputs' = outputs /\ Leave(w, "failing")
    ELSE /\ outputs' = outputs \cup {[at |-> n, kind |-> kind, gen |-> proc[w].gen]}
         /\ proc' = [proc EXCEPT ![w].pc = pc, ![w].mine = @ \cup {n}]

PlaceBad(w) ==
    /\ At(w, "pdf_bad")
    /\ Place(w, StorageGeneration(proc[w].gen, FALSE), "diagnostics", "bad_renamed")
    /\ KeepJob /\ UNCHANGED rows /\ Aside

CommitBad(w) ==
    LET n == StorageGeneration(proc[w].gen, FALSE) IN
    /\ At(w, "bad_renamed")
    /\ IF ~Owns(w) \/ job.cancel THEN EndCanceled(w) /\ rows' = rows /\ Leave(w, "idle")
       ELSE IF job.status # "running" THEN KeepJob /\ rows' = rows /\ Leave(w, "failing")
       ELSE /\ SetJob(Finished(job, "failed"))
            /\ rows' = [rows EXCEPT !.main = n]
            /\ proc' = [proc EXCEPT ![w].pc = "final", ![w].mine = @ \ {n}]
    /\ UNCHANGED outputs /\ Aside

\* renew() and owns(), before an await.
RenewFor(w, from, to) ==
    /\ At(w, from)
    /\ IF CanHeartbeat(job, Lease(w), proc[w].gen)
         THEN job' = Renewed(job) /\ Goto(w, to) ELSE job' = job /\ Leave(w, "idle")
    /\ UNCHANGED stages /\ KeepFiles /\ Aside

RenewPdf(w) == RenewFor(w, "pdf_good", "pdf_renewed")

PlacePdf(w) ==
    /\ At(w, "pdf_renewed")
    /\ Place(w, StorageGeneration(proc[w].gen, FALSE), "pdf", "pdf_renamed")
    /\ KeepJob /\ UNCHANGED rows /\ Aside

CanCompletePdf_Unowned(w) == stages.pdf = "running"
CanCompletePdf(w) == stages.pdf = "running" /\ StageOwned(w)

CommitPdf(w) ==
    LET n == StorageGeneration(proc[w].gen, FALSE) IN
    /\ At(w, "pdf_renamed")
    /\ IF CanCompletePdf(w)
         THEN /\ stages' = [stages EXCEPT !.pdf = "succeeded", !.pdfGen = n]
              /\ job' = job /\ rows' = [rows EXCEPT !.main = n]
              /\ proc' = [proc EXCEPT ![w].pc = "verify", ![w].mine = @ \ {n}]
         ELSE StoppedOrFenced(w) /\ rows' = rows
    /\ UNCHANGED outputs /\ Aside

\* The published PDF must be there, be the same, and be of this Runtime.
PdfThere(w) == \E d \in outputs : d.at = stages.pdfGen /\ d.kind = "pdf"

StartSvg(w) ==
    /\ At(w, "verify")
    /\ \/ KeepJob /\ Leave(w, "failing")     \* the Runtime has changed
       \/ IF ~PdfThere(w) THEN KeepJob /\ Leave(w, "failing")
          ELSE IF stages.svg = "queued" /\ StageOwned(w)
            THEN /\ stages' = [stages EXCEPT !.svg = "running"]
                 /\ job' = job /\ Goto(w, "svg")
            ELSE StoppedOrFenced(w)
    /\ KeepFiles /\ Aside

\* Whatever goes wrong in the SVG stage becomes a failed result.
SvgEnds(w) ==
    /\ At(w, "svg")
    /\ IF ~Owns(w) \/ job.cancel THEN EndCanceled(w) /\ Leave(w, "idle")
       ELSE /\ KeepJob
            /\ \E r \in {"succeeded", "failed"} :
                 proc' = [proc EXCEPT ![w].pc = "svg_done", ![w].svg = r]
    /\ KeepFiles /\ Aside

\* Validation, verifyPdf, the size limit, and renew().
RenewSvg(w) == \/ PdfThere(w) /\ RenewFor(w, "svg_done", "svg_renewed")
               \/ /\ At(w, "svg_done") /\ Leave(w, "failing")
                  /\ KeepJob /\ KeepFiles /\ Aside

PlaceSvg(w) ==
    /\ At(w, "svg_renewed")
    /\ Place(w, StorageGeneration(proc[w].gen, TRUE), "svg", "svg_renamed")
    /\ KeepJob /\ UNCHANGED rows /\ Aside

CommitSvg(w) ==
    LET n == StorageGeneration(proc[w].gen, TRUE) IN
    /\ At(w, "svg_renamed")
    /\ IF stages.svg = "running" /\ StageOwned(w)
         THEN /\ job' = Finished(job, proc[w].svg)
              /\ stages' = [stages EXCEPT !.svg = proc[w].svg, !.svgGen = n]
              /\ rows' = [rows EXCEPT !.svg = n]
              /\ proc' = [proc EXCEPT ![w].pc = "final", ![w].mine = @ \ {n}, ![w].svg = "failed"]
         ELSE StoppedOrFenced(w) /\ rows' = rows
    /\ UNCHANGED outputs /\ Aside

\* RendererCleanupDeferred: lease, input and attempt are left to recovery.
Defer(w) ==
    /\ proc[w].pc \in {"pdf", "svg"} /\ faults < MaxFaults
    /\ faults' = faults + 1
    /\ proc' = [proc EXCEPT ![w] = IdleProcess]
    /\ KeepJob /\ KeepFiles /\ UNCHANGED <<rec, reading, cancels>>

\* finally: what was renamed and not committed is removed, ...
Final(w) ==
    /\ At(w, "final")
    /\ outputs' = {d \in outputs : d.at \notin proc[w].mine}
    /\ proc' = [proc EXCEPT ![w].pc = "last", ![w].mine = {}]
    /\ KeepJob /\ UNCHANGED rows /\ Aside

\* ... then canceled(); an error goes on to recordFailure.
Last(w) ==
    /\ At(w, "last")
    /\ EndCanceled(w)
    /\ Goto(w, proc[w].next)
    /\ KeepFiles /\ Aside

-----------------------------------------------------------------------------
(* recordFailure.                                                          *)

\* A published PDF is never overwritten by the diagnostics of a later stage.
KeepsPdf == Published

Fail(w) ==
    /\ At(w, "failing")
    /\ IF KeepsPdf
         THEN /\ IF CanFinishFailure(job, Lease(w), proc[w].gen) /\ ~job.cancel
                   THEN \E s \in {"failed", "rejected"} : SetJob(Finished(job, s))
                   ELSE EndCanceled(w)
              /\ Goto(w, "idle")
         ELSE /\ IF CanHeartbeat(job, Lease(w), proc[w].gen)
                   THEN job' = Renewed(job) /\ Goto(w, "fail_staging")
                   ELSE job' = job /\ Goto(w, "idle")
              /\ UNCHANGED stages
    /\ KeepFiles /\ Aside

FailRenew(w) ==
    /\ At(w, "fail_staging")
    /\ IF CanHeartbeat(job, Lease(w), proc[w].gen)
         THEN job' = Renewed(job) /\ Goto(w, "fail_ready") ELSE job' = job /\ Goto(w, "idle")
    /\ UNCHANGED stages /\ KeepFiles /\ Aside

\* A rename that fails is not caught: the process ends, and is started again.
FailPlace(w) ==
    LET n == proc[w].gen IN
    /\ At(w, "fail_ready")
    /\ IF Present(n) THEN outputs' = outputs /\ proc' = [proc EXCEPT ![w] = IdleProcess]
       ELSE /\ outputs' = outputs \cup {[at |-> n, kind |-> "diagnostics", gen |-> n]}
            /\ Goto(w, "fail_renamed")
    /\ KeepJob /\ UNCHANGED rows /\ Aside

\* The rows are committed, or `finally` takes the directory back.
FailCommit(w) ==
    /\ At(w, "fail_renamed")
    /\ IF CanFinishFailure(job, Lease(w), proc[w].gen)
         THEN /\ \E s \in {"failed", "rejected"} : SetJob(Finished(job, s))
              /\ rows' = [rows EXCEPT !.main = proc[w].gen] /\ outputs' = outputs
         ELSE /\ KeepJob /\ rows' = rows
              /\ outputs' = {d \in outputs : d.at # proc[w].gen}
    /\ Goto(w, "idle")
    /\ Aside

-----------------------------------------------------------------------------
(* recoverStaleLeases and pruneRecoveredStageAttempt.                      *)

RecAt(w, pc) == rec[w].pc = pc
RecGoto(w, pc) == rec' = [rec EXCEPT ![w] = IF pc = "idle" THEN IdleRecovery
                                                         ELSE [@ EXCEPT !.pc = pc]]
StillOwned(w) == CanExpireClaim(job, w, rec[w].gen)
OnlyRec == UNCHANGED <<proc, reading, cancels>>

RecClaim(w) ==
    /\ RecAt(w, "idle") /\ Stale(job)
    /\ job' = RecoveryClaimed(job, w)
    /\ rec' = [rec EXCEPT ![w] = [pc |-> "claimed", gen |-> job.gen + 1, stale |-> job.gen,
                                  status |-> job.status, keep |-> {}]]
    /\ UNCHANGED <<stages, faults>> /\ KeepFiles /\ OnlyRec

\* The daemon does not answer: the claim expires at once, for another pass.
RecDefer(w) ==
    /\ RecAt(w, "claimed") /\ faults < MaxFaults
    /\ faults' = faults + 1
    /\ job' = IF StillOwned(w) THEN ClaimExpired(job) ELSE job
    /\ RecGoto(w, "idle")
    /\ UNCHANGED stages /\ KeepFiles /\ OnlyRec

\* Generations that artifact rows or the checkpoint name.
References_Stage == {stages.svgGen} \ {0}
References == {rows.main, rows.svg, stages.pdfGen, stages.svgGen} \ {0}

\* The containers are stopped: what may be pruned is read in one transaction.
RecStopped(w) ==
    /\ RecAt(w, "claimed")
    /\ rec' = IF stages.made /\ StillOwned(w) /\ ~reading
                 THEN [rec EXCEPT ![w].pc = "prune_pdf", ![w].keep = References]
                 ELSE [rec EXCEPT ![w].pc = "finish"]
    /\ UNCHANGED faults /\ KeepJob /\ KeepFiles /\ OnlyRec

\* rm of outputs/<n>, after another look at the claim; without it the pass goes on
\* to its last statement, whose WHERE clause then fails.
Prune(w, n, from, to) ==
    /\ RecAt(w, from)
    /\ LET there == n \notin rec[w].keep /\ Present(n) IN
       /\ outputs' = IF there /\ StillOwned(w) THEN {d \in outputs : d.at # n} ELSE outputs
       /\ RecGoto(w, IF there /\ ~StillOwned(w) THEN "finish" ELSE to)
    /\ KeepJob /\ UNCHANGED <<rows, faults>> /\ OnlyRec

PrunePdf(w) == Prune(w, StorageGeneration(rec[w].stale, FALSE), "prune_pdf", "prune_svg")
PruneSvg(w) == Prune(w, StorageGeneration(rec[w].stale, TRUE), "prune_svg", "finish")

\* A canceled job ends; one whose container was there fails; others are queued.
RecFinish(w) ==
    /\ RecAt(w, "finish")
    /\ IF rec[w].status = "canceled"
         THEN IF StillOwned(w) THEN SetJob(MarkedCanceled(job)) ELSE KeepJob
         ELSE IF CanRecover(job, w, rec[w].gen)
           THEN \/ SetJob(Finished(job, "failed")) \/ SetJob(Requeued(job))
           ELSE KeepJob
    /\ RecGoto(w, "idle")
    /\ UNCHANGED faults /\ KeepFiles /\ OnlyRec

-----------------------------------------------------------------------------
(* Users, timers and mishaps.                                              *)

Cancel ==
    /\ CanCancel(job) /\ ~job.cancel /\ cancels < MaxCancels
    /\ SetJob(Canceled(job))
    /\ cancels' = cancels + 1
    /\ UNCHANGED <<rows, outputs, proc, rec, reading, faults>>

\* requeueSvg
CanRetry == /\ job.status \in {"failed", "canceled"} /\ job.owner = NoOwner
            /\ Published /\ rows.main = stages.pdfGen
            /\ stages.svg \in {"failed", "canceled"} /\ stages.attempt < MaxAttempts
Retried(s) == [s EXCEPT !.svg = "queued", !.svgGen = 0, !.attempt = @ + 1]
RetrySvg ==
    /\ CanRetry /\ faults < MaxFaults /\ faults' = faults + 1
    /\ job' = [job EXCEPT !.status = "queued", !.cancel = FALSE]
    /\ stages' = Retried(stages)
    /\ UNCHANGED <<rows, outputs, proc, rec, reading, cancels>>

\* A download of the PDF begins or ends; its lease blocks the pruning.
Download ==
    /\ Downloads /\ (reading \/ Published)
    /\ reading' = ~reading
    /\ UNCHANGED <<job, stages, rows, outputs, proc, rec, faults, cancels>>

Holder(w)  == \/ proc[w].pc # "idle" /\ Owns(w)
              \/ rec[w].pc # "idle" /\ Owned(job, Recoverer(w), rec[w].gen)

\* The interval timer of an attempt, until its `finally`.
Timed == Places \ {"idle", "claimed", "final", "last", "failing", "fail_staging",
                   "fail_ready", "fail_renamed"}
Beat(w) ==
    /\ proc[w].pc \in Timed
    /\ CanHeartbeat(job, Lease(w), proc[w].gen) /\ job.expired
    /\ job' = Renewed(job)
    /\ UNCHANGED <<stages, rows, outputs, proc, rec, reading, faults, cancels>>

\* A lease runs out because nobody holds it, or because its holder stalls.
Expire ==
    /\ job.owner # NoOwner /\ ~job.expired
    /\ \/ (\E w \in Worker : Holder(w)) /\ faults < MaxFaults /\ faults' = faults + 1
       \/ (\A w \in Worker : ~Holder(w)) /\ faults' = faults
    /\ job' = ClaimExpired(job)
    /\ UNCHANGED <<stages, rows, outputs, proc, rec, reading, cancels>>

\* A process dies in the middle of both its attempt and its recovery pass.
Crash(w) ==
    /\ proc[w].pc # "idle" \/ rec[w].pc # "idle"
    /\ faults < MaxFaults /\ faults' = faults + 1
    /\ proc' = [proc EXCEPT ![w] = IdleProcess]
    /\ RecGoto(w, "idle")
    /\ KeepJob /\ KeepFiles /\ UNCHANGED <<reading, cancels>>

Stage(w) == \/ Begin(w) \/ Run(w) \/ PdfEnds(w) \/ PlaceBad(w) \/ CommitBad(w)
            \/ RenewPdf(w) \/ PlacePdf(w) \/ CommitPdf(w) \/ StartSvg(w) \/ SvgEnds(w)
            \/ RenewSvg(w) \/ PlaceSvg(w) \/ CommitSvg(w) \/ Final(w) \/ Last(w)
            \/ Fail(w) \/ FailRenew(w) \/ FailPlace(w) \/ FailCommit(w)

Recover(w) == RecStopped(w) \/ PrunePdf(w) \/ PruneSvg(w) \/ RecFinish(w)

Next == \/ \E w \in Worker : \/ Claim(w) \/ Stage(w) \/ RecClaim(w) \/ RecDefer(w)
                              \/ Recover(w) \/ Defer(w) \/ Beat(w) \/ Crash(w)
        \/ Cancel \/ RetrySvg \/ Download \/ Expire

Spec == Init /\ [][Next]_vars

\* Awaits end, a timer fires, and an idle process claims and recovers (the loop of
\* worker.ts, the interval of periodic-recovery.ts); a lease nobody holds runs out.
Fairness == /\ \A w \in Worker : /\ WF_vars(Claim(w)) /\ WF_vars(Stage(w))
                                  /\ WF_vars(RecClaim(w)) /\ WF_vars(Recover(w))
            /\ WF_vars((\A w \in Worker : ~Holder(w)) /\ Expire)

FairSpec == Spec /\ Fairness

-----------------------------------------------------------------------------
(* Properties.                                                             *)

\* Every variable has its type; a process knows the generation it works under.
TypeOK == /\ job \in Row /\ stages \in Stages /\ rows \in [main : Nat, svg : Nat]
          /\ outputs \subseteq Output /\ proc \in [Worker -> Process]
          /\ rec \in [Worker -> Recovery] /\ reading \in BOOLEAN
          /\ faults \in 0..MaxFaults /\ cancels \in 0..MaxCancels

\* What the rows and the checkpoint publish is on disk and is what they say: the
\* PDF of the checkpoint, and the pages or diagnostics of the last SVG attempt,
\* whoever has removed directories since (staged-job-processor.ts and its finally,
\* failure.ts and its finally, pruneRecoveredStageAttempt).
OutputsMatchRows ==
    /\ Published => /\ rows.main = stages.pdfGen
                    /\ \E d \in outputs : d.at = rows.main /\ d.kind = "pdf"
    /\ rows.svg # 0 => \E d \in outputs : d.at = rows.svg /\ d.kind = "svg"
    /\ stages.svgGen # 0 => rows.svg = stages.svgGen

\* The stages follow the job: nothing is open once it has ended, nothing runs while
\* it is queued, and an SVG stage runs or succeeds on a published PDF only (the
\* triggers of schema v21 against every statement that sets a status).
StagesFollowJob ==
    stages.made =>
      /\ job.status \in Terminal => stages.pdf \notin Open /\ stages.svg \notin Open
      /\ job.status \in {"queued", "validating"} => "running" \notin {stages.pdf, stages.svg}
      /\ stages.svg \in {"running", "succeeded"} => stages.pdf = "succeeded"
      /\ job.status = "succeeded" => stages.svg = "succeeded"

\* Once published the PDF stays: no failure, lost lease, retry or recovery changes
\* or removes it (docs/independent-output-stages.md:61-63).
PdfImmutable ==
    [][Published => /\ Published' /\ stages'.pdfGen = stages.pdfGen
                    /\ rows'.main = rows.main
                    /\ \A d \in outputs : d.at = stages.pdfGen => d \in outputs']_vars

\* The job ends, and gives up its lease, whatever stalls, dies or is left behind.
StagedJobSettles == <>[](job.status \in Terminal /\ job.owner = NoOwner)

=============================================================================
