-------------------------- MODULE OutputStagesProofs --------------------------
(***************************************************************************)
(* Theorems about OutputStages: its variables have their types, what the   *)
(* rows and the checkpoint publish is on disk, the stages follow the job,  *)
(* and a published PDF stays.                                              *)
(*                                                                         *)
(* Directories are named after generations, and a process has a generation *)
(* of its own (Numbered).  Before a commit the owner's directory is there  *)
(* (Placed), and no PDF is published (NoPdfYet).  After it no process      *)
(* removes it: not a `finally`, whose directories are others (MineApart),  *)
(* not the diagnostics of generation g, though outputs/g may be named like *)
(* the PDF of generation g/2 (FailApart), and not the pruning, which has   *)
(* read every reference under the claim it still holds (Keeps).            *)
(***************************************************************************)
EXTENDS OutputStages, TLAPS

Working == {"pdf", "pdf_good", "pdf_bad", "bad_renamed", "pdf_renewed", "pdf_renamed",
            "fail_staging", "fail_ready", "fail_renamed"}
AfterPdf == {"verify", "svg", "svg_done", "svg_renewed", "svg_renamed"}
Leasing  == {"validating", "running", "canceled"}
Failures == {"failed", "rejected", "canceled"}

PdfAt(w) == StorageGeneration(proc[w].gen, FALSE)
SvgAt(w) == StorageGeneration(proc[w].gen, TRUE)

\* A process at work has a generation that no other has, and names its directories by it.
Numbered == \A w \in Worker :
              /\ proc[w].pc = "idle" => proc[w].gen = 0
              /\ proc[w].pc # "idle" => proc[w].gen >= 1
              /\ proc[w].gen <= job.gen
              /\ proc[w].mine \subseteq {PdfAt(w), SvgAt(w)}
              /\ \A v \in Worker : proc[v].gen = proc[w].gen /\ proc[v].gen # 0 => v = w
Leased   == job.owner # NoOwner => job.status \in Leasing
Unmade   == ~stages.made => stages.pdf = "queued" /\ stages.svg = "queued" /\ stages.svgGen = 0
PdfFirst == \A w \in Worker : /\ proc[w].pc = "prepared" => stages.made
                              /\ proc[w].pc \in AfterPdf => stages.pdf = "succeeded"
NoPdfYet == \A w \in Worker : proc[w].pc \in Working /\ Owns(w) => stages.pdf # "succeeded"
Placed   == \A w \in Worker : Owns(w) =>
              /\ proc[w].pc = "pdf_renamed" => \E d \in outputs : d.at = PdfAt(w) /\ d.kind = "pdf"
              /\ proc[w].pc = "svg_renamed" => \E d \in outputs : d.at = SvgAt(w) /\ d.kind = "svg"
MineApart == /\ Published => stages.pdfGen # 0
             /\ \A w \in Worker : /\ Published => stages.pdfGen \notin proc[w].mine
                                  /\ rows.svg \notin proc[w].mine
FailApart == \A w \in Worker : proc[w].pc = "fail_renamed" =>
               /\ Published => stages.pdfGen # proc[w].gen
               /\ rows.svg # proc[w].gen
Claiming(v) == Owned(job, Recoverer(v), rec[v].gen)
Keeps    == \A v \in Worker : rec[v].pc \in {"prune_pdf", "prune_svg"} /\ Claiming(v)
                                => References \subseteq rec[v].keep

Inv == /\ TypeOK /\ Numbered /\ Leased /\ Unmade /\ PdfFirst /\ NoPdfYet /\ Placed
       /\ MineApart /\ FailApart /\ Keeps /\ OutputsMatchRows /\ StagesFollowJob

-----------------------------------------------------------------------------
(* The statements on the row of the job.                                   *)

LEMMA Owners ==
  ASSUME NEW w \in Worker
  PROVE  /\ Lease(w) \in Owner /\ Recoverer(w) \in Owner
         /\ Lease(w) # NoOwner /\ Recoverer(w) # NoOwner
         /\ \A v \in Worker : Lease(w) # Recoverer(v) /\ (Lease(v) = Lease(w) => v = w)
         /\ \A v \in Worker : Recoverer(v) = Recoverer(w) => v = w
<1>1. Lease(w) \in Owner /\ Recoverer(w) \in Owner
  BY DEF Lease, Recoverer, Owner
<1>2. Lease(w) # NoOwner /\ Recoverer(w) # NoOwner
  BY <1>1, NoOwnerAssumption DEF Owner
<1>3. \A v \in Worker : /\ Lease(w) # Recoverer(v) /\ (Lease(v) = Lease(w) => v = w)
                        /\ Recoverer(v) = Recoverer(w) => v = w
  BY DEF Lease, Recoverer
<1> QED
  BY <1>1, <1>2, <1>3

LEMMA Statuses ==
  /\ Leasing \cup Failures \cup {"queued", "succeeded"} \subseteq Status
  /\ Terminal \subseteq Status
BY DEF Leasing, Failures, Status, Active, Terminal, Ended

LEMMA RowOps ==
  ASSUME NEW r \in Row
  PROVE  /\ r.gen \in Nat /\ r.status \in Status
         /\ \A w \in Worker :
              /\ Claimed(r, w) \in Row /\ Claimed(r, w).status = "validating"
              /\ Claimed(r, w).owner = Lease(w) /\ Claimed(r, w).gen = r.gen + 1
              /\ RecoveryClaimed(r, w) \in Row /\ RecoveryClaimed(r, w).status = r.status
              /\ RecoveryClaimed(r, w).owner = Recoverer(w)
              /\ RecoveryClaimed(r, w).gen = r.gen + 1
<1>1. r.gen \in Nat /\ r.status \in Status /\ r.gen + 1 \in Nat
  BY DEF Row
<1>2. \A w \in Worker : Lease(w) \in Owner /\ Recoverer(w) \in Owner
  BY Owners
<1>3. "validating" \in Status
  BY Statuses DEF Leasing
<1> QED
  BY <1>1, <1>2, <1>3 DEF Row, Claimed, RecoveryClaimed

LEMMA RowKeeps ==
  ASSUME NEW r \in Row
  PROVE  /\ \A q \in {Renewed(r), ClaimExpired(r)} :
              q \in Row /\ q.status = r.status /\ q.owner = r.owner /\ q.gen = r.gen
         /\ /\ Running(r) \in Row /\ Running(r).status = "running"
            /\ Running(r).owner = r.owner /\ Running(r).gen = r.gen
         /\ /\ Canceled(r) \in Row /\ Canceled(r).owner = r.owner /\ Canceled(r).gen = r.gen
            /\ Canceled(r).status = IF r.status = "running" THEN "running" ELSE "canceled"
<1>1. "running" \in Status /\ "canceled" \in Status
  BY Statuses DEF Leasing
<1> QED
  BY <1>1 DEF Row, Renewed, ClaimExpired, Running, Canceled

LEMMA RowGivesUp ==
  ASSUME NEW r \in Row, NEW s \in Status
  PROVE  /\ /\ Finished(r, s) \in Row /\ Finished(r, s).status = s
            /\ Finished(r, s).owner = NoOwner /\ Finished(r, s).gen = r.gen
         /\ /\ MarkedCanceled(r) \in Row /\ MarkedCanceled(r).status = "canceled"
            /\ MarkedCanceled(r).owner = NoOwner /\ MarkedCanceled(r).gen = r.gen
         /\ /\ Requeued(r) \in Row /\ Requeued(r).status = "queued"
            /\ Requeued(r).owner = NoOwner /\ Requeued(r).gen = r.gen
<1>1. "canceled" \in Status /\ "queued" \in Status
  BY Statuses DEF Leasing
<1> QED
  BY <1>1 DEF Row, Finished, MarkedCanceled, Requeued

-----------------------------------------------------------------------------
(* The triggers.                                                           *)

SameKeys  == /\ stages'.made = stages.made /\ stages'.pdfGen = stages.pdfGen
             /\ stages'.svgGen = stages.svgGen
\* Open stages end with the job.
EndsOpen  == /\ SameKeys
             /\ ~stages.made => stages'.pdf = stages.pdf /\ stages'.svg = stages.svg
             /\ stages.made =>
                  /\ IF stages.pdf \in Open THEN stages'.pdf \in {"failed", "canceled"}
                                            ELSE stages'.pdf = stages.pdf
                  /\ IF stages.svg \in Open THEN stages'.svg \in {"failed", "canceled", "skipped"}
                                            ELSE stages'.svg = stages.svg
\* Running stages are queued with the job.
QueuesRunning ==
             /\ SameKeys
             /\ ~stages.made => stages'.pdf = stages.pdf /\ stages'.svg = stages.svg
             /\ stages.made =>
                  /\ stages'.pdf = IF stages.pdf = "running" THEN "queued" ELSE stages.pdf
                  /\ stages'.svg = IF stages.svg = "running" THEN "queued" ELSE stages.svg

LEMMA StageTypes ==
  {"queued", "running", "succeeded", "failed", "canceled", "skipped"} = StageStatus
BY DEF StageStatus

LEMMA StagesEnd ==
  ASSUME stages \in Stages, NEW row, SetJob(row), row.status \in Failures
  PROVE  job' = row /\ stages' \in Stages /\ EndsOpen
<1>1. CASE ~stages.made
  BY <1>1 DEF SetJob, Triggered, EndsOpen, SameKeys
<1>2. CASE stages.made
  <2> DEFINE end == IF row.status = "rejected" THEN "failed" ELSE row.status
             p == IF stages.pdf \in Open THEN end ELSE stages.pdf
             s == IF stages.svg \in Open
                    THEN IF stages.pdf # "succeeded" THEN "skipped" ELSE end ELSE stages.svg
  <2>1. end \in {"failed", "canceled"}
    BY DEF Failures
  <2>2. stages' = [stages EXCEPT !.pdf = p, !.svg = s]
    BY <1>2 DEF SetJob, Triggered, Failures, EndedStages, Stages
  <2>3. /\ IF stages.pdf \in Open THEN p \in {"failed", "canceled"} ELSE p = stages.pdf
        /\ IF stages.svg \in Open THEN s \in {"failed", "canceled", "skipped"} ELSE s = stages.svg
    BY <2>1
  <2>4. p \in StageStatus /\ s \in StageStatus
    BY <2>3 DEF StageStatus, Stages
  <2> HIDE DEF p, s
  <2>5. /\ stages' \in Stages /\ SameKeys /\ stages'.pdf = p /\ stages'.svg = s
    BY <2>2, <2>4 DEF Stages, SameKeys
  <2> QED
    BY <1>2, <2>3, <2>5 DEF SetJob, EndsOpen
<1> QED
  BY <1>1, <1>2

LEMMA StagesQueue ==
  ASSUME stages \in Stages, NEW row, SetJob(row), row.status = "queued",
         job.status \in {"validating", "running"}
  PROVE  job' = row /\ stages' \in Stages /\ QueuesRunning
<1>1. CASE ~stages.made
  BY <1>1 DEF SetJob, Triggered, QueuesRunning, SameKeys
<1>2. CASE stages.made
  <2> DEFINE p == IF stages.pdf = "running" THEN "queued" ELSE stages.pdf
             s == IF stages.svg = "running" THEN "queued" ELSE stages.svg
  <2>1. stages' = [stages EXCEPT !.pdf = p, !.svg = s]
    BY <1>2 DEF SetJob, Triggered, RequeuedStages, Stages
  <2>2. p \in StageStatus /\ s \in StageStatus
    BY DEF StageStatus, Stages
  <2>3. /\ stages' \in Stages /\ SameKeys /\ stages'.pdf = p /\ stages'.svg = s
    <3> HIDE DEF p, s
    <3> QED
      BY <2>1, <2>2 DEF Stages, SameKeys
  <2> QED
    BY <1>2, <2>3 DEF SetJob, QueuesRunning
<1> QED
  BY <1>1, <1>2

LEMMA StagesStay ==
  ASSUME NEW row, SetJob(row), row.status \in {"validating", "running"}
  PROVE  job' = row /\ stages' = stages
BY DEF SetJob, Triggered

-----------------------------------------------------------------------------
(* How the row of the job and its stages change together.                  *)

SameOwner == job'.owner = job.owner /\ job'.gen = job.gen
OwnerGoes == \/ SameOwner
             \/ job'.owner = NoOwner /\ job'.gen = job.gen
             \/ \E w \in Worker : Claim(w) /\ job'.owner = Lease(w) /\ job'.gen = job.gen + 1
             \/ \E w \in Worker : RecClaim(w) /\ job'.owner = Recoverer(w) /\ job'.gen = job.gen + 1

Still     == job'.status = job.status /\ stages' = stages
Makes     == /\ job' = job /\ job.status \in {"validating", "running"}
             /\ stages'.made /\ stages'.pdf = stages.pdf /\ stages'.svg = stages.svg
             /\ stages'.pdfGen = stages.pdfGen /\ stages'.svgGen = stages.svgGen
JobEnds   == job'.status \in Failures /\ EndsOpen
JobQueued == job.status \in {"validating", "running"} /\ job'.status = "queued" /\ QueuesRunning
JobStarts == /\ \/ job.status = "queued" /\ job'.status = "validating"
                \/ job.status = "validating" /\ job'.status = "running"
             /\ stages' = stages
PdfStarts == /\ job.status = "validating" /\ job'.status = "running" /\ SameKeys
             /\ stages.made /\ stages.pdf = "queued" /\ stages'.pdf = "running"
             /\ stages'.svg = stages.svg
PdfCommits(w) == CommitPdf(w) /\ CanCompletePdf(w)
SvgStarts == /\ job.status = "running" /\ job' = job /\ SameKeys /\ stages.pdf = "succeeded"
             /\ stages.svg = "queued" /\ stages'.svg = "running" /\ stages'.pdf = stages.pdf
SvgCommits(w) == CommitSvg(w) /\ stages.svg = "running" /\ StageOwned(w)
Retries   == /\ job.status \in {"failed", "canceled"} /\ job.owner = NoOwner
             /\ job'.status = "queued" /\ Published
             /\ stages'.svg = "queued" /\ stages'.svgGen = 0
             /\ stages'.made = stages.made /\ stages'.pdf = stages.pdf
             /\ stages'.pdfGen = stages.pdfGen
Turns == \/ Still \/ Makes \/ JobEnds \/ JobQueued \/ JobStarts \/ PdfStarts
         \/ SvgStarts \/ Retries
         \/ \E w \in Worker : PdfCommits(w) \/ SvgCommits(w)

Turned == /\ job' \in Row /\ stages' \in Stages
          /\ job'.owner # NoOwner => job'.status \in Leasing
          /\ OwnerGoes /\ Turns

LEMMA PdfCommitted ==
  ASSUME TypeOK, NEW w \in Worker, PdfCommits(w)
  PROVE  /\ proc[w].pc = "pdf_renamed" /\ Owns(w) /\ job.status = "running" /\ job' = job
         /\ stages' \in Stages /\ stages.pdf = "running" /\ stages'.pdf = "succeeded"
         /\ stages'.pdfGen = PdfAt(w) /\ stages'.made = stages.made
         /\ stages'.svg = stages.svg /\ stages'.svgGen = stages.svgGen
         /\ rows'.main = PdfAt(w) /\ rows'.svg = rows.svg /\ rows' \in [main : Nat, svg : Nat]
         /\ outputs' = outputs
<1>1. /\ proc[w].pc = "pdf_renamed" /\ Owns(w) /\ job.status = "running" /\ job' = job
      /\ stages.pdf = "running" /\ stages' = [stages EXCEPT !.pdf = "succeeded", !.pdfGen = PdfAt(w)]
      /\ rows' = [rows EXCEPT !.main = PdfAt(w)] /\ outputs' = outputs
  BY DEF PdfCommits, CommitPdf, At, CanCompletePdf, StageOwned, PdfAt
<1>2. PdfAt(w) \in Nat
  BY DEF TypeOK, Process, PdfAt, StorageGeneration
<1>3. /\ stages' \in Stages /\ stages'.pdf = "succeeded" /\ stages'.pdfGen = PdfAt(w)
      /\ stages'.made = stages.made /\ stages'.svg = stages.svg
      /\ stages'.svgGen = stages.svgGen
  BY <1>1, <1>2 DEF TypeOK, Stages, StageStatus
<1>4. /\ rows'.main = PdfAt(w) /\ rows'.svg = rows.svg /\ rows' \in [main : Nat, svg : Nat]
  BY <1>1, <1>2 DEF TypeOK
<1> QED
  BY <1>1, <1>3, <1>4

LEMMA SvgCommitted ==
  ASSUME TypeOK, NEW w \in Worker, SvgCommits(w)
  PROVE  /\ proc[w].pc = "svg_renamed" /\ Owns(w) /\ job.status = "running"
         /\ job' \in Row /\ job'.owner = NoOwner /\ job'.gen = job.gen
         /\ stages' \in Stages /\ stages.svg = "running"
         /\ stages'.svg \in {"succeeded", "failed"} /\ job'.status = stages'.svg
         /\ stages'.svgGen = SvgAt(w) /\ stages'.made = stages.made
         /\ stages'.pdf = stages.pdf /\ stages'.pdfGen = stages.pdfGen
         /\ rows'.svg = SvgAt(w) /\ rows'.main = rows.main /\ rows' \in [main : Nat, svg : Nat]
         /\ outputs' = outputs
<1>1. PICK r \in {"succeeded", "failed"} : r = proc[w].svg
  BY DEF TypeOK, Process
<1>2. /\ proc[w].pc = "svg_renamed" /\ Owns(w) /\ job.status = "running"
      /\ job' = Finished(job, r) /\ stages.svg = "running"
      /\ stages' = [stages EXCEPT !.svg = r, !.svgGen = SvgAt(w)]
      /\ rows' = [rows EXCEPT !.svg = SvgAt(w)] /\ outputs' = outputs
  BY <1>1 DEF SvgCommits, CommitSvg, At, StageOwned, SvgAt
<1>3. SvgAt(w) \in Nat
  BY DEF TypeOK, Process, SvgAt, StorageGeneration
<1>4. /\ stages' \in Stages /\ stages'.svg = r /\ stages'.svgGen = SvgAt(w)
      /\ stages'.made = stages.made /\ stages'.pdf = stages.pdf
      /\ stages'.pdfGen = stages.pdfGen
  BY <1>2, <1>3 DEF TypeOK, Stages, StageStatus
<1>5. /\ rows'.svg = SvgAt(w) /\ rows'.main = rows.main /\ rows' \in [main : Nat, svg : Nat]
  BY <1>2, <1>3 DEF TypeOK
<1>6. r \in Status
  BY Statuses DEF Failures
<1>7. /\ job' \in Row /\ job'.status = r /\ job'.owner = NoOwner /\ job'.gen = job.gen
  BY <1>2, <1>6, RowGivesUp DEF TypeOK
<1> QED
  BY <1>2, <1>4, <1>5, <1>7

LEMMA TurnChange ==
  ASSUME TypeOK, Leased, PdfFirst, Next
  PROVE  Turned
<1>1. job \in Row /\ stages \in Stages
  BY DEF TypeOK
<1>2. ASSUME job' \in Row, job'.status = job.status, SameOwner, stages' = stages PROVE Turned
  BY <1>1, <1>2 DEF Turned, OwnerGoes, Turns, Still, SameOwner, Leased
<1>3. ASSUME KeepJob PROVE Turned
  BY <1>1, <1>2, <1>3 DEF KeepJob, SameOwner
<1>4. ASSUME NEW row \in Row, SetJob(row), row.status \in Failures, row.gen = job.gen,
             row.owner = NoOwner \/ (row.owner = job.owner /\ row.status = "canceled")
      PROVE  Turned
  <2>1. job' = row /\ stages' \in Stages /\ EndsOpen
    BY <1>1, <1>4, StagesEnd
  <2>2. OwnerGoes
    BY <1>4, <2>1 DEF OwnerGoes, SameOwner
  <2>3. job'.owner # NoOwner => job'.status \in Leasing
    BY <1>4, <2>1 DEF Leasing
  <2> QED
    BY <1>4, <2>1, <2>2, <2>3 DEF Turned, Turns, JobEnds
<1>5. ASSUME SetJob(MarkedCanceled(job)) PROVE Turned
  BY <1>1, <1>4, <1>5, RowGivesUp, Statuses DEF Failures
<1>6. ASSUME NEW s \in {"failed", "rejected"}, SetJob(Finished(job, s)) PROVE Turned
  BY <1>1, <1>4, <1>6, RowGivesUp, Statuses DEF Failures
<1>7. ASSUME NEW w \in Worker, EndCanceled(w) PROVE Turned
  BY <1>3, <1>5, <1>7 DEF EndCanceled
<1>8. ASSUME job' \in {job, Renewed(job), ClaimExpired(job)}, stages' = stages PROVE Turned
  BY <1>1, <1>2, <1>8, RowKeeps DEF SameOwner
<1>9. ASSUME NEW w \in Worker, Claim(w) PROVE Turned
  <2>1. SetJob(Claimed(job, w)) /\ job.status = "queued"
    BY <1>9 DEF Claim, CanClaim
  <2>2. /\ Claimed(job, w) \in Row /\ Claimed(job, w).status = "validating"
        /\ Claimed(job, w).owner = Lease(w) /\ Claimed(job, w).gen = job.gen + 1
    BY <1>1, RowOps
  <2>3. job' = Claimed(job, w) /\ stages' = stages
    BY <2>1, <2>2, StagesStay
  <2> QED
    BY <1>1, <1>9, <2>1, <2>2, <2>3 DEF Turned, OwnerGoes, Turns, JobStarts, Leasing
<1>10. ASSUME NEW w \in Worker, Begin(w) PROVE Turned
  <2>1. CASE ~Owns(w) \/ job.cancel
    BY <1>7, <1>10, <2>1 DEF Begin
  <2>2. CASE ~(~Owns(w) \/ job.cancel)
    <3> DEFINE made == job.status \in {"validating", "running"}
    <3>1. job' = job /\ stages' = [stages EXCEPT !.made = @ \/ made]
      BY <1>10, <2>2 DEF Begin
    <3>2. CASE stages.made \/ ~made
      <4>1. stages' = stages
        BY <1>1, <3>1, <3>2 DEF Stages
      <4> QED
        BY <1>8, <3>1, <4>1
    <3>3. CASE made
      <4>1. stages' = [stages EXCEPT !.made = TRUE]
        BY <1>1, <3>1, <3>3 DEF Stages
      <4>2. /\ stages' \in Stages /\ stages'.made
            /\ stages'.pdf = stages.pdf /\ stages'.svg = stages.svg
            /\ stages'.pdfGen = stages.pdfGen /\ stages'.svgGen = stages.svgGen
        BY <1>1, <4>1 DEF Stages
      <4> QED
        BY <1>1, <3>1, <3>3, <4>2 DEF Turned, OwnerGoes, SameOwner, Turns, Makes, Leased
    <3> QED
      BY <3>2, <3>3
  <2> QED
    BY <2>1, <2>2
<1>11. ASSUME job' = Running(job), job.status = "validating",
              \/ stages' = stages
              \/ stages.made /\ stages.pdf = "queued" /\ stages' = [stages EXCEPT !.pdf = "running"]
       PROVE  Turned
  <2>1. /\ job' \in Row /\ job'.status = "running" /\ job'.owner = job.owner /\ job'.gen = job.gen
    BY <1>1, <1>11, RowKeeps
  <2>2. OwnerGoes /\ (job'.owner # NoOwner => job'.status \in Leasing)
    BY <2>1 DEF OwnerGoes, SameOwner, Leasing
  <2>3. CASE stages' = stages
    BY <1>1, <1>11, <2>1, <2>2, <2>3 DEF Turned, Turns, JobStarts
  <2>4. CASE stages.made /\ stages.pdf = "queued" /\ stages' = [stages EXCEPT !.pdf = "running"]
    <3>1. stages' \in Stages /\ SameKeys /\ stages'.pdf = "running" /\ stages'.svg = stages.svg
      BY <1>1, <2>4 DEF Stages, StageStatus, SameKeys
    <3> QED
      BY <1>11, <2>1, <2>2, <2>4, <3>1 DEF Turned, Turns, PdfStarts
  <2> QED
    BY <1>11, <2>3, <2>4
<1>12. ASSUME NEW w \in Worker, Run(w) PROVE Turned
  <2>1. stages.made
    BY <1>12 DEF Run, At, PdfFirst
  <2>2. CASE KeepJob
    BY <1>3, <2>2
  <2>3. CASE ~KeepJob
    <3>1. job.status = "validating"
      BY <1>12, <2>3 DEF Run, CanTransition
    <3>2. \/ job' = Running(job) /\ stages' = stages
          \/ /\ job' = Running(job) /\ stages.pdf = "queued"
             /\ stages' = [stages EXCEPT !.pdf = "running"]
          \/ SetJob(MarkedCanceled(job))
          \/ SetJob(Running(job))
      BY <1>12, <2>3 DEF Run
    <3>3. SetJob(Running(job)) => job' = Running(job) /\ stages' = stages
      BY <1>1, RowKeeps, StagesStay
    <3> QED
      BY <1>5, <1>11, <2>1, <3>1, <3>2, <3>3
  <2> QED
    BY <2>2, <2>3
<1>13. ASSUME NEW w \in Worker, NEW from, NEW to, RenewFor(w, from, to) PROVE Turned
  BY <1>8, <1>13 DEF RenewFor
<1>14. ASSUME NEW w \in Worker, CommitBad(w) PROVE Turned
  <2>1. EndCanceled(w) \/ KeepJob \/ SetJob(Finished(job, "failed"))
    BY <1>14 DEF CommitBad
  <2> QED
    BY <1>3, <1>6, <1>7, <2>1
<1>15. ASSUME NEW w \in Worker, CommitPdf(w) PROVE Turned
  <2>1. CASE CanCompletePdf(w)
    <3>1. PdfCommits(w)
      BY <1>15, <2>1 DEF PdfCommits
    <3> QED
      BY <1>1, <3>1, PdfCommitted DEF Turned, Turns, OwnerGoes, SameOwner, Leasing
  <2>2. CASE ~CanCompletePdf(w)
    BY <1>7, <1>15, <2>2 DEF CommitPdf, StoppedOrFenced
  <2> QED
    BY <2>1, <2>2
<1>16. ASSUME NEW w \in Worker, StartSvg(w) PROVE Turned
  <2>1. stages.pdf = "succeeded"
    BY <1>16 DEF StartSvg, At, PdfFirst, AfterPdf
  <2>2. CASE stages.svg = "queued" /\ StageOwned(w) /\ job' = job
             /\ stages' = [stages EXCEPT !.svg = "running"]
    <3>1. stages' \in Stages /\ SameKeys /\ stages'.svg = "running" /\ stages'.pdf = stages.pdf
      BY <1>1, <2>2 DEF Stages, StageStatus, SameKeys
    <3>2. SvgStarts
      BY <2>1, <2>2, <3>1 DEF SvgStarts, StageOwned
    <3> QED
      BY <1>1, <2>2, <3>1, <3>2 DEF Turned, Turns, OwnerGoes, SameOwner, Leased
  <2>3. CASE KeepJob \/ StoppedOrFenced(w)
    BY <1>3, <1>7, <2>3 DEF StoppedOrFenced
  <2> QED
    BY <1>16, <2>2, <2>3 DEF StartSvg
<1>17. ASSUME NEW w \in Worker, CommitSvg(w) PROVE Turned
  <2>1. CASE stages.svg = "running" /\ StageOwned(w)
    <3>1. SvgCommits(w)
      BY <1>17, <2>1 DEF SvgCommits
    <3> QED
      BY <3>1, SvgCommitted DEF Turned, Turns, OwnerGoes
  <2>2. CASE ~(stages.svg = "running" /\ StageOwned(w))
    BY <1>7, <1>17, <2>2 DEF CommitSvg, StoppedOrFenced
  <2> QED
    BY <2>1, <2>2
<1>18. ASSUME NEW w \in Worker, Fail(w) PROVE Turned
  <2>1. \/ \E s \in {"failed", "rejected"} : SetJob(Finished(job, s))
        \/ EndCanceled(w)
        \/ job' \in {job, Renewed(job)} /\ stages' = stages
    BY <1>18 DEF Fail
  <2> QED
    BY <1>6, <1>7, <1>8, <2>1
<1>19. ASSUME NEW w \in Worker, FailRenew(w) PROVE Turned
  BY <1>8, <1>19 DEF FailRenew
<1>20. ASSUME NEW w \in Worker, FailCommit(w) PROVE Turned
  <2>1. KeepJob \/ \E s \in {"failed", "rejected"} : SetJob(Finished(job, s))
    BY <1>20 DEF FailCommit
  <2> QED
    BY <1>3, <1>6, <2>1
<1>21. ASSUME NEW w \in Worker, Stage(w) PROVE Turned
  <2>1. CASE PdfEnds(w) \/ SvgEnds(w) \/ Last(w)
    <3>1. EndCanceled(w) \/ KeepJob
      BY <2>1 DEF PdfEnds, SvgEnds, Last
    <3> QED
      BY <1>3, <1>7, <3>1
  <2>2. CASE PlaceBad(w) \/ PlacePdf(w) \/ PlaceSvg(w) \/ Final(w) \/ FailPlace(w)
    BY <1>3, <2>2 DEF PlaceBad, PlacePdf, PlaceSvg, Final, FailPlace
  <2>3. CASE RenewPdf(w) \/ RenewSvg(w)
    BY <1>3, <1>13, <2>3 DEF RenewPdf, RenewSvg
  <2> QED
    BY <1>10, <1>12, <1>14, <1>15, <1>16, <1>17, <1>18, <1>19, <1>20, <1>21, <2>1, <2>2, <2>3
       DEF Stage
<1>22. ASSUME NEW w \in Worker, RecClaim(w) PROVE Turned
  <2>1. job' = RecoveryClaimed(job, w) /\ stages' = stages /\ job.status \in Leasing
    BY <1>22 DEF RecClaim, Stale, Leasing
  <2>2. /\ job' \in Row /\ job'.status = job.status
        /\ job'.owner = Recoverer(w) /\ job'.gen = job.gen + 1
    BY <1>1, <2>1, RowOps
  <2> QED
    BY <1>1, <1>22, <2>1, <2>2 DEF Turned, Turns, OwnerGoes, Still
<1>23. ASSUME Expire \/ \E w \in Worker : RecDefer(w) \/ Beat(w) PROVE Turned
  BY <1>8, <1>23 DEF RecDefer, Beat, Expire
<1>24. ASSUME NEW w \in Worker, RecFinish(w) PROVE Turned
  <2>1. ASSUME SetJob(Requeued(job)), CanRecover(job, w, rec[w].gen) PROVE Turned
    <3>1. job.status \in {"validating", "running"}
      BY <2>1 DEF CanRecover
    <3>2. /\ Requeued(job) \in Row /\ Requeued(job).status = "queued"
          /\ Requeued(job).owner = NoOwner /\ Requeued(job).gen = job.gen
      BY <1>1, RowGivesUp, Statuses DEF Leasing
    <3>3. job' = Requeued(job) /\ stages' \in Stages /\ QueuesRunning
      BY <1>1, <2>1, <3>1, <3>2, StagesQueue
    <3> QED
      BY <3>1, <3>2, <3>3 DEF Turned, Turns, OwnerGoes, JobQueued
  <2>2. \/ KeepJob \/ SetJob(MarkedCanceled(job)) \/ SetJob(Finished(job, "failed"))
        \/ SetJob(Requeued(job)) /\ CanRecover(job, w, rec[w].gen)
    BY <1>24 DEF RecFinish
  <2> QED
    BY <1>3, <1>5, <1>6, <2>1, <2>2
<1>25. ASSUME NEW w \in Worker, Recover(w) \/ Defer(w) \/ Crash(w) PROVE Turned
  <2>1. CASE RecStopped(w) \/ PrunePdf(w) \/ PruneSvg(w) \/ Defer(w) \/ Crash(w)
    BY <1>3, <2>1 DEF RecStopped, PrunePdf, PruneSvg, Prune, Defer, Crash
  <2> QED
    BY <1>24, <1>25, <2>1 DEF Recover
<1>26. ASSUME Cancel PROVE Turned
  <2>1. SetJob(Canceled(job))
    BY <1>26 DEF Cancel
  <2>2. /\ Canceled(job) \in Row /\ Canceled(job).owner = job.owner
        /\ Canceled(job).gen = job.gen
        /\ Canceled(job).status = IF job.status = "running" THEN "running" ELSE "canceled"
    BY <1>1, RowKeeps
  <2>3. CASE job.status = "running"
    <3>1. job' = Canceled(job) /\ stages' = stages
      BY <2>1, <2>2, <2>3, StagesStay
    <3> QED
      BY <1>2, <2>2, <2>3, <3>1 DEF SameOwner
  <2>4. CASE job.status # "running"
    BY <1>4, <2>1, <2>2, <2>4 DEF Failures
  <2> QED
    BY <2>3, <2>4
<1>27. ASSUME RetrySvg PROVE Turned
  <2>1. /\ job.status \in {"failed", "canceled"} /\ job.owner = NoOwner /\ Published
        /\ job' = [job EXCEPT !.status = "queued", !.cancel = FALSE]
        /\ stages' = [stages EXCEPT !.svg = "queued", !.svgGen = 0, !.attempt = @ + 1]
    BY <1>27 DEF RetrySvg, CanRetry, Retried
  <2>2. "queued" \in Status
    BY Statuses
  <2>3. /\ job' \in Row /\ job'.status = "queued" /\ job'.owner = job.owner /\ job'.gen = job.gen
    BY <1>1, <2>1, <2>2 DEF Row
  <2>4. stages.attempt + 1 \in Nat
    BY <1>1 DEF Stages
  <2>5. /\ stages' \in Stages /\ stages'.svg = "queued" /\ stages'.svgGen = 0
        /\ stages'.made = stages.made /\ stages'.pdf = stages.pdf
        /\ stages'.pdfGen = stages.pdfGen
    BY <1>1, <2>1, <2>4 DEF Stages, StageStatus
  <2> QED
    BY <2>1, <2>3, <2>5 DEF Turned, Turns, OwnerGoes, SameOwner, Retries
<1>28. ASSUME Download PROVE Turned
  BY <1>3, <1>28 DEF Download, KeepJob
<1> QED
  BY <1>9, <1>21, <1>22, <1>23, <1>25, <1>26, <1>27, <1>28 DEF Next

-----------------------------------------------------------------------------
(* How a process moves.                                                    *)

Kept(w)    == proc'[w].gen = proc[w].gen /\ proc'[w].mine = proc[w].mine
From(w, from, to) == proc[w].pc = from /\ proc'[w].pc = to
NewDir(w, n, kind) == /\ ~Present(n)
                      /\ outputs' = outputs \cup {[at |-> n, kind |-> kind, gen |-> proc[w].gen]}
Renames(w, n, kind) == NewDir(w, n, kind) /\ proc'[w].mine = proc[w].mine \cup {n}

Walks(w) ==
  \/ proc'[w].pc \in {"final", "last", "failing"} /\ proc'[w].mine \subseteq proc[w].mine
  \/ /\ Kept(w)
     /\ \/ proc'[w].pc = "prepared" /\ stages'.made
        \/ proc'[w].pc = "verify" /\ stages'.pdf = "succeeded"
        \/ proc'[w].pc = "pdf" /\ stages'.pdf = "running"
        \/ From(w, "pdf", "pdf_good") \/ From(w, "pdf", "pdf_bad")
        \/ From(w, "pdf_good", "pdf_renewed")
        \/ From(w, "verify", "svg") \/ From(w, "svg", "svg_done")
        \/ From(w, "svg_done", "svg_renewed")
        \/ From(w, "failing", "fail_staging") /\ ~Published /\ stages' = stages
        \/ From(w, "fail_staging", "fail_ready")
        \/ From(w, "fail_ready", "fail_renamed") /\ NewDir(w, proc[w].gen, "diagnostics")
  \/ /\ From(w, "pdf_renamed", "verify") /\ stages'.pdf = "succeeded"
     /\ proc'[w].mine = proc[w].mine \ {PdfAt(w)}
  \/ From(w, "pdf_bad", "bad_renamed") /\ Renames(w, PdfAt(w), "diagnostics")
  \/ From(w, "pdf_renewed", "pdf_renamed") /\ Renames(w, PdfAt(w), "pdf")
  \/ From(w, "svg_renewed", "svg_renamed") /\ Renames(w, SvgAt(w), "svg")

Moves(w) == \/ proc'[w] = proc[w]
            \/ proc'[w] = IdleProcess
            \/ /\ Claim(w) /\ proc[w].pc = "idle" /\ proc'[w].pc = "claimed"
               /\ proc'[w].gen = job.gen + 1 /\ proc'[w].mine = {}
            \/ proc[w].pc # "idle" /\ proc'[w].gen = proc[w].gen /\ Walks(w)

OnlyMoves(w) == \A v \in Worker : v # w => proc'[v] = proc[v]

LEMMA ProcSet ==
  ASSUME TypeOK, NEW w \in Worker, NEW q \in Process, proc' = [proc EXCEPT ![w] = q]
  PROVE  proc' \in [Worker -> Process] /\ proc'[w] = q /\ OnlyMoves(w)
BY DEF TypeOK, OnlyMoves

LEMMA IdleTyped == IdleProcess \in Process /\ IdleProcess.pc = "idle" /\ IdleProcess.gen = 0
                   /\ IdleProcess.mine = {}
BY DEF IdleProcess, Process, Places

LEMMA Typed ==
  ASSUME TypeOK, NEW w \in Worker
  PROVE  /\ proc[w] \in Process /\ proc[w].pc \in Places /\ proc[w].gen \in Nat
         /\ proc[w].mine \subseteq Nat /\ PdfAt(w) \in Nat /\ SvgAt(w) \in Nat
         /\ PdfAt(w) = proc[w].gen * 2 /\ SvgAt(w) = proc[w].gen * 2 + 1
         /\ proc[w].next \in {"idle", "failing"}
<1>1. proc[w] \in Process
  BY DEF TypeOK
<1>2. /\ proc[w].pc \in Places /\ proc[w].gen \in Nat /\ proc[w].mine \subseteq Nat
      /\ proc[w].next \in {"idle", "failing"}
  BY <1>1 DEF Process
<1> QED
  BY <1>1, <1>2 DEF PdfAt, SvgAt, StorageGeneration

LEMMA GotoSet ==
  ASSUME TypeOK, NEW w \in Worker, NEW to \in Places \ {"idle"}, Goto(w, to)
  PROVE  /\ proc' \in [Worker -> Process] /\ OnlyMoves(w)
         /\ proc'[w].pc = to /\ Kept(w)
<1> DEFINE q == [proc[w] EXCEPT !.pc = to]
<1>1. proc[w] \in Process /\ w \in DOMAIN proc
  BY Typed DEF TypeOK
<1>2. q \in Process /\ q.pc = to /\ q.gen = proc[w].gen /\ q.mine = proc[w].mine
  BY <1>1 DEF Process
<1>3. proc' = [proc EXCEPT ![w] = q]
  BY <1>1 DEF Goto
<1> HIDE DEF q
<1> QED
  BY <1>2, <1>3, ProcSet DEF Kept

LEMMA IdleSet ==
  ASSUME TypeOK, NEW w \in Worker, Goto(w, "idle") \/ proc' = [proc EXCEPT ![w] = IdleProcess]
  PROVE  proc' \in [Worker -> Process] /\ OnlyMoves(w) /\ proc'[w] = IdleProcess
<1>1. proc' = [proc EXCEPT ![w] = IdleProcess]
  BY DEF Goto, TypeOK
<1> QED
  BY <1>1, ProcSet, IdleTyped

LEMMA LeaveSet ==
  ASSUME TypeOK, NEW w \in Worker, NEW next \in {"idle", "failing"}, Leave(w, next)
  PROVE  /\ proc' \in [Worker -> Process] /\ OnlyMoves(w)
         /\ proc'[w].pc = "final" /\ Kept(w)
<1> DEFINE q == [proc[w] EXCEPT !.pc = "final", !.next = next, !.svg = "failed"]
<1>1. proc[w] \in Process /\ w \in DOMAIN proc
  BY Typed DEF TypeOK
<1>2. q \in Process /\ q.pc = "final" /\ q.gen = proc[w].gen /\ q.mine = proc[w].mine
  BY <1>1 DEF Process, Places
<1>3. proc' = [proc EXCEPT ![w] = q]
  BY <1>1 DEF Leave
<1> HIDE DEF q
<1> QED
  BY <1>2, <1>3, ProcSet DEF Kept

\* A step that sets the place of a process and what it has renamed.
LEMMA MineSet ==
  ASSUME TypeOK, NEW w \in Worker, NEW to \in Places, NEW m \in SUBSET Nat,
         NEW s \in {"succeeded", "failed"},
         proc' = [proc EXCEPT ![w] = [proc[w] EXCEPT !.pc = to, !.mine = m, !.svg = s]]
  PROVE  /\ proc' \in [Worker -> Process] /\ OnlyMoves(w)
         /\ proc'[w].pc = to /\ proc'[w].gen = proc[w].gen /\ proc'[w].mine = m
<1> DEFINE q == [proc[w] EXCEPT !.pc = to, !.mine = m, !.svg = s]
<1>1. proc[w] \in Process
  BY Typed
<1>2. q \in Process /\ q.pc = to /\ q.gen = proc[w].gen /\ q.mine = m
  BY <1>1 DEF Process
<1> HIDE DEF q
<1>3. proc' = [proc EXCEPT ![w] = q]
  BY DEF q
<1> QED
  BY <1>2, <1>3, ProcSet

LEMMA MineSet_ ==
  ASSUME TypeOK, NEW w \in Worker, NEW to \in Places, NEW m \in SUBSET Nat,
         proc' = [proc EXCEPT ![w].pc = to, ![w].mine = m]
  PROVE  /\ proc' \in [Worker -> Process] /\ OnlyMoves(w)
         /\ proc'[w].pc = to /\ proc'[w].gen = proc[w].gen /\ proc'[w].mine = m
<1> DEFINE q == [proc[w] EXCEPT !.pc = to, !.mine = m]
<1>1. proc[w] \in Process /\ w \in DOMAIN proc
  BY Typed DEF TypeOK
<1>2. q \in Process /\ q.pc = to /\ q.gen = proc[w].gen /\ q.mine = m
  BY <1>1 DEF Process
<1>3. proc' = [proc EXCEPT ![w] = q]
  BY <1>1
<1> HIDE DEF q
<1> QED
  BY <1>2, <1>3, ProcSet

LEMMA SvgSet ==
  ASSUME TypeOK, NEW w \in Worker, NEW r \in {"succeeded", "failed"},
         proc' = [proc EXCEPT ![w].pc = "svg_done", ![w].svg = r]
  PROVE  /\ proc' \in [Worker -> Process] /\ OnlyMoves(w)
         /\ proc'[w].pc = "svg_done" /\ Kept(w)
<1> DEFINE q == [proc[w] EXCEPT !.pc = "svg_done", !.svg = r]
<1>1. proc[w] \in Process /\ w \in DOMAIN proc
  BY Typed DEF TypeOK
<1>2. q \in Process /\ q.pc = "svg_done" /\ q.gen = proc[w].gen /\ q.mine = proc[w].mine
  BY <1>1 DEF Process, Places
<1>3. proc' = [proc EXCEPT ![w] = q]
  BY <1>1
<1> HIDE DEF q
<1> QED
  BY <1>2, <1>3, ProcSet DEF Kept

LEMMA PlaceSet ==
  ASSUME TypeOK, NEW w \in Worker, NEW n \in Nat, NEW kind, NEW to \in Places,
         Place(w, n, kind, to)
  PROVE  /\ proc' \in [Worker -> Process] /\ OnlyMoves(w) /\ proc'[w].gen = proc[w].gen
         /\ \/ Present(n) /\ proc'[w].pc = "final" /\ Kept(w)
            \/ Renames(w, n, kind) /\ proc'[w].pc = to
<1>1. CASE Present(n)
  BY <1>1, LeaveSet DEF Place, Kept
<1>2. CASE ~Present(n)
  <2>1. PICK m \in SUBSET Nat : m = proc[w].mine \cup {n}
    BY Typed
  <2>2. proc' = [proc EXCEPT ![w].pc = to, ![w].mine = m]
    BY <1>2, <2>1 DEF Place, TypeOK
  <2>3. /\ proc' \in [Worker -> Process] /\ OnlyMoves(w)
        /\ proc'[w].pc = to /\ proc'[w].gen = proc[w].gen /\ proc'[w].mine = m
    BY <2>2, MineSet_
  <2>4. NewDir(w, n, kind)
    BY <1>2 DEF Place, NewDir
  <2> QED
    BY <2>1, <2>3, <2>4 DEF Renames
<1> QED
  BY <1>1, <1>2

LEMMA CommitSet ==
  ASSUME TypeOK, NEW w \in Worker
  PROVE  /\ PdfCommits(w) => /\ proc' \in [Worker -> Process] /\ OnlyMoves(w)
                             /\ From(w, "pdf_renamed", "verify")
                             /\ proc'[w].gen = proc[w].gen
                             /\ proc'[w].mine = proc[w].mine \ {PdfAt(w)}
         /\ SvgCommits(w) => /\ proc' \in [Worker -> Process] /\ OnlyMoves(w)
                             /\ From(w, "svg_renamed", "final")
                             /\ proc'[w].gen = proc[w].gen
                             /\ proc'[w].mine = proc[w].mine \ {SvgAt(w)}
<1>0. "verify" \in Places /\ "final" \in Places
  BY DEF Places
<1>1. ASSUME PdfCommits(w)
      PROVE  /\ proc' \in [Worker -> Process] /\ OnlyMoves(w)
             /\ From(w, "pdf_renamed", "verify")
             /\ proc'[w].gen = proc[w].gen
             /\ proc'[w].mine = proc[w].mine \ {PdfAt(w)}
  <2>1. PICK m \in SUBSET Nat : m = proc[w].mine \ {PdfAt(w)}
    BY Typed
  <2>2. proc' = [proc EXCEPT ![w].pc = "verify", ![w].mine = m]
    BY <1>1, <2>1 DEF PdfCommits, CommitPdf, PdfAt, TypeOK
  <2>3. proc[w].pc = "pdf_renamed"
    BY <1>1 DEF PdfCommits, CommitPdf, At
  <2>4. /\ proc' \in [Worker -> Process] /\ OnlyMoves(w)
        /\ proc'[w].pc = "verify" /\ proc'[w].gen = proc[w].gen /\ proc'[w].mine = m
    BY <1>0, <2>2, MineSet_
  <2> QED
    BY <2>1, <2>3, <2>4 DEF From
<1>2. ASSUME SvgCommits(w)
      PROVE  /\ proc' \in [Worker -> Process] /\ OnlyMoves(w)
             /\ From(w, "svg_renamed", "final")
             /\ proc'[w].gen = proc[w].gen
             /\ proc'[w].mine = proc[w].mine \ {SvgAt(w)}
  <2>1. PICK m \in SUBSET Nat : m = proc[w].mine \ {SvgAt(w)}
    BY Typed
  <2>2. proc' = [proc EXCEPT ![w].pc = "final", ![w].mine = m, ![w].svg = "failed"]
    BY <1>2, <2>1 DEF SvgCommits, CommitSvg, SvgAt, TypeOK
  <2>3. proc' = [proc EXCEPT ![w] = [proc[w] EXCEPT !.pc = "final", !.mine = m, !.svg = "failed"]]
    BY <2>2 DEF TypeOK
  <2>4. proc[w].pc = "svg_renamed"
    BY <1>2 DEF SvgCommits, CommitSvg, At
  <2> QED
    BY <1>0, <2>1, <2>3, <2>4, MineSet DEF From
<1> QED
  BY <1>1, <1>2

LEMMA CommitBadSet ==
  ASSUME TypeOK, NEW w \in Worker, CommitBad(w)
  PROVE  \/ \E next \in {"idle", "failing"} : Leave(w, next)
         \/ /\ proc' \in [Worker -> Process] /\ OnlyMoves(w)
            /\ proc'[w].pc = "final" /\ proc'[w].gen = proc[w].gen
            /\ proc'[w].mine = proc[w].mine \ {PdfAt(w)}
<1>1. CASE ~Owns(w) \/ job.cancel
  BY <1>1 DEF CommitBad
<1>2. CASE ~(~Owns(w) \/ job.cancel)
  <2>1. CASE job.status # "running"
    BY <1>2, <2>1 DEF CommitBad
  <2>2. CASE job.status = "running"
    <3>1. PICK m \in SUBSET Nat : m = proc[w].mine \ {PdfAt(w)}
      BY Typed
    <3>2. proc' = [proc EXCEPT ![w].pc = "final", ![w].mine = m]
      BY <1>2, <2>2, <3>1 DEF CommitBad, PdfAt, TypeOK
    <3>3. "final" \in Places
      BY DEF Places
    <3> QED
      BY <3>1, <3>2, <3>3, MineSet_
  <2> QED
    BY <2>1, <2>2
<1> QED
  BY <1>1, <1>2

LEMMA ProcChange ==
  ASSUME TypeOK, PdfFirst, Next
  PROVE  /\ proc' \in [Worker -> Process]
         /\ \A v \in Worker : Moves(v)
         /\ \A v, w \in Worker : proc'[v] # proc[v] /\ proc'[w] # proc[w] => v = w
<1> DEFINE Good == /\ proc' \in [Worker -> Process]
                   /\ \A v \in Worker : Moves(v)
                   /\ \A v, w \in Worker : proc'[v] # proc[v] /\ proc'[w] # proc[w] => v = w
<1>0. ASSUME NEW w \in Worker, proc' \in [Worker -> Process], OnlyMoves(w), Moves(w)
      PROVE  Good
  BY <1>0 DEF Moves, OnlyMoves
<1>1. ASSUME proc' = proc PROVE Good
  BY <1>1 DEF Moves, TypeOK
<1> HIDE DEF Good
<1>2. ASSUME NEW w \in Worker, Goto(w, "idle") \/ proc' = [proc EXCEPT ![w] = IdleProcess]
      PROVE  Good
  BY <1>0, <1>2, IdleSet DEF Moves
<1>3. ASSUME NEW w \in Worker, NEW next \in {"idle", "failing"}, Leave(w, next), ~At(w, "idle")
      PROVE  Good
  BY <1>0, <1>3, LeaveSet DEF Moves, Walks, Kept, At
<1>4. ASSUME NEW w \in Worker, NEW to \in Places \ {"idle"}, Goto(w, to), ~At(w, "idle"),
             Kept(w) /\ proc'[w].pc = to => Walks(w)
      PROVE  Good
  BY <1>0, <1>4, GotoSet DEF Moves, Kept, At
<1>5. ASSUME NEW w \in Worker, StoppedOrFenced(w), ~At(w, "idle") PROVE Good
  BY <1>3, <1>5 DEF StoppedOrFenced
<1>6. ASSUME NEW w \in Worker, NEW from, NEW to \in Places \ {"idle"}, from # "idle",
             RenewFor(w, from, to), From(w, from, to) /\ Kept(w) => Walks(w)
      PROVE  Good
  <2>1. At(w, from) /\ ~At(w, "idle")
    BY <1>6 DEF RenewFor, At
  <2>2. CASE Goto(w, to)
    BY <1>4, <1>6, <2>1, <2>2 DEF From, At
  <2>3. CASE Leave(w, "idle")
    BY <1>3, <2>1, <2>3
  <2> QED
    BY <1>6, <2>2, <2>3 DEF RenewFor
<1>7. ASSUME NEW w \in Worker, NEW n \in {PdfAt(w), SvgAt(w)}, NEW kind, NEW to \in Places,
             Place(w, n, kind, to), ~At(w, "idle"),
             Renames(w, n, kind) /\ proc'[w].pc = to => Walks(w)
      PROVE  Good
  <2>1. n \in Nat
    BY Typed
  <2>2. Present(n) /\ proc'[w].pc = "final" /\ Kept(w) => Walks(w)
    BY DEF Walks, Kept
  <2> QED
    BY <1>0, <1>7, <2>1, <2>2, PlaceSet DEF Moves, At
<1>8. ASSUME NEW w \in Worker, Claim(w) PROVE Good
  <2> DEFINE q == [IdleProcess EXCEPT !.pc = "claimed", !.gen = job.gen + 1]
  <2>1. job.gen + 1 \in Nat
    BY DEF TypeOK, Row
  <2>2. /\ q \in Process /\ q.pc = "claimed" /\ q.gen = job.gen + 1 /\ q.mine = {}
    BY <2>1 DEF IdleProcess, Process, Places
  <2>3. proc' = [proc EXCEPT ![w] = q]
    BY <1>8 DEF Claim
  <2> HIDE DEF q
  <2>4. proc' \in [Worker -> Process] /\ proc'[w] = q /\ OnlyMoves(w)
    BY <2>2, <2>3, ProcSet
  <2>5. Moves(w)
    BY <1>8, <2>2, <2>4 DEF Moves, Claim, At
  <2> QED
    BY <1>0, <2>4, <2>5
<1>9. ASSUME NEW w \in Worker, Begin(w) PROVE Good
  <2>1. ~At(w, "idle") /\ "prepared" \in Places \ {"idle"}
    BY <1>9 DEF Begin, At, Places
  <2>2. CASE Leave(w, "idle")
    BY <1>3, <2>1, <2>2
  <2>3. CASE ~Leave(w, "idle")
    <3> DEFINE made == job.status \in {"validating", "running"}
    <3>1. stages' = [stages EXCEPT !.made = (@ \/ made)]
      BY <1>9, <2>3 DEF Begin
    <3>2. stages.made \/ made
      BY <1>9, <2>3 DEF Begin
    <3>3. Goto(w, "prepared")
      BY <1>9, <2>3 DEF Begin
    <3>4. stages' = [stages EXCEPT !.made = TRUE]
      BY <3>1, <3>2 DEF TypeOK, Stages
    <3>5. stages'.made
      BY <3>4 DEF TypeOK, Stages
    <3> QED
      BY <1>4, <2>1, <3>3, <3>5 DEF Walks
  <2> QED
    BY <2>2, <2>3
<1>10. ASSUME NEW w \in Worker, Run(w) PROVE Good
  <2>1. ~At(w, "idle") /\ {"verify", "pdf"} \subseteq Places \ {"idle"}
    BY <1>10 DEF Run, At, Places
  <2>2. CASE Leave(w, "failing") \/ Leave(w, "idle")
    BY <1>3, <2>1, <2>2
  <2>3. CASE stages.pdf = "succeeded" /\ stages' = stages /\ Goto(w, "verify")
    BY <1>4, <2>1, <2>3 DEF Walks
  <2>4. CASE stages' = [stages EXCEPT !.pdf = "running"] /\ Goto(w, "pdf")
    <3>1. stages'.pdf = "running"
      BY <2>4 DEF TypeOK, Stages
    <3> QED
      BY <1>4, <2>1, <2>4, <3>1 DEF Walks
  <2> QED
    BY <1>10, <2>2, <2>3, <2>4 DEF Run
<1>11. ASSUME NEW w \in Worker, PdfEnds(w) PROVE Good
  <2>1. proc[w].pc = "pdf" /\ ~At(w, "idle") /\ {"pdf_good", "pdf_bad"} \subseteq Places \ {"idle"}
    BY <1>11 DEF PdfEnds, At, Places
  <2>2. CASE Leave(w, "failing") \/ Leave(w, "idle")
    BY <1>3, <2>1, <2>2
  <2>3. ASSUME NEW pc \in {"pdf_good", "pdf_bad"}, Goto(w, pc) PROVE Good
    <3>1. Kept(w) /\ proc'[w].pc = pc => Walks(w)
      BY <2>1 DEF Walks, From
    <3> QED
      BY <1>4, <2>1, <2>3, <3>1
  <2> QED
    BY <1>11, <2>2, <2>3 DEF PdfEnds
<1>12. ASSUME NEW w \in Worker, PlaceBad(w) PROVE Good
  <2>1. /\ proc[w].pc = "pdf_bad" /\ ~At(w, "idle") /\ "bad_renamed" \in Places
        /\ Place(w, PdfAt(w), "diagnostics", "bad_renamed")
    BY <1>12 DEF PlaceBad, At, Places, PdfAt
  <2>2. Renames(w, PdfAt(w), "diagnostics") /\ proc'[w].pc = "bad_renamed" => Walks(w)
    BY <2>1 DEF Walks, From
  <2> QED
    BY <1>7, <2>1, <2>2
<1>13. ASSUME NEW w \in Worker, CommitBad(w) PROVE Good
  <2>1. ~At(w, "idle")
    BY <1>13 DEF CommitBad, At
  <2>2. ASSUME proc'[w].pc = "final", proc'[w].gen = proc[w].gen,
               proc'[w].mine = proc[w].mine \ {PdfAt(w)}
        PROVE  Moves(w)
    BY <2>1, <2>2 DEF Moves, Walks, At
  <2> QED
    BY <1>0, <1>3, <1>13, <2>1, <2>2, CommitBadSet
<1>14. ASSUME NEW w \in Worker, RenewPdf(w) PROVE Good
  BY <1>6, <1>14 DEF RenewPdf, Walks, Places
<1>15. ASSUME NEW w \in Worker, PlacePdf(w) PROVE Good
  <2>1. /\ proc[w].pc = "pdf_renewed" /\ ~At(w, "idle") /\ "pdf_renamed" \in Places
        /\ Place(w, PdfAt(w), "pdf", "pdf_renamed")
    BY <1>15 DEF PlacePdf, At, Places, PdfAt
  <2>2. Renames(w, PdfAt(w), "pdf") /\ proc'[w].pc = "pdf_renamed" => Walks(w)
    BY <2>1 DEF Walks, From
  <2> QED
    BY <1>7, <2>1, <2>2
<1>16. ASSUME NEW w \in Worker, CommitPdf(w) PROVE Good
  <2>1. ~At(w, "idle")
    BY <1>16 DEF CommitPdf, At
  <2>2. CASE CanCompletePdf(w)
    BY <1>0, <1>16, <2>1, <2>2, CommitSet, PdfCommitted DEF Moves, Walks, At, PdfCommits
  <2>3. CASE ~CanCompletePdf(w)
    BY <1>5, <1>16, <2>1, <2>3 DEF CommitPdf
  <2> QED
    BY <2>2, <2>3
<1>17. ASSUME NEW w \in Worker, StartSvg(w) PROVE Good
  <2>1. proc[w].pc = "verify" /\ ~At(w, "idle") /\ "svg" \in Places \ {"idle"}
    BY <1>17 DEF StartSvg, At, Places
  <2>2. Kept(w) /\ proc'[w].pc = "svg" => Walks(w)
    BY <2>1 DEF Walks, From
  <2>3. Leave(w, "failing") \/ Goto(w, "svg") \/ StoppedOrFenced(w)
    BY <1>17 DEF StartSvg
  <2> QED
    BY <1>3, <1>4, <1>5, <2>1, <2>2, <2>3
<1>18. ASSUME NEW w \in Worker, SvgEnds(w) PROVE Good
  <2>1. proc[w].pc = "svg" /\ ~At(w, "idle")
    BY <1>18 DEF SvgEnds, At
  <2>2. \/ Leave(w, "idle")
        \/ \E r \in {"succeeded", "failed"} :
             proc' = [proc EXCEPT ![w].pc = "svg_done", ![w].svg = r]
    BY <1>18 DEF SvgEnds
  <2>3. proc'[w].pc = "svg_done" /\ Kept(w) => Moves(w)
    BY <2>1 DEF Moves, Walks, From, Kept, At
  <2> QED
    BY <1>0, <1>3, <2>1, <2>2, <2>3, SvgSet
<1>19. ASSUME NEW w \in Worker, RenewSvg(w) PROVE Good
  <2>1. CASE RenewFor(w, "svg_done", "svg_renewed")
    BY <1>6, <2>1 DEF Walks, Places
  <2>2. CASE At(w, "svg_done") /\ Leave(w, "failing")
    BY <1>3, <2>2 DEF At
  <2> QED
    BY <1>19, <2>1, <2>2 DEF RenewSvg
<1>20. ASSUME NEW w \in Worker, PlaceSvg(w) PROVE Good
  <2>1. /\ proc[w].pc = "svg_renewed" /\ ~At(w, "idle") /\ "svg_renamed" \in Places
        /\ Place(w, SvgAt(w), "svg", "svg_renamed")
    BY <1>20 DEF PlaceSvg, At, Places, SvgAt
  <2>2. Renames(w, SvgAt(w), "svg") /\ proc'[w].pc = "svg_renamed" => Walks(w)
    BY <2>1 DEF Walks, From
  <2> QED
    BY <1>7, <2>1, <2>2
<1>21. ASSUME NEW w \in Worker, CommitSvg(w) PROVE Good
  <2>1. ~At(w, "idle")
    BY <1>21 DEF CommitSvg, At
  <2>2. CASE stages.svg = "running" /\ StageOwned(w)
    BY <1>0, <1>21, <2>1, <2>2, CommitSet DEF Moves, Walks, At, From, SvgCommits
  <2>3. CASE ~(stages.svg = "running" /\ StageOwned(w))
    BY <1>5, <1>21, <2>1, <2>3 DEF CommitSvg
  <2> QED
    BY <2>2, <2>3
<1>22. ASSUME NEW w \in Worker, Final(w) PROVE Good
  <2>1. ~At(w, "idle") /\ "last" \in Places
    BY <1>22 DEF Final, At, Places
  <2>2. PICK m \in SUBSET Nat : m = {}
    OBVIOUS
  <2>3. proc' = [proc EXCEPT ![w].pc = "last", ![w].mine = m]
    BY <1>22, <2>2 DEF Final
  <2>4. proc'[w].pc = "last" /\ proc'[w].gen = proc[w].gen /\ proc'[w].mine = m => Moves(w)
    BY <2>1, <2>2 DEF Moves, Walks, At
  <2> QED
    BY <1>0, <2>1, <2>3, <2>4, MineSet_
<1>23. ASSUME NEW w \in Worker, Last(w) PROVE Good
  <2>1. ~At(w, "idle") /\ "failing" \in Places \ {"idle"}
    BY <1>23 DEF Last, At, Places
  <2>2. Goto(w, "idle") \/ Goto(w, "failing")
    <3>1. Goto(w, proc[w].next) /\ proc[w].next \in {"idle", "failing"}
      BY <1>23, Typed DEF Last
    <3> QED
      BY <3>1
  <2>3. Kept(w) /\ proc'[w].pc = "failing" => Walks(w)
    BY DEF Walks, Kept
  <2> QED
    BY <1>2, <1>4, <2>1, <2>2, <2>3
<1>24. ASSUME NEW w \in Worker, Fail(w) PROVE Good
  <2>1. proc[w].pc = "failing" /\ ~At(w, "idle") /\ "fail_staging" \in Places \ {"idle"}
    BY <1>24 DEF Fail, At, Places
  <2>2. Goto(w, "idle") \/ (Goto(w, "fail_staging") /\ ~Published /\ stages' = stages)
    BY <1>24 DEF Fail, KeepsPdf
  <2>3. ~Published /\ stages' = stages /\ Kept(w) /\ proc'[w].pc = "fail_staging" => Walks(w)
    BY <2>1 DEF Walks, From
  <2> QED
    BY <1>2, <1>4, <2>1, <2>2, <2>3
<1>25. ASSUME NEW w \in Worker, FailRenew(w) PROVE Good
  <2>1. proc[w].pc = "fail_staging" /\ ~At(w, "idle") /\ "fail_ready" \in Places \ {"idle"}
    BY <1>25 DEF FailRenew, At, Places
  <2>2. Goto(w, "idle") \/ Goto(w, "fail_ready")
    BY <1>25 DEF FailRenew
  <2>3. Kept(w) /\ proc'[w].pc = "fail_ready" => Walks(w)
    BY <2>1 DEF Walks, From
  <2> QED
    BY <1>2, <1>4, <2>1, <2>2, <2>3
<1>26. ASSUME NEW w \in Worker, FailPlace(w) PROVE Good
  <2>1. proc[w].pc = "fail_ready" /\ ~At(w, "idle") /\ "fail_renamed" \in Places \ {"idle"}
    BY <1>26 DEF FailPlace, At, Places
  <2>2. \/ proc' = [proc EXCEPT ![w] = IdleProcess]
        \/ Goto(w, "fail_renamed") /\ NewDir(w, proc[w].gen, "diagnostics")
    BY <1>26 DEF FailPlace, NewDir
  <2>3. /\ NewDir(w, proc[w].gen, "diagnostics") /\ Kept(w) /\ proc'[w].pc = "fail_renamed"
        => Walks(w)
    BY <2>1 DEF Walks, From
  <2> QED
    BY <1>2, <1>4, <2>1, <2>2, <2>3
<1>27. ASSUME NEW w \in Worker, FailCommit(w) \/ Defer(w) \/ Crash(w) PROVE Good
  BY <1>2, <1>27 DEF FailCommit, Defer, Crash
<1>28. ASSUME NEW w \in Worker, Stage(w) PROVE Good
  BY <1>9, <1>10, <1>11, <1>12, <1>13, <1>14, <1>15, <1>16, <1>17, <1>18, <1>19, <1>20, <1>21,
     <1>22, <1>23, <1>24, <1>25, <1>26, <1>27, <1>28 DEF Stage
<1>29. ASSUME NEW w \in Worker, RecClaim(w) \/ RecDefer(w) \/ Recover(w) \/ Beat(w) PROVE Good
  BY <1>1, <1>29 DEF RecClaim, RecDefer, Recover, RecStopped, PrunePdf, PruneSvg, Prune,
     RecFinish, Beat, OnlyRec
<1>30. ASSUME Cancel \/ RetrySvg \/ Download \/ Expire PROVE Good
  BY <1>1, <1>30 DEF Cancel, RetrySvg, Download, Expire
<1>31. Good
  BY <1>8, <1>27, <1>28, <1>29, <1>30 DEF Next
<1> QED
  BY <1>31 DEF Good

-----------------------------------------------------------------------------
(* What a step changes in the rows of the artifacts and on the disk.       *)

\* Why a directory is removed.
Removed(n) == \E w \in Worker :
                \/ proc[w].pc = "final" /\ n \in proc[w].mine
                \/ proc[w].pc = "fail_renamed" /\ n = proc[w].gen
                \/ /\ rec[w].pc \in {"prune_pdf", "prune_svg"} /\ Claiming(w)
                   /\ n \notin rec[w].keep

Filed == /\ rows' \in [main : Nat, svg : Nat] /\ outputs' \subseteq Output
         /\ rows'.main # rows.main => \E w \in Worker : proc[w].pc \in Working /\ Owns(w)
         /\ rows'.svg # rows.svg => \E w \in Worker : SvgCommits(w)
         /\ \A d \in outputs : d \in outputs' \/ Removed(d.at)

LEMMA FilesChange ==
  ASSUME TypeOK, Next
  PROVE  Filed
<1>0. rows \in [main : Nat, svg : Nat] /\ outputs \subseteq Output
  BY DEF TypeOK
<1>1. ASSUME KeepFiles PROVE Filed
  BY <1>0, <1>1 DEF KeepFiles, Filed
<1>2. ASSUME rows' = rows, outputs' \subseteq Output, \A d \in outputs : d \in outputs' \/ Removed(d.at)
      PROVE  Filed
  BY <1>0, <1>2 DEF Filed
<1>3. ASSUME NEW n \in Nat, NEW kind \in {"pdf", "svg", "diagnostics"}, NEW g \in Nat
      PROVE  [at |-> n, kind |-> kind, gen |-> g] \in Output
  BY <1>3 DEF Output
<1>4. ASSUME NEW w \in Worker, NEW n \in Nat, NEW kind \in {"pdf", "svg", "diagnostics"}, NEW to,
             Place(w, n, kind, to), rows' = rows
      PROVE  Filed
  <2>1. proc[w].gen \in Nat
    BY Typed
  <2>2. outputs' = outputs \/ outputs' = outputs \cup {[at |-> n, kind |-> kind, gen |-> proc[w].gen]}
    BY <1>4 DEF Place
  <2> QED
    BY <1>0, <1>2, <1>3, <1>4, <2>1, <2>2
<1>5. ASSUME NEW w \in Worker, PlaceBad(w) \/ PlacePdf(w) \/ PlaceSvg(w) PROVE Filed
  <2>1. /\ StorageGeneration(proc[w].gen, FALSE) \in Nat
        /\ StorageGeneration(proc[w].gen, TRUE) \in Nat
    BY Typed DEF PdfAt, SvgAt
  <2> QED
    BY <1>4, <1>5, <2>1 DEF PlaceBad, PlacePdf, PlaceSvg
<1>6. ASSUME NEW w \in Worker, CommitBad(w) PROVE Filed
  <2>1. outputs' = outputs /\ proc[w].pc = "bad_renamed"
    BY <1>6 DEF CommitBad, At
  <2>2. rows' = rows \/ (Owns(w) /\ rows' = [rows EXCEPT !.main = PdfAt(w)])
    BY <1>6 DEF CommitBad, PdfAt
  <2>3. PdfAt(w) \in Nat
    BY Typed
  <2> QED
    BY <1>0, <2>1, <2>2, <2>3 DEF Filed, Working
<1>7. ASSUME NEW w \in Worker, CommitPdf(w) PROVE Filed
  <2>1. CASE PdfCommits(w)
    BY <1>0, <2>1, PdfCommitted DEF Filed, Working
  <2>2. CASE ~PdfCommits(w)
    BY <1>1, <1>7, <2>2 DEF CommitPdf, PdfCommits, KeepFiles
  <2> QED
    BY <2>1, <2>2
<1>8. ASSUME NEW w \in Worker, CommitSvg(w) PROVE Filed
  <2>1. CASE SvgCommits(w)
    BY <1>0, <2>1, SvgCommitted DEF Filed
  <2>2. CASE ~SvgCommits(w)
    BY <1>1, <1>8, <2>2 DEF CommitSvg, SvgCommits, KeepFiles
  <2> QED
    BY <2>1, <2>2
<1>9. ASSUME NEW w \in Worker, Final(w) PROVE Filed
  <2>1. /\ proc[w].pc = "final" /\ rows' = rows
        /\ outputs' = {d \in outputs : d.at \notin proc[w].mine}
    BY <1>9 DEF Final, At
  <2> QED
    BY <1>0, <1>2, <2>1 DEF Removed
<1>10. ASSUME NEW w \in Worker, FailPlace(w) PROVE Filed
  <2>1. proc[w].gen \in Nat
    BY Typed
  <2>2. /\ rows' = rows
        /\ \/ outputs' = outputs
           \/ outputs' = outputs \cup
                {[at |-> proc[w].gen, kind |-> "diagnostics", gen |-> proc[w].gen]}
    BY <1>10 DEF FailPlace
  <2> QED
    BY <1>0, <1>2, <1>3, <2>1, <2>2
<1>11. ASSUME NEW w \in Worker, FailCommit(w) PROVE Filed
  <2>1. proc[w].pc = "fail_renamed" /\ proc[w].gen \in Nat
    BY <1>11, Typed DEF FailCommit, At
  <2>2. \/ /\ Owns(w) /\ rows' = [rows EXCEPT !.main = proc[w].gen] /\ outputs' = outputs
        \/ rows' = rows /\ outputs' = {d \in outputs : d.at # proc[w].gen}
    BY <1>11 DEF FailCommit, CanFinishFailure, Owns
  <2>3. CASE Owns(w) /\ rows' = [rows EXCEPT !.main = proc[w].gen] /\ outputs' = outputs
    BY <1>0, <2>1, <2>3 DEF Filed, Working
  <2>4. CASE rows' = rows /\ outputs' = {d \in outputs : d.at # proc[w].gen}
    BY <1>0, <1>2, <2>1, <2>4 DEF Removed
  <2> QED
    BY <2>2, <2>3, <2>4
<1>12. ASSUME NEW w \in Worker, PrunePdf(w) \/ PruneSvg(w) PROVE Filed
  <2>1. PICK n : \E from \in {"prune_pdf", "prune_svg"} : \E to : Prune(w, n, from, to)
    BY <1>12 DEF PrunePdf, PruneSvg
  <2>2. /\ rows' = rows /\ rec[w].pc \in {"prune_pdf", "prune_svg"}
        /\ \/ outputs' = outputs
           \/ n \notin rec[w].keep /\ StillOwned(w) /\ outputs' = {d \in outputs : d.at # n}
    BY <2>1 DEF Prune, RecAt
  <2> QED
    BY <1>0, <1>2, <2>2 DEF Removed, StillOwned, CanExpireClaim, Claiming
<1>13. ASSUME NEW w \in Worker, Stage(w) PROVE Filed
  <2>1. CASE \/ Begin(w) \/ Run(w) \/ PdfEnds(w) \/ StartSvg(w) \/ SvgEnds(w)
             \/ Last(w) \/ Fail(w) \/ FailRenew(w)
    BY <1>1, <2>1 DEF Begin, Run, PdfEnds, StartSvg, SvgEnds, Last, Fail, FailRenew
  <2>2. CASE RenewPdf(w) \/ RenewSvg(w)
    BY <1>1, <2>2 DEF RenewPdf, RenewSvg, RenewFor
  <2> QED
    BY <1>5, <1>6, <1>7, <1>8, <1>9, <1>10, <1>11, <1>13, <2>1, <2>2 DEF Stage
<1>14. ASSUME NEW w \in Worker, \/ Claim(w) \/ RecClaim(w) \/ RecDefer(w) \/ RecStopped(w)
                               \/ RecFinish(w) \/ Defer(w) \/ Beat(w) \/ Crash(w)
       PROVE  Filed
  BY <1>1, <1>14 DEF Claim, RecClaim, RecDefer, RecStopped, RecFinish, Defer, Beat, Crash, KeepFiles
<1>15. ASSUME Cancel \/ RetrySvg \/ Download \/ Expire PROVE Filed
  BY <1>1, <1>15 DEF Cancel, RetrySvg, Download, Expire, KeepFiles
<1> QED
  BY <1>12, <1>13, <1>14, <1>15 DEF Next, Recover

-----------------------------------------------------------------------------
(* How a recovery pass moves.                                              *)

RecMoves(v) == \/ rec'[v] = rec[v]
               \/ RecClaim(v) /\ rec'[v].pc = "claimed"
               \/ rec'[v].pc \in {"idle", "finish"}
               \/ /\ rec'[v].pc = "prune_pdf" /\ rec'[v].keep = References
                  /\ rows' = rows /\ stages' = stages
               \/ /\ rec[v].pc = "prune_pdf" /\ rec'[v].pc = "prune_svg"
                  /\ rec'[v].gen = rec[v].gen /\ rec'[v].keep = rec[v].keep

LEMMA RecTyped ==
  ASSUME TypeOK, NEW w \in Worker
  PROVE  rec[w] \in Recovery /\ w \in DOMAIN rec /\ References \subseteq Nat
BY DEF TypeOK, References, Stages

LEMMA RecSet ==
  ASSUME TypeOK, NEW w \in Worker, NEW q \in Recovery, rec' = [rec EXCEPT ![w] = q]
  PROVE  /\ rec' \in [Worker -> Recovery] /\ rec'[w] = q
         /\ \A v \in Worker : v # w => rec'[v] = rec[v]
BY DEF TypeOK

LEMMA RecGone ==
  ASSUME TypeOK, NEW w \in Worker, NEW to \in {"idle", "prune_svg", "finish"}, RecGoto(w, to)
  PROVE  /\ rec' \in [Worker -> Recovery] /\ rec'[w].pc = to
         /\ to # "idle" => rec'[w].gen = rec[w].gen /\ rec'[w].keep = rec[w].keep
         /\ \A v \in Worker : v # w => rec'[v] = rec[v]
<1> DEFINE q == IF to = "idle" THEN IdleRecovery ELSE [rec[w] EXCEPT !.pc = to]
<1>1. IdleRecovery \in Recovery /\ IdleRecovery.pc = "idle"
  BY Statuses DEF IdleRecovery, Recovery
<1>2. [rec[w] EXCEPT !.pc = to] \in Recovery /\ [rec[w] EXCEPT !.pc = to].pc = to
  BY RecTyped DEF Recovery
<1>3. q \in Recovery /\ q.pc = to
  BY <1>1, <1>2
<1>4. to # "idle" => q.gen = rec[w].gen /\ q.keep = rec[w].keep
  BY RecTyped DEF Recovery
<1>5. rec' = [rec EXCEPT ![w] = q]
  BY RecTyped DEF RecGoto
<1> HIDE DEF q
<1> QED
  BY <1>3, <1>4, <1>5, RecSet

LEMMA RecChange ==
  ASSUME TypeOK, Next
  PROVE  rec' \in [Worker -> Recovery] /\ \A v \in Worker : RecMoves(v)
<1> DEFINE Good == rec' \in [Worker -> Recovery] /\ \A v \in Worker : RecMoves(v)
<1>0. ASSUME NEW w \in Worker, rec' \in [Worker -> Recovery], RecMoves(w),
             \A v \in Worker : v # w => rec'[v] = rec[v]
      PROVE  Good
  BY <1>0 DEF RecMoves
<1>1. ASSUME rec' = rec PROVE Good
  BY <1>1 DEF RecMoves, TypeOK
<1> HIDE DEF Good
<1>2. ASSUME NEW w \in Worker, NEW to \in {"idle", "finish"}, RecGoto(w, to) PROVE Good
  BY <1>0, <1>2, RecGone DEF RecMoves
<1>3. ASSUME NEW w \in Worker, RecClaim(w) PROVE Good
  <2> DEFINE q == [pc |-> "claimed", gen |-> job.gen + 1, stale |-> job.gen,
                   status |-> job.status, keep |-> {}]
  <2>1. job.gen \in Nat /\ job.gen + 1 \in Nat /\ job.status \in Status
    BY DEF TypeOK, Row
  <2>2. q \in Recovery /\ q.pc = "claimed"
    BY <2>1 DEF Recovery
  <2>3. rec' = [rec EXCEPT ![w] = q]
    BY <1>3 DEF RecClaim
  <2> HIDE DEF q
  <2>4. /\ rec' \in [Worker -> Recovery] /\ rec'[w] = q
        /\ \A v \in Worker : v # w => rec'[v] = rec[v]
    BY <2>2, <2>3, RecSet
  <2> QED
    BY <1>0, <1>3, <2>2, <2>4 DEF RecMoves
<1>4. ASSUME NEW w \in Worker, RecStopped(w) PROVE Good
  <2> DEFINE q == [rec[w] EXCEPT !.pc = "prune_pdf", !.keep = References]
             f == [rec[w] EXCEPT !.pc = "finish"]
  <2>1. q \in Recovery /\ q.pc = "prune_pdf" /\ q.keep = References
    BY RecTyped DEF Recovery
  <2>2. f \in Recovery /\ f.pc = "finish"
    BY RecTyped DEF Recovery
  <2>3. rows' = rows /\ stages' = stages
    BY <1>4 DEF RecStopped, KeepJob, KeepFiles
  <2>4. rec' = [rec EXCEPT ![w] = q] \/ rec' = [rec EXCEPT ![w] = f]
    BY <1>4, RecTyped DEF RecStopped
  <2> HIDE DEF q, f
  <2>5. CASE rec' = [rec EXCEPT ![w] = q]
    <3>1. /\ rec' \in [Worker -> Recovery] /\ rec'[w] = q
          /\ \A v \in Worker : v # w => rec'[v] = rec[v]
      BY <2>1, <2>5, RecSet
    <3> QED
      BY <1>0, <2>1, <2>3, <3>1 DEF RecMoves
  <2>6. CASE rec' = [rec EXCEPT ![w] = f]
    <3>1. /\ rec' \in [Worker -> Recovery] /\ rec'[w] = f
          /\ \A v \in Worker : v # w => rec'[v] = rec[v]
      BY <2>2, <2>6, RecSet
    <3> QED
      BY <1>0, <2>2, <3>1 DEF RecMoves
  <2> QED
    BY <2>4, <2>5, <2>6
<1>5. ASSUME NEW w \in Worker, PrunePdf(w) PROVE Good
  <2>1. rec[w].pc = "prune_pdf" /\ (RecGoto(w, "finish") \/ RecGoto(w, "prune_svg"))
    BY <1>5 DEF PrunePdf, Prune, RecAt
  <2>2. CASE RecGoto(w, "prune_svg")
    BY <1>0, <2>1, <2>2, RecGone DEF RecMoves
  <2> QED
    BY <1>2, <2>1, <2>2
<1>6. ASSUME NEW w \in Worker, PruneSvg(w) \/ RecFinish(w) \/ RecDefer(w) \/ Crash(w) PROVE Good
  BY <1>2, <1>6 DEF PruneSvg, Prune, RecFinish, RecDefer, Crash
<1>7. ASSUME NEW w \in Worker, Stage(w) PROVE Good
  BY <1>1, <1>7 DEF Stage, Aside, Begin, Run, PdfEnds, PlaceBad, CommitBad, RenewPdf, RenewFor,
     PlacePdf, CommitPdf, StartSvg, SvgEnds, RenewSvg, PlaceSvg, CommitSvg, Final, Last, Fail,
     FailRenew, FailPlace, FailCommit
<1>8. ASSUME NEW w \in Worker, Claim(w) \/ Defer(w) \/ Beat(w) PROVE Good
  BY <1>1, <1>8 DEF Claim, Defer, Beat, Aside
<1>9. ASSUME Cancel \/ RetrySvg \/ Download \/ Expire PROVE Good
  BY <1>1, <1>9 DEF Cancel, RetrySvg, Download, Expire
<1>10. Good
  BY <1>3, <1>4, <1>5, <1>6, <1>7, <1>8, <1>9 DEF Next, Recover
<1> QED
  BY <1>10 DEF Good

-----------------------------------------------------------------------------
(* What every step keeps.                                                  *)

\* Who owns the job after a step owned it before, or has just claimed it.
LEMMA OwnsBefore ==
  ASSUME Inv, Next, NEW w \in Worker, Owns(w)', proc'[w].pc \notin {"idle", "claimed"}
  PROVE  Owns(w) /\ proc'[w].gen = proc[w].gen /\ proc[w].pc # "idle" /\ proc[w].gen >= 1
<1>1. Turned /\ Moves(w)
  BY TurnChange, ProcChange DEF Inv
<1>2. proc[w].pc # "idle" /\ proc'[w].gen = proc[w].gen
  <2>1. IdleProcess.pc = "idle"
    BY IdleTyped
  <2>2. proc'[w].pc # "idle" /\ ~(proc'[w].pc = "claimed")
    OBVIOUS
  <2>3. CASE proc'[w] = proc[w]
    BY <2>2, <2>3
  <2> QED
    BY <1>1, <2>1, <2>2, <2>3 DEF Moves
<1>3. job'.owner = Lease(w) /\ job'.gen = proc'[w].gen
  BY DEF Owns, Owned
<1>4. proc[w].gen <= job.gen /\ proc[w].gen >= 1 /\ proc[w].gen \in Nat /\ job.gen \in Nat
  BY <1>2, Typed, RowOps DEF Inv, Numbered, TypeOK
<1>5. job'.gen # job.gen + 1
  BY <1>2, <1>3, <1>4
<1>6. job'.owner # NoOwner
  BY <1>3, Owners
<1>7. SameOwner
  BY <1>1, <1>5, <1>6 DEF Turned, OwnerGoes
<1> QED
  BY <1>2, <1>3, <1>4, <1>7 DEF SameOwner, Owns, Owned

LEMMA OneOwns ==
  ASSUME NEW v \in Worker, NEW w \in Worker, Owns(v), Owns(w)
  PROVE  v = w
BY Owners DEF Owns, Owned

LEMMA NeverBoth ==
  ASSUME NEW v \in Worker, NEW w \in Worker, Owns(v), Claiming(w)
  PROVE  FALSE
BY Owners DEF Owns, Owned, Claiming

\* Directories of two processes are named apart.
LEMMA NamesApart ==
  ASSUME Inv, NEW v \in Worker, NEW w \in Worker, v # w, proc[v].gen >= 1
  PROVE  PdfAt(v) \notin proc[w].mine /\ SvgAt(v) \notin proc[w].mine
<1>1. proc[v].gen # proc[w].gen
  BY Typed DEF Inv, Numbered
<1>2. proc[w].mine \subseteq {PdfAt(w), SvgAt(w)}
  BY DEF Inv, Numbered
<1>3. /\ proc[v].gen \in Nat /\ proc[w].gen \in Nat
      /\ PdfAt(v) = proc[v].gen * 2 /\ SvgAt(v) = proc[v].gen * 2 + 1
      /\ PdfAt(w) = proc[w].gen * 2 /\ SvgAt(w) = proc[w].gen * 2 + 1
  BY Typed DEF Inv
<1>4. {PdfAt(v), SvgAt(v)} \cap {PdfAt(w), SvgAt(w)} = {}
  BY <1>1, <1>3
<1> QED
  BY <1>2, <1>4

\* The generation under which the owner publishes is the newest.
LEMMA OwnerNewest ==
  ASSUME Inv, NEW v \in Worker, NEW w \in Worker, Owns(v), proc[v].pc # "idle"
  PROVE  /\ PdfAt(v) # proc[w].gen /\ SvgAt(v) # proc[w].gen
         /\ PdfAt(v) # 0 /\ SvgAt(v) # 0 /\ proc[v].gen >= 1
<1>1. /\ proc[v].gen = job.gen /\ proc[v].gen >= 1 /\ proc[w].gen <= job.gen
  BY DEF Inv, Numbered, Owns, Owned
<1>2. /\ proc[v].gen \in Nat /\ proc[w].gen \in Nat
      /\ PdfAt(v) = proc[v].gen * 2 /\ SvgAt(v) = proc[v].gen * 2 + 1
  BY Typed DEF Inv
<1> QED
  BY <1>1, <1>2

LEMMA NumberedStep ==
  ASSUME Inv, Next
  PROVE  Numbered'
<1>1. Turned /\ \A w \in Worker : Moves(w)
  BY TurnChange, ProcChange DEF Inv
<1>2. /\ \A w \in Worker : /\ proc[w].gen \in Nat /\ proc[w].gen <= job.gen
      /\ job.gen \in Nat /\ job'.gen \in Nat
  BY <1>1, Typed, RowOps DEF Inv, Numbered, TypeOK, Turned
<1>3. job'.gen \in {job.gen, job.gen + 1}
  BY <1>1 DEF Turned, OwnerGoes, SameOwner
<1>4. ASSUME NEW w \in Worker, Claim(w) PROVE job'.gen = job.gen + 1
  <2>1. SetJob(Claimed(job, w))
    BY <1>4 DEF Claim
  <2> QED
    BY <2>1, RowOps DEF SetJob, Inv, TypeOK
<1>5. ASSUME NEW w \in Worker
      PROVE  /\ \/ proc'[w].gen = proc[w].gen /\ (proc'[w].pc = "idle" <=> proc[w].pc = "idle")
                \/ proc'[w].gen = 0 /\ proc'[w].pc = "idle"
                \/ /\ proc'[w].gen = job.gen + 1 /\ proc'[w].pc = "claimed"
                   /\ job'.gen = job.gen + 1 /\ proc'[w] # proc[w]
             /\ \/ proc'[w].mine \subseteq {PdfAt(w), SvgAt(w)} /\ proc'[w].gen = proc[w].gen
                \/ proc'[w].mine = {}
  <2>0. proc[w].mine \subseteq {PdfAt(w), SvgAt(w)}
    BY DEF Inv, Numbered
  <2>1. CASE proc'[w] = proc[w]
    BY <2>0, <2>1
  <2>2. CASE proc'[w] = IdleProcess
    BY <2>2, IdleTyped
  <2>3. CASE Claim(w) /\ proc'[w].pc = "claimed" /\ proc'[w].gen = job.gen + 1 /\ proc'[w].mine = {}
    <3>1. proc'[w] # proc[w]
      BY <1>2, <2>3
    <3> QED
      BY <1>4, <2>3, <3>1
  <2>4. CASE proc[w].pc # "idle" /\ proc'[w].gen = proc[w].gen /\ Walks(w)
    <3>1. proc'[w].pc # "idle"
      BY <2>4 DEF Walks, From
    <3>2. proc'[w].mine \subseteq {PdfAt(w), SvgAt(w)}
      BY <2>0, <2>4 DEF Walks, Kept, Renames
    <3> QED
      BY <2>4, <3>1, <3>2
  <2> QED
    BY <1>1, <2>1, <2>2, <2>3, <2>4 DEF Moves
<1>6. ASSUME NEW w \in Worker
      PROVE  /\ proc'[w].pc = "idle" => proc'[w].gen = 0
             /\ proc'[w].pc # "idle" => proc'[w].gen >= 1
             /\ proc'[w].gen <= job'.gen
  <2>1. /\ proc[w].pc = "idle" => proc[w].gen = 0
        /\ proc[w].pc # "idle" => proc[w].gen >= 1
    BY DEF Inv, Numbered
  <2> QED
    BY <1>2, <1>3, <1>5, <2>1
<1>7. ASSUME NEW w \in Worker PROVE proc'[w].mine \subseteq {PdfAt(w)', SvgAt(w)'}
  <2>1. proc'[w].gen = proc[w].gen => PdfAt(w)' = PdfAt(w) /\ SvgAt(w)' = SvgAt(w)
    BY DEF PdfAt, SvgAt
  <2> QED
    BY <1>5, <2>1
<1>8. ASSUME NEW w \in Worker, NEW v \in Worker, proc'[v].gen = proc'[w].gen, proc'[v].gen # 0
      PROVE  v = w
  <2>1. \A a, b \in Worker : proc[a].gen = proc[b].gen /\ proc[a].gen # 0 => a = b
    BY DEF Inv, Numbered
  <2>2. \A a, b \in Worker : proc'[a] # proc[a] /\ proc'[b] # proc[b] => a = b
    BY ProcChange DEF Inv
  <2>3. ASSUME NEW a \in Worker
        PROVE  \/ proc'[a].gen = proc[a].gen
               \/ proc'[a].gen = 0
               \/ proc'[a].gen = job.gen + 1 /\ proc'[a] # proc[a]
    BY <1>5
  <2>4. proc[v].gen # job.gen + 1 /\ proc[w].gen # job.gen + 1
    BY <1>2
  <2>5. CASE proc'[v].gen = job.gen + 1
    BY <1>8, <2>2, <2>3, <2>4, <2>5, <1>2
  <2>6. CASE proc'[v].gen # job.gen + 1
    BY <1>8, <2>1, <2>3, <2>6
  <2> QED
    BY <2>5, <2>6
<1> QED
  BY <1>6, <1>7, <1>8 DEF Numbered

\* The stages only go forward: what is made or published stays.
LEMMA StagesForward ==
  ASSUME Inv, Next
  PROVE  /\ stages.made => stages'.made
         /\ stages.pdf = "succeeded" => stages'.pdf = "succeeded" /\ stages'.pdfGen = stages.pdfGen
         /\ stages.pdf # "succeeded" /\ stages'.pdf = "succeeded" => \E w \in Worker : PdfCommits(w)
         /\ Published => Published'
         /\ Published' /\ ~Published => \E w \in Worker : PdfCommits(w)
<1>1. Turns /\ TypeOK
  BY TurnChange DEF Inv, Turned
<1>2. CASE \E w \in Worker : PdfCommits(w)
  <2>1. stages.pdf = "running" /\ stages'.made = stages.made
    BY <1>1, <1>2, PdfCommitted
  <2> QED
    BY <1>2, <2>1 DEF Published
<1>3. CASE \E w \in Worker : SvgCommits(w)
  <2>1. /\ stages'.made = stages.made /\ stages'.pdf = stages.pdf
        /\ stages'.pdfGen = stages.pdfGen
    BY <1>1, <1>3, SvgCommitted
  <2> QED
    BY <2>1 DEF Published
<1>4. CASE Makes
  <2>1. ~stages.made => stages.pdf = "queued"
    BY DEF Inv, Unmade
  <2> QED
    BY <1>4, <2>1 DEF Makes, Published
<1>5. CASE JobEnds
  BY <1>5 DEF JobEnds, EndsOpen, SameKeys, Published, Open
<1>6. CASE JobQueued
  BY <1>6 DEF JobQueued, QueuesRunning, SameKeys, Published
<1>7. CASE Still \/ JobStarts \/ PdfStarts \/ SvgStarts \/ Retries
  BY <1>7 DEF Still, JobStarts, PdfStarts, SvgStarts, Retries, SameKeys, Published
<1> QED
  BY <1>1, <1>2, <1>3, <1>4, <1>5, <1>6, <1>7 DEF Turns

LEMMA UnmadeStep ==
  ASSUME Inv, Next
  PROVE  Unmade'
<1>1. Turns /\ TypeOK /\ Unmade
  BY TurnChange DEF Inv, Turned
<1>2. CASE \E w \in Worker : PdfCommits(w) \/ SvgCommits(w)
  BY <1>1, <1>2, PdfCommitted, SvgCommitted DEF Unmade
<1>3. CASE Still \/ Makes \/ JobEnds \/ JobQueued \/ JobStarts \/ PdfStarts \/ SvgStarts \/ Retries
  BY <1>1, <1>3 DEF Unmade, Still, Makes, JobEnds, EndsOpen, JobQueued, QueuesRunning, JobStarts,
     PdfStarts, SvgStarts, Retries, SameKeys, Published
<1> QED
  BY <1>1, <1>2, <1>3 DEF Turns

LEMMA PdfFirstStep ==
  ASSUME Inv, Next
  PROVE  PdfFirst'
<1> SUFFICES ASSUME NEW w \in Worker
             PROVE  /\ proc'[w].pc = "prepared" => stages'.made
                    /\ proc'[w].pc \in AfterPdf => stages'.pdf = "succeeded"
  BY DEF PdfFirst, AfterPdf
<1>1. Moves(w)
  BY ProcChange DEF Inv
<1>2. /\ proc[w].pc = "prepared" => stages'.made
      /\ proc[w].pc \in AfterPdf => stages'.pdf = "succeeded"
  BY StagesForward DEF Inv, PdfFirst
<1>3. CASE proc'[w] = proc[w]
  BY <1>2, <1>3
<1>4. CASE proc'[w] = IdleProcess \/ proc'[w].pc = "claimed"
  BY <1>4, IdleTyped DEF AfterPdf
<1>5. CASE Walks(w)
  BY <1>2, <1>5 DEF Walks, From, AfterPdf
<1> QED
  BY <1>1, <1>3, <1>4, <1>5 DEF Moves

LEMMA NoPdfYetStep ==
  ASSUME Inv, Next
  PROVE  NoPdfYet'
<1> SUFFICES ASSUME NEW w \in Worker, proc'[w].pc \in Working, Owns(w)', stages'.pdf = "succeeded"
             PROVE  FALSE
  BY DEF NoPdfYet, Working
<1>1. Owns(w)
  BY OwnsBefore DEF Working
<1>2. Moves(w)
  BY ProcChange DEF Inv
<1>3. ASSUME stages.pdf # "succeeded" PROVE FALSE
  <2>1. PICK v \in Worker : PdfCommits(v)
    BY <1>3, StagesForward
  <2>2. Owns(v) /\ proc'[v].pc = "verify"
    BY <2>1, PdfCommitted, CommitSet DEF From, Inv
  <2>3. v = w
    BY <1>1, <2>2, OneOwns
  <2> QED
    BY <2>2, <2>3 DEF Working
<1>4. proc[w].pc \notin Working
  BY <1>1, <1>3 DEF Inv, NoPdfYet
<1>5. ~(proc'[w].pc = "pdf" /\ stages'.pdf = "running")
  OBVIOUS
<1>6. Walks(w)
  BY <1>2, <1>4, IdleTyped DEF Moves, Working
<1>7. From(w, "failing", "fail_staging") /\ ~Published /\ stages' = stages
  BY <1>4, <1>6 DEF Walks, From, Working
<1>8. ~stages.made => stages.pdf = "queued"
  BY DEF Inv, Unmade
<1> QED
  BY <1>7, <1>8 DEF Published

\* What is published, and what its owner is about to publish, is not removed.
LEMMA NotRemoved ==
  ASSUME Inv, NEW n
  PROVE  /\ Published /\ n = stages.pdfGen => ~Removed(n)
         /\ rows.svg # 0 /\ n = rows.svg => ~Removed(n)
         /\ \A w \in Worker : /\ Owns(w) /\ proc[w].pc \in {"pdf_renamed", "svg_renamed"}
                            /\ n \in {PdfAt(w), SvgAt(w)}
                              => ~Removed(n)
<1>1. ASSUME Published, n = stages.pdfGen, Removed(n) PROVE FALSE
  <2>1. n \in References
    BY <1>1 DEF References, Inv, MineApart
  <2> QED
    BY <1>1, <2>1 DEF Removed, Inv, MineApart, FailApart, Keeps
<1>2. ASSUME rows.svg # 0, n = rows.svg, Removed(n) PROVE FALSE
  <2>1. n \in References
    BY <1>2 DEF References
  <2> QED
    BY <1>2, <2>1 DEF Removed, Inv, MineApart, FailApart, Keeps
<1>3. ASSUME NEW w \in Worker, Owns(w), proc[w].pc \in {"pdf_renamed", "svg_renamed"},
             n \in {PdfAt(w), SvgAt(w)}, Removed(n)
      PROVE  FALSE
  <2>1. PICK v \in Worker :
               \/ proc[v].pc = "final" /\ n \in proc[v].mine
               \/ proc[v].pc = "fail_renamed" /\ n = proc[v].gen
               \/ Claiming(v)
    BY <1>3 DEF Removed
  <2>2. proc[w].pc # "idle" /\ proc[w].gen >= 1
    BY <1>3 DEF Inv, Numbered
  <2>3. ~(proc[v].pc = "final" /\ n \in proc[v].mine)
    BY <1>3, <2>2, NamesApart
  <2>4. n # proc[v].gen
    BY <1>3, <2>2, OwnerNewest
  <2> QED
    BY <1>3, <2>1, <2>3, <2>4, NeverBoth
<1> QED
  BY <1>1, <1>2, <1>3

LEMMA PlacedStep ==
  ASSUME Inv, Next
  PROVE  Placed'
<1> SUFFICES ASSUME NEW w \in Worker, Owns(w)'
             PROVE  /\ proc'[w].pc = "pdf_renamed" => \E d \in outputs' : d.at = PdfAt(w)' /\ d.kind = "pdf"
                    /\ proc'[w].pc = "svg_renamed" => \E d \in outputs' : d.at = SvgAt(w)' /\ d.kind = "svg"
  BY DEF Placed
<1>1. Moves(w) /\ Filed
  BY ProcChange, FilesChange DEF Inv
<1>2. CASE proc'[w].pc \in {"pdf_renamed", "svg_renamed"}
  <2>1. Owns(w) /\ PdfAt(w)' = PdfAt(w) /\ SvgAt(w)' = SvgAt(w)
    BY <1>2, OwnsBefore DEF PdfAt, SvgAt
  <2>2. CASE proc'[w] = proc[w]
    <3>1. /\ proc[w].pc = "pdf_renamed" => \E d \in outputs : d.at = PdfAt(w) /\ d.kind = "pdf"
          /\ proc[w].pc = "svg_renamed" => \E d \in outputs : d.at = SvgAt(w) /\ d.kind = "svg"
      BY <2>1 DEF Inv, Placed
    <3>2. \A d \in outputs : d.at \in {PdfAt(w), SvgAt(w)} => d \in outputs'
      BY <1>1, <1>2, <2>1, <2>2, NotRemoved DEF Filed
    <3> QED
      BY <1>2, <2>1, <2>2, <3>1, <3>2
  <2>3. CASE proc'[w] # proc[w]
    <3>1. Walks(w)
      BY <1>1, <1>2, <2>3, IdleTyped DEF Moves
    <3>2. \/ From(w, "pdf_renewed", "pdf_renamed") /\ Renames(w, PdfAt(w), "pdf")
          \/ From(w, "svg_renewed", "svg_renamed") /\ Renames(w, SvgAt(w), "svg")
      BY <1>2, <3>1 DEF Walks, From
    <3>3. \A n, kind : NewDir(w, n, kind) => \E d \in outputs' : d.at = n /\ d.kind = kind
      <4>1. \A n, kind : LET d == [at |-> n, kind |-> kind, gen |-> proc[w].gen]
                        IN  d.at = n /\ d.kind = kind
        OBVIOUS
      <4> QED
        BY <4>1 DEF NewDir
    <3> QED
      BY <2>1, <3>2, <3>3 DEF Renames, From
  <2> QED
    BY <2>2, <2>3
<1> QED
  BY <1>2

\* What is published is there.
LEMMA PublishedThere ==
  ASSUME Inv
  PROVE  /\ Published => Present(stages.pdfGen)
         /\ rows.svg # 0 => Present(rows.svg)
BY DEF Inv, OutputsMatchRows, Present

LEMMA MineApartStep ==
  ASSUME Inv, Next
  PROVE  MineApart'
<1>1. Filed /\ TypeOK
  BY FilesChange DEF Inv
<1>2. MineApart
  BY DEF Inv
<1>3. Published' => stages'.pdfGen # 0
  <2>1. CASE Published
    BY <1>2, <2>1, StagesForward DEF MineApart, Published
  <2>2. CASE ~Published /\ Published'
    <3>1. PICK v \in Worker : PdfCommits(v)
      BY <2>2, StagesForward
    <3>2. Owns(v) /\ proc[v].pc # "idle" /\ stages'.pdfGen = PdfAt(v)
      BY <1>1, <3>1, PdfCommitted
    <3> QED
      BY <3>2, OwnerNewest
  <2> QED
    BY <2>1, <2>2
<1>4. ASSUME NEW w \in Worker
      PROVE  \/ proc'[w].mine \subseteq proc[w].mine
             \/ \E n \in {PdfAt(w), SvgAt(w)} :
                   ~Present(n) /\ proc[w].pc # "idle" /\ proc'[w].mine = proc[w].mine \cup {n}
  <2>1. Moves(w)
    BY ProcChange DEF Inv
  <2>2. CASE proc'[w] = IdleProcess
    BY <2>2, IdleTyped
  <2>3. CASE proc[w].pc # "idle" /\ Walks(w)
    BY <2>3 DEF Walks, Kept, Renames, NewDir
  <2> QED
    BY <2>1, <2>2, <2>3 DEF Moves
<1>5. ASSUME NEW w \in Worker, NEW n, n \notin proc[w].mine, n = 0 \/ Present(n)
      PROVE  n \notin proc'[w].mine
  <2>1. CASE proc'[w].mine \subseteq proc[w].mine
    BY <1>5, <2>1
  <2>2. ASSUME NEW m \in {PdfAt(w), SvgAt(w)}, ~Present(m), proc[w].pc # "idle",
               proc'[w].mine = proc[w].mine \cup {m}
        PROVE  n \notin proc'[w].mine
    <3>1. m # 0
      <4>1. proc[w].gen >= 1
        BY <2>2 DEF Inv, Numbered
      <4>2. m \in {proc[w].gen * 2, proc[w].gen * 2 + 1} /\ proc[w].gen \in Nat
        BY <1>1, <2>2, Typed
      <4> QED
        BY <4>1, <4>2
    <3> QED
      BY <1>5, <2>2, <3>1
  <2> QED
    BY <1>4, <2>1, <2>2
<1>6. ASSUME NEW w \in Worker, NEW v \in Worker, PdfCommits(v) \/ SvgCommits(v), v # w
      PROVE  PdfAt(v) \notin proc'[w].mine /\ SvgAt(v) \notin proc'[w].mine
  <2>1. proc'[w] = proc[w] /\ proc[v].pc # "idle"
    BY <1>1, <1>6, CommitSet DEF OnlyMoves, From
  <2>2. proc[v].gen >= 1
    BY <2>1 DEF Inv, Numbered
  <2> QED
    BY <1>6, <2>1, <2>2, NamesApart
<1>7. ASSUME NEW w \in Worker, Published' PROVE stages'.pdfGen \notin proc'[w].mine
  <2>1. CASE Published
    <3>1. stages'.pdfGen = stages.pdfGen /\ stages.pdfGen \notin proc[w].mine
      BY <1>2, <2>1, StagesForward DEF MineApart, Published
    <3> QED
      BY <1>5, <2>1, <3>1, PublishedThere
  <2>2. CASE ~Published
    <3>1. PICK v \in Worker : PdfCommits(v)
      BY <1>7, <2>2, StagesForward
    <3>2. stages'.pdfGen = PdfAt(v) /\ PdfAt(v) \notin proc'[v].mine
      BY <1>1, <3>1, PdfCommitted, CommitSet
    <3> QED
      BY <1>6, <3>1, <3>2
  <2> QED
    BY <2>1, <2>2
<1>8. ASSUME NEW w \in Worker PROVE rows'.svg \notin proc'[w].mine
  <2>1. CASE rows'.svg = rows.svg
    BY <1>2, <1>5, <2>1, PublishedThere DEF MineApart
  <2>2. CASE rows'.svg # rows.svg
    <3>1. PICK v \in Worker : SvgCommits(v)
      BY <1>1, <2>2 DEF Filed
    <3>2. rows'.svg = SvgAt(v) /\ SvgAt(v) \notin proc'[v].mine
      BY <1>1, <3>1, SvgCommitted, CommitSet
    <3> QED
      BY <1>6, <3>1, <3>2
  <2> QED
    BY <2>1, <2>2
<1> QED
  BY <1>3, <1>7, <1>8 DEF MineApart

LEMMA FailApartStep ==
  ASSUME Inv, Next
  PROVE  FailApart'
<1> SUFFICES ASSUME NEW w \in Worker, proc'[w].pc = "fail_renamed"
             PROVE  /\ Published' => stages'.pdfGen # proc'[w].gen
                    /\ rows'.svg # proc'[w].gen
  BY DEF FailApart
<1>1. Filed /\ TypeOK /\ Moves(w)
  BY FilesChange, ProcChange DEF Inv
<1>2. /\ proc'[w].gen = proc[w].gen
      /\ \/ proc'[w] = proc[w]
         \/ proc[w].pc = "fail_ready" /\ NewDir(w, proc[w].gen, "diagnostics")
  <2>1. CASE proc'[w] = proc[w]
    BY <2>1
  <2>2. CASE proc'[w].gen = proc[w].gen /\ Walks(w)
    BY <2>2 DEF Walks, From
  <2> QED
    BY <1>1, <2>1, <2>2, IdleTyped DEF Moves
<1>3. /\ Published => stages.pdfGen # proc[w].gen
      /\ rows.svg # proc[w].gen
  <2>1. CASE proc'[w] = proc[w]
    BY <2>1 DEF Inv, FailApart
  <2>2. CASE proc[w].pc = "fail_ready" /\ NewDir(w, proc[w].gen, "diagnostics")
    <3>1. ~Present(proc[w].gen)
      BY <2>2 DEF NewDir
    <3>2. proc[w].gen # 0
      BY <2>2, Typed DEF Inv, Numbered
    <3> QED
      BY <3>1, <3>2, PublishedThere
  <2> QED
    BY <1>2, <2>1, <2>2
<1>4. ASSUME Published' PROVE stages'.pdfGen # proc[w].gen
  <2>1. CASE Published
    BY <1>3, <2>1, StagesForward DEF Published
  <2>2. CASE ~Published
    <3>1. PICK v \in Worker : PdfCommits(v)
      BY <1>4, <2>2, StagesForward
    <3>2. Owns(v) /\ proc[v].pc # "idle" /\ stages'.pdfGen = PdfAt(v)
      BY <1>1, <3>1, PdfCommitted
    <3> QED
      BY <3>2, OwnerNewest
  <2> QED
    BY <2>1, <2>2
<1>5. rows'.svg # proc[w].gen
  <2>1. CASE rows'.svg = rows.svg
    BY <1>3, <2>1
  <2>2. CASE rows'.svg # rows.svg
    <3>1. PICK v \in Worker : SvgCommits(v)
      BY <1>1, <2>2 DEF Filed
    <3>2. Owns(v) /\ proc[v].pc # "idle" /\ rows'.svg = SvgAt(v)
      BY <1>1, <3>1, SvgCommitted
    <3> QED
      BY <3>2, OwnerNewest
  <2> QED
    BY <2>1, <2>2
<1> QED
  BY <1>2, <1>4, <1>5

LEMMA KeepsStep ==
  ASSUME Inv, Next
  PROVE  Keeps'
<1> SUFFICES ASSUME NEW v \in Worker, rec'[v].pc \in {"prune_pdf", "prune_svg"}, Claiming(v)'
             PROVE  References' \subseteq rec'[v].keep
  BY DEF Keeps
<1>1. Filed /\ Turned /\ RecMoves(v) /\ TypeOK
  BY FilesChange, TurnChange, RecChange DEF Inv
<1>2. CASE rec'[v].keep = References /\ rows' = rows /\ stages' = stages
  BY <1>2 DEF References
<1>3. CASE /\ rec[v].pc \in {"prune_pdf", "prune_svg"}
           /\ rec'[v].gen = rec[v].gen /\ rec'[v].keep = rec[v].keep
  <2>1. job'.owner = Recoverer(v) /\ job'.gen = rec[v].gen
    BY <1>3 DEF Claiming, Owned
  <2>2. ~RecClaim(v)
    BY <1>3 DEF RecClaim, RecAt
  <2>3. SameOwner
    <3>1. Recoverer(v) # NoOwner /\ \A w \in Worker : Lease(w) # Recoverer(v)
      BY Owners
    <3>2. \A w \in Worker : Recoverer(w) = Recoverer(v) => w = v
      BY Owners
    <3> QED
      BY <1>1, <2>1, <2>2, <3>1, <3>2 DEF Turned, OwnerGoes
  <2>4. Claiming(v)
    BY <2>1, <2>3 DEF SameOwner, Claiming, Owned
  <2>5. References \subseteq rec[v].keep
    BY <1>3, <2>4 DEF Inv, Keeps
  <2>6. rows'.main = rows.main
    BY <1>1, <2>4, NeverBoth DEF Filed
  <2>7. ~\E w \in Worker : PdfCommits(w) \/ SvgCommits(w)
    BY <1>1, <2>4, NeverBoth, PdfCommitted, SvgCommitted
  <2>8. rows'.svg = rows.svg
    BY <1>1, <2>7 DEF Filed
  <2>9. stages'.pdfGen = stages.pdfGen /\ stages'.svgGen \in {0, stages.svgGen}
    BY <1>1, <2>7 DEF Turned, Turns, Still, Makes, JobEnds, EndsOpen, JobQueued, QueuesRunning,
       JobStarts, PdfStarts, SvgStarts, Retries, SameKeys
  <2> QED
    BY <1>3, <2>5, <2>6, <2>8, <2>9 DEF References
<1> QED
  BY <1>1, <1>2, <1>3 DEF RecMoves

LEMMA OutputsMatchRowsStep ==
  ASSUME Inv, Next
  PROVE  OutputsMatchRows'
<1>1. Filed /\ Turns /\ TypeOK /\ OutputsMatchRows
  BY FilesChange, TurnChange DEF Inv, Turned
<1>2. ASSUME NEW n, NEW kind, \E d \in outputs : d.at = n /\ d.kind = kind, ~Removed(n)
      PROVE  \E d \in outputs' : d.at = n /\ d.kind = kind
  BY <1>1, <1>2 DEF Filed
<1>3. ASSUME Published'
      PROVE  rows'.main = stages'.pdfGen /\ \E d \in outputs' : d.at = rows'.main /\ d.kind = "pdf"
  <2>1. CASE Published
    <3>1. rows.main = stages.pdfGen /\ \E d \in outputs : d.at = rows.main /\ d.kind = "pdf"
      BY <1>1, <2>1 DEF OutputsMatchRows
    <3>2. rows'.main = rows.main /\ stages'.pdfGen = stages.pdfGen
      BY <1>1, <2>1, StagesForward DEF Filed, Published, Inv, NoPdfYet
    <3>3. ~Removed(rows.main)
      BY <2>1, <3>1, NotRemoved
    <3> QED
      BY <1>2, <3>1, <3>2, <3>3
  <2>2. CASE ~Published
    <3>1. PICK v \in Worker : PdfCommits(v)
      BY <1>3, <2>2, StagesForward
    <3>2. /\ rows'.main = PdfAt(v) /\ stages'.pdfGen = PdfAt(v) /\ outputs' = outputs
          /\ Owns(v) /\ proc[v].pc = "pdf_renamed"
      BY <1>1, <3>1, PdfCommitted
    <3> QED
      BY <3>2 DEF Inv, Placed
  <2> QED
    BY <2>1, <2>2
<1>4. ASSUME rows'.svg # 0 PROVE \E d \in outputs' : d.at = rows'.svg /\ d.kind = "svg"
  <2>1. CASE rows'.svg = rows.svg
    <3>1. (\E d \in outputs : d.at = rows.svg /\ d.kind = "svg") /\ ~Removed(rows.svg)
      BY <1>1, <1>4, <2>1, NotRemoved DEF OutputsMatchRows
    <3> QED
      BY <1>2, <2>1, <3>1
  <2>2. CASE rows'.svg # rows.svg
    <3>1. PICK v \in Worker : SvgCommits(v)
      BY <1>1, <2>2 DEF Filed
    <3>2. /\ rows'.svg = SvgAt(v) /\ outputs' = outputs
          /\ Owns(v) /\ proc[v].pc = "svg_renamed"
      BY <1>1, <3>1, SvgCommitted
    <3> QED
      BY <3>2 DEF Inv, Placed
  <2> QED
    BY <2>1, <2>2
<1>5. stages'.svgGen # 0 => rows'.svg = stages'.svgGen
  <2>1. CASE \E v \in Worker : SvgCommits(v)
    BY <1>1, <2>1, SvgCommitted
  <2>2. CASE ~\E v \in Worker : SvgCommits(v)
    <3>1. rows'.svg = rows.svg
      BY <1>1, <2>2 DEF Filed
    <3>2. ASSUME NEW v \in Worker, PdfCommits(v) PROVE stages'.svgGen = stages.svgGen
      BY <1>1, <3>2, PdfCommitted
    <3>3. stages'.svgGen \in {0, stages.svgGen}
      BY <1>1, <2>2, <3>2 DEF Turns, Still, Makes, JobEnds, EndsOpen, JobQueued, QueuesRunning,
         JobStarts, PdfStarts, SvgStarts, Retries, SameKeys
    <3> QED
      BY <1>1, <3>1, <3>3 DEF OutputsMatchRows
  <2> QED
    BY <2>1, <2>2
<1> QED
  BY <1>3, <1>4, <1>5 DEF OutputsMatchRows

LEMMA StagesFollowJobStep ==
  ASSUME Inv, Next
  PROVE  StagesFollowJob'
<1> USE DEF Open
<1>1. TypeOK /\ Unmade /\ StagesFollowJob /\ Turns
  BY TurnChange DEF Inv, Turned
<1>2. /\ "queued" \notin Terminal /\ "validating" \notin Terminal /\ "running" \notin Terminal
      /\ \A s \in Failures : s \notin {"queued", "validating", "succeeded"}
  BY DEF Terminal, Ended, Failures
<1> SUFFICES ASSUME stages'.made
             PROVE  /\ job'.status \in Terminal => stages'.pdf \notin Open /\ stages'.svg \notin Open
                    /\ job'.status \in {"queued", "validating"}
                         => "running" \notin {stages'.pdf, stages'.svg}
                    /\ stages'.svg \in {"running", "succeeded"} => stages'.pdf = "succeeded"
                    /\ job'.status = "succeeded" => stages'.svg = "succeeded"
  BY DEF StagesFollowJob
<1>3. /\ stages.made /\ job.status \in Terminal => stages.pdf \notin Open /\ stages.svg \notin Open
      /\ stages.made /\ job.status \in {"queued", "validating"}
           => "running" \notin {stages.pdf, stages.svg}
      /\ stages.svg \in {"running", "succeeded"} => stages.pdf = "succeeded"
      /\ stages.made /\ job.status = "succeeded" => stages.svg = "succeeded"
      /\ ~stages.made => stages.pdf = "queued" /\ stages.svg = "queued"
  BY <1>1 DEF StagesFollowJob, Unmade
<1>4. CASE Still
  BY <1>3, <1>4 DEF Still
<1>5. CASE Makes
  BY <1>2, <1>3, <1>5 DEF Makes
<1>6. CASE JobEnds
  <2>1. stages.made /\ job'.status \notin {"queued", "validating", "succeeded"}
    BY <1>2, <1>6 DEF JobEnds, EndsOpen, SameKeys
  <2>2. stages'.pdf \notin Open /\ stages'.svg \notin Open
    BY <1>6, <2>1 DEF JobEnds, EndsOpen
  <2>3. stages'.svg = "succeeded" => stages'.pdf = "succeeded"
    BY <1>3, <1>6, <2>1 DEF JobEnds, EndsOpen
  <2> QED
    BY <2>1, <2>2, <2>3
<1>7. CASE JobQueued
  <2>1. stages.made /\ job'.status = "queued"
    BY <1>7 DEF JobQueued, QueuesRunning, SameKeys
  <2>2. "running" \notin {stages'.pdf, stages'.svg}
    BY <1>7, <2>1 DEF JobQueued, QueuesRunning
  <2>3. stages'.svg = "succeeded" => stages'.pdf = "succeeded"
    BY <1>3, <1>7, <2>1 DEF JobQueued, QueuesRunning
  <2> QED
    BY <1>2, <2>1, <2>2, <2>3
<1>8. CASE JobStarts
  BY <1>2, <1>3, <1>8 DEF JobStarts
<1>9. CASE PdfStarts
  BY <1>2, <1>3, <1>9 DEF PdfStarts, SameKeys
<1>10. CASE SvgStarts
  BY <1>2, <1>10 DEF SvgStarts
<1>11. CASE Retries
  BY <1>2, <1>11 DEF Retries, Published
<1>12. CASE \E w \in Worker : PdfCommits(w)
  <2>1. /\ job'.status = "running" /\ stages'.pdf = "succeeded"
    BY <1>1, <1>12, PdfCommitted
  <2> QED
    BY <1>2, <2>1
<1>13. CASE \E w \in Worker : SvgCommits(w)
  <2>1. /\ job'.status = stages'.svg /\ stages'.svg \in {"succeeded", "failed"}
        /\ stages.svg = "running" /\ stages'.pdf = stages.pdf
    BY <1>1, <1>13, SvgCommitted
  <2> QED
    BY <1>3, <2>1
<1> QED
  BY <1>1, <1>4, <1>5, <1>6, <1>7, <1>8, <1>9, <1>10, <1>11, <1>12, <1>13 DEF Turns

LEMMA CountersStep ==
  ASSUME TypeOK, Next
  PROVE  reading' \in BOOLEAN /\ faults' \in 0..MaxFaults /\ cancels' \in 0..MaxCancels
<1> DEFINE Good == reading' \in BOOLEAN /\ faults' \in 0..MaxFaults /\ cancels' \in 0..MaxCancels
<1>0. /\ reading \in BOOLEAN /\ faults \in 0..MaxFaults /\ cancels \in 0..MaxCancels
      /\ MaxFaults \in Nat /\ MaxCancels \in Nat
  BY OutputStagesAssumption DEF TypeOK
<1>1. ASSUME reading' = reading, cancels' = cancels,
             faults' = faults \/ (faults < MaxFaults /\ faults' = faults + 1)
      PROVE  Good
  BY <1>0, <1>1
<1>2. CASE Cancel
  BY <1>0, <1>2 DEF Cancel
<1>3. CASE Download
  BY <1>0, <1>3 DEF Download
<1> HIDE DEF Good
<1>4. ASSUME NEW w \in Worker, Stage(w) PROVE Good
  BY <1>1, <1>4 DEF Stage, Aside, Begin, Run, PdfEnds, PlaceBad, CommitBad, RenewPdf, RenewFor,
     PlacePdf, CommitPdf, StartSvg, SvgEnds, RenewSvg, PlaceSvg, CommitSvg, Final, Last, Fail,
     FailRenew, FailPlace, FailCommit
<1>5. ASSUME NEW w \in Worker, Recover(w) \/ RecClaim(w) \/ RecDefer(w) PROVE Good
  BY <1>1, <1>5 DEF Recover, RecClaim, RecDefer, RecStopped, PrunePdf, PruneSvg, Prune, RecFinish,
     OnlyRec
<1>6. ASSUME NEW w \in Worker, Claim(w) \/ Defer(w) \/ Beat(w) \/ Crash(w) PROVE Good
  BY <1>1, <1>6 DEF Claim, Aside, Defer, Beat, Crash
<1>7. ASSUME RetrySvg \/ Expire PROVE Good
  BY <1>1, <1>7 DEF RetrySvg, Expire
<1> QED
  BY <1>2, <1>3, <1>4, <1>5, <1>6, <1>7 DEF Next, Good

-----------------------------------------------------------------------------
(* The theorems.                                                           *)

LEMMA Initial == Init => Inv
<1> SUFFICES ASSUME Init PROVE Inv
  OBVIOUS
<1>1. \A w \in Worker : proc[w] = IdleProcess /\ rec[w] = IdleRecovery
  BY DEF Init
<1>2. \A w \in Worker : /\ proc[w].pc = "idle" /\ proc[w].gen = 0 /\ proc[w].mine = {}
                      /\ rec[w].pc = "idle"
  <2>1. IdleRecovery.pc = "idle"
    BY DEF IdleRecovery
  <2> QED
    BY <1>1, <2>1, IdleTyped
<1>3. TypeOK
  <2>1. job \in Row
    <3>1. "queued" \in Status
      BY Statuses
    <3> QED
      BY <3>1 DEF Init, QueuedRow, Row
  <2>2. stages \in Stages /\ rows \in [main : Nat, svg : Nat] /\ outputs \subseteq Output
    BY DEF Init, Stages, StageStatus
  <2>3. IdleRecovery \in Recovery
    BY Statuses DEF IdleRecovery, Recovery
  <2>4. proc \in [Worker -> Process] /\ rec \in [Worker -> Recovery]
    <3>1. /\ proc = [w \in Worker |-> IdleProcess] /\ rec = [w \in Worker |-> IdleRecovery]
          /\ IdleProcess \in Process
      BY IdleTyped DEF Init
    <3> QED
      BY <2>3, <3>1
  <2>5. reading \in BOOLEAN /\ faults \in 0..MaxFaults /\ cancels \in 0..MaxCancels
    <3>1. reading = FALSE /\ faults = 0 /\ cancels = 0
      BY DEF Init
    <3>2. MaxFaults \in Nat /\ MaxCancels \in Nat
      BY OutputStagesAssumption
    <3>3. faults \in 0..MaxFaults /\ cancels \in 0..MaxCancels
      BY <3>1, <3>2
    <3>4. reading \in BOOLEAN
      BY <3>1
    <3> QED
      BY <3>3, <3>4
  <2> QED
    BY <2>1, <2>2, <2>4, <2>5 DEF TypeOK
<1>4. /\ job.owner = NoOwner /\ job.gen = 0 /\ ~stages.made
      /\ stages.pdf = "queued" /\ stages.svg = "queued" /\ stages.svgGen = 0
      /\ rows.svg = 0
  BY DEF Init, QueuedRow
<1>5. Numbered /\ Leased /\ Unmade
  BY <1>2, <1>4 DEF Numbered, Leased, Unmade
<1>6. PdfFirst /\ NoPdfYet /\ Placed
  BY <1>2 DEF PdfFirst, AfterPdf, NoPdfYet, Working, Placed
<1>7. MineApart /\ FailApart /\ Keeps
  BY <1>2, <1>4 DEF MineApart, FailApart, Keeps, Published
<1>8. OutputsMatchRows /\ StagesFollowJob
  BY <1>4 DEF OutputsMatchRows, StagesFollowJob, Published
<1> QED
  BY <1>3, <1>5, <1>6, <1>7, <1>8 DEF Inv

LEMMA Inductive == Inv /\ [Next]_vars => Inv'
<1> SUFFICES ASSUME Inv, [Next]_vars PROVE Inv'
  OBVIOUS
<1>1. CASE UNCHANGED vars
  <2> USE <1>1 DEF vars
  <2>1. TypeOK' /\ Leased' /\ Unmade' /\ PdfFirst'
    BY DEF Inv, TypeOK, Leased, Unmade, PdfFirst
  <2>2. Numbered'
    BY DEF Inv, Numbered, PdfAt, SvgAt
  <2>3. NoPdfYet' /\ Placed'
    BY DEF Inv, NoPdfYet, Placed, Owns, PdfAt, SvgAt
  <2>4. MineApart' /\ FailApart'
    BY DEF Inv, MineApart, FailApart, Published
  <2>5. Keeps'
    BY DEF Inv, Keeps, Claiming, References
  <2>6. OutputsMatchRows' /\ StagesFollowJob'
    BY DEF Inv, OutputsMatchRows, StagesFollowJob, Published
  <2> QED
    BY <2>1, <2>2, <2>3, <2>4, <2>5, <2>6 DEF Inv
<1>2. CASE Next
  <2>1. Turned /\ Filed /\ proc' \in [Worker -> Process] /\ rec' \in [Worker -> Recovery]
    BY <1>2, TurnChange, FilesChange, ProcChange, RecChange DEF Inv
  <2>2. TypeOK'
    BY <1>2, <2>1, CountersStep DEF Inv, TypeOK, Turned, Filed
  <2>3. Leased'
    BY <2>1 DEF Turned, Leased
  <2> QED
    BY <1>2, <2>2, <2>3, NumberedStep, UnmadeStep, PdfFirstStep, NoPdfYetStep, PlacedStep,
       MineApartStep, FailApartStep, KeepsStep, OutputsMatchRowsStep, StagesFollowJobStep DEF Inv
<1> QED
  BY <1>1, <1>2

LEMMA Invariance == Spec => []Inv
BY Initial, Inductive, PTL DEF Spec

\* Every variable keeps its type: the row and the stages of the job, the
\* directories, and where each attempt and each recovery pass is.
THEOREM TypeCorrect == Spec => []TypeOK
<1>1. Inv => TypeOK
  BY DEF Inv
<1> QED
  BY <1>1, Invariance, PTL

\* What the rows and the checkpoint publish is on disk, and is the PDF, or the
\* pages, they say: for any number of workers, faults and cancellations
\* (staged-job-processor.ts, failure.ts, pruneRecoveredStageAttempt).
THEOREM PublishedIsOnDisk == Spec => []OutputsMatchRows
<1>1. Inv => OutputsMatchRows
  BY DEF Inv
<1> QED
  BY <1>1, Invariance, PTL

\* The stages follow the job through every statement that sets its status (the
\* triggers of schema v21).
THEOREM StagesAlwaysFollow == Spec => []StagesFollowJob
<1>1. Inv => StagesFollowJob
  BY DEF Inv
<1> QED
  BY <1>1, Invariance, PTL

\* No step changes a published PDF, or removes a directory that holds it: not a
\* failure, a lost lease, a retry or a recovery.
THEOREM PdfNeverChanges == Spec => PdfImmutable
<1> DEFINE Step == Published => /\ Published' /\ stages'.pdfGen = stages.pdfGen
                                /\ rows'.main = rows.main
                                /\ \A d \in outputs : d.at = stages.pdfGen => d \in outputs'
<1>1. Inv /\ [Next]_vars => [Step]_vars
  <2> SUFFICES ASSUME Inv, Next, Published
               PROVE  /\ Published' /\ stages'.pdfGen = stages.pdfGen
                      /\ rows'.main = rows.main
                      /\ \A d \in outputs : d.at = stages.pdfGen => d \in outputs'
    OBVIOUS
  <2>1. Published' /\ stages'.pdfGen = stages.pdfGen
    BY StagesForward DEF Published
  <2>2. Filed
    BY FilesChange DEF Inv
  <2>3. rows'.main = rows.main
    BY <2>2 DEF Filed, Inv, NoPdfYet, Published
  <2>4. \A d \in outputs : d.at = stages.pdfGen => d \in outputs'
    BY <2>2, NotRemoved DEF Filed
  <2> QED
    BY <2>1, <2>3, <2>4
<1>2. Spec => [][Step]_vars
  BY <1>1, Invariance, PTL DEF Spec
<1> QED
  BY <1>2 DEF PdfImmutable

=============================================================================
