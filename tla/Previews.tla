------------------------------ MODULE Previews ------------------------------
(***************************************************************************)
(* Preview pages of one published PDF, converted on request                *)
(* (apps/renderer-worker/src/preview-processor.ts,                         *)
(* packages/database/src/repositories/previews.ts), beside an ordinary job *)
(* that wants the same host and the cleanup that deletes the PDF's job.    *)
(*                                                                         *)
(* A conversion is known by its page and attempt: its storage generation,  *)
(* 2^40 + 4 * sequence + attempt, and its container are named after them.  *)
(* A process has an identity of its own that no later process has.         *)
(***************************************************************************)
EXTENDS Naturals, FiniteSets

CONSTANTS Worker, Page, NoOwner, NoPage,
          MaxAttempts,  \* 3 in the code
          QueueLimit,   \* 32, or 8 for one user
          MaxFaults     \* bound: crashes, stalls, failed removals and Docker outages

Owner == [worker : Worker, recovering : BOOLEAN]   \* of a request's lease

ASSUME PreviewsAssumption == /\ NoOwner \notin Worker \cup Owner /\ NoPage \notin Page
                             /\ {MaxAttempts, QueueLimit, MaxFaults} \subseteq Nat

VARIABLES pdf,         \* the row of the job that owns the PDF
          requests,    \* job_preview_requests
          rows,        \* artifact rows of previews
          outputs,     \* outputs/<generation>
          works,       \* preview-attempts/<generation>
          containers,  \* preview containers the daemon runs
          leases,      \* processes whose download lease on the PDF is live
          proc,        \* where each process is
          render,      \* the ordinary job, and its container
          cleaner,     \* where the cleanup is with the PDF's job
          faults,
          overlap      \* may a process start while another one is alive?

vars == <<pdf, requests, rows, outputs, works, containers, leases, proc, render, cleaner,
          faults>>

Attempts   == 0..MaxAttempts
Conversion == [page : Page, attempt : Attempts]
Request    == [status : {"none", "queued", "running", "succeeded", "failed"},
               attempt : Attempts, reserved : BOOLEAN,
               owner : Owner \cup {NoOwner}, expired : BOOLEAN]
Places     == {"off", "idle", "claimed", "reserved", "ready", "rendering", "rendered",
               "checked", "renamed", "tidied", "final", "finish", "stop", "prune", "give_up",
               "job", "dead"}
Process    == [pc : Places, page : Page \cup {NoPage}, attempt : Attempts, failed : BOOLEAN]

NoRequest == [status |-> "none", attempt |-> 0, reserved |-> FALSE, owner |-> NoOwner,
              expired |-> FALSE]
At(w, pc) == proc[w].pc = pc
Resting(pc) == [pc |-> pc, page |-> NoPage, attempt |-> 0, failed |-> FALSE]

Init == /\ pdf = "ready" /\ cleaner = "idle"
        /\ requests = [p \in Page |-> NoRequest]
        /\ rows = {} /\ outputs = {} /\ works = {} /\ containers = {} /\ leases = {}
        /\ proc = [w \in Worker |-> Resting("off")]
        /\ render = [status |-> "none", owner |-> NoOwner, container |-> FALSE]
        /\ faults = 0 /\ overlap \in BOOLEAN

Running(p) == requests[p].status = "running"
Waiting(p) == requests[p].status \in {"queued", "running"}
Of(w)      == [page |-> proc[w].page, attempt |-> proc[w].attempt]
Me(w)      == [worker |-> w, recovering |-> FALSE]
Rescue(w)  == [worker |-> w, recovering |-> TRUE]
Fault      == faults < MaxFaults /\ faults' = faults + 1

\* owns: the request is running under this owner and attempt.
Owns(p, owner, attempt) == /\ p # NoPage /\ Running(p)
                           /\ requests[p].owner = owner /\ requests[p].attempt = attempt

\* verifiedPdf: the PDF is published and its job is not being deleted.
VerifiedPdf == pdf = "ready"

\* lifecycle.owns
OwnsLifecycle(w) == /\ Owns(proc[w].page, Me(w), proc[w].attempt)
                    /\ ~requests[proc[w].page].expired
                    /\ w \in leases /\ VerifiedPdf

Goto(w, pc) == proc' = [proc EXCEPT ![w].pc = pc]
Rest(w)     == proc' = [proc EXCEPT ![w] = Resting("idle")]
Fail(w)     == proc' = [proc EXCEPT ![w].pc = "final", ![w].failed = TRUE]

Disk     == <<outputs, works, containers>>
Database == <<pdf, requests, rows, leases>>
Others   == <<render, cleaner>>

-----------------------------------------------------------------------------
(* Requests and claims.                                                    *)

\* request: a failed page may be asked for again, up to three attempts.
CanRequest_Again(p) ==
    /\ VerifiedPdf
    /\ \/ requests[p].status = "none"
       \/ requests[p].status = "failed" /\ requests[p].attempt <= MaxAttempts
    /\ Cardinality({q \in Page : Waiting(q)}) < QueueLimit
CanRequest(p) ==
    /\ VerifiedPdf
    /\ \/ requests[p].status = "none"
       \/ requests[p].status = "failed" /\ requests[p].attempt < MaxAttempts
    /\ Cardinality({q \in Page : Waiting(q)}) < QueueLimit
AskFor(p) ==
    /\ CanRequest(p)
    /\ requests' = [requests EXCEPT ![p].status = "queued"]
    /\ UNCHANGED <<pdf, rows, leases, proc, faults>> /\ UNCHANGED Disk /\ UNCHANGED Others

\* busy: expired work blocks until recovery has asked the daemon.
Busy == (\E p \in Page : Running(p)) \/ render.status = "active"

Claim(w, p) ==
    /\ At(w, "idle") /\ ~Busy
    /\ requests[p].status = "queued" /\ requests[p].attempt < MaxAttempts
    /\ requests' = [requests EXCEPT ![p].status = "running", ![p].attempt = @ + 1,
                                    ![p].owner = Me(w), ![p].expired = FALSE]
    /\ proc' = [proc EXCEPT ![w] = [pc |-> "claimed", page |-> p, failed |-> FALSE,
                                    attempt |-> requests[p].attempt + 1]]
    /\ UNCHANGED <<pdf, rows, leases, faults>> /\ UNCHANGED Disk /\ UNCHANGED Others

-----------------------------------------------------------------------------
(* processPreview.                                                         *)

\* One transaction: verifiedPdf, owns, the quota, the reservation, the lease.
CanReserve(w) == VerifiedPdf /\ Owns(proc[w].page, Me(w), proc[w].attempt)
Reserve(w) ==
    /\ At(w, "claimed")
    /\ \/ /\ CanReserve(w)
          /\ requests' = [requests EXCEPT ![proc[w].page].reserved = TRUE]
          /\ leases' = leases \cup {w}
          /\ Goto(w, "reserved")
       \/ Fail(w) /\ UNCHANGED <<requests, leases>>   \* or no room in the quota
    /\ UNCHANGED <<pdf, rows, faults>> /\ UNCHANGED Disk /\ UNCHANGED Others

\* The disk has room, the PDF is what it was; the work directories are made.
Prepare(w) ==
    /\ At(w, "reserved")
    /\ \/ Fail(w) /\ UNCHANGED works
       \/ /\ works' = works \cup {Of(w)}
          /\ IF OwnsLifecycle(w) THEN Goto(w, "ready") ELSE Fail(w)
    /\ UNCHANGED <<outputs, containers, faults>> /\ UNCHANGED Database /\ UNCHANGED Others

StartContainer(w) ==
    /\ At(w, "ready")
    /\ containers' = containers \cup {Of(w)}
    /\ Goto(w, "rendering")
    /\ UNCHANGED <<outputs, works, faults>> /\ UNCHANGED Database /\ UNCHANGED Others

ContainerEnds(c) ==
    /\ c \in containers
    /\ containers' = containers \ {c}
    /\ UNCHANGED <<outputs, works, proc, faults>> /\ UNCHANGED Database /\ UNCHANGED Others

\* The CLI reports its end, or it is stopped: monitor, timeout, unclean exit.
RenderEnds(w) ==
    /\ At(w, "rendering")
    /\ containers' = containers \ {Of(w)}
    /\ \/ Fail(w)
       \/ Of(w) \notin containers /\ (IF OwnsLifecycle(w) THEN Goto(w, "rendered") ELSE Fail(w))
    /\ UNCHANGED <<outputs, works, faults>> /\ UNCHANGED Database /\ UNCHANGED Others

\* RendererCleanupDeferred: the daemon does not answer; nothing is cleaned up.
RenderDeferred(w) ==
    /\ At(w, "rendering") /\ Fault
    /\ leases' = leases \ {w}
    /\ Rest(w)
    /\ UNCHANGED <<pdf, requests, rows>> /\ UNCHANGED Disk /\ UNCHANGED Others

\* The image is validated and copied; then ownership is checked before the rename.
Check(w) ==
    /\ At(w, "rendered")
    /\ \/ Fail(w)
       \/ OwnsLifecycle(w) /\ Goto(w, "checked")
    /\ UNCHANGED faults /\ UNCHANGED Disk /\ UNCHANGED Database /\ UNCHANGED Others

\* The candidate is renamed out of the work directory, if that is still there.
Publish(w) ==
    /\ At(w, "checked")
    /\ IF Of(w) \in works THEN outputs' = outputs \cup {Of(w)} /\ Goto(w, "renamed")
                          ELSE outputs' = outputs /\ Fail(w)
    /\ UNCHANGED <<works, containers, faults>> /\ UNCHANGED Database /\ UNCHANGED Others

\* cleanup(onlyWork), before the commit.
Tidy(w) ==
    /\ At(w, "renamed")
    /\ IF Of(w) \in works /\ ~OwnsLifecycle(w)
         THEN Fail(w) /\ works' = works
         ELSE works' = works \ {Of(w)} /\ Goto(w, "tidied")
    /\ UNCHANGED <<outputs, containers, faults>> /\ UNCHANGED Database /\ UNCHANGED Others

\* finish, the artifact row and the charge, in one transaction.
CanCommit(w) == OwnsLifecycle(w)
Commit(w) ==
    /\ At(w, "tidied")
    /\ IF CanCommit(w)
         THEN /\ requests' = [requests EXCEPT ![proc[w].page].status = "succeeded",
                                ![proc[w].page].reserved = FALSE,
                                ![proc[w].page].owner = NoOwner]
              /\ rows' = rows \cup {Of(w)}
              /\ Goto(w, "final")
         ELSE Fail(w) /\ UNCHANGED <<requests, rows>>
    /\ UNCHANGED <<pdf, leases, faults>> /\ UNCHANGED Disk /\ UNCHANGED Others

\* finally: cleanup of the work and of what no row names, under the request's fence.
Unreferenced_All(w) == {Of(w)}
Unreferenced_Never(w) == {}
Unreferenced(w) == {Of(w)} \ rows
MayCleanUp(w) == \/ Owns(proc[w].page, Me(w), proc[w].attempt)
                 \/ requests[proc[w].page].status = "succeeded"
Leftover(w) == Of(w) \in works \/ Unreferenced(w) \cap outputs # {}

Final(w) ==
    /\ At(w, "final") /\ (Leftover(w) => MayCleanUp(w))
    /\ works' = works \ {Of(w)}
    /\ outputs' = outputs \ Unreferenced(w)
    /\ IF proc[w].failed THEN Goto(w, "finish") /\ leases' = leases
                         ELSE Rest(w) /\ leases' = leases \ {w}
    /\ UNCHANGED <<pdf, requests, rows, containers, faults>> /\ UNCHANGED Others

\* Ownership was lost, or the removal fails: the request is left to recovery.
FinalDeferred(w) ==
    /\ At(w, "final")
    /\ IF Leftover(w) /\ ~MayCleanUp(w) THEN faults' = faults ELSE Fault
    /\ leases' = leases \ {w}
    /\ Rest(w)
    /\ UNCHANGED <<pdf, requests, rows>> /\ UNCHANGED Disk /\ UNCHANGED Others

Finished(p) == [requests EXCEPT ![p].status = "failed", ![p].reserved = FALSE,
                                ![p].owner = NoOwner, ![p].expired = FALSE]
FinishFailed(w) ==
    /\ At(w, "finish")
    /\ requests' = IF Owns(proc[w].page, Me(w), proc[w].attempt)
                     THEN Finished(proc[w].page) ELSE requests
    /\ leases' = leases \ {w}
    /\ Rest(w)
    /\ UNCHANGED <<pdf, rows, faults>> /\ UNCHANGED Disk /\ UNCHANGED Others

-----------------------------------------------------------------------------
(* recoverPreviewRequests, in the loop of a process that does nothing else. *)

RecClaim(w, p) ==
    /\ At(w, "idle") /\ Running(p) /\ requests[p].expired
    /\ requests' = [requests EXCEPT ![p].owner = Rescue(w), ![p].expired = FALSE]
    /\ proc' = [proc EXCEPT ![w] = [pc |-> "stop", page |-> p, failed |-> FALSE,
                                    attempt |-> requests[p].attempt]]
    /\ UNCHANGED <<pdf, rows, leases, faults>> /\ UNCHANGED Disk /\ UNCHANGED Others

\* dockerStopVerified
RecStop(w) ==
    /\ At(w, "stop")
    /\ containers' = containers \ {Of(w)}
    /\ Goto(w, "prune")
    /\ UNCHANGED <<outputs, works, faults>> /\ UNCHANGED Database /\ UNCHANGED Others

\* cleanup, whose owner check throws when the claim was taken over.
RecPrune(w) ==
    /\ At(w, "prune")
    /\ IF Leftover(w) /\ ~Owns(proc[w].page, Rescue(w), proc[w].attempt)
         THEN Rest(w) /\ UNCHANGED <<works, outputs>>
         ELSE /\ works' = works \ {Of(w)}
              /\ outputs' = outputs \ Unreferenced(w)
              /\ Goto(w, "give_up")
    /\ UNCHANGED <<containers, faults>> /\ UNCHANGED Database /\ UNCHANGED Others

RecFinish(w) ==
    /\ At(w, "give_up")
    /\ requests' = IF Owns(proc[w].page, Rescue(w), proc[w].attempt)
                     THEN Finished(proc[w].page) ELSE requests
    /\ Rest(w)
    /\ UNCHANGED <<pdf, rows, leases, faults>> /\ UNCHANGED Disk /\ UNCHANGED Others

\* Docker or the disk fails: the reservation and the running state are kept.
RecDeferred(w) ==
    /\ proc[w].pc \in {"stop", "prune"} /\ Fault
    /\ Rest(w)
    /\ UNCHANGED Disk /\ UNCHANGED Database /\ UNCHANGED Others

-----------------------------------------------------------------------------
(* An ordinary job (JobLease has it in full) and the cleanup (JobDeletion). *)

AskForRender ==
    /\ render.status = "none"
    /\ render' = [render EXCEPT !.status = "queued"]
    /\ UNCHANGED <<proc, cleaner, faults>> /\ UNCHANGED Disk /\ UNCHANGED Database

\* claimNext refuses while a preview runs.
CanRender_Expired == \A p \in Page : Running(p) => requests[p].expired
CanRender == \A p \in Page : ~Running(p)
ClaimRender(w) ==
    /\ At(w, "idle") /\ render.status = "queued" /\ CanRender
    /\ render' = [status |-> "active", owner |-> w, container |-> TRUE]
    /\ Goto(w, "job")
    /\ UNCHANGED <<cleaner, faults>> /\ UNCHANGED Disk /\ UNCHANGED Database

EndRender(w) ==
    /\ At(w, "job")
    /\ render' = [render EXCEPT !.status = IF render.owner = w THEN "done" ELSE @,
                                !.container = IF render.owner = w THEN FALSE ELSE @]
    /\ Rest(w)
    /\ UNCHANGED <<cleaner, faults>> /\ UNCHANGED Disk /\ UNCHANGED Database

\* recoverStaleLeases stops the container of a dead process's job.
RecoverRender(w) ==
    /\ At(w, "idle") /\ render.status = "active" /\ At(render.owner, "dead")
    /\ render' = [status |-> "done", owner |-> NoOwner, container |-> FALSE]
    /\ UNCHANGED <<proc, cleaner, faults>> /\ UNCHANGED Disk /\ UNCHANGED Database

\* The job of the PDF is deleted, by its user or by retention.
MarkDeleting ==
    /\ pdf = "ready" /\ pdf' = "deleting"
    /\ UNCHANGED <<requests, rows, leases, proc, faults>> /\ UNCHANGED Disk /\ UNCHANGED Others

\* The claim: no live download lease, no running preview.
CanClean_Leases == leases = {}
CanClean == leases = {} /\ \A p \in Page : ~Running(p)
CleanClaim ==
    /\ pdf = "deleting" /\ cleaner = "idle" /\ CanClean
    /\ cleaner' = "claimed"
    /\ UNCHANGED <<render, proc, faults>> /\ UNCHANGED Disk /\ UNCHANGED Database

CleanRemove ==
    /\ cleaner = "claimed" /\ cleaner' = "removed"
    /\ outputs' = {} /\ works' = {}
    /\ UNCHANGED <<render, containers, proc, faults>> /\ UNCHANGED Database

\* The artifact rows go, and with them, by cascade, document and requests.
CleanFinish ==
    /\ cleaner = "removed" /\ cleaner' = "done"
    /\ pdf' = "deleted" /\ rows' = {}
    /\ requests' = [p \in Page |-> NoRequest]
    /\ UNCHANGED <<render, leases, proc, faults>> /\ UNCHANGED Disk

-----------------------------------------------------------------------------
(* Processes and time.                                                     *)

Alive(w) == proc[w].pc \notin {"off", "dead"}
Start(w) ==
    /\ At(w, "off") /\ (overlap \/ \A v \in Worker : ~Alive(v))
    /\ Rest(w)
    /\ UNCHANGED faults /\ UNCHANGED Disk /\ UNCHANGED Database /\ UNCHANGED Others

\* The last process is spared: systemd would start yet another one.
Crash(w) ==
    /\ Alive(w) /\ Fault /\ (\E v \in Worker \ {w} : proc[v].pc # "dead")
    /\ proc' = [proc EXCEPT ![w] = Resting("dead")]
    /\ UNCHANGED Disk /\ UNCHANGED Database /\ UNCHANGED Others

\* A lease of 120 s that nobody renews runs out, of a living holder by a fault.
Serves(w, p) == /\ proc[w].page = p
                /\ \/ Owns(p, Me(w), proc[w].attempt) \/ Owns(p, Rescue(w), proc[w].attempt)
Expire(p) ==
    /\ Running(p) /\ ~requests[p].expired
    /\ IF \E w \in Worker : Serves(w, p) THEN Fault ELSE faults' = faults
    /\ requests' = [requests EXCEPT ![p].expired = TRUE]
    /\ UNCHANGED <<pdf, rows, leases, proc>> /\ UNCHANGED Disk /\ UNCHANGED Others

\* A download lease is not renewed in time.
LeaseLapses(w) ==
    /\ w \in leases
    /\ IF Alive(w) THEN Fault ELSE faults' = faults
    /\ leases' = leases \ {w}
    /\ UNCHANGED <<pdf, requests, rows, proc>> /\ UNCHANGED Disk /\ UNCHANGED Others

Step(w) == \/ Reserve(w) \/ Prepare(w) \/ StartContainer(w) \/ RenderEnds(w) \/ Check(w)
           \/ Publish(w) \/ Tidy(w) \/ Commit(w) \/ Final(w) \/ FinishFailed(w)
           \/ RecStop(w) \/ RecPrune(w) \/ RecFinish(w) \/ EndRender(w)
           \/ (FinalDeferred(w) /\ faults' = faults)
Upset(w) == RenderDeferred(w) \/ RecDeferred(w) \/ FinalDeferred(w) \/ Crash(w)
Take(w) == \/ \E p \in Page : Claim(w, p) \/ RecClaim(w, p)
           \/ ClaimRender(w) \/ RecoverRender(w)
Cleanup == CleanClaim \/ CleanRemove \/ CleanFinish

Next == \/ \E w \in Worker : Start(w) \/ Take(w) \/ Step(w) \/ Upset(w) \/ LeaseLapses(w)
        \/ \E p \in Page : AskFor(p) \/ Expire(p)
        \/ \E c \in containers : ContainerEnds(c)
        \/ AskForRender \/ MarkDeleting \/ Cleanup

Spec == Init /\ [][Next /\ UNCHANGED overlap]_<<vars, overlap>>

\* systemd starts a worker, whose loop serves previews and jobs in turn; awaits end;
\* a lease nobody serves runs out; the timer starts the cleanup.
Fairness ==
    /\ \A w \in Worker : /\ WF_vars(Start(w)) /\ WF_vars(Step(w))
                          /\ WF_vars(\E p \in Page : Claim(w, p) \/ RecClaim(w, p))
                          /\ WF_vars(RecoverRender(w))
                          /\ WF_vars(~Alive(w) /\ LeaseLapses(w))
    /\ \A p \in Page : WF_vars((\A w \in Worker : ~Serves(w, p)) /\ Expire(p))
    /\ WF_vars(Cleanup)

FairSpec == Spec /\ Fairness

-----------------------------------------------------------------------------
(* Properties.                                                             *)

\* Every variable has its type; a request has an owner, and a reservation, only
\* while it runs.
TypeOK ==
    /\ pdf \in {"ready", "deleting", "deleted"}
    /\ cleaner \in {"idle", "claimed", "removed", "done"}
    /\ requests \in [Page -> Request] /\ proc \in [Worker -> Process]
    /\ rows \cup outputs \cup works \cup containers \subseteq Conversion
    /\ leases \subseteq Worker /\ faults \in 0..MaxFaults /\ overlap \in BOOLEAN
    /\ render \in [status : {"none", "queued", "active", "done"},
                   owner : Worker \cup {NoOwner}, container : BOOLEAN]
    /\ \A p \in Page : /\ Running(p) <=> requests[p].owner # NoOwner
                       /\ requests[p].reserved => Running(p)

\* What previews are listed is on disk, once per page, and the request says so;
\* waitForPreview rejects a page with two images as ambiguous.
PreviewsMatchRows ==
    pdf # "deleted" =>
      /\ cleaner # "removed" => rows \subseteq outputs
      /\ \A p \in Page : /\ requests[p].status = "succeeded" <=> \E c \in rows : c.page = p
                         /\ \A c, d \in rows : c.page = p /\ d.page = p => c = d

\* With one process at a time there is one conversion or one rendering on the host,
\* whoever has died with a lease that has run out ("a lease timeout is not evidence
\* that its container has exited", previews.ts:120).
OneContainer ==
    ~overlap => Cardinality(containers) + (IF render.container THEN 1 ELSE 0) <= 1

\* With one process at a time whatever a conversion has on disk is reserved by its
\* running request or listed as an artifact ("leave no unaccounted duplicate",
\* preview-processor.ts:301).
DiskAccounted ==
    ~overlap /\ cleaner = "idle" =>
      \A c \in works \cup (outputs \ rows) :
         Running(c.page) /\ requests[c.page].reserved /\ requests[c.page].attempt = c.attempt

\* With one process at a time the cleanup never removes the PDF that a container has
\* mounted.
PdfNotPulledAway == ~overlap /\ containers # {} => cleaner = "idle"

\* Every request gets an answer, and expired conversions do not hold up the queue
\* or the deletion of their job for ever.
PreviewsSettle == /\ <>[](\A p \in Page : ~Waiting(p))
                  /\ pdf = "deleting" ~> pdf = "deleted"
=============================================================================
