------------------------------ MODULE JobLease ------------------------------
(***************************************************************************)
(* The life of a PDF job in the renderer worker: claiming a queued job     *)
(* under a lease, rendering it in a container, publishing its output       *)
(* directory and its artifact rows, recording failures, and recovering the *)
(* leases of workers that died, stalled or could not reach Docker.         *)
(*                                                                         *)
(* Shared state is the table `jobs`, the table `artifacts`, the output     *)
(* directories jobs/<id>/outputs/<generation>, the containers the Docker   *)
(* daemon runs and the settings row `worker_heartbeat`.  A SQLite          *)
(* transaction (BEGIN IMMEDIATE) is one step; every await of the worker's  *)
(* TypeScript ends a step.  Worker processes are single threaded: one job  *)
(* or one recovery at a time, interval timers in between.                  *)
(*                                                                         *)
(* A worker identity is used by one process only (config.ts draws a random *)
(* UUID), so a restart is the start of another member of Worker.           *)
(***************************************************************************)
EXTENDS JobRow, FiniteSets

CONSTANTS Job,         \* the jobs of the queue
          NoJob,       \* a worker without a job
          NoWorker,    \* no worker_heartbeat row yet
          MaxAlive,    \* worker processes alive at once; systemd runs one
          MaxStalls,   \* bound: leases that expire under a live holder
          MaxOutages   \* bound: commands the Docker daemon fails to answer

ASSUME JobLeaseAssumption == /\ NoJob \notin Job
                             /\ NoWorker \notin Worker
                             /\ MaxStalls \in Nat
                             /\ MaxOutages \in Nat

VARIABLES jobs,        \* the rows of table jobs
          artifacts,   \* <<job, generation>> whose artifacts have rows
          outputs,     \* <<job, generation>> whose output directory exists
          containers,  \* <<job, generation>> whose container exists
          proc,        \* each worker process: its job and where it is in it
          rec,         \* each worker process: its pass over the stale leases
          awaiting,    \* each worker process: jobs to settle before a claim
          lastBeat,    \* worker_heartbeat: the last worker that wrote it
          stalls, outages

vars == <<jobs, artifacts, outputs, containers, proc, rec, awaiting,
          lastBeat, stalls, outages>>

\* Where a worker process is.  From `claimed` to `final` it is in processJob,
\* from `failing` to `failclean` in recordFailure.
Rendering == {"claimed", "starting", "rendering", "verify", "closed",
              "checked", "renewed", "published"}
Closing   == {"cleanup", "final"}
Failing   == {"failing", "failwrite", "failrename", "failcommit", "failclean"}
Busy      == Rendering \cup Closing \cup Failing
Loop      == {"boot", "booted", "idle"}
PC        == {"off", "dead"} \cup Loop \cup Busy
Verdict   == {"none", "succeeded", "failed", "timeout", "error", "rejected"}

Proc == [pc      : PC,
         job     : Job \cup {NoJob},
         gen     : Nat,
         lost    : BOOLEAN,    \* the lease heartbeat found the lease gone
         verdict : Verdict,    \* the render result, or the error thrown
         dirty   : BOOLEAN]    \* published && !committed

At(pc) == [pc |-> pc, job |-> NoJob, gen |-> 0, lost |-> FALSE,
           verdict |-> "none", dirty |-> FALSE]

Rec == [phase : {"off", "loop", "claimed", "listed", "stopped"},
        todo  : SUBSET Job,         \* stale leases of this pass
        job   : Job \cup {NoJob},
        gen   : Nat,
        was   : Status,             \* the status of the stale row
        seen  : SUBSET (Job \X Nat)]  \* containers that docker ps listed

RecOff == [phase |-> "off", todo |-> {}, job |-> NoJob, gen |-> 0,
           was |-> "queued", seen |-> {}]

Alive(w) == proc[w].pc \notin {"off", "dead"}
Key(w)   == <<proc[w].job, proc[w].gen>>
Mine(w)  == jobs[proc[w].job]
Holds(w) == Owned(Mine(w), Lease(w), proc[w].gen)
Stopping_StatusOnly(row) == row.status = "canceled"
Stopping(row) == row.cancel \/ row.status = "canceled"

Goto(w, pc)      == proc' = [proc EXCEPT ![w].pc = pc]
Become(w, p)     == proc' = [proc EXCEPT ![w] = p]
Throw(w, pc, v)  == proc' = [proc EXCEPT ![w].pc = pc, ![w].verdict = v]
Close(w)         == proc' = [proc EXCEPT ![w].pc = "cleanup", ![w].verdict = "none",
                                        ![w].dirty = FALSE]
SetRow(j, row)   == jobs' = [jobs EXCEPT ![j] = row]

Init == /\ jobs = [j \in Job |-> QueuedRow]
        /\ artifacts = {} /\ outputs = {} /\ containers = {}
        /\ proc = [w \in Worker |-> At("off")]
        /\ rec = [w \in Worker |-> RecOff]
        /\ awaiting = [w \in Worker |-> {}]
        /\ lastBeat = NoWorker
        /\ stalls = 0 /\ outages = 0

-----------------------------------------------------------------------------
(* The worker loop.                                                        *)

\* A process starts and reads which jobs the previous worker still leases.
Start(w) ==
    /\ proc[w].pc = "off"
    /\ Cardinality({v \in Worker : Alive(v)}) < MaxAlive
    /\ Become(w, At("boot"))
    /\ awaiting' = [awaiting EXCEPT ![w] =
                      {j \in Job : lastBeat # NoWorker /\ OwnedActive(jobs[j], lastBeat)}]
    /\ UNCHANGED <<jobs, artifacts, outputs, containers, rec, lastBeat, stalls, outages>>

\* The first heartbeat follows the first recovery pass.
FirstBeat(w) ==
    /\ proc[w].pc = "booted" /\ rec[w].phase = "off"
    /\ Become(w, At("idle"))
    /\ lastBeat' = w
    /\ UNCHANGED <<jobs, artifacts, outputs, containers, rec, awaiting, stalls, outages>>

\* worker_heartbeat is rewritten by an interval timer.
Beat(w) ==
    /\ Alive(w) /\ proc[w].pc \notin {"boot", "booted"}
    /\ lastBeat # w
    /\ lastBeat' = w
    /\ UNCHANGED <<jobs, artifacts, outputs, containers, proc, rec, awaiting, stalls, outages>>

StopWaiting(w, j) ==
    /\ proc[w].pc = "idle" /\ rec[w].phase = "off"
    /\ j \in awaiting[w] /\ Settled(jobs[j])
    /\ awaiting' = [awaiting EXCEPT ![w] = @ \ {j}]
    /\ UNCHANGED <<jobs, artifacts, outputs, containers, proc, rec, lastBeat, stalls, outages>>

\* claimNext; which queued job admission selects is left open.
Claim(w, j) ==
    /\ proc[w].pc = "idle" /\ rec[w].phase = "off" /\ awaiting[w] = {}
    /\ CanClaim(jobs[j])
    /\ SetRow(j, Claimed(jobs[j], w))
    /\ Become(w, [At("claimed") EXCEPT !.job = j, !.gen = jobs[j].gen + 1])
    /\ UNCHANGED <<artifacts, outputs, containers, rec, awaiting, lastBeat, stalls, outages>>

-----------------------------------------------------------------------------
(* processJob.                                                             *)

\* The lease heartbeat, every ten seconds until the attempt is being closed.
LeaseBeat(w) ==
    /\ proc[w].pc \in Rendering /\ proc[w].verdict # "error" /\ ~proc[w].lost
    /\ IF CanHeartbeat(Mine(w), Lease(w), proc[w].gen)
       THEN /\ Mine(w).expired
            /\ SetRow(proc[w].job, Renewed(Mine(w)))
            /\ UNCHANGED proc
       ELSE /\ proc' = [proc EXCEPT ![w].lost = TRUE]
            /\ UNCHANGED jobs
    /\ UNCHANGED <<artifacts, outputs, containers, rec, awaiting, lastBeat, stalls, outages>>

\* The user, the service account or the API key is no longer active.
Reject(w) ==
    /\ proc[w].pc = "claimed"
    /\ SetRow(proc[w].job,
              IF CanTransition(Mine(w), Lease(w), proc[w].gen, "validating")
              THEN Finished(Mine(w), "rejected") ELSE Mine(w))
    /\ Become(w, At("idle"))
    /\ UNCHANGED <<artifacts, outputs, containers, rec, awaiting, lastBeat, stalls, outages>>

\* Extracting the Source fails; a 422 error rejects the job.
PrepareFails(w) ==
    /\ proc[w].pc = "claimed"
    /\ \E v \in {"error", "rejected"} : Throw(w, "cleanup", v)
    /\ UNCHANGED <<jobs, artifacts, outputs, containers, rec, awaiting, lastBeat, stalls, outages>>

\* validating -> running, and in the same turn the Docker CLI is launched.
Run(w) ==
    /\ proc[w].pc = "claimed"
    /\ IF ~proc[w].lost /\ CanTransition(Mine(w), Lease(w), proc[w].gen, "validating")
       THEN SetRow(proc[w].job, Running(Mine(w))) /\ Goto(w, "starting")
       ELSE Goto(w, "cleanup") /\ UNCHANGED jobs
    /\ UNCHANGED <<artifacts, outputs, containers, rec, awaiting, lastBeat, stalls, outages>>

DaemonStarts(w) ==
    /\ proc[w].pc = "starting"
    /\ containers' = containers \cup {Key(w)}
    /\ Goto(w, "rendering")
    /\ UNCHANGED <<jobs, artifacts, outputs, rec, awaiting, lastBeat, stalls, outages>>

\* The Docker CLI could not be spawned.
CliFails(w) ==
    /\ proc[w].pc = "starting"
    /\ Throw(w, "verify", "error")
    /\ UNCHANGED <<jobs, artifacts, outputs, containers, rec, awaiting, lastBeat, stalls, outages>>

\* The container ends with code 0 and is removed (--rm).
CleanExit(w) ==
    /\ proc[w].pc = "rendering" /\ Key(w) \in containers
    /\ containers' = containers \ {Key(w)}
    /\ Throw(w, "closed", "succeeded")
    /\ UNCHANGED <<jobs, artifacts, outputs, rec, awaiting, lastBeat, stalls, outages>>

UncleanExit_Trusting(w) ==
    /\ proc[w].pc \in {"starting", "rendering"}
    /\ containers' \in {containers, containers \ {Key(w)}}
    /\ \E v \in {"failed", "timeout"} : Throw(w, "closed", v)
    /\ UNCHANGED <<jobs, artifacts, outputs, rec, awaiting, lastBeat, stalls, outages>>

\* The CLI ends otherwise: a nonzero code, a stop, the job timeout, or a lost
\* connection to the daemon.  It proves nothing about the container.
UncleanExit(w) ==
    /\ proc[w].pc \in {"starting", "rendering"}
    /\ containers' \in {containers, containers \ {Key(w)}}
    /\ \E v \in {"failed", "timeout"} : Throw(w, "verify", v)
    /\ UNCHANGED <<jobs, artifacts, outputs, rec, awaiting, lastBeat, stalls, outages>>

\* monitorJob, every second: the lease is gone or the job is to stop.
MonitorStops(w) ==
    /\ proc[w].pc = "rendering" /\ Key(w) \in containers
    /\ ~Holds(w) \/ Mine(w).cancel \/ Mine(w).status # "running"
    /\ containers' = containers \ {Key(w)}
    /\ UNCHANGED <<jobs, artifacts, outputs, proc, rec, awaiting, lastBeat, stalls, outages>>

\* dockerStopVerified confirms that the container is absent ...
StopVerified(w) ==
    /\ proc[w].pc = "verify"
    /\ containers' = containers \ {Key(w)}
    /\ Goto(w, IF proc[w].verdict = "error" THEN "cleanup" ELSE "closed")
    /\ UNCHANGED <<jobs, artifacts, outputs, rec, awaiting, lastBeat, stalls, outages>>

\* ... or throws RendererCleanupDeferred: the lease is left to recovery.
StopDeferred(w) ==
    /\ proc[w].pc = "verify" /\ outages < MaxOutages
    /\ outages' = outages + 1
    /\ awaiting' = [awaiting EXCEPT ![w] = @ \cup {proc[w].job}]
    /\ Become(w, At("idle"))
    /\ UNCHANGED <<jobs, artifacts, outputs, containers, rec, lastBeat, stalls>>

\* The row is read again once the container is gone.
Check(w) ==
    /\ proc[w].pc = "closed"
    /\ IF proc[w].lost \/ ~Holds(w)
       THEN Throw(w, "cleanup", "none") /\ UNCHANGED jobs
       ELSE IF Stopping(Mine(w))
            THEN /\ SetRow(proc[w].job,
                           IF CanMarkCanceled(Mine(w), Lease(w), proc[w].gen)
                           THEN MarkedCanceled(Mine(w)) ELSE Mine(w))
                 /\ Throw(w, "cleanup", "none")
            ELSE Goto(w, "checked") /\ UNCHANGED jobs
    /\ UNCHANGED <<artifacts, outputs, containers, rec, awaiting, lastBeat, stalls, outages>>

\* The output breaks a limit, or cannot be monitored, validated or described.
OutputInvalid(w) ==
    /\ \/ proc[w].pc = "closed" /\ ~proc[w].lost /\ Holds(w)
       \/ proc[w].pc = "checked"
    /\ Throw(w, "cleanup", "error")
    /\ UNCHANGED <<jobs, artifacts, outputs, containers, rec, awaiting, lastBeat, stalls, outages>>

\* The lease is renewed once more before the output becomes visible.
Renew(w) ==
    /\ proc[w].pc = "checked"
    /\ IF CanHeartbeat(Mine(w), Lease(w), proc[w].gen)
       THEN /\ SetRow(proc[w].job, Renewed(Mine(w)))
            /\ IF proc[w].lost THEN Throw(w, "cleanup", "none") ELSE Goto(w, "renewed")
       ELSE Throw(w, "cleanup", "none") /\ UNCHANGED jobs
    /\ UNCHANGED <<artifacts, outputs, containers, rec, awaiting, lastBeat, stalls, outages>>

\* rename(candidateOutput, outputs/<generation>).
Publish(w) ==
    /\ proc[w].pc = "renewed"
    /\ outputs' = outputs \cup {Key(w)}
    /\ proc' = [proc EXCEPT ![w].pc = "published", ![w].dirty = TRUE]
    /\ UNCHANGED <<jobs, artifacts, containers, rec, awaiting, lastBeat, stalls, outages>>

\* The finalizing transaction rereads the row; it throws, and rolls back, when
\* the row moved on although the lease is still this worker's.
Commit(w) ==
    /\ proc[w].pc = "published"
    /\ IF proc[w].lost \/ ~Holds(w)
       THEN Throw(w, "cleanup", "none") /\ UNCHANGED <<jobs, artifacts>>
       ELSE IF Stopping(Mine(w))
       THEN /\ UNCHANGED artifacts
            /\ IF CanMarkCanceled(Mine(w), Lease(w), proc[w].gen)
               THEN SetRow(proc[w].job, MarkedCanceled(Mine(w))) /\ Close(w)
               ELSE Throw(w, "cleanup", "none") /\ UNCHANGED jobs
       ELSE IF CanTransition(Mine(w), Lease(w), proc[w].gen, "running")
       THEN /\ SetRow(proc[w].job, Finished(Mine(w), proc[w].verdict))
            /\ artifacts' = artifacts \cup {Key(w)}
            /\ Close(w)
       ELSE Throw(w, "cleanup", "error") /\ UNCHANGED <<jobs, artifacts>>
    /\ UNCHANGED <<outputs, containers, rec, awaiting, lastBeat, stalls, outages>>

\* The rename or the transaction fails.
PublishFails(w) ==
    /\ proc[w].pc \in {"renewed", "published"}
    /\ Throw(w, "cleanup", "error")
    /\ UNCHANGED <<jobs, artifacts, outputs, containers, rec, awaiting, lastBeat, stalls, outages>>

Cleanup_Committed(w) ==
    /\ proc[w].pc = "cleanup"
    /\ outputs' = outputs \ {Key(w)}
    /\ proc' = [proc EXCEPT ![w].pc = "final", ![w].dirty = FALSE]
    /\ UNCHANGED <<jobs, artifacts, containers, rec, awaiting, lastBeat, stalls, outages>>

\* An output without committed rows is removed, and the attempt directory.
Cleanup(w) ==
    /\ proc[w].pc = "cleanup"
    /\ outputs' = IF proc[w].dirty THEN outputs \ {Key(w)} ELSE outputs
    /\ proc' = [proc EXCEPT ![w].pc = "final", ![w].dirty = FALSE]
    /\ UNCHANGED <<jobs, artifacts, containers, rec, awaiting, lastBeat, stalls, outages>>

\* Removing either fails.  The process may die of it in FailPublish, so it is
\* bounded as Crash is.
CleanupFails(w) ==
    /\ proc[w].pc = "cleanup"
    /\ \E v \in Worker : proc[v].pc = "off"
    /\ \/ UNCHANGED outputs
       \/ proc[w].dirty /\ outputs' = outputs \ {Key(w)}
    /\ proc' = [proc EXCEPT ![w].pc = "failing", ![w].verdict = "error", ![w].dirty = FALSE]
    /\ UNCHANGED <<jobs, artifacts, containers, rec, awaiting, lastBeat, stalls, outages>>

\* A cancellation is settled last; then the error, if any, reaches the loop.
Final(w) ==
    /\ proc[w].pc = "final"
    /\ SetRow(proc[w].job,
              IF Mine(w).cancel /\ CanMarkCanceled(Mine(w), Lease(w), proc[w].gen)
              THEN MarkedCanceled(Mine(w)) ELSE Mine(w))
    /\ IF proc[w].verdict \in {"error", "rejected"}
       THEN Goto(w, "failing") ELSE Become(w, At("idle"))
    /\ UNCHANGED <<artifacts, outputs, containers, rec, awaiting, lastBeat, stalls, outages>>

-----------------------------------------------------------------------------
(* recordFailure.                                                          *)

FailureStatus(w) == IF proc[w].verdict = "rejected" THEN "rejected" ELSE "failed"

HasArtifacts(j) == \E a \in artifacts : a[1] = j

\* With a published PDF only the row changes; otherwise the lease is renewed.
FailBegin(w) ==
    /\ proc[w].pc = "failing"
    /\ IF HasArtifacts(proc[w].job)
       THEN /\ SetRow(proc[w].job,
                 IF Mine(w).cancel
                 THEN IF CanMarkCanceled(Mine(w), Lease(w), proc[w].gen)
                      THEN MarkedCanceled(Mine(w)) ELSE Mine(w)
                 ELSE IF CanFinishFailure(Mine(w), Lease(w), proc[w].gen)
                      THEN Finished(Mine(w), FailureStatus(w)) ELSE Mine(w))
            /\ Become(w, At("idle"))
       ELSE IF CanHeartbeat(Mine(w), Lease(w), proc[w].gen)
            THEN SetRow(proc[w].job, Renewed(Mine(w))) /\ Goto(w, "failwrite")
            ELSE Become(w, At("idle")) /\ UNCHANGED jobs
    /\ UNCHANGED <<artifacts, outputs, containers, rec, awaiting, lastBeat, stalls, outages>>

\* The failure artifacts are written, and the lease is renewed again.
FailRenew(w) ==
    /\ proc[w].pc = "failwrite"
    /\ IF CanHeartbeat(Mine(w), Lease(w), proc[w].gen)
       THEN SetRow(proc[w].job, Renewed(Mine(w))) /\ Goto(w, "failrename")
       ELSE Become(w, At("idle")) /\ UNCHANGED jobs
    /\ UNCHANGED <<artifacts, outputs, containers, rec, awaiting, lastBeat, stalls, outages>>

\* Renaming over the directory a failed cleanup left behind throws out of the
\* loop and ends the process.
FailPublish(w) ==
    /\ proc[w].pc = "failrename"
    /\ IF Key(w) \in outputs
       THEN /\ Become(w, At("dead"))
            /\ awaiting' = [awaiting EXCEPT ![w] = {}]
            /\ lastBeat' = w
            /\ UNCHANGED outputs
       ELSE /\ outputs' = outputs \cup {Key(w)}
            /\ proc' = [proc EXCEPT ![w].pc = "failcommit", ![w].dirty = TRUE]
            /\ UNCHANGED <<awaiting, lastBeat>>
    /\ UNCHANGED <<jobs, artifacts, containers, rec, stalls, outages>>

FailCommit(w) ==
    /\ proc[w].pc = "failcommit"
    /\ IF CanFinishFailure(Mine(w), Lease(w), proc[w].gen)
       THEN /\ SetRow(proc[w].job, Finished(Mine(w), FailureStatus(w)))
            /\ artifacts' = artifacts \cup {Key(w)}
            /\ Become(w, At("idle"))
       ELSE /\ Goto(w, "failclean")
            /\ UNCHANGED <<jobs, artifacts>>
    /\ UNCHANGED <<outputs, containers, rec, awaiting, lastBeat, stalls, outages>>

FailClean(w) ==
    /\ proc[w].pc = "failclean"
    /\ outputs' = outputs \ {Key(w)}
    /\ Become(w, At("idle"))
    /\ UNCHANGED <<jobs, artifacts, containers, rec, awaiting, lastBeat, stalls, outages>>

-----------------------------------------------------------------------------
(* recoverStaleLeases: at startup, and periodically in the loop.           *)

StaleJobs == {j \in Job : Stale(jobs[j])}

\* A periodic pass that finds nothing changes nothing and is not a step.
RecScan(w) ==
    /\ rec[w].phase = "off"
    /\ proc[w].pc = "boot" \/ (proc[w].pc = "idle" /\ StaleJobs # {})
    /\ rec' = [rec EXCEPT ![w] = [RecOff EXCEPT !.phase = "loop", !.todo = StaleJobs]]
    /\ IF proc[w].pc = "boot" THEN Become(w, At("booted")) ELSE UNCHANGED proc
    /\ UNCHANGED <<jobs, artifacts, outputs, containers, awaiting, lastBeat, stalls, outages>>

\* The compare-and-swap of claimExpiredLease takes over the lease, or finds
\* that it was renewed, taken or ended since the scan.
RecClaim(w, j) ==
    /\ rec[w].phase = "loop" /\ j \in rec[w].todo
    /\ IF Stale(jobs[j])
       THEN /\ SetRow(j, RecoveryClaimed(jobs[j], w))
            /\ rec' = [rec EXCEPT ![w] = [phase |-> "claimed", todo |-> @.todo \ {j},
                         job |-> j, gen |-> jobs[j].gen + 1, was |-> jobs[j].status,
                         seen |-> {}]]
       ELSE /\ rec' = [rec EXCEPT ![w].todo = @ \ {j}]
            /\ UNCHANGED jobs
    /\ UNCHANGED <<artifacts, outputs, containers, proc, awaiting, lastBeat, stalls, outages>>

RecList_Unlabelled(w) ==
    /\ rec[w].phase = "claimed"
    /\ rec' = [rec EXCEPT ![w].phase = "listed"]
    /\ UNCHANGED <<jobs, artifacts, outputs, containers, proc, awaiting, lastBeat, stalls, outages>>

\* docker ps --filter label=latex-renderer.job=<id>
RecList(w) ==
    /\ rec[w].phase = "claimed"
    /\ rec' = [rec EXCEPT ![w].phase = "listed",
                          ![w].seen = {c \in containers : c[1] = rec[w].job}]
    /\ UNCHANGED <<jobs, artifacts, outputs, containers, proc, awaiting, lastBeat, stalls, outages>>

RecStop(w) ==
    /\ rec[w].phase = "listed"
    /\ containers' = containers \ rec[w].seen
    /\ rec' = [rec EXCEPT ![w].phase = "stopped"]
    /\ UNCHANGED <<jobs, artifacts, outputs, proc, awaiting, lastBeat, stalls, outages>>

\* Docker does not answer: some containers may have been stopped; the claim is
\* made stale again.
RecDefer(w) ==
    /\ rec[w].phase \in {"claimed", "listed"} /\ outages < MaxOutages
    /\ outages' = outages + 1
    /\ \E stopped \in SUBSET rec[w].seen : containers' = containers \ stopped
    /\ LET row == jobs[rec[w].job]
       IN SetRow(rec[w].job, IF CanExpireClaim(row, w, rec[w].gen)
                             THEN ClaimExpired(row) ELSE row)
    /\ rec' = [rec EXCEPT ![w] = [RecOff EXCEPT !.phase = "loop", !.todo = rec[w].todo]]
    /\ UNCHANGED <<artifacts, outputs, proc, awaiting, lastBeat, stalls>>

\* The row recovery writes, chosen by the status it claimed and by whether a
\* container existed; a row that changed since the claim is left alone.
Recovered(w, row) ==
    CASE rec[w].was = "canceled" ->
           IF CanMarkCanceled(row, Recoverer(w), rec[w].gen)
           THEN MarkedCanceled(row) ELSE row
      [] rec[w].was # "canceled" /\ rec[w].seen # {} ->
           IF CanRecover(row, w, rec[w].gen) THEN Finished(row, "failed") ELSE row
      [] OTHER ->
           IF CanRecover(row, w, rec[w].gen) THEN Requeued(row) ELSE row

RecFinish(w) ==
    /\ rec[w].phase = "stopped"
    /\ SetRow(rec[w].job, Recovered(w, jobs[rec[w].job]))
    /\ rec' = [rec EXCEPT ![w] = [RecOff EXCEPT !.phase = "loop", !.todo = rec[w].todo]]
    /\ UNCHANGED <<artifacts, outputs, containers, proc, awaiting, lastBeat, stalls, outages>>

RecDone(w) ==
    /\ rec[w].phase = "loop" /\ rec[w].todo = {}
    /\ rec' = [rec EXCEPT ![w] = RecOff]
    /\ UNCHANGED <<jobs, artifacts, outputs, containers, proc, awaiting, lastBeat, stalls, outages>>

-----------------------------------------------------------------------------
(* The environment.                                                        *)

Cancel(j) ==
    /\ CanCancel(jobs[j]) /\ ~jobs[j].cancel
    /\ SetRow(j, Canceled(jobs[j]))
    /\ UNCHANGED <<artifacts, outputs, containers, proc, rec, awaiting, lastBeat, stalls, outages>>

\* A live process whose timers or whose recovery pass still serve the lease.
Served(j) == \E w \in Worker :
    \/ proc[w].pc \in Busy /\ proc[w].job = j /\ Holds(w)
    \/ rec[w].phase \in {"claimed", "listed", "stopped"} /\ rec[w].job = j
       /\ Owned(jobs[j], Recoverer(w), rec[w].gen)

\* Thirty seconds (recovery: five minutes) pass without a renewal, after the
\* holder is gone or while it is stalled.
Expire(j) ==
    /\ jobs[j].owner # NoOwner /\ ~jobs[j].expired
    /\ IF Served(j) THEN stalls < MaxStalls /\ stalls' = stalls + 1
                    ELSE UNCHANGED stalls
    /\ SetRow(j, ClaimExpired(jobs[j]))
    /\ UNCHANGED <<artifacts, outputs, containers, proc, rec, awaiting, lastBeat, outages>>

\* A container no CLI waits for runs to its end and is removed.
OrphanEnds(c) ==
    /\ c \in containers
    /\ ~\E w \in Worker : proc[w].pc = "rendering" /\ Key(w) = c
    /\ containers' = containers \ {c}
    /\ UNCHANGED <<jobs, artifacts, outputs, proc, rec, awaiting, lastBeat, stalls, outages>>

\* The process is killed and with it, as one cgroup, the Docker CLI; the
\* container is the daemon's and lives on.  Bound: while a successor is left.
Crash(w) ==
    /\ Alive(w)
    /\ \E v \in Worker : proc[v].pc = "off"
    /\ Become(w, At("dead"))
    /\ rec' = [rec EXCEPT ![w] = RecOff]
    /\ awaiting' = [awaiting EXCEPT ![w] = {}]
    /\ UNCHANGED <<jobs, artifacts, outputs, containers, lastBeat, stalls, outages>>

\* SIGTERM ends the loop between two jobs; a last heartbeat is written.
Stop(w) ==
    /\ proc[w].pc = "idle" /\ rec[w].phase = "off"
    /\ \E v \in Worker : proc[v].pc = "off"
    /\ Become(w, At("dead"))
    /\ awaiting' = [awaiting EXCEPT ![w] = {}]
    /\ lastBeat' = w
    /\ UNCHANGED <<jobs, artifacts, outputs, containers, rec, stalls, outages>>

-----------------------------------------------------------------------------

\* Steps a live worker takes by itself, unless something fails.
Progress(w) ==
    \/ FirstBeat(w) \/ (\E j \in Job : StopWaiting(w, j) \/ Claim(w, j))
    \/ Run(w) \/ DaemonStarts(w) \/ CleanExit(w) \/ UncleanExit(w)
    \/ StopVerified(w) \/ Check(w) \/ Renew(w) \/ Publish(w) \/ Commit(w)
    \/ Cleanup(w) \/ Final(w)
    \/ FailBegin(w) \/ FailRenew(w) \/ FailPublish(w) \/ FailCommit(w) \/ FailClean(w)
    \/ RecScan(w) \/ (\E j \in Job : RecClaim(w, j))
    \/ RecList(w) \/ RecStop(w) \/ RecFinish(w) \/ RecDone(w)

Mishap(w) ==
    \/ Reject(w) \/ PrepareFails(w) \/ CliFails(w) \/ StopDeferred(w)
    \/ OutputInvalid(w) \/ PublishFails(w) \/ CleanupFails(w) \/ RecDefer(w)
    \/ Crash(w) \/ Stop(w)

Next ==
    \/ \E w \in Worker : \/ Start(w) \/ Progress(w) \/ Mishap(w)
                         \/ Beat(w) \/ LeaseBeat(w) \/ MonitorStops(w)
    \/ \E j \in Job : Cancel(j) \/ Expire(j)
    \/ \E c \in containers : OrphanEnds(c)

Spec == Init /\ [][Next]_vars

\* systemd restarts the worker, the loop and its timers run, the job timeout
\* and `docker stop` end every render, and a lease nobody renews expires.
Fairness ==
    /\ \A w \in Worker : /\ WF_vars(Start(w)) /\ WF_vars(Progress(w))
                         /\ WF_vars(LeaseBeat(w)) /\ WF_vars(MonitorStops(w))
    /\ \A j \in Job : WF_vars(~Served(j) /\ Expire(j))

FairSpec == Spec /\ Fairness

-----------------------------------------------------------------------------
(* Properties.                                                             *)

\* What a worker process carries at each place: a job while it is busy, and
\* after the container's end the verdict that the publication relies on.
VerdictFits(pc, v) ==
    /\ pc = "verify" => v \in {"failed", "timeout", "error"}
    /\ pc \in {"closed", "checked", "renewed", "published"} =>
         v \in {"succeeded", "failed", "timeout"}

ProcState == {p \in Proc : /\ p.pc \in Busy => p.job \in Job
                           /\ VerdictFits(p.pc, p.verdict)}

RecState == {r \in Rec : r.phase \in {"claimed", "listed", "stopped"} => r.job \in Job}

\* Every variable is in its range, every busy process has a job, and a verdict
\* that becomes a job's status is one the database accepts.
TypeOK ==
    /\ jobs \in [Job -> Row]
    /\ artifacts \in SUBSET (Job \X Nat)
    /\ outputs \in SUBSET (Job \X Nat)
    /\ containers \in SUBSET (Job \X Nat)
    /\ proc \in [Worker -> ProcState]
    /\ rec \in [Worker -> RecState]
    /\ awaiting \in [Worker -> SUBSET Job]
    /\ lastBeat \in Worker \cup {NoWorker}
    /\ stalls \in Nat /\ outages \in Nat

\* Artifact rows name a directory that is on disk, belong to the attempt that
\* ended the job, and exist for every job that ended with a render result.  A
\* fenced worker, an attempt that fails after its rename and the failure
\* record of the same generation all create and remove such directories.
ArtifactsBacked ==
    /\ \A a \in artifacts : /\ a \in outputs
                            /\ jobs[a[1]].status \in Ended
                            /\ jobs[a[1]].gen = a[2]
    /\ \A j \in Job : jobs[j].status \in {"succeeded", "timeout"} =>
                         <<j, jobs[j].gen>> \in artifacts

\* A worker whose lease was taken over changes neither table any more, in
\* whatever step of its attempt, its cleanup or its failure record it is.
Fenced == \A w \in Worker :
    /\ proc[w].pc \in Busy /\ proc'[w] # proc[w]
    /\ Mine(w).owner # Lease(w) \/ Mine(w).gen # proc[w].gen
    => UNCHANGED <<jobs, artifacts>>

FencedWritesNothing == [][Fenced]_vars

\* With one worker process at a time, at most one container runs on the host,
\* across crashes, restarts and Docker commands that fail (worker.ts: wait
\* for recovery before creating another daemon container).
OneContainer == \A c, d \in containers : c = d

\* Two attempts of one job never run in containers at the same time, although
\* processes overlap, die and lose their connection to Docker, as long as no
\* process stalls for longer than its lease.
OneContainerPerJob ==
    stalls = 0 => \A c, d \in containers : c[1] = d[1] => c = d

\* A container is either watched by the process that started it, or its job
\* still has a lease whose expiry makes recovery stop it; again unless a
\* process stalls for longer than its lease.
NoLeakedContainer ==
    stalls = 0 =>
      \A c \in containers :
        \/ \E w \in Worker : proc[w].pc \in {"rendering", "verify"} /\ Key(w) = c
        \/ jobs[c[1]].owner # NoOwner

\* Every job ends and gives up its lease, whoever crashed on the way.
EveryJobSettles == \A j \in Job : <>(jobs[j].status \in Terminal /\ jobs[j].owner = NoOwner)

\* The rows, read as the promise of JobLifecycle.
Lifecycle == INSTANCE JobLifecycle
    WITH stage     <- [j \in Job |-> IF jobs[j].status \in {"validating", "running"}
                                    THEN "active" ELSE jobs[j].status],
         asked     <- [j \in Job |-> jobs[j].cancel],
         published <- [j \in Job |-> HasArtifacts(j)]

ImplementsLifecycle == Lifecycle!Spec
=============================================================================
