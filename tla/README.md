# A TLA+ model of latex-renderer

latex-renderer takes a ZIP of LaTeX sources, renders it in a throw-away Docker
container, and serves the PDF, its SVG pages and previews. What makes it hard
to get right is not the rendering. It is that several processes share one
SQLite database, one storage directory and one Docker daemon, that each of them
may die or stall at any await, and that none of the three stores can be changed
in one step with another. The specifications in this directory model that: who
may change which row, file and container, in which order, and what is left
behind when somebody stops half way.

Notation below: `module!Name` is a definition, `path:line` is relative to `src/`.


## 1. Inventory

### Processes

| process | unit | what it does |
|---|---|---|
| renderer worker | `latex-renderer-worker.service`, started by a hint on `latex-renderer-worker.socket`, exits when idle, restarted 5 s after a failure | claims a queued job, runs its container, publishes its output, recovers stale leases, renders previews, collects source trees |
| reconciler | `latex-renderer-worker-reconcile`, every minute | sends a hint when there is work or maintenance is due |
| engine collector | `on-demand-engine`, `idle-container-engine` | starts the container engine for a worker, stops it when nobody needs it |
| renderer API | `latex-renderer-api.service` | uploads of sources, downloads of artifacts |
| internal API | `apps/internal-api` | creates sources, jobs and tickets for the gateways |
| admin API | `apps/admin-api` | users' and administrators' operations: cancel, delete, retry SVG, previews, projects |
| cleanup | `latex-renderer-cleanup.service`, a oneshot started every hour by a timer | expires reservations, resets stale uploads, deletes old jobs, sources, trees, history |
| remote MCP | `apps/remote-mcp` | chunked uploads, OAuth |
| update manager and its root helper | `deploy/scripts/update-manager.mjs`, `update-manager-helper.mjs` | prepare, deploy and roll back releases, with recovery points |
| gateways, MCP server, CLI, web | | stateless, or a user's own process |

### State

| state | where | changed by | modelled in |
|---|---|---|---|
| `jobs` rows: status, lease owner, generation, deadline, cancellation, deletion | SQLite | worker, recovery, admin API, internal API, uploads, cleanup | `JobRow`, `JobLease`, `JobDeletion` |
| `job_output_stages`: PDF checkpoint, SVG stage | SQLite | worker, recovery, triggers, SVG retry | `OutputStages` |
| `artifacts` rows, `jobs/<id>/outputs/<generation>` | SQLite, disk | worker, recovery, cleanup | `JobLease`, `OutputStages`, `JobDeletion`, `Previews` |
| containers | Docker daemon | worker, recovery | `JobLease`, `Previews`, `SourceTrees` |
| `worker_heartbeat` | SQLite, table settings | worker | `JobLease` |
| `sources` rows, `used_nonces`, `source_upload_nonces`, `sources/<id>/` | SQLite, disk | internal API, renderer API, remote MCP, cleanup | `SourceStore`, `RemoteUploads` |
| `artifact_download_leases` | SQLite | renderer API, admin API, worker, cleanup | `JobDeletion`, `Previews` |
| `job_preview_requests`, `preview-attempts/` | SQLite, disk | worker, admin API | `Previews` |
| `source_trees`, `source_tree_readers`, `source-trees/` | SQLite, disk | worker, cleanup | `SourceTrees` |
| hint socket, engine, engine locks | systemd, `flock` | worker, reconciler, APIs, deployment | `WorkerDemand` |
| recovery store (`operation.json`, points), `state.json`, mutation lock | disk, `flock` | update manager and helper | `UpdateDeployment` |

Interaction on the data path is by shared state only: no process calls another
one to change a job (a hint only wakes the worker up). Every write is a
compare-and-swap `UPDATE ... WHERE` inside `BEGIN IMMEDIATE`, so a transaction
is atomic; what is not atomic is a transaction together with a rename, an `rm`
or a Docker command.

### Components, their hard behaviours, and what makes them correct

1. **Worker leases and recovery** (`apps/renderer-worker/src/{worker,job-processor,failure,recovery,heartbeat}.ts`,
   `packages/database/src/repositories/worker.ts`). Hard: a stalled worker that
   wakes up after its job was taken over; a crash between rename and commit;
   a Docker command that does not answer; a cancellation racing all of it.
   Correct when: a fenced worker writes nothing, artifact rows are backed by
   files, at most one container runs, no container is forgotten, every job
   ends, and the rows follow the documented lifecycle.
2. **Deletion, downloads, SVG retry** (`deploy/scripts/cleanup.mjs`,
   `repositories/{jobs,output-stages}.ts`, `artifact-download-lease.ts`). Hard:
   a download that begins between selection and claim; a removal that fails half
   way; a retry that revives a job whose deletion is pending. Correct when:
   readers are left alone, rows and files agree, a failed deletion gives the
   result back, and every deletion ends.
3. **Sources and upload claims** (`apps/renderer-api/src/services/upload.ts`,
   `packages/database/src/{index,source-lifecycle}.ts`, `repositories/sources.ts`).
   Hard: a claim that lapses during the upload; the same archive path written by
   the next request; a reference taken while the source is being deleted.
   Correct when: a ready source has its archive, a job that is queued has a
   ready source, a late request does no harm, and no upload stays open.
4. **Staged outputs** (`staged-job-processor.ts`, `stage-recovery.ts`). Hard:
   storage generations shared by stages and attempts; pruning what a dead
   attempt left, and nothing else; a `finally` that removes directories by name
   long after the lease moved on. Correct when: what rows and checkpoint publish
   stays on disk, the published PDF never changes, the stages follow the job,
   and the job ends.
5. **Previews** (`preview-processor.ts`, `repositories/previews.ts`). Hard: a
   lease that is never renewed; an expired lease that blocks all other work
   until Docker was asked; bytes left by a killed process. Correct when: one
   container at a time, every byte reserved or listed, no PDF removed under a
   container, and every request answered.
6. **Source trees** (`repositories/source-trees.ts`, `source-tree-cache.ts`,
   `source-tree-gc.mjs`). Hard: readers and builders of a bounded cache against
   two collectors, and a container that the daemon starts some time after the
   lease was looked at. Correct when: no tree goes that a container started under
   its lease has mounted, what can be acquired is complete, and the budget holds.
7. **Remote uploads** (`packages/remote-mcp-core`, `repositories/sources.ts:340-460`).
   Hard: chunks that arrive twice or under a lease that has passed on, two
   finalizes, a cleanup in between. Correct when: the acknowledged offset stands
   on disk, what is ready is what was declared, and a patient client completes.
8. **Worker on demand** (`deploy/scripts/{worker-demand,reconcile-worker,on-demand-engine,idle-container-engine}.mjs`,
   `renderer-worker/src/index.ts`). Hard: a hint answered by a process that is
   ending, lost hints, an engine stopped under a worker that is just starting, a
   deployment against all of it. Correct when: every job is served, the worker
   and the engine sleep afterwards, and neither disturbs a deployment.
9. **Update deployment** (`deploy/scripts/update-*.mjs`). Hard: a kill between
   any two steps, a manager that restarts while its helper works, a helper that
   starts late. Correct when: stopped units come back, the recovery point of an
   unfinished deployment is kept and holds the right data, code never meets a
   schema it cannot run on, and every operation ends.
10. Everything else (front ends, gateways, tickets, ZIP validation, log
    parsing, setup) is sequential request handling, parsing or configuration;
    `PROJECT.json` lists each part with the reason it is left out.

The hazards of this code, each at its line, are in `PROJECT.json`.


## 2. Plan and its state

| module | composes | abstract specification | checked | proved |
|---|---|---|---|---|
| `JobRow` | operators only: one row and its SQL statements | | | lemmas on every statement |
| `JobLease` | `JobRow` | `JobLifecycle` (refinement) | safety, refinement, liveness | all safety properties, and the refinement |
| `JobDeletion` | abstracted worker | | safety, liveness | all safety properties |
| `SourceStore` | abstracted jobs and projects | `SourceLifecycle` (refinement) | safety, refinement, liveness | all safety properties, and the refinement |
| `OutputStages` | `JobRow`, worker with generations, recovery | | safety, liveness | all safety properties |
| `Previews` | previews, an ordinary job, the cleanup | | safety, liveness | all safety properties |
| `SourceTrees` | cache with readers, builders, two collectors | | safety | all safety properties |
| `RemoteUploads` | requests, lease, cleanup | `SourceLifecycle` (refinement) | safety, liveness | all safety properties, and the refinement |
| `WorkerDemand` | `WorkerDemandState`; worker, senders, collector, deployment | | safety, liveness | all safety invariants |
| `UpdateDeployment` | manager, helper, host, application | | safety, liveness | all safety properties; `SchemaServesRelease` where it holds |

The proofs of a component are in `<Module>Proofs`, those of the last two together
in `DeploymentProofs`. Left for later: `JobLease` composed with `JobDeletion` (the
canceled job that is deleted under its dead worker's lease,
`repositories/jobs.ts:378`).


## 3. The modules and the code

### JobRow

One row of `jobs` and the statements on it: each `UPDATE` is a predicate `CanX`
(its WHERE clause) and an operator `X` (its SET clause). A lease is its owner,
its generation and whether its deadline has passed. The owner string
`<id>:recovery:<generation>` becomes a record with a flag, since the generation
in it is always the row's own (`recovery.ts:12-22`).

### JobLease

| variable | in the code |
|---|---|
| `jobs` | rows of `jobs` |
| `artifacts`, `outputs` | artifact rows, and `outputs/<generation>` directories |
| `containers` | what the Docker daemon runs, whether or not a CLI waits |
| `proc` | where each worker process is in `runWorker`, `processJob`, `recordFailure` |
| `rec` | where it is in `recoverStaleLeases` |
| `awaiting` | `awaitingRecovery` of `worker.ts` |
| `lastBeat` | `worker_heartbeat` |
| `stalls`, `outages` | how often a live holder stalled, how often Docker did not answer (bounds) |

An await ends a step and a transaction is one step. The order of a job is
`claimed`, `starting`, `rendering`, (`verify`,) `closed`, `checked`, `renewed`,
`published`, `cleanup`, `final`; an error goes through `cleanup` and `final`
to `failing` and `recordFailure`. Interval timers (`Beat`, `LeaseBeat`,
`MonitorStops`) interleave. A process identity is used once, because
`config.ts:57` draws a random one: a restart is the `Start` of another member
of `Worker`.

What is nondeterministic: which queued job is claimed (admission), the verdict
of a container, whether output is valid, whether a rename, a removal or a
Docker command fails, and whether an unclean end of the CLI left the container
running. An `OrphanEnds` step lets an unwatched container end on its own.

Simplified: output stages (jobs here render a PDF; `OutputStages` adds the
second stage), previews (`Previews`), idle shutdown (`WorkerDemand`), maintenance
mode, disk admission. The daemon starts a container only while its CLI lives:
one it creates for a CLI that died or was killed meanwhile, after a stop was
verified, is left out. Heartbeats are every 10 s in the code
(`JOB_LIFECYCLE.md` says every second), which makes no difference here.

### JobLifecycle

What a user of the queue sees: a job is queued, worked on, perhaps queued again,
and ends once; its artifacts appear in the step that ends it; a job whose
cancellation has been asked for never ends with a render result.
`JobLease!ImplementsLifecycle` is the refinement, with `stage`, `asked` and
`published` read from the rows.

### JobDeletion

`rows`, `artifacts`, `dir` are the database and the disk; `working` is the job
the worker is at, `cleaner` the cleanup process, `reading` and `live` the
download streams and their lease rows. The worker is abstracted to the steps
that change a row or the published directory. The cleanup is in full: one
selection at the start of a pass, then for each job a claim that checks
everything again, the removal, the final transaction, and the handling of a
failure of each. `CleanCrash` may come between any two of them. All of these
are one process, a systemd oneshot, so no two passes overlap.

Simplified: the rename and the commit of a publication are one step here
(`JobLease` splits them); previews are in `Previews`, the removal of history
rows is left out; time is `due` and `old`.

### SourceStore

`sources`, `nonces`, `jobs`, `projects` are rows; `stored` and `temp` are the
archive and the temporary files; `uploads` is each HTTP request in
`uploadSharedSource`, `cleaner` the cleanup's deletion of a source. A nonce is
extended, consumed and released only by its owner while the claim has not
lapsed (`Owns`). `Begin` is a transaction, and `AssertOwned`, `Place`, `Commit`
are separated by awaits, as are `GiveUp`, `Remove` and `Release` on the way out.

Simplified: a ticket fixes size and SHA-256, so all requests for one source
carry the same bytes and an archive is only there or not; one owner, so that
owner-scoped references (`readySourceSql`) and all references (cleanup) are the
same set; a heartbeat timer that failed gives the request up without touching
shared state. The legacy upload of a job's own archive has code of its own and
is not modelled; chunked remote uploads are in `RemoteUploads`.

The assumption `SlowRemoval = FALSE` is the code's own: a failed request renews
its claim for two minutes and then removes the archive it placed
(`upload.ts:181-182`). Were that `rm` slower than two minutes, the next request
could have placed its archive in between. With `SlowRemoval = TRUE`,
`LateRequestHarmless` is violated.

### OutputStages

One job with PDF and SVG output. `job` is its row (`JobRow`), `stages` its row in
`job_output_stages`, `rows` the generations its artifact rows name, `outputs`
the directories on disk, `proc` and `rec` where the attempt and the recovery of
each worker process are. An attempt under lease generation g publishes its PDF
as `outputs/2g`, its pages as `outputs/2g+1`, and a failure without a PDF as
`outputs/g`; directories are known by that number, so that two attempts may
well have the same one. The triggers of schema v21 (`EndedStages` and its
companions) run in the statement that changes the status. A process carries in
`mine` what its `finally` blocks will remove.

Simplified: containers are the end of a stage (they are those of `JobLease`);
`failed` also stands for timeout; retries count against the bound of mishaps.

### Previews

`requests` are the rows of `job_preview_requests`, `rows` the artifact rows of
pages, `outputs` and `works` directories, `containers` the preview containers,
`leases` the processes whose download lease on the PDF is live, `render` one
ordinary job and its container, `cleaner` the cleanup of the job that owns the
PDF. A conversion goes `claimed`, `reserved`, `ready`, `rendering`, `rendered`,
`checked`, `renamed`, `tidied`, `final`, `finish`; a recovery goes `stop`,
`prune`, `give_up`.

Simplified: a container starts together with the daemon's answer; byte counts of
the quota are a nondeterministic refusal (`Reserve`). Whether processes may be
alive at once is chosen in the initial state (`overlap`): the properties about
containers and disk say "with one process at a time", which is what the systemd
unit gives.

### SourceTrees

`trees`, `pins` are the tables, `dirs` and `inputs` the directories and those
that are complete, `containers` what has a tree mounted. A job acquires its tree
(`Acquire`), or verifies, extracts, reserves, promotes and publishes one, or
falls back to its private copy. The transition to `running` under the lease,
with the launch of the Docker CLI in the same turn (`Run`), and the start of the
container (`DaemonStarts`) are two steps, as in `JobLease`: the daemon does not
look at the lease. `leased`, a field of a container that no action reads, records
whether its attempt still had the lease when it started. `Collect` and `Pressure` are the collectors of
the worker, `timer` that of the cleanup; `RecoverLease`, `RecoverReader`,
`StopReader`, `FreeReader` recover the pins of dead attempts, which go only when
their container is known to be stopped.

Simplified: trees are of one size, so that the three budgets are one number;
owner and limits of a tree's identity are the same throughout; `aged` is
`expires_at`; the recovery of a lease is one step (`JobLease` has all of them),
which costs nothing here, since the attempt loses the lease with the first of them.
As in `JobLease`, no container starts once its CLI or its process has gone.

### RemoteUploads

`row` is the source, `dir`, `archive`, `chunks` its files, `begin` where
`beginSourceUpload` is, `reqs` the chunk and finalize requests, `cleaner` where
the cleanup is with this source. An archive is a sequence of units, of which
`Right` is what was declared. A request renews its lease and then goes `write`,
`commit`, `release`, or `assemble`, `verify`, `rename`, `complete`, `tidy`,
`release`.

Simplified: removing the directory is one step or fails; a mishap is a stall, a
crash or a failed file operation. `patient`, chosen in the initial state, is one
client that sends the archive unit by unit, each after an answer: the liveness
property is about it alone.

### SourceLifecycle

What a source promises, however its archive arrives: it is opened once, becomes
ready once with its archive in place, is used only while it is ready, neither goes
nor loses its archive while it is used, and does not come back once it has begun to
go ("neither references nor expiry revive a non-ready row",
`source-lifecycle.ts:39`). Two modules implement it.

* `SourceStore!ImplementsSource`: `reserved` and `uploading` are "open", `expired`
  and `deleting` are "leaving"; `filed` is a stored archive; `used` is a project or a
  queued job that refers to the source. A job reserved with its source is queued in
  the step that makes the source ready, hence the second disjunct of `Complete`.
* `RemoteUploadsProofs!Lifecycle`: one source; `discarded` is "gone" too, `filed` is
  the declared archive in the directory. References are not modelled there, so
  nothing is ever `used`, and what this refinement says is how the archive arrives
  and goes.

### WorkerDemandState, WorkerDemand

The first has the variables and the invariants, the second the steps. The compact mode, in which the worker exits when idle. `backlog` counts the
connections on the socket that systemd keeps, `senders` are the API after a
commit and the reconciling timer, `worker` is the process, `engine` the container
engine, `collector` who stops it, `deployment` the update that stops timers,
socket and worker in this order. `late` are the jobs committed after the ending
worker's last look at the database.

Simplified: a hint is a counted connection, since nobody acts on what its sender
learns; `Accept` takes all waiting connections; a job's lease is its state
(`JobLease` has the detail). A hint that is not sent because one of the same
process is in flight is lost here as in the code: the timer makes up for it.
The image manager and the setup also use the engine and are not modelled.

### UpdateDeployment

`manager` prepares an operation and asks for it, `requests` are helpers that have
been started and have not taken their lock, `helper` is the one that has; `journal`
is `operation.json`, `points` the recovery points, `operation` and `state` what
the manager records. The application is reduced to `data`, a count of the writes
of running services, `schema`, the latest migration, and `current`, the installed
release. A kill (`HelperKilled`), a crash of the manager, a reboot and failed
starts come between any two steps.

Simplified: `TimerFires` starts the stopped services whichever timer fires, though
`latex-renderer-worker-reconcile.timer` only sends a hint that does nothing unless
the socket listens; this adds behaviours and takes none away. A killed helper takes its descendants along in one step; the owner
recorded in the journal is subsumed by the lock; the two writes of the manager's
start of an operation are one step.

### Slips

An operator `X_Y`, such as `CanFinishFailure_Unfenced`, is `X` with a plausible
mistake. No specification uses it. `PROJECT.json` names the property that
notices the mistake when `X` is replaced by it.


## 4. The runs

| run | instance and bounds | checked |
|---|---|---|
| `leases` | 1 job, 2 worker processes, both may be alive; 1 stall, 1 Docker outage | `ArtifactsBacked`, `OneContainerPerJob`, `NoLeakedContainer`, `FencedWritesNothing`, `ImplementsLifecycle`, `EveryJobSettles` |
| `restarts` | 2 jobs, 3 processes one after the other | `OneContainer` is violated |
| `deletion` | 1 job, 2 downloads, 2 deletions asked for, 2 SVG retries, 3 cleanup attempts, 1 crash | `FilesMatchRows`, `ReadersUndisturbed`, `ResultKept`, `DeletionSettles` |
| `requeued` | 1 job, 1 deletion asked for, 1 SVG retry | `DeletionFromTerminal` is violated |
| `sources` | 1 source, 2 requests, 2 jobs | `ArchivesMatchRows`, `LateRequestHarmless`, `ImplementsSource`, `UploadSettles` |
| `stages` | 1 job, 2 processes, 2 mishaps or retries, 1 cancellation, downloads | `OutputsMatchRows`, `StagesFollowJob`, `PdfImmutable`, `StagedJobSettles` |
| `previews` | 1 page, 2 processes, 2 attempts, 3 mishaps, 1 ordinary job, the deletion of the PDF | `PreviewsMatchRows`, `OneContainer`, `DiskAccounted`, `PdfNotPulledAway`, `PreviewsSettle` |
| `trees` | 2 jobs of one or two sources, 2 processes, 2 tree ids, room for 1 tree, 2 mishaps, symmetry of trees and workers | `MountedStays`, `ReadyIsComplete`, `BudgetKept` |
| `remote_uploads` | 4 requests, 2 units, right, wrong and double chunks, 1 mishap | `OffsetBacked`, `ReadyVerified`, `UploadCompletes` |
| `demand` | 2 jobs, backlog 2, 1 fault, 1 deployment or overdue maintenance | `EngineKept`, `QuiescedStaysOff`, `HintRetained`, `JobsServed`, `SleepsAgain` |
| `updates` | 3 releases, 3 operations, 2 faults, 1 unrecorded deployment, 2 writes, 1 retained point | `UnitsRemembered`, `PendingPointKept`, `SchemaServesRelease`, `PointHoldsWhatItReplaces`, `OperationEnds`, `UnitsReturn` |
| `rollback` | 4 releases, 4 operations, 2 unrecorded deployments, no other fault | `SchemaServesRelease` is violated |

Each run takes between a few seconds and two and a half minutes (`trees` is the longest). No
run checks a type invariant: each component has one, and it is proved (section 5).

**Why the bounds are enough.** A fence is between two attempts on one row: two
workers are the holder and the one that takes over, and each may in turn be
fenced by the other (a stall, then a recovery, then a stall of the recovery). A
third process is needed exactly for `restarts`. In `deletion`, three attempts
separate the first, a middle and the last; a second deletion and a second retry
make each operation meet the state the other left. In `sources` two requests are
the late one and its successor, and the two jobs are the one reserved with the
source and one that refers to it later. In `stages` two mishaps allow an
attempt, or its failure record, to meet the directory number of an earlier stage. In `previews` one page is claimed by both processes
and three mishaps exhaust the attempts; `trees` has room for one tree and two
that want it. In `remote_uploads` two units are the first chunk and one that can
overlap it, and four requests let two overlap and two more finish. In `demand`
two jobs are the one whose hint woke the worker and the one that comes while it
closes. In `updates` three operations are one that fails, one on top of it and
one after; the crossing that `rollback` shows needs four releases and two
deployments the manager did not record, which is why `updates` with three and one
holds `SchemaServesRelease`.

**What the instance of `updates` assumes.** Each release accepts its predecessor
as the oldest source (`MinimumSource`), and release 2 alone declares itself
compatible with a rollback. A deployment is left out of the manager's state when
the manager crashes during it or its log cannot be written; that is budgeted
apart from the other faults (`MaxUnrecorded`). The theorem on `SchemaServesRelease`
needs as many of the latter and less of the manifests: releases may be skipped as far
as their manifests are true.

`CHECK_DEADLOCK FALSE` is set because the systems do stop: all jobs have ended and
no process is left to start, all jobs are deleted, all updates are done, or a
bounded instance has used its identities.

**Fairness.** Failures, stalls, outages and the steps of users are never fair.

* `JobLease`, `OutputStages`, `Previews`: systemd restarts the worker
  (`Restart=on-failure`; a clean stop is followed by a start when the host is
  up), its loop and timers run, timeouts and `docker stop` end every container,
  and a lease that nobody serves expires.
* `JobDeletion`: the timer starts the cleanup every hour, time passes, streams
  end. `SourceStore`: a request ends (Node limits how long a body may take), a
  claim that nobody extends lapses, and the cleanup runs.
* `RemoteUploads`: requests end, the cleanup runs, the lease of a dead request
  lapses, and the patient client asks again.
* `WorkerDemand`: timers and processes run. Strong fairness is used twice, where
  a step is retried every 100 ms, or lasts two seconds, and what is in its way
  comes once a minute: taking the shared lock (`PrepareEngine`) and the last look
  of a closing worker (`Close`).
* `UpdateDeployment`: the manager is restarted, the helper ends within its two
  hours, and a started helper is answered one way or the other.
* `SourceTrees` has no liveness property: a cache may always fall back to the
  private copy of a job.

### What the violated runs show

* **`restarts`.** A new worker waits for the jobs of the last process that
  wrote `worker_heartbeat` (`worker.ts:46-60`), under an identity that is drawn
  anew at each start. A first process dies with a container running; a second
  one starts, writes its heartbeat and dies; a third one looks for the second
  one's jobs, finds none, and starts a container although the first one's is
  still running under a lease that has not expired. The comment at
  `worker.ts:54-55` promises the opposite.
* **`requeued`.** A deletion that failed leaves `deletion_status='retry'` on the
  restored job. An SVG retry queues the job without looking at it, and when the
  retry is due the cleanup claims by that column alone, whatever the status
  (`cleanup.mjs:140-141`, `163-164`). The directory goes during the render,
  and a job the user has just retried is deleted.
* **`rollback`.** The manager records what to roll back to only after its helper
  is done (`update-manager.mjs:973-976`). Two deployments of which it kept no
  record, the first of them incompatible, leave the record of an earlier one, and
  a rollback then installs a release on a schema it was never declared to run on
  (`update-manager.mjs:1022`, `update-manager-helper.mjs:1062-1067`).

### Divergences seen without a run

* `JOB_LIFECYCLE.md:12` says that cancellation prevents queued work from entering
  `running`. When a worker dies between the request and its container, recovery
  puts the job back into the queue with the request still set, and the next claim
  runs it (`recovery.ts:75`, `repositories/worker.ts:349-364`). The monitor stops
  it within a second; `ImplementsLifecycle` holds: it never ends with a result.
* The same line says that a retry never rewrites the original record;
  `requeueSvg` does.
* With two worker processes alive, a builder of a source tree that stalls for
  the whole life of its lease can leave a directory that no row names
  (`source-tree-cache.ts:234-247`): `BudgetKept` is about one process at a time.
* `source-tree-cache.ts:47-48` says that readers hold their pins until their
  container is proven stopped. With two worker processes alive, one may stall for
  the life of its lease between the transition to `running`
  (`job-processor.ts:133-145`) and the start of its container. The other recovers
  lease and pin, finds no container to stop, and a collector may remove the tree
  after the daemon has mounted it, until `monitorJob` notices within a second that
  the lease is gone. `MountedStays` is therefore about one process at a time and,
  with two, about containers started under the lease; without `leased` in it TLC
  finds this behaviour.


## 5. The proofs

The theorems hold for any sets and any bounds. They assume what the modules' named
assumptions say (that the absent value is not a member, that bounds are naturals,
that there is a source in `SourceTrees`), which TLC evaluates in the runs, and
nothing else unless said. TLC checked each inductive invariant on the instance of
its run before it was proved.

### The worker: `JobLeaseProofs`

The lemmas on the statements of a row (`JobRow`) come first and are cited by the rest.

* `TypeCorrect` : `Spec => []TypeOK`. The invariant is inductive as it stands
  since it also says which processes have a job (`ProcState`, `RecState`) and
  which verdicts can become a status (`VerdictFits`).
* `ArtifactsAlwaysBacked` : `Spec => []ArtifactsBacked`. Not inductive: nothing
  in it keeps a process that removes a directory from removing one that has
  rows. `IInv` adds `Attempts` (no two busy processes have the same job and
  generation, and the row's generation is at least theirs) and `Publication`
  (until its own commit an attempt has no artifact rows, and what it commits it
  has renamed). A recovery or a claim raises the generation, so a new attempt
  has a fresh key; a fenced attempt may still remove its own directory, which by
  `Publication` no row names. The proof sorts steps by their effect: those that
  change rows without ending a job in a render result (`AllOrdinary`), the two
  commits (`Commits`), and those that only touch directories.
* `FencedWorkersWriteNothing` : `Spec => FencedWritesNothing`, from `TypeOK`: in
  each step of `processJob` and `recordFailure` the statement's WHERE clause is
  false for a worker whose lease is not the row's.
* `OneContainerEachJob` : `Spec => []OneContainerPerJob` and `ContainersNeverLeak` :
  `Spec => []NoLeakedContainer`. Both speak of runs in which no live holder of a
  lease has stalled past it (`stalls = 0`), and so does the invariant,
  `stalls = 0 => Exclusive`: from its claim until its container has ended a worker
  holds an unexpired lease (`Watchers`), and afterwards it has no container
  (`Departed`); a container belongs to the lease of its job (`HeldByJob`), a queued
  job has no lease (`QueuedFree`), and recovery that still has its claim knows every
  container of the job (`Known`), so that it frees the lease only after the last one
  has been stopped. The proof first sorts what a step can do to a lease
  (`SameLease`, `RunsOut`, `Freed`, or taken by a claim), then adds the containers.
* `RowsImplementLifecycle` : `Spec => ImplementsLifecycle`, the refinement of
  `JobLifecycle`. Every statement on a row is a step of the lifecycle or a stutter
  (`RowStatements`), every step of `JobLease` is one statement or the transaction
  that publishes (`OneStatement`, `Ends`). The proof needs from `PathInv` that no
  job returns to its upload, and that a job recovery found canceled stays so; and
  from `IInv` that what is published had no artifacts before.

### Deletion: `JobDeletionProofs`

* `DeletionTyped` : `Spec => []TypeOK`, inductive as it stands.
* `FilesMatch`, `ReadersLeftAlone`, `ResultsKept`. None is inductive: they relate
  rows, files and the cleanup, which change in different steps. `IInv` adds
  `Outcome` (a queued or running job has no result, an ended one none but its
  own), `Files` (what has artifact rows has a PDF or an end, and is whole until a
  deletion; a deleted job has left nothing), `Claims` (the job the cleanup is at
  is still claimed, nobody reads it, and what it removed is gone) and `Readers`
  (who reads under a lease reads what has artifact rows). A publication finds no
  artifact rows of what it publishes, so it disturbs nobody; a claimed job is
  neither at an end nor in work, so nobody can begin to read it.

### Sources: `SourceStoreProofs`

Besides `SourceStoreAssumption` each theorem assumes
`~SlowRemoval`: the `rm` of a failed request ends within the claim the request
has just renewed for it. Without it `LateRequestHarmless` is false (section 3).

* `SourcesTyped` : `Spec => []TypeOK`.
* `ArchivesMatch` : `Spec => []ArchivesMatchRows`. Not inductive: nothing in it
  keeps a request or the cleanup from removing an archive that has become ready.
  `IInv` adds `Claims` (a live claim means the upload is open; a ready source has
  used up its nonce, so nobody can own it), `Requests` (a request that renewed its
  claim to remove the archive still owns it; one that placed the archive and still
  owns the source finds it there), `Deletions` (deletion has not begun while the
  source can be used), `Removal` (the cleanup works on a row in `deleting`, and what
  it removed no request can put back), and `Bound` (the job reserved with a
  source refers to it). The first lemmas say what each statement does to a
  row; each action then has one lemma with one step per conjunct.
* `LateRequestsHarmless` : `Spec => LateRequestHarmless`, from `IInv`: the
  ownership check of every commit, abort and release fails for a request without
  the claim, and by `Requests` none is left about to remove an archive.
* `SourcesImplementLifecycle` : `Spec => ImplementsSource`. The lemmas reduce a step to
  what it does to the status, the archive and the use of one source (`StatusMoves`,
  `FileMoves`, `UseMoves`), and every action is one of these or the commit
  (`CommitMoves`), which alone does two things at once. `IInv` gives that an archive is
  in place when the commit makes a source ready, that deletion begins with an unused
  one (`Deletions`) and that no late request removes the archive of a ready one
  (`Requests`). `Opened` is added (what a request has taken up has been reserved);
  with it no archive appears for a source that was never opened.

### Remote uploads: `RemoteUploadsProofs`

* `UploadsTyped` : `Spec => []TypeOK`, for which `IInv` is needed too: that a
  ready row has no owner and that files exist only in the directory.
* `ReadyAlwaysVerified` : `Spec => []ReadyVerified`. The content is checked long
  before the row is ready and the lease may change hands in between. `Checked`
  carries the check over: from its verification on a request holds the declared
  archive, so whoever promotes, early or late, promotes the same. `Begun` and
  `Removal` say that the directory is removed only under a row that no upload
  comes back from, `Unopened` that nobody else is there before the upload is open.
* `OffsetAlwaysBacked` : `Spec => []OffsetBacked`. The offset is the end of a chain
  of chunks, a set of offsets that each begin where another chunk ends. A commit
  extends the set of such a chain by one, which needs `Written`: between write and
  commit the chunk is on disk and not empty, and nobody tidies before the upload is
  over. A second writer at the same offset finds the file there and leaves it
  (`ChunksStay`).
* `RemoteImplementsSource` : `Spec => Lifecycle!Spec`. `ReadyVerified` and `IInv` give
  the archive of a source that completes and that nobody removes it afterwards.
  `Erased` is added: the cleanup works on a row in `deleting`, and nothing of a
  source that is gone can come back, since a directory that `beginSourceUpload`
  makes too late has no request to fill it.

### Staged outputs: `OutputStagesProofs`

`TypeCorrect`, `PublishedIsOnDisk` (`OutputsMatchRows`), `StagesAlwaysFollow`
(`StagesFollowJob`) and `PdfNeverChanges` (`PdfImmutable`), from one invariant.
Directories are known by numbers derived from generations, and the danger is that a
process removes a number that another one has published.

* `Numbered`: a process at work has a generation that no other has, and what it
  will remove in a `finally` are its own two numbers.
* Before a commit, `NoPdfYet` (while an owner renders the PDF none is published) and
  `Placed` (what it is about to publish is on disk).
* After it, three reasons why nobody removes the directory. A `finally` has other
  numbers (`MineApart`). The diagnostics of generation g go to `outputs/g`, which
  may be the name of the PDF of generation g/2: `FailApart` says that a process at
  the end of a failure with such a number finds no PDF published there. And the
  pruning of a recovery keeps every reference as long as it has its claim (`Keeps`).
* `Leased`, `Unmade`, `PdfFirst` relate the lease, the stage rows and the places.

The proof first states, for each variable, what any step can do to it (`TurnChange`
for the job with its stages, `ProcChange`, `FilesChange`, `RecChange`); then each
conjunct has a lemma that needs only these.

### Previews: `PreviewsProofs`

`TypeCorrect` and `ListedPreviewsExist` (`PreviewsMatchRows`) hold whatever
processes are alive; `HostNeverShared` (`OneContainer`), `DiskAlwaysAccounted`
(`DiskAccounted`) and `MountedPdfKept` (`PdfNotPulledAway`) are about one process at
a time, as the properties are. The invariant follows a conversion: at most one
request runs, and none beside an ordinary job (`HostShared`); a process that converts
owns the request that runs, its reservation and the PDF (`Converting`); a container
belongs to that request (`Mounted`) until whoever gives the request up has stopped
it (`Stopped`); and it is given up when nothing of it is on disk (`WorkGone`,
`ImageGone`). `ImageKept` says that no process removes an image another one can
still commit. The constants must keep `NoOwner` apart from owners and workers.

### Source trees: `SourceTreesProofs`

`TypeCorrect`, `MountsNeverRemoved` (`MountedStays`), `ReadyAlwaysComplete`
(`ReadyIsComplete`) and `BudgetAlwaysKept` (`BudgetKept`, with one process at a time).
The argument is a chain from a container to the row of its tree:

* `Kept`: an attempt that has the lease has the pin of its tree. It was taken with
  the tree, and others free it only after the lease is over for good.
* `Held`: every container that was started under the lease has a pin. Its pin is freed
  only by its own attempt, which has no container by then (`Contained`), or by a
  recovery after the lease is over and the container was stopped: what the daemon
  starts after that is not `leased` (`Recovering`, `OneAttempt`, `Reached`).
* `PinsUsable`, `Victims`: a pinned tree is not being removed, and what is being
  removed cannot be pinned.
* `Filled`: what may be published or mounted has its input on disk.
* `Distinct` and `Budget`: one row of a source, and no more rows than there is room
  for; `Alone` adds that with one process at a time each directory has a row, since
  no row goes before its directory, and that every container is `leased`, since
  nobody else is there to take the lease of an attempt that is about to start it.

### Deployments: `DeploymentProofs`

*Update deployment.* `UpdatesTyped`, and `UnitsAlwaysRemembered`,
`PendingPointsKept`, `PointsHoldWhatTheyReplace` from `Recovery`, which relates the
journal, the store and the units to where the helper is: `Journalled` (it names every
unit or there is nothing to restore), `HelperJournals`, `Quiet` (what is stopped stays
so until the release has been switched), `PointNamed` and `PointFresh` (the point
just made holds what the deployment will replace, since nothing writes).

`SchemaAlwaysServes` : `Spec => []SchemaServesRelease`, provided that at most one
deployment goes unrecorded (`MaxUnrecorded <= 1`) and that a release which declares
itself compatible with a rollback accepts no older source than one to which the
rollback is safe (`Declared`). `rollback` breaks the first and violates the property.
The second is what the code trusts the manifests with: `MIGRATIONS.md:7-12` asks the
author of a release for it ("raise `minimumSourceVersion` whenever skipping older
releases would be unsafe"), and nothing can check it. For any releases, any number of operations, kills and
reboots, `SchemaInv` relates three views of the release: the one installed, the one
the manager knows and the one its record of the last deployment is about.

* `LockHeld`, `OneEach`, `Answers`, `Leads`: one manager or one helper, each operation
  with one request or one helper, which is what the waiting manager asked for.
* `Checked`: what the helper verified under the lock still holds until it switches.
* `Backs`: every rollback that is asked for, by hand or by a manager that found its
  deployment failed, leads over releases that are all compatible.
* `Strays`: at most one request or helper of a manager that has left is still to come,
  from a release that the manager has behind it or has rolled back over. `Steady`:
  until it has, the manager's record is exact. `Near`: afterwards it is off by one
  deployment, and if the installed release is compatible, so is every one between it
  and the recorded one. A second unrecorded deployment would break `Near`.

*Worker on demand.* The module takes the steps as
`Wake == INSTANCE WorkerDemand WITH count <- tally`, next to those of the
deployment; what `WorkerDemand` assumes of its bounds is the hypothesis `WakeBounds`.
`DemandTyped`, and `EngineAlwaysKept`, `QuiescedStay`, `HintsRetained` from one
invariant. `Locks`: under the exclusive lock no worker was promised the engine, and
before the stop no container was left. `Stops`: from the stop of the listener to its
restoration the socket is closed and empty, and a process told to end does not fail
(which would restart it). `Hints`: a closing or ended worker that leaves work found
at its last look leaves a connection.

### Only model-checked

The liveness properties, since liveness under fairness is out of the proof system's
reach. Every safety, action and refinement property that a run checks is proved. Three
of these proofs have hypotheses beyond the modules' named assumptions:
`~SlowRemoval` in `SourceStoreProofs`, `MaxUnrecorded <= 1` and `Declared` for
`SchemaAlwaysServes`, and the bounds of `WorkerDemand`, stated as `WakeBounds`.
`RemoteImplementsSource` is proved and has no run of its own.


## 6. Not modelled, and why

* Cryptography, request parsing, ZIP and log parsing, LaTeX itself and file
  formats: sequential data, no shared state. They are most of the code by lines,
  together with the front ends, the tools of the MCP servers, setup and tests.
* Front ends, gateways, the MCP server and the command line client: no state of
  their own on the host. The client's installation of downloaded artifacts is a
  local transaction on the user's machine.
* OAuth of remote MCP (the rotation of refresh tokens and its grace of 30 s for a
  replay), and the repositories of users, settings, tokens and audit records:
  rows changed by single statements.
* Of the deployment: the bootstrap and the initial installation, the slots of the
  updater itself, the publication and retention of releases, the collection of
  logs, the `create` verb of the recovery tool, backups, the image manager, and a
  crash between the manager's two records at the start of an operation. The
  mutation lock is the kernel's `flock`.
* A canceled job that is deleted under its dead worker's lease
  (`repositories/jobs.ts:378`): `JobLease` and `JobDeletion` are not composed.
* The limit of 100 rows per cleanup pass is above any instance that can be checked.
