----------------------------- MODULE SourceStore -----------------------------
(***************************************************************************)
(* Sources, the ZIP archives jobs are rendered from: reserved together     *)
(* with a single-use upload nonce (with a job of their own or without),    *)
(* uploaded by HTTP requests of the renderer API, referenced by jobs and   *)
(* projects, and expired and deleted by the cleanup process.               *)
(*                                                                         *)
(* An upload request holds the nonce under a claim that an interval timer  *)
(* extends; `lapsed` says that claim_expires_at has passed.  `over` and    *)
(* `old` say the same of the ticket and of the source's orphan deadline.   *)
(* All requests of one source carry the same bytes (size and SHA-256 are   *)
(* in the ticket), so the archive is just there or not.  A transaction is  *)
(* one step; the statements of the cleanup outside of a transaction are    *)
(* one step each, in any order.                                            *)
(***************************************************************************)
EXTENDS Naturals

CONSTANTS Source, Job,
          Upload,        \* upload requests that may be under way at once
          None,          \* no source, no job, no request
          SlowRemoval    \* a failed request's rm may outlast its renewed claim

ASSUME SourceStoreAssumption == /\ None \notin Source \cup Job \cup Upload
                                /\ SlowRemoval \in BOOLEAN

VARIABLES sources,   \* the rows of table sources
          nonces,    \* their upload nonces
          jobs,      \* the rows of table jobs, as far as sources matter
          projects,  \* sources with a revision in an undeleted project
          stored,    \* sources whose archive is at its final path
          temp,      \* requests whose temporary file exists
          uploads,   \* each upload request
          cleaner    \* the cleanup process, deleting a source

vars == <<sources, nonces, jobs, projects, stored, temp, uploads, cleaner>>

SourceRow == [status   : {"none", "reserved", "uploading", "ready", "expired",
                          "deleting", "deleted"},
              deletion : {"retained", "pending", "deleting", "retry", "failed",
                          "deleted"},
              old      : BOOLEAN]

Nonce == [state  : {"unused", "claimed", "consumed", "released", "expired"},
          owner  : Upload \cup {None},
          lapsed : BOOLEAN,
          over   : BOOLEAN,
          job    : Job \cup {None}]     \* the job reserved with the source

JobRow == [status : {"none", "reserved", "uploading", "queued", "ended",
                     "expired", "deleting", "deleted"},
           source : Source \cup {None}]

Request == [pc     : {"off", "writing", "asserted", "placed", "failing",
                      "retained", "removed"},
            source : Source \cup {None}]

Off  == [pc |-> "off", source |-> None]
Idle == [pc |-> "idle", source |-> None]

Init == /\ sources = [s \in Source |-> [status |-> "none", deletion |-> "retained",
                                        old |-> FALSE]]
        /\ nonces = [s \in Source |-> [state |-> "unused", owner |-> None,
                       lapsed |-> FALSE, over |-> FALSE, job |-> None]]
        /\ jobs = [j \in Job |-> [status |-> "none", source |-> None]]
        /\ projects = {} /\ stored = {} /\ temp = {}
        /\ uploads = [u \in Upload |-> Off]
        /\ cleaner = Idle

-----------------------------------------------------------------------------
(* References.                                                             *)

\* sourceReferenceCountSql: jobs and projects.
Referrers(s)  == {j \in Job : /\ jobs[j].source = s
                             /\ jobs[j].status \notin {"none", "deleted", "expired"}}
Referenced(s) == Referrers(s) # {} \/ s \in projects

\* readySourceSql
Ready(s) == sources[s].status = "ready" /\ (~sources[s].old \/ Referenced(s))

\* The job of an upload nonce follows the source; jobs already elsewhere stay.
JobOf(s, from, to) ==
    jobs' = [j \in Job |-> IF j = nonces[s].job /\ jobs[j].status = from
                           THEN [jobs[j] EXCEPT !.status = to] ELSE jobs[j]]

JobIs(s, status) == nonces[s].job # None => jobs[nonces[s].job].status = status

Reserve(s, j) ==
    /\ sources[s].status = "none"
    /\ j # None => jobs[j].status = "none"
    /\ sources' = [sources EXCEPT ![s].status = "reserved"]
    /\ nonces' = [nonces EXCEPT ![s].job = j]
    /\ jobs' = [k \in Job |-> IF k = j THEN [status |-> "reserved", source |-> s]
                              ELSE jobs[k]]
    /\ UNCHANGED <<projects, stored, temp, uploads, cleaner>>

\* A job on a source that is there: a render request or the retry of a job.
Queue(j, s) ==
    /\ jobs[j].status = "none" /\ Ready(s)
    /\ jobs' = [jobs EXCEPT ![j] = [status |-> "queued", source |-> s]]
    /\ UNCHANGED <<sources, nonces, projects, stored, temp, uploads, cleaner>>

\* A job ends, or is canceled before that.
EndJob(j) ==
    /\ jobs[j].status \in {"reserved", "uploading", "queued"}
    /\ jobs' = [jobs EXCEPT ![j].status = "ended"]
    /\ UNCHANGED <<sources, nonces, projects, stored, temp, uploads, cleaner>>

\* A user or the cleanup deletes a job; an expired one is a reference again.
MarkJobDeleting(j) ==
    /\ jobs[j].status \in {"ended", "expired"}
    /\ jobs' = [jobs EXCEPT ![j].status = "deleting"]
    /\ UNCHANGED <<sources, nonces, projects, stored, temp, uploads, cleaner>>

\* With its last reference gone a ready source has reached its deadline.
DeleteJob(j) ==
    /\ jobs[j].status = "deleting"
    /\ jobs' = [jobs EXCEPT ![j].status = "deleted"]
    /\ LET s == jobs[j].source
           lastOne == sources[s].status = "ready" /\ Referrers(s) = {j}
                      /\ s \notin projects
       IN sources' = [sources EXCEPT ![s].old = @ \/ lastOne]
    /\ UNCHANGED <<nonces, projects, stored, temp, uploads, cleaner>>

AttachRevision(s) ==
    /\ Ready(s) /\ s \notin projects
    /\ projects' = projects \cup {s}
    /\ UNCHANGED <<sources, nonces, jobs, stored, temp, uploads, cleaner>>

DeleteProject(s) ==
    /\ s \in projects
    /\ projects' = projects \ {s}
    /\ UNCHANGED <<sources, nonces, jobs, stored, temp, uploads, cleaner>>

-----------------------------------------------------------------------------
(* uploadSharedSource.                                                     *)

LiveClaim(s) == nonces[s].state = "claimed" /\ ~nonces[s].lapsed

\* The WHERE clause of the statements that extend, consume and release a claim.
Owns(u) == LET s == uploads[u].source
           IN s # None /\ LiveClaim(s) /\ nonces[s].owner = u

Step(u, pc) == uploads' = [uploads EXCEPT ![u].pc = pc]

Begin(u, s) ==
    /\ uploads[u].pc = "off" /\ sources[s].status = "reserved"
    /\ nonces[s].state \in {"unused", "released"} /\ ~nonces[s].over
    /\ JobIs(s, "reserved")
    /\ nonces' = [nonces EXCEPT ![s].state = "claimed", ![s].owner = u,
                                ![s].lapsed = FALSE]
    /\ sources' = [sources EXCEPT ![s].status = "uploading"]
    /\ JobOf(s, "reserved", "uploading")
    /\ uploads' = [uploads EXCEPT ![u] = [pc |-> "writing", source |-> s]]
    /\ temp' = temp \cup {u}
    /\ UNCHANGED <<projects, stored, cleaner>>

\* heartbeat.assertOwned, once the body is written and inspected.
AssertOwned(u) ==
    /\ uploads[u].pc = "writing"
    /\ Step(u, IF Owns(u) THEN "asserted" ELSE "failing")
    /\ UNCHANGED <<sources, nonces, jobs, projects, stored, temp, cleaner>>

\* rename; the cleanup may have removed the directory with the temporary file.
Place(u) ==
    /\ uploads[u].pc = "asserted"
    /\ IF u \in temp
       THEN /\ stored' = stored \cup {uploads[u].source}
            /\ temp' = temp \ {u}
            /\ Step(u, "placed")
       ELSE Step(u, "failing") /\ UNCHANGED <<stored, temp>>
    /\ UNCHANGED <<sources, nonces, jobs, projects, cleaner>>

CanCommit_Unowned(u) == sources[uploads[u].source].status = "uploading"
CanCommit(u) == /\ Owns(u) /\ sources[uploads[u].source].status = "uploading"
                /\ JobIs(uploads[u].source, "uploading")

Commit(u) ==
    /\ uploads[u].pc = "placed"
    /\ LET s == uploads[u].source IN
       IF CanCommit(u)
       THEN /\ nonces' = [nonces EXCEPT ![s].state = "consumed", ![s].lapsed = FALSE]
            /\ sources' = [sources EXCEPT ![s].status = "ready", ![s].old = FALSE]
            /\ JobOf(s, "uploading", "queued")
            /\ uploads' = [uploads EXCEPT ![u] = Off]
       ELSE Step(u, "failing") /\ UNCHANGED <<sources, nonces, jobs>>
    /\ UNCHANGED <<projects, stored, temp, cleaner>>

\* The client goes away, the archive is not what the ticket says, the disk is
\* full, maintenance begins, or the database refuses.
Abort(u) ==
    /\ uploads[u].pc \in {"writing", "asserted", "placed"}
    /\ Step(u, "failing")
    /\ UNCHANGED <<sources, nonces, jobs, projects, stored, temp, cleaner>>

\* heartbeat.tryRetain; a timer that failed once never retains.
MayRemove_Always(u) == TRUE
MayRemove(u) == Owns(u)

GiveUp(u) ==
    /\ uploads[u].pc = "failing"
    /\ temp' = temp \ {u}
    /\ \/ MayRemove(u) /\ Step(u, "retained")
       \/ uploads' = [uploads EXCEPT ![u] = Off]
    /\ UNCHANGED <<sources, nonces, jobs, projects, stored, cleaner>>

Remove(u) ==
    /\ uploads[u].pc = "retained"
    /\ stored' = stored \ {uploads[u].source}
    /\ Step(u, "removed")
    /\ UNCHANGED <<sources, nonces, jobs, projects, temp, cleaner>>

Release(u) ==
    /\ uploads[u].pc = "removed"
    /\ LET s == uploads[u].source IN
       IF Owns(u)
       THEN /\ nonces' = [nonces EXCEPT ![s].state = "released", ![s].owner = None]
            /\ sources' = [sources EXCEPT ![s].status =
                             IF @ = "uploading" THEN "reserved" ELSE @]
            /\ JobOf(s, "uploading", "reserved")
       ELSE UNCHANGED <<sources, nonces, jobs>>
    /\ uploads' = [uploads EXCEPT ![u] = Off]
    /\ UNCHANGED <<projects, stored, temp, cleaner>>

\* The API process dies with all its requests; temporary files stay behind.
Crash ==
    /\ \E u \in Upload : uploads[u].pc # "off"
    /\ uploads' = [u \in Upload |-> Off]
    /\ UNCHANGED <<sources, nonces, jobs, projects, stored, temp, cleaner>>

-----------------------------------------------------------------------------
(* Time.                                                                   *)

\* Two minutes without an extension: the process is dead or stalled, or the
\* database refused the timer.
Lapse(s) ==
    /\ LiveClaim(s)
    /\ \/ SlowRemoval
       \/ \A u \in Upload : uploads[u].pc \in {"retained", "removed"}
                              => uploads[u].source # s
    /\ nonces' = [nonces EXCEPT ![s].lapsed = TRUE]
    /\ UNCHANGED <<sources, jobs, projects, stored, temp, uploads, cleaner>>

\* The ticket and the reservation expire together.
TicketExpires(s) ==
    /\ sources[s].status # "none" /\ ~nonces[s].over
    /\ nonces' = [nonces EXCEPT ![s].over = TRUE]
    /\ sources' = [sources EXCEPT ![s].old =
                     @ \/ (sources[s].status \in {"reserved", "uploading"})]
    /\ UNCHANGED <<jobs, projects, stored, temp, uploads, cleaner>>

OrphanDeadline(s) ==
    /\ sources[s].status = "ready" /\ ~sources[s].old
    /\ sources' = [sources EXCEPT ![s].old = TRUE]
    /\ UNCHANGED <<nonces, jobs, projects, stored, temp, uploads, cleaner>>

-----------------------------------------------------------------------------
(* The cleanup process.                                                    *)

\* The nonce a recovery leaves.
Recovered(nonce) ==
    [nonce EXCEPT !.state = IF nonce.over THEN "expired" ELSE "released",
                  !.owner = None, !.lapsed = FALSE]

\* recoverStaleJobUploads, recoverStaleSourceUploads
RecoverUpload_NonceOnly(s) ==
    /\ nonces[s].state = "claimed" /\ nonces[s].lapsed
    /\ nonces' = [nonces EXCEPT ![s] = Recovered(@)]
    /\ UNCHANGED <<sources, jobs, projects, stored, temp, uploads, cleaner>>
RecoverUpload_Revives(s) ==
    /\ nonces[s].state = "claimed" /\ nonces[s].lapsed
    /\ nonces' = [nonces EXCEPT ![s] = Recovered(@)]
    /\ sources' = [sources EXCEPT ![s].status = "reserved"]
    /\ JobOf(s, "uploading", "reserved")
    /\ UNCHANGED <<projects, stored, temp, uploads, cleaner>>
RecoverUpload(s) ==
    /\ nonces[s].state = "claimed" /\ nonces[s].lapsed
    /\ nonces' = [nonces EXCEPT ![s] = Recovered(@)]
    /\ sources' = [sources EXCEPT ![s].status = IF @ = "uploading" THEN "reserved" ELSE @]
    /\ JobOf(s, "uploading", "reserved")
    /\ UNCHANGED <<projects, stored, temp, uploads, cleaner>>

ExpireJob(j) ==
    /\ jobs[j].status \in {"reserved", "uploading"}
    /\ ~\E s \in Source : nonces[s].job = j /\ LiveClaim(s)
    /\ jobs' = [jobs EXCEPT ![j].status = "expired"]
    /\ UNCHANGED <<sources, nonces, projects, stored, temp, uploads, cleaner>>

ExpireNonce(s) ==
    /\ nonces[s].state \in {"unused", "released"} /\ nonces[s].over
    /\ nonces' = [nonces EXCEPT ![s].state = "expired", ![s].owner = None]
    /\ UNCHANGED <<sources, jobs, projects, stored, temp, uploads, cleaner>>

ExpireSource(s) ==
    /\ sources[s].status \in {"reserved", "uploading"} /\ sources[s].old
    /\ ~LiveClaim(s)
    /\ sources' = [sources EXCEPT ![s].status = "expired"]
    /\ UNCHANGED <<nonces, jobs, projects, stored, temp, uploads, cleaner>>

MarkDeleting(s) ==
    /\ sources[s].status \in {"ready", "expired"} /\ ~Referenced(s)
    /\ sources' = [sources EXCEPT ![s].status = "deleting", ![s].deletion = "pending"]
    /\ UNCHANGED <<nonces, jobs, projects, stored, temp, uploads, cleaner>>

CanDelete(s) ==
    /\ ~Referenced(s)
    /\ \/ /\ sources[s].status \in {"ready", "expired"}
          /\ sources[s].deletion = "retained" /\ sources[s].old
       \/ /\ sources[s].status = "deleting"
          /\ sources[s].deletion \in {"retained", "pending", "deleting"}
       \/ sources[s].deletion \in {"pending", "deleting", "retry"}

ClaimDeletion(s) ==
    /\ cleaner = Idle /\ CanDelete(s)
    /\ sources' = [sources EXCEPT ![s].status = "deleting", ![s].deletion = "deleting"]
    /\ cleaner' = [pc |-> "claimed", source |-> s]
    /\ UNCHANGED <<nonces, jobs, projects, stored, temp, uploads>>

\* The directory of the source goes, temporary files included.
RemoveArchive ==
    /\ cleaner.pc = "claimed"
    /\ stored' = stored \ {cleaner.source}
    /\ temp' = {u \in temp : uploads[u].source # cleaner.source}
    /\ cleaner' = [cleaner EXCEPT !.pc = "removed"]
    /\ UNCHANGED <<sources, nonces, jobs, projects, uploads>>

RemovalFails ==
    /\ cleaner.pc = "claimed"
    /\ stored' \in {stored, stored \ {cleaner.source}}
    /\ cleaner' = [cleaner EXCEPT !.pc = "failed"]
    /\ UNCHANGED <<sources, nonces, jobs, projects, temp, uploads>>

BeingDeleted(s) == sources[s].status = "deleting" /\ sources[s].deletion = "deleting"

FinishDeletion ==
    /\ cleaner.pc = "removed"
    /\ LET s == cleaner.source IN
       IF BeingDeleted(s) /\ ~Referenced(s)
       THEN /\ sources' = [sources EXCEPT ![s].status = "deleted",
                                          ![s].deletion = "deleted"]
            /\ cleaner' = Idle
       ELSE cleaner' = [cleaner EXCEPT !.pc = "failed"] /\ UNCHANGED sources
    /\ UNCHANGED <<nonces, jobs, projects, stored, temp, uploads>>

FailDeletion ==
    /\ cleaner.pc = "failed"
    /\ LET s == cleaner.source IN
       \E d \in {"retry", "failed"} :
         sources' = [sources EXCEPT ![s] =
                       IF BeingDeleted(s)
                       THEN [@ EXCEPT !.status = "expired", !.deletion = d] ELSE @]
    /\ cleaner' = Idle
    /\ UNCHANGED <<nonces, jobs, projects, stored, temp, uploads>>

CleanerCrash ==
    /\ cleaner # Idle
    /\ cleaner' = Idle
    /\ UNCHANGED <<sources, nonces, jobs, projects, stored, temp, uploads>>

-----------------------------------------------------------------------------

Uploading(u) == \/ \E s \in Source : Begin(u, s)
                \/ AssertOwned(u) \/ Place(u) \/ Commit(u)
                \/ Abort(u) \/ GiveUp(u) \/ Remove(u) \/ Release(u)

Cleaning == \/ \E s \in Source : \/ RecoverUpload(s) \/ ExpireNonce(s)
                                 \/ ExpireSource(s) \/ ClaimDeletion(s)
            \/ \E j \in Job : ExpireJob(j)
            \/ RemoveArchive \/ RemovalFails \/ FinishDeletion \/ FailDeletion
            \/ CleanerCrash

Next == \/ \E u \in Upload : Uploading(u)
        \/ Cleaning \/ Crash
        \/ \E s \in Source : \/ \E j \in Job \cup {None} : Reserve(s, j)
                             \/ \E j \in Job : Queue(j, s)
                             \/ AttachRevision(s) \/ DeleteProject(s)
                             \/ MarkDeleting(s)
                             \/ Lapse(s) \/ TicketExpires(s) \/ OrphanDeadline(s)
        \/ \E j \in Job : EndJob(j) \/ MarkJobDeleting(j) \/ DeleteJob(j)

Spec == Init /\ [][Next]_vars

\* A claim nobody extends lapses.
Deserted(s) == \A u \in Upload : ~(uploads[u].source = s /\ Owns(u))

\* Requests end (Node limits how long a body may take), and the cleanup is
\* started every hour.
Fairness == /\ \A u \in Upload : WF_vars(Uploading(u) /\ uploads[u].pc # "off")
            /\ \A s \in Source : /\ WF_vars(Deserted(s) /\ Lapse(s))
                                 /\ WF_vars(RecoverUpload(s))

FairSpec == Spec /\ Fairness

-----------------------------------------------------------------------------
(* Properties.                                                             *)

\* Every variable is in its range, a nonce has an owner exactly while it is
\* claimed or consumed, and a job without a source does not exist.
TypeOK == /\ sources \in [Source -> SourceRow]
          /\ nonces \in [Source -> Nonce]
          /\ jobs \in [Job -> JobRow]
          /\ projects \subseteq Source /\ stored \subseteq Source /\ temp \subseteq Upload
          /\ uploads \in [Upload -> Request]
          /\ cleaner \in [pc : {"idle", "claimed", "removed", "failed"},
                          source : Source \cup {None}]
          /\ \A s \in Source : nonces[s].owner # None
                                 <=> nonces[s].state \in {"claimed", "consumed"}
          /\ \A j \in Job : jobs[j].status # "none" => jobs[j].source # None

\* A ready source has its archive, a queued job and a project revision have a
\* ready source, and a deleted source left nothing behind - although a failed
\* request and the cleanup both remove archives, and neither locks the row.
ArchivesMatchRows ==
    /\ \A s \in Source : /\ sources[s].status = "ready" => s \in stored
                         /\ sources[s].status = "deleted" => s \notin stored
                         /\ s \in projects => sources[s].status = "ready"
    /\ \A j \in Job : jobs[j].status = "queued" => sources[jobs[j].source].status = "ready"

\* A request whose claim ran out or was taken over, whatever it still does,
\* leaves the rows and the archives alone (upload.ts: a timed-out writer must
\* never remove an archive or reset state owned by a retry).
LateRequestHarmless ==
    [][\A u \in Upload :
         uploads[u].pc # "off" /\ uploads'[u] # uploads[u] /\ ~Owns(u)
         => UNCHANGED <<sources, nonces, jobs>> /\ stored \subseteq stored']_vars

\* No upload stays open: a source that is being uploaded becomes ready, or is
\* reserved again for another attempt, even when the API process dies.
UploadSettles ==
    \A s \in Source : sources[s].status = "uploading" ~> sources[s].status # "uploading"

\* The rows, the archives and the references, read as the promise of SourceLifecycle.
PhaseOf(status) == CASE status \in {"reserved", "uploading"} -> "open"
                     [] status \in {"expired", "deleting"}   -> "leaving"
                     [] status = "deleted"                   -> "gone"
                     [] OTHER                                -> status
InUse(s)  == s \in projects \/ \E j \in Job : jobs[j].status = "queued" /\ jobs[j].source = s
Lifecycle == INSTANCE SourceLifecycle
    WITH phase <- [s \in Source |-> PhaseOf(sources[s].status)],
         filed <- [s \in Source |-> s \in stored],
         used  <- [s \in Source |-> InUse(s)]

\* Whatever requests, the clock and the cleanup do between their statements, a source is
\* used only while it is ready, goes only unused, and never comes back ("neither
\* references nor expiry revive a non-ready row", source-lifecycle.ts:39).
ImplementsSource == Lifecycle!Spec
=============================================================================
