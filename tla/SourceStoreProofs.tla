-------------------------- MODULE SourceStoreProofs --------------------------
(***************************************************************************)
(* Archives and rows of SourceStore agree, for any number of sources,      *)
(* requests and jobs, provided that the rm of a failed request does not    *)
(* outlast the claim it has just renewed (~SlowRemoval).                   *)
(*                                                                         *)
(* First, what each kind of write does to a row; then, one lemma for each  *)
(* action that it keeps the inductive invariant; then the theorems; and    *)
(* then, for one source at a time, that each step is one of                *)
(* SourceLifecycle or changes nothing that it speaks of.                   *)
(***************************************************************************)
EXTENDS SourceStore, TLAPS

-----------------------------------------------------------------------------
(* What a step does to one row, and what it leaves alone.                  *)

\* Source s goes to a status and a deletion status; the others keep theirs.
SourceGoes(s, status, deletion) ==
    /\ sources' \in [Source -> SourceRow]
    /\ sources'[s].status = status /\ sources'[s].deletion = deletion
    /\ \A t \in Source \ {s} : sources'[t] = sources[t]

\* The nonce of s goes to a state; its job and the other nonces stay.
NonceGoes(s, state, owner, lapsed) ==
    /\ nonces' \in [Source -> Nonce]
    /\ nonces'[s].state = state /\ nonces'[s].owner = owner
    /\ nonces'[s].lapsed = lapsed /\ nonces'[s].job = nonces[s].job
    /\ \A t \in Source \ {s} : nonces'[t] = nonces[t]

\* Job j goes to a status and a source; the others stay.
JobGoes(j, status, source) ==
    /\ jobs' \in [Job -> JobRow]
    /\ jobs'[j].status = status /\ jobs'[j].source = source
    /\ \A k \in Job \ {j} : jobs'[k] = jobs[k]

\* Request u goes to a place and a source; the others stay.
RequestGoes(u, pc, source) ==
    /\ uploads' \in [Upload -> Request]
    /\ uploads'[u].pc = pc /\ uploads'[u].source = source
    /\ \A v \in Upload \ {u} : uploads'[v] = uploads[v]

\* Writing a row, a status, a status with a deletion status, and a deadline.
LEMMA SourceSet ==
  ASSUME TypeOK, NEW s \in Source, NEW row \in SourceRow, sources' = [sources EXCEPT ![s] = row]
  PROVE  SourceGoes(s, row.status, row.deletion)
  BY DEF TypeOK, SourceGoes

LEMMA SourceStatus ==
  ASSUME TypeOK, NEW s \in Source, NEW status,
         status \in {"none", "reserved", "uploading", "ready", "expired", "deleting", "deleted"},
         sources' = [sources EXCEPT ![s].status = status]
  PROVE  SourceGoes(s, status, sources[s].deletion)
<1> DEFINE row == [sources[s] EXCEPT !.status = status]
<1>1. row \in SourceRow /\ row.status = status /\ row.deletion = sources[s].deletion
  BY DEF TypeOK, SourceRow
<1>2. sources' = [sources EXCEPT ![s] = row]
  OBVIOUS
<1> HIDE DEF row
<1> QED
  BY <1>1, <1>2, SourceSet

LEMMA SourceDeletion ==
  ASSUME TypeOK, NEW s \in Source, NEW status, NEW deletion,
         status \in {"none", "reserved", "uploading", "ready", "expired", "deleting", "deleted"},
         deletion \in {"retained", "pending", "deleting", "retry", "failed", "deleted"},
         sources' = [sources EXCEPT ![s].status = status, ![s].deletion = deletion]
  PROVE  SourceGoes(s, status, deletion)
<1> DEFINE row == [sources[s] EXCEPT !.status = status, !.deletion = deletion]
<1>1. row \in SourceRow /\ row.status = status /\ row.deletion = deletion
  BY DEF TypeOK, SourceRow
<1>2. sources' = [sources EXCEPT ![s] = row]
  BY DEF TypeOK
<1> HIDE DEF row
<1> QED
  BY <1>1, <1>2, SourceSet

LEMMA SourceAge ==
  ASSUME TypeOK, NEW s \in Source, NEW old \in BOOLEAN,
         sources' = [sources EXCEPT ![s].old = old]
  PROVE  SourceGoes(s, sources[s].status, sources[s].deletion)
<1> DEFINE row == [sources[s] EXCEPT !.old = old]
<1>1. row \in SourceRow /\ row.status = sources[s].status /\ row.deletion = sources[s].deletion
  BY DEF TypeOK, SourceRow
<1>2. sources' = [sources EXCEPT ![s] = row]
  OBVIOUS
<1> HIDE DEF row
<1> QED
  BY <1>1, <1>2, SourceSet

\* Writing a nonce: claim, consumption, release, recovery and the clock.
LEMMA NonceSet ==
  ASSUME TypeOK, NEW s \in Source, NEW nonce \in Nonce, nonces' = [nonces EXCEPT ![s] = nonce],
         nonce.job = nonces[s].job
  PROVE  NonceGoes(s, nonce.state, nonce.owner, nonce.lapsed)
  BY DEF TypeOK, NonceGoes

LEMMA NonceClaimed ==
  ASSUME TypeOK, NEW u \in Upload, NEW s \in Source,
         nonces' = [nonces EXCEPT ![s].state = "claimed", ![s].owner = u, ![s].lapsed = FALSE]
  PROVE  NonceGoes(s, "claimed", u, FALSE)
<1> DEFINE n == [nonces[s] EXCEPT !.state = "claimed", !.owner = u, !.lapsed = FALSE]
<1>1. n \in Nonce /\ n.state = "claimed" /\ n.owner = u /\ n.lapsed = FALSE /\ n.job = nonces[s].job
  BY DEF TypeOK, Nonce
<1>2. nonces' = [nonces EXCEPT ![s] = n]
  BY DEF TypeOK
<1> HIDE DEF n
<1> QED
  BY <1>1, <1>2, NonceSet

LEMMA NonceConsumed ==
  ASSUME TypeOK, NEW s \in Source,
         nonces' = [nonces EXCEPT ![s].state = "consumed", ![s].lapsed = FALSE]
  PROVE  NonceGoes(s, "consumed", nonces[s].owner, FALSE)
<1> DEFINE n == [nonces[s] EXCEPT !.state = "consumed", !.lapsed = FALSE]
<1>1. n \in Nonce /\ n.state = "consumed" /\ n.owner = nonces[s].owner /\ n.lapsed = FALSE
      /\ n.job = nonces[s].job
  BY DEF TypeOK, Nonce
<1>2. nonces' = [nonces EXCEPT ![s] = n]
  BY DEF TypeOK
<1> HIDE DEF n
<1> QED
  BY <1>1, <1>2, NonceSet

LEMMA NonceFreed ==
  ASSUME TypeOK, NEW s \in Source, NEW state \in {"released", "expired"},
         nonces' = [nonces EXCEPT ![s].state = state, ![s].owner = None]
  PROVE  NonceGoes(s, state, None, nonces[s].lapsed)
<1> DEFINE n == [nonces[s] EXCEPT !.state = state, !.owner = None]
<1>1. n \in Nonce /\ n.state = state /\ n.owner = None /\ n.lapsed = nonces[s].lapsed
      /\ n.job = nonces[s].job
  BY DEF TypeOK, Nonce
<1>2. nonces' = [nonces EXCEPT ![s] = n]
  BY DEF TypeOK
<1> HIDE DEF n
<1> QED
  BY <1>1, <1>2, NonceSet

LEMMA NonceRecovered ==
  ASSUME TypeOK, NEW s \in Source, nonces' = [nonces EXCEPT ![s] = Recovered(@)]
  PROVE  \E state \in {"released", "expired"} : NonceGoes(s, state, None, FALSE)
<1> DEFINE n == Recovered(nonces[s])
<1>1. n \in Nonce /\ n.state \in {"released", "expired"} /\ n.owner = None /\ n.lapsed = FALSE
      /\ n.job = nonces[s].job
  BY DEF TypeOK, Nonce, Recovered
<1>2. nonces' = [nonces EXCEPT ![s] = n]
  BY DEF TypeOK
<1> HIDE DEF n
<1> QED
  BY <1>1, <1>2, NonceSet

LEMMA NonceTime ==
  ASSUME TypeOK, NEW s \in Source
  PROVE  /\ nonces' = [nonces EXCEPT ![s].lapsed = TRUE]
              => NonceGoes(s, nonces[s].state, nonces[s].owner, TRUE)
         /\ nonces' = [nonces EXCEPT ![s].over = TRUE]
              => NonceGoes(s, nonces[s].state, nonces[s].owner, nonces[s].lapsed)
<1> DEFINE n == [nonces[s] EXCEPT !.lapsed = TRUE]
           m == [nonces[s] EXCEPT !.over = TRUE]
<1>1. n \in Nonce /\ n.state = nonces[s].state /\ n.owner = nonces[s].owner /\ n.lapsed = TRUE
      /\ n.job = nonces[s].job
  BY DEF TypeOK, Nonce
<1>2. m \in Nonce /\ m.state = nonces[s].state /\ m.owner = nonces[s].owner /\ m.lapsed = nonces[s].lapsed
      /\ m.job = nonces[s].job
  BY DEF TypeOK, Nonce
<1>3. /\ nonces' = [nonces EXCEPT ![s].lapsed = TRUE] => nonces' = [nonces EXCEPT ![s] = n]
      /\ nonces' = [nonces EXCEPT ![s].over = TRUE] => nonces' = [nonces EXCEPT ![s] = m]
  OBVIOUS
<1> HIDE DEF n, m
<1> QED
  BY <1>1, <1>2, <1>3, NonceSet

\* Writing the status of a job, and moving a request.
LEMMA JobStatus ==
  ASSUME TypeOK, NEW j \in Job, NEW status,
         status \in {"ended", "expired", "deleting", "deleted"},
         jobs' = [jobs EXCEPT ![j].status = status]
  PROVE  JobGoes(j, status, jobs[j].source)
  BY DEF TypeOK, JobRow, JobGoes

LEMMA RequestStep ==
  ASSUME TypeOK, NEW u \in Upload, NEW pc,
         pc \in {"off", "writing", "asserted", "placed", "failing", "retained", "removed"},
         Step(u, pc)
  PROVE  RequestGoes(u, pc, uploads[u].source)
  BY DEF TypeOK, Step, Request, RequestGoes

LEMMA RequestOff ==
  ASSUME TypeOK, NEW u \in Upload, uploads' = [uploads EXCEPT ![u] = Off]
  PROVE  RequestGoes(u, "off", None)
  BY DEF TypeOK, Off, Request, RequestGoes

\* The job of the nonce of s may go from one status to another.
Follows(s, from, to) ==
    /\ jobs' \in [Job -> JobRow]
    /\ \A k \in Job : /\ jobs'[k].source = jobs[k].source
                      /\ \/ jobs'[k] = jobs[k]
                         \/ /\ k = nonces[s].job
                            /\ jobs[k].status = from /\ jobs'[k].status = to

\* The write with which a job follows its upload.
LEMMA JobFollows ==
  ASSUME TypeOK, NEW s \in Source, NEW from,
         NEW to \in {"reserved", "uploading", "queued"}, JobOf(s, from, to)
  PROVE  Follows(s, from, to)
  BY DEF TypeOK, JobOf, JobRow, Follows

-----------------------------------------------------------------------------
(* The inductive invariant.                                                *)

\* TypeOK by table, for steps that write one table only.
SourcesOK == sources \in [Source -> SourceRow]
NoncesOK  == /\ nonces \in [Source -> Nonce]
             /\ \A s \in Source : nonces[s].owner # None
                                  <=> nonces[s].state \in {"claimed", "consumed"}
JobsOK    == /\ jobs \in [Job -> JobRow]
             /\ \A j \in Job : jobs[j].status # "none" => jobs[j].source # None
RestOK    == /\ projects \subseteq Source /\ stored \subseteq Source /\ temp \subseteq Upload
             /\ uploads \in [Upload -> Request]
             /\ cleaner \in [pc : {"idle", "claimed", "removed", "failed"},
                             source : Source \cup {None}]

LEMMA TypeParts == TypeOK <=> SourcesOK /\ NoncesOK /\ JobsOK /\ RestOK
  BY DEF TypeOK, SourcesOK, NoncesOK, JobsOK, RestOK

\* A live claim means that the upload is open, and a ready source has used up its
\* nonce: no request can own a ready source.
Claims ==
    \A s \in Source : /\ LiveClaim(s) => sources[s].status = "uploading"
                      /\ sources[s].status = "ready" => nonces[s].state = "consumed"

\* Deletion has not begun while the source can still be uploaded or used.
Deletions ==
    \A s \in Source :
      /\ sources[s].status \in {"none", "reserved", "uploading", "ready"}
           => sources[s].deletion = "retained"
      /\ sources[s].status = "deleted" => sources[s].deletion = "deleted"

\* A request that renewed its claim in order to remove the archive still has it;
\* one that placed the archive and still owns the source finds it there.
Requests ==
    \A u \in Upload :
      /\ uploads[u].pc # "off" => uploads[u].source \in Source
      /\ uploads[u].pc \in {"retained", "removed"} => Owns(u)
      /\ uploads[u].pc = "placed" /\ Owns(u) => uploads[u].source \in stored

\* No archive and no request that could still place one.
Gone(s) == \/ sources[s].status = "deleted"
           \/ cleaner.pc = "removed" /\ cleaner.source = s

\* The cleanup works on a row in `deleting`, and what it removed stays removed.
Removal ==
    /\ cleaner.pc # "idle" => cleaner.source \in Source /\ BeingDeleted(cleaner.source)
    /\ \A s \in Source : Gone(s) => s \notin stored /\ \A u \in temp : uploads[u].source # s

\* The job reserved with a source exists and refers to it.
Bound ==
    \A s \in Source : nonces[s].job # None =>
      jobs[nonces[s].job].status # "none" /\ jobs[nonces[s].job].source = s

\* The inductive invariant: nothing in ArchivesMatchRows itself keeps a request
\* or the cleanup from removing an archive that has become ready.
IInv == TypeOK /\ ArchivesMatchRows /\ Claims /\ Deletions /\ Requests /\ Removal /\ Bound

-----------------------------------------------------------------------------
(* Each action keeps the invariant.                                        *)

LEMMA BeginSafe ==
  ASSUME IInv, NEW u \in Upload, NEW s \in Source, Begin(u, s)
  PROVE  IInv'
<1>1. SourceGoes(s, "uploading", sources[s].deletion)
  BY SourceStatus DEF IInv, Begin
<1>2. NonceGoes(s, "claimed", u, FALSE)
  BY NonceClaimed DEF IInv, Begin
<1>3. Follows(s, "reserved", "uploading")
  BY JobFollows DEF IInv, Begin
<1>4. RequestGoes(u, "writing", s)
  BY DEF IInv, TypeOK, Begin, Request, RequestGoes
<1>5. temp' = temp \cup {u}
  BY DEF Begin
<1>6. /\ UNCHANGED <<projects, stored, cleaner>>
      /\ sources[s].status = "reserved" /\ nonces[s].state \in {"unused", "released"}
  BY DEF Begin
<1>7. SourcesOK'
  BY <1>1, <1>6 DEF IInv, SourcesOK, SourceGoes
<1>8. NoncesOK'
  BY <1>2, <1>6, TypeParts, SourceStoreAssumption DEF IInv, NoncesOK, NonceGoes
<1>9. JobsOK'
  BY <1>3, <1>6, TypeParts DEF IInv, JobsOK, Follows
<1>10. RestOK'
  BY <1>4, <1>5, <1>6, TypeParts DEF IInv, RestOK, RequestGoes
<1>11. TypeOK'
  BY <1>7, <1>8, <1>9, <1>10, <1>6 DEF IInv, TypeOK, SourcesOK, NoncesOK, JobsOK,
     RestOK
<1>12. ArchivesMatchRows'
  BY <1>1, <1>3, <1>6 DEF IInv, TypeOK, JobRow, ArchivesMatchRows, SourceGoes, Follows
<1>13. Claims'
  BY <1>1, <1>2, <1>6 DEF IInv, Claims, LiveClaim, SourceGoes, NonceGoes
<1>14. Deletions'
  BY <1>1, <1>6 DEF IInv, Deletions, SourceGoes
<1>15. Requests'
  BY <1>2, <1>4, <1>6 DEF IInv, Requests, Owns, LiveClaim, NonceGoes, RequestGoes
<1>16. Removal'
  BY <1>1, <1>4, <1>5, <1>6 DEF IInv, TypeOK, Removal, Gone, BeingDeleted, SourceGoes,
     RequestGoes
<1>17. Bound'
  BY <1>2, <1>3, <1>6 DEF IInv, Nonce, Bound, NonceGoes, Follows
<1> QED
  BY <1>11, <1>12, <1>13, <1>14, <1>15, <1>16, <1>17 DEF IInv

LEMMA ReserveSafe ==
  ASSUME IInv, NEW s \in Source, NEW j \in Job \cup {None}, Reserve(s, j)
  PROVE  IInv'
<1>1. SourceGoes(s, "reserved", sources[s].deletion)
  BY SourceStatus DEF IInv, Reserve
<1>2. /\ nonces' \in [Source -> Nonce] /\ nonces'[s].job = j
      /\ \A t \in Source : /\ nonces'[t].state = nonces[t].state
                           /\ nonces'[t].owner = nonces[t].owner
                           /\ nonces'[t].lapsed = nonces[t].lapsed
                           /\ t # s => nonces'[t].job = nonces[t].job
  BY DEF IInv, TypeOK, Reserve, Nonce
<1>3. /\ jobs' \in [Job -> JobRow]
      /\ \A k \in Job : IF k = j THEN jobs'[k].status = "reserved" /\ jobs'[k].source = s
                                  ELSE jobs'[k] = jobs[k]
  BY DEF IInv, TypeOK, Reserve, JobRow
<1>4. /\ UNCHANGED <<projects, stored, temp, uploads, cleaner>>
      /\ sources[s].status = "none" /\ (j # None => jobs[j].status = "none")
  BY DEF Reserve
<1>5. SourcesOK'
  BY <1>1, <1>4 DEF IInv, SourcesOK, SourceGoes
<1>6. NoncesOK'
  BY <1>2, <1>4, TypeParts DEF IInv, NoncesOK
<1>7. JobsOK'
  BY <1>3, <1>4, TypeParts, SourceStoreAssumption DEF IInv, JobsOK
<1>8. TypeOK'
  BY <1>5, <1>6, <1>7, <1>4 DEF IInv, TypeOK, SourcesOK, NoncesOK, JobsOK
<1>9. ArchivesMatchRows'
  BY <1>1, <1>3, <1>4 DEF IInv, TypeOK, JobRow, ArchivesMatchRows, SourceGoes
<1>10. Claims'
  BY <1>1, <1>2, <1>4 DEF IInv, Claims, LiveClaim, SourceGoes
<1>11. Deletions'
  BY <1>1, <1>4 DEF IInv, Deletions, SourceGoes
<1>12. Requests'
  BY <1>2, <1>4 DEF IInv, Requests, Owns, LiveClaim
<1>13. Removal'
  BY <1>1, <1>4 DEF IInv, Removal, Gone, BeingDeleted, SourceGoes
<1>14. Bound'
  BY <1>2, <1>3, <1>4 DEF IInv, Nonce, Bound
<1> QED
  BY <1>8, <1>9, <1>10, <1>11, <1>12, <1>13, <1>14 DEF IInv

LEMMA QueueSafe ==
  ASSUME IInv, NEW s \in Source, NEW j \in Job, Queue(j, s)
  PROVE  IInv'
<1>1. JobGoes(j, "queued", s)
  BY DEF IInv, TypeOK, Queue, JobRow, JobGoes
<1>2. /\ UNCHANGED <<sources, nonces, projects, stored, temp, uploads, cleaner>>
      /\ sources[s].status = "ready" /\ jobs[j].status = "none"
  BY DEF Queue, Ready
<1>3. JobsOK'
  BY <1>1, <1>2, TypeParts, SourceStoreAssumption DEF IInv, JobsOK, JobGoes
<1>4. TypeOK'
  BY <1>3, <1>2 DEF IInv, TypeOK, JobsOK
<1>5. ArchivesMatchRows'
  BY <1>1, <1>2 DEF IInv, ArchivesMatchRows, JobGoes
<1>6. Bound'
  BY <1>1, <1>2 DEF IInv, TypeOK, Nonce, Bound, JobGoes
<1>7. Claims' /\ Deletions' /\ Requests' /\ Removal'
  BY <1>2 DEF IInv, Claims, LiveClaim, Deletions, Requests, Owns, Removal, Gone,
     BeingDeleted
<1> QED
  BY <1>4, <1>5, <1>6, <1>7 DEF IInv

\* No job becomes queued here.
LEMMA JobEndsSafe ==
  ASSUME IInv, NEW j \in Job,
         EndJob(j) \/ MarkJobDeleting(j) \/ ExpireJob(j)
  PROVE  IInv'
<1>1. \E status \in {"ended", "expired", "deleting", "deleted"} : JobGoes(j, status, jobs[j].source)
  BY JobStatus DEF IInv, EndJob, MarkJobDeleting, ExpireJob
<1>2. /\ UNCHANGED <<sources, nonces, projects, stored, temp, uploads, cleaner>>
      /\ jobs[j].status # "none"
  BY DEF EndJob, MarkJobDeleting, ExpireJob
<1>3. JobsOK'
  BY <1>1, <1>2, TypeParts DEF IInv, JobsOK, JobGoes
<1>4. TypeOK'
  BY <1>3, <1>2 DEF IInv, TypeOK, JobsOK
<1>5. ArchivesMatchRows'
  BY <1>1, <1>2 DEF IInv, ArchivesMatchRows, JobGoes
<1>6. Bound'
  BY <1>1, <1>2 DEF IInv, TypeOK, Nonce, Bound, JobGoes
<1>7. Claims' /\ Deletions' /\ Requests' /\ Removal'
  BY <1>2 DEF IInv, Claims, LiveClaim, Deletions, Requests, Owns, Removal, Gone,
     BeingDeleted
<1> QED
  BY <1>4, <1>5, <1>6, <1>7 DEF IInv

LEMMA DeleteJobSafe ==
  ASSUME IInv, NEW j \in Job, DeleteJob(j)
  PROVE  IInv'
<1>1. JobGoes(j, "deleted", jobs[j].source)
  BY JobStatus DEF IInv, DeleteJob
<1>2. /\ jobs[j].source \in Source
      /\ SourceGoes(jobs[j].source, sources[jobs[j].source].status,
                    sources[jobs[j].source].deletion)
  BY SourceAge DEF IInv, TypeOK, DeleteJob, JobRow
<1>3. /\ UNCHANGED <<nonces, projects, stored, temp, uploads, cleaner>>
      /\ jobs[j].status # "none"
  BY DEF DeleteJob
<1>4. SourcesOK'
  BY <1>2, <1>3 DEF IInv, SourcesOK, SourceGoes
<1>5. JobsOK'
  BY <1>1, <1>3, TypeParts DEF IInv, JobsOK, JobGoes
<1>6. TypeOK'
  BY <1>4, <1>5, <1>3 DEF IInv, TypeOK, SourcesOK, JobsOK
<1>7. ArchivesMatchRows'
  <2>1. \A s \in Source : sources'[s].status = sources[s].status
    BY <1>2 DEF SourceGoes
  <2>2. \A k \in Job : jobs'[k].status = "queued" => jobs'[k] = jobs[k]
    BY <1>1 DEF JobGoes
  <2>3. \A k \in Job : jobs[k].status # "none" => jobs[k].source \in Source
    BY DEF IInv, TypeOK, JobRow
  <2> QED
    BY <1>3, <2>1, <2>2, <2>3 DEF IInv, ArchivesMatchRows
<1>8. Claims'
  BY <1>2, <1>3 DEF IInv, Claims, LiveClaim, SourceGoes
<1>9. Deletions'
  BY <1>2, <1>3 DEF IInv, Deletions, SourceGoes
<1>10. Removal'
  BY <1>2, <1>3 DEF IInv, Removal, Gone, BeingDeleted, SourceGoes
<1>11. Bound'
  BY <1>1, <1>3 DEF IInv, TypeOK, Nonce, Bound, JobGoes
<1>12. Requests'
  BY <1>3 DEF IInv, Requests, Owns, LiveClaim
<1> QED
  BY <1>6, <1>7, <1>8, <1>9, <1>10, <1>11, <1>12 DEF IInv

LEMMA ProjectsSafe ==
  ASSUME IInv, NEW s \in Source, AttachRevision(s) \/ DeleteProject(s)
  PROVE  IInv'
<1>1. /\ projects' \subseteq projects \cup {s}
      /\ s \in projects' => sources[s].status = "ready"
  BY DEF AttachRevision, DeleteProject, Ready
<1>2. UNCHANGED <<sources, nonces, jobs, stored, temp, uploads, cleaner>>
  BY DEF AttachRevision, DeleteProject
<1>3. RestOK'
  BY <1>1, <1>2, TypeParts DEF IInv, RestOK
<1>4. TypeOK'
  BY <1>3, <1>2 DEF IInv, TypeOK, RestOK
<1>5. ArchivesMatchRows'
  BY <1>1, <1>2 DEF IInv, ArchivesMatchRows
<1>6. Claims' /\ Deletions' /\ Requests' /\ Removal' /\ Bound'
  BY <1>2 DEF IInv, Claims, LiveClaim, Deletions, Requests, Owns, Removal, Gone,
     BeingDeleted, Bound
<1> QED
  BY <1>4, <1>5, <1>6 DEF IInv

\* The steps of a request that change no shared state.
LEMMA RequestMoves ==
  ASSUME IInv, NEW u \in Upload, NEW pc, NEW source, RequestGoes(u, pc, source),
         \/ pc = "off" /\ source = None
         \/ /\ pc \in {"asserted", "failing", "retained"}
            /\ source = uploads[u].source /\ uploads[u].pc # "off",
         pc = "retained" => Owns(u),
         temp' \subseteq temp,
         UNCHANGED <<sources, nonces, jobs, projects, stored, cleaner>>
  PROVE  IInv'
<1>1. RequestGoes(u, pc, source)
  OBVIOUS
<1>2. temp' \subseteq temp
  OBVIOUS
<1>3. /\ UNCHANGED <<sources, nonces, jobs, projects, stored, cleaner>>
      /\ \/ pc = "off" /\ source = None
         \/ /\ pc \in {"asserted", "failing", "retained"}
            /\ source = uploads[u].source /\ uploads[u].pc # "off"
      /\ pc = "retained" => Owns(u)
  OBVIOUS
<1>4. RestOK'
  BY <1>1, <1>2, <1>3, TypeParts DEF IInv, RestOK, RequestGoes
<1>5. TypeOK'
  BY <1>4, <1>3 DEF IInv, TypeOK, RestOK
<1>6. Requests'
  BY <1>1, <1>3 DEF IInv, Requests, Owns, LiveClaim, RequestGoes
<1>7. Removal'
  BY <1>1, <1>2, <1>3, SourceStoreAssumption DEF IInv, TypeOK, Removal, Gone,
     BeingDeleted, RequestGoes
<1>8. ArchivesMatchRows' /\ Claims' /\ Deletions' /\ Bound'
  BY <1>3 DEF IInv, ArchivesMatchRows, Claims, LiveClaim, Deletions, Bound
<1> QED
  BY <1>5, <1>6, <1>7, <1>8 DEF IInv

\* The rename, when the cleanup has left the temporary file.
LEMMA PlaceSafe ==
  ASSUME IInv, NEW u \in Upload, Place(u), u \in temp
  PROVE  IInv'
<1>1. RequestGoes(u, "placed", uploads[u].source)
  BY RequestStep DEF IInv, Place
<1>2. temp' = temp \ {u}
  BY DEF Place
<1>3. stored' = stored \cup {uploads[u].source}
  BY DEF Place
<1>4. /\ UNCHANGED <<sources, nonces, jobs, projects, cleaner>>
      /\ uploads[u].source \in Source /\ u \in temp
  BY DEF IInv, Requests, Place
<1>5. RestOK'
  BY <1>1, <1>2, <1>3, <1>4, TypeParts DEF IInv, RestOK, RequestGoes
<1>6. TypeOK'
  BY <1>5, <1>4 DEF IInv, TypeOK, RestOK
<1>7. ArchivesMatchRows'
  BY <1>3, <1>4 DEF IInv, ArchivesMatchRows, Removal, Gone
<1>8. Requests'
  BY <1>1, <1>3, <1>4 DEF IInv, Requests, Owns, LiveClaim, RequestGoes
<1>9. Removal'
  BY <1>1, <1>2, <1>3, <1>4 DEF IInv, TypeOK, Removal, Gone, BeingDeleted, RequestGoes
<1>10. Claims' /\ Deletions' /\ Bound'
  BY <1>4 DEF IInv, Claims, LiveClaim, Deletions, Bound
<1> QED
  BY <1>6, <1>7, <1>8, <1>9, <1>10 DEF IInv

\* The transaction that makes the source ready.
LEMMA CommitSafe ==
  ASSUME IInv, NEW u \in Upload, Commit(u), CanCommit(u)
  PROVE  IInv'
<1>1. /\ uploads[u].pc = "placed" /\ uploads[u].source \in Source
      /\ Owns(u) /\ uploads[u].source \in stored
      /\ UNCHANGED <<projects, stored, temp, cleaner>>
  BY DEF IInv, Requests, Commit, CanCommit
<1>2. SourceGoes(uploads[u].source, "ready", sources[uploads[u].source].deletion)
  BY <1>1 DEF IInv, TypeOK, Commit, SourceRow, SourceGoes
<1>3. NonceGoes(uploads[u].source, "consumed", nonces[uploads[u].source].owner, FALSE)
  BY <1>1, NonceConsumed DEF IInv, Commit
<1>4. Follows(uploads[u].source, "uploading", "queued")
  BY <1>1, JobFollows DEF IInv, Commit
<1>5. RequestGoes(u, "off", None)
  BY RequestOff DEF IInv, Commit
<1>6. SourcesOK'
  BY <1>1, <1>2 DEF IInv, SourcesOK, SourceGoes
<1>7. NoncesOK'
  BY <1>1, <1>3, TypeParts DEF IInv, NoncesOK, NonceGoes, Owns, LiveClaim
<1>8. JobsOK'
  BY <1>1, <1>4, TypeParts DEF IInv, JobsOK, Follows
<1>9. RestOK'
  BY <1>1, <1>5, TypeParts DEF IInv, RestOK, RequestGoes
<1>10. TypeOK'
  BY <1>6, <1>7, <1>8, <1>9, <1>1 DEF IInv, TypeOK, SourcesOK, NoncesOK, JobsOK,
     RestOK
<1>11. ArchivesMatchRows'
  BY <1>1, <1>2, <1>4, SourceStoreAssumption DEF IInv, TypeOK, JobRow,
     ArchivesMatchRows, SourceGoes, Follows, Bound
<1>12. Claims'
  BY <1>1, <1>2, <1>3 DEF IInv, Claims, LiveClaim, SourceGoes, NonceGoes
<1>13. Deletions'
  BY <1>1, <1>2 DEF IInv, Deletions, SourceGoes, Claims, Owns
<1>14. Requests'
  BY <1>1, <1>3, <1>5 DEF IInv, Requests, Owns, LiveClaim, NonceGoes, RequestGoes
<1>15. Removal'
  BY <1>1, <1>2, <1>5, SourceStoreAssumption DEF IInv, TypeOK, Removal, Gone,
     BeingDeleted, SourceGoes, RequestGoes, Claims, Owns
<1>16. Bound'
  BY <1>1, <1>3, <1>4 DEF IInv, Nonce, Bound, NonceGoes, Follows
<1> QED
  BY <1>10, <1>11, <1>12, <1>13, <1>14, <1>15, <1>16 DEF IInv

\* Only the owner removes, and the source of an owner is not ready.
LEMMA RemoveSafe ==
  ASSUME IInv, NEW u \in Upload, Remove(u)
  PROVE  IInv'
<1>1. RequestGoes(u, "removed", uploads[u].source)
  BY RequestStep DEF IInv, Remove
<1>2. stored' = stored \ {uploads[u].source}
  BY DEF Remove
<1>3. /\ UNCHANGED <<sources, nonces, jobs, projects, temp, cleaner>>
      /\ uploads[u].source \in Source /\ Owns(u)
  BY DEF IInv, Requests, Remove
<1>4. RestOK'
  BY <1>1, <1>2, <1>3, TypeParts DEF IInv, RestOK, RequestGoes
<1>5. TypeOK'
  BY <1>4, <1>3 DEF IInv, TypeOK, RestOK
<1>6. ArchivesMatchRows'
  BY <1>2, <1>3 DEF IInv, ArchivesMatchRows, Claims, Owns
<1>7. Requests'
  BY <1>1, <1>2, <1>3 DEF IInv, Requests, Owns, LiveClaim, RequestGoes
<1>8. Removal'
  BY <1>1, <1>2, <1>3 DEF IInv, TypeOK, Removal, Gone, BeingDeleted, RequestGoes
<1>9. Claims' /\ Deletions' /\ Bound'
  BY <1>3 DEF IInv, Claims, LiveClaim, Deletions, Bound
<1> QED
  BY <1>5, <1>6, <1>7, <1>8, <1>9 DEF IInv

LEMMA ReleaseSafe ==
  ASSUME IInv, NEW u \in Upload, Release(u)
  PROVE  IInv'
<1>1. /\ uploads[u].source \in Source /\ Owns(u)
      /\ UNCHANGED <<projects, stored, temp, cleaner>>
  BY DEF IInv, Requests, Release
<1>2. SourceGoes(uploads[u].source, "reserved", sources[uploads[u].source].deletion)
  BY <1>1, SourceStatus DEF IInv, Release, Claims, Owns
<1>3. NonceGoes(uploads[u].source, "released", None, nonces[uploads[u].source].lapsed)
  BY <1>1, NonceFreed DEF IInv, Release
<1>4. Follows(uploads[u].source, "uploading", "reserved")
  BY <1>1, JobFollows DEF IInv, Release
<1>5. RequestGoes(u, "off", None)
  BY RequestOff DEF IInv, Release
<1>6. SourcesOK'
  BY <1>1, <1>2 DEF IInv, SourcesOK, SourceGoes
<1>7. NoncesOK'
  BY <1>1, <1>3, TypeParts DEF IInv, NoncesOK, NonceGoes
<1>8. JobsOK'
  BY <1>1, <1>4, TypeParts DEF IInv, JobsOK, Follows
<1>9. RestOK'
  BY <1>1, <1>5, TypeParts DEF IInv, RestOK, RequestGoes
<1>10. TypeOK'
  BY <1>6, <1>7, <1>8, <1>9, <1>1 DEF IInv, TypeOK, SourcesOK, NoncesOK, JobsOK,
     RestOK
<1>11. ArchivesMatchRows'
  BY <1>1, <1>2, <1>4 DEF IInv, TypeOK, JobRow, ArchivesMatchRows, SourceGoes,
     Follows, Claims, Owns
<1>12. Claims'
  BY <1>1, <1>2, <1>3 DEF IInv, Claims, LiveClaim, SourceGoes, NonceGoes
<1>13. Deletions'
  BY <1>1, <1>2 DEF IInv, Deletions, SourceGoes, Claims, Owns
<1>14. Requests'
  BY <1>1, <1>3, <1>5 DEF IInv, Requests, Owns, LiveClaim, NonceGoes, RequestGoes
<1>15. Removal'
  BY <1>1, <1>2, <1>5, SourceStoreAssumption DEF IInv, TypeOK, Removal, Gone,
     BeingDeleted, SourceGoes, RequestGoes, Claims, Owns
<1>16. Bound'
  BY <1>1, <1>3, <1>4 DEF IInv, Nonce, Bound, NonceGoes, Follows
<1> QED
  BY <1>10, <1>11, <1>12, <1>13, <1>14, <1>15, <1>16 DEF IInv

\* The API process dies.
LEMMA CrashSafe ==
  ASSUME IInv, Crash
  PROVE  IInv'
<1>1. /\ uploads' \in [Upload -> Request]
      /\ \A u \in Upload : uploads'[u].pc = "off" /\ uploads'[u].source = None
  BY DEF Crash, Off, Request
<1>2. UNCHANGED <<sources, nonces, jobs, projects, stored, temp, cleaner>>
  BY DEF Crash
<1>3. RestOK'
  BY <1>1, <1>2, TypeParts DEF IInv, RestOK
<1>4. TypeOK'
  BY <1>3, <1>2 DEF IInv, TypeOK, RestOK
<1>5. Requests'
  BY <1>1, <1>2 DEF IInv, Requests
<1>6. Removal'
  BY <1>1, <1>2, SourceStoreAssumption DEF IInv, TypeOK, Removal, Gone, BeingDeleted
<1>7. ArchivesMatchRows' /\ Claims' /\ Deletions' /\ Bound'
  BY <1>2 DEF IInv, ArchivesMatchRows, Claims, LiveClaim, Deletions, Bound
<1> QED
  BY <1>4, <1>5, <1>6, <1>7 DEF IInv

\* The claim of a request that removes does not lapse.
LEMMA LapseSafe ==
  ASSUME ~SlowRemoval, IInv, NEW s \in Source, Lapse(s)
  PROVE  IInv'
<1>1. NonceGoes(s, nonces[s].state, nonces[s].owner, TRUE)
  BY NonceTime DEF IInv, Lapse
<1>2. /\ UNCHANGED <<sources, jobs, projects, stored, temp, uploads, cleaner>>
      /\ \A u \in Upload : uploads[u].pc \in {"retained", "removed"} => uploads[u].source # s
  BY DEF Lapse
<1>3. NoncesOK'
  BY <1>1, <1>2, TypeParts DEF IInv, NoncesOK, NonceGoes
<1>4. TypeOK'
  BY <1>3, <1>2 DEF IInv, TypeOK, NoncesOK
<1>5. Claims'
  BY <1>1, <1>2 DEF IInv, Claims, LiveClaim, NonceGoes
<1>6. Requests'
  BY <1>1, <1>2 DEF IInv, Requests, Owns, LiveClaim, NonceGoes
<1>7. Bound'
  BY <1>1, <1>2 DEF IInv, Bound, NonceGoes
<1>8. ArchivesMatchRows' /\ Deletions' /\ Removal'
  BY <1>2 DEF IInv, ArchivesMatchRows, Deletions, Removal, Gone, BeingDeleted
<1> QED
  BY <1>4, <1>5, <1>6, <1>7, <1>8 DEF IInv

LEMMA TicketExpiresSafe ==
  ASSUME IInv, NEW s \in Source, TicketExpires(s)
  PROVE  IInv'
<1>1. NonceGoes(s, nonces[s].state, nonces[s].owner, nonces[s].lapsed)
  BY NonceTime DEF IInv, TicketExpires
<1>2. SourceGoes(s, sources[s].status, sources[s].deletion)
  BY SourceAge DEF IInv, TicketExpires
<1>3. UNCHANGED <<jobs, projects, stored, temp, uploads, cleaner>>
  BY DEF TicketExpires
<1>4. SourcesOK'
  BY <1>2, <1>3 DEF IInv, SourcesOK, SourceGoes
<1>5. NoncesOK'
  BY <1>1, <1>3, TypeParts DEF IInv, NoncesOK, NonceGoes
<1>6. TypeOK'
  BY <1>4, <1>5, <1>3 DEF IInv, TypeOK, SourcesOK, NoncesOK
<1>7. ArchivesMatchRows'
  BY <1>2, <1>3 DEF IInv, TypeOK, JobRow, ArchivesMatchRows, SourceGoes
<1>8. Claims'
  BY <1>1, <1>2, <1>3 DEF IInv, Claims, LiveClaim, SourceGoes, NonceGoes
<1>9. Deletions'
  BY <1>2, <1>3 DEF IInv, Deletions, SourceGoes
<1>10. Requests'
  BY <1>1, <1>3 DEF IInv, Requests, Owns, LiveClaim, NonceGoes
<1>11. Removal'
  BY <1>2, <1>3 DEF IInv, Removal, Gone, BeingDeleted, SourceGoes
<1>12. Bound'
  BY <1>1, <1>3 DEF IInv, Bound, NonceGoes
<1> QED
  BY <1>6, <1>7, <1>8, <1>9, <1>10, <1>11, <1>12 DEF IInv

LEMMA OrphanDeadlineSafe ==
  ASSUME IInv, NEW s \in Source, OrphanDeadline(s)
  PROVE  IInv'
<1>1. SourceGoes(s, sources[s].status, sources[s].deletion)
  BY SourceAge DEF IInv, OrphanDeadline
<1>2. UNCHANGED <<nonces, jobs, projects, stored, temp, uploads, cleaner>>
  BY DEF OrphanDeadline
<1>3. SourcesOK'
  BY <1>1, <1>2 DEF IInv, SourcesOK, SourceGoes
<1>4. TypeOK'
  BY <1>3, <1>2 DEF IInv, TypeOK, SourcesOK
<1>5. ArchivesMatchRows'
  BY <1>1, <1>2 DEF IInv, TypeOK, JobRow, ArchivesMatchRows, SourceGoes
<1>6. Claims'
  BY <1>1, <1>2 DEF IInv, Claims, LiveClaim, SourceGoes
<1>7. Deletions'
  BY <1>1, <1>2 DEF IInv, Deletions, SourceGoes
<1>8. Removal'
  BY <1>1, <1>2 DEF IInv, Removal, Gone, BeingDeleted, SourceGoes
<1>9. Requests' /\ Bound'
  BY <1>2 DEF IInv, Requests, Owns, LiveClaim, Bound
<1> QED
  BY <1>4, <1>5, <1>6, <1>7, <1>8, <1>9 DEF IInv

LEMMA RecoverUploadSafe ==
  ASSUME IInv, NEW s \in Source, RecoverUpload(s)
  PROVE  IInv'
<1>1. \E state \in {"released", "expired"} : NonceGoes(s, state, None, FALSE)
  BY NonceRecovered DEF IInv, RecoverUpload
<1>2. SourceGoes(s, IF sources[s].status = "uploading" THEN "reserved" ELSE sources[s].status,
                  sources[s].deletion)
  BY SourceStatus DEF IInv, TypeOK, SourceRow, RecoverUpload
<1>3. Follows(s, "uploading", "reserved")
  BY JobFollows DEF IInv, RecoverUpload
<1>4. /\ UNCHANGED <<projects, stored, temp, uploads, cleaner>>
      /\ nonces[s].state = "claimed" /\ nonces[s].lapsed
  BY DEF RecoverUpload
<1>5. SourcesOK'
  BY <1>2, <1>4 DEF IInv, SourcesOK, SourceGoes
<1>6. NoncesOK'
  BY <1>1, <1>4, TypeParts DEF IInv, NoncesOK, NonceGoes
<1>7. JobsOK'
  BY <1>3, <1>4, TypeParts DEF IInv, JobsOK, Follows
<1>8. TypeOK'
  BY <1>5, <1>6, <1>7, <1>4 DEF IInv, TypeOK, SourcesOK, NoncesOK, JobsOK
<1>9. ArchivesMatchRows'
  BY <1>2, <1>3, <1>4 DEF IInv, TypeOK, JobRow, ArchivesMatchRows, SourceGoes, Follows
<1>10. Claims'
  BY <1>1, <1>2, <1>4 DEF IInv, Claims, LiveClaim, SourceGoes, NonceGoes
<1>11. Deletions'
  BY <1>2, <1>4 DEF IInv, Deletions, SourceGoes
<1>12. Requests'
  BY <1>1, <1>4 DEF IInv, Requests, Owns, LiveClaim, NonceGoes
<1>13. Removal'
  BY <1>2, <1>4 DEF IInv, Removal, Gone, BeingDeleted, SourceGoes
<1>14. Bound'
  BY <1>1, <1>3, <1>4 DEF IInv, Nonce, Bound, NonceGoes, Follows
<1> QED
  BY <1>8, <1>9, <1>10, <1>11, <1>12, <1>13, <1>14 DEF IInv

LEMMA ExpireNonceSafe ==
  ASSUME IInv, NEW s \in Source, ExpireNonce(s)
  PROVE  IInv'
<1>1. NonceGoes(s, "expired", None, nonces[s].lapsed)
  BY NonceFreed DEF IInv, ExpireNonce
<1>2. /\ UNCHANGED <<sources, jobs, projects, stored, temp, uploads, cleaner>>
      /\ nonces[s].state \in {"unused", "released"}
  BY DEF ExpireNonce
<1>3. NoncesOK'
  BY <1>1, <1>2, TypeParts DEF IInv, NoncesOK, NonceGoes
<1>4. TypeOK'
  BY <1>3, <1>2 DEF IInv, TypeOK, NoncesOK
<1>5. Claims'
  BY <1>1, <1>2 DEF IInv, Claims, LiveClaim, NonceGoes
<1>6. Requests'
  BY <1>1, <1>2 DEF IInv, Requests, Owns, LiveClaim, NonceGoes
<1>7. Bound'
  BY <1>1, <1>2 DEF IInv, Bound, NonceGoes
<1>8. ArchivesMatchRows' /\ Deletions' /\ Removal'
  BY <1>2 DEF IInv, ArchivesMatchRows, Deletions, Removal, Gone, BeingDeleted
<1> QED
  BY <1>4, <1>5, <1>6, <1>7, <1>8 DEF IInv

LEMMA ExpireSourceSafe ==
  ASSUME IInv, NEW s \in Source, ExpireSource(s)
  PROVE  IInv'
<1>1. SourceGoes(s, "expired", sources[s].deletion)
  BY SourceStatus DEF IInv, ExpireSource
<1>2. /\ UNCHANGED <<nonces, jobs, projects, stored, temp, uploads, cleaner>>
      /\ sources[s].status \in {"reserved", "uploading"} /\ ~LiveClaim(s)
  BY DEF ExpireSource
<1>3. SourcesOK'
  BY <1>1, <1>2 DEF IInv, SourcesOK, SourceGoes
<1>4. TypeOK'
  BY <1>3, <1>2 DEF IInv, TypeOK, SourcesOK
<1>5. ArchivesMatchRows'
  BY <1>1, <1>2 DEF IInv, TypeOK, JobRow, ArchivesMatchRows, SourceGoes
<1>6. Claims'
  BY <1>1, <1>2 DEF IInv, Claims, LiveClaim, SourceGoes
<1>7. Deletions'
  BY <1>1, <1>2 DEF IInv, Deletions, SourceGoes
<1>8. Removal'
  BY <1>1, <1>2 DEF IInv, Removal, Gone, BeingDeleted, SourceGoes
<1>9. Requests' /\ Bound'
  BY <1>2 DEF IInv, Requests, Owns, LiveClaim, Bound
<1> QED
  BY <1>4, <1>5, <1>6, <1>7, <1>8, <1>9 DEF IInv

LEMMA MarkedRow ==
  ASSUME TypeOK, NEW s \in Source, MarkDeleting(s)
  PROVE  SourceGoes(s, "deleting", "pending")
<1> DEFINE row == [sources[s] EXCEPT !.status = "deleting", !.deletion = "pending"]
<1>1. row \in SourceRow /\ row.status = "deleting" /\ row.deletion = "pending"
  BY DEF TypeOK, SourceRow
<1>2. sources' = [sources EXCEPT ![s] = row]
  BY DEF TypeOK, MarkDeleting
<1> HIDE DEF row
<1> QED
  BY <1>1, <1>2, SourceSet

LEMMA MarkDeletingSafe ==
  ASSUME IInv, NEW s \in Source, MarkDeleting(s)
  PROVE  IInv'
<1>1. SourceGoes(s, "deleting", "pending")
  BY MarkedRow DEF IInv
<1>2. /\ UNCHANGED <<nonces, jobs, projects, stored, temp, uploads, cleaner>>
      /\ sources[s].status \in {"ready", "expired"} /\ ~Referenced(s)
  BY DEF MarkDeleting
<1>3. SourcesOK'
  BY <1>1, <1>2 DEF IInv, SourcesOK, SourceGoes
<1>4. TypeOK'
  BY <1>3, <1>2 DEF IInv, TypeOK, SourcesOK
<1>5. ArchivesMatchRows'
  BY <1>1, <1>2 DEF IInv, TypeOK, JobRow, ArchivesMatchRows, SourceGoes, Referenced,
     Referrers
<1>6. Claims'
  BY <1>1, <1>2 DEF IInv, Claims, LiveClaim, SourceGoes
<1>7. Deletions'
  BY <1>1, <1>2 DEF IInv, Deletions, SourceGoes
<1>8. Removal'
  BY <1>1, <1>2 DEF IInv, Removal, Gone, BeingDeleted, SourceGoes
<1>9. Requests' /\ Bound'
  BY <1>2 DEF IInv, Requests, Owns, LiveClaim, Bound
<1> QED
  BY <1>4, <1>5, <1>6, <1>7, <1>8, <1>9 DEF IInv

\* The cleanup claims no source that is referenced or being uploaded.
LEMMA ClaimDeletionSafe ==
  ASSUME IInv, NEW s \in Source, ClaimDeletion(s)
  PROVE  IInv'
<1>1. SourceGoes(s, "deleting", "deleting")
  BY SourceDeletion DEF IInv, ClaimDeletion
<1>2. cleaner' = [pc |-> "claimed", source |-> s]
  BY DEF ClaimDeletion
<1>3. /\ UNCHANGED <<nonces, jobs, projects, stored, temp, uploads>>
      /\ cleaner = Idle /\ CanDelete(s)
  BY DEF ClaimDeletion
<1>4. SourcesOK'
  BY <1>1, <1>3 DEF IInv, SourcesOK, SourceGoes
<1>5. RestOK'
  BY <1>2, <1>3, TypeParts DEF IInv, RestOK
<1>6. TypeOK'
  BY <1>4, <1>5, <1>3 DEF IInv, TypeOK, SourcesOK, RestOK
<1>7. ArchivesMatchRows'
  BY <1>1, <1>3 DEF IInv, TypeOK, JobRow, ArchivesMatchRows, SourceGoes, Referenced,
     Referrers, CanDelete
<1>8. Claims'
  BY <1>1, <1>3 DEF IInv, Claims, LiveClaim, SourceGoes, CanDelete, Deletions
<1>9. Deletions'
  BY <1>1, <1>3 DEF IInv, Deletions, SourceGoes
<1>10. Removal'
  BY <1>1, <1>2, <1>3 DEF IInv, Removal, Gone, BeingDeleted, SourceGoes, CanDelete
<1>11. Requests' /\ Bound'
  BY <1>3 DEF IInv, Requests, Owns, LiveClaim, Bound
<1> QED
  BY <1>6, <1>7, <1>8, <1>9, <1>10, <1>11 DEF IInv

LEMMA RemoveArchiveSafe ==
  ASSUME IInv, RemoveArchive
  PROVE  IInv'
<1>1. stored' = stored \ {cleaner.source}
  BY DEF RemoveArchive
<1>2. temp' = {u \in temp : uploads[u].source # cleaner.source}
  BY DEF RemoveArchive
<1>3. cleaner' = [cleaner EXCEPT !.pc = "removed"]
  BY DEF RemoveArchive
<1>4. /\ UNCHANGED <<sources, nonces, jobs, projects, uploads>>
      /\ cleaner.source \in Source /\ BeingDeleted(cleaner.source)
  BY DEF IInv, Removal, RemoveArchive
<1>5. RestOK'
  BY <1>1, <1>2, <1>3, <1>4, TypeParts DEF IInv, RestOK
<1>6. TypeOK'
  BY <1>5, <1>4 DEF IInv, TypeOK, RestOK
<1>7. ArchivesMatchRows'
  BY <1>1, <1>4 DEF IInv, ArchivesMatchRows, BeingDeleted
<1>8. Requests'
  BY <1>1, <1>4 DEF IInv, Requests, Owns, LiveClaim, BeingDeleted, Claims
<1>9. Removal'
  BY <1>1, <1>2, <1>3, <1>4 DEF IInv, Removal, Gone, BeingDeleted
<1>10. Claims' /\ Deletions' /\ Bound'
  BY <1>4 DEF IInv, Claims, LiveClaim, Deletions, Bound
<1> QED
  BY <1>6, <1>7, <1>8, <1>9, <1>10 DEF IInv

LEMMA RemovalFailsSafe ==
  ASSUME IInv, RemovalFails
  PROVE  IInv'
<1>1. stored' = stored \/ stored' = stored \ {cleaner.source}
  BY DEF RemovalFails
<1>2. cleaner' = [cleaner EXCEPT !.pc = "failed"]
  BY DEF RemovalFails
<1>3. /\ UNCHANGED <<sources, nonces, jobs, projects, temp, uploads>>
      /\ cleaner.pc = "claimed"
      /\ cleaner.source \in Source /\ BeingDeleted(cleaner.source)
  BY DEF IInv, Removal, RemovalFails
<1>4. RestOK'
  BY <1>1, <1>2, <1>3, TypeParts DEF IInv, RestOK
<1>5. TypeOK'
  BY <1>4, <1>3 DEF IInv, TypeOK, RestOK
<1>6. ArchivesMatchRows'
  BY <1>1, <1>3 DEF IInv, ArchivesMatchRows, BeingDeleted
<1>7. Requests'
  BY <1>1, <1>3 DEF IInv, Requests, Owns, LiveClaim, BeingDeleted, Claims
<1>8. Removal'
  BY <1>1, <1>2, <1>3 DEF IInv, Removal, Gone, BeingDeleted
<1>9. Claims' /\ Deletions' /\ Bound'
  BY <1>3 DEF IInv, Claims, LiveClaim, Deletions, Bound
<1> QED
  BY <1>5, <1>6, <1>7, <1>8, <1>9 DEF IInv

LEMMA FinishDeletionSafe ==
  ASSUME IInv, FinishDeletion, ~Referenced(cleaner.source)
  PROVE  IInv'
<1>1. /\ UNCHANGED <<nonces, jobs, projects, stored, temp, uploads>>
      /\ cleaner.pc = "removed" /\ ~Referenced(cleaner.source)
      /\ cleaner.source \in Source /\ BeingDeleted(cleaner.source)
  BY DEF IInv, Removal, FinishDeletion
<1>2. SourceGoes(cleaner.source, "deleted", "deleted")
  BY <1>1, SourceDeletion DEF IInv, FinishDeletion
<1>3. cleaner' = Idle
  BY <1>1 DEF FinishDeletion
<1>4. SourcesOK'
  BY <1>1, <1>2 DEF IInv, SourcesOK, SourceGoes
<1>5. RestOK'
  BY <1>1, <1>3, TypeParts DEF IInv, RestOK, Idle
<1>6. TypeOK'
  BY <1>4, <1>5, <1>1 DEF IInv, TypeOK, SourcesOK, RestOK
<1>7. ArchivesMatchRows'
  BY <1>1, <1>2 DEF IInv, TypeOK, JobRow, ArchivesMatchRows, SourceGoes, Removal, Gone
<1>8. Claims'
  BY <1>1, <1>2 DEF IInv, Claims, LiveClaim, SourceGoes, BeingDeleted
<1>9. Deletions'
  BY <1>1, <1>2 DEF IInv, Deletions, SourceGoes
<1>10. Removal'
  BY <1>1, <1>2, <1>3 DEF IInv, Removal, Gone, SourceGoes, Idle
<1>11. Requests' /\ Bound'
  BY <1>1 DEF IInv, Requests, Owns, LiveClaim, Bound
<1> QED
  BY <1>6, <1>7, <1>8, <1>9, <1>10, <1>11 DEF IInv

\* A job that expired and is then deleted refers to the source again.
LEMMA FinishRefusedSafe ==
  ASSUME IInv, FinishDeletion, Referenced(cleaner.source)
  PROVE  IInv'
<1>1. cleaner' = [cleaner EXCEPT !.pc = "failed"]
  BY DEF FinishDeletion
<1>2. /\ UNCHANGED <<sources, nonces, jobs, projects, stored, temp, uploads>>
      /\ cleaner.pc = "removed"
  BY DEF FinishDeletion
<1>3. RestOK'
  BY <1>1, <1>2, TypeParts DEF IInv, RestOK
<1>4. TypeOK'
  BY <1>3, <1>2 DEF IInv, TypeOK, RestOK
<1>5. Removal'
  BY <1>1, <1>2 DEF IInv, Removal, Gone, BeingDeleted
<1>6. ArchivesMatchRows' /\ Claims' /\ Deletions' /\ Requests' /\ Bound'
  BY <1>2 DEF IInv, ArchivesMatchRows, Claims, LiveClaim, Deletions, Requests, Owns,
     Bound
<1> QED
  BY <1>4, <1>5, <1>6 DEF IInv

LEMMA FailDeletionSafe ==
  ASSUME IInv, FailDeletion
  PROVE  IInv'
<1>1. /\ UNCHANGED <<nonces, jobs, projects, stored, temp, uploads>>
      /\ cleaner.pc = "failed"
      /\ cleaner.source \in Source /\ BeingDeleted(cleaner.source)
  BY DEF IInv, Removal, FailDeletion
<1>2. \E d \in {"retry", "failed"} : SourceGoes(cleaner.source, "expired", d)
  <2> DEFINE s == cleaner.source
  <2>1. PICK d \in {"retry", "failed"} :
          sources' = [sources EXCEPT ![s] = [@ EXCEPT !.status = "expired", !.deletion = d]]
    BY <1>1 DEF FailDeletion
  <2> DEFINE row == [sources[s] EXCEPT !.status = "expired", !.deletion = d]
  <2>2. row \in SourceRow /\ row.status = "expired" /\ row.deletion = d
    BY <1>1 DEF IInv, TypeOK, SourceRow
  <2>3. TypeOK /\ s \in Source /\ sources' = [sources EXCEPT ![s] = row]
    BY <1>1, <2>1 DEF IInv
  <2> HIDE DEF row, s
  <2>4. SourceGoes(s, "expired", d)
    BY <2>2, <2>3, SourceSet
  <2> QED
    BY <2>4 DEF s
<1>3. cleaner' = Idle
  BY DEF FailDeletion
<1>4. SourcesOK'
  BY <1>1, <1>2 DEF IInv, SourcesOK, SourceGoes
<1>5. RestOK'
  BY <1>1, <1>3, TypeParts DEF IInv, RestOK, Idle
<1>6. TypeOK'
  BY <1>4, <1>5, <1>1 DEF IInv, TypeOK, SourcesOK, RestOK
<1>7. ArchivesMatchRows'
  BY <1>1, <1>2 DEF IInv, TypeOK, JobRow, ArchivesMatchRows, SourceGoes, BeingDeleted
<1>8. Claims'
  BY <1>1, <1>2 DEF IInv, Claims, LiveClaim, SourceGoes, BeingDeleted
<1>9. Deletions'
  BY <1>1, <1>2 DEF IInv, Deletions, SourceGoes
<1>10. Removal'
  BY <1>1, <1>2, <1>3 DEF IInv, Removal, Gone, SourceGoes, Idle
<1>11. Requests' /\ Bound'
  BY <1>1 DEF IInv, Requests, Owns, LiveClaim, Bound
<1> QED
  BY <1>6, <1>7, <1>8, <1>9, <1>10, <1>11 DEF IInv

LEMMA CleanerCrashSafe ==
  ASSUME IInv, CleanerCrash
  PROVE  IInv'
<1>1. cleaner' = Idle
  BY DEF CleanerCrash
<1>2. UNCHANGED <<sources, nonces, jobs, projects, stored, temp, uploads>>
  BY DEF CleanerCrash
<1>3. RestOK'
  BY <1>1, <1>2, TypeParts DEF IInv, RestOK, Idle
<1>4. TypeOK'
  BY <1>3, <1>2 DEF IInv, TypeOK, RestOK
<1>5. Removal'
  BY <1>1, <1>2 DEF IInv, Removal, Gone, Idle
<1>6. ArchivesMatchRows' /\ Claims' /\ Deletions' /\ Requests' /\ Bound'
  BY <1>2 DEF IInv, ArchivesMatchRows, Claims, LiveClaim, Deletions, Requests, Owns,
     Bound
<1> QED
  BY <1>4, <1>5, <1>6 DEF IInv

-----------------------------------------------------------------------------
(* The theorems.                                                           *)

LEMMA InitSafe == Init => IInv
<1> SUFFICES ASSUME Init PROVE IInv
  OBVIOUS
<1> USE SourceStoreAssumption DEF Init
<1>1. TypeOK
  BY DEF TypeOK, SourceRow, Nonce, JobRow, Request, Off, Idle
<1>2. ArchivesMatchRows /\ Claims /\ Deletions /\ Bound
  BY DEF ArchivesMatchRows, Claims, Deletions, Bound, LiveClaim
<1>3. Requests /\ Removal
  BY DEF Requests, Removal, Gone, Off, Idle
<1> QED
  BY <1>1, <1>2, <1>3 DEF IInv

LEMMA UploadingSafe ==
  ASSUME IInv, NEW u \in Upload, Uploading(u)
  PROVE  IInv'
<1> DEFINE Quiet == UNCHANGED <<sources, nonces, jobs, projects, stored, cleaner>>
<1>1. ASSUME NEW s \in Source, Begin(u, s) PROVE IInv'
  BY <1>1, BeginSafe
<1>2. CASE AssertOwned(u) \/ Abort(u)
  <2>1. \E pc \in {"asserted", "failing"} : RequestGoes(u, pc, uploads[u].source)
    BY <1>2, RequestStep DEF IInv, AssertOwned, Abort
  <2>2. Quiet /\ temp' = temp /\ uploads[u].pc # "off"
    BY <1>2 DEF AssertOwned, Abort
  <2> QED
    BY <2>1, <2>2, RequestMoves
<1>3. CASE Place(u)
  <2>1. CASE u \in temp
    BY <1>3, <2>1, PlaceSafe
  <2>2. CASE u \notin temp
    <3>1. RequestGoes(u, "failing", uploads[u].source)
      BY <1>3, <2>2, RequestStep DEF IInv, Place
    <3>2. Quiet /\ temp' = temp /\ uploads[u].pc # "off"
      BY <1>3, <2>2 DEF Place
    <3> QED
      BY <3>1, <3>2, RequestMoves
  <2> QED
    BY <2>1, <2>2
<1>4. CASE Commit(u)
  <2>1. CASE CanCommit(u)
    BY <1>4, <2>1, CommitSafe
  <2>2. CASE ~CanCommit(u)
    <3>1. RequestGoes(u, "failing", uploads[u].source)
      BY <1>4, <2>2, RequestStep DEF IInv, Commit
    <3>2. Quiet /\ temp' = temp /\ uploads[u].pc # "off"
      BY <1>4, <2>2 DEF Commit
    <3> QED
      BY <3>1, <3>2, RequestMoves
  <2> QED
    BY <2>1, <2>2
<1>5. CASE GiveUp(u)
  <2>1. Quiet /\ temp' \subseteq temp /\ uploads[u].pc # "off"
    BY <1>5 DEF GiveUp
  <2>2. \/ Owns(u) /\ RequestGoes(u, "retained", uploads[u].source)
        \/ RequestGoes(u, "off", None)
    BY <1>5, RequestStep, RequestOff DEF IInv, GiveUp, MayRemove
  <2> QED
    BY <2>1, <2>2, RequestMoves
<1>6. CASE Remove(u)
  BY <1>6, RemoveSafe
<1>7. CASE Release(u)
  BY <1>7, ReleaseSafe
<1> QED
  BY <1>1, <1>2, <1>3, <1>4, <1>5, <1>6, <1>7 DEF Uploading

LEMMA CleaningSafe ==
  ASSUME IInv, Cleaning
  PROVE  IInv'
<1>1. ASSUME NEW s \in Source,
             RecoverUpload(s) \/ ExpireNonce(s) \/ ExpireSource(s) \/ ClaimDeletion(s)
      PROVE  IInv'
  BY <1>1, RecoverUploadSafe, ExpireNonceSafe, ExpireSourceSafe, ClaimDeletionSafe
<1>2. ASSUME NEW j \in Job, ExpireJob(j) PROVE IInv'
  BY <1>2, JobEndsSafe
<1>3. CASE RemoveArchive \/ RemovalFails
  BY <1>3, RemoveArchiveSafe, RemovalFailsSafe
<1>4. CASE FinishDeletion
  BY <1>4, FinishDeletionSafe, FinishRefusedSafe
<1>5. CASE FailDeletion \/ CleanerCrash
  BY <1>5, FailDeletionSafe, CleanerCrashSafe
<1> QED
  BY <1>1, <1>2, <1>3, <1>4, <1>5 DEF Cleaning

LEMMA NextSafe ==
  ASSUME ~SlowRemoval, IInv, [Next]_vars
  PROVE  IInv'
<1>1. CASE UNCHANGED vars
  <2>1. TypeOK'
    BY <1>1 DEF IInv, TypeOK, vars
  <2>2. ArchivesMatchRows' /\ Claims' /\ Deletions' /\ Bound'
    BY <1>1 DEF IInv, ArchivesMatchRows, Claims, Deletions, Bound, LiveClaim, vars
  <2>3. Requests' /\ Removal'
    BY <1>1 DEF IInv, Requests, Removal, Gone, BeingDeleted, Owns, LiveClaim, vars
  <2> QED
    BY <2>1, <2>2, <2>3 DEF IInv
<1>2. CASE \E u \in Upload : Uploading(u)
  BY <1>2, UploadingSafe
<1>3. CASE Cleaning \/ Crash
  BY <1>3, CleaningSafe, CrashSafe
<1>4. ASSUME NEW s \in Source, \E j \in Job \cup {None} : Reserve(s, j) PROVE IInv'
  BY <1>4, ReserveSafe
<1>5. ASSUME NEW s \in Source, \E j \in Job : Queue(j, s) PROVE IInv'
  BY <1>5, QueueSafe
<1>6. ASSUME NEW s \in Source,
             AttachRevision(s) \/ DeleteProject(s) \/ MarkDeleting(s)
      PROVE  IInv'
  BY <1>6, ProjectsSafe, MarkDeletingSafe
<1>7. ASSUME NEW s \in Source, Lapse(s) \/ TicketExpires(s) \/ OrphanDeadline(s)
      PROVE  IInv'
  BY <1>7, LapseSafe, TicketExpiresSafe, OrphanDeadlineSafe
<1>8. ASSUME NEW j \in Job, EndJob(j) \/ MarkJobDeleting(j) \/ DeleteJob(j) PROVE IInv'
  BY <1>8, JobEndsSafe, DeleteJobSafe
<1> QED
  BY <1>1, <1>2, <1>3, <1>4, <1>5, <1>6, <1>7, <1>8 DEF Next

\* Every reachable state of sources, nonces, jobs and requests is well typed.
THEOREM SourcesTyped == ASSUME ~SlowRemoval PROVE Spec => []TypeOK
<1>1. IInv => TypeOK
  BY DEF IInv
<1> QED
  BY <1>1, InitSafe, NextSafe, PTL DEF Spec

\* A ready source has its archive, queued jobs and projects have a ready source,
\* and a deleted source has left nothing behind (upload.ts, cleanup.mjs).
THEOREM ArchivesMatch == ASSUME ~SlowRemoval PROVE Spec => []ArchivesMatchRows
<1>1. IInv => ArchivesMatchRows
  BY DEF IInv
<1> QED
  BY <1>1, InitSafe, NextSafe, PTL DEF Spec

\* The action of LateRequestHarmless.
Late == \A u \in Upload :
    uploads[u].pc # "off" /\ uploads'[u] # uploads[u] /\ ~Owns(u)
    => UNCHANGED <<sources, nonces, jobs>> /\ stored \subseteq stored'

\* A request that does not hold the claim of its source changes no row and
\* removes no archive (upload.ts: a timed-out writer must never remove an archive
\* or reset state owned by a retry).
THEOREM LateRequestsHarmless == ASSUME ~SlowRemoval PROVE Spec => LateRequestHarmless
<1>1. ASSUME IInv, [Next]_vars
      PROVE  [Late]_vars
  <2> SUFFICES ASSUME NEW u \in Upload, uploads[u].pc # "off",
                      uploads'[u] # uploads[u], ~Owns(u)
               PROVE  UNCHANGED <<sources, nonces, jobs>> /\ stored \subseteq stored'
    BY DEF Late
  <2>1. CASE Crash
    BY <2>1 DEF Crash
  <2>2. CASE \E v \in Upload : Uploading(v)
    <3>1. Uploading(u) /\ ~\E s \in Source : Begin(u, s)
      BY <1>1, <2>2 DEF IInv, TypeOK, Uploading, Begin, AssertOwned, Place, Commit,
         Abort, GiveUp, Remove, Release, Step
    <3>2. ~Remove(u) /\ ~Release(u)
      BY <1>1 DEF IInv, Requests, Remove, Release
    <3> QED
      BY <3>1, <3>2 DEF Uploading, AssertOwned, Place, Commit, CanCommit, Abort,
         GiveUp
  <2>3. ASSUME uploads' = uploads PROVE FALSE
    BY <2>3
  <2> QED
    BY <1>1, <2>1, <2>2, <2>3 DEF Next, Cleaning, vars, Reserve, Queue, EndJob,
       MarkJobDeleting, DeleteJob, AttachRevision, DeleteProject, Lapse,
       TicketExpires, OrphanDeadline, RecoverUpload, ExpireJob, ExpireNonce,
       ExpireSource, MarkDeleting, ClaimDeletion, RemoveArchive, RemovalFails,
       FinishDeletion, FailDeletion, CleanerCrash
<1> QED
  BY <1>1, InitSafe, NextSafe, PTL DEF Spec, LateRequestHarmless, Late
-----------------------------------------------------------------------------
(* The refinement.                                                         *)

\* A source that a request has taken up has been reserved.
Opened == \A u \in Upload : uploads[u].pc # "off" => sources[uploads[u].source].status # "none"

\* The mapping of SourceStore, by name.
PhaseAt == [s \in Source |-> PhaseOf(sources[s].status)]
FiledAt == [s \in Source |-> s \in stored]
UsedAt  == [s \in Source |-> InUse(s)]

SamePhase(s) == PhaseAt'[s] = PhaseAt[s]
SameFile(s)  == FiledAt'[s] = FiledAt[s]
SameUse(s)   == UsedAt'[s] = UsedAt[s]
Still(s)     == SamePhase(s) /\ SameFile(s) /\ SameUse(s)

\* What SourceLifecycle lets happen to one source.
Moved(s) ==
    \/ Still(s)
    \/ PhaseAt[s] = "none" /\ PhaseAt'[s] = "open" /\ SameFile(s) /\ SameUse(s)
    \/ PhaseAt[s] \in {"open", "leaving"} /\ SamePhase(s) /\ SameUse(s)
    \/ /\ PhaseAt[s] = "open" /\ PhaseAt'[s] = "ready"
       /\ FiledAt[s] /\ SameFile(s) /\ ~UsedAt[s]
    \/ PhaseAt[s] = "ready" /\ SamePhase(s) /\ SameFile(s)
    \/ /\ PhaseAt[s] \in {"open", "ready"} /\ PhaseAt'[s] = "leaving"
       /\ ~UsedAt[s] /\ SameFile(s) /\ SameUse(s)
    \/ /\ PhaseAt[s] \in {"open", "leaving"} /\ PhaseAt'[s] = "gone"
       /\ ~FiledAt[s] /\ SameFile(s) /\ SameUse(s)

\* The mapped state as functions of the sources.
LEMMA Mapped ==
  /\ PhaseAt = [s \in Source |-> PhaseAt[s]] /\ PhaseAt' = [s \in Source |-> PhaseAt'[s]]
  /\ FiledAt \in [Source -> BOOLEAN] /\ FiledAt' \in [Source -> BOOLEAN]
  /\ UsedAt \in [Source -> BOOLEAN] /\ UsedAt' \in [Source -> BOOLEAN]
<1>1. PhaseAt = [s \in Source |-> PhaseAt[s]] /\ PhaseAt' = [s \in Source |-> PhaseAt'[s]]
  BY DEF PhaseAt
<1>2. FiledAt \in [Source -> BOOLEAN] /\ FiledAt' \in [Source -> BOOLEAN]
  BY DEF FiledAt
<1>3. UsedAt \in [Source -> BOOLEAN] /\ UsedAt' \in [Source -> BOOLEAN]
  BY DEF UsedAt, InUse
<1> QED
  BY <1>1, <1>2, <1>3

LEMMA Mapping ==
  ASSUME NEW s \in Source
  PROVE  /\ Lifecycle!Reserve(s) <=> /\ PhaseAt[s] = "none"
                                     /\ PhaseAt' = [PhaseAt EXCEPT ![s] = "open"]
                                     /\ FiledAt' = FiledAt /\ UsedAt' = UsedAt
         /\ Lifecycle!Put(s) <=> /\ PhaseAt[s] \in {"open", "leaving"}
                                 /\ FiledAt' = [FiledAt EXCEPT ![s] = TRUE]
                                 /\ PhaseAt' = PhaseAt /\ UsedAt' = UsedAt
         /\ Lifecycle!Remove(s) <=> /\ PhaseAt[s] \in {"open", "leaving"}
                                    /\ FiledAt' = [FiledAt EXCEPT ![s] = FALSE]
                                    /\ PhaseAt' = PhaseAt /\ UsedAt' = UsedAt
         /\ Lifecycle!Complete(s) <=>
              /\ PhaseAt[s] = "open" /\ FiledAt[s]
              /\ PhaseAt' = [PhaseAt EXCEPT ![s] = "ready"] /\ FiledAt' = FiledAt
              /\ UsedAt' = [UsedAt EXCEPT ![s] = TRUE] \/ UsedAt' = UsedAt
         /\ Lifecycle!Use(s) <=> /\ PhaseAt[s] = "ready"
                                 /\ UsedAt' = [UsedAt EXCEPT ![s] = TRUE]
                                 /\ PhaseAt' = PhaseAt /\ FiledAt' = FiledAt
         /\ Lifecycle!EndUse(s) <=> /\ UsedAt[s]
                                    /\ UsedAt' = [UsedAt EXCEPT ![s] = FALSE]
                                    /\ PhaseAt' = PhaseAt /\ FiledAt' = FiledAt
         /\ Lifecycle!Leave(s) <=> /\ PhaseAt[s] \in {"open", "ready"} /\ ~UsedAt[s]
                                   /\ PhaseAt' = [PhaseAt EXCEPT ![s] = "leaving"]
                                   /\ FiledAt' = FiledAt /\ UsedAt' = UsedAt
         /\ Lifecycle!Erase(s) <=> /\ PhaseAt[s] \in {"open", "leaving"} /\ ~FiledAt[s]
                                   /\ PhaseAt' = [PhaseAt EXCEPT ![s] = "gone"]
                                   /\ FiledAt' = FiledAt /\ UsedAt' = UsedAt
  BY DEF Lifecycle!Reserve, Lifecycle!Put, Lifecycle!Remove, Lifecycle!Complete, Lifecycle!Use,
     Lifecycle!EndUse, Lifecycle!Leave, Lifecycle!Erase, Lifecycle!Enter, Lifecycle!File,
     Lifecycle!Need, PhaseAt, FiledAt, UsedAt

\* A step that moves one source as SourceLifecycle lets it.
LEMMA OneMoves ==
  ASSUME NEW s \in Source, Moved(s), \A t \in Source \ {s} : Still(t)
  PROVE  [Lifecycle!Next]_(Lifecycle!vars)
<1>1. PhaseAt' = [PhaseAt EXCEPT ![s] = PhaseAt'[s]]
  BY Mapped DEF Still, SamePhase
<1>2. FiledAt' = [FiledAt EXCEPT ![s] = FiledAt'[s]]
  BY Mapped DEF Still, SameFile
<1>3. UsedAt' = [UsedAt EXCEPT ![s] = UsedAt'[s]]
  BY Mapped DEF Still, SameUse
<1>4. /\ SamePhase(s) => PhaseAt' = PhaseAt
      /\ SameFile(s) => FiledAt' = FiledAt
      /\ SameUse(s) => UsedAt' = UsedAt
  BY <1>1, <1>2, <1>3, Mapped DEF SamePhase, SameFile, SameUse
<1>5. CASE Still(s)
  BY <1>4, <1>5 DEF Still, PhaseAt, FiledAt, UsedAt, Lifecycle!vars
<1>6. CASE ~Still(s)
  <2>1. /\ FiledAt[s] \in BOOLEAN /\ FiledAt'[s] \in BOOLEAN
        /\ UsedAt[s] \in BOOLEAN /\ UsedAt'[s] \in BOOLEAN
    BY Mapped
  <2>2. \/ Lifecycle!Reserve(s) \/ Lifecycle!Put(s) \/ Lifecycle!Remove(s)
        \/ Lifecycle!Complete(s) \/ Lifecycle!Use(s) \/ Lifecycle!EndUse(s)
        \/ Lifecycle!Leave(s) \/ Lifecycle!Erase(s)
    BY <1>1, <1>2, <1>3, <1>4, <1>6, <2>1, Mapping DEF Moved, Still, SamePhase, SameFile,
       SameUse
  <2> QED
    BY <2>2 DEF Lifecycle!Next
<1> QED
  BY <1>5, <1>6

LEMMA Values ==
  ASSUME NEW s \in Source
  PROVE  /\ PhaseAt[s] = PhaseOf(sources[s].status) /\ PhaseAt'[s] = PhaseOf(sources'[s].status)
         /\ (FiledAt[s] <=> s \in stored) /\ (FiledAt'[s] <=> s \in stored')
         /\ (UsedAt[s] <=> InUse(s))
<1>1. PhaseAt[s] = PhaseOf(sources[s].status) /\ PhaseAt'[s] = PhaseOf(sources'[s].status)
  BY DEF PhaseAt
<1>2. (FiledAt[s] <=> s \in stored) /\ (FiledAt'[s] <=> s \in stored')
  BY DEF FiledAt
<1>3. UsedAt[s] <=> InUse(s)
  BY DEF UsedAt, InUse
<1> QED
  BY <1>1, <1>2, <1>3

LEMMA Phases ==
  /\ PhaseOf("none") = "none" /\ PhaseOf("reserved") = "open" /\ PhaseOf("uploading") = "open"
  /\ PhaseOf("ready") = "ready" /\ PhaseOf("expired") = "leaving"
  /\ PhaseOf("deleting") = "leaving" /\ PhaseOf("deleted") = "gone"
  BY DEF PhaseOf

\* What is used is ready.
LEMMA UsedReady ==
  ASSUME IInv, NEW s \in Source, sources[s].status # "ready"
  PROVE  ~UsedAt[s]
  BY Values DEF IInv, ArchivesMatchRows, InUse

\* Jobs that are not queued, before or after the step, use nothing.
LEMMA UsesSame ==
  ASSUME projects' = projects,
         \A k \in Job : \/ jobs'[k].status = jobs[k].status /\ jobs'[k].source = jobs[k].source
                        \/ jobs'[k].status # "queued" /\ jobs[k].status # "queued"
  PROVE  UsedAt' = UsedAt
<1>1. \A s \in Source : (\E j \in Job : jobs'[j].status = "queued" /\ jobs'[j].source = s)
                    <=> (\E j \in Job : jobs[j].status = "queued" /\ jobs[j].source = s)
  OBVIOUS
<1> QED
  BY <1>1 DEF UsedAt, InUse

\* A row goes on to another status, and nothing else moves.
LEMMA StatusMoves ==
  ASSUME IInv, NEW s \in Source, NEW status, NEW deletion, SourceGoes(s, status, deletion),
         stored' = stored, UsedAt' = UsedAt,
         \/ PhaseOf(status) = PhaseOf(sources[s].status)
         \/ sources[s].status = "none" /\ status = "reserved"
         \/ sources[s].status \in {"reserved", "uploading"} /\ status \in {"expired", "deleting"}
         \/ /\ sources[s].status = "ready" /\ status \in {"expired", "deleting"}
            /\ ~Referenced(s)
         \/ sources[s].status \in {"expired", "deleting"} /\ status = "deleted" /\ s \notin stored
  PROVE  [Lifecycle!Next]_(Lifecycle!vars)
<1>1. \A t \in Source : SameFile(t) /\ SameUse(t)
  BY DEF SameFile, SameUse, FiledAt
<1>2. \A t \in Source \ {s} : SamePhase(t)
  BY DEF SourceGoes, SamePhase, PhaseAt
<1>3. PhaseAt[s] = PhaseOf(sources[s].status) /\ PhaseAt'[s] = PhaseOf(status)
  BY Values DEF SourceGoes
<1>4. ~Referenced(s) => ~UsedAt[s]
  BY Values DEF InUse, Referenced, Referrers
<1>5. Moved(s)
  BY <1>1, <1>3, <1>4, Phases, Values, UsedReady DEF Moved, Still, SamePhase
<1> QED
  BY <1>1, <1>2, <1>5, OneMoves DEF Still

\* The archive of a source that is not ready appears or goes.
LEMMA FileMoves ==
  ASSUME IInv, NEW s \in Source, UNCHANGED <<sources, projects, jobs>>,
         stored' \in {stored, stored \cup {s}, stored \ {s}},
         \/ stored' = stored
         \/ sources[s].status \in {"reserved", "uploading", "expired", "deleting"}
  PROVE  [Lifecycle!Next]_(Lifecycle!vars)
<1>1. \A t \in Source : SamePhase(t) /\ SameUse(t)
  BY UsesSame DEF SamePhase, SameUse, PhaseAt
<1>2. \A t \in Source \ {s} : SameFile(t)
  BY DEF SameFile, FiledAt
<1>3. Moved(s)
  BY <1>1, Phases, Values DEF Moved, Still, SameFile, FiledAt
<1> QED
  BY <1>1, <1>2, <1>3, OneMoves DEF Still

\* A job or a project begins or ends to use a source that is ready.
LEMMA UseMoves ==
  ASSUME IInv, NEW s \in Source, UNCHANGED <<sources, stored>>, sources[s].status = "ready",
         \A t \in Source \ {s} : UsedAt'[t] = UsedAt[t]
  PROVE  [Lifecycle!Next]_(Lifecycle!vars)
<1>1. \A t \in Source : SamePhase(t) /\ SameFile(t)
  BY DEF SamePhase, SameFile, PhaseAt, FiledAt
<1>2. Moved(s)
  BY <1>1, Phases, Values DEF Moved
<1> QED
  BY <1>1, <1>2, OneMoves DEF Still, SameUse

\* Nothing moves.
LEMMA NoneMoves ==
  ASSUME stored' = stored, UsedAt' = UsedAt,
         \A t \in Source : PhaseOf(sources'[t].status) = PhaseOf(sources[t].status)
  PROVE  UNCHANGED Lifecycle!vars
  BY DEF PhaseAt, FiledAt, UsedAt, Lifecycle!vars

\* Rows, references and archives keep their place in the lifecycle.
LEMMA RowsStay ==
  ASSUME UNCHANGED <<sources, projects, jobs, stored>>
  PROVE  [Lifecycle!Next]_(Lifecycle!vars)
  BY NoneMoves, UsesSame

\* The transaction that makes a source ready queues the job reserved with it.
LEMMA CommitMoves ==
  ASSUME IInv, NEW u \in Upload, Commit(u), CanCommit(u)
  PROVE  [Lifecycle!Next]_(Lifecycle!vars)
<1> DEFINE s == uploads[u].source
<1>1. /\ s \in Source /\ sources[s].status = "uploading" /\ s \in stored
      /\ UNCHANGED <<projects, stored>>
  BY DEF IInv, Requests, Commit, CanCommit
<1>2. SourceGoes(s, "ready", sources[s].deletion)
  BY <1>1 DEF IInv, TypeOK, Commit, SourceRow, SourceGoes
<1>3. Follows(s, "uploading", "queued")
  BY <1>1, JobFollows DEF IInv, Commit
<1> HIDE DEF s
<1>4. \A t \in Source \ {s} : SamePhase(t)
  BY <1>2 DEF SourceGoes, SamePhase, PhaseAt
<1>5. \A t \in Source : SameFile(t)
  BY <1>1 DEF SameFile, FiledAt
<1>6. \A t \in Source \ {s} : SameUse(t)
  <2> SUFFICES ASSUME NEW t \in Source \ {s} PROVE SameUse(t)
    OBVIOUS
  <2>1. \A k \in Job : \/ jobs'[k] = jobs[k]
                       \/ jobs'[k].source # t /\ jobs[k].source # t
    BY <1>1, <1>3, SourceStoreAssumption DEF Follows, IInv, Bound
  <2> QED
    BY <1>1, <2>1 DEF SameUse, UsedAt, InUse
<1>7. PhaseAt[s] = "open" /\ PhaseAt'[s] = "ready" /\ FiledAt[s] /\ ~UsedAt[s]
  BY <1>1, <1>2, Values, Phases, UsedReady DEF SourceGoes
<1>8. Moved(s)
  BY <1>1, <1>5, <1>7 DEF Moved
<1> QED
  BY <1>1, <1>4, <1>5, <1>6, <1>8, OneMoves DEF Still

LEMMA UploadingMoves ==
  ASSUME IInv, Opened, NEW u \in Upload, Uploading(u)
  PROVE  [Lifecycle!Next]_(Lifecycle!vars)
<1> DEFINE source == uploads[u].source
<1>1. ASSUME NEW s \in Source, Begin(u, s) PROVE [Lifecycle!Next]_(Lifecycle!vars)
  <2>1. SourceGoes(s, "uploading", sources[s].deletion)
    BY <1>1, SourceStatus DEF IInv, Begin
  <2>2. Follows(s, "reserved", "uploading")
    BY <1>1, JobFollows DEF IInv, Begin
  <2>3. /\ UNCHANGED <<projects, stored>>
        /\ PhaseOf(sources[s].status) = PhaseOf("uploading")
    BY <1>1, Phases DEF Begin
  <2>4. UsedAt' = UsedAt
    BY <2>2, <2>3, UsesSame DEF Follows
  <2> QED
    BY <2>1, <2>3, <2>4, StatusMoves
<1>2. CASE AssertOwned(u) \/ Abort(u) \/ GiveUp(u)
  BY <1>2, RowsStay DEF AssertOwned, Abort, GiveUp
<1>3. CASE Place(u)
  <2>1. CASE u \notin temp
    BY <1>3, <2>1, RowsStay DEF Place
  <2>2. CASE u \in temp
    <3>1. /\ source \in Source /\ UNCHANGED <<sources, projects, jobs>>
          /\ stored' = stored \cup {source} /\ sources[source].status # "none"
      BY <1>3, <2>2 DEF IInv, Requests, Opened, Place
    <3>2. sources[source].status \notin {"deleted"}
      BY <2>2, <3>1 DEF IInv, Removal, Gone
    <3>3. sources[source].status = "ready" => stored' = stored
      BY <3>1 DEF IInv, ArchivesMatchRows
    <3>4. sources[source] \in SourceRow
      BY <3>1 DEF IInv, TypeOK
    <3>5. \/ stored' = stored
          \/ sources[source].status \in {"reserved", "uploading", "expired", "deleting"}
      BY <3>1, <3>2, <3>3, <3>4 DEF SourceRow
    <3> HIDE DEF source
    <3> QED
      BY <3>1, <3>5, FileMoves
  <2> QED
    BY <2>1, <2>2
<1>4. CASE Commit(u)
  <2>1. CASE CanCommit(u)
    BY <1>4, <2>1, CommitMoves
  <2>2. CASE ~CanCommit(u)
    BY <1>4, <2>2, RowsStay DEF Commit
  <2> QED
    BY <2>1, <2>2
<1>5. CASE Remove(u)
  <2>1. /\ source \in Source /\ UNCHANGED <<sources, projects, jobs>>
        /\ stored' = stored \ {source} /\ sources[source].status = "uploading"
    BY <1>5 DEF IInv, Requests, Claims, Owns, Remove
  <2> QED
    BY <2>1, FileMoves
<1>6. CASE Release(u)
  <2>1. /\ source \in Source /\ Owns(u) /\ sources[source].status = "uploading"
        /\ UNCHANGED <<projects, stored>>
    BY <1>6 DEF IInv, Requests, Claims, Owns, Release
  <2>2. SourceGoes(source, "reserved", sources[source].deletion)
    BY <1>6, <2>1, SourceStatus DEF IInv, Release
  <2>3. Follows(source, "uploading", "reserved")
    BY <1>6, <2>1, JobFollows DEF IInv, Release
  <2>4. UsedAt' = UsedAt
    BY <2>1, <2>3, UsesSame DEF Follows
  <2>5. PhaseOf(sources[source].status) = PhaseOf("reserved")
    BY <2>1, Phases
  <2> QED
    BY <2>1, <2>2, <2>4, <2>5, StatusMoves
<1> QED
  BY <1>1, <1>2, <1>3, <1>4, <1>5, <1>6 DEF Uploading

\* A job that ends, expires or is deleted; in the first case it may have been queued.
LEMMA JobMoves ==
  ASSUME IInv, NEW j \in Job, EndJob(j) \/ MarkJobDeleting(j) \/ ExpireJob(j) \/ DeleteJob(j)
  PROVE  [Lifecycle!Next]_(Lifecycle!vars)
<1>1. /\ \E status \in {"ended", "expired", "deleting", "deleted"} :
           JobGoes(j, status, jobs[j].source)
      /\ UNCHANGED <<projects, stored>> /\ jobs[j].status # "none"
  BY JobStatus DEF IInv, EndJob, MarkJobDeleting, ExpireJob, DeleteJob
<1>2. jobs[j].source \in Source
  BY <1>1 DEF IInv, TypeOK, JobRow
<1>3. \A s \in Source : sources'[s].status = sources[s].status
  BY <1>2, SourceAge DEF IInv, EndJob, MarkJobDeleting, ExpireJob, DeleteJob, SourceGoes
<1>4. CASE jobs[j].status # "queued"
  <2>1. UsedAt' = UsedAt
    BY <1>1, <1>4, UsesSame DEF JobGoes
  <2> QED
    BY <1>1, <1>3, <2>1, NoneMoves
<1>5. CASE jobs[j].status = "queued"
  <2>1. sources[jobs[j].source].status = "ready" /\ sources' = sources
    BY <1>5 DEF IInv, ArchivesMatchRows, EndJob, MarkJobDeleting, ExpireJob, DeleteJob
  <2>2. \A t \in Source \ {jobs[j].source} : UsedAt'[t] = UsedAt[t]
    BY <1>1 DEF JobGoes, UsedAt, InUse
  <2> QED
    BY <1>1, <1>2, <2>1, <2>2, UseMoves
<1> QED
  BY <1>4, <1>5

LEMMA CleaningMoves ==
  ASSUME IInv, Cleaning
  PROVE  [Lifecycle!Next]_(Lifecycle!vars)
<1> DEFINE going == cleaner.source
<1>1. ASSUME NEW s \in Source, RecoverUpload(s) PROVE [Lifecycle!Next]_(Lifecycle!vars)
  <2> DEFINE status == IF sources[s].status = "uploading" THEN "reserved" ELSE sources[s].status
  <2>1. SourceGoes(s, status, sources[s].deletion)
    BY <1>1, SourceStatus DEF IInv, TypeOK, SourceRow, RecoverUpload
  <2>2. Follows(s, "uploading", "reserved") /\ UNCHANGED <<projects, stored>>
    BY <1>1, JobFollows DEF IInv, RecoverUpload
  <2>3. UsedAt' = UsedAt
    BY <2>2, UsesSame DEF Follows
  <2>4. PhaseOf(status) = PhaseOf(sources[s].status)
    BY Phases
  <2> QED
    BY <2>1, <2>2, <2>3, <2>4, StatusMoves
<1>2. ASSUME NEW s \in Source, ExpireNonce(s) PROVE [Lifecycle!Next]_(Lifecycle!vars)
  BY <1>2, RowsStay DEF ExpireNonce
<1>3. ASSUME NEW s \in Source, ExpireSource(s) PROVE [Lifecycle!Next]_(Lifecycle!vars)
  <2>1. SourceGoes(s, "expired", sources[s].deletion)
    BY <1>3, SourceStatus DEF IInv, ExpireSource
  <2>2. /\ UNCHANGED <<jobs, projects, stored>>
        /\ sources[s].status \in {"reserved", "uploading"}
    BY <1>3 DEF ExpireSource
  <2> QED
    BY <2>1, <2>2, UsesSame, StatusMoves
<1>4. ASSUME NEW s \in Source, ClaimDeletion(s) PROVE [Lifecycle!Next]_(Lifecycle!vars)
  <2>1. SourceGoes(s, "deleting", "deleting")
    BY <1>4, SourceDeletion DEF IInv, ClaimDeletion
  <2>2. UNCHANGED <<jobs, projects, stored>> /\ CanDelete(s)
    BY <1>4 DEF ClaimDeletion
  <2>3. sources[s].status \in {"ready", "expired", "deleting"} /\ ~Referenced(s)
    BY <2>2 DEF IInv, TypeOK, SourceRow, Deletions, CanDelete
  <2> QED
    BY <2>1, <2>2, <2>3, Phases, UsesSame, StatusMoves
<1>5. ASSUME NEW j \in Job, ExpireJob(j) PROVE [Lifecycle!Next]_(Lifecycle!vars)
  BY <1>5, JobMoves
<1>6. CASE RemoveArchive \/ RemovalFails
  <2>1. /\ going \in Source /\ UNCHANGED <<sources, projects, jobs>>
        /\ stored' \in {stored, stored \ {going}} /\ sources[going].status = "deleting"
    BY <1>6 DEF IInv, Removal, BeingDeleted, RemoveArchive, RemovalFails
  <2> QED
    BY <2>1, FileMoves
<1>7. CASE FinishDeletion
  <2>1. CASE Referenced(going)
    BY <1>7, <2>1, RowsStay DEF FinishDeletion
  <2>2. CASE ~Referenced(going)
    <3>1. /\ going \in Source /\ BeingDeleted(going) /\ going \notin stored
          /\ UNCHANGED <<projects, jobs, stored>>
      BY <1>7 DEF IInv, Removal, Gone, FinishDeletion
    <3>2. SourceGoes(going, "deleted", "deleted")
      BY <1>7, <2>2, <3>1, SourceDeletion DEF IInv, FinishDeletion
    <3> QED
      BY <3>1, <3>2, UsesSame, StatusMoves DEF BeingDeleted
  <2> QED
    BY <2>1, <2>2
<1>8. CASE FailDeletion
  <2>1. /\ going \in Source /\ BeingDeleted(going) /\ UNCHANGED <<projects, jobs, stored>>
    BY <1>8 DEF IInv, Removal, FailDeletion
  <2>2. \A s \in Source : \/ sources'[s].status = sources[s].status
                          \/ sources'[s].status = "expired" /\ sources[s].status = "deleting"
    BY <1>8, <2>1 DEF IInv, TypeOK, SourceRow, BeingDeleted, FailDeletion
  <2> QED
    BY <2>1, <2>2, Phases, UsesSame, NoneMoves
<1>9. CASE CleanerCrash
  BY <1>9, RowsStay DEF CleanerCrash
<1> QED
  BY <1>1, <1>2, <1>3, <1>4, <1>5, <1>6, <1>7, <1>8, <1>9 DEF Cleaning

LEMMA LifecycleStep ==
  ASSUME IInv, Opened, [Next]_vars
  PROVE  [Lifecycle!Next]_(Lifecycle!vars)
<1>1. CASE UNCHANGED vars
  BY <1>1, RowsStay DEF vars
<1>2. CASE \E u \in Upload : Uploading(u)
  BY <1>2, UploadingMoves
<1>3. CASE Cleaning
  BY <1>3, CleaningMoves
<1>4. CASE Crash
  BY <1>4, RowsStay DEF Crash
<1>5. ASSUME NEW s \in Source, NEW j \in Job \cup {None}, Reserve(s, j)
      PROVE  [Lifecycle!Next]_(Lifecycle!vars)
  <2>1. SourceGoes(s, "reserved", sources[s].deletion)
    BY <1>5, SourceStatus DEF IInv, Reserve
  <2>2. UNCHANGED <<projects, stored>> /\ sources[s].status = "none"
    BY <1>5 DEF Reserve
  <2>3. /\ jobs' = [k \in Job |-> IF k = j THEN [status |-> "reserved", source |-> s] ELSE jobs[k]]
        /\ j \in Job => jobs[j].status = "none"
    BY <1>5, SourceStoreAssumption DEF Reserve
  <2>4. UsedAt' = UsedAt
    <3>1. ASSUME NEW k \in Job
          PROVE  \/ jobs'[k] = jobs[k]
                 \/ jobs'[k].status = "reserved" /\ jobs[k].status = "none"
      BY <2>3
    <3> QED
      BY <2>2, <3>1, UsesSame
  <2> QED
    BY <2>1, <2>2, <2>4, StatusMoves
<1>6. ASSUME NEW s \in Source, NEW j \in Job, Queue(j, s)
      PROVE  [Lifecycle!Next]_(Lifecycle!vars)
  <2>1. /\ UNCHANGED <<sources, projects, stored>> /\ sources[s].status = "ready"
        /\ jobs[j].status = "none"
        /\ \A k \in Job : jobs'[k] = IF k = j THEN [status |-> "queued", source |-> s] ELSE jobs[k]
    BY <1>6 DEF IInv, TypeOK, Queue, Ready
  <2>2. \A t \in Source \ {s} : UsedAt'[t] = UsedAt[t]
    BY <2>1 DEF UsedAt, InUse
  <2> QED
    BY <2>1, <2>2, UseMoves
<1>7. ASSUME NEW s \in Source, AttachRevision(s) \/ DeleteProject(s)
      PROVE  [Lifecycle!Next]_(Lifecycle!vars)
  <2>1. /\ UNCHANGED <<sources, jobs, stored>> /\ sources[s].status = "ready"
        /\ projects' \in {projects \cup {s}, projects \ {s}}
    BY <1>7 DEF IInv, ArchivesMatchRows, AttachRevision, DeleteProject, Ready
  <2>2. \A t \in Source \ {s} : UsedAt'[t] = UsedAt[t]
    BY <2>1 DEF UsedAt, InUse
  <2> QED
    BY <2>1, <2>2, UseMoves
<1>8. ASSUME NEW s \in Source, MarkDeleting(s) PROVE [Lifecycle!Next]_(Lifecycle!vars)
  <2>1. SourceGoes(s, "deleting", "pending")
    BY <1>8, MarkedRow DEF IInv
  <2>2. /\ UNCHANGED <<jobs, projects, stored>>
        /\ sources[s].status \in {"ready", "expired"} /\ ~Referenced(s)
    BY <1>8 DEF MarkDeleting
  <2> QED
    BY <2>1, <2>2, Phases, UsesSame, StatusMoves
<1>9. ASSUME NEW s \in Source, Lapse(s) PROVE [Lifecycle!Next]_(Lifecycle!vars)
  BY <1>9, RowsStay DEF Lapse
<1>10. ASSUME NEW s \in Source, TicketExpires(s) \/ OrphanDeadline(s)
       PROVE  [Lifecycle!Next]_(Lifecycle!vars)
  <2>1. \A t \in Source : sources'[t].status = sources[t].status
    BY <1>10, SourceAge DEF IInv, SourceGoes, TypeOK, SourceRow, TicketExpires, OrphanDeadline
  <2>2. UNCHANGED <<jobs, projects, stored>>
    BY <1>10 DEF TicketExpires, OrphanDeadline
  <2> QED
    BY <2>1, <2>2, UsesSame, NoneMoves
<1>11. ASSUME NEW j \in Job, EndJob(j) \/ MarkJobDeleting(j) \/ DeleteJob(j)
       PROVE  [Lifecycle!Next]_(Lifecycle!vars)
  BY <1>11, JobMoves
<1> QED
  BY <1>1, <1>2, <1>3, <1>4, <1>5, <1>6, <1>7, <1>8, <1>9, <1>10, <1>11 DEF Next

\* What has been reserved never comes back to that, by the step of the lifecycle.
LEMMA OpenedStep ==
  ASSUME IInv, IInv', Opened, [Next]_vars
  PROVE  Opened'
<1>1. \A s \in Source : PhaseAt[s] # "none" => PhaseAt'[s] # "none"
  <2> SUFFICES ASSUME NEW s \in Source, PhaseAt[s] # "none" PROVE PhaseAt'[s] # "none"
    OBVIOUS
  <2>1. CASE UNCHANGED Lifecycle!vars
    BY <2>1 DEF PhaseAt, Lifecycle!vars
  <2>2. ASSUME NEW t \in Source,
               \/ Lifecycle!Reserve(t) \/ Lifecycle!Put(t) \/ Lifecycle!Remove(t)
               \/ Lifecycle!Complete(t) \/ Lifecycle!Use(t) \/ Lifecycle!EndUse(t)
               \/ Lifecycle!Leave(t) \/ Lifecycle!Erase(t)
        PROVE  PhaseAt'[s] # "none"
    BY <2>2, Mapping, Mapped
  <2> QED
    BY <2>1, <2>2, LifecycleStep DEF Lifecycle!Next
<1>2. \A s \in Source : sources[s].status # "none" => sources'[s].status # "none"
  <2> SUFFICES ASSUME NEW s \in Source, sources[s].status # "none"
               PROVE  sources'[s].status # "none"
    OBVIOUS
  <2>1. PhaseAt[s] # "none"
    <3>1. sources[s].status \in {"reserved", "uploading", "ready", "expired", "deleting", "deleted"}
      BY DEF IInv, TypeOK, SourceRow
    <3>2. PhaseAt[s] = PhaseOf(sources[s].status)
      BY Values
    <3> QED
      BY <3>1, <3>2, Phases
  <2> QED
    BY <1>1, <2>1, Phases, Values
<1>3. ASSUME NEW u \in Upload, uploads'[u].pc # "off"
      PROVE  \/ uploads[u].pc # "off" /\ uploads'[u].source = uploads[u].source
             \/ \E s \in Source : uploads'[u].source = s /\ sources'[s].status = "uploading"
  <2>1. CASE uploads' = uploads \/ Crash
    BY <1>3, <2>1 DEF Crash, Off
  <2>2. ASSUME NEW v \in Upload, NEW s \in Source, Begin(v, s)
        PROVE  \/ uploads'[u] = uploads[u]
               \/ uploads'[u].source = s /\ sources'[s].status = "uploading"
    BY <2>2 DEF IInv, TypeOK, Begin, SourceRow
  <2>3. CASE \E v \in Upload : \/ AssertOwned(v) \/ Place(v) \/ Commit(v) \/ Abort(v)
                               \/ GiveUp(v) \/ Remove(v) \/ Release(v)
    BY <1>3, <2>3 DEF IInv, TypeOK, Request, Off, AssertOwned, Place, Commit, Abort, GiveUp,
       Remove, Release, Step
  <2>4. \/ uploads' = uploads \/ Crash \/ \E v \in Upload : Uploading(v)
    BY DEF Next, Cleaning, vars, Reserve, Queue, EndJob, MarkJobDeleting, DeleteJob,
       AttachRevision, DeleteProject, Lapse, TicketExpires, OrphanDeadline, RecoverUpload,
       ExpireJob, ExpireNonce, ExpireSource, MarkDeleting, ClaimDeletion, RemoveArchive,
       RemovalFails, FinishDeletion, FailDeletion, CleanerCrash
  <2> QED
    BY <1>3, <2>1, <2>2, <2>3, <2>4 DEF Uploading
<1> QED
  BY <1>2, <1>3 DEF IInv, Requests, Opened

LEMMA LifecycleInit == Init => Lifecycle!Init /\ Opened
<1> SUFFICES ASSUME Init PROVE Lifecycle!Init /\ Opened
  OBVIOUS
<1>1. \A s \in Source : PhaseOf(sources[s].status) = "none" /\ s \notin stored /\ ~InUse(s)
  BY Phases DEF Init, InUse
<1>2. Lifecycle!Init
  <2>1. PhaseAt = [s \in Source |-> "none"]
    BY <1>1 DEF PhaseAt
  <2>2. FiledAt = [s \in Source |-> FALSE]
    <3>1. \A s \in Source : FiledAt[s] = FALSE
      BY <1>1, Mapped, Values
    <3> QED
      BY <3>1, Mapped
  <2>3. UsedAt = [s \in Source |-> FALSE]
    <3>1. \A s \in Source : UsedAt[s] = FALSE
      BY <1>1, Mapped, Values
    <3> QED
      BY <3>1, Mapped
  <2> QED
    BY <2>1, <2>2, <2>3 DEF Lifecycle!Init, PhaseAt, FiledAt, UsedAt
<1>3. Opened
  BY DEF Init, Opened, Off
<1> QED
  BY <1>2, <1>3

\* A source is used only while it is ready, goes only unused and never comes back,
\* whatever requests, the clock and the cleanup do (source-lifecycle.ts:39).
THEOREM SourcesImplementLifecycle == ASSUME ~SlowRemoval PROVE Spec => ImplementsSource
<1>1. Init => IInv /\ Opened /\ Lifecycle!Init
  BY InitSafe, LifecycleInit
<1>2. IInv /\ Opened /\ [Next]_vars
      => IInv' /\ Opened' /\ [Lifecycle!Next]_(Lifecycle!vars)
  BY NextSafe, OpenedStep, LifecycleStep
<1>3. Init /\ [][Next]_vars => Lifecycle!Init /\ [][Lifecycle!Next]_(Lifecycle!vars)
  BY <1>1, <1>2, PTL
<1> QED
  BY <1>3, PTL DEF Spec, ImplementsSource, Lifecycle!Spec
=============================================================================
