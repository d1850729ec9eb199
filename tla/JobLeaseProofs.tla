--------------------------- MODULE JobLeaseProofs ---------------------------
(***************************************************************************)
(* Theorems about JobLease, for any sets of workers and jobs and any       *)
(* bounds.  In this order:                                                 *)
(*                                                                         *)
(*   - what the statements on a row of `jobs` preserve (JobRow);           *)
(*   - the type invariant;                                                 *)
(*   - publication: artifact rows are backed by directories, whatever      *)
(*     fenced workers, failures and recoveries do, and a fenced worker     *)
(*     writes nothing;                                                     *)
(*   - containers: one for each job, and none that nobody watches, as      *)
(*     long as no live process stalls for longer than its lease;           *)
(*   - the rows implement JobLifecycle.                                    *)
(***************************************************************************)
EXTENDS JobLease, TLAPS

-----------------------------------------------------------------------------
(* Rows: what the statements preserve.                                     *)

LEMMA OwnerType ==
  ASSUME NEW w \in Worker
  PROVE  Lease(w) \in Owner /\ Recoverer(w) \in Owner
  BY DEF Owner, Lease, Recoverer

LEMMA StatusType ==
  /\ Active \subseteq Status /\ Terminal \subseteq Status /\ Ended \subseteq Terminal
  /\ {"queued", "validating", "running"} \subseteq Active
  /\ {"succeeded", "failed", "timeout", "rejected"} \subseteq Status
  /\ {"canceled", "expired", "queued", "validating", "running"} \subseteq Status
  BY DEF Status, Terminal, Active, Ended

\* Claiming a row, as a job or as a stale lease, leaves a row.
LEMMA ClaimedType ==
  ASSUME NEW r \in Row, NEW w \in Worker
  PROVE  Claimed(r, w) \in Row /\ RecoveryClaimed(r, w) \in Row
<1>1. \A o \in Owner, g \in Nat :
         [r EXCEPT !.status = "validating", !.owner = o, !.gen = g, !.expired = FALSE] \in Row
  BY StatusType DEF Row
<1>2. \A o \in Owner, g \in Nat : [r EXCEPT !.owner = o, !.gen = g, !.expired = FALSE] \in Row
  BY DEF Row
<1>3. r.gen + 1 \in Nat
  BY DEF Row
<1>4. Claimed(r, w) \in Row
  BY <1>1, <1>3, OwnerType DEF Claimed
<1>5. RecoveryClaimed(r, w) \in Row
  BY <1>2, <1>3, OwnerType DEF RecoveryClaimed
<1> QED
  BY <1>4, <1>5

\* Every other statement leaves a row.
LEMMA RowTypes ==
  ASSUME NEW r \in Row
  PROVE  /\ Renewed(r) \in Row
         /\ MarkedCanceled(r) \in Row
         /\ Running(r) \in Row
         /\ ClaimExpired(r) \in Row
         /\ Requeued(r) \in Row
         /\ Canceled(r) \in Row
         /\ \A to \in Status : Finished(r, to) \in Row
<1>1. Renewed(r) \in Row
  BY DEF Row, Renewed
<1>2. MarkedCanceled(r) \in Row
  BY StatusType DEF Row, MarkedCanceled
<1>3. Running(r) \in Row
  BY StatusType DEF Row, Running
<1>4. ClaimExpired(r) \in Row
  BY DEF Row, ClaimExpired
<1>5. Requeued(r) \in Row
  BY StatusType DEF Row, Requeued
<1>6. Canceled(r) \in Row
  BY StatusType DEF Row, Canceled
<1>7. \A to \in Status : Finished(r, to) \in Row
  BY DEF Row, Finished
<1> QED
  BY <1>1, <1>2, <1>3, <1>4, <1>5, <1>6, <1>7

-----------------------------------------------------------------------------
(* What the statements never do to a job that has ended.                   *)

\* The row keeps its attempts in order, stays ended once it has ended, and
\* does not end with a render result.
Ordinary(r, s) ==
    /\ r.gen <= s.gen
    /\ r.status \in Ended => s.status = r.status /\ s.gen = r.gen
    /\ s.status \in {"succeeded", "timeout"} => s.status = r.status

LEMMA OrdinaryStatements ==
  ASSUME NEW r \in Row, NEW w
  PROVE  /\ Ordinary(r, r)
         /\ CanClaim(r) => Ordinary(r, Claimed(r, w))
         /\ Ordinary(r, Renewed(r))
         /\ r.status \in {"validating", "running", "canceled"} => Ordinary(r, MarkedCanceled(r))
         /\ r.status = "validating" => Ordinary(r, Running(r))
         /\ Stale(r) => Ordinary(r, RecoveryClaimed(r, w))
         /\ Ordinary(r, ClaimExpired(r))
         /\ r.status \in {"validating", "running"} => Ordinary(r, Requeued(r))
         /\ CanCancel(r) => Ordinary(r, Canceled(r))
         /\ \A to \in {"failed", "rejected"} :
              r.status \in {"validating", "running"} => Ordinary(r, Finished(r, to))
<1> r.gen \in Nat
  BY DEF Row
<1>1. Ordinary(r, r) /\ Ordinary(r, Renewed(r)) /\ Ordinary(r, ClaimExpired(r))
  BY DEF Ordinary, Renewed, ClaimExpired, Row
<1>2. CanClaim(r) => Ordinary(r, Claimed(r, w))
  BY DEF Ordinary, CanClaim, Claimed, Row, Ended
<1>3. r.status \in {"validating", "running", "canceled"} => Ordinary(r, MarkedCanceled(r))
  BY DEF Ordinary, MarkedCanceled, Row, Ended
<1>4. r.status = "validating" => Ordinary(r, Running(r))
  BY DEF Ordinary, Running, Row, Ended
<1>5. Stale(r) => Ordinary(r, RecoveryClaimed(r, w))
  BY DEF Ordinary, Stale, RecoveryClaimed, Row, Ended
<1>6. r.status \in {"validating", "running"} => Ordinary(r, Requeued(r))
  BY DEF Ordinary, Requeued, Row, Ended
<1>7. CanCancel(r) => Ordinary(r, Canceled(r))
  BY DEF Ordinary, CanCancel, Canceled, Row, Active, Ended
<1>8. \A to \in {"failed", "rejected"} :
        r.status \in {"validating", "running"} => Ordinary(r, Finished(r, to))
  BY DEF Ordinary, Finished, Row, Ended
<1> QED
  BY <1>1, <1>2, <1>3, <1>4, <1>5, <1>6, <1>7, <1>8

-----------------------------------------------------------------------------
(* Where a worker is, and what it carries there.                           *)

LEMMA Places ==
  /\ Busy \subseteq PC
  /\ Rendering \subseteq Busy /\ Closing \subseteq Busy /\ Failing \subseteq Busy
  /\ {"off", "boot", "booted", "idle", "dead"} \subseteq PC \ Busy
  BY DEF PC, Busy, Rendering, Closing, Failing, Loop

\* The named places, spelled out for the steps that compare them.
LEMMA Steps ==
  /\ {"claimed", "starting", "rendering", "verify", "closed", "checked", "renewed",
      "published", "cleanup", "final", "failing", "failwrite", "failrename",
      "failcommit", "failclean"} = Busy
  BY DEF Busy, Rendering, Closing, Failing

LEMMA BusyWorker ==
  ASSUME TypeOK, NEW w \in Worker, proc[w].pc \in Busy
  PROVE  /\ proc[w] \in ProcState /\ proc[w] \in Proc
         /\ proc[w].job \in Job /\ proc[w].gen \in Nat
         /\ Mine(w) \in Row
         /\ Key(w) \in Job \X Nat
         /\ VerdictFits(proc[w].pc, proc[w].verdict)
         /\ proc[w].verdict \in Verdict
  BY DEF TypeOK, ProcState, Proc, Mine, Key

-----------------------------------------------------------------------------
(* The ways a step updates a worker process keep it well typed.            *)

LEMMA AtType ==
  ASSUME NEW pc \in PC \ Busy
  PROVE  At(pc) \in ProcState /\ At(pc).pc = pc
<1>1. At(pc) \in Proc /\ At(pc).pc = pc
  BY DEF At, Proc, Verdict
<1>2. VerdictFits(pc, "none")
  BY Steps DEF VerdictFits
<1> QED
  BY <1>1, <1>2 DEF ProcState, At

LEMMA ClaimedProcType ==
  ASSUME NEW j \in Job, NEW g \in Nat
  PROVE  [At("claimed") EXCEPT !.job = j, !.gen = g] \in ProcState
<1> DEFINE r == At("claimed")
<1>1. r \in Proc /\ r.pc = "claimed" /\ r.verdict = "none"
  BY Steps, Places DEF At, Proc, Verdict
<1> HIDE DEF r
<1>2. \A p \in Proc : [p EXCEPT !.job = j, !.gen = g] \in Proc
  BY DEF Proc
<1>3. \A p \in Proc : LET q == [p EXCEPT !.job = j, !.gen = g]
                      IN q.pc = p.pc /\ q.job = j /\ q.verdict = p.verdict
  BY DEF Proc
<1>4. VerdictFits("claimed", "none")
  BY DEF VerdictFits
<1>5. [r EXCEPT !.job = j, !.gen = g] \in ProcState
  BY <1>1, <1>2, <1>3, <1>4 DEF ProcState
<1> QED
  BY <1>5 DEF r

LEMMA BecomeType ==
  ASSUME TypeOK, NEW w \in Worker, NEW p \in ProcState, Become(w, p)
  PROVE  proc' \in [Worker -> ProcState]
  BY DEF TypeOK, Become

LEMMA LeaveType ==
  ASSUME TypeOK, NEW w \in Worker, NEW pc \in PC \ Busy, Become(w, At(pc))
  PROVE  proc' \in [Worker -> ProcState]
  BY BecomeType, AtType

LEMMA GotoType ==
  ASSUME TypeOK, NEW w \in Worker, proc[w].pc \in Busy,
         NEW pc \in Busy, VerdictFits(pc, proc[w].verdict), Goto(w, pc)
  PROVE  proc' \in [Worker -> ProcState]
<1>1. [proc[w] EXCEPT !.pc = pc] \in ProcState
  BY BusyWorker, Places DEF ProcState, Proc
<1>2. proc' = [proc EXCEPT ![w] = [proc[w] EXCEPT !.pc = pc]]
  BY DEF Goto
<1> QED
  BY <1>1, <1>2 DEF TypeOK

LEMMA ThrowType ==
  ASSUME TypeOK, NEW w \in Worker, proc[w].pc \in Busy,
         NEW pc \in Busy, NEW v \in Verdict, VerdictFits(pc, v), Throw(w, pc, v)
  PROVE  proc' \in [Worker -> ProcState]
<1> DEFINE p == [proc[w] EXCEPT !.pc = pc, !.verdict = v]
<1>1. p \in ProcState
  BY BusyWorker, Places DEF ProcState, Proc
<1>2. proc' = [proc EXCEPT ![w] = p]
  BY DEF TypeOK, ProcState, Proc, Throw
<1> QED
  BY <1>1, <1>2 DEF TypeOK

LEMMA DirtyType ==
  ASSUME TypeOK, NEW w \in Worker, proc[w].pc \in Busy, NEW d \in BOOLEAN,
         NEW pc \in Busy, VerdictFits(pc, proc[w].verdict),
         proc' = [proc EXCEPT ![w].pc = pc, ![w].dirty = d]
  PROVE  proc' \in [Worker -> ProcState]
<1> DEFINE p == [proc[w] EXCEPT !.pc = pc, !.dirty = d]
<1>1. p \in ProcState
  BY BusyWorker, Places DEF ProcState, Proc
<1>2. proc' = [proc EXCEPT ![w] = p]
  BY DEF TypeOK, ProcState, Proc
<1> QED
  BY <1>1, <1>2 DEF TypeOK

LEMMA CloseType ==
  ASSUME TypeOK, NEW w \in Worker, proc[w].pc \in Busy, NEW d \in BOOLEAN,
         NEW pc \in Busy, NEW v \in Verdict, VerdictFits(pc, v),
         proc' = [proc EXCEPT ![w].pc = pc, ![w].verdict = v, ![w].dirty = d]
  PROVE  proc' \in [Worker -> ProcState]
<1> DEFINE p == [proc[w] EXCEPT !.pc = pc, !.verdict = v, !.dirty = d]
<1>1. p \in ProcState
  BY BusyWorker, Places DEF ProcState, Proc
<1>2. proc' = [proc EXCEPT ![w] = p]
  BY DEF TypeOK, ProcState, Proc
<1> HIDE DEF p
<1> QED
  BY <1>1, <1>2 DEF TypeOK

LEMMA LostType ==
  ASSUME TypeOK, NEW w \in Worker, proc[w].pc \in Busy,
         proc' = [proc EXCEPT ![w].lost = TRUE]
  PROVE  proc' \in [Worker -> ProcState]
<1>1. [proc[w] EXCEPT !.lost = TRUE] \in ProcState
  BY BusyWorker DEF ProcState, Proc
<1> QED
  BY <1>1 DEF TypeOK

LEMMA SetRowType ==
  ASSUME TypeOK, NEW j \in Job, NEW row \in Row, SetRow(j, row)
  PROVE  jobs' \in [Job -> Row]
  BY DEF TypeOK, SetRow

\* A step of a worker that changes rows and its own process, nothing else.
LEMMA RowAndProc ==
  ASSUME TypeOK, jobs' \in [Job -> Row], proc' \in [Worker -> ProcState],
         UNCHANGED <<artifacts, outputs, containers, rec, awaiting, lastBeat, stalls, outages>>
  PROVE  TypeOK'
  BY DEF TypeOK

\* The same of a recovery pass.
LEMMA RowAndRec ==
  ASSUME TypeOK, jobs' \in [Job -> Row], rec' \in [Worker -> RecState],
         UNCHANGED <<artifacts, outputs, containers, proc, awaiting, lastBeat, stalls, outages>>
  PROVE  TypeOK'
  BY DEF TypeOK

LEMMA RecLoopType ==
  ASSUME NEW todo \in SUBSET Job
  PROVE  RecOff \in RecState /\ [RecOff EXCEPT !.phase = "loop", !.todo = todo] \in RecState
<1>1. RecOff = [phase |-> "off", todo |-> {}, job |-> NoJob, gen |-> 0,
                was |-> "queued", seen |-> {}]
  BY DEF RecOff
<1>2. "queued" \in Status
  BY StatusType
<1> QED
  BY <1>1, <1>2 DEF RecState, Rec

LEMMA RecJob ==
  ASSUME TypeOK, NEW w \in Worker, rec[w].phase \in {"claimed", "listed", "stopped"}
  PROVE  /\ rec[w].job \in Job /\ rec[w].gen \in Nat /\ jobs[rec[w].job] \in Row
         /\ rec[w].todo \in SUBSET Job /\ rec[w].was \in Status
  BY DEF TypeOK, RecState, Rec

-----------------------------------------------------------------------------
LEMMA TypeInit == Init => TypeOK
<1> SUFFICES ASSUME Init PROVE TypeOK
  OBVIOUS
<1>1. QueuedRow \in Row
  BY StatusType DEF QueuedRow, Row
<1>2. At("off") \in ProcState
  BY AtType, Places
<1> QED
  BY <1>1, <1>2, RecLoopType DEF Init, TypeOK

\* One step per action of the specification.
LEMMA TypeStep == TypeOK /\ [Next]_vars => TypeOK'
<1> SUFFICES ASSUME TypeOK, [Next]_vars PROVE TypeOK'
  OBVIOUS
<1>1. ASSUME NEW w \in Worker, Start(w) PROVE TypeOK'
  <2>1. proc' \in [Worker -> ProcState]
    BY <1>1, LeaveType, Places DEF Start
  <2> QED
    BY <1>1, <2>1 DEF Start, TypeOK
<1>2. ASSUME NEW w \in Worker, FirstBeat(w) PROVE TypeOK'
  <2>1. proc' \in [Worker -> ProcState]
    BY <1>2, LeaveType, Places DEF FirstBeat
  <2> QED
    BY <1>2, <2>1 DEF FirstBeat, TypeOK
<1>3. ASSUME NEW w \in Worker, Beat(w) PROVE TypeOK'
  BY <1>3 DEF Beat, TypeOK
<1>4. ASSUME NEW w \in Worker, NEW j \in Job, StopWaiting(w, j) PROVE TypeOK'
  BY <1>4 DEF StopWaiting, TypeOK
<1>5. ASSUME NEW w \in Worker, NEW j \in Job, Claim(w, j) PROVE TypeOK'
  <2>1. jobs' \in [Job -> Row]
    BY <1>5, ClaimedType, SetRowType DEF Claim, TypeOK
  <2>2. jobs[j].gen + 1 \in Nat
    BY DEF TypeOK, Row
  <2>3. proc' \in [Worker -> ProcState]
    BY <1>5, <2>2, ClaimedProcType, BecomeType DEF Claim
  <2> QED
    BY <1>5, <2>1, <2>3, RowAndProc DEF Claim
<1>6. ASSUME NEW w \in Worker, LeaseBeat(w) PROVE TypeOK'
  <2>1. proc[w].pc \in Busy
    BY <1>6, Places DEF LeaseBeat
  <2>2. jobs' \in [Job -> Row]
    BY <1>6, <2>1, BusyWorker, RowTypes, SetRowType DEF LeaseBeat, TypeOK
  <2>3. proc' \in [Worker -> ProcState]
    BY <1>6, <2>1, LostType DEF LeaseBeat, TypeOK
  <2> QED
    BY <1>6, <2>2, <2>3, RowAndProc DEF LeaseBeat
<1>7. ASSUME NEW w \in Worker, Reject(w) PROVE TypeOK'
  <2>1. proc[w].pc \in Busy
    BY <1>7, Steps DEF Reject
  <2>2. jobs' \in [Job -> Row]
    BY <1>7, <2>1, BusyWorker, RowTypes, SetRowType, StatusType DEF Reject, TypeOK
  <2>3. proc' \in [Worker -> ProcState]
    BY <1>7, <2>1, BusyWorker, Steps, LeaveType, Places DEF Reject, TypeOK
  <2> QED
    BY <1>7, <2>2, <2>3, RowAndProc DEF Reject
<1>8. ASSUME NEW w \in Worker, PrepareFails(w) PROVE TypeOK'
  <2>1. proc[w].pc \in Busy
    BY <1>8, Steps DEF PrepareFails
  <2>2. proc' \in [Worker -> ProcState]
    BY <1>8, <2>1, BusyWorker, Steps, ThrowType DEF PrepareFails, Verdict, VerdictFits
  <2> QED
    BY <1>8, <2>1, <2>2, BusyWorker DEF PrepareFails, TypeOK
<1>9. ASSUME NEW w \in Worker, Run(w) PROVE TypeOK'
  <2>1. proc[w].pc \in Busy
    BY <1>9, Steps DEF Run
  <2>2. jobs' \in [Job -> Row]
    BY <1>9, <2>1, BusyWorker, RowTypes, SetRowType DEF Run, TypeOK
  <2>3. proc' \in [Worker -> ProcState]
    BY <1>9, <2>1, BusyWorker, Steps, GotoType DEF Run, TypeOK, VerdictFits
  <2> QED
    BY <1>9, <2>2, <2>3, RowAndProc DEF Run
<1>10. ASSUME NEW w \in Worker, DaemonStarts(w) PROVE TypeOK'
  <2>1. proc[w].pc \in Busy
    BY <1>10, Steps DEF DaemonStarts
  <2>2. proc' \in [Worker -> ProcState]
    BY <1>10, <2>1, BusyWorker, Steps, GotoType DEF DaemonStarts, VerdictFits
  <2> QED
    BY <1>10, <2>1, <2>2, BusyWorker DEF DaemonStarts, TypeOK
<1>11. ASSUME NEW w \in Worker, CliFails(w) PROVE TypeOK'
  <2>1. proc[w].pc \in Busy
    BY <1>11, Steps DEF CliFails
  <2>2. proc' \in [Worker -> ProcState]
    BY <1>11, <2>1, BusyWorker, Steps, ThrowType DEF CliFails, Verdict, VerdictFits
  <2> QED
    BY <1>11, <2>1, <2>2, BusyWorker DEF CliFails, TypeOK
<1>12. ASSUME NEW w \in Worker, CleanExit(w) PROVE TypeOK'
  <2>1. proc[w].pc \in Busy
    BY <1>12, Steps DEF CleanExit
  <2>2. proc' \in [Worker -> ProcState]
    BY <1>12, <2>1, BusyWorker, Steps, ThrowType DEF CleanExit, Verdict, VerdictFits
  <2> QED
    BY <1>12, <2>1, <2>2, BusyWorker DEF CleanExit, TypeOK
<1>13. ASSUME NEW w \in Worker, UncleanExit(w) PROVE TypeOK'
  <2>1. proc[w].pc \in Busy
    BY <1>13, Steps DEF UncleanExit
  <2>2. proc' \in [Worker -> ProcState]
    BY <1>13, <2>1, BusyWorker, Steps, ThrowType DEF UncleanExit, Verdict, VerdictFits
  <2> QED
    BY <1>13, <2>1, <2>2, BusyWorker DEF UncleanExit, TypeOK
<1>14. ASSUME NEW w \in Worker, MonitorStops(w) PROVE TypeOK'
  BY <1>14 DEF MonitorStops, TypeOK
<1>15. ASSUME NEW w \in Worker, StopVerified(w) PROVE TypeOK'
  <2>1. proc[w].pc \in Busy
    BY <1>15, Steps DEF StopVerified
  <2>2. proc' \in [Worker -> ProcState]
    BY <1>15, <2>1, BusyWorker, Steps, GotoType DEF StopVerified, VerdictFits
  <2> QED
    BY <1>15, <2>1, <2>2, BusyWorker DEF StopVerified, TypeOK
<1>16. ASSUME NEW w \in Worker, StopDeferred(w) PROVE TypeOK'
  <2>1. proc[w].pc \in Busy
    BY <1>16, Steps DEF StopDeferred
  <2>2. proc' \in [Worker -> ProcState]
    BY <1>16, LeaveType, Places DEF StopDeferred
  <2>3. proc[w].job \in Job
    BY <2>1, BusyWorker
  <2>4. awaiting' \in [Worker -> SUBSET Job]
    BY <1>16, <2>3 DEF StopDeferred, TypeOK
  <2>5. outages' \in Nat
    BY <1>16 DEF StopDeferred, TypeOK
  <2> QED
    BY <1>16, <2>2, <2>4, <2>5 DEF StopDeferred, TypeOK
<1>17. ASSUME NEW w \in Worker, Check(w) PROVE TypeOK'
  <2>1. proc[w].pc \in Busy
    BY <1>17, Steps DEF Check
  <2>2. jobs' \in [Job -> Row]
    BY <1>17, <2>1, BusyWorker, RowTypes, SetRowType DEF Check, TypeOK
  <2>3. proc' \in [Worker -> ProcState]
    BY <1>17, <2>1, BusyWorker, Steps, GotoType, ThrowType DEF Check, TypeOK, Verdict,
       VerdictFits
  <2> QED
    BY <1>17, <2>2, <2>3, RowAndProc DEF Check
<1>18. ASSUME NEW w \in Worker, OutputInvalid(w) PROVE TypeOK'
  <2>1. proc[w].pc \in Busy
    BY <1>18, Steps DEF OutputInvalid
  <2>2. proc' \in [Worker -> ProcState]
    BY <1>18, <2>1, BusyWorker, Steps, ThrowType DEF OutputInvalid, Verdict,
       VerdictFits
  <2> QED
    BY <1>18, <2>1, <2>2, BusyWorker DEF OutputInvalid, TypeOK
<1>19. ASSUME NEW w \in Worker, Renew(w) PROVE TypeOK'
  <2>1. proc[w].pc \in Busy
    BY <1>19, Steps DEF Renew
  <2>2. jobs' \in [Job -> Row]
    BY <1>19, <2>1, BusyWorker, RowTypes, SetRowType DEF Renew, TypeOK
  <2>3. proc' \in [Worker -> ProcState]
    BY <1>19, <2>1, BusyWorker, Steps, GotoType, ThrowType DEF Renew, TypeOK, Verdict,
       VerdictFits
  <2> QED
    BY <1>19, <2>2, <2>3, RowAndProc DEF Renew
<1>20. ASSUME NEW w \in Worker, Publish(w) PROVE TypeOK'
  <2>1. proc[w].pc \in Busy
    BY <1>20, Steps DEF Publish
  <2>2. proc' \in [Worker -> ProcState]
    BY <1>20, <2>1, BusyWorker, Steps, DirtyType DEF Publish, VerdictFits
  <2> QED
    BY <1>20, <2>1, <2>2, BusyWorker DEF Publish, TypeOK
<1>21. ASSUME NEW w \in Worker, Commit(w) PROVE TypeOK'
  <2>1. proc[w].pc \in Busy
    BY <1>21, Steps DEF Commit
  <2>2. proc[w].verdict \in Status
    BY <1>21, <2>1, BusyWorker, StatusType DEF Commit, VerdictFits
  <2>3. jobs' \in [Job -> Row]
    BY <1>21, <2>1, <2>2, BusyWorker, RowTypes, SetRowType DEF Commit, TypeOK
  <2>4. VerdictFits("cleanup", "none") /\ VerdictFits("cleanup", "error")
        /\ {"none", "error"} \subseteq Verdict /\ "cleanup" \in Busy
    BY Steps DEF VerdictFits, Verdict
  <2>6. proc' \in [Worker -> ProcState]
    BY <1>21, <2>1, <2>4, CloseType, ThrowType DEF Commit, Close
  <2>7. artifacts' \in SUBSET (Job \X Nat)
    BY <1>21, <2>1, BusyWorker DEF Commit, TypeOK
  <2> QED
    BY <1>21, <2>3, <2>6, <2>7 DEF Commit, TypeOK
<1>22. ASSUME NEW w \in Worker, PublishFails(w) PROVE TypeOK'
  <2>1. proc[w].pc \in Busy
    BY <1>22, Steps DEF PublishFails
  <2>2. proc' \in [Worker -> ProcState]
    BY <1>22, <2>1, BusyWorker, Steps, ThrowType DEF PublishFails, Verdict,
       VerdictFits
  <2> QED
    BY <1>22, <2>1, <2>2, BusyWorker DEF PublishFails, TypeOK
<1>23. ASSUME NEW w \in Worker, Cleanup(w) PROVE TypeOK'
  <2>1. proc[w].pc \in Busy
    BY <1>23, Steps DEF Cleanup
  <2>2. proc' \in [Worker -> ProcState]
    BY <1>23, <2>1, BusyWorker, Steps, DirtyType DEF Cleanup, VerdictFits
  <2> QED
    BY <1>23, <2>1, <2>2, BusyWorker DEF Cleanup, TypeOK
<1>24. ASSUME NEW w \in Worker, CleanupFails(w) PROVE TypeOK'
  <2>1. proc[w].pc \in Busy
    BY <1>24, Steps DEF CleanupFails
  <2>2. proc' \in [Worker -> ProcState]
    BY <1>24, <2>1, BusyWorker, Steps, CloseType DEF CleanupFails, Verdict,
       VerdictFits
  <2> QED
    BY <1>24, <2>1, <2>2, BusyWorker DEF CleanupFails, TypeOK
<1>25. ASSUME NEW w \in Worker, Final(w) PROVE TypeOK'
  <2>1. proc[w].pc \in Busy
    BY <1>25, Steps DEF Final
  <2>2. jobs' \in [Job -> Row]
    BY <1>25, <2>1, BusyWorker, RowTypes, SetRowType DEF Final, TypeOK
  <2>3. proc' \in [Worker -> ProcState]
    BY <1>25, <2>1, BusyWorker, Steps, GotoType, LeaveType, Places DEF Final, TypeOK,
       VerdictFits
  <2> QED
    BY <1>25, <2>2, <2>3, RowAndProc DEF Final
<1>26. ASSUME NEW w \in Worker, FailBegin(w) PROVE TypeOK'
  <2>1. proc[w].pc \in Busy
    BY <1>26, Steps DEF FailBegin
  <2>2. jobs' \in [Job -> Row]
    BY <1>26, <2>1, BusyWorker, RowTypes, SetRowType, StatusType DEF FailBegin,
       TypeOK, FailureStatus
  <2>3. proc' \in [Worker -> ProcState]
    BY <1>26, <2>1, BusyWorker, Steps, GotoType, LeaveType, Places DEF FailBegin,
       TypeOK, VerdictFits
  <2> QED
    BY <1>26, <2>2, <2>3, RowAndProc DEF FailBegin
<1>27. ASSUME NEW w \in Worker, FailRenew(w) PROVE TypeOK'
  <2>1. proc[w].pc \in Busy
    BY <1>27, Steps DEF FailRenew
  <2>2. jobs' \in [Job -> Row]
    BY <1>27, <2>1, BusyWorker, RowTypes, SetRowType DEF FailRenew, TypeOK
  <2>3. proc' \in [Worker -> ProcState]
    BY <1>27, <2>1, BusyWorker, Steps, GotoType, LeaveType, Places DEF FailRenew,
       TypeOK, VerdictFits
  <2> QED
    BY <1>27, <2>2, <2>3, RowAndProc DEF FailRenew
<1>28. ASSUME NEW w \in Worker, FailPublish(w) PROVE TypeOK'
  <2>1. proc[w].pc \in Busy
    BY <1>28, Steps DEF FailPublish
  <2>2. proc' \in [Worker -> ProcState]
    BY <1>28, <2>1, BusyWorker, Steps, DirtyType, LeaveType, Places DEF FailPublish,
       VerdictFits
  <2> QED
    BY <1>28, <2>1, <2>2, BusyWorker DEF FailPublish, TypeOK
<1>29. ASSUME NEW w \in Worker, FailCommit(w) PROVE TypeOK'
  <2>1. proc[w].pc \in Busy
    BY <1>29, Steps DEF FailCommit
  <2>2. jobs' \in [Job -> Row]
    BY <1>29, <2>1, BusyWorker, RowTypes, StatusType, SetRowType DEF FailCommit,
       TypeOK, FailureStatus
  <2>3. proc' \in [Worker -> ProcState]
    BY <1>29, <2>1, BusyWorker, Steps, GotoType, LeaveType, Places DEF FailCommit,
       VerdictFits
  <2>4. artifacts' \in SUBSET (Job \X Nat)
    BY <1>29, <2>1, BusyWorker DEF FailCommit, TypeOK
  <2> QED
    BY <1>29, <2>2, <2>3, <2>4 DEF FailCommit, TypeOK
<1>30. ASSUME NEW w \in Worker, FailClean(w) PROVE TypeOK'
  <2>1. proc[w].pc \in Busy
    BY <1>30, Steps DEF FailClean
  <2>2. proc' \in [Worker -> ProcState]
    BY <1>30, <2>1, BusyWorker, Steps, LeaveType, Places DEF FailClean
  <2> QED
    BY <1>30, <2>1, <2>2, BusyWorker DEF FailClean, TypeOK
<1>31. ASSUME NEW w \in Worker, RecScan(w) PROVE TypeOK'
  <2>1. proc' \in [Worker -> ProcState]
    BY <1>31, LeaveType, Places DEF RecScan, TypeOK
  <2>2. rec' \in [Worker -> RecState]
    BY <1>31, RecLoopType DEF RecScan, TypeOK, StaleJobs
  <2> QED
    BY <1>31, <2>1, <2>2 DEF RecScan, TypeOK
<1>32. ASSUME NEW w \in Worker, NEW j \in Job, RecClaim(w, j) PROVE TypeOK'
  <2>1. jobs' \in [Job -> Row]
    BY <1>32, ClaimedType, SetRowType DEF RecClaim, TypeOK
  <2>2. CASE Stale(jobs[j])
    <3> DEFINE r == [phase |-> "claimed", todo |-> rec[w].todo \ {j}, job |-> j,
                     gen |-> jobs[j].gen + 1, was |-> jobs[j].status, seen |-> {}]
    <3>1. /\ rec[w].todo \in SUBSET Job
          /\ jobs[j].gen + 1 \in Nat /\ jobs[j].status \in Status
      BY DEF TypeOK, RecState, Rec, Row
    <3>2. r \in RecState
      BY <3>1 DEF RecState, Rec
    <3>3. rec' = [rec EXCEPT ![w] = r]
      BY <1>32, <2>2 DEF RecClaim
    <3> HIDE DEF r
    <3>4. rec' \in [Worker -> RecState]
      BY <3>2, <3>3 DEF TypeOK
    <3> QED
      BY <1>32, <2>1, <3>4, RowAndRec DEF RecClaim
  <2>3. CASE ~Stale(jobs[j])
    <3>1. [rec[w] EXCEPT !.todo = rec[w].todo \ {j}] \in RecState
      BY DEF TypeOK, RecState, Rec
    <3> QED
      BY <1>32, <2>3, <3>1 DEF RecClaim, TypeOK
  <2> QED
    BY <1>32, <2>1, <2>2, <2>3, RowAndRec DEF RecClaim
<1>33. ASSUME NEW w \in Worker, RecList(w) PROVE TypeOK'
  <2> DEFINE r == [rec[w] EXCEPT !.phase = "listed",
                                 !.seen = {c \in containers : c[1] = rec[w].job}]
  <2>1. rec[w] \in Rec /\ rec[w].job \in Job
    BY <1>33, RecJob DEF RecList, TypeOK, RecState
  <2>2. {c \in containers : c[1] = rec[w].job} \in SUBSET (Job \X Nat)
    BY DEF TypeOK
  <2>3. r \in RecState
    BY <2>1, <2>2 DEF RecState, Rec
  <2>4. rec' = [rec EXCEPT ![w] = r]
    BY <1>33 DEF RecList, TypeOK, RecState, Rec
  <2> HIDE DEF r
  <2> QED
    BY <1>33, <2>3, <2>4 DEF RecList, TypeOK
<1>34. ASSUME NEW w \in Worker, RecStop(w) PROVE TypeOK'
  <2>1. [rec[w] EXCEPT !.phase = "stopped"] \in RecState
    BY <1>34, RecJob DEF RecStop, TypeOK, RecState, Rec
  <2> QED
    BY <1>34, <2>1 DEF RecStop, TypeOK
<1>35. ASSUME NEW w \in Worker, RecDefer(w) PROVE TypeOK'
  <2>1. jobs' \in [Job -> Row]
    BY <1>35, RecJob, RowTypes, SetRowType DEF RecDefer
  <2>2. rec' \in [Worker -> RecState]
    BY <1>35, RecJob, RecLoopType DEF RecDefer, TypeOK
  <2>3. containers' \in SUBSET (Job \X Nat)
    BY <1>35 DEF RecDefer, TypeOK
  <2>4. outages' \in Nat
    BY <1>35 DEF RecDefer, TypeOK
  <2> QED
    BY <1>35, <2>1, <2>2, <2>3, <2>4 DEF RecDefer, TypeOK
<1>36. ASSUME NEW w \in Worker, RecFinish(w) PROVE TypeOK'
  <2>1. Recovered(w, jobs[rec[w].job]) \in Row
    BY <1>36, RecJob, RowTypes, StatusType DEF RecFinish, Recovered
  <2>2. jobs' \in [Job -> Row]
    BY <1>36, <2>1, RecJob, SetRowType DEF RecFinish
  <2>3. rec' \in [Worker -> RecState]
    BY <1>36, RecJob, RecLoopType DEF RecFinish, TypeOK
  <2> QED
    BY <1>36, <2>2, <2>3, RowAndRec DEF RecFinish
<1>37. ASSUME NEW w \in Worker, RecDone(w) PROVE TypeOK'
  BY <1>37, RecLoopType DEF RecDone, TypeOK
<1>38. ASSUME NEW j \in Job, Cancel(j) PROVE TypeOK'
  <2>1. jobs' \in [Job -> Row]
    BY <1>38, RowTypes, SetRowType DEF Cancel, TypeOK
  <2> QED
    BY <1>38, <2>1 DEF Cancel, TypeOK
<1>39. ASSUME NEW j \in Job, Expire(j) PROVE TypeOK'
  <2>1. jobs' \in [Job -> Row]
    BY <1>39, RowTypes, SetRowType DEF Expire, TypeOK
  <2> QED
    BY <1>39, <2>1 DEF Expire, TypeOK
<1>40. ASSUME NEW c \in containers, OrphanEnds(c) PROVE TypeOK'
  BY <1>40 DEF OrphanEnds, TypeOK
<1>41. ASSUME NEW w \in Worker, Crash(w) PROVE TypeOK'
  <2>1. proc' \in [Worker -> ProcState]
    BY <1>41, LeaveType, Places DEF Crash
  <2> QED
    BY <1>41, <2>1, RecLoopType DEF Crash, TypeOK
<1>42. ASSUME NEW w \in Worker, Stop(w) PROVE TypeOK'
  <2>1. proc' \in [Worker -> ProcState]
    BY <1>42, LeaveType, Places DEF Stop
  <2> QED
    BY <1>42, <2>1 DEF Stop, TypeOK
<1>43. CASE UNCHANGED vars
  BY <1>43 DEF vars, TypeOK
<1> QED
  BY <1>1, <1>2, <1>3, <1>4, <1>5, <1>6, <1>7, <1>8, <1>9, <1>10, <1>11, <1>12, <1>13,
     <1>14, <1>15, <1>16, <1>17, <1>18, <1>19, <1>20, <1>21, <1>22, <1>23, <1>24,
     <1>25, <1>26, <1>27, <1>28, <1>29, <1>30, <1>31, <1>32, <1>33, <1>34, <1>35,
     <1>36, <1>37, <1>38, <1>39, <1>40, <1>41, <1>42, <1>43 DEF Next, Progress, Mishap

\* Every variable stays in its range, every busy process has a job, and the
\* verdict that processJob commits is a status of the database, with any
\* number of workers, jobs, crashes, stalls and Docker outages.
THEOREM TypeCorrect == Spec => []TypeOK
  BY TypeInit, TypeStep, PTL DEF Spec

-----------------------------------------------------------------------------
(* The inductive invariant of publication.                                 *)

\* No two processes work on the same attempt, and the row has seen each one.
Attempts ==
    \A w \in Worker : proc[w].pc \in Busy =>
      /\ proc[w].gen <= jobs[proc[w].job].gen
      /\ \A v \in Worker \ {w} : proc[v].pc \in Busy => Key(v) # Key(w)

\* Until its own commit an attempt has no artifact rows; it commits only what
\* it renamed.
Uncommitted(w) == \/ proc[w].pc \in Rendering \cup {"failcommit", "failclean"}
                  \/ proc[w].pc \in Busy /\ proc[w].dirty

Publication ==
    \A w \in Worker :
      /\ Uncommitted(w) => Key(w) \notin artifacts
      /\ proc[w].pc \in {"published", "failcommit"} => Key(w) \in outputs

IInv == TypeOK /\ ArtifactsBacked /\ Attempts /\ Publication

-----------------------------------------------------------------------------
(* How each kind of update reads afterwards.                               *)

\* Worker w goes on to pc with its job and attempt, or leaves them.
Moved(w, pc, d) ==
    /\ \A v \in Worker \ {w} : proc'[v] = proc[v]
    /\ proc'[w].pc = pc /\ proc'[w].dirty = d
    /\ proc'[w].job = proc[w].job /\ proc'[w].gen = proc[w].gen

LEMMA Moves ==
  ASSUME TypeOK, NEW w \in Worker, NEW pc
  PROVE  /\ Goto(w, pc) => Moved(w, pc, proc[w].dirty)
         /\ \A v : Throw(w, pc, v) => Moved(w, pc, proc[w].dirty)
         /\ \A d : proc' = [proc EXCEPT ![w].pc = pc, ![w].dirty = d] => Moved(w, pc, d)
         /\ \A d, v : proc' = [proc EXCEPT ![w].pc = pc, ![w].verdict = v, ![w].dirty = d]
                      => Moved(w, pc, d)
<1>1. proc \in [Worker -> Proc]
  BY DEF TypeOK, ProcState
<1>2. Goto(w, pc) => Moved(w, pc, proc[w].dirty)
  BY <1>1 DEF Goto, Moved, Proc
<1>3. \A v : Throw(w, pc, v) => Moved(w, pc, proc[w].dirty)
  BY <1>1 DEF Throw, Moved, Proc
<1>4. \A d : proc' = [proc EXCEPT ![w].pc = pc, ![w].dirty = d] => Moved(w, pc, d)
  BY <1>1 DEF Moved, Proc
<1>5. \A d, v : proc' = [proc EXCEPT ![w].pc = pc, ![w].verdict = v, ![w].dirty = d]
               => Moved(w, pc, d)
  BY <1>1 DEF Moved, Proc
<1> QED
  BY <1>2, <1>3, <1>4, <1>5

LEMMA MovesLost ==
  ASSUME TypeOK, NEW w \in Worker, proc' = [proc EXCEPT ![w].lost = TRUE]
  PROVE  Moved(w, proc[w].pc, proc[w].dirty)
<1>1. proc \in [Worker -> Proc]
  BY DEF TypeOK, ProcState
<1> QED
  BY <1>1 DEF Moved, Proc

LEMMA Leaves ==
  ASSUME TypeOK, NEW w \in Worker, NEW pc \in PC \ Busy, Become(w, At(pc))
  PROVE  /\ \A v \in Worker \ {w} : proc'[v] = proc[v]
         /\ proc'[w].pc = pc /\ proc'[w].pc \notin Busy
  BY AtType DEF TypeOK, Become

LEMMA OneRow ==
  ASSUME TypeOK, NEW j \in Job, NEW row, SetRow(j, row), Ordinary(jobs[j], row)
  PROVE  \A i \in Job : Ordinary(jobs[i], jobs'[i])
<1>1. \A i \in Job : jobs[i] \in Row
  BY DEF TypeOK
<1>2. \A i \in Job : Ordinary(jobs[i], jobs[i])
  BY <1>1 DEF Ordinary, Row
<1> QED
  BY <1>2 DEF SetRow, TypeOK

-----------------------------------------------------------------------------
(* A step changes the rows in one of two ways.                             *)

AllOrdinary == /\ artifacts' = artifacts
               /\ \A j \in Job : Ordinary(jobs[j], jobs'[j])

\* The transaction that ends a job and makes the artifacts of w visible.
Commits(w) ==
    /\ proc[w].pc \in {"published", "failcommit"}
    /\ Holds(w) /\ Mine(w).status \in {"validating", "running"}
    /\ \E to \in Ended : SetRow(proc[w].job, Finished(Mine(w), to))
    /\ artifacts' = artifacts \cup {Key(w)}
    /\ outputs' = outputs
    /\ \A v \in Worker \ {w} : proc'[v] = proc[v]
    /\ proc'[w].pc \in {"cleanup", "idle"} /\ (proc'[w].pc = "cleanup" => ~proc'[w].dirty)
    /\ proc'[w].pc = "cleanup" => proc'[w].job = proc[w].job /\ proc'[w].gen = proc[w].gen

LEMMA UntouchedRows == ASSUME TypeOK, UNCHANGED <<jobs, artifacts>> PROVE AllOrdinary
  BY OrdinaryStatements DEF AllOrdinary, TypeOK, Ordinary, Row

LEMMA WorkerRow ==
  ASSUME TypeOK, NEW w \in Worker, proc[w].pc \in Busy, NEW row,
         SetRow(proc[w].job, row), Ordinary(Mine(w), row), UNCHANGED artifacts
  PROVE  AllOrdinary
  BY BusyWorker, OneRow DEF AllOrdinary, Mine

LEMMA WorkerStatements ==
  ASSUME TypeOK, NEW w \in Worker, proc[w].pc \in Busy
  PROVE  /\ Ordinary(Mine(w), Mine(w)) /\ Ordinary(Mine(w), Renewed(Mine(w)))
         /\ CanMarkCanceled(Mine(w), Lease(w), proc[w].gen)
              => Ordinary(Mine(w), MarkedCanceled(Mine(w)))
         /\ CanTransition(Mine(w), Lease(w), proc[w].gen, "validating")
              => Ordinary(Mine(w), Running(Mine(w)))
                 /\ Ordinary(Mine(w), Finished(Mine(w), "rejected"))
         /\ CanFinishFailure(Mine(w), Lease(w), proc[w].gen)
              => Ordinary(Mine(w), Finished(Mine(w), FailureStatus(w)))
<1> DEFINE r == Mine(w)
<1>1. r \in Row
  BY BusyWorker
<1> HIDE DEF r
<1>2. /\ Ordinary(r, r) /\ Ordinary(r, Renewed(r))
      /\ CanMarkCanceled(r, Lease(w), proc[w].gen) => Ordinary(r, MarkedCanceled(r))
      /\ CanTransition(r, Lease(w), proc[w].gen, "validating")
           => Ordinary(r, Running(r)) /\ Ordinary(r, Finished(r, "rejected"))
      /\ CanFinishFailure(r, Lease(w), proc[w].gen)
           => Ordinary(r, Finished(r, FailureStatus(w)))
  BY <1>1, OrdinaryStatements DEF CanMarkCanceled, CanTransition, CanFinishFailure,
     FailureStatus
<1> QED
  BY <1>2 DEF r

LEMMA RowChanges ==
  ASSUME TypeOK, [Next]_vars
  PROVE  AllOrdinary \/ \E w \in Worker : Commits(w)
<1>1. ASSUME NEW w \in Worker, Start(w) \/ FirstBeat(w) \/ Beat(w) \/ PrepareFails(w)
                 \/ DaemonStarts(w) \/ CliFails(w) \/ CleanExit(w) \/ UncleanExit(w)
      PROVE AllOrdinary
  BY <1>1, UntouchedRows DEF Start, FirstBeat, Beat, PrepareFails, DaemonStarts,
     CliFails, CleanExit, UncleanExit
<1>2. ASSUME NEW w \in Worker, MonitorStops(w) \/ StopVerified(w) \/ StopDeferred(w)
                 \/ OutputInvalid(w) \/ Publish(w) \/ PublishFails(w) \/ Cleanup(w)
                 \/ CleanupFails(w) \/ FailPublish(w) \/ FailClean(w)
      PROVE AllOrdinary
  BY <1>2, UntouchedRows DEF MonitorStops, StopVerified, StopDeferred, OutputInvalid,
     Publish, PublishFails, Cleanup, CleanupFails, FailPublish, FailClean
<1>3. ASSUME NEW w \in Worker, \/ RecScan(w) \/ RecList(w) \/ RecStop(w) \/ RecDone(w)
                              \/ Crash(w) \/ Stop(w)
                              \/ \E j \in Job : StopWaiting(w, j)
      PROVE AllOrdinary
  BY <1>3, UntouchedRows DEF RecScan, RecList, RecStop, RecDone, Crash, Stop,
     StopWaiting
<1>4. ASSUME NEW w \in Worker, NEW j \in Job, Claim(w, j) PROVE AllOrdinary
  <2>1. Ordinary(jobs[j], Claimed(jobs[j], w))
    BY <1>4, OrdinaryStatements DEF Claim, TypeOK
  <2> QED
    BY <1>4, <2>1, OneRow DEF Claim, AllOrdinary
<1>5. ASSUME NEW w \in Worker, LeaseBeat(w) PROVE AllOrdinary
  BY <1>5, Places, WorkerStatements, WorkerRow, UntouchedRows DEF LeaseBeat
<1>6. ASSUME NEW w \in Worker, Reject(w) PROVE AllOrdinary
  BY <1>6, Steps, WorkerStatements, WorkerRow DEF Reject
<1>7. ASSUME NEW w \in Worker, Run(w) PROVE AllOrdinary
  BY <1>7, Steps, WorkerStatements, WorkerRow, UntouchedRows DEF Run
<1>8. ASSUME NEW w \in Worker, Check(w) PROVE AllOrdinary
  BY <1>8, Steps, WorkerStatements, WorkerRow, UntouchedRows DEF Check
<1>9. ASSUME NEW w \in Worker, Renew(w) PROVE AllOrdinary
  BY <1>9, Steps, WorkerStatements, WorkerRow, UntouchedRows DEF Renew
<1>10. ASSUME NEW w \in Worker, Commit(w) PROVE AllOrdinary \/ Commits(w)
  <2>1. proc[w].pc \in Busy
    BY <1>10, Steps DEF Commit
  <2>2. CASE UNCHANGED artifacts /\ UNCHANGED jobs
    BY <2>2, UntouchedRows
  <2>3. CASE ~proc[w].lost /\ Holds(w) /\ Stopping(Mine(w))
    BY <1>10, <2>1, <2>3, WorkerStatements, WorkerRow, UntouchedRows DEF Commit
  <2>4. CASE /\ ~proc[w].lost /\ Holds(w) /\ ~Stopping(Mine(w))
             /\ CanTransition(Mine(w), Lease(w), proc[w].gen, "running")
    <3>1. proc[w].verdict \in Ended
      BY <1>10, <2>1, BusyWorker DEF Commit, VerdictFits, Ended
    <3>2. /\ artifacts' = artifacts \cup {Key(w)} /\ outputs' = outputs
          /\ SetRow(proc[w].job, Finished(Mine(w), proc[w].verdict))
          /\ Close(w)
      BY <1>10, <2>4 DEF Commit
    <3>3. Moved(w, "cleanup", FALSE)
      BY <3>2, Moves DEF Close
    <3>4. proc[w].pc = "published" /\ Mine(w).status = "running"
      BY <1>10, <2>4 DEF Commit, CanTransition
    <3> QED
      BY <2>4, <3>1, <3>2, <3>3, <3>4 DEF Commits, Moved
  <2> QED
    BY <1>10, <2>2, <2>3, <2>4 DEF Commit
<1>11. ASSUME NEW w \in Worker, Final(w) PROVE AllOrdinary
  BY <1>11, Steps, WorkerStatements, WorkerRow DEF Final
<1>12. ASSUME NEW w \in Worker, FailBegin(w) PROVE AllOrdinary
  <2>1. proc[w].pc \in Busy
    BY <1>12, Steps DEF FailBegin
  <2> QED
    BY <1>12, <2>1, WorkerStatements, WorkerRow, UntouchedRows DEF FailBegin
<1>13. ASSUME NEW w \in Worker, FailRenew(w) PROVE AllOrdinary
  BY <1>13, Steps, WorkerStatements, WorkerRow, UntouchedRows DEF FailRenew
<1>14. ASSUME NEW w \in Worker, FailCommit(w) PROVE AllOrdinary \/ Commits(w)
  <2>1. CASE CanFinishFailure(Mine(w), Lease(w), proc[w].gen)
    <3>1. FailureStatus(w) \in Ended
      BY DEF FailureStatus, Ended
    <3>2. /\ proc[w].pc = "failcommit"
          /\ artifacts' = artifacts \cup {Key(w)} /\ outputs' = outputs
          /\ SetRow(proc[w].job, Finished(Mine(w), FailureStatus(w)))
          /\ Become(w, At("idle"))
      BY <1>14, <2>1 DEF FailCommit
    <3>3. Holds(w) /\ Mine(w).status \in {"validating", "running"}
      BY <2>1 DEF CanFinishFailure, Holds
    <3> QED
      BY <3>1, <3>2, <3>3, Leaves, Places DEF Commits
  <2>2. CASE ~CanFinishFailure(Mine(w), Lease(w), proc[w].gen)
    BY <1>14, <2>2, UntouchedRows DEF FailCommit
  <2> QED
    BY <2>1, <2>2
<1>15. ASSUME NEW w \in Worker, NEW j \in Job, RecClaim(w, j) PROVE AllOrdinary
  <2>1. Stale(jobs[j]) => Ordinary(jobs[j], RecoveryClaimed(jobs[j], w))
    BY OrdinaryStatements DEF TypeOK
  <2> QED
    BY <1>15, <2>1, OneRow, UntouchedRows DEF RecClaim, AllOrdinary
<1>16. ASSUME NEW w \in Worker, RecDefer(w) PROVE AllOrdinary
  <2>1. /\ Ordinary(jobs[rec[w].job], jobs[rec[w].job])
        /\ Ordinary(jobs[rec[w].job], ClaimExpired(jobs[rec[w].job]))
    BY <1>16, RecJob, OrdinaryStatements DEF RecDefer
  <2> QED
    BY <1>16, <2>1, RecJob, OneRow DEF RecDefer, AllOrdinary
<1>17. ASSUME NEW w \in Worker, RecFinish(w) PROVE AllOrdinary
  <2>1. Ordinary(jobs[rec[w].job], Recovered(w, jobs[rec[w].job]))
    BY <1>17, RecJob, OrdinaryStatements DEF RecFinish, Recovered, CanMarkCanceled,
       CanRecover
  <2> QED
    BY <1>17, <2>1, RecJob, OneRow DEF RecFinish, AllOrdinary
<1>18. ASSUME NEW j \in Job, Cancel(j) \/ Expire(j) PROVE AllOrdinary
  <2>1. /\ CanCancel(jobs[j]) => Ordinary(jobs[j], Canceled(jobs[j]))
        /\ Ordinary(jobs[j], ClaimExpired(jobs[j]))
    BY OrdinaryStatements DEF TypeOK
  <2> QED
    BY <1>18, <2>1, OneRow DEF Cancel, Expire, AllOrdinary
<1>19. ASSUME NEW c \in containers, OrphanEnds(c) PROVE AllOrdinary
  BY <1>19, UntouchedRows DEF OrphanEnds
<1>20. CASE UNCHANGED vars
  BY <1>20, UntouchedRows DEF vars
<1> QED
  BY <1>1, <1>2, <1>3, <1>4, <1>5, <1>6, <1>7, <1>8, <1>9, <1>10, <1>11, <1>12, <1>13,
     <1>14, <1>15, <1>16, <1>17, <1>18, <1>19, <1>20 DEF Next, Progress, Mishap

-----------------------------------------------------------------------------
(* A step changes one process, and keeps its attempt unless it claims one. *)

Local(w) ==
    \/ proc'[w].pc \notin Busy
    \/ /\ proc[w].pc \in Busy
       /\ proc'[w].job = proc[w].job /\ proc'[w].gen = proc[w].gen
       /\ Uncommitted(w)' => Uncommitted(w) \/ Key(w) \notin outputs
       /\ proc'[w].pc \in {"published", "failcommit"}
            => Key(w) \in outputs' \/ proc'[w].pc = proc[w].pc

OneProc(w) == (\A v \in Worker \ {w} : proc'[v] = proc[v]) /\ Local(w)

LEMMA MovedLocal ==
  ASSUME NEW w \in Worker, proc[w].pc \in Busy, NEW pc, NEW d, Moved(w, pc, d),
         pc \in Rendering \cup {"failcommit", "failclean"} \/ (pc \in Busy /\ d)
           => Uncommitted(w) \/ Key(w) \notin outputs,
         pc \in {"published", "failcommit"} => Key(w) \in outputs' \/ pc = proc[w].pc
  PROVE  OneProc(w)
  BY DEF OneProc, Local, Moved, Uncommitted

LEMMA ProcChanges ==
  ASSUME TypeOK, [Next]_vars
  PROVE  \/ proc' = proc
         \/ \E w \in Worker : OneProc(w) \/ \E j \in Job : Claim(w, j)
<1>1. ASSUME NEW w \in Worker,
             \/ Start(w) \/ FirstBeat(w) \/ Reject(w) \/ StopDeferred(w) \/ FailClean(w)
             \/ Crash(w) \/ Stop(w)
      PROVE OneProc(w)
  BY <1>1, Leaves, Places DEF Start, FirstBeat, Reject, StopDeferred, FailClean,
     Crash, Stop, OneProc, Local
<1>2. ASSUME NEW w \in Worker, RecScan(w) PROVE proc' = proc \/ OneProc(w)
  BY <1>2, Leaves, Places DEF RecScan, OneProc, Local
<1>3. ASSUME NEW w \in Worker, LeaseBeat(w) PROVE proc' = proc \/ OneProc(w)
  BY <1>3, MovesLost, Places DEF LeaseBeat, OneProc, Local, Moved, Uncommitted
<1>4. ASSUME NEW w \in Worker, PrepareFails(w) PROVE OneProc(w)
  <2>1. \/ Moved(w, "cleanup", proc[w].dirty)
    BY <1>4, Moves DEF PrepareFails
  <2> QED
    BY <1>4, <2>1, MovedLocal, Steps DEF PrepareFails, Rendering, Uncommitted
<1>5. ASSUME NEW w \in Worker, Run(w) PROVE OneProc(w)
  <2>1. \/ Moved(w, "starting", proc[w].dirty)
        \/ Moved(w, "cleanup", proc[w].dirty)
    BY <1>5, Moves DEF Run
  <2> QED
    BY <1>5, <2>1, MovedLocal, Steps DEF Run, Rendering, Uncommitted
<1>6. ASSUME NEW w \in Worker, DaemonStarts(w) PROVE OneProc(w)
  <2>1. \/ Moved(w, "rendering", proc[w].dirty)
    BY <1>6, Moves DEF DaemonStarts
  <2> QED
    BY <1>6, <2>1, MovedLocal, Steps DEF DaemonStarts, Rendering, Uncommitted
<1>7. ASSUME NEW w \in Worker, CliFails(w) PROVE OneProc(w)
  <2>1. \/ Moved(w, "verify", proc[w].dirty)
    BY <1>7, Moves DEF CliFails
  <2> QED
    BY <1>7, <2>1, MovedLocal, Steps DEF CliFails, Rendering, Uncommitted
<1>8. ASSUME NEW w \in Worker, CleanExit(w) PROVE OneProc(w)
  <2>1. \/ Moved(w, "closed", proc[w].dirty)
    BY <1>8, Moves DEF CleanExit
  <2> QED
    BY <1>8, <2>1, MovedLocal, Steps DEF CleanExit, Rendering, Uncommitted
<1>9. ASSUME NEW w \in Worker, UncleanExit(w) PROVE OneProc(w)
  <2>1. \/ Moved(w, "verify", proc[w].dirty)
    BY <1>9, Moves DEF UncleanExit
  <2> QED
    BY <1>9, <2>1, MovedLocal, Steps DEF UncleanExit, Rendering, Uncommitted
<1>10. ASSUME NEW w \in Worker, StopVerified(w) PROVE OneProc(w)
  <2>1. \/ Moved(w, "cleanup", proc[w].dirty)
        \/ Moved(w, "closed", proc[w].dirty)
    BY <1>10, Moves DEF StopVerified
  <2> QED
    BY <1>10, <2>1, MovedLocal, Steps DEF StopVerified, Rendering, Uncommitted
<1>11. ASSUME NEW w \in Worker, OutputInvalid(w) PROVE OneProc(w)
  <2>1. \/ Moved(w, "cleanup", proc[w].dirty)
    BY <1>11, Moves DEF OutputInvalid
  <2> QED
    BY <1>11, <2>1, MovedLocal, Steps DEF OutputInvalid, Rendering, Uncommitted
<1>12. ASSUME NEW w \in Worker, Check(w) PROVE OneProc(w)
  <2>1. \/ Moved(w, "cleanup", proc[w].dirty)
        \/ Moved(w, "checked", proc[w].dirty)
    BY <1>12, Moves DEF Check
  <2> QED
    BY <1>12, <2>1, MovedLocal, Steps DEF Check, Rendering, Uncommitted
<1>13. ASSUME NEW w \in Worker, Renew(w) PROVE OneProc(w)
  <2>1. \/ Moved(w, "cleanup", proc[w].dirty)
        \/ Moved(w, "renewed", proc[w].dirty)
    BY <1>13, Moves DEF Renew
  <2> QED
    BY <1>13, <2>1, MovedLocal, Steps DEF Renew, Rendering, Uncommitted
<1>14. ASSUME NEW w \in Worker, Publish(w) PROVE OneProc(w)
  <2>1. \/ Moved(w, "published", TRUE)
    BY <1>14, Moves DEF Publish
  <2> QED
    BY <1>14, <2>1, MovedLocal, Steps DEF Publish, Rendering, Uncommitted
<1>15. ASSUME NEW w \in Worker, Commit(w) PROVE OneProc(w)
  <2>1. \/ Moved(w, "cleanup", proc[w].dirty)
        \/ Moved(w, "cleanup", FALSE)
    BY <1>15, Moves DEF Commit, Close
  <2> QED
    BY <1>15, <2>1, MovedLocal, Steps DEF Commit, Rendering, Uncommitted
<1>16. ASSUME NEW w \in Worker, PublishFails(w) PROVE OneProc(w)
  <2>1. \/ Moved(w, "cleanup", proc[w].dirty)
    BY <1>16, Moves DEF PublishFails
  <2> QED
    BY <1>16, <2>1, MovedLocal, Steps DEF PublishFails, Rendering, Uncommitted
<1>17. ASSUME NEW w \in Worker, Cleanup(w) PROVE OneProc(w)
  <2>1. \/ Moved(w, "final", FALSE)
    BY <1>17, Moves DEF Cleanup
  <2> QED
    BY <1>17, <2>1, MovedLocal, Steps DEF Cleanup, Rendering, Uncommitted
<1>18. ASSUME NEW w \in Worker, CleanupFails(w) PROVE OneProc(w)
  <2>1. \/ Moved(w, "failing", FALSE)
    BY <1>18, Moves DEF CleanupFails
  <2> QED
    BY <1>18, <2>1, MovedLocal, Steps DEF CleanupFails, Rendering, Uncommitted
<1>19. ASSUME NEW w \in Worker, Final(w) PROVE OneProc(w)
  <2>1. \/ Moved(w, "failing", proc[w].dirty)
        \/ Become(w, At("idle"))
    BY <1>19, Moves DEF Final
  <2>2. CASE Become(w, At("idle"))
    BY <2>2, Leaves, Places DEF OneProc, Local
  <2>3. CASE ~Become(w, At("idle"))
    BY <1>19, <2>1, <2>3, MovedLocal, Steps DEF Final, Rendering, Uncommitted
  <2> QED
    BY <2>2, <2>3
<1>20. ASSUME NEW w \in Worker, FailBegin(w) PROVE OneProc(w)
  <2>1. \/ Moved(w, "failwrite", proc[w].dirty)
        \/ Become(w, At("idle"))
    BY <1>20, Moves DEF FailBegin
  <2>2. CASE Become(w, At("idle"))
    BY <2>2, Leaves, Places DEF OneProc, Local
  <2>3. CASE ~Become(w, At("idle"))
    BY <1>20, <2>1, <2>3, MovedLocal, Steps DEF FailBegin, Rendering, Uncommitted
  <2> QED
    BY <2>2, <2>3
<1>21. ASSUME NEW w \in Worker, FailRenew(w) PROVE OneProc(w)
  <2>1. \/ Moved(w, "failrename", proc[w].dirty)
        \/ Become(w, At("idle"))
    BY <1>21, Moves DEF FailRenew
  <2>2. CASE Become(w, At("idle"))
    BY <2>2, Leaves, Places DEF OneProc, Local
  <2>3. CASE ~Become(w, At("idle"))
    BY <1>21, <2>1, <2>3, MovedLocal, Steps DEF FailRenew, Rendering, Uncommitted
  <2> QED
    BY <2>2, <2>3
<1>22. ASSUME NEW w \in Worker, FailPublish(w) PROVE OneProc(w)
  <2>1. \/ Moved(w, "failcommit", TRUE)
        \/ Become(w, At("dead"))
    BY <1>22, Moves DEF FailPublish
  <2>2. CASE Become(w, At("dead"))
    BY <2>2, Leaves, Places DEF OneProc, Local
  <2>3. CASE ~Become(w, At("dead"))
    BY <1>22, <2>1, <2>3, MovedLocal, Steps DEF FailPublish, Rendering, Uncommitted
  <2> QED
    BY <2>2, <2>3
<1>23. ASSUME NEW w \in Worker, FailCommit(w) PROVE OneProc(w)
  <2>1. \/ Moved(w, "failclean", proc[w].dirty)
        \/ Become(w, At("idle"))
    BY <1>23, Moves DEF FailCommit
  <2>2. CASE Become(w, At("idle"))
    BY <2>2, Leaves, Places DEF OneProc, Local
  <2>3. CASE ~Become(w, At("idle"))
    BY <1>23, <2>1, <2>3, MovedLocal, Steps DEF FailCommit, Rendering, Uncommitted
  <2> QED
    BY <2>2, <2>3
<1>24. ASSUME NEW w \in Worker, \/ Beat(w) \/ MonitorStops(w) \/ RecList(w) \/ RecStop(w)
                              \/ RecDefer(w) \/ RecFinish(w) \/ RecDone(w)
                              \/ \E j \in Job : StopWaiting(w, j) \/ RecClaim(w, j)
      PROVE proc' = proc
  BY <1>24 DEF Beat, MonitorStops, RecList, RecStop, RecDefer, RecFinish, RecDone,
     StopWaiting, RecClaim
<1>25. ASSUME NEW j \in Job, Cancel(j) \/ Expire(j) PROVE proc' = proc
  BY <1>25 DEF Cancel, Expire
<1>26. ASSUME NEW c \in containers, OrphanEnds(c) PROVE proc' = proc
  BY <1>26 DEF OrphanEnds
<1>27. CASE UNCHANGED vars
  BY <1>27 DEF vars
<1> QED
  BY <1>1, <1>2, <1>3, <1>4, <1>5, <1>6, <1>7, <1>8, <1>9, <1>10, <1>11, <1>12, <1>13,
     <1>14, <1>15, <1>16, <1>17, <1>18, <1>19, <1>20, <1>21, <1>22, <1>23, <1>24,
     <1>25, <1>26, <1>27 DEF Next, Progress, Mishap

-----------------------------------------------------------------------------
(* Only a directory without artifact rows is removed.                      *)

LEMMA OutputChanges ==
  ASSUME TypeOK, [Next]_vars
  PROVE  \/ outputs \subseteq outputs'
         \/ \E w \in Worker : Uncommitted(w) /\ proc[w].pc \in {"cleanup", "failclean"}
                              /\ outputs' = outputs \ {Key(w)}
<1> DEFINE Removes(w) == Uncommitted(w) /\ proc[w].pc \in {"cleanup", "failclean"}
                         /\ outputs' = outputs \ {Key(w)}
<1>1. ASSUME NEW w \in Worker, Cleanup(w) \/ CleanupFails(w) \/ FailClean(w)
      PROVE outputs \subseteq outputs' \/ Removes(w)
  BY <1>1, Steps DEF Cleanup, CleanupFails, FailClean, Uncommitted
<1>2. ASSUME NEW w \in Worker, Publish(w) \/ FailPublish(w) PROVE outputs \subseteq outputs'
  BY <1>2 DEF Publish, FailPublish
<1>3. ASSUME NEW w \in Worker,
             \/ Start(w) \/ FirstBeat(w) \/ Beat(w) \/ LeaseBeat(w) \/ Reject(w)
             \/ PrepareFails(w) \/ Run(w) \/ DaemonStarts(w) \/ CliFails(w) \/ CleanExit(w)
             \/ UncleanExit(w) \/ MonitorStops(w) \/ StopVerified(w) \/ StopDeferred(w)
             \/ \E j \in Job : StopWaiting(w, j) \/ Claim(w, j)
      PROVE outputs \subseteq outputs'
  BY <1>3 DEF Start, FirstBeat, Beat, LeaseBeat, Reject, PrepareFails, Run,
     DaemonStarts, CliFails, CleanExit, UncleanExit, MonitorStops, StopVerified,
     StopDeferred, StopWaiting, Claim
<1>4. ASSUME NEW w \in Worker,
             \/ Check(w) \/ OutputInvalid(w) \/ Renew(w) \/ Commit(w) \/ PublishFails(w)
             \/ Final(w) \/ FailBegin(w) \/ FailRenew(w) \/ FailCommit(w)
             \/ Crash(w) \/ Stop(w)
      PROVE outputs \subseteq outputs'
  BY <1>4 DEF Check, OutputInvalid, Renew, Commit, PublishFails, Final, FailBegin,
     FailRenew, FailCommit, Crash, Stop
<1>5. ASSUME NEW w \in Worker,
             \/ RecScan(w) \/ RecList(w) \/ RecStop(w) \/ RecDefer(w) \/ RecFinish(w)
             \/ RecDone(w) \/ \E j \in Job : RecClaim(w, j)
      PROVE outputs \subseteq outputs'
  BY <1>5 DEF RecScan, RecList, RecStop, RecDefer, RecFinish, RecDone, RecClaim
<1>6. ASSUME NEW j \in Job, Cancel(j) \/ Expire(j) PROVE outputs \subseteq outputs'
  BY <1>6 DEF Cancel, Expire
<1>7. ASSUME NEW c \in containers, OrphanEnds(c) PROVE outputs \subseteq outputs'
  BY <1>7 DEF OrphanEnds
<1>8. ASSUME UNCHANGED vars PROVE outputs \subseteq outputs'
  BY <1>8 DEF vars
<1> HIDE DEF Removes
<1>9. outputs \subseteq outputs' \/ \E w \in Worker : Removes(w)
  BY <1>1, <1>2, <1>3, <1>4, <1>5, <1>6, <1>7, <1>8 DEF Next, Progress, Mishap
<1> QED
  BY <1>9 DEF Removes

-----------------------------------------------------------------------------
(* The three parts of the invariant are preserved.                         *)

LEMMA GenerationsGrow ==
  ASSUME TypeOK, [Next]_vars
  PROVE  \A j \in Job : jobs[j].gen <= jobs'[j].gen
<1>1. CASE AllOrdinary
  BY <1>1 DEF AllOrdinary, Ordinary
<1>2. ASSUME NEW w \in Worker, Commits(w) PROVE \A j \in Job : jobs[j].gen <= jobs'[j].gen
  <2>1. PICK to \in Ended : SetRow(proc[w].job, Finished(Mine(w), to))
    BY <1>2 DEF Commits
  <2>2. \A j \in Job : jobs[j] \in Row
    BY DEF TypeOK
  <2>3. Finished(Mine(w), to).gen = Mine(w).gen
    BY <1>2, Steps, BusyWorker DEF Commits, Finished, Row
  <2>4. \A j \in Job : jobs'[j].gen = jobs[j].gen
    BY <2>1, <2>3 DEF SetRow, Mine, TypeOK
  <2> QED
    BY <2>2, <2>4 DEF Row
<1> QED
  BY <1>1, <1>2, RowChanges

LEMMA AttemptsStep == IInv /\ [Next]_vars => Attempts'
<1> SUFFICES ASSUME IInv, [Next]_vars PROVE Attempts'
  OBVIOUS
<1>1. TypeOK /\ TypeOK'
  BY TypeStep DEF IInv
<1>2. \A j \in Job : /\ jobs[j].gen <= jobs'[j].gen
                     /\ jobs[j].gen \in Nat /\ jobs'[j].gen \in Nat
  BY <1>1, GenerationsGrow DEF TypeOK, Row
<1>3. \A w \in Worker : proc[w].pc \in Busy => proc[w].job \in Job /\ proc[w].gen \in Nat
  BY <1>1, BusyWorker
<1>4. CASE proc' = proc
  BY <1>2, <1>3, <1>4 DEF IInv, Attempts, Key
<1>5. ASSUME NEW w \in Worker, OneProc(w) PROVE Attempts'
  <2>1. \A v \in Worker : proc'[v].pc \in Busy =>
          /\ proc[v].pc \in Busy
          /\ proc'[v].job = proc[v].job /\ proc'[v].gen = proc[v].gen
    BY <1>5 DEF OneProc, Local
  <2> QED
    BY <2>1, <1>2, <1>3 DEF IInv, Attempts, Key
<1>6. ASSUME NEW w \in Worker, NEW j \in Job, Claim(w, j) PROVE Attempts'
  <2>1. jobs'[j].gen = jobs[j].gen + 1
    BY <1>6, <1>1 DEF Claim, SetRow, Claimed, TypeOK, Row
  <2>2. /\ proc'[w].job = j /\ proc'[w].gen = jobs[j].gen + 1
        /\ \A v \in Worker \ {w} : proc'[v] = proc[v]
    BY <1>6, <1>1 DEF Claim, Become, TypeOK, At
  <2>3. ASSUME NEW v \in Worker \ {w}, proc[v].pc \in Busy PROVE Key(v)' # <<j, jobs[j].gen + 1>>
    BY <1>2, <1>3, <2>2, <2>3 DEF IInv, Attempts, Key
  <2> QED
    BY <1>2, <1>3, <2>1, <2>2, <2>3 DEF IInv, Attempts, Key
<1> QED
  BY <1>1, <1>4, <1>5, <1>6, ProcChanges

\* What a commit of worker w does to the tables.
LEMMA CommitEffect ==
  ASSUME TypeOK, NEW w \in Worker, Commits(w)
  PROVE  /\ proc[w].pc \in Busy /\ proc[w].job \in Job
         /\ Mine(w).gen = proc[w].gen
         /\ Mine(w).status \notin Ended
         /\ jobs'[proc[w].job].status \in Ended
         /\ jobs'[proc[w].job].gen = proc[w].gen
         /\ \A j \in Job \ {proc[w].job} : jobs'[j] = jobs[j]
<1>1. proc[w].pc \in Busy /\ proc[w].job \in Job /\ Mine(w) \in Row
  BY Steps, BusyWorker DEF Commits
<1>2. PICK to \in Ended : SetRow(proc[w].job, Finished(Mine(w), to))
  BY DEF Commits
<1>3. Finished(Mine(w), to).gen = Mine(w).gen /\ Finished(Mine(w), to).status = to
  BY <1>1 DEF Finished, Row
<1>4. Mine(w).gen = proc[w].gen /\ Mine(w).status \notin Ended
  BY DEF Commits, Holds, Owned, Ended
<1>5. /\ jobs'[proc[w].job] = Finished(Mine(w), to)
      /\ \A j \in Job \ {proc[w].job} : jobs'[j] = jobs[j]
  BY <1>1, <1>2 DEF SetRow, TypeOK
<1> QED
  BY <1>1, <1>3, <1>4, <1>5

LEMMA BackedStep == IInv /\ [Next]_vars => ArtifactsBacked'
<1> SUFFICES ASSUME IInv, [Next]_vars PROVE ArtifactsBacked'
  OBVIOUS
<1>1. TypeOK
  BY DEF IInv
<1>2. \A a \in artifacts : a \in Job \X Nat /\ a[1] \in Job /\ a = <<a[1], a[2]>>
  BY <1>1 DEF TypeOK
<1>3. \A a \in artifacts : a \in outputs'
  BY <1>1, OutputChanges DEF IInv, ArtifactsBacked, Publication
<1>4. CASE AllOrdinary
  <2>1. \A j \in Job : Ordinary(jobs[j], jobs'[j])
    BY <1>4 DEF AllOrdinary
  <2>2. \A a \in artifacts' : a \in outputs' /\ jobs'[a[1]].status \in Ended
                             /\ jobs'[a[1]].gen = a[2]
    BY <1>2, <1>3, <1>4, <2>1 DEF AllOrdinary, Ordinary, IInv, ArtifactsBacked
  <2>3. ASSUME NEW j \in Job, jobs'[j].status \in {"succeeded", "timeout"}
        PROVE  <<j, jobs'[j].gen>> \in artifacts'
    BY <1>4, <2>1, <2>3 DEF AllOrdinary, Ordinary, IInv, ArtifactsBacked, Ended
  <2> QED
    BY <2>2, <2>3 DEF ArtifactsBacked
<1>5. ASSUME NEW w \in Worker, Commits(w) PROVE ArtifactsBacked'
  <2>1. artifacts' = artifacts \cup {Key(w)} /\ outputs' = outputs
    BY <1>5 DEF Commits
  <2>2. Key(w) \in outputs
    BY <1>5 DEF Commits, IInv, Publication
  <2>3. ASSUME NEW a \in artifacts'
        PROVE a \in outputs' /\ jobs'[a[1]].status \in Ended /\ jobs'[a[1]].gen = a[2]
    <3>1. CASE a = Key(w)
      BY <1>1, <1>5, <2>1, <2>2, <3>1, CommitEffect DEF Key
    <3>2. CASE a \in artifacts
      <4>1. jobs[a[1]].status \in Ended
        BY <3>2 DEF IInv, ArtifactsBacked
      <4>2. a[1] # proc[w].job
        BY <1>1, <1>5, <4>1, CommitEffect DEF Mine
      <4> QED
        BY <1>1, <1>2, <1>3, <1>5, <3>2, <4>2, CommitEffect DEF IInv, ArtifactsBacked
    <3> QED
      BY <2>1, <3>1, <3>2
  <2>4. ASSUME NEW j \in Job, jobs'[j].status \in {"succeeded", "timeout"}
        PROVE  <<j, jobs'[j].gen>> \in artifacts'
    <3>1. CASE j = proc[w].job
      BY <1>1, <1>5, <2>1, <3>1, CommitEffect DEF Key
    <3>2. CASE j # proc[w].job
      BY <1>1, <1>5, <2>1, <2>4, <3>2, CommitEffect DEF IInv, ArtifactsBacked
    <3> QED
      BY <3>1, <3>2
  <2> QED
    BY <2>3, <2>4 DEF ArtifactsBacked
<1> QED
  BY <1>1, <1>4, <1>5, RowChanges

LEMMA ClaimEffect ==
  ASSUME TypeOK, NEW w \in Worker, NEW j \in Job, Claim(w, j)
  PROVE  /\ proc'[w].pc = "claimed" /\ Key(w)' = <<j, jobs[j].gen + 1>>
         /\ \A v \in Worker \ {w} : proc'[v] = proc[v]
  BY DEF Claim, Become, TypeOK, At, Key

\* An attempt that has not committed stays without artifact rows.
LEMMA UncommittedStep ==
  ASSUME IInv, [Next]_vars, NEW v \in Worker, Uncommitted(v)'
  PROVE  Key(v)' \notin artifacts'
<1>1. TypeOK
  BY DEF IInv
<1>2. CASE AllOrdinary
  <2>1. CASE proc' = proc
    BY <1>2, <2>1 DEF AllOrdinary, IInv, Publication, Uncommitted, Key
  <2>2. ASSUME NEW w \in Worker, OneProc(w) PROVE Key(v)' \notin artifacts'
    <3>1. CASE v = w
      <4>1. proc'[w].pc \in Busy
        BY <3>1, Places, Steps DEF Uncommitted
      <4>2. Key(w)' = Key(w) /\ (Uncommitted(w) \/ Key(w) \notin outputs)
        BY <2>2, <3>1, <4>1 DEF OneProc, Local, Key
      <4> QED
        BY <1>2, <3>1, <4>2 DEF AllOrdinary, IInv, Publication, ArtifactsBacked
    <3>2. CASE v # w
      <4>1. proc'[v] = proc[v]
        BY <2>2, <3>2 DEF OneProc
      <4> QED
        BY <1>2, <4>1 DEF AllOrdinary, IInv, Publication, Uncommitted, Key
    <3> QED
      BY <3>1, <3>2
  <2>3. ASSUME NEW w \in Worker, NEW j \in Job, Claim(w, j) PROVE Key(v)' \notin artifacts'
    <3>1. CASE v = w
      <4>1. \A a \in artifacts : a[1] # j
        BY <2>3 DEF Claim, CanClaim, Ended, IInv, ArtifactsBacked
      <4> QED
        BY <1>1, <1>2, <2>3, <3>1, <4>1, ClaimEffect DEF AllOrdinary
    <3>2. CASE v # w
      <4>1. proc'[v] = proc[v]
        BY <1>1, <2>3, <3>2, ClaimEffect
      <4> QED
        BY <1>2, <4>1 DEF AllOrdinary, IInv, Publication, Uncommitted, Key
    <3> QED
      BY <3>1, <3>2
  <2> QED
    BY <1>1, <2>1, <2>2, <2>3, ProcChanges
<1>3. ASSUME NEW u \in Worker, Commits(u) PROVE Key(v)' \notin artifacts'
  <2>1. v # u
    BY <1>3, Steps DEF Commits, Uncommitted, Rendering
  <2>2. proc'[v] = proc[v] /\ artifacts' = artifacts \cup {Key(u)}
    BY <1>3, <2>1 DEF Commits
  <2>3. Uncommitted(v) /\ Key(v)' = Key(v) /\ Key(v) \notin artifacts
    BY <2>2 DEF Uncommitted, Key, IInv, Publication
  <2>4. proc[v].pc \in Busy /\ proc[u].pc \in Busy
    BY <1>3, <2>3, Places, Steps DEF Uncommitted, Commits
  <2>5. Key(v) # Key(u)
    BY <2>1, <2>4 DEF IInv, Attempts
  <2> QED
    BY <2>2, <2>3, <2>5
<1> QED
  BY <1>1, <1>2, <1>3, RowChanges

\* The directory an attempt is about to commit stays.
LEMMA RenamedStep ==
  ASSUME IInv, [Next]_vars, NEW v \in Worker, proc'[v].pc \in {"published", "failcommit"}
  PROVE  Key(v)' \in outputs'
<1>1. TypeOK
  BY DEF IInv
<1>2. Key(v)' = Key(v) /\ (Key(v) \in outputs' \/ proc[v].pc = proc'[v].pc)
  <2>1. CASE proc' = proc
    BY <2>1 DEF Key
  <2>2. ASSUME NEW w \in Worker, OneProc(w)
        PROVE Key(v)' = Key(v) /\ (Key(v) \in outputs' \/ proc[v].pc = proc'[v].pc)
    BY <2>2, Steps DEF OneProc, Local, Key
  <2>3. ASSUME NEW w \in Worker, NEW j \in Job, Claim(w, j)
        PROVE Key(v)' = Key(v) /\ (Key(v) \in outputs' \/ proc[v].pc = proc'[v].pc)
    BY <1>1, <2>3, ClaimEffect DEF Key
  <2> QED
    BY <1>1, <2>1, <2>2, <2>3, ProcChanges
<1>3. CASE proc[v].pc = proc'[v].pc
  <2>1. Key(v) \in outputs /\ proc[v].pc \in Busy
    BY <1>3, Steps DEF IInv, Publication
  <2>2. ASSUME NEW u \in Worker, proc[u].pc \in {"cleanup", "failclean"} PROVE Key(u) # Key(v)
    BY <1>3, <2>1, <2>2, Steps DEF IInv, Attempts
  <2> QED
    BY <1>1, <1>2, <2>1, <2>2, OutputChanges
<1> QED
  BY <1>2, <1>3

LEMMA PublicationStep == IInv /\ [Next]_vars => Publication'
  BY UncommittedStep, RenamedStep DEF Publication

-----------------------------------------------------------------------------
LEMMA IInvInit == Init => IInv
<1> SUFFICES ASSUME Init PROVE IInv
  OBVIOUS
<1>1. \A w \in Worker : proc[w].pc = "off" /\ ~proc[w].dirty
  BY DEF Init, At
<1>2. \A w \in Worker : proc[w].pc \notin Busy
  BY <1>1, Places
<1>3. Attempts
  BY <1>2 DEF Attempts
<1>4. Publication
  BY <1>1, <1>2 DEF Publication, Init
<1>5. ArtifactsBacked
  BY DEF Init, ArtifactsBacked, QueuedRow
<1> QED
  BY <1>3, <1>4, <1>5, TypeInit DEF IInv

LEMMA IInvStep == IInv /\ [Next]_vars => IInv'
  BY TypeStep, AttemptsStep, BackedStep, PublicationStep DEF IInv

\* Artifact rows always name a directory on disk that belongs to the attempt
\* that ended the job, and every render result has them: a fenced worker's
\* cleanup, a failed rename and a failure record never remove a committed
\* output, and no two attempts share one.
THEOREM ArtifactsAlwaysBacked == Spec => []ArtifactsBacked
<1>1. IInv => ArtifactsBacked
  BY DEF IInv
<1> QED
  BY <1>1, IInvInit, IInvStep, PTL DEF Spec

-----------------------------------------------------------------------------
(* A worker that lost its lease writes nothing.                            *)

Fences(w) == Mine(w).owner # Lease(w) \/ Mine(w).gen # proc[w].gen

LEMMA SameRow ==
  ASSUME TypeOK, NEW w \in Worker, proc[w].pc \in Busy, SetRow(proc[w].job, Mine(w))
  PROVE  UNCHANGED jobs
  BY BusyWorker DEF TypeOK, SetRow, Mine

LEMMA OnlyMine ==
  ASSUME TypeOK, NEW w \in Worker, NEW v \in Worker, proc'[w] # proc[w],
         \/ \E p : Become(v, p) \/ Goto(v, p)
         \/ \E p, r : Throw(v, p, r)
         \/ Close(v)
         \/ proc' = [proc EXCEPT ![v].lost = TRUE]
  PROVE  v = w
  BY DEF TypeOK, Become, Goto, Throw, Close

LEMMA FencedStep == TypeOK /\ [Next]_vars => [Fenced]_vars
<1> SUFFICES ASSUME TypeOK, Next, NEW w \in Worker, proc[w].pc \in Busy, proc'[w] # proc[w],
                    Fences(w)
             PROVE  UNCHANGED <<jobs, artifacts>>
  BY DEF Fenced, Fences
<1>1. ASSUME NEW v \in Worker,
             \/ Start(v) \/ FirstBeat(v) \/ PrepareFails(v) \/ DaemonStarts(v) \/ CliFails(v)
             \/ CleanExit(v) \/ UncleanExit(v) \/ StopVerified(v) \/ StopDeferred(v)
             \/ OutputInvalid(v) \/ Publish(v) \/ PublishFails(v) \/ Cleanup(v)
             \/ CleanupFails(v) \/ FailPublish(v) \/ FailClean(v) \/ RecScan(v)
             \/ Crash(v) \/ Stop(v)
      PROVE UNCHANGED <<jobs, artifacts>>
  BY <1>1 DEF Start, FirstBeat, PrepareFails, DaemonStarts, CliFails, CleanExit,
     UncleanExit, StopVerified, StopDeferred, OutputInvalid, Publish, PublishFails,
     Cleanup, CleanupFails, FailPublish, FailClean, RecScan, Crash, Stop
<1>2. /\ proc' # proc /\ ~Holds(w)
      /\ ~CanHeartbeat(Mine(w), Lease(w), proc[w].gen)
      /\ ~CanMarkCanceled(Mine(w), Lease(w), proc[w].gen)
      /\ ~CanFinishFailure(Mine(w), Lease(w), proc[w].gen)
      /\ \A from : ~CanTransition(Mine(w), Lease(w), proc[w].gen, from)
  BY DEF Fences, Holds, Owned, CanHeartbeat, CanMarkCanceled, CanFinishFailure,
     CanTransition
<1>3. ASSUME NEW v \in Worker, NEW j \in Job, Claim(v, j) PROVE FALSE
  BY <1>3, Places DEF Claim, Become
<1>4. ASSUME NEW v \in Worker, LeaseBeat(v) PROVE UNCHANGED <<jobs, artifacts>>
  <2>1. v = w
    BY <1>4, OnlyMine DEF LeaseBeat
  <2>2. LeaseBeat(w)
    BY <1>4, <2>1
  <2> QED
    BY <2>2, <1>2, SameRow DEF LeaseBeat
<1>5. ASSUME NEW v \in Worker, Reject(v) PROVE UNCHANGED <<jobs, artifacts>>
  <2>1. v = w
    BY <1>5, OnlyMine DEF Reject
  <2>2. Reject(w)
    BY <1>5, <2>1
  <2> QED
    BY <2>2, <1>2, SameRow DEF Reject
<1>6. ASSUME NEW v \in Worker, Run(v) PROVE UNCHANGED <<jobs, artifacts>>
  <2>1. v = w
    BY <1>6, OnlyMine DEF Run
  <2>2. Run(w)
    BY <1>6, <2>1
  <2> QED
    BY <2>2, <1>2, SameRow DEF Run
<1>7. ASSUME NEW v \in Worker, Check(v) PROVE UNCHANGED <<jobs, artifacts>>
  <2>1. v = w
    BY <1>7, OnlyMine DEF Check
  <2>2. Check(w)
    BY <1>7, <2>1
  <2> QED
    BY <2>2, <1>2, SameRow DEF Check
<1>8. ASSUME NEW v \in Worker, Renew(v) PROVE UNCHANGED <<jobs, artifacts>>
  <2>1. v = w
    BY <1>8, OnlyMine DEF Renew
  <2>2. Renew(w)
    BY <1>8, <2>1
  <2> QED
    BY <2>2, <1>2, SameRow DEF Renew
<1>9. ASSUME NEW v \in Worker, Commit(v) PROVE UNCHANGED <<jobs, artifacts>>
  <2>1. v = w
    BY <1>9, OnlyMine DEF Commit
  <2>2. Commit(w)
    BY <1>9, <2>1
  <2> QED
    BY <2>2, <1>2, SameRow DEF Commit
<1>10. ASSUME NEW v \in Worker, Final(v) PROVE UNCHANGED <<jobs, artifacts>>
  <2>1. v = w
    BY <1>10, OnlyMine DEF Final
  <2>2. Final(w)
    BY <1>10, <2>1
  <2> QED
    BY <2>2, <1>2, SameRow DEF Final
<1>11. ASSUME NEW v \in Worker, FailBegin(v) PROVE UNCHANGED <<jobs, artifacts>>
  <2>1. v = w
    <3>1. \E p : Become(v, p) \/ Goto(v, p)
      BY <1>11 DEF FailBegin
    <3> QED
      BY <3>1, OnlyMine
  <2>2. FailBegin(w)
    BY <1>11, <2>1
  <2> QED
    BY <2>2, <1>2, SameRow DEF FailBegin
<1>12. ASSUME NEW v \in Worker, FailRenew(v) PROVE UNCHANGED <<jobs, artifacts>>
  <2>1. v = w
    BY <1>12, OnlyMine DEF FailRenew
  <2>2. FailRenew(w)
    BY <1>12, <2>1
  <2> QED
    BY <2>2, <1>2, SameRow DEF FailRenew
<1>13. ASSUME NEW v \in Worker, FailCommit(v) PROVE UNCHANGED <<jobs, artifacts>>
  <2>1. v = w
    BY <1>13, OnlyMine DEF FailCommit
  <2>2. FailCommit(w)
    BY <1>13, <2>1
  <2> QED
    BY <2>2, <1>2, SameRow DEF FailCommit
<1>14. ASSUME NEW v \in Worker,
             \/ Beat(v) \/ MonitorStops(v) \/ RecList(v) \/ RecStop(v) \/ RecDefer(v)
             \/ RecFinish(v) \/ RecDone(v)
             \/ \E j \in Job : StopWaiting(v, j) \/ RecClaim(v, j)
      PROVE FALSE
  BY <1>2, <1>14 DEF Beat, MonitorStops, RecList, RecStop, RecDefer, RecFinish,
     RecDone, StopWaiting, RecClaim
<1>15. ASSUME NEW j \in Job, Cancel(j) \/ Expire(j) PROVE FALSE
  BY <1>2, <1>15 DEF Cancel, Expire
<1>16. ASSUME NEW c \in containers, OrphanEnds(c) PROVE FALSE
  BY <1>2, <1>16 DEF OrphanEnds
<1> QED
  BY <1>1, <1>3, <1>4, <1>5, <1>6, <1>7, <1>8, <1>9, <1>10, <1>11, <1>12, <1>13,
     <1>14, <1>15, <1>16 DEF Next, Progress, Mishap

\* A worker whose lease was taken over, by recovery or by a later claim of the
\* same job, never again changes a job's row or an artifact row.
THEOREM FencedWorkersWriteNothing == Spec => FencedWritesNothing
<1>1. TypeOK /\ [Next]_vars => [Fenced]_vars
  BY FencedStep
<1> QED
  BY <1>1, TypeInit, TypeStep, PTL DEF Spec, FencedWritesNothing

-----------------------------------------------------------------------------
(* The inductive invariant of the containers.                              *)

\* From its claim until its container has certainly ended, a worker holds the lease.
Watching == {"claimed", "starting", "rendering", "verify"}
Watchers == \A w \in Worker : proc[w].pc \in Watching => Holds(w) /\ ~Mine(w).expired

\* An attempt has a container only in two of its places.
Rendered == {"rendering", "verify"}
Departed == \A w \in Worker : proc[w].pc \in Busy \ Rendered => Key(w) \notin containers

\* A container belongs to the lease of its job, and to this very attempt unless recovery
\* has taken the lease over; a job in the queue has none.
HeldByJob == \A c \in containers :
    /\ jobs[c[1]].owner # NoOwner
    /\ \A w \in Worker : jobs[c[1]].owner = Lease(w) => c[2] = jobs[c[1]].gen
QueuedFree == \A j \in Job : jobs[j].status = "queued" => jobs[j].owner = NoOwner

\* Recovery that still has its claim knows of every container of the job.
Known == \A w \in Worker :
    rec[w].phase \in {"listed", "stopped"} /\ Owned(jobs[rec[w].job], Recoverer(w), rec[w].gen)
      => \A c \in containers : c[1] = rec[w].job => rec[w].phase = "listed" /\ c \in rec[w].seen

Single == \A c, d \in containers : c[1] = d[1] => c = d

Exclusive == Watchers /\ Departed /\ HeldByJob /\ QueuedFree /\ Known /\ Single
HeldInv == stalls = 0 => Exclusive

-----------------------------------------------------------------------------
(* What the statements do to a lease.                                      *)

KeepsLease(r, s) == /\ s.owner = r.owner /\ s.gen = r.gen /\ (s.expired => r.expired)
                    /\ s.status = "queued" => r.status = "queued"
FreesLease(r, s) == s.owner = NoOwner /\ s.gen = r.gen

LEMMA LeaseStatements ==
  ASSUME NEW r \in Row
  PROVE  /\ KeepsLease(r, r) /\ KeepsLease(r, Renewed(r)) /\ KeepsLease(r, Running(r))
         /\ KeepsLease(r, Canceled(r))
         /\ FreesLease(r, MarkedCanceled(r)) /\ FreesLease(r, Requeued(r))
         /\ \A to : FreesLease(r, Finished(r, to))
         /\ LET s == ClaimExpired(r) IN s.owner = r.owner /\ s.gen = r.gen /\ s.status = r.status
<1>1. KeepsLease(r, r) /\ KeepsLease(r, Renewed(r)) /\ KeepsLease(r, Running(r))
  BY DEF KeepsLease, Renewed, Running, Row
<1>2. KeepsLease(r, Canceled(r))
  BY DEF KeepsLease, Canceled, Row
<1>3. FreesLease(r, MarkedCanceled(r)) /\ FreesLease(r, Requeued(r))
  BY DEF FreesLease, MarkedCanceled, Requeued, Row
<1>4. \A to : FreesLease(r, Finished(r, to))
  BY DEF FreesLease, Finished, Row
<1>5. LET s == ClaimExpired(r) IN s.owner = r.owner /\ s.gen = r.gen /\ s.status = r.status
  BY DEF ClaimExpired, Row
<1> QED
  BY <1>1, <1>2, <1>3, <1>4, <1>5

LEMMA Owners ==
  ASSUME NEW w \in Worker, NEW v \in Worker
  PROVE  /\ Lease(w) # NoOwner /\ Recoverer(w) # NoOwner /\ Lease(w) # Recoverer(v)
         /\ Lease(w) = Lease(v) => w = v
         /\ Recoverer(w) = Recoverer(v) => w = v
<1>1. Lease(w) # NoOwner /\ Recoverer(w) # NoOwner
  BY NoOwnerAssumption, OwnerType DEF Owner
<1>2. \A x, y \in Worker : /\ Lease(x).worker = x /\ Recoverer(x).worker = x
                          /\ ~Lease(x).recovery /\ Recoverer(y).recovery
  BY DEF Lease, Recoverer
<1>3. Lease(w) # Recoverer(v)
  BY <1>2
<1> QED
  BY <1>1, <1>2, <1>3

\* What a step does to the lease of job j, as long as no process stalls.
SameLease(j) == KeepsLease(jobs[j], jobs'[j])
RunsOut(j) == /\ jobs'[j].owner = jobs[j].owner /\ jobs'[j].gen = jobs[j].gen
              /\ jobs'[j].status = jobs[j].status
              /\ \A w \in Worker : proc[w].pc \in Busy /\ proc[w].job = j => ~Holds(w)
FreedBy(w, j) == /\ proc[w].pc \in Busy \ Rendered /\ proc[w].job = j /\ Holds(w)
                 /\ proc'[w].pc \notin Watching
RecoveredBy(w, j) == /\ rec[w].phase = "stopped" /\ rec[w].job = j
                     /\ Owned(jobs[j], Recoverer(w), rec[w].gen)
Freed(j) == /\ FreesLease(jobs[j], jobs'[j]) /\ containers' = containers
            /\ \E w \in Worker : FreedBy(w, j) \/ RecoveredBy(w, j)

LEMMA SameLeases == ASSUME TypeOK, UNCHANGED jobs, NEW j \in Job PROVE SameLease(j)
  BY LeaseStatements DEF SameLease, TypeOK

LEMMA WorkerLease ==
  ASSUME TypeOK, NEW w \in Worker, proc[w].pc \in Busy, NEW row, SetRow(proc[w].job, row),
         \/ KeepsLease(Mine(w), row)
         \/ /\ FreesLease(Mine(w), row) /\ Holds(w)
            /\ proc[w].pc \notin Rendered /\ proc'[w].pc \notin Watching
            /\ containers' = containers,
         NEW j \in Job
  PROVE  SameLease(j) \/ Freed(j)
<1>1. CASE j = proc[w].job
  <2>1. jobs'[j] = row /\ jobs[j] = Mine(w)
    BY <1>1 DEF SetRow, TypeOK, Mine
  <2> QED
    BY <1>1, <2>1 DEF SameLease, Freed, FreedBy
<1>2. CASE j # proc[w].job
  <2>1. jobs'[j] = jobs[j] /\ jobs[j] \in Row
    BY <1>2 DEF SetRow, TypeOK
  <2> QED
    BY <2>1, LeaseStatements DEF SameLease
<1> QED
  BY <1>1, <1>2

LEMMA WorkerStatementsKeep ==
  ASSUME TypeOK, NEW w \in Worker, proc[w].pc \in Busy
  PROVE  /\ KeepsLease(Mine(w), Mine(w)) /\ KeepsLease(Mine(w), Renewed(Mine(w)))
         /\ KeepsLease(Mine(w), Running(Mine(w)))
         /\ FreesLease(Mine(w), MarkedCanceled(Mine(w)))
         /\ \A to : FreesLease(Mine(w), Finished(Mine(w), to))
         /\ CanMarkCanceled(Mine(w), Lease(w), proc[w].gen) => Holds(w)
         /\ CanFinishFailure(Mine(w), Lease(w), proc[w].gen) => Holds(w)
         /\ \A from : CanTransition(Mine(w), Lease(w), proc[w].gen, from) => Holds(w)
<1>1. Mine(w) \in Row
  BY BusyWorker
<1> QED
  BY <1>1, LeaseStatements DEF CanMarkCanceled, CanFinishFailure, CanTransition, Holds

LEMMA LeaseChanges ==
  ASSUME TypeOK, [Next]_vars, stalls' = 0, NEW j \in Job
  PROVE  \/ SameLease(j) \/ RunsOut(j) \/ Freed(j)
         \/ \E w \in Worker : Claim(w, j) \/ (RecClaim(w, j) /\ Stale(jobs[j]))
<1> DEFINE Same == SameLease(j) \/ Freed(j)
<1>1. ASSUME NEW w \in Worker, Start(w) \/ FirstBeat(w) \/ Beat(w) \/ PrepareFails(w)
                 \/ DaemonStarts(w) \/ CliFails(w) \/ CleanExit(w) \/ UncleanExit(w)
      PROVE Same
  BY <1>1, SameLeases DEF Start, FirstBeat, Beat, PrepareFails, DaemonStarts,
     CliFails, CleanExit, UncleanExit
<1>2. ASSUME NEW w \in Worker, MonitorStops(w) \/ StopVerified(w) \/ StopDeferred(w)
                 \/ OutputInvalid(w) \/ Publish(w) \/ PublishFails(w) \/ Cleanup(w)
                 \/ CleanupFails(w) \/ FailPublish(w) \/ FailClean(w)
      PROVE Same
  BY <1>2, SameLeases DEF MonitorStops, StopVerified, StopDeferred, OutputInvalid,
     Publish, PublishFails, Cleanup, CleanupFails, FailPublish, FailClean
<1>3. ASSUME NEW w \in Worker, \/ RecScan(w) \/ RecList(w) \/ RecStop(w) \/ RecDone(w)
                              \/ Crash(w) \/ Stop(w)
                              \/ \E i \in Job : StopWaiting(w, i)
      PROVE Same
  BY <1>3, SameLeases DEF RecScan, RecList, RecStop, RecDone, Crash, Stop, StopWaiting
<1>4. ASSUME NEW w \in Worker, NEW i \in Job, Claim(w, i) PROVE Same \/ Claim(w, j)
  <2>1. i # j => jobs'[j] = jobs[j]
    BY <1>4 DEF Claim, SetRow, TypeOK
  <2> QED
    BY <1>4, <2>1, LeaseStatements DEF SameLease, TypeOK
<1>5. ASSUME NEW w \in Worker, LeaseBeat(w) PROVE Same
  BY <1>5, Places, WorkerStatementsKeep, WorkerLease, SameLeases DEF LeaseBeat
<1>6. ASSUME NEW w \in Worker, Reject(w) PROVE Same
  <2>1. proc'[w].pc \notin Watching
    BY <1>6, Leaves, Places, Steps DEF Reject, Watching
  <2> QED
    BY <1>6, <2>1, Steps, WorkerStatementsKeep, WorkerLease DEF Reject, Rendered
<1>7. ASSUME NEW w \in Worker, Run(w) PROVE Same
  BY <1>7, Steps, WorkerStatementsKeep, WorkerLease, SameLeases DEF Run
<1>8. ASSUME NEW w \in Worker, Check(w) PROVE Same
  <2>1. CASE UNCHANGED jobs
    BY <2>1, SameLeases
  <2>2. CASE ~(UNCHANGED jobs)
    <3>1. proc'[w].pc \notin Watching
      BY <1>8, <2>2, Moves DEF Check, Watching, Moved
    <3> QED
      BY <1>8, <2>2, <3>1, Steps, WorkerStatementsKeep, WorkerLease DEF Check, Rendered
  <2> QED
    BY <2>1, <2>2
<1>9. ASSUME NEW w \in Worker, Renew(w) PROVE Same
  BY <1>9, Steps, WorkerStatementsKeep, WorkerLease, SameLeases DEF Renew
<1>10. ASSUME NEW w \in Worker, Commit(w) PROVE Same
  <2>1. CASE UNCHANGED jobs
    BY <2>1, SameLeases
  <2>2. CASE ~(UNCHANGED jobs)
    <3>1. proc'[w].pc \notin Watching
      <4>1. Moved(w, "cleanup", FALSE) \/ Moved(w, "cleanup", proc[w].dirty)
        BY <1>10, Moves DEF Commit, Close
      <4> QED
        BY <4>1 DEF Watching, Moved
    <3>2. \E row : SetRow(proc[w].job, row) /\ FreesLease(Mine(w), row)
      BY <1>10, <2>2, Steps, WorkerStatementsKeep DEF Commit
    <3>3. Holds(w) /\ proc[w].pc = "published" /\ UNCHANGED containers
      BY <1>10, <2>2 DEF Commit
    <3> QED
      BY <3>1, <3>2, <3>3, Steps, WorkerLease DEF Rendered
  <2> QED
    BY <2>1, <2>2
<1>11. ASSUME NEW w \in Worker, Final(w) PROVE Same
  <2>1. proc'[w].pc \notin Watching
    <3>1. Become(w, At("idle")) \/ Moved(w, "failing", proc[w].dirty)
      BY <1>11, Moves DEF Final
    <3> QED
      BY <3>1, Leaves, Places DEF Watching, Moved
  <2> QED
    BY <1>11, <2>1, Steps, WorkerStatementsKeep, WorkerLease DEF Final, Rendered
<1>12. ASSUME NEW w \in Worker, FailBegin(w) PROVE Same
  <2>1. proc'[w].pc \notin Watching
    <3>1. Become(w, At("idle")) \/ Moved(w, "failwrite", proc[w].dirty)
      BY <1>12, Moves DEF FailBegin
    <3> QED
      BY <3>1, Leaves, Places DEF Watching, Moved
  <2>2. proc[w].pc \in Busy \ Rendered /\ UNCHANGED containers
    BY <1>12, Steps DEF FailBegin, Rendered
  <2>3. \/ UNCHANGED jobs
        \/ \E row : /\ SetRow(proc[w].job, row)
                    /\ KeepsLease(Mine(w), row) \/ (FreesLease(Mine(w), row) /\ Holds(w))
    BY <1>12, <2>2, WorkerStatementsKeep DEF FailBegin
  <2> QED
    BY <2>1, <2>2, <2>3, WorkerLease, SameLeases
<1>13. ASSUME NEW w \in Worker, FailRenew(w) PROVE Same
  BY <1>13, Steps, WorkerStatementsKeep, WorkerLease, SameLeases DEF FailRenew
<1>14. ASSUME NEW w \in Worker, FailCommit(w) PROVE Same
  <2>1. proc'[w].pc \notin Watching
    <3>1. Become(w, At("idle")) \/ Moved(w, "failclean", proc[w].dirty)
      BY <1>14, Moves DEF FailCommit
    <3> QED
      BY <3>1, Leaves, Places DEF Watching, Moved
  <2> QED
    BY <1>14, <2>1, Steps, WorkerStatementsKeep, WorkerLease, SameLeases DEF FailCommit, Rendered
<1>15. ASSUME NEW w \in Worker, NEW i \in Job, RecClaim(w, i)
       PROVE  Same \/ (RecClaim(w, j) /\ Stale(jobs[j]))
  <2>1. i # j \/ ~Stale(jobs[i]) => jobs'[j] = jobs[j]
    BY <1>15 DEF RecClaim, SetRow, TypeOK
  <2> QED
    BY <1>15, <2>1, LeaseStatements DEF SameLease, TypeOK
<1>16. ASSUME NEW w \in Worker, RecDefer(w) PROVE Same \/ RunsOut(j)
  <2> DEFINE row == jobs[rec[w].job]
  <2>1. rec[w].job \in Job /\ row \in Row
    BY <1>16, RecJob DEF RecDefer
  <2>2. SetRow(rec[w].job, IF CanExpireClaim(row, w, rec[w].gen) THEN ClaimExpired(row) ELSE row)
    BY <1>16 DEF RecDefer
  <2> HIDE DEF row
  <2>3. CASE j = rec[w].job /\ CanExpireClaim(row, w, rec[w].gen)
    <3>1. jobs'[j] = ClaimExpired(row) /\ row = jobs[j]
      BY <2>1, <2>2, <2>3 DEF SetRow, TypeOK, row
    <3>2. row.owner = Recoverer(w)
      BY <2>3 DEF CanExpireClaim, Owned
    <3>3. \A v \in Worker : proc[v].job = j => ~Holds(v)
      BY <3>1, <3>2, Owners DEF Holds, Owned, Mine
    <3> QED
      BY <2>1, <3>1, <3>3, LeaseStatements DEF RunsOut
  <2>4. CASE ~(j = rec[w].job /\ CanExpireClaim(row, w, rec[w].gen))
    <3>1. jobs'[j] = jobs[j]
      BY <2>1, <2>2, <2>4 DEF SetRow, TypeOK, row
    <3> QED
      BY <3>1, LeaseStatements DEF SameLease, TypeOK
  <2> QED
    BY <2>3, <2>4
<1>17. ASSUME NEW w \in Worker, RecFinish(w) PROVE Same
  <2> DEFINE row == jobs[rec[w].job]
             next == Recovered(w, row)
  <2>1. rec[w].job \in Job /\ row \in Row /\ rec[w].phase = "stopped" /\ containers' = containers
    BY <1>17, RecJob DEF RecFinish
  <2>2. SetRow(rec[w].job, next)
    BY <1>17 DEF RecFinish
  <2>3. next = row \/ (FreesLease(row, next) /\ Owned(row, Recoverer(w), rec[w].gen))
    BY <2>1, LeaseStatements DEF Recovered, CanMarkCanceled, CanRecover
  <2> HIDE DEF row, next
  <2>4. CASE j = rec[w].job
    <3>1. jobs'[j] = next /\ jobs[j] = row
      BY <2>1, <2>2, <2>4 DEF SetRow, TypeOK, row
    <3> QED
      BY <2>1, <2>3, <2>4, <3>1, LeaseStatements DEF SameLease, Freed, RecoveredBy
  <2>5. CASE j # rec[w].job
    <3>1. jobs'[j] = jobs[j]
      BY <2>1, <2>2, <2>5 DEF SetRow, TypeOK
    <3> QED
      BY <3>1, LeaseStatements DEF SameLease, TypeOK
  <2> QED
    BY <2>4, <2>5
<1>18. ASSUME NEW i \in Job, Cancel(i) PROVE Same
  BY <1>18, LeaseStatements DEF Cancel, SetRow, SameLease, TypeOK
<1>19. ASSUME NEW i \in Job, Expire(i) PROVE Same \/ RunsOut(j)
  <2>1. ~Served(i)
    BY <1>19 DEF Expire, TypeOK
  <2>2. CASE i = j
    <3>1. jobs'[j] = ClaimExpired(jobs[j]) /\ jobs[j] \in Row
      BY <1>19, <2>2 DEF Expire, SetRow, TypeOK
    <3> QED
      BY <2>1, <2>2, <3>1, LeaseStatements DEF RunsOut, Served
  <2>3. CASE i # j
    <3>1. jobs'[j] = jobs[j]
      BY <1>19, <2>3 DEF Expire, SetRow, TypeOK
    <3> QED
      BY <3>1, LeaseStatements DEF SameLease, TypeOK
  <2> QED
    BY <2>2, <2>3
<1>20. ASSUME NEW c \in containers, OrphanEnds(c) PROVE Same
  BY <1>20, SameLeases DEF OrphanEnds
<1>21. CASE UNCHANGED vars
  BY <1>21, SameLeases DEF vars
<1> HIDE DEF Same
<1> HIDE DEF Same
<1>22. CASE Next
  <2>1. ASSUME NEW w \in Worker, Start(w) \/ Beat(w) \/ LeaseBeat(w) \/ MonitorStops(w)
        PROVE Same
    BY <1>1, <1>2, <1>5, <2>1
  <2>2. ASSUME NEW w \in Worker, Progress(w)
        PROVE Same \/ RunsOut(j) \/ Claim(w, j) \/ (RecClaim(w, j) /\ Stale(jobs[j]))
    BY <1>1, <1>2, <1>3, <1>4, <1>7, <1>8, <1>9, <1>10, <1>11, <1>12, <1>13, <1>14, <1>15,
       <1>17, <2>2 DEF Progress
  <2>3. ASSUME NEW w \in Worker, Mishap(w) PROVE Same \/ RunsOut(j)
    BY <1>1, <1>2, <1>3, <1>6, <1>16, <2>3 DEF Mishap
  <2> QED
    BY <1>18, <1>19, <1>20, <1>22, <2>1, <2>2, <2>3 DEF Next, Same
<1> QED
  BY <1>21, <1>22 DEF Same

-----------------------------------------------------------------------------
(* What a step does to the place of worker w, the containers and recovery. *)

WatchStep(w) ==
    \/ proc'[w].pc \notin Busy
    \/ /\ proc[w].pc \in Busy
       /\ proc'[w].job = proc[w].job /\ proc'[w].gen = proc[w].gen
       /\ proc'[w].pc \in Watching => proc[w].pc \in Watching
       /\ proc'[w].pc \notin Rendered
            => proc[w].pc \notin Rendered \/ containers' = containers \ {Key(w)}

LEMMA StaysWatched == ASSUME NEW w \in Worker, proc'[w] = proc[w] PROVE WatchStep(w)
  BY DEF WatchStep

LEMMA MovedWatch ==
  ASSUME NEW w \in Worker, NEW u \in Worker, proc[u].pc \in Busy, NEW pc, NEW d, Moved(u, pc, d),
         pc \in Watching => proc[u].pc \in Watching,
         pc \notin Rendered => proc[u].pc \notin Rendered \/ containers' = containers \ {Key(u)}
  PROVE  WatchStep(w)
  BY DEF WatchStep, Moved

LEMMA LeavesWatch ==
  ASSUME TypeOK, NEW w \in Worker, NEW u \in Worker, NEW pc \in PC \ Busy, Become(u, At(pc))
  PROVE  WatchStep(w)
  BY Leaves DEF WatchStep

LEMMA WatchSteps ==
  ASSUME TypeOK, [Next]_vars, NEW w \in Worker
  PROVE  WatchStep(w) \/ \E j \in Job : Claim(w, j)
<1>1. ASSUME NEW u \in Worker,
             \/ Start(u) \/ FirstBeat(u) \/ Reject(u) \/ StopDeferred(u) \/ FailClean(u)
             \/ Crash(u) \/ Stop(u)
      PROVE WatchStep(w)
  BY <1>1, LeavesWatch, Places DEF Start, FirstBeat, Reject, StopDeferred, FailClean,
     Crash, Stop
<1>2. ASSUME NEW u \in Worker, RecScan(u) PROVE WatchStep(w)
  BY <1>2, LeavesWatch, StaysWatched, Places DEF RecScan
<1>3. ASSUME NEW u \in Worker, LeaseBeat(u) PROVE WatchStep(w)
  BY <1>3, MovesLost, MovedWatch, StaysWatched, Places DEF LeaseBeat
<1>4. ASSUME NEW u \in Worker, PrepareFails(u) \/ OutputInvalid(u) \/ PublishFails(u)
      PROVE WatchStep(w)
  <2>1. Moved(u, "cleanup", proc[u].dirty)
    BY <1>4, Moves DEF PrepareFails, OutputInvalid, PublishFails
  <2> QED
    BY <1>4, <2>1, MovedWatch, Steps DEF PrepareFails, OutputInvalid, PublishFails,
       Watching, Rendered
<1>5. ASSUME NEW u \in Worker, Run(u) PROVE WatchStep(w)
  <2>1. Moved(u, "starting", proc[u].dirty) \/ Moved(u, "cleanup", proc[u].dirty)
    BY <1>5, Moves DEF Run
  <2> QED
    BY <1>5, <2>1, MovedWatch, Steps DEF Run, Watching, Rendered
<1>6. ASSUME NEW u \in Worker, DaemonStarts(u) PROVE WatchStep(w)
  <2>1. Moved(u, "rendering", proc[u].dirty)
    BY <1>6, Moves DEF DaemonStarts
  <2> QED
    BY <1>6, <2>1, MovedWatch, Steps DEF DaemonStarts, Watching, Rendered
<1>7. ASSUME NEW u \in Worker, CliFails(u) \/ UncleanExit(u) PROVE WatchStep(w)
  <2>1. Moved(u, "verify", proc[u].dirty)
    BY <1>7, Moves DEF CliFails, UncleanExit
  <2> QED
    BY <1>7, <2>1, MovedWatch, Steps DEF CliFails, UncleanExit, Watching, Rendered
<1>8. ASSUME NEW u \in Worker, CleanExit(u) PROVE WatchStep(w)
  <2>1. Moved(u, "closed", proc[u].dirty)
    BY <1>8, Moves DEF CleanExit
  <2> QED
    BY <1>8, <2>1, MovedWatch, Steps DEF CleanExit, Watching, Rendered
<1>9. ASSUME NEW u \in Worker, StopVerified(u) PROVE WatchStep(w)
  <2>1. Moved(u, "cleanup", proc[u].dirty) \/ Moved(u, "closed", proc[u].dirty)
    BY <1>9, Moves DEF StopVerified
  <2> QED
    BY <1>9, <2>1, MovedWatch, Steps DEF StopVerified, Watching, Rendered
<1>10. ASSUME NEW u \in Worker, Check(u) \/ Renew(u) \/ Commit(u) PROVE WatchStep(w)
  <2>1. proc[u].pc \in Busy \ Rendered
    BY <1>10, Steps DEF Check, Renew, Commit, Rendered
  <2>2. PICK pc \in {"cleanup", "checked", "renewed"}, d \in {FALSE, proc[u].dirty} : Moved(u, pc, d)
    BY <1>10, Moves DEF Check, Renew, Commit, Close
  <2> QED
    BY <2>1, <2>2, MovedWatch DEF Watching
<1>11. ASSUME NEW u \in Worker, Publish(u) \/ Cleanup(u) \/ CleanupFails(u) PROVE WatchStep(w)
  <2>1. proc[u].pc \in Busy \ Rendered
    BY <1>11, Steps DEF Publish, Cleanup, CleanupFails, Rendered
  <2>2. PICK pc \in {"published", "final", "failing"}, d \in BOOLEAN : Moved(u, pc, d)
    BY <1>11, Moves DEF Publish, Cleanup, CleanupFails
  <2> QED
    BY <2>1, <2>2, MovedWatch DEF Watching
<1>12. ASSUME NEW u \in Worker,
              Final(u) \/ FailBegin(u) \/ FailRenew(u) \/ FailPublish(u) \/ FailCommit(u)
       PROVE WatchStep(w)
  <2>1. proc[u].pc \in Busy \ Rendered
    BY <1>12, Steps DEF Final, FailBegin, FailRenew, FailPublish, FailCommit, Rendered
  <2>2. \/ Become(u, At("idle")) \/ Become(u, At("dead"))
        \/ \E pc \in {"failing", "failwrite", "failrename", "failcommit", "failclean"} :
             \E d : Moved(u, pc, d)
    BY <1>12, Moves DEF Final, FailBegin, FailRenew, FailPublish, FailCommit
  <2>3. CASE Become(u, At("idle")) \/ Become(u, At("dead"))
    BY <2>3, LeavesWatch, Places
  <2>4. ASSUME NEW pc \in {"failing", "failwrite", "failrename", "failcommit", "failclean"},
               NEW d, Moved(u, pc, d)
        PROVE  WatchStep(w)
    BY <2>1, <2>4, MovedWatch DEF Watching
  <2> QED
    BY <2>2, <2>3, <2>4
<1>13. ASSUME NEW u \in Worker, \/ Beat(u) \/ MonitorStops(u) \/ RecList(u) \/ RecStop(u)
                              \/ RecDefer(u) \/ RecFinish(u) \/ RecDone(u)
                              \/ \E j \in Job : StopWaiting(u, j) \/ RecClaim(u, j)
      PROVE WatchStep(w)
  BY <1>13, StaysWatched DEF Beat, MonitorStops, RecList, RecStop, RecDefer, RecFinish,
     RecDone, StopWaiting, RecClaim
<1>14. ASSUME NEW u \in Worker, NEW j \in Job, Claim(u, j) PROVE WatchStep(w) \/ Claim(w, j)
  BY <1>14, StaysWatched, ClaimEffect
<1>15. ASSUME NEW j \in Job, Cancel(j) \/ Expire(j) PROVE WatchStep(w)
  BY <1>15, StaysWatched DEF Cancel, Expire
<1>16. ASSUME NEW c \in containers, OrphanEnds(c) PROVE WatchStep(w)
  BY <1>16, StaysWatched DEF OrphanEnds
<1>17. CASE UNCHANGED vars
  BY <1>17, StaysWatched DEF vars
<1>18. CASE Next
  <2>1. ASSUME NEW u \in Worker, Start(u) \/ Beat(u) \/ LeaseBeat(u) \/ MonitorStops(u)
        PROVE WatchStep(w)
    BY <1>1, <1>3, <1>13, <2>1
  <2>2. ASSUME NEW u \in Worker, Progress(u) PROVE WatchStep(w) \/ \E j \in Job : Claim(w, j)
    BY <1>1, <1>2, <1>5, <1>6, <1>7, <1>8, <1>9, <1>10, <1>11, <1>12, <1>13, <1>14, <2>2
       DEF Progress
  <2>3. ASSUME NEW u \in Worker, Mishap(u) PROVE WatchStep(w)
    BY <1>1, <1>4, <1>7, <1>11, <1>13, <2>3 DEF Mishap
  <2> QED
    BY <1>15, <1>16, <1>18, <2>1, <2>2, <2>3 DEF Next
<1> QED
  BY <1>17, <1>18

LEMMA ContainerChanges ==
  ASSUME TypeOK, [Next]_vars
  PROVE  containers' \subseteq containers \/ \E w \in Worker : DaemonStarts(w)
<1> DEFINE Shrinks == containers' \subseteq containers
<1>1. ASSUME NEW w \in Worker,
             \/ Start(w) \/ FirstBeat(w) \/ Beat(w) \/ LeaseBeat(w) \/ Reject(w)
             \/ PrepareFails(w) \/ Run(w) \/ CliFails(w) \/ CleanExit(w)
             \/ UncleanExit(w) \/ MonitorStops(w) \/ StopVerified(w) \/ StopDeferred(w)
             \/ \E j \in Job : StopWaiting(w, j) \/ Claim(w, j)
      PROVE Shrinks
  BY <1>1 DEF Start, FirstBeat, Beat, LeaseBeat, Reject, PrepareFails, Run,
     CliFails, CleanExit, UncleanExit, MonitorStops, StopVerified,
     StopDeferred, StopWaiting, Claim
<1>2. ASSUME NEW w \in Worker,
             \/ Check(w) \/ OutputInvalid(w) \/ Renew(w) \/ Publish(w) \/ Commit(w)
             \/ PublishFails(w) \/ Cleanup(w) \/ CleanupFails(w) \/ Final(w)
             \/ FailBegin(w) \/ FailRenew(w) \/ FailPublish(w) \/ FailCommit(w)
             \/ FailClean(w) \/ Crash(w) \/ Stop(w)
      PROVE Shrinks
  BY <1>2 DEF Check, OutputInvalid, Renew, Publish, Commit, PublishFails, Cleanup,
     CleanupFails, Final, FailBegin, FailRenew, FailPublish, FailCommit, FailClean, Crash, Stop
<1>3. ASSUME NEW w \in Worker,
             \/ RecScan(w) \/ RecList(w) \/ RecStop(w) \/ RecDefer(w) \/ RecFinish(w)
             \/ RecDone(w) \/ \E j \in Job : RecClaim(w, j)
      PROVE Shrinks
  BY <1>3 DEF RecScan, RecList, RecStop, RecDefer, RecFinish, RecDone, RecClaim
<1>4. ASSUME NEW j \in Job, Cancel(j) \/ Expire(j) PROVE Shrinks
  BY <1>4 DEF Cancel, Expire
<1>5. ASSUME NEW c \in containers, OrphanEnds(c) PROVE Shrinks
  BY <1>5 DEF OrphanEnds
<1>6. ASSUME UNCHANGED vars PROVE Shrinks
  BY <1>6 DEF vars
<1> HIDE DEF Shrinks
<1>7. Shrinks \/ \E w \in Worker : DaemonStarts(w)
  BY <1>1, <1>2, <1>3, <1>4, <1>5, <1>6 DEF Next, Progress, Mishap
<1> QED
  BY <1>7 DEF Shrinks

\* The pass of worker w stays with its claim, drops it, makes one, or gets on with it.
Claiming == {"claimed", "listed", "stopped"}

LEMMA RecChanges ==
  ASSUME TypeOK, [Next]_vars, NEW w \in Worker
  PROVE  \/ rec'[w] = rec[w] /\ ~\E j \in Job : RecClaim(w, j)
         \/ rec'[w].phase \notin Claiming
         \/ \E j \in Job : /\ RecClaim(w, j) /\ rec'[w].phase = "claimed"
                           /\ rec'[w].job = j /\ rec'[w].was = jobs[j].status
         \/ RecList(w) \/ RecStop(w)
<1> DEFINE Claims == \E j \in Job : /\ RecClaim(w, j) /\ rec'[w].phase = "claimed"
                                   /\ rec'[w].job = j /\ rec'[w].was = jobs[j].status
           Kept == \/ rec'[w] = rec[w] /\ ~\E j \in Job : RecClaim(w, j)
                   \/ rec'[w].phase \notin Claiming
                   \/ Claims
                   \/ RecList(w) \/ RecStop(w)
<1>0. /\ \A u \in Worker : \A r : rec' = [rec EXCEPT ![u] = r]
           => IF u = w THEN rec'[w] = r ELSE rec'[w] = rec[w]
      /\ RecOff.phase = "off" /\ \A t : [RecOff EXCEPT !.phase = "loop", !.todo = t].phase = "loop"
  BY DEF TypeOK, RecOff
<1>1. ASSUME NEW j \in Job, RecClaim(w, j) PROVE rec'[w].phase \notin Claiming \/ Claims
  <2>1. CASE Stale(jobs[j])
    BY <1>1, <2>1 DEF RecClaim, TypeOK
  <2>2. CASE ~Stale(jobs[j])
    <3>1. rec' = [rec EXCEPT ![w].todo = @ \ {j}] /\ rec[w].phase = "loop" /\ rec[w] \in Rec
      BY <1>1, <2>2 DEF RecClaim, TypeOK, RecState
    <3> QED
      BY <3>1 DEF TypeOK, RecState, Rec, Claiming
  <2> QED
    BY <2>1, <2>2
<1>2. CASE UNCHANGED rec
  BY <1>1, <1>2
<1>3. ASSUME NEW u \in Worker, RecScan(u) \/ RecDefer(u) \/ RecFinish(u) \/ RecDone(u) \/ Crash(u)
      PROVE Kept
  <2>1. \E r : /\ rec' = [rec EXCEPT ![u] = r] /\ r.phase \notin Claiming
    BY <1>0, <1>3 DEF RecScan, RecDefer, RecFinish, RecDone, Crash, Claiming
  <2> QED
    BY <1>0, <1>1, <2>1
<1>4. ASSUME NEW u \in Worker, RecList(u) \/ RecStop(u) PROVE Kept
  <2>1. u # w => rec'[w] = rec[w]
    BY <1>4 DEF RecList, RecStop, TypeOK
  <2> QED
    BY <1>1, <1>4, <2>1
<1>5. ASSUME NEW u \in Worker, NEW j \in Job, RecClaim(u, j) PROVE Kept
  <2>1. u # w => rec'[w] = rec[w]
    BY <1>5 DEF RecClaim, TypeOK
  <2> QED
    BY <1>1, <1>5, <2>1
<1> HIDE DEF Kept
<1>6. CASE Next
  <2>1. ASSUME NEW u \in Worker, Start(u) \/ Beat(u) \/ LeaseBeat(u) \/ MonitorStops(u)
        PROVE UNCHANGED rec
    BY <2>1 DEF Start, Beat, LeaseBeat, MonitorStops
  <2>2. ASSUME NEW u \in Worker, Progress(u) PROVE UNCHANGED rec \/ Kept
    <3>1. ASSUME \/ FirstBeat(u) \/ (\E j \in Job : StopWaiting(u, j) \/ Claim(u, j))
                 \/ Run(u) \/ DaemonStarts(u) \/ CleanExit(u) \/ UncleanExit(u)
                 \/ StopVerified(u) \/ Check(u) \/ Renew(u) \/ Publish(u) \/ Commit(u)
                 \/ Cleanup(u) \/ Final(u)
                 \/ FailBegin(u) \/ FailRenew(u) \/ FailPublish(u) \/ FailCommit(u)
                 \/ FailClean(u)
          PROVE UNCHANGED rec
      BY <3>1 DEF FirstBeat, StopWaiting, Claim, Run, DaemonStarts, CleanExit, UncleanExit,
         StopVerified, Check, Renew, Publish, Commit, Cleanup, Final, FailBegin, FailRenew,
         FailPublish, FailCommit, FailClean
    <3> QED
      BY <1>3, <1>4, <1>5, <2>2, <3>1 DEF Progress
  <2>3. ASSUME NEW u \in Worker, Mishap(u) PROVE UNCHANGED rec \/ Kept
    <3>1. ASSUME \/ Reject(u) \/ PrepareFails(u) \/ CliFails(u) \/ StopDeferred(u)
                 \/ OutputInvalid(u) \/ PublishFails(u) \/ CleanupFails(u) \/ Stop(u)
          PROVE UNCHANGED rec
      BY <3>1 DEF Reject, PrepareFails, CliFails, StopDeferred, OutputInvalid, PublishFails,
         CleanupFails, Stop
    <3> QED
      BY <1>3, <2>3, <3>1 DEF Mishap
  <2>4. ASSUME NEW j \in Job, Cancel(j) \/ Expire(j) PROVE UNCHANGED rec
    BY <2>4 DEF Cancel, Expire
  <2>5. ASSUME NEW c \in containers, OrphanEnds(c) PROVE UNCHANGED rec
    BY <2>5 DEF OrphanEnds
  <2> QED
    BY <1>2, <1>6, <2>1, <2>2, <2>3, <2>4, <2>5 DEF Next, Kept
<1> QED
  BY <1>2, <1>6 DEF Kept, vars

LEMMA StallsStay == ASSUME TypeOK, [Next]_vars, stalls' = 0 PROVE stalls = 0
<1>1. ASSUME NEW j \in Job, Expire(j) PROVE stalls = 0
  BY <1>1 DEF Expire, TypeOK
<1>2. ASSUME NEW j \in Job, Cancel(j) PROVE stalls = 0
  BY <1>2 DEF Cancel
<1>3. ASSUME NEW c \in containers, OrphanEnds(c) PROVE stalls = 0
  BY <1>3 DEF OrphanEnds
<1>4. ASSUME NEW w \in Worker, Start(w) \/ Beat(w) \/ LeaseBeat(w) \/ MonitorStops(w)
      PROVE stalls = 0
  BY <1>4 DEF Start, Beat, LeaseBeat, MonitorStops
<1>5. ASSUME NEW w \in Worker, Progress(w) PROVE stalls = 0
  BY <1>5 DEF Progress, FirstBeat, StopWaiting, Claim, Run, DaemonStarts, CleanExit,
     UncleanExit, StopVerified, Check, Renew, Publish, Commit, Cleanup, Final, FailBegin,
     FailRenew, FailPublish, FailCommit, FailClean, RecScan, RecClaim, RecList, RecStop,
     RecFinish, RecDone
<1>6. ASSUME NEW w \in Worker, Mishap(w) PROVE stalls = 0
  BY <1>6 DEF Mishap, Reject, PrepareFails, CliFails, StopDeferred, OutputInvalid,
     PublishFails, CleanupFails, RecDefer, Crash, Stop
<1> QED
  BY <1>1, <1>2, <1>3, <1>4, <1>5, <1>6 DEF Next, vars

-----------------------------------------------------------------------------
(* The six parts of the invariant are preserved.                           *)

Context == IInv /\ Exclusive /\ [Next]_vars /\ stalls' = 0

\* Whoever holds the lease of a job under a container has that container.
LEMMA NoOther ==
  ASSUME TypeOK, Exclusive, NEW w \in Worker, proc[w].pc \in Busy \ Rendered, Holds(w)
  PROVE  \A c \in containers : c[1] # proc[w].job
<1> SUFFICES ASSUME NEW c \in containers, c[1] = proc[w].job PROVE FALSE
  OBVIOUS
<1>1. c = <<c[1], c[2]>>
  BY DEF TypeOK
<1>2. c[2] = proc[w].gen
  BY DEF Exclusive, HeldByJob, Holds, Owned, Mine
<1>3. c = Key(w)
  BY <1>1, <1>2 DEF Key
<1> QED
  BY <1>3 DEF Exclusive, Departed

\* The lease of a job with a container is neither given up nor claimed from the queue.
LEMMA HeldLease ==
  ASSUME Context, NEW c \in containers
  PROVE  /\ c[1] \in Job /\ ~Freed(c[1])
         /\ \A w \in Worker : ~Claim(w, c[1])
<1>1. TypeOK /\ c[1] \in Job
  BY DEF Context, IInv, TypeOK
<1>2. ASSUME NEW w \in Worker, Claim(w, c[1]) PROVE FALSE
  BY <1>1, <1>2 DEF Claim, CanClaim, Context, Exclusive, QueuedFree, HeldByJob
<1>3. ASSUME NEW w \in Worker, FreedBy(w, c[1]) PROVE FALSE
  BY <1>1, <1>3, NoOther DEF FreedBy, Context
<1>4. ASSUME NEW w \in Worker, RecoveredBy(w, c[1]) PROVE FALSE
  BY <1>1, <1>4 DEF RecoveredBy, Context, Exclusive, Known
<1> QED
  BY <1>1, <1>2, <1>3, <1>4 DEF Freed

LEMMA Launch ==
  ASSUME Context, NEW w \in Worker, DaemonStarts(w)
  PROVE  /\ containers' = containers \cup {Key(w)} /\ UNCHANGED <<jobs, rec>>
         /\ proc[w].pc = "starting" /\ proc[w].pc \in Busy /\ proc[w].job \in Job
         /\ Holds(w) /\ Key(w)[1] = proc[w].job
         /\ \A c \in containers : c[1] # proc[w].job
<1>1. TypeOK /\ proc[w].pc = "starting" /\ proc[w].pc \in Busy \ Rendered
  BY Steps DEF Context, IInv, DaemonStarts, Rendered
<1>2. Holds(w)
  BY <1>1 DEF Context, Exclusive, Watchers, Watching
<1> QED
  BY <1>1, <1>2, NoOther, BusyWorker DEF Context, DaemonStarts, Key

LEMMA WatchersStep == ASSUME Context PROVE Watchers'
<1> SUFFICES ASSUME NEW w \in Worker, proc'[w].pc \in Watching
             PROVE  Holds(w)' /\ ~Mine(w)'.expired
  BY DEF Watchers
<1>0. TypeOK /\ [Next]_vars /\ stalls' = 0 /\ Exclusive
  BY DEF Context, IInv
<1>1. ASSUME NEW j \in Job, Claim(w, j) PROVE Holds(w)' /\ ~Mine(w)'.expired
  <2>1. jobs[j].gen \in Nat /\ jobs'[j] = Claimed(jobs[j], w) /\ jobs[j] \in Row
    BY <1>0, <1>1 DEF Claim, SetRow, TypeOK, Row
  <2>2. Key(w)' = <<j, jobs[j].gen + 1>>
    BY <1>0, <1>1, ClaimEffect
  <2>3. proc'[w].job = j /\ proc'[w].gen = jobs[j].gen + 1
    BY <2>2 DEF Key
  <2>4. /\ jobs'[j].owner = Lease(w) /\ jobs'[j].gen = jobs[j].gen + 1 /\ ~jobs'[j].expired
    BY <2>1 DEF Claimed, Row
  <2> QED
    BY <2>3, <2>4 DEF Holds, Owned, Mine
<1>2. CASE WatchStep(w)
  <2> DEFINE j == proc[w].job
  <2>1. /\ proc[w].pc \in Watching /\ proc[w].pc \in Busy /\ j \in Job
        /\ proc'[w].job = j /\ proc'[w].gen = proc[w].gen
    BY <1>0, <1>2, Steps, BusyWorker DEF WatchStep, Watching
  <2>2. /\ jobs[j].owner = Lease(w) /\ jobs[j].gen = proc[w].gen /\ ~jobs[j].expired /\ Holds(w)
    BY <1>0, <2>1 DEF Exclusive, Watchers, Holds, Owned, Mine
  <2>3. jobs[j].status # "queued"
    BY <1>0, <2>1, <2>2, Owners DEF Exclusive, QueuedFree
  <2>4. ~Freed(j)
    BY <2>2, Owners DEF Freed, FreedBy, RecoveredBy, Holds, Owned, Mine
  <2>5. ~RunsOut(j)
    BY <2>1, <2>2 DEF RunsOut
  <2>6. \A u \in Worker : ~Claim(u, j) /\ ~Stale(jobs[j])
    BY <2>2, <2>3 DEF Claim, CanClaim, Stale
  <2>7. SameLease(j)
    BY <1>0, <2>1, <2>4, <2>5, <2>6, LeaseChanges
  <2> QED
    BY <2>1, <2>2, <2>7 DEF SameLease, KeepsLease, Holds, Owned, Mine
<1> QED
  BY <1>0, <1>1, <1>2, WatchSteps

LEMMA DepartedStep == ASSUME Context PROVE Departed'
<1> SUFFICES ASSUME NEW w \in Worker, proc'[w].pc \in Busy \ Rendered
             PROVE  Key(w)' \notin containers'
  BY DEF Departed
<1>0. TypeOK /\ [Next]_vars /\ Exclusive /\ Attempts
  BY DEF Context, IInv
<1>1. ASSUME NEW j \in Job, Claim(w, j) PROVE Key(w)' \notin containers'
  <2>1. Key(w)' = <<j, jobs[j].gen + 1>>
    BY <1>0, <1>1, ClaimEffect
  <2>2. containers' = containers
    BY <1>1 DEF Claim
  <2>3. \A c \in containers : c[1] # j
    BY <1>1, HeldLease
  <2> QED
    BY <2>1, <2>2, <2>3
<1>2. CASE WatchStep(w)
  <2>1. proc[w].pc \in Busy /\ Key(w)' = Key(w)
    BY <1>2 DEF WatchStep, Key
  <2>2. CASE containers' = containers \ {Key(w)}
    BY <2>1, <2>2
  <2>3. CASE containers' # containers \ {Key(w)}
    <3>1. Key(w) \notin containers
      BY <1>0, <1>2, <2>1, <2>3 DEF WatchStep, Exclusive, Departed
    <3>2. ASSUME NEW u \in Worker, DaemonStarts(u) PROVE Key(w)' \notin containers'
      <4>1. u # w
        <5>1. Moved(u, "rendering", proc[u].dirty)
          BY <1>0, <3>2, Moves DEF DaemonStarts
        <5> QED
          BY <5>1 DEF Moved, Rendered
      <4>2. Key(u) # Key(w)
        BY <1>0, <2>1, <3>2, <4>1, Launch DEF Attempts
      <4> QED
        BY <2>1, <3>1, <3>2, <4>2, Launch
    <3> QED
      BY <1>0, <2>1, <3>1, <3>2, ContainerChanges
  <2> QED
    BY <2>2, <2>3
<1> QED
  BY <1>0, <1>1, <1>2, WatchSteps

LEMMA HeldStep == ASSUME Context PROVE HeldByJob'
<1>0. TypeOK /\ [Next]_vars /\ Exclusive /\ stalls' = 0
  BY DEF Context, IInv
<1>1. ASSUME NEW c \in containers
      PROVE  /\ jobs'[c[1]].owner # NoOwner
             /\ \A w \in Worker : jobs'[c[1]].owner = Lease(w) => c[2] = jobs'[c[1]].gen
  <2> DEFINE j == c[1]
  <2>1. j \in Job /\ ~Freed(j) /\ \A w \in Worker : ~Claim(w, j)
    BY HeldLease
  <2>2. /\ jobs[j].owner # NoOwner
        /\ \A w \in Worker : jobs[j].owner = Lease(w) => c[2] = jobs[j].gen
    BY <1>0 DEF Exclusive, HeldByJob
  <2>3. CASE SameLease(j) \/ RunsOut(j)
    BY <2>2, <2>3 DEF SameLease, KeepsLease, RunsOut
  <2>4. ASSUME NEW w \in Worker, RecClaim(w, j), Stale(jobs[j])
        PROVE  jobs'[j].owner = Recoverer(w)
    <3>1. jobs'[j] = RecoveryClaimed(jobs[j], w) /\ jobs[j] \in Row
      BY <1>0, <2>1, <2>4 DEF RecClaim, SetRow, TypeOK
    <3> QED
      BY <3>1 DEF RecoveryClaimed, Row
  <2> HIDE DEF j
  <2>5. /\ jobs'[j].owner # NoOwner
        /\ \A w \in Worker : jobs'[j].owner = Lease(w) => c[2] = jobs'[j].gen
    <3>1. CASE SameLease(j) \/ RunsOut(j)
      BY <2>2, <3>1 DEF SameLease, KeepsLease, RunsOut
    <3>2. CASE \E w \in Worker : jobs'[j].owner = Recoverer(w)
      BY <3>2, Owners
    <3> QED
      BY <1>0, <2>1, <2>4, <3>1, <3>2, LeaseChanges
  <2> QED
    BY <2>5 DEF j
<1>2. ASSUME NEW u \in Worker, DaemonStarts(u), NEW c \in containers', c \notin containers
      PROVE  /\ jobs'[c[1]].owner # NoOwner
             /\ \A w \in Worker : jobs'[c[1]].owner = Lease(w) => c[2] = jobs'[c[1]].gen
  <2>1. c = Key(u) /\ Holds(u) /\ UNCHANGED jobs
    BY <1>2, Launch
  <2>2. c[1] = proc[u].job /\ c[2] = proc[u].gen
    BY <2>1 DEF Key
  <2> QED
    BY <2>1, <2>2, Owners DEF Holds, Owned, Mine
<1> QED
  BY <1>0, <1>1, <1>2, ContainerChanges DEF HeldByJob

LEMMA QueuedStep == ASSUME Context PROVE QueuedFree'
<1> SUFFICES ASSUME NEW j \in Job, jobs'[j].status = "queued" PROVE jobs'[j].owner = NoOwner
  BY DEF QueuedFree
<1>0. TypeOK /\ [Next]_vars /\ QueuedFree /\ stalls' = 0 /\ jobs[j] \in Row
  BY DEF Context, IInv, TypeOK, Exclusive
<1>1. CASE SameLease(j) \/ RunsOut(j) \/ Freed(j)
  BY <1>0, <1>1 DEF SameLease, KeepsLease, RunsOut, Freed, FreesLease, QueuedFree
<1>2. ASSUME NEW w \in Worker, Claim(w, j) PROVE FALSE
  <2>1. jobs'[j] = Claimed(jobs[j], w)
    BY <1>0, <1>2 DEF Claim, SetRow, TypeOK
  <2> QED
    BY <1>0, <2>1 DEF Claimed, Row
<1>3. ASSUME NEW w \in Worker, RecClaim(w, j), Stale(jobs[j]) PROVE FALSE
  <2>1. jobs'[j] = RecoveryClaimed(jobs[j], w)
    BY <1>0, <1>3 DEF RecClaim, SetRow, TypeOK
  <2> QED
    BY <1>0, <1>3, <2>1 DEF RecoveryClaimed, Stale, Row
<1> QED
  BY <1>0, <1>1, <1>2, <1>3, LeaseChanges

LEMMA KnownStep == ASSUME Context PROVE Known'
<1> SUFFICES ASSUME NEW w \in Worker, rec'[w].phase \in {"listed", "stopped"},
                    Owned(jobs'[rec'[w].job], Recoverer(w), rec'[w].gen),
                    NEW c \in containers', c[1] = rec'[w].job
             PROVE  rec'[w].phase = "listed" /\ c \in rec'[w].seen
  BY DEF Known
<1>0. TypeOK /\ [Next]_vars /\ Exclusive /\ stalls' = 0
  BY DEF Context, IInv
<1>1. CASE RecList(w)
  <2>1. /\ rec' = [rec EXCEPT ![w].phase = "listed",
                             ![w].seen = {d \in containers : d[1] = rec[w].job}]
        /\ UNCHANGED containers
    BY <1>1 DEF RecList
  <2>2. /\ rec'[w].phase = "listed" /\ rec'[w].job = rec[w].job
        /\ rec'[w].seen = {d \in containers : d[1] = rec[w].job}
    BY <1>0, <2>1 DEF TypeOK, RecState, Rec
  <2> QED
    BY <2>1, <2>2
<1>2. CASE RecStop(w)
  <2>1. /\ rec[w].phase = "listed" /\ containers' = containers \ rec[w].seen /\ UNCHANGED jobs
        /\ rec' = [rec EXCEPT ![w].phase = "stopped"]
    BY <1>2 DEF RecStop
  <2>2. rec'[w].job = rec[w].job /\ rec'[w].gen = rec[w].gen
    BY <1>0, <2>1 DEF TypeOK, RecState, Rec
  <2>3. c \in rec[w].seen
    BY <1>0, <2>1, <2>2 DEF Exclusive, Known
  <2> QED
    BY <2>1, <2>3
<1>3. CASE rec'[w] = rec[w] /\ ~\E j \in Job : RecClaim(w, j)
  <2> DEFINE j == rec[w].job
  <2>1. j \in Job /\ jobs[j] \in Row
    BY <1>0, <1>3, RecJob
  <2>2. Owned(jobs[j], Recoverer(w), rec[w].gen)
    <3>1. ~Freed(j)
      BY <1>3, Owners DEF Freed, FreesLease, Owned
    <3>2. ASSUME NEW u \in Worker, Claim(u, j) PROVE FALSE
      <4>1. jobs'[j].owner = Lease(u)
        BY <1>0, <2>1, <3>2 DEF Claim, SetRow, TypeOK, Claimed, Row
      <4> QED
        BY <1>3, <4>1, Owners DEF Owned
    <3>3. ASSUME NEW u \in Worker, RecClaim(u, j), Stale(jobs[j]) PROVE FALSE
      <4>1. jobs'[j] = RecoveryClaimed(jobs[j], u)
        BY <1>0, <2>1, <3>3 DEF RecClaim, SetRow, TypeOK
      <4>2. jobs'[j].owner = Recoverer(u)
        BY <2>1, <4>1 DEF RecoveryClaimed, Row
      <4> QED
        BY <1>3, <2>1, <3>3, <4>2, Owners DEF Owned
    <3>4. SameLease(j) \/ RunsOut(j)
      BY <1>0, <2>1, <3>1, <3>2, <3>3, LeaseChanges
    <3> QED
      BY <1>3, <3>4 DEF SameLease, KeepsLease, RunsOut, Owned
  <2>3. c \in containers
    <3>1. ASSUME NEW u \in Worker, DaemonStarts(u), c = Key(u) PROVE FALSE
      <4>1. Holds(u) /\ proc[u].job = j
        BY <1>3, <3>1, Launch
      <4> QED
        BY <2>2, <4>1, Owners DEF Holds, Owned, Mine
    <3> QED
      BY <1>0, <3>1, ContainerChanges, Launch
  <2> QED
    BY <1>0, <1>3, <2>2, <2>3 DEF Exclusive, Known
<1> QED
  BY <1>0, <1>1, <1>2, <1>3, RecChanges DEF Claiming

LEMMA SingleStep == ASSUME Context PROVE Single'
<1>0. TypeOK /\ [Next]_vars /\ Single
  BY DEF Context, IInv, Exclusive
<1>1. ASSUME NEW u \in Worker, DaemonStarts(u) PROVE Single'
  BY <1>0, <1>1, Launch DEF Single
<1> QED
  BY <1>0, <1>1, ContainerChanges DEF Single

-----------------------------------------------------------------------------
LEMMA HeldInit == Init => HeldInv
<1> SUFFICES ASSUME Init PROVE Exclusive
  BY DEF HeldInv
<1>1. \A w \in Worker : proc[w].pc = "off" /\ proc[w].pc \notin Busy /\ rec[w].phase = "off"
  BY Places DEF Init, At, RecOff
<1>2. Watchers /\ Departed /\ Known
  BY <1>1 DEF Watchers, Watching, Departed, Known
<1>3. HeldByJob /\ Single /\ QueuedFree
  BY DEF Init, HeldByJob, Single, QueuedFree, QueuedRow
<1> QED
  BY <1>2, <1>3 DEF Exclusive

LEMMA HeldInvStep == IInv /\ HeldInv /\ [Next]_vars => HeldInv'
<1> SUFFICES ASSUME IInv, HeldInv, [Next]_vars, stalls' = 0 PROVE Exclusive'
  BY DEF HeldInv
<1>1. Context
  BY StallsStay DEF Context, HeldInv, IInv
<1> QED
  BY <1>1, WatchersStep, DepartedStep, HeldStep, QueuedStep, KnownStep, SingleStep DEF Exclusive

LEMMA AlwaysHeld == Spec => []HeldInv
<1>1. IInv /\ HeldInv /\ [Next]_vars => HeldInv'
  BY HeldInvStep
<1> QED
  BY <1>1, HeldInit, IInvInit, IInvStep, PTL DEF Spec

\* Two attempts of one job never have containers at the same time, however processes
\* overlap, die, are restarted or lose their connection to Docker, as long as none of
\* them stalls for longer than its lease.
THEOREM OneContainerEachJob == Spec => []OneContainerPerJob
<1>1. HeldInv => OneContainerPerJob
  BY DEF HeldInv, Exclusive, Single, OneContainerPerJob
<1> QED
  BY <1>1, AlwaysHeld, PTL

\* A container that outlives the process that started it belongs to a job that still has
\* a lease, so that its expiry brings recovery, which stops it; under the same condition.
THEOREM ContainersNeverLeak == Spec => []NoLeakedContainer
<1>1. HeldInv => NoLeakedContainer
  BY DEF HeldInv, Exclusive, HeldByJob, NoLeakedContainer
<1> QED
  BY <1>1, AlwaysHeld, PTL

-----------------------------------------------------------------------------
(* The rows implement JobLifecycle.                                        *)

Stage(row) == IF row.status \in {"validating", "running"} THEN "active" ELSE row.status

\* What a statement may do to a job, seen from outside; ending it with a render result
\* is left to the transaction that publishes.
Stays(r, s)     == Stage(s) = Stage(r) /\ s.cancel = r.cancel
Begins(r, s)    == Stage(r) = "queued" /\ Stage(s) = "active" /\ s.cancel = r.cancel
BeginsAgain(r, s) == Stage(r) = "active" /\ Stage(s) = "queued" /\ s.cancel = r.cancel
Fails(r, s)     == Stage(r) = "active" /\ Stage(s) \in {"failed", "rejected"} /\ s.cancel = r.cancel
Asks(r, s)      == /\ Stage(r) \in {"queued", "active"} /\ s.cancel
                   /\ Stage(s) \in {Stage(r), "canceled"}
                   /\ Stage(r) = "queued" => Stage(s) = "canceled"
Withdraws(r, s) == /\ Stage(r) = "active" /\ r.cancel /\ s.cancel = r.cancel
                   /\ Stage(s) = "canceled"
RowStep(r, s) == \/ Stays(r, s) \/ Begins(r, s) \/ BeginsAgain(r, s) \/ Fails(r, s)
                 \/ Asks(r, s) \/ Withdraws(r, s)

LEMMA RowStatements ==
  ASSUME NEW r \in Row, NEW w
  PROVE  LET active == r.status \in {"validating", "running"} IN
         /\ RowStep(r, r) /\ RowStep(r, Renewed(r)) /\ RowStep(r, ClaimExpired(r))
         /\ RowStep(r, RecoveryClaimed(r, w))
         /\ CanClaim(r) => RowStep(r, Claimed(r, w))
         /\ r.status = "validating" => RowStep(r, Running(r))
         /\ r.status = "canceled" \/ (active /\ r.cancel) => RowStep(r, MarkedCanceled(r))
         /\ active => RowStep(r, Requeued(r)) /\ RowStep(r, Finished(r, "failed"))
                      /\ RowStep(r, Finished(r, "rejected"))
         /\ CanCancel(r) /\ r.status \notin {"reserved", "uploading"} => RowStep(r, Canceled(r))
<1> DEFINE active == r.status \in {"validating", "running"}
<1>1. RowStep(r, r) /\ RowStep(r, Renewed(r)) /\ RowStep(r, ClaimExpired(r))
  BY DEF RowStep, Stays, Stage, Renewed, ClaimExpired, Row
<1>2. RowStep(r, RecoveryClaimed(r, w))
  BY DEF RowStep, Stays, Stage, RecoveryClaimed, Row
<1>3. CanClaim(r) => RowStep(r, Claimed(r, w))
  BY DEF CanClaim, RowStep, Begins, Stage, Claimed, Row
<1>4. r.status = "validating" => RowStep(r, Running(r))
  BY DEF RowStep, Stays, Stage, Running, Row
<1>5. r.status = "canceled" \/ (active /\ r.cancel) => RowStep(r, MarkedCanceled(r))
  BY DEF RowStep, Stays, Withdraws, Stage, MarkedCanceled, Row
<1>6. active => RowStep(r, Requeued(r))
  BY DEF RowStep, BeginsAgain, Stage, Requeued, Row
<1>7. active => RowStep(r, Finished(r, "failed")) /\ RowStep(r, Finished(r, "rejected"))
  BY DEF RowStep, Fails, Stage, Finished, Row
<1>8. CanCancel(r) /\ r.status \notin {"reserved", "uploading"} => RowStep(r, Canceled(r))
  BY DEF CanCancel, Active, RowStep, Asks, Stage, Canceled, Row
<1> QED
  BY <1>1, <1>2, <1>3, <1>4, <1>5, <1>6, <1>7, <1>8

\* No job goes back to its upload, and what recovery found canceled stays canceled.
Uploaded == \A j \in Job : jobs[j].status \notin {"reserved", "uploading"}
WasCanceled == \A w \in Worker :
    rec[w].phase \in Claiming /\ rec[w].was = "canceled" => jobs[rec[w].job].status = "canceled"
PathInv == Uploaded /\ WasCanceled

\* A step changes one job, or it is the transaction that ends a job and publishes.
OneStatement ==
    /\ artifacts' = artifacts
    /\ \/ jobs' = jobs
       \/ \E j \in Job : \E row : SetRow(j, row) /\ RowStep(jobs[j], row)
Ends(w) ==
    /\ proc[w].pc \in Busy /\ Mine(w).status \in {"validating", "running"}
    /\ \E to \in Ended : /\ SetRow(proc[w].job, Finished(Mine(w), to))
                         /\ to \in {"succeeded", "timeout"} => ~Mine(w).cancel
    /\ artifacts' = artifacts \cup {Key(w)}

LEMMA WorkerOne ==
  ASSUME TypeOK, NEW w \in Worker, proc[w].pc \in Busy, UNCHANGED artifacts,
         NEW row, SetRow(proc[w].job, row), RowStep(Mine(w), row)
  PROVE  OneStatement
  BY BusyWorker DEF OneStatement, Mine

LEMMA WorkerRowSteps ==
  ASSUME TypeOK, NEW w \in Worker, proc[w].pc \in Busy
  PROVE  /\ RowStep(Mine(w), Mine(w)) /\ RowStep(Mine(w), Renewed(Mine(w)))
         /\ CanTransition(Mine(w), Lease(w), proc[w].gen, "validating")
              => RowStep(Mine(w), Running(Mine(w)))
                 /\ RowStep(Mine(w), Finished(Mine(w), "rejected"))
         /\ CanMarkCanceled(Mine(w), Lease(w), proc[w].gen) /\ Stopping(Mine(w))
              => RowStep(Mine(w), MarkedCanceled(Mine(w)))
         /\ CanFinishFailure(Mine(w), Lease(w), proc[w].gen)
              => RowStep(Mine(w), Finished(Mine(w), FailureStatus(w)))
<1> DEFINE r == Mine(w)
<1>1. r \in Row
  BY BusyWorker
<1> HIDE DEF r
<1>2. /\ RowStep(r, r) /\ RowStep(r, Renewed(r))
      /\ CanTransition(r, Lease(w), proc[w].gen, "validating")
           => RowStep(r, Running(r)) /\ RowStep(r, Finished(r, "rejected"))
      /\ CanMarkCanceled(r, Lease(w), proc[w].gen) /\ Stopping(r)
           => RowStep(r, MarkedCanceled(r))
      /\ CanFinishFailure(r, Lease(w), proc[w].gen)
           => RowStep(r, Finished(r, FailureStatus(w)))
  BY <1>1, RowStatements DEF CanMarkCanceled, CanTransition, CanFinishFailure,
     FailureStatus, Stopping
<1> QED
  BY <1>2 DEF r

LEMMA StatementSteps ==
  ASSUME TypeOK, PathInv, [Next]_vars
  PROVE  OneStatement \/ \E w \in Worker : Ends(w)
<1>1. ASSUME UNCHANGED <<jobs, artifacts>> PROVE OneStatement
  BY <1>1 DEF OneStatement
<1>2. ASSUME NEW w \in Worker, NEW j \in Job, Claim(w, j) PROVE OneStatement
  <2>1. RowStep(jobs[j], Claimed(jobs[j], w))
    BY <1>2, RowStatements DEF Claim, TypeOK
  <2> QED
    BY <1>2, <2>1 DEF Claim, OneStatement
<1>3. ASSUME NEW w \in Worker, LeaseBeat(w) PROVE OneStatement
  BY <1>1, <1>3, Places, WorkerRowSteps, WorkerOne DEF LeaseBeat
<1>4. ASSUME NEW w \in Worker, Reject(w) PROVE OneStatement
  BY <1>4, Steps, WorkerRowSteps, WorkerOne DEF Reject
<1>5. ASSUME NEW w \in Worker, Run(w) PROVE OneStatement
  BY <1>1, <1>5, Steps, WorkerRowSteps, WorkerOne DEF Run
<1>6. ASSUME NEW w \in Worker, Check(w) PROVE OneStatement
  BY <1>1, <1>6, Steps, WorkerRowSteps, WorkerOne DEF Check
<1>7. ASSUME NEW w \in Worker, Renew(w) PROVE OneStatement
  BY <1>1, <1>7, Steps, WorkerRowSteps, WorkerOne DEF Renew
<1>8. ASSUME NEW w \in Worker, Commit(w) PROVE OneStatement \/ Ends(w)
  <2>1. proc[w].pc \in Busy
    BY <1>8, Steps DEF Commit
  <2>2. CASE UNCHANGED artifacts /\ UNCHANGED jobs
    BY <1>1, <2>2
  <2>3. CASE ~proc[w].lost /\ Holds(w) /\ Stopping(Mine(w))
    BY <1>1, <1>8, <2>1, <2>3, WorkerRowSteps, WorkerOne DEF Commit
  <2>4. CASE /\ ~proc[w].lost /\ Holds(w) /\ ~Stopping(Mine(w))
             /\ CanTransition(Mine(w), Lease(w), proc[w].gen, "running")
    <3>1. proc[w].verdict \in Ended
      BY <1>8, <2>1, BusyWorker DEF Commit, VerdictFits, Ended
    <3> QED
      BY <1>8, <2>1, <2>4, <3>1 DEF Commit, Ends, CanTransition, Stopping
  <2> QED
    BY <1>8, <2>2, <2>3, <2>4 DEF Commit
<1>9. ASSUME NEW w \in Worker, Final(w) PROVE OneStatement
  BY <1>9, Steps, WorkerRowSteps, WorkerOne DEF Final, Stopping
<1>10. ASSUME NEW w \in Worker, FailBegin(w) PROVE OneStatement
  <2>1. proc[w].pc \in Busy /\ UNCHANGED artifacts
    BY <1>10, Steps DEF FailBegin
  <2>2. UNCHANGED jobs \/ \E row : SetRow(proc[w].job, row) /\ RowStep(Mine(w), row)
    BY <1>10, <2>1, WorkerRowSteps DEF FailBegin, Stopping
  <2> QED
    BY <1>1, <2>1, <2>2, WorkerOne
<1>11. ASSUME NEW w \in Worker, FailRenew(w) PROVE OneStatement
  BY <1>1, <1>11, Steps, WorkerRowSteps, WorkerOne DEF FailRenew
<1>12. ASSUME NEW w \in Worker, FailCommit(w) PROVE OneStatement \/ Ends(w)
  <2>1. FailureStatus(w) \in Ended \ {"succeeded", "timeout"}
    BY DEF FailureStatus, Ended
  <2> QED
    BY <1>1, <1>12, <2>1, Steps DEF FailCommit, Ends, CanFinishFailure
<1>13. ASSUME NEW w \in Worker, NEW j \in Job, RecClaim(w, j) PROVE OneStatement
  <2>1. RowStep(jobs[j], RecoveryClaimed(jobs[j], w))
    BY RowStatements DEF TypeOK
  <2> QED
    BY <1>1, <1>13, <2>1 DEF RecClaim, OneStatement
<1>14. ASSUME NEW w \in Worker, RecDefer(w) PROVE OneStatement
  <2>1. /\ RowStep(jobs[rec[w].job], jobs[rec[w].job])
        /\ RowStep(jobs[rec[w].job], ClaimExpired(jobs[rec[w].job]))
    BY <1>14, RecJob, RowStatements DEF RecDefer
  <2> QED
    BY <1>14, <2>1, RecJob DEF RecDefer, OneStatement
<1>15. ASSUME NEW w \in Worker, RecFinish(w) PROVE OneStatement
  <2> DEFINE row == jobs[rec[w].job]
  <2>1. row \in Row /\ rec[w].job \in Job /\ (rec[w].was = "canceled" => row.status = "canceled")
    BY <1>15, RecJob DEF RecFinish, PathInv, WasCanceled, Claiming
  <2> HIDE DEF row
  <2>2. RowStep(row, Recovered(w, row))
    BY <2>1, RowStatements DEF Recovered, CanMarkCanceled, CanRecover
  <2> QED
    BY <1>15, <2>1, <2>2 DEF RecFinish, OneStatement, row
<1>16. ASSUME NEW j \in Job, Cancel(j) \/ Expire(j) PROVE OneStatement
  <2>1. /\ CanCancel(jobs[j]) => RowStep(jobs[j], Canceled(jobs[j]))
        /\ RowStep(jobs[j], ClaimExpired(jobs[j]))
    BY RowStatements DEF TypeOK, PathInv, Uploaded
  <2> QED
    BY <1>16, <2>1 DEF Cancel, Expire, OneStatement
<1>17. ASSUME NEW c \in containers, OrphanEnds(c) PROVE OneStatement
  BY <1>1, <1>17 DEF OrphanEnds
<1>18. CASE UNCHANGED vars
  BY <1>1, <1>18 DEF vars
<1>19. ASSUME NEW w \in Worker,
              \/ Start(w) \/ FirstBeat(w) \/ Beat(w) \/ PrepareFails(w) \/ DaemonStarts(w)
              \/ CliFails(w) \/ CleanExit(w) \/ UncleanExit(w) \/ MonitorStops(w)
              \/ StopVerified(w) \/ StopDeferred(w) \/ OutputInvalid(w) \/ Publish(w)
              \/ PublishFails(w) \/ Cleanup(w) \/ CleanupFails(w)
       PROVE  OneStatement
  BY <1>1, <1>19 DEF Start, FirstBeat, Beat, PrepareFails, DaemonStarts, CliFails, CleanExit,
     UncleanExit, MonitorStops, StopVerified, StopDeferred, OutputInvalid, Publish,
     PublishFails, Cleanup, CleanupFails
<1>20. ASSUME NEW w \in Worker,
              \/ FailPublish(w) \/ FailClean(w) \/ RecScan(w) \/ RecList(w) \/ RecStop(w)
              \/ RecDone(w) \/ Crash(w) \/ Stop(w) \/ \E j \in Job : StopWaiting(w, j)
       PROVE  OneStatement
  BY <1>1, <1>20 DEF FailPublish, FailClean, RecScan, RecList, RecStop, RecDone, Crash, Stop,
     StopWaiting
<1>21. CASE Next
  <2>1. ASSUME NEW w \in Worker, Progress(w) PROVE OneStatement \/ Ends(w)
    BY <1>2, <1>5, <1>6, <1>7, <1>8, <1>9, <1>10, <1>11, <1>12, <1>13, <1>15, <1>19, <1>20, <2>1
       DEF Progress
  <2>2. ASSUME NEW w \in Worker, Mishap(w) PROVE OneStatement
    BY <1>4, <1>14, <1>19, <1>20, <2>2 DEF Mishap
  <2> QED
    BY <1>3, <1>16, <1>17, <1>19, <1>21, <2>1, <2>2 DEF Next
<1> QED
  BY <1>18, <1>21

LEMMA PathInit == Init => PathInv
<1> SUFFICES ASSUME Init PROVE PathInv
  OBVIOUS
<1>1. Uploaded
  BY DEF Init, Uploaded, QueuedRow
<1>2. WasCanceled
  BY DEF Init, WasCanceled, RecOff, Claiming
<1> QED
  BY <1>1, <1>2 DEF PathInv

\* Nothing but the end of an upload brings a job into the queue, and a canceled job stays.
LEMMA PathRows ==
  ASSUME TypeOK, PathInv, [Next]_vars, NEW j \in Job
  PROVE  /\ jobs'[j].status \notin {"reserved", "uploading"}
         /\ jobs[j].status = "canceled" => jobs'[j].status = "canceled"
<1>1. jobs[j].status \notin {"reserved", "uploading"}
  BY DEF PathInv, Uploaded
<1>2. ASSUME NEW i \in Job, NEW row, SetRow(i, row), RowStep(jobs[i], row)
      PROVE  /\ jobs'[j].status \notin {"reserved", "uploading"}
             /\ jobs[j].status = "canceled" => jobs'[j].status = "canceled"
  <2>1. CASE i # j
    BY <1>1, <1>2, <2>1 DEF SetRow, TypeOK
  <2>2. CASE i = j
    <3>1. jobs'[j] = row
      BY <1>2, <2>2 DEF SetRow, TypeOK
    <3>2. RowStep(jobs[j], row)
      BY <1>2, <2>2
    <3> QED
      BY <1>1, <3>1, <3>2 DEF RowStep, Stays, Begins, BeginsAgain, Fails, Asks, Withdraws, Stage
  <2> QED
    BY <2>1, <2>2
<1>3. ASSUME NEW w \in Worker, Ends(w)
      PROVE  /\ jobs'[j].status \notin {"reserved", "uploading"}
             /\ jobs[j].status = "canceled" => jobs'[j].status = "canceled"
  <2>1. PICK to \in Ended : SetRow(proc[w].job, Finished(Mine(w), to))
    BY <1>3 DEF Ends
  <2>2. Mine(w) \in Row /\ Mine(w).status # "canceled" /\ proc[w].job \in Job
    BY <1>3, BusyWorker DEF Ends
  <2>3. Finished(Mine(w), to).status = to /\ to \notin {"reserved", "uploading"}
    BY <2>2 DEF Finished, Row, Ended
  <2> QED
    BY <1>1, <2>1, <2>2, <2>3 DEF SetRow, TypeOK, Mine
<1> QED
  BY <1>1, <1>2, <1>3, StatementSteps DEF OneStatement

LEMMA PathStep == TypeOK /\ PathInv /\ [Next]_vars => PathInv'
<1> SUFFICES ASSUME TypeOK, PathInv, [Next]_vars PROVE PathInv'
  OBVIOUS
<1>1. Uploaded'
  BY PathRows DEF Uploaded
<1>2. ASSUME NEW w \in Worker, rec'[w].phase \in Claiming, rec'[w].was = "canceled"
      PROVE  jobs'[rec'[w].job].status = "canceled"
  <2>1. CASE rec'[w] = rec[w]
    BY <1>2, <2>1, RecJob, PathRows DEF PathInv, WasCanceled, Claiming
  <2>2. ASSUME NEW j \in Job, rec'[w].job = j, rec'[w].was = jobs[j].status
        PROVE  jobs'[rec'[w].job].status = "canceled"
    BY <1>2, <2>2, PathRows
  <2>3. CASE RecList(w) \/ RecStop(w)
    <3>1. /\ rec[w].phase \in Claiming /\ rec'[w].job = rec[w].job /\ rec'[w].was = rec[w].was
      BY <2>3 DEF RecList, RecStop, TypeOK, RecState, Rec, Claiming
    <3> QED
      BY <1>2, <3>1, RecJob, PathRows DEF PathInv, WasCanceled, Claiming
  <2> QED
    BY <1>2, <2>1, <2>2, <2>3, RecChanges
<1> QED
  BY <1>1, <1>2 DEF PathInv, WasCanceled


\* The mapping of JobLease, by name.
StageOf == [j \in Job |-> IF jobs[j].status \in {"validating", "running"}
                          THEN "active" ELSE jobs[j].status]
AskedOf == [j \in Job |-> jobs[j].cancel]
PublishedOf == [j \in Job |-> HasArtifacts(j)]
Now == <<StageOf, AskedOf, PublishedOf>>

LEMMA Mapping ==
  ASSUME NEW j \in Job
  PROVE  /\ Lifecycle!Begin(j) <=> /\ StageOf[j] = "queued"
                                   /\ StageOf' = [StageOf EXCEPT ![j] = "active"]
                                   /\ UNCHANGED <<AskedOf, PublishedOf>>
         /\ Lifecycle!Again(j) <=> /\ StageOf[j] = "active"
                                   /\ StageOf' = [StageOf EXCEPT ![j] = "queued"]
                                   /\ UNCHANGED <<AskedOf, PublishedOf>>
         /\ Lifecycle!End(j) <=>
              /\ StageOf[j] = "active"
              /\ \E s \in Lifecycle!Results \cup Lifecycle!Failures :
                   /\ s = "succeeded" \/ s = "timeout" => ~AskedOf[j]
                   /\ StageOf' = [StageOf EXCEPT ![j] = s]
                   /\ \/ PublishedOf' = [PublishedOf EXCEPT ![j] = TRUE]
                      \/ s \in Lifecycle!Failures /\ UNCHANGED PublishedOf
              /\ UNCHANGED AskedOf
         /\ Lifecycle!Ask(j) <=>
              /\ StageOf[j] \in {"queued", "active"}
              /\ AskedOf' = [AskedOf EXCEPT ![j] = TRUE]
              /\ StageOf' \in {StageOf, [StageOf EXCEPT ![j] = "canceled"]}
              /\ StageOf[j] = "queued" => StageOf'[j] = "canceled"
              /\ UNCHANGED PublishedOf
         /\ Lifecycle!Withdraw(j) <=> /\ StageOf[j] = "active" /\ AskedOf[j]
                                      /\ StageOf' = [StageOf EXCEPT ![j] = "canceled"]
                                      /\ UNCHANGED <<AskedOf, PublishedOf>>
  BY DEF Lifecycle!Begin, Lifecycle!Again, Lifecycle!End, Lifecycle!Ask, Lifecycle!Withdraw,
     StageOf, AskedOf, PublishedOf

LEMMA LifecycleInit == Init => Lifecycle!Init
<1> SUFFICES ASSUME Init PROVE Lifecycle!Init
  OBVIOUS
<1>1. StageOf = [j \in Job |-> "queued"] /\ AskedOf = [j \in Job |-> FALSE]
  BY DEF Init, QueuedRow, StageOf, AskedOf
<1>2. PublishedOf = [j \in Job |-> FALSE]
  <2>1. \A j \in Job : PublishedOf[j] = FALSE
    BY DEF Init, HasArtifacts, PublishedOf
  <2>2. PublishedOf = [j \in Job |-> PublishedOf[j]]
    BY DEF PublishedOf
  <2> QED
    BY <2>1, <2>2
<1> QED
  BY <1>1, <1>2 DEF Lifecycle!Init, StageOf, AskedOf, PublishedOf

\* A statement on one job changes the mapped state of that job only.
LEMMA MappedRow ==
  ASSUME TypeOK, TypeOK', NEW j \in Job, NEW row, SetRow(j, row)
  PROVE  /\ StageOf' = [StageOf EXCEPT ![j] = Stage(row)]
         /\ AskedOf' = [AskedOf EXCEPT ![j] = row.cancel]
         /\ StageOf[j] = Stage(jobs[j]) /\ AskedOf[j] = jobs[j].cancel
         /\ row \in Row
<1>1. jobs' = [jobs EXCEPT ![j] = row] /\ jobs' \in [Job -> Row] /\ jobs \in [Job -> Row]
  BY DEF SetRow, TypeOK
<1>2. row \in Row
  BY <1>1
<1>3. StageOf' = [StageOf EXCEPT ![j] = Stage(row)]
  BY <1>1 DEF StageOf, Stage
<1>4. AskedOf' = [AskedOf EXCEPT ![j] = row.cancel]
  BY <1>1 DEF AskedOf
<1>5. StageOf[j] = Stage(jobs[j]) /\ AskedOf[j] = jobs[j].cancel
  BY DEF StageOf, AskedOf, Stage
<1> QED
  BY <1>2, <1>3, <1>4, <1>5

LEMMA LifecycleRow ==
  ASSUME TypeOK, TypeOK', NEW j \in Job, NEW row, SetRow(j, row), RowStep(jobs[j], row),
         artifacts' = artifacts
  PROVE  [Lifecycle!Next]_(Lifecycle!vars)
<1> DEFINE r == jobs[j]
<1>1. /\ StageOf' = [StageOf EXCEPT ![j] = Stage(row)]
      /\ AskedOf' = [AskedOf EXCEPT ![j] = row.cancel]
      /\ StageOf[j] = Stage(r) /\ AskedOf[j] = r.cancel
      /\ row.cancel \in BOOLEAN
  BY MappedRow DEF Row
<1>2. PublishedOf' = PublishedOf
  BY DEF PublishedOf, HasArtifacts
<1>3. /\ StageOf = [StageOf EXCEPT ![j] = StageOf[j]]
      /\ AskedOf = [AskedOf EXCEPT ![j] = AskedOf[j]]
  BY DEF StageOf, AskedOf
<1>4. RowStep(r, row)
  OBVIOUS
<1> HIDE DEF r
<1>5. CASE Stays(r, row)
  <2>1. Now' = Now
    BY <1>1, <1>2, <1>3, <1>5 DEF Now, Stays
  <2> QED
    BY <2>1 DEF Now, StageOf, AskedOf, PublishedOf, Lifecycle!vars
<1>6. CASE Begins(r, row)
  <2>1. Lifecycle!Begin(j)
    BY <1>1, <1>2, <1>3, <1>6, Mapping DEF Begins
  <2> QED
    BY <2>1 DEF Lifecycle!Next
<1>7. CASE BeginsAgain(r, row)
  <2>1. Lifecycle!Again(j)
    BY <1>1, <1>2, <1>3, <1>7, Mapping DEF BeginsAgain
  <2> QED
    BY <2>1 DEF Lifecycle!Next
<1>8. CASE Fails(r, row)
  <2>1. Lifecycle!End(j)
    BY <1>1, <1>2, <1>3, <1>8, Mapping DEF Fails, Lifecycle!Failures
  <2> QED
    BY <2>1 DEF Lifecycle!Next
<1>9. CASE Asks(r, row)
  <2>1. StageOf'[j] = Stage(row)
    BY <1>1 DEF StageOf
  <2>2. Lifecycle!Ask(j)
    BY <1>1, <1>2, <1>3, <1>9, <2>1, Mapping DEF Asks
  <2> QED
    BY <2>2 DEF Lifecycle!Next
<1>10. CASE Withdraws(r, row)
  <2>1. Lifecycle!Withdraw(j)
    BY <1>1, <1>2, <1>3, <1>10, Mapping DEF Withdraws
  <2> QED
    BY <2>1 DEF Lifecycle!Next
<1> QED
  BY <1>4, <1>5, <1>6, <1>7, <1>8, <1>9, <1>10 DEF RowStep

LEMMA LifecycleEnd ==
  ASSUME TypeOK, TypeOK', NEW w \in Worker, Ends(w)
  PROVE  Lifecycle!Next
<1> PICK j : j = proc[w].job
  OBVIOUS
<1>1. j \in Job /\ Mine(w) \in Row /\ Stage(Mine(w)) = "active" /\ proc[w].pc \in Busy
  BY BusyWorker DEF Ends, Stage
<1>2. PICK to \in Ended : /\ SetRow(j, Finished(Mine(w), to))
                          /\ to \in {"succeeded", "timeout"} => ~Mine(w).cancel
  BY DEF Ends
<1>3. /\ Stage(Finished(Mine(w), to)) = to
      /\ Finished(Mine(w), to).cancel = Mine(w).cancel
  BY <1>1 DEF Finished, Row, Stage, Ended
<1>4. PublishedOf' = [PublishedOf EXCEPT ![j] = TRUE]
  <2>1. artifacts' = artifacts \cup {<<j, proc[w].gen>>}
    BY DEF Ends, Key
  <2>2. PublishedOf'[j] = TRUE
    <3>1. <<j, proc[w].gen>> \in artifacts' /\ <<j, proc[w].gen>>[1] = j
      BY <2>1
    <3>2. \E a \in artifacts' : a[1] = j
      BY <3>1, Zenon
    <3> QED
      BY <1>1, <3>2 DEF PublishedOf, HasArtifacts
  <2>3. ASSUME NEW i \in Job \ {j} PROVE PublishedOf'[i] = PublishedOf[i]
    BY <2>1 DEF PublishedOf, HasArtifacts
  <2>4. PublishedOf' = [i \in Job |-> PublishedOf'[i]] /\ DOMAIN PublishedOf = Job
    BY DEF PublishedOf
  <2> QED
    BY <1>1, <2>2, <2>3, <2>4
<1>5. /\ StageOf' = [StageOf EXCEPT ![j] = to] /\ AskedOf' = AskedOf
      /\ StageOf[j] = "active" /\ AskedOf[j] = Mine(w).cancel
  <2>1. AskedOf = [AskedOf EXCEPT ![j] = AskedOf[j]]
    BY DEF AskedOf
  <2> QED
    BY <1>1, <1>2, <1>3, <2>1, MappedRow DEF Mine
<1>6. to \in Lifecycle!Results \cup Lifecycle!Failures
  BY DEF Ended, Lifecycle!Results, Lifecycle!Failures
<1>7. Lifecycle!End(j)
  BY <1>1, <1>2, <1>4, <1>5, <1>6, Mapping
<1> QED
  BY <1>1, <1>7 DEF Lifecycle!Next

LEMMA LifecycleStep ==
  TypeOK /\ TypeOK' /\ PathInv /\ [Next]_vars => [Lifecycle!Next]_(Lifecycle!vars)
<1> SUFFICES ASSUME TypeOK, TypeOK', PathInv, [Next]_vars
             PROVE  [Lifecycle!Next]_(Lifecycle!vars)
  OBVIOUS
<1>1. CASE jobs' = jobs /\ artifacts' = artifacts
  BY <1>1 DEF Lifecycle!vars, HasArtifacts
<1>2. CASE \E w \in Worker : Ends(w)
  BY <1>2, LifecycleEnd
<1> QED
  BY <1>1, <1>2, StatementSteps, LifecycleRow DEF OneStatement

\* The renderer keeps the promise of JobLifecycle: whatever workers, containers, crashes and
\* recoveries do to a row, seen as a job it is worked on until it ends, ends once, publishes
\* in the very transaction that ends it, and after a cancel request with no render result.
THEOREM RowsImplementLifecycle == Spec => ImplementsLifecycle
<1>1. Init /\ [][Next]_vars => Lifecycle!Init /\ [][Lifecycle!Next]_(Lifecycle!vars)
  BY TypeInit, TypeStep, PathInit, PathStep, LifecycleInit, LifecycleStep, PTL
<1> QED
  BY <1>1, PTL DEF Spec, ImplementsLifecycle, Lifecycle!Spec

=============================================================================
