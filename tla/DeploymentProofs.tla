-------------------------- MODULE DeploymentProofs --------------------------
(***************************************************************************)
(* Theorems about the two sides of a deployment.                           *)
(*                                                                         *)
(* UpdateDeployment: what the journal and the recovery points promise, for *)
(* any number of releases, operations, faults and retained points, and any *)
(* manifests.  TypeOK is inductive.  The three promises follow from it and *)
(* `Recovery`, which relates the journal, the store and the units to where *)
(* the helper is.                                                          *)
(*                                                                         *)
(* What the installed release can rely on of the schema is not true in     *)
(* general.  It is proved where the manifests are true (`Declared`) and at *)
(* most one deployment is left out of the manager's state: `SchemaInv`     *)
(* relates what the manager knows, what is still asked of the helper, and  *)
(* what the helper has done.                                               *)
(*                                                                         *)
(* WorkerDemand, instantiated as `Wake`, sees of a deployment only what it *)
(* stops and restores: for any set of jobs, any backlog of the socket, and *)
(* any number of faults, deployments and maintenance passes the engine is  *)
(* kept while it is needed, a stopped worker stays stopped, and a worker   *)
(* that goes to sleep leaves a hint for what it left undone.  TypeOK is    *)
(* inductive; `Locks`, `Stops` and `Hints` are the strengthening of the    *)
(* three invariants.                                                       *)
(***************************************************************************)
EXTENDS UpdateDeployment, WorkerDemandState, TLAPS

-----------------------------------------------------------------------------
(* The inductive invariant.                                                *)

\* The journal names every unit, or there is nothing to restore.
Journalled == IF journal.pending THEN journal.units = Units
                                 ELSE journal = NoJournal /\ up = Units

\* The helper between the record of the units and the end of the journal.
Deploying == {"timers", "services", "point", "recorded", "deploying", "activating",
              "restoring", "closing"}
HelperJournals ==
    /\ helper.pc = "preflight" => ~journal.pending
    /\ helper.pc \in Deploying => journal.pending /\ helper.original = Units
    /\ helper.pc = "closing" => up = Units

\* What is stopped stays so until the release has been switched.
Quiet == /\ helper.pc = "services" => "timers" \notin up
         /\ helper.pc \in {"point", "recorded", "deploying"} => up = {}

\* Which point the journal names, and that it is in the store.
PointNamed ==
    /\ helper.pc \in {"reviewing", "preflight", "timers", "services", "point"}
         => helper.point = 0
    /\ helper.pc \in {"timers", "services", "point", "recorded"} => journal.point = 0
    /\ helper.pc \in {"deploying", "activating", "restoring", "closing"}
         => journal.point = helper.point

\* The point just made holds what the deployment will replace.
Fresh(id) == \E p \in points : p.id = id /\ p.data = data /\ p.release = current
PointFresh == helper.pc \in {"recorded", "deploying"} => Fresh(helper.point)

\* Requests and the helper have a target: their operation has been prepared.
Prepared ==
    /\ manager.pc \in {"preparing", "waiting", "rollingBack"}
         => operation.id # 0 /\ manager.target # 0 /\ manager.before # 0
    /\ helper.pc # "off" => helper.target # 0

Recovery == Journalled /\ HelperJournals /\ Quiet /\ PointNamed /\ PointFresh /\ PendingPointKept
Typed == TypeOK /\ Prepared
IInv == Typed /\ Recovery

LEMMA Bounds ==
  /\ MaxRelease \in Nat /\ MaxRelease > 0 /\ MaxOps \in Nat /\ MaxWrites \in Nat
  /\ MaxUnrecorded \in Nat /\ MaxFaults \in Nat
  BY UpdateAssumption

LEMMA InitTyped == Init => Typed
  BY Bounds DEF Init, Typed, TypeOK, Prepared, NoHelper, NoJournal, Idle, Units, Releases,
     Manager, Operation, Previous, Requested, Helper, Journal, Point, Count, Verb

LEMMA InitRecovers == Init => Recovery
  BY DEF Init, Recovery, Journalled, HelperJournals, Quiet, PointNamed,
     PointFresh, PendingPointKept, Deploying, NoHelper, NoJournal, Idle, Units

-----------------------------------------------------------------------------
(* Writing one record.                                                     *)

LEMMA HelperGoes ==
  ASSUME helper \in Helper, NEW pc, Goto(pc),
         pc \in {"preflight", "services", "point", "deploying", "activating",
                "restoring", "closing"}
  PROVE  /\ helper' \in Helper /\ helper'.pc = pc /\ helper'.target = helper.target
         /\ helper'.original = helper.original /\ helper'.point = helper.point
         /\ helper'.completed = helper.completed /\ lock' = lock
  BY DEF Goto, Helper

LEMMA ResultTyped ==
  ASSUME manager \in Manager, NEW op, NEW result \in {"ok", "failed", "review"},
         Result(op, result)
  PROVE  /\ manager' \in Manager /\ manager'.pc = manager.pc
         /\ manager'.target = manager.target /\ manager'.before = manager.before
  BY DEF Result, Manager

LEMMA NoHelperTyped == NoHelper \in Helper /\ NoHelper.pc = "off"
  BY Bounds DEF NoHelper, Helper, Verb, Units

LEMMA NoJournalTyped == NoJournal \in Journal
  BY DEF NoJournal, Journal

LEMMA Exits ==
  ASSUME Typed, NEW result \in {"ok", "failed", "review"}, Exit(result)
  PROVE  /\ lock' \in {"free", "manager", "helper"} /\ manager' \in Manager
         /\ operation' \in Operation /\ state' \in Previous /\ requests' \subseteq Requested
         /\ helper' \in Helper /\ Prepared' /\ helper'.pc = "off"
  BY ResultTyped, NoHelperTyped DEF Typed, TypeOK, Prepared, Exit

LEMMA IdleTyped == Idle \in Manager /\ Idle.pc = "idle"
  BY Bounds DEF Idle, Manager, Verb

LEMMA Finishes ==
  ASSUME Typed, NEW status \in {"none", "running", "succeeded", "failed"}, Finish(status)
  PROVE  manager' \in Manager /\ manager'.pc = "idle" /\ operation' \in Operation
  BY IdleTyped DEF Typed, TypeOK, Finish, Operation

LEMMA Goes ==
  ASSUME Typed, NEW pc \in {"down", "recovering"}, manager' = [Idle EXCEPT !.pc = pc]
  PROVE  manager' \in Manager /\ manager'.pc = pc
  BY IdleTyped DEF Manager

LEMMA Counts ==
  ASSUME Typed, Fault \/ Unrecorded \/ Mishap
  PROVE  count' \in Count
<1>1. CASE Fault
  BY <1>1, Bounds DEF Typed, TypeOK, Fault, Count
<1>2. CASE Unrecorded
  BY <1>2, Bounds DEF Typed, TypeOK, Unrecorded, Count
<1> QED
  BY <1>1, <1>2 DEF Mishap

LEMMA Starts ==
  ASSUME Typed, NEW units \in SUBSET Units, AllStart(units) \/ SomeStart(units)
  PROVE  up' \subseteq Units /\ count' \in Count
<1>1. CASE AllStart(units)
  BY <1>1 DEF Typed, TypeOK, AllStart
<1>2. CASE SomeStart(units)
  BY <1>2, Counts DEF Typed, TypeOK, SomeStart
<1> QED
  BY <1>1, <1>2

LEMMA PointsKept ==
  ASSUME Typed, NEW protected, points' \in Kept(protected)
  PROVE  points' \subseteq Point
  BY DEF Typed, TypeOK, Kept

LEMMA Migrates == ASSUME Typed, Migrated PROVE schema' \in Releases
  BY DEF Typed, TypeOK, Migrated, Later

LEMMA Requests ==
  ASSUME Typed, NEW verb \in Verb, NEW target \in Releases, Request(verb, target),
         operation.id # 0
  PROVE  requests' \subseteq Requested
<1>1. [op |-> operation.id, verb |-> verb, target |-> target, expected |-> current]
        \in Requested
  BY Bounds DEF Typed, TypeOK, Operation, Requested
<1> QED
  BY <1>1 DEF Typed, TypeOK, Request

-----------------------------------------------------------------------------
(* Types: one step per action.                                             *)

LEMMA StartTyped ==
  ASSUME Typed, NEW verb \in Verb, NEW target \in Releases, StartOperation(verb, target)
  PROVE  Typed'
<1>1. manager' \in Manager /\ manager'.target = target /\ manager'.before = current
  <2>1. manager' = [pc |-> "preparing", verb |-> verb, target |-> target,
                    before |-> current, result |-> "none"]
    BY DEF StartOperation, Idle
  <2> QED
    BY <2>1, Bounds DEF Typed, TypeOK, Manager, Releases
<1>2. operation' \in Operation /\ operation'.id # 0
  BY Bounds DEF Typed, TypeOK, StartOperation, Operation
<1>3. target # 0 /\ current # 0
  BY Bounds DEF Typed, TypeOK, Releases
<1> QED
  BY <1>1, <1>2, <1>3 DEF Typed, TypeOK, Prepared, StartOperation, Host, Store

LEMMA BeginTyped == ASSUME Typed, NEW r \in requests, BeginHelper(r) PROVE Typed'
<1>1. r \in Requested
  BY DEF Typed, TypeOK
<1>2. r.op \in 0..MaxOps /\ r.verb \in Verb /\ r.target \in 0..MaxRelease
      /\ r.target # 0 /\ r.expected \in 0..MaxRelease
  BY <1>1, Bounds DEF Requested, Releases
<1>3. helper' \in Helper /\ helper'.target = r.target
  BY <1>2, NoHelperTyped DEF BeginHelper, Helper
<1> QED
  BY <1>2, <1>3 DEF Typed, TypeOK, Prepared, BeginHelper, Host, Store

LEMMA RefuseTyped == ASSUME Typed, NEW r \in requests, RefuseRequest(r) PROVE Typed'
<1>1. Result(r.op, "failed")
  BY DEF RefuseRequest
<1> QED
  BY <1>1, ResultTyped DEF Typed, TypeOK, Prepared, RefuseRequest, Host, Store

LEMMA ManagerTyped ==
  ASSUME Typed, ManagerStep \/ LogFails \/ ManagerCrash
  PROVE  Typed'
<1> USE DEF Typed, TypeOK, Prepared, Host, Store
<1>1. CASE PreparationFails
  BY <1>1, Finishes DEF PreparationFails
<1>2. CASE AskHelper
  <2>1. manager.verb \in Verb /\ manager.target \in Releases
    BY <1>2, Bounds DEF AskHelper, Manager, Releases
  <2>2. manager' \in Manager /\ manager'.target = manager.target
        /\ manager'.before = manager.before
    BY <1>2 DEF AskHelper, Manager
  <2>3. requests' \subseteq Requested
    BY <1>2, <2>1, Requests DEF AskHelper
  <2> QED
    BY <1>2, <2>2, <2>3 DEF AskHelper
<1>3. CASE RecordSuccess
  <2>1. state' \in Previous
    BY <1>3 DEF RecordSuccess, Previous, Manager
  <2> QED
    BY <1>3, <2>1, Finishes DEF RecordSuccess
<1>4. CASE RollBackItself
  <2>1. "rollback" \in Verb /\ manager.before \in Releases
    BY <1>4, Bounds DEF RollBackItself, Manager, Releases, Verb
  <2>2. manager' \in Manager /\ manager'.target = manager.target
        /\ manager'.before = manager.before
    BY <1>4 DEF RollBackItself, Manager
  <2>3. requests' \subseteq Requested
    BY <1>4, <2>1, Requests DEF RollBackItself
  <2> QED
    BY <1>4, <2>2, <2>3 DEF RollBackItself
<1>5. CASE RecordFailure
  BY <1>5, Finishes DEF RecordFailure
<1>6. CASE ManagerRecovers
  <2>1. CASE Finish(operation.status) \/ Finish("failed")
    <3>1. operation.status \in {"none", "running", "succeeded", "failed"}
      BY DEF Operation
    <3> QED
      BY <1>6, <2>1, <3>1, Finishes DEF ManagerRecovers
  <2>2. CASE manager' = [Idle EXCEPT !.pc = "recovering"] /\ UNCHANGED operation
    BY <1>6, <2>2, Goes DEF ManagerRecovers
  <2> QED
    BY <1>6, <2>1, <2>2 DEF ManagerRecovers
<1>7. CASE LogFails
  <2>1. manager' \in Manager /\ manager'.pc = manager.pc /\ manager'.target = manager.target
        /\ manager'.before = manager.before
    BY <1>7 DEF LogFails, Manager
  <2> QED
    BY <1>7, <2>1, Counts DEF LogFails
<1>8. CASE ManagerCrash
  BY <1>8, Goes, Counts DEF ManagerCrash
<1> QED
  BY <1>1, <1>2, <1>3, <1>4, <1>5, <1>6, <1>7, <1>8 DEF ManagerStep

LEMMA HelperTyped ==
  ASSUME Typed,
         HelperStep \/ PreflightFails \/ GivesUp \/ DeploymentFails \/ HelperKilled
  PROVE  Typed'
<1> USE DEF Typed, TypeOK, Prepared, Control, Host, Store, At
<1>1. CASE ReviewJournal
  <2>1. journal.units \in SUBSET Units /\ journal' \in Journal
    BY <1>1, NoJournalTyped DEF ReviewJournal, Journal
  <2>2. up' \subseteq Units /\ count' \in Count
    BY <1>1, <2>1, Starts DEF ReviewJournal
  <2>3. CASE Goto("preflight") /\ UNCHANGED Control
    BY <1>1, <2>1, <2>2, <2>3, HelperGoes DEF ReviewJournal
  <2>4. UNCHANGED <<points, data, current, schema>>
    BY <1>1 DEF ReviewJournal
  <2>5. CASE Exit("review")
    BY <2>1, <2>2, <2>4, <2>5, Exits
  <2> QED
    BY <1>1, <2>3, <2>5 DEF ReviewJournal
<1>2. CASE RecordUnits
  <2>1. helper' \in Helper /\ helper'.target = helper.target
    BY <1>2 DEF RecordUnits, Helper
  <2>2. journal' \in Journal
    BY <1>2 DEF RecordUnits, Journal
  <2> QED
    BY <1>2, <2>1, <2>2 DEF RecordUnits
<1>3. CASE StopTimers
  BY <1>3, HelperGoes DEF StopTimers
<1>4. CASE StopServices
  BY <1>4, HelperGoes DEF StopServices
<1>5. CASE CreatePoint
  <2>1. count.points + 1 \in Nat /\ count' \in Count
    BY <1>5 DEF CreatePoint, Count
  <2>2. helper' \in Helper /\ helper'.target = helper.target
    <3>1. helper' = [helper EXCEPT !.pc = "recorded", !.point = count.points + 1]
      BY <1>5 DEF CreatePoint
    <3> QED
      BY <2>1, <3>1 DEF Helper
  <2>3. [id |-> count.points + 1, data |-> data, release |-> current] \in Point
    BY <2>1 DEF Point
  <2>4. points' \subseteq Point
    BY <1>5, <2>3 DEF CreatePoint, Collected, Kept
  <2> QED
    BY <1>5, <2>1, <2>2, <2>4 DEF CreatePoint
<1>6. CASE RecordPoint
  <2>1. journal' \in Journal
    BY <1>6 DEF RecordPoint, Journal, Helper
  <2> QED
    BY <1>6, <2>1, HelperGoes DEF RecordPoint
<1>7. CASE SwitchRelease
  <2>1. helper.target \in Releases
    BY <1>7, Bounds DEF SwitchRelease, Helper, Releases
  <2> QED
    BY <1>7, <2>1, HelperGoes DEF SwitchRelease
<1>8. CASE Activate
  <2>1. helper' \in Helper /\ helper'.target = helper.target
    BY <1>8 DEF Activate, Helper
  <2>2. schema' \in Releases
    BY <1>8 DEF Activate, Later
  <2> QED
    BY <1>8, <2>1, <2>2 DEF Activate
<1>9. CASE Restore
  <2>1. up' \subseteq Units /\ count' \in Count
    BY <1>9, Starts DEF Restore, Helper
  <2>2. CASE Goto("closing") /\ UNCHANGED Control
    BY <1>9, <2>1, <2>2, HelperGoes DEF Restore
  <2>3. CASE Exit("review")
    BY <1>9, <2>1, <2>3, Exits DEF Restore
  <2> QED
    BY <1>9, <2>2, <2>3 DEF Restore
<1>10. CASE CloseJournal
  <2>1. journal' \in Journal
    BY <1>10, NoJournalTyped DEF CloseJournal
  <2>3. points' \subseteq Point
    BY <1>10, PointsKept DEF CloseJournal
  <2>2. Exit("ok") \/ Exit("failed") \/ Exit("review")
    BY <1>10 DEF CloseJournal
  <2> QED
    BY <1>10, <2>1, <2>2, <2>3, Exits DEF CloseJournal
<1>11. CASE PreflightFails
  BY <1>11, Exits DEF PreflightFails
<1>12. CASE GivesUp
  BY <1>12, HelperGoes, PointsKept DEF GivesUp
<1>13. CASE DeploymentFails
  BY <1>13, HelperGoes, Counts, Migrates DEF DeploymentFails
<1>14. CASE HelperKilled
  <2>1. up' \subseteq Units
    BY <1>14 DEF HelperKilled
  <2> QED
    BY <1>14, <2>1, Exits, Counts, Migrates DEF HelperKilled
<1> QED
  BY <1>1, <1>2, <1>3, <1>4, <1>5, <1>6, <1>7, <1>8, <1>9, <1>10, <1>11, <1>12, <1>13,
     <1>14 DEF HelperStep

LEMMA HostTyped ==
  ASSUME Typed, TimerFires \/ Write \/ Reboot \/ CollectGarbage \/ Acknowledge
  PROVE  Typed'
<1> USE DEF Typed, TypeOK, Prepared, Control, Host, Store
<1>1. CASE TimerFires
  BY <1>1 DEF TimerFires
<1>2. CASE Write
  BY <1>2, Bounds DEF Write
<1>3. CASE Reboot
  BY <1>3, NoHelperTyped, Goes, Counts DEF Reboot
<1>4. CASE CollectGarbage
  BY <1>4, PointsKept DEF CollectGarbage, Collected
<1>5. CASE Acknowledge
  <2>1. journal.units \in SUBSET Units
    BY <1>5 DEF Journal
  <2>2. journal' \in Journal
    BY <1>5, NoJournalTyped DEF Acknowledge
  <2> QED
    BY <1>5, <2>1, <2>2, Starts DEF Acknowledge
<1> QED
  BY <1>1, <1>2, <1>3, <1>4, <1>5

LEMMA NextTyped == Typed /\ [Next]_vars => Typed'
<1>1. CASE UNCHANGED vars
  BY <1>1 DEF vars, Typed, TypeOK, Prepared
<1> QED
  BY <1>1, StartTyped, BeginTyped, RefuseTyped, ManagerTyped, HelperTyped, HostTyped
     DEF Next

\* Every reachable state of manager, helper, journal, store and host is well typed.
THEOREM UpdatesTyped == Spec => []TypeOK
<1>1. Spec => []Typed
  BY InitTyped, NextTyped, PTL DEF Spec
<1>2. Typed => TypeOK
  BY DEF Typed
<1> QED
  BY <1>1, <1>2, PTL

-----------------------------------------------------------------------------
(* The journal, the store and the units: one step per action.              *)

\* What a step leaves alone that does not touch the host, the store or the helper.
LEMMA OthersRecover ==
  ASSUME Recovery, UNCHANGED helper, UNCHANGED Host, UNCHANGED Store
  PROVE  Recovery'
  BY DEF Recovery, Journalled, HelperJournals, Quiet, PointNamed, PointFresh, Fresh,
     PendingPointKept, Host, Store

\* A helper that is gone has nothing to be right about.
LEMMA GoneRecovers ==
  ASSUME Recovery, helper'.pc = "off", Journalled', PendingPointKept'
  PROVE  Recovery'
  BY DEF Recovery, HelperJournals, Quiet, PointNamed, PointFresh, Deploying

LEMMA PendingKept ==
  ASSUME PendingPointKept, journal' = journal, points' \in Kept(journal.point)
  PROVE  PendingPointKept'
  BY DEF PendingPointKept, Kept

LEMMA BeginRecovers ==
  ASSUME Typed, Recovery, NEW r \in requests, BeginHelper(r)
  PROVE  Recovery'
<1>1. helper'.pc = "reviewing" /\ helper'.point = 0 /\ UNCHANGED Host /\ UNCHANGED Store
  BY DEF BeginHelper, NoHelper
<1> QED
  BY <1>1 DEF Recovery, Journalled, HelperJournals, Quiet, PointNamed, PointFresh, Fresh,
     PendingPointKept, Host, Store, Deploying

LEMMA HelperRecovers ==
  ASSUME Typed, Recovery,
         HelperStep \/ PreflightFails \/ GivesUp \/ DeploymentFails \/ HelperKilled
  PROVE  Recovery'
<1> USE DEF Recovery, Journalled, HelperJournals, Quiet, PointNamed, PendingPointKept,
        Deploying, At, Control, Host, Store
<1> helper \in Helper /\ journal \in Journal /\ up \subseteq Units
  BY DEF Typed, TypeOK
<1>1. CASE ReviewJournal
  <2>1. journal.pending => journal.units = Units
    OBVIOUS
  <2>2. CASE AllStart(journal.units) /\ journal.point = 0 /\ journal' = NoJournal
             /\ Goto("preflight") /\ UNCHANGED <<points, data, current, schema>>
    <3>1. up' = Units
      <4>1. up' = up \cup journal.units
        BY <2>2 DEF AllStart
      <4>2. CASE journal.pending
        BY <2>1, <4>1, <4>2
      <4>3. CASE up = Units /\ journal.units \subseteq Units
        BY <4>1, <4>3
      <4> QED
        BY <4>2, <4>3 DEF Journal
    <3>2. helper'.pc = "preflight" /\ helper'.point = helper.point
      BY <2>2, HelperGoes
    <3>3. journal' = NoJournal /\ ~journal'.pending /\ journal'.point = 0
      BY <2>2 DEF NoJournal
    <3>4. helper.point = 0
      BY <1>1 DEF ReviewJournal
    <3> QED
      BY <3>1, <3>2, <3>3, <3>4 DEF PointFresh
  <2>3. CASE (AllStart(journal.units) \/ SomeStart(journal.units)) /\ Exit("review")
             /\ UNCHANGED journal /\ UNCHANGED <<points, data, current, schema>>
    <3>1. helper'.pc = "off"
      BY <2>3, Exits
    <3>2. up \subseteq up' /\ up' \subseteq Units
      BY <2>3, Starts DEF AllStart, SomeStart, Journal
    <3>3. Journalled'
      BY <2>3, <3>2
    <3>4. PendingPointKept'
      BY <2>3
    <3> QED
      BY <3>1, <3>3, <3>4, GoneRecovers
  <2> QED
    BY <1>1, <2>2, <2>3 DEF ReviewJournal
<1>2. CASE RecordUnits
  <2>1. journal' = [pending |-> TRUE, units |-> Units, point |-> 0]
    BY <1>2 DEF RecordUnits
  <2>2. helper'.pc = "timers" /\ helper'.original = Units /\ helper'.point = helper.point
    BY <1>2 DEF RecordUnits, Helper
  <2>3. helper.point = 0
    BY <1>2 DEF RecordUnits
  <2> QED
    BY <1>2, <2>1, <2>2, <2>3 DEF RecordUnits, PointFresh
<1>3. CASE StopTimers
  BY <1>3, HelperGoes DEF StopTimers, PointFresh
<1>4. CASE StopServices
  <2>1. up' = {}
    BY <1>4 DEF StopServices, Units
  <2> QED
    BY <1>4, <2>1, HelperGoes DEF StopServices, PointFresh
<1>5. CASE CreatePoint
  <2>1. helper'.pc = "recorded" /\ helper'.original = helper.original
        /\ helper'.point = count.points + 1
    <3>1. helper' = [helper EXCEPT !.pc = "recorded", !.point = count.points + 1]
      BY <1>5 DEF CreatePoint
    <3> QED
      BY <3>1 DEF Helper
  <2>2. [id |-> count.points + 1, data |-> data, release |-> current] \in points'
    BY <1>5 DEF CreatePoint
  <2>3. PointFresh'
    BY <1>5, <2>1, <2>2 DEF CreatePoint, PointFresh, Fresh
  <2>4. journal.point = 0 /\ up = {} /\ journal' = journal /\ up' = up
    BY <1>5 DEF CreatePoint
  <2> QED
    BY <1>5, <2>1, <2>3, <2>4 DEF CreatePoint
<1>6. CASE RecordPoint
  <2>1. journal'.point = helper.point /\ journal'.pending = journal.pending
        /\ journal'.units = journal.units
    BY <1>6 DEF RecordPoint, Journal
  <2>2. helper'.pc = "deploying" /\ helper'.point = helper.point
        /\ helper'.original = helper.original
    BY <1>6, HelperGoes DEF RecordPoint
  <2>3. PointFresh' /\ PendingPointKept'
    BY <1>6, <2>1, <2>2 DEF RecordPoint, PointFresh, Fresh
  <2> QED
    BY <1>6, <2>1, <2>2, <2>3 DEF RecordPoint
<1>7. CASE SwitchRelease
  BY <1>7, HelperGoes DEF SwitchRelease, PointFresh
<1>8. CASE Activate
  <2>1. helper'.pc = "restoring" /\ helper'.point = helper.point
        /\ helper'.original = helper.original
    BY <1>8 DEF Activate, Helper
  <2> QED
    BY <1>8, <2>1 DEF Activate, PointFresh
<1>9. CASE Restore
  <2>1. CASE AllStart(helper.original) /\ Goto("closing")
    <3>1. up' = Units
      BY <1>9, <2>1 DEF Restore, AllStart
    <3> QED
      BY <1>9, <2>1, <3>1, HelperGoes DEF Restore, PointFresh
  <2>2. CASE SomeStart(helper.original) /\ Exit("review")
    BY <1>9, <2>2, Exits, GoneRecovers DEF Restore
  <2> QED
    BY <1>9, <2>1, <2>2 DEF Restore
<1>10. CASE CloseJournal
  <2>1. helper'.pc = "off"
    BY <1>10, Exits DEF CloseJournal
  <2>2. Journalled'
    BY <1>10 DEF CloseJournal, NoJournal
  <2>3. PendingPointKept'
    BY <1>10 DEF CloseJournal, NoJournal
  <2> QED
    BY <2>1, <2>2, <2>3, GoneRecovers
<1>11. CASE PreflightFails
  BY <1>11, Exits, GoneRecovers DEF PreflightFails
<1>12. CASE GivesUp
  <2>1. journal.point = 0 /\ helper.point = 0
    BY <1>12 DEF GivesUp
  <2> QED
    BY <1>12, <2>1, HelperGoes DEF GivesUp, PointFresh
<1>13. CASE DeploymentFails
  BY <1>13, HelperGoes DEF DeploymentFails, PointFresh
<1>14. CASE HelperKilled
  BY <1>14, Exits, GoneRecovers DEF HelperKilled
<1> QED
  BY <1>1, <1>2, <1>3, <1>4, <1>5, <1>6, <1>7, <1>8, <1>9, <1>10, <1>11, <1>12, <1>13,
     <1>14 DEF HelperStep

LEMMA HostRecovers ==
  ASSUME Typed, Recovery, TimerFires \/ Write \/ Reboot \/ CollectGarbage \/ Acknowledge
  PROVE  Recovery'
<1> USE DEF Recovery, Journalled, HelperJournals, Quiet, PointNamed, PendingPointKept,
        Deploying, Control, Host, Store
<1>1. CASE TimerFires
  BY <1>1 DEF TimerFires, PointFresh, Fresh
<1>2. CASE Write
  BY <1>2 DEF Write, PointFresh
<1>3. CASE Reboot
  BY <1>3, NoHelperTyped, GoneRecovers DEF Reboot
<1>4. CASE CollectGarbage
  BY <1>4, GoneRecovers DEF CollectGarbage, At, NoJournal
<1>5. CASE Acknowledge
  <2>1. journal.pending => journal.units = Units
    OBVIOUS
  <2>2. up \subseteq up' /\ up' \subseteq Units
    BY <1>5, <2>1, Starts DEF Acknowledge, AllStart, SomeStart, Typed, TypeOK, Journal
  <2>3. Journalled' /\ PendingPointKept'
    BY <1>5, <2>1, <2>2 DEF Acknowledge, AllStart, NoJournal
  <2> QED
    BY <1>5, <2>3, GoneRecovers DEF Acknowledge, At
<1> QED
  BY <1>1, <1>2, <1>3, <1>4, <1>5

LEMMA NextRecovers == Typed /\ Recovery /\ [Next]_vars => Recovery'
<1> SUFFICES ASSUME Typed, Recovery, [Next]_vars
             PROVE  Recovery'
  OBVIOUS
<1>1. CASE UNCHANGED <<helper, up, data, current, schema, journal, points>>
  BY <1>1, OthersRecover DEF Host, Store
<1>2. CASE \E r \in requests : BeginHelper(r)
  BY <1>2, BeginRecovers
<1>3. ASSUME ManagerStep \/ LogFails \/ ManagerCrash
              \/ (\E r \in requests : RefuseRequest(r))
              \/ (\E verb \in Verb, target \in Releases : StartOperation(verb, target))
      PROVE  UNCHANGED <<helper, up, data, current, schema, journal, points>>
  BY <1>3 DEF ManagerStep, PreparationFails, AskHelper, RecordSuccess, RollBackItself,
     RecordFailure, ManagerRecovers, LogFails, ManagerCrash, RefuseRequest,
     StartOperation, Host, Store
<1> QED
  BY <1>1, <1>2, <1>3, HelperRecovers, HostRecovers DEF Next, vars

LEMMA Invariant == Spec => []IInv
<1>1. Init => IInv
  BY InitTyped, InitRecovers DEF IInv
<1>2. IInv /\ [Next]_vars => IInv'
  BY NextTyped, NextRecovers DEF IInv
<1> QED
  BY <1>1, <1>2, PTL DEF Spec

-----------------------------------------------------------------------------
(* The theorems.                                                           *)

\* A unit that a deployment stopped runs again or is named by the journal, whatever
\* kill, crash, reboot or failed start comes in between (withQuiescedRecovery writes
\* the journal before the first stop and clears it after the last start).
THEOREM UnitsAlwaysRemembered == Spec => []UnitsRemembered
<1>1. IInv => UnitsRemembered
  BY DEF IInv, Recovery, Journalled, UnitsRemembered
<1> QED
  BY <1>1, Invariant, PTL

\* No collection, of the deployment's own capacity or of the gc verb, takes the point
\* a pending journal names.
THEOREM PendingPointsKept == Spec => []PendingPointKept
<1>1. IInv => PendingPointKept
  BY DEF IInv, Recovery
<1> QED
  BY <1>1, Invariant, PTL

\* The release changes only over a point that holds the data and the release replaced.
THEOREM PointsHoldWhatTheyReplace == Spec => PointHoldsWhatItReplaces
<1> DEFINE Held == \E p \in points : p.id = journal.point /\ p.data = data /\ p.release = current
<1>1. IInv /\ [Next]_vars /\ current' # current => Held
  <2> SUFFICES ASSUME IInv, [Next]_vars, current' # current
               PROVE  Held
    OBVIOUS
  <2>1. SwitchRelease
    BY DEF Next, vars, ManagerStep, PreparationFails, AskHelper, RecordSuccess,
       RollBackItself, RecordFailure, ManagerRecovers, LogFails, ManagerCrash,
       RefuseRequest, BeginHelper, StartOperation, HelperStep, ReviewJournal, RecordUnits,
       StopTimers, StopServices, CreatePoint, RecordPoint, Activate, Restore,
       CloseJournal, PreflightFails, GivesUp, DeploymentFails, HelperKilled, TimerFires,
       Write, Reboot, CollectGarbage, Acknowledge, Host
  <2>2. helper.pc = "deploying"
    BY <2>1 DEF SwitchRelease, At
  <2> QED
    BY <2>2 DEF IInv, Recovery, PointFresh, Fresh, PointNamed
<1> QED
  BY <1>1, Invariant, PTL DEF Spec, PointHoldsWhatItReplaces

-----------------------------------------------------------------------------
(* The schema.  Two deployments that the manager left unrecorded can leave *)
(* it with a previous release it must not go back to (the run `rollback`). *)
(* With at most one of them, and manifests that keep their word (Declared),*)
(* the installed release always runs on the schema.                        *)

\* Every release between the two can run on its successors' schema.
Clear(a, b) == \A r \in Releases : a < r /\ r < b => r \in Compatible

\* A release that declares itself compatible with a rollback accepts no older source than
\* one to which the rollback is safe: "raise minimumSourceVersion whenever skipping older
\* releases would be unsafe" (MIGRATIONS.md:7-12).
Declared == \A r \in Compatible : Clear(MinimumSource[r], r)
Limits   == MaxUnrecorded <= 1 /\ Declared

\* A rollback from b, if its manifest allows one, may lead to a.
Returns(a, b) == b \in Compatible => Clear(a, b)

\* How far the recorded previous release may be from x.
ExactAt(x) == state.compatible => x \in Compatible /\ state.previous < x
                                  /\ Clear(state.previous, x)
NearAt(x)  == state.compatible => Returns(state.previous, x)

\* The helper before it switches the release, and from then on while it succeeds.
Early    == {"reviewing", "preflight", "timers", "services", "point", "recorded", "deploying"}
Switched == helper.pc = "activating" \/ helper.completed

\* What the waiting manager asked for; the rest was asked by one that has left.  Anchor is
\* the release that the manager knows.
Own(op)     == Waiting /\ op = operation.id
StrayReq    == {r \in requests : ~Own(r.op)}
StrayHelper == helper.pc \in Early /\ ~Own(helper.op)
Anchor      == IF Waiting THEN manager.before ELSE current

\* The manager will record the release that is installed.
Succeeding == /\ manager.pc = "waiting" /\ current = manager.target
              /\ manager.result = "ok" \/ (helper.pc # "off" /\ Own(helper.op) /\ Switched)

LockHeld == /\ helper.pc # "off" <=> lock = "helper"
            /\ manager.pc = "preparing" <=> lock = "manager"

\* An operation has one request or one helper.
OneEach ==
    /\ \A r \in requests : /\ r.op <= operation.id
                           /\ manager.pc = "preparing" => r.op < operation.id
                           /\ helper.pc # "off" => r.op # helper.op
                           /\ \A s \in requests : s.op = r.op => s = r
    /\ helper.pc # "off" => helper.op <= operation.id

\* The request, or the helper's, is what the waiting manager asked for.
Asked(r) == IF manager.pc = "waiting"
            THEN r.verb = manager.verb /\ r.target = manager.target /\ r.expected = manager.before
            ELSE r.verb = "rollback" /\ r.target = manager.before
                 /\ (count.unrecorded = 0 => r.expected = r.target)
Answers  == /\ \A r \in requests : Own(r.op) => Asked(r) /\ manager.result = "none"
            /\ helper.pc # "off" /\ Own(helper.op) => Asked(helper) /\ manager.result = "none"

\* Where the manager's operation leads.
Leads == /\ manager.pc = "preparing" => manager.before = current /\ manager.result = "none"
         /\ manager.pc \in {"preparing", "waiting", "rollingBack"} /\ manager.verb = "apply"
              => manager.before < manager.target /\ Returns(manager.before, manager.target)
         /\ manager.pc \in {"preparing", "waiting"} /\ manager.verb # "apply"
              => state.compatible /\ manager.target = state.previous
         /\ manager.pc = "rollingBack" => manager.verb = "apply"

\* What the helper has checked still holds, and where it leads.
Checked == /\ helper.pc \in Early =>
                /\ current = helper.expected
                /\ helper.verb = "rollback" => current \in Compatible
                /\ helper.verb # "rollback" => helper.target >= current
           /\ helper.pc = "activating" \/ helper.completed => current = helper.target
           /\ helper.completed => helper.pc \in {"restoring", "closing"}

\* A rollback leads to a release that runs on what lies between.
SafeBack(r) == r.verb = "rollback" => Returns(r.target, r.expected)
Backs == /\ \A r \in requests : SafeBack(r)
         /\ helper.pc # "off" => SafeBack(helper)

\* At most one deployment of a manager that left is still to come.  The release it was
\* asked at is behind, unless a recorded rollback has passed over it.
Shape(r) == /\ Anchor < r.expected => r.expected \in Compatible
            /\ r.verb = "apply" => r.expected < r.target /\ Returns(r.expected, r.target)
            /\ r.verb # "apply" => r.target <= r.expected
Strays == /\ count.unrecorded = 0 => StrayReq = {} /\ (helper.pc # "off" => Own(helper.op))
          /\ \A r, s \in StrayReq : r = s
          /\ helper.pc # "off" /\ ~Own(helper.op) => StrayReq = {}
          /\ \A r \in StrayReq : Shape(r)
          /\ StrayHelper => Shape(helper)

\* Until an unrecorded deployment has changed the release, the manager knows it; after
\* that it is off by one deployment.
Steady == count.unrecorded = 0 \/ StrayReq # {} \/ StrayHelper =>
             ExactAt(Anchor) /\ (Waiting => current = manager.before \/ Succeeding)
Near   == /\ NearAt(Anchor)
          /\ Waiting /\ ~Succeeding =>
                /\ NearAt(current)
                /\ manager.verb = "apply" /\ manager.result # "ok"
                      => Returns(manager.before, current)

SchemaInv == /\ LockHeld /\ OneEach /\ Answers /\ Leads /\ Checked /\ Backs
             /\ Strays /\ Steady /\ Near /\ SchemaServesRelease
-----------------------------------------------------------------------------
(* Its steps.                                                              *)

Numbers ==
    /\ current \in Nat /\ schema \in Nat /\ state.previous \in Nat /\ operation.id \in Nat
    /\ manager.before \in Nat /\ manager.target \in Nat /\ count.unrecorded \in Nat
    /\ helper.op \in Nat /\ helper.target \in Nat /\ helper.expected \in Nat
    /\ helper.verb \in Verb /\ manager.verb \in Verb
    /\ \A r \in requests : /\ r.op \in Nat /\ r.verb \in Verb
                           /\ r.target \in Nat /\ r.expected \in Nat
    /\ \A r \in Releases : r \in Nat

LEMMA TypedNumbers == Typed => Numbers
  BY Bounds DEF Typed, TypeOK, Numbers, Releases, Manager, Operation, Previous, Requested,
     Helper, Count

LEMMA Backwards ==
  ASSUME Numbers, NEW a \in Nat, NEW b \in Nat, b <= a
  PROVE  Returns(a, b)
  BY DEF Returns, Clear, Numbers

\* What can return to where the manager knows the release can return to the recorded one.
LEMMA OneStep ==
  ASSUME Numbers, NEW x \in Nat, NEW y \in Nat, ExactAt(x), Returns(x, y)
  PROVE  NearAt(y)
  BY DEF ExactAt, NearAt, Returns, Clear, Numbers

\* A manager whose record is exact, and what it has got to so far.
LEMMA Reached ==
  ASSUME Leads, Numbers, Waiting, ExactAt(manager.before),
         current = manager.before \/ (manager.pc = "waiting" /\ current = manager.target)
  PROVE  NearAt(current) /\ (manager.verb = "apply" => Returns(manager.before, current))
<1>1. CASE current = manager.before
  BY <1>1, Backwards, OneStep DEF Numbers
<1>2. CASE manager.pc = "waiting" /\ current = manager.target /\ manager.verb = "apply"
  BY <1>2, OneStep DEF Leads, Numbers
<1>3. CASE manager.pc = "waiting" /\ current = manager.target /\ manager.verb # "apply"
  BY <1>3, Backwards DEF Leads, NearAt, Numbers
<1> QED
  BY <1>1, <1>2, <1>3

\* The helper goes on.
LEMMA SchemaMoves ==
  ASSUME SchemaInv,
         UNCHANGED <<lock, manager, operation, state, requests, current, schema>>,
         count'.unrecorded = count.unrecorded,
         UNCHANGED <<helper.op, helper.verb, helper.target, helper.expected, helper.completed>>,
         helper.pc # "off", helper'.pc # "off", helper'.pc \in Early => helper.pc \in Early,
         helper.pc # "activating", helper'.pc # "activating",
         helper.completed => helper'.pc \in {"restoring", "closing"}
  PROVE  SchemaInv'
<1> USE DEF SchemaInv, Own, Anchor, Waiting
<1>1. LockHeld' /\ OneEach'
  BY DEF LockHeld, OneEach
<1>2. Answers' /\ Leads'
  BY DEF Answers, Asked, Leads
<1>3. Checked' /\ Backs'
  BY DEF Checked, Backs, SafeBack, Clear, Returns, Early
<1>4. StrayReq' = StrayReq /\ (StrayHelper' => StrayHelper) /\ Succeeding' = Succeeding
  BY DEF StrayReq, StrayHelper, Succeeding, Switched
<1>5. Strays'
  BY <1>4 DEF Strays, Shape
<1>6. Steady' /\ Near'
  BY <1>4 DEF Steady, Near, ExactAt, NearAt, Clear, Returns
<1>7. SchemaServesRelease'
  BY DEF SchemaServesRelease
<1> QED
  BY <1>1, <1>2, <1>3, <1>5, <1>6, <1>7

\* Nothing of it changes.
LEMMA SchemaStill ==
  ASSUME SchemaInv,
         UNCHANGED <<lock, manager, operation, state, requests, helper, current, schema>>,
         count'.unrecorded = count.unrecorded
  PROVE  SchemaInv'
<1> USE DEF SchemaInv, Own, Anchor, Waiting
<1>1. LockHeld' /\ OneEach' /\ Answers' /\ Leads' /\ Checked' /\ Backs'
  BY DEF LockHeld, OneEach, Answers, Asked, Leads, Checked, Backs, SafeBack, Clear, Returns
<1>2. StrayReq' = StrayReq /\ StrayHelper' = StrayHelper /\ Succeeding' = Succeeding
  BY DEF StrayReq, StrayHelper, Succeeding, Switched
<1>3. Strays' /\ Steady' /\ Near' /\ SchemaServesRelease'
  BY <1>2 DEF Strays, Shape, Steady, Near, ExactAt, NearAt, Clear, Returns, SchemaServesRelease
<1> QED
  BY <1>1, <1>3

\* A manager that does not wait, before and after.
LEMMA SchemaIdles ==
  ASSUME SchemaInv, Numbers, Numbers', ~Waiting, ~Waiting', LockHeld', Leads',
         UNCHANGED <<state, requests, helper, current, schema>>,
         count'.unrecorded >= count.unrecorded, operation'.id >= operation.id,
         manager'.pc = "preparing" => operation'.id > operation.id
  PROVE  SchemaInv'
<1> USE DEF SchemaInv, Own, Anchor, Numbers
<1>1. OneEach' /\ Answers' /\ Checked' /\ Backs'
  BY DEF OneEach, Answers, Checked, Backs, SafeBack, Clear, Returns
<1>2. StrayReq' = StrayReq /\ StrayHelper' = StrayHelper
  BY DEF StrayReq, StrayHelper
<1>3. Strays' /\ Steady' /\ Near' /\ SchemaServesRelease'
  BY <1>2 DEF Strays, Shape, Steady, Near, ExactAt, NearAt, Clear, Returns, SchemaServesRelease
<1> QED
  BY <1>1, <1>3

LEMMA SchemaStarts ==
  ASSUME Limits, SchemaInv, Numbers, Numbers', Typed,
         NEW verb \in Verb, NEW target \in Releases, StartOperation(verb, target)
  PROVE  SchemaInv'
<1>1. manager'.pc = "preparing" /\ manager'.verb = verb /\ manager'.target = target
      /\ manager'.before = current /\ manager'.result = "none" /\ operation'.id = operation.id + 1
  BY DEF StartOperation, Idle, Typed, TypeOK, Operation
<1>2. UNCHANGED <<state, requests, helper, current, schema, count>> /\ ~Waiting
      /\ lock = "free" /\ lock' = "manager"
  BY DEF StartOperation, Host, Waiting
<1>3. LockHeld'
  BY <1>1, <1>2 DEF SchemaInv, LockHeld
<1>4. Leads'
  <2>1. verb = "apply" => current < target /\ Returns(current, target)
    <3>1. verb = "apply" => target > current /\ current >= MinimumSource[target]
      BY DEF StartOperation
    <3>2. MinimumSource[target] \in Nat
          /\ (target \in Compatible => Clear(MinimumSource[target], target))
      BY UpdateAssumption DEF Limits, Declared
    <3> QED
      BY <3>1, <3>2 DEF Returns, Clear, Numbers
  <2>2. verb # "apply" => state.compatible /\ target = state.previous
    BY DEF StartOperation
  <2> QED
    BY <1>1, <1>2, <2>1, <2>2 DEF Leads, Returns, Clear
<1>5. ~Waiting'
  BY <1>1 DEF Waiting
<1>6. /\ operation'.id > operation.id /\ operation'.id >= operation.id
      /\ count'.unrecorded >= count.unrecorded
  BY <1>1, <1>2 DEF Numbers
<1>7. UNCHANGED <<state, requests, helper, current, schema>> /\ ~Waiting
  BY <1>2
<1> QED
  BY <1>3, <1>4, <1>5, <1>6, <1>7, SchemaIdles

\* The request of an operation that is being prepared.
LEMMA SchemaAsks == ASSUME SchemaInv, Numbers, Numbers', Typed, AskHelper PROVE SchemaInv'
<1> DEFINE new == [op |-> operation.id, verb |-> manager.verb, target |-> manager.target,
                   expected |-> current]
<1> USE DEF SchemaInv, Own, Anchor, Waiting
<1>1. /\ manager.pc = "preparing" /\ manager'.pc = "waiting" /\ manager'.verb = manager.verb
      /\ manager'.target = manager.target /\ manager'.before = manager.before
      /\ manager'.result = manager.result /\ lock = "manager" /\ lock' = "free"
      /\ helper.pc = "off" /\ requests' = requests \cup {new}
  BY DEF AskHelper, Request, LockHeld, Typed, TypeOK, Manager
<1>2. UNCHANGED <<operation, state, helper, current, schema, count>>
  BY DEF AskHelper, Host
<1>3. new.op = operation.id /\ new.verb = manager.verb /\ new.target = manager.target
      /\ new.expected = manager.before /\ manager.before = current /\ manager.result = "none"
  BY <1>1 DEF Leads
<1> HIDE DEF new
<1>4. \A r \in requests : r.op < operation.id /\ r # new /\ r.op # operation.id
  BY <1>1, <1>3 DEF OneEach, Numbers
<1>5. LockHeld' /\ OneEach' /\ Answers' /\ Leads' /\ Checked'
  BY <1>1, <1>2, <1>3, <1>4 DEF LockHeld, OneEach, Answers, Asked, Leads, Checked, Numbers
<1>6. SafeBack(new)
  BY <1>1, <1>3 DEF SafeBack, Leads, Near, NearAt
<1>7. Backs'
  BY <1>1, <1>2, <1>6 DEF Backs, SafeBack, Clear, Returns
<1>8. StrayReq' = requests /\ StrayReq = requests
  BY <1>1, <1>2, <1>3, <1>4 DEF StrayReq
<1>9. Strays' /\ Steady' /\ Near' /\ SchemaServesRelease'
  BY <1>1, <1>2, <1>3, <1>8 DEF Strays, StrayHelper, Shape, Steady, Near, ExactAt, NearAt,
     Clear, Returns, SchemaServesRelease, Numbers
<1> QED
  BY <1>5, <1>7, <1>9

\* A deployment that failed is rolled back from where it ended.
LEMMA SchemaAnswers == ASSUME SchemaInv, Numbers, Numbers', Typed, RollBackItself PROVE SchemaInv'
<1> DEFINE new == [op |-> operation.id, verb |-> "rollback", target |-> manager.before,
                   expected |-> current]
<1> USE DEF SchemaInv, Own, Anchor, Waiting
<1>1. /\ manager.pc = "waiting" /\ manager'.pc = "rollingBack" /\ manager'.verb = manager.verb
      /\ manager'.target = manager.target /\ manager'.before = manager.before
      /\ manager.result = "failed" /\ manager'.result = "none" /\ manager.verb = "apply"
      /\ requests' = requests \cup {new}
  BY DEF RollBackItself, MayRollBackItself, Request, Typed, TypeOK, Manager
<1>2. UNCHANGED <<lock, operation, state, helper, current, schema, count>>
  BY DEF RollBackItself, Host
<1>3. new.op = operation.id /\ new.verb = "rollback" /\ new.target = manager.before
      /\ new.expected = current
  OBVIOUS
<1> HIDE DEF new
<1>4. /\ \A r \in requests : r.op # operation.id
      /\ helper.pc # "off" => helper.op # operation.id
      /\ ~Succeeding
  BY <1>1 DEF Answers, Succeeding
<1>5. LockHeld' /\ OneEach' /\ Leads' /\ Checked'
  BY <1>1, <1>2, <1>3, <1>4 DEF LockHeld, OneEach, Leads, Checked, Numbers
<1>6. Answers'
  <2>1. count.unrecorded = 0 => current = manager.before
    BY <1>1, <1>4 DEF Steady
  <2> QED
    BY <1>1, <1>2, <1>3, <1>4, <2>1 DEF Answers, Asked
<1>7. Backs'
  <2>1. Returns(manager.before, current)
    BY <1>1, <1>4 DEF Near
  <2> QED
    BY <1>1, <1>2, <1>3, <2>1 DEF Backs, SafeBack, Clear, Returns
<1>8. StrayReq' = StrayReq /\ StrayHelper' = StrayHelper /\ ~Succeeding'
  BY <1>1, <1>2, <1>3, <1>4 DEF StrayReq, StrayHelper, Succeeding
<1>9. Strays' /\ Steady' /\ Near' /\ SchemaServesRelease'
  BY <1>1, <1>2, <1>4, <1>8 DEF Strays, Shape, Steady, Near, ExactAt, NearAt, Clear, Returns,
     SchemaServesRelease, Numbers
<1> QED
  BY <1>5, <1>6, <1>7, <1>9

\* What is left when a manager that waited leaves: it knew the release, or nothing is to
\* come of what it asked for.
LEMMA SchemaLeaves ==
  ASSUME SchemaInv, Numbers, Numbers', Waiting, ~Waiting', manager'.pc # "preparing",
         UNCHANGED <<lock, state, requests, helper, current, schema>>,
         operation'.id = operation.id,
         \/ /\ count'.unrecorded = count.unrecorded /\ manager.result # "none" /\ ~Succeeding
         \/ count.unrecorded = 0 /\ count'.unrecorded # 0
  PROVE  SchemaInv'
<1> USE DEF SchemaInv, Own, Anchor, Waiting
<1>1. LockHeld' /\ OneEach' /\ Leads' /\ Checked' /\ Backs'
  BY DEF LockHeld, OneEach, Leads, Checked, Backs, SafeBack, Clear, Returns
<1>2. Answers' /\ SchemaServesRelease' /\ StrayReq' = requests
      /\ (StrayHelper' <=> helper.pc \in Early) /\ Anchor' = current
  BY DEF Answers, SchemaServesRelease, StrayReq, StrayHelper
<1>3. CASE count'.unrecorded = count.unrecorded /\ manager.result # "none" /\ ~Succeeding
  <2>1. StrayReq = requests /\ (helper.pc \in Early <=> StrayHelper)
    BY <1>3 DEF Answers, StrayReq, StrayHelper, Early
  <2>2. count.unrecorded = 0 \/ requests # {} \/ StrayHelper
          => ExactAt(current) /\ current = manager.before
    BY <1>3, <2>1 DEF Steady
  <2>3. Strays'
    BY <1>2, <1>3, <2>1, <2>2 DEF Strays, Shape, Answers
  <2>4. Steady' /\ Near'
    BY <1>2, <1>3, <2>1, <2>2 DEF Steady, Near, ExactAt, NearAt, Clear, Returns
  <2> QED
    BY <1>1, <1>2, <2>3, <2>4
<1>4. CASE count.unrecorded = 0 /\ count'.unrecorded # 0
  <2>1. /\ \A r \in requests : Own(r.op) /\ helper.pc = "off" /\ manager.result = "none"
        /\ \A r, s \in requests : r = s
        /\ helper.pc # "off" => Own(helper.op) /\ requests = {} /\ manager.result = "none"
    BY <1>4 DEF Strays, StrayReq, OneEach, Answers
  <2>2. ExactAt(manager.before) /\ (current = manager.before \/ Succeeding)
    BY <1>4 DEF Steady
  <2>3. NearAt(current)
    BY <2>2, Reached DEF Succeeding
  <2>4. (requests # {} \/ helper.pc \in Early) => ExactAt(current) /\ current = manager.before
    BY <2>1, <2>2 DEF Succeeding, Switched, Checked, Early
  <2>5. ASSUME NEW r, Asked(r), current = manager.before PROVE Shape(r)'
    <3>1. manager.pc = "waiting" /\ manager.verb = "apply" =>
            r.verb = "apply" /\ r.expected < r.target /\ Returns(r.expected, r.target)
      BY <2>5 DEF Asked, Leads
    <3>2. manager.pc = "waiting" /\ manager.verb # "apply" =>
            r.verb # "apply" /\ r.target <= r.expected
      BY <2>2, <2>5 DEF Asked, Leads, ExactAt, Numbers
    <3>3. manager.pc = "rollingBack" => r.verb # "apply" /\ r.target <= r.expected
      BY <1>4, <2>5 DEF Asked, Numbers
    <3>4. r.expected = current
      BY <1>4, <2>5 DEF Asked
    <3> QED
      BY <1>2, <3>1, <3>2, <3>3, <3>4 DEF Shape, Returns, Clear, Numbers
  <2>6. Strays'
    BY <1>2, <1>4, <2>1, <2>4, <2>5 DEF Strays, Answers, Early
  <2>7. Steady' /\ Near'
    BY <1>2, <2>3, <2>4 DEF Steady, Near, ExactAt, NearAt, Clear, Returns, StrayHelper
  <2> QED
    BY <1>1, <1>2, <2>6, <2>7
<1> QED
  BY <1>3, <1>4

\* What a manager records is the release that is installed.
LEMMA SchemaRecords == ASSUME SchemaInv, Numbers, Numbers', Typed, RecordSuccess PROVE SchemaInv'
<1> USE DEF SchemaInv, Own, Anchor, Waiting
<1>1. /\ manager.pc = "waiting" /\ manager.result = "ok" /\ current = manager.target
      /\ manager'.pc = "idle" /\ operation'.id = operation.id
      /\ UNCHANGED <<lock, requests, helper, current, schema, count>>
  BY DEF RecordSuccess, Finish, Idle, Host, Typed, TypeOK, Operation
<1>2. /\ state'.previous = manager.before
      /\ state'.compatible => manager.verb = "apply" /\ manager.target \in Compatible
  BY DEF RecordSuccess
<1>3. LockHeld' /\ OneEach' /\ Answers' /\ Leads' /\ Checked' /\ Backs' /\ SchemaServesRelease'
  BY <1>1 DEF LockHeld, OneEach, Answers, Leads, Checked, Backs, SafeBack, Clear, Returns,
     SchemaServesRelease
<1>4. StrayReq = requests /\ StrayReq' = requests /\ StrayHelper' = StrayHelper
      /\ (helper.pc # "off" => ~Own(helper.op)) /\ Anchor' = current
  BY <1>1 DEF Answers, StrayReq, StrayHelper, Early
<1>5. ExactAt(current)'
  BY <1>1, <1>2 DEF ExactAt, Leads, Returns, Clear
<1>6. Steady' /\ Near'
  BY <1>1, <1>4, <1>5 DEF Steady, Near, ExactAt, NearAt, Clear, Returns
<1>7. Strays'
  <2>1. StrayReq # {} \/ StrayHelper => ExactAt(manager.before)
    BY <1>1 DEF Steady
  <2>2. ASSUME NEW r, Shape(r), ExactAt(manager.before),
               r.expected \in Releases, r.target \in Nat
        PROVE  Shape(r)'
    <3>1. current < r.expected => r.expected \in Compatible
      <4>1. CASE manager.verb = "apply"
        BY <1>1, <2>2, <4>1 DEF Shape, Leads, Numbers
      <4>2. CASE manager.verb # "apply"
        <5>1. /\ manager.before \in Compatible /\ current < manager.before
              /\ Clear(current, manager.before)
          BY <1>1, <2>2, <4>2 DEF ExactAt, Leads
        <5> QED
          BY <1>1, <2>2, <5>1 DEF Shape, Clear, Numbers
      <4> QED
        BY <4>1, <4>2
    <3> QED
      BY <1>4, <2>2, <3>1 DEF Shape, Returns, Clear
  <2>3. /\ \A r \in requests : r.expected \in Releases /\ r.target \in Nat
        /\ helper.pc \in Early => helper.expected \in Releases /\ helper.target \in Nat
    BY Bounds DEF Numbers, Checked, Typed, TypeOK, Requested
  <2> QED
    BY <1>1, <1>4, <2>1, <2>2, <2>3 DEF Strays, StrayHelper
<1> QED
  BY <1>3, <1>6, <1>7

\* A success that counts as a failure.
LEMMA SchemaMisread == ASSUME Limits, SchemaInv, Numbers, Numbers', Typed, LogFails PROVE SchemaInv'
<1> USE DEF SchemaInv, Own, Anchor, Waiting
<1>1. /\ manager.pc = "waiting" /\ manager'.pc = "waiting" /\ manager'.verb = manager.verb
      /\ manager'.target = manager.target /\ manager'.before = manager.before
      /\ manager.result = "ok" /\ manager'.result = "failed"
      /\ UNCHANGED <<lock, operation, state, requests, helper, current, schema>>
  BY DEF LogFails, Host, Typed, TypeOK, Manager
<1>2. count.unrecorded = 0 /\ count'.unrecorded # 0
  BY Bounds DEF LogFails, Unrecorded, Limits, Typed, TypeOK, Count, Numbers
<1>3. requests = {} /\ helper.pc = "off"
  BY <1>1, <1>2 DEF Strays, StrayReq, Answers
<1>4. LockHeld' /\ OneEach' /\ Answers' /\ Leads' /\ Checked' /\ Backs' /\ SchemaServesRelease'
  BY <1>1, <1>3 DEF LockHeld, OneEach, Answers, Leads, Checked, Backs, SchemaServesRelease, Early
<1>5. Strays' /\ Steady'
  BY <1>1, <1>2, <1>3 DEF Strays, Steady, StrayReq, StrayHelper, Early
<1>6. ExactAt(manager.before) /\ (current = manager.before \/ current = manager.target)
  BY <1>1, <1>2 DEF Steady, Succeeding
<1>7. NearAt(current) /\ (manager.verb = "apply" => Returns(manager.before, current))
  BY <1>1, <1>6, Reached
<1>8. Near'
  BY <1>1, <1>6, <1>7 DEF Near, NearAt, Clear, Returns, Leads, Numbers
<1> QED
  BY <1>4, <1>5, <1>8

\* The helper takes a request, or refuses it.
LEMMA SchemaBegins ==
  ASSUME SchemaInv, Numbers, Numbers', NEW r \in requests, BeginHelper(r)
  PROVE  SchemaInv'
<1> USE DEF SchemaInv, Own, Anchor, Waiting
<1>1. /\ helper.pc = "off" /\ helper'.pc = "reviewing" /\ helper'.op = r.op /\ helper'.verb = r.verb
      /\ helper'.target = r.target /\ helper'.expected = r.expected /\ ~helper'.completed
      /\ lock = "free" /\ lock' = "helper" /\ requests' = requests \ {r}
      /\ UNCHANGED <<manager, operation, state, current, schema, count>> /\ MayDeploy(r)
  BY DEF BeginHelper, NoHelper, At, Host
<1>2. LockHeld' /\ OneEach' /\ Leads' /\ Backs' /\ SchemaServesRelease'
  BY <1>1 DEF LockHeld, OneEach, Leads, Backs, SafeBack, Clear, Returns, SchemaServesRelease
<1>3. Answers'
  BY <1>1 DEF Answers, Asked
<1>4. Checked'
  BY <1>1 DEF Checked, MayDeploy
<1>5. StrayReq' = StrayReq \ {r} /\ (StrayHelper' <=> r \in StrayReq)
      /\ ~StrayHelper /\ Succeeding' = Succeeding
  BY <1>1 DEF StrayReq, StrayHelper, Succeeding, Switched, Early
<1>6. Strays'
  BY <1>1, <1>5 DEF Strays, Shape, StrayReq
<1>7. Steady' /\ Near'
  BY <1>1, <1>5 DEF Steady, Near, ExactAt, NearAt, Clear, Returns
<1> QED
  BY <1>2, <1>3, <1>4, <1>6, <1>7

LEMMA SchemaRefuses ==
  ASSUME SchemaInv, Numbers, Numbers', Typed, NEW r \in requests, RefuseRequest(r)
  PROVE  SchemaInv'
<1> USE DEF SchemaInv, Own, Anchor, Waiting
<1>1. requests' = requests \ {r}
      /\ UNCHANGED <<lock, operation, state, helper, current, schema, count>>
  BY DEF RefuseRequest, Host
<1>2. /\ UNCHANGED <<manager.pc, manager.verb, manager.target, manager.before>>
      /\ manager'.result = IF Own(r.op) THEN "failed" ELSE manager.result
  BY DEF RefuseRequest, Result, Typed, TypeOK, Manager
<1>3. LockHeld' /\ OneEach' /\ Checked' /\ Backs' /\ SchemaServesRelease'
  BY <1>1, <1>2 DEF LockHeld, OneEach, Checked, Backs, SafeBack, Clear, Returns, SchemaServesRelease
<1>4. Leads'
  BY <1>1, <1>2 DEF Leads
<1>5. Answers'
  BY <1>1, <1>2 DEF Answers, Asked, OneEach
<1>6. StrayReq' = StrayReq \ {r} /\ StrayHelper' = StrayHelper /\ Succeeding' = Succeeding
  BY <1>1, <1>2 DEF StrayReq, StrayHelper, Succeeding, Switched, Answers, OneEach
<1>7. Strays'
  BY <1>1, <1>2, <1>6 DEF Strays, Shape
<1>8. Steady' /\ Near'
  BY <1>1, <1>2, <1>6 DEF Steady, Near, ExactAt, NearAt, Clear, Returns, Answers
<1> QED
  BY <1>3, <1>4, <1>5, <1>7, <1>8

\* The current link moves.
LEMMA SchemaSwitches == ASSUME SchemaInv, Numbers, Numbers', Typed, SwitchRelease PROVE SchemaInv'
<1> USE DEF SchemaInv, Own, Waiting
<1>1. /\ helper.pc = "deploying" /\ helper'.pc = "activating" /\ current' = helper.target
      /\ UNCHANGED <<helper.op, helper.verb, helper.target, helper.expected, helper.completed>>
      /\ UNCHANGED <<lock, manager, operation, state, requests, schema, count>>
  BY DEF SwitchRelease, At, Goto, Control, Typed, TypeOK, Helper
<1>2. /\ current = helper.expected /\ ~helper.completed /\ helper.pc \in Early
      /\ helper.verb = "rollback" => current \in Compatible
      /\ helper.verb # "rollback" => helper.target >= current
      /\ lock = "helper" /\ manager.pc # "preparing"
  BY <1>1 DEF Checked, Early, LockHeld
<1>3. LockHeld' /\ OneEach' /\ Answers' /\ Leads' /\ Checked' /\ Backs'
  BY <1>1, <1>2 DEF LockHeld, OneEach, Answers, Asked, Leads, Checked, Backs, SafeBack, Clear, Returns, Early
<1>4. SchemaServesRelease'
  <2>1. CASE helper.verb = "rollback"
    BY <1>1, <1>2, <2>1 DEF SchemaServesRelease, Backs, SafeBack, Clear, Returns, Numbers
  <2>2. CASE helper.verb # "rollback"
    BY <1>1, <1>2, <2>2 DEF SchemaServesRelease, Numbers
  <2> QED
    BY <2>1, <2>2
<1>5. StrayReq' = StrayReq /\ ~StrayHelper' /\ helper'.pc # "off"
  BY <1>1 DEF StrayReq, StrayHelper, Early
<1>6. CASE Own(helper.op)
  <2>1. Asked(helper) /\ manager.result = "none" /\ Anchor' = Anchor /\ Anchor = manager.before
    BY <1>1, <1>6 DEF Answers, Anchor
  <2>2. ~Succeeding /\ (manager.pc = "waiting" => Succeeding')
        /\ (manager.pc # "waiting" => current' = manager.before /\ ~Succeeding')
    BY <1>1, <1>2, <1>6, <2>1 DEF Succeeding, Switched, Asked
  <2>3. Strays'
    BY <1>1, <1>5, <1>6, <2>1 DEF Strays, Shape
  <2>4. Steady' /\ Near'
    BY <1>1, <1>5, <1>6, <2>1, <2>2 DEF Steady, Near, ExactAt, NearAt, Clear, Returns, Numbers
  <2> QED
    BY <1>3, <1>4, <2>3, <2>4
<1>7. CASE ~Own(helper.op)
  <2>1. StrayHelper /\ StrayReq = {} /\ count.unrecorded # 0 /\ Shape(helper)
    BY <1>1, <1>2, <1>7 DEF Strays, StrayHelper
  <2>2. Strays' /\ Steady'
    BY <1>1, <1>5, <1>7, <2>1 DEF Strays, Steady
  <2>3. ExactAt(Anchor) /\ (Waiting => current = manager.before \/ Succeeding)
    BY <2>1 DEF Steady
  <2>4. Returns(current, helper.target)
    <3>1. helper.verb = "apply" => Returns(current, helper.target)
      BY <1>2, <2>1 DEF Shape
    <3>2. helper.verb # "apply" => helper.target <= current
      BY <1>2, <2>1 DEF Shape
    <3> QED
      BY <3>1, <3>2, Backwards DEF Numbers
  <2>5. CASE ~Waiting
    <3>1. NearAt(helper.target)
      BY <2>3, <2>4, <2>5, OneStep DEF Anchor, Numbers
    <3> QED
      BY <1>1, <1>3, <1>4, <2>2, <2>5, <3>1 DEF Near, NearAt, Clear, Returns, Anchor
  <2>6. CASE Waiting /\ current = manager.before
    <3>1. NearAt(helper.target)
      BY <2>3, <2>4, <2>6, OneStep DEF Anchor, Numbers
    <3> QED
      BY <1>1, <1>3, <1>4, <2>2, <2>4, <2>6, <3>1 DEF Near, NearAt, Clear, Returns, Anchor
  <2>7. CASE Succeeding
    <3>1. manager.pc = "waiting" /\ current = manager.target /\ manager.result = "ok"
      BY <1>7, <2>7 DEF Succeeding
    <3>2. NearAt(helper.target)
      <4>1. CASE manager.verb = "apply"
        <5>1. ExactAt(manager.before) /\ manager.before < current
              /\ Returns(manager.before, current)
          BY <2>3, <3>1, <4>1 DEF Anchor, Leads
        <5>2. current \in Compatible
          BY <1>2, <2>1, <3>1, <5>1 DEF Shape, Anchor
        <5>3. Returns(manager.before, helper.target)
          BY <2>4, <5>1, <5>2 DEF Returns, Clear, Numbers
        <5> QED
          BY <5>1, <5>3, OneStep DEF Numbers
      <4>2. CASE manager.verb # "apply"
        BY <2>4, <3>1, <4>2 DEF Leads, NearAt
      <4> QED
        BY <4>1, <4>2
    <3> QED
      BY <1>1, <1>3, <1>4, <2>2, <3>1, <3>2 DEF Near, NearAt, Clear, Returns, Anchor
  <2> QED
    BY <2>3, <2>5, <2>6, <2>7
<1> QED
  BY <1>6, <1>7

\* The services run on the migrated schema.
LEMMA SchemaActivates == ASSUME SchemaInv, Numbers, Numbers', Typed, Activate PROVE SchemaInv'
<1> USE DEF SchemaInv, Own, Anchor, Waiting
<1>1. /\ helper.pc = "activating" /\ helper'.pc = "restoring" /\ helper'.completed
      /\ UNCHANGED <<helper.op, helper.verb, helper.target, helper.expected>>
      /\ UNCHANGED <<lock, manager, operation, state, requests, current, count>>
  BY DEF Activate, At, Control, Typed, TypeOK, Helper
<1>2. LockHeld' /\ OneEach' /\ Answers' /\ Leads' /\ Checked' /\ Backs'
  BY <1>1 DEF LockHeld, OneEach, Answers, Asked, Leads, Checked, Backs, SafeBack, Clear, Returns, Early
<1>3. SchemaServesRelease'
  BY <1>1 DEF Activate, Later, SchemaServesRelease, Numbers
<1>4. StrayReq' = StrayReq /\ StrayHelper' = StrayHelper /\ Succeeding' = Succeeding
  BY <1>1 DEF StrayReq, StrayHelper, Succeeding, Switched, Early
<1>5. Strays' /\ Steady' /\ Near'
  BY <1>1, <1>4 DEF Strays, Shape, Steady, Near, ExactAt, NearAt, Clear, Returns
<1> QED
  BY <1>2, <1>3, <1>5

LEMMA MishapCounts ==
  ASSUME Limits, Numbers, Typed, Mishap
  PROVE  \/ count'.unrecorded = count.unrecorded /\ (helper.pc = "off" \/ current = helper.expected)
         \/ count.unrecorded = 0 /\ count'.unrecorded # 0
  BY Bounds DEF Mishap, Fault, Unrecorded, Limits, Typed, TypeOK, Count, Numbers

\* The schema serves the release whether the migration has run or not.
LEMMA MigratedServes ==
  ASSUME SchemaServesRelease, Numbers, Migrated, current' = current
  PROVE  SchemaServesRelease'
  BY DEF Migrated, Later, SchemaServesRelease, Numbers

\* What a deployment that does not end well leaves of the manager's knowledge.
LEMMA SchemaWorsens ==
  ASSUME SchemaInv, Numbers, Numbers', helper.pc # "off", ~Succeeding',
         UNCHANGED <<state, requests, current, manager.pc, manager.verb, manager.target,
                     manager.before, operation.id>>,
         helper'.pc \notin Early,
         helper'.pc # "off" => helper'.op = helper.op /\ helper'.verb = helper.verb
            /\ helper'.target = helper.target /\ helper'.expected = helper.expected,
         manager'.result # manager.result => Own(helper.op) /\ manager'.result # "ok",
         \/ count'.unrecorded = count.unrecorded /\ (current = helper.expected \/ ~Switched)
         \/ count.unrecorded = 0 /\ count'.unrecorded # 0
  PROVE  Strays' /\ Steady' /\ Near'
<1> USE DEF SchemaInv, Own, Anchor, Waiting
<1>1. StrayReq' = StrayReq /\ ~StrayHelper'
  BY DEF StrayReq, StrayHelper
<1>2. Strays'
  BY <1>1 DEF Strays, Shape, Numbers
<1>3. CASE count'.unrecorded = count.unrecorded /\ (current = helper.expected \/ ~Switched)
  <2>1. Waiting /\ Succeeding => current = manager.before
    BY <1>3 DEF Succeeding, Answers, Asked, Switched
  <2>2. Steady'
    BY <1>1, <1>3, <2>1 DEF Steady, ExactAt
  <2>3. /\ NearAt(Anchor) /\ (Waiting => NearAt(current))
        /\ Waiting /\ manager.verb = "apply" /\ (~Succeeding => manager.result # "ok")
             => Returns(manager.before, current)
    BY <2>1, Backwards DEF Near, NearAt, Numbers
  <2>4. manager'.result # "ok" /\ ~Succeeding => manager.result # "ok"
    BY DEF Answers
  <2>5. Near'
    BY <2>3, <2>4 DEF Near, NearAt, Clear, Returns
  <2> QED
    BY <1>2, <2>2, <2>5
<1>4. CASE count.unrecorded = 0 /\ count'.unrecorded # 0
  <2>1. StrayReq = {} /\ Own(helper.op) /\ manager.result = "none"
    BY <1>4 DEF Strays, Answers
  <2>2. ExactAt(manager.before) /\ (current = manager.before \/ current = manager.target)
    BY <1>4, <2>1 DEF Steady, Succeeding
  <2>3. manager.pc # "waiting" => current = manager.before
    BY <1>4, <2>1 DEF Steady, Succeeding
  <2>4. NearAt(current) /\ (manager.verb = "apply" => Returns(manager.before, current))
    BY <2>1, <2>2, <2>3, Reached
  <2> QED
    BY <1>1, <1>2, <1>4, <2>1, <2>4 DEF Steady, Near, NearAt, Clear, Returns
<1> QED
  BY <1>2, <1>3, <1>4

LEMMA SchemaFails ==
  ASSUME Limits, SchemaInv, Numbers, Numbers', Typed, DeploymentFails
  PROVE  SchemaInv'
<1> USE DEF SchemaInv, Own, Waiting
<1>1. /\ helper.pc \in {"deploying", "activating"} /\ helper'.pc = "restoring"
      /\ UNCHANGED <<helper.op, helper.verb, helper.target, helper.expected, helper.completed>>
      /\ UNCHANGED <<lock, manager, operation, state, requests, current>> /\ Mishap /\ Migrated
  BY HelperGoes DEF DeploymentFails, Goto, Control, Typed, TypeOK, Helper
<1>2. LockHeld' /\ OneEach' /\ Leads' /\ Checked' /\ Backs'
  BY <1>1 DEF LockHeld, OneEach, Leads, Checked, Backs, SafeBack, Clear, Returns, Early
<1>3. SchemaServesRelease'
  BY <1>1, MigratedServes
<1>4. Answers'
  <2>1. count'.unrecorded = 0 => count.unrecorded = 0
    BY <1>1, MishapCounts
  <2> QED
    BY <1>1, <2>1 DEF Answers, Asked
<1>5. CASE ~Own(helper.op)
  <2>1. Succeeding' = Succeeding /\ StrayReq' = StrayReq /\ ~StrayHelper' /\ Anchor' = Anchor
    BY <1>1, <1>5 DEF Succeeding, StrayReq, StrayHelper, Early, Anchor
  <2>2. count'.unrecorded = count.unrecorded
    BY <1>1, <1>5, MishapCounts DEF Strays
  <2>3. Strays' /\ Steady' /\ Near'
    BY <1>1, <1>5, <2>1, <2>2 DEF Strays, Shape, Steady, Near, ExactAt, NearAt, Clear, Returns
  <2> QED
    BY <1>2, <1>3, <1>4, <2>3
<1>6. CASE Own(helper.op)
  <2>1. ~Succeeding'
    BY <1>1, <1>6 DEF Succeeding, Switched, Answers, Checked
  <2>2. Strays' /\ Steady' /\ Near'
    BY <1>1, <2>1, MishapCounts, SchemaWorsens DEF Early
  <2> QED
    BY <1>2, <1>3, <1>4, <2>2
<1> QED
  BY <1>5, <1>6

\* The helper ends, and the manager that waits for it reads how.
LEMMA SchemaEnds ==
  ASSUME Limits, SchemaInv, Numbers, Numbers', Typed, NEW result \in {"ok", "failed", "review"},
         helper.pc # "off", Exit(result), current' = current, SchemaServesRelease',
         result = "ok" => helper.completed,
         \/ count'.unrecorded = count.unrecorded
            /\ (result = "ok" \/ current = helper.expected \/ ~Switched)
         \/ result # "ok" /\ count.unrecorded = 0 /\ count'.unrecorded # 0
  PROVE  SchemaInv'
<1> USE DEF SchemaInv, Own, Waiting
<1>1. helper'.pc = "off" /\ lock = "helper" /\ lock' = "free" /\ ~helper'.completed
      /\ UNCHANGED <<operation, state, requests>>
  BY DEF Exit, NoHelper, LockHeld
<1>2. /\ UNCHANGED <<manager.pc, manager.verb, manager.target, manager.before>>
      /\ manager'.result = IF Own(helper.op) THEN result ELSE manager.result
  BY DEF Exit, Result, Typed, TypeOK, Manager
<1>3. LockHeld' /\ OneEach' /\ Leads' /\ Checked' /\ Backs'
  BY <1>1, <1>2 DEF LockHeld, OneEach, Leads, Checked, Backs, SafeBack, Clear, Returns, Early
<1>4. Answers'
  BY <1>1, <1>2 DEF Answers, Asked, OneEach
<1>5. CASE result = "ok" \/ ~Own(helper.op)
  <2>1. Succeeding' = Succeeding
    BY <1>1, <1>2, <1>5 DEF Succeeding, Switched, Answers, Asked, Checked
  <2>2. StrayReq' = StrayReq /\ ~StrayHelper' /\ Anchor' = Anchor
    BY <1>1, <1>2 DEF StrayReq, StrayHelper, Early, Anchor
  <2>3. count'.unrecorded = count.unrecorded
    BY <1>5 DEF Strays
  <2>4. Strays'
    BY <1>1, <2>2, <2>3 DEF Strays, Shape
  <2>5. Steady' /\ Near'
    BY <1>1, <1>2, <1>5, <2>1, <2>2, <2>3 DEF Steady, Near, ExactAt, NearAt, Clear, Returns, Answers
  <2> QED
    BY <1>3, <1>4, <2>4, <2>5
<1>6. CASE result # "ok" /\ Own(helper.op)
  <2>1. ~Succeeding'
    BY <1>1, <1>2, <1>6 DEF Succeeding
  <2>2. operation'.id = operation.id /\ helper'.pc \notin Early
    BY <1>1 DEF Early
  <2>3. Strays' /\ Steady' /\ Near'
    BY <1>1, <1>2, <1>6, <2>1, <2>2, SchemaWorsens
  <2> QED
    BY <1>3, <1>4, <2>3
<1> QED
  BY <1>5, <1>6

\* After a reboot nothing is left of what was asked.
LEMMA SchemaReboots == ASSUME Limits, SchemaInv, Numbers, Numbers', Typed, Reboot PROVE SchemaInv'
<1> USE DEF SchemaInv, Own, Anchor, Waiting
<1>1. /\ requests' = {} /\ helper'.pc = "off" /\ ~helper'.completed /\ manager'.pc = "down"
      /\ lock' = "free" /\ UNCHANGED <<operation, state, current, schema>>
  BY DEF Reboot, NoHelper, Idle
<1>2. count.unrecorded = 0 /\ count'.unrecorded # 0
  BY Bounds DEF Reboot, Unrecorded, Limits, Typed, TypeOK, Count, Numbers
<1>3. /\ LockHeld' /\ OneEach' /\ Answers' /\ Leads' /\ Checked' /\ Backs' /\ Strays' /\ Steady'
      /\ SchemaServesRelease'
  BY <1>1, <1>2 DEF LockHeld, OneEach, Answers, Leads, Checked, Backs, Strays, Steady,
     StrayReq, StrayHelper, Early, SchemaServesRelease
<1>4. NearAt(current)
  <2>1. CASE Waiting
    <3>1. ExactAt(manager.before) /\ (current = manager.before \/ Succeeding)
      BY <1>2, <2>1 DEF Steady
    <3> QED
      BY <2>1, <3>1, Reached DEF Succeeding
  <2> QED
    BY <2>1 DEF Near
<1>5. Near'
  BY <1>1, <1>4 DEF Near, NearAt, Clear, Returns
<1> QED
  BY <1>3, <1>5

LEMMA InitSchema == Init => SchemaInv
<1> SUFFICES ASSUME Init PROVE SchemaInv
  OBVIOUS
<1>1. /\ requests = {} /\ helper.pc = "off" /\ ~helper.completed /\ manager.pc = "idle"
      /\ lock = "free" /\ current = 1 /\ schema = 1 /\ ~state.compatible
  BY DEF Init, NoHelper, Idle
<1> QED
  BY <1>1 DEF SchemaInv, LockHeld, OneEach, Answers, Leads, Checked, Backs, Strays, Steady, Near,
     ExactAt, NearAt, SchemaServesRelease, Own, Anchor, Waiting, StrayReq, StrayHelper, Early,
     Releases

LEMMA SchemaManager ==
  ASSUME Limits, SchemaInv, Numbers, Numbers', Typed,
         PreparationFails \/ RecordFailure \/ ManagerRecovers \/ ManagerCrash
  PROVE  SchemaInv'
<1>1. /\ manager'.pc \in {"idle", "recovering", "down"} /\ operation'.id = operation.id
      /\ UNCHANGED <<state, requests, helper, current, schema>>
  BY DEF PreparationFails, RecordFailure, ManagerRecovers, ManagerCrash, Finish, Idle, Host,
     Typed, TypeOK, Operation
<1>2. \/ count'.unrecorded = count.unrecorded
      \/ ManagerCrash /\ count.unrecorded = 0 /\ count'.unrecorded # 0
  BY Bounds DEF PreparationFails, RecordFailure, ManagerRecovers, ManagerCrash, Unrecorded,
     Limits, Typed, TypeOK, Count, Numbers
<1>3. ~Waiting' /\ manager'.pc # "preparing" /\ Leads'
  BY <1>1 DEF Waiting, Leads
<1>4. LockHeld'
  BY <1>1 DEF PreparationFails, RecordFailure, ManagerRecovers, ManagerCrash, Waiting, SchemaInv,
     LockHeld
<1>5. CASE ~Waiting
  <2>1. count'.unrecorded >= count.unrecorded /\ operation'.id >= operation.id
    BY <1>1, <1>2 DEF Numbers
  <2> QED
    BY <1>1, <1>3, <1>4, <1>5, <2>1, SchemaIdles
<1>6. CASE Waiting
  <2>1. lock' = lock
    BY <1>6 DEF PreparationFails, RecordFailure, ManagerRecovers, ManagerCrash, Waiting,
       SchemaInv, LockHeld
  <2>2. \/ count'.unrecorded = count.unrecorded /\ manager.result # "none" /\ ~Succeeding
        \/ count.unrecorded = 0 /\ count'.unrecorded # 0
    <3>1. CASE RecordFailure
      BY <1>2, <3>1 DEF RecordFailure, Succeeding, SchemaInv, Answers
    <3>2. CASE ManagerCrash
      BY <3>2, Bounds DEF ManagerCrash, Unrecorded, Limits, Typed, TypeOK, Count, Numbers
    <3> QED
      BY <1>6, <3>1, <3>2 DEF PreparationFails, ManagerRecovers, Waiting
  <2> QED
    BY <1>1, <1>3, <1>6, <2>1, <2>2, SchemaLeaves
<1> QED
  BY <1>5, <1>6

LEMMA SchemaHelper ==
  ASSUME Limits, SchemaInv, Numbers, Numbers', Typed,
         HelperStep \/ PreflightFails \/ GivesUp \/ DeploymentFails \/ HelperKilled
  PROVE  SchemaInv'
<1> USE DEF At
<1>1. CASE \/ RecordUnits \/ StopTimers \/ StopServices \/ CreatePoint \/ RecordPoint \/ GivesUp
           \/ ReviewJournal /\ AllStart(journal.units) /\ Goto("preflight") /\ UNCHANGED Control
           \/ Restore /\ AllStart(helper.original) /\ Goto("closing") /\ UNCHANGED Control
  <2>1. /\ UNCHANGED <<lock, manager, operation, state, requests, current, schema>>
        /\ count'.unrecorded = count.unrecorded
    BY <1>1 DEF RecordUnits, StopTimers, StopServices, CreatePoint, RecordPoint, GivesUp,
       ReviewJournal, Restore, Goto, Control, Host, AllStart, Typed, TypeOK, Count
  <2>2. UNCHANGED <<helper.op, helper.verb, helper.target, helper.expected, helper.completed>>
    BY <1>1 DEF RecordUnits, StopTimers, StopServices, CreatePoint, RecordPoint, GivesUp,
       Goto, Typed, TypeOK, Helper
  <2>3. /\ helper.pc # "off" /\ helper'.pc # "off" /\ (helper'.pc \in Early => helper.pc \in Early)
        /\ helper.pc # "activating" /\ helper'.pc # "activating"
    BY <1>1 DEF RecordUnits, StopTimers, StopServices, CreatePoint, RecordPoint, GivesUp,
       ReviewJournal, Restore, Goto, Early, Typed, TypeOK, Helper
  <2>4. helper.completed => helper'.pc \in {"restoring", "closing"}
    BY <1>1 DEF RecordUnits, StopTimers, StopServices, CreatePoint, RecordPoint, GivesUp,
       ReviewJournal, Restore, Goto, SchemaInv, Checked, Typed, TypeOK, Helper
  <2> QED
    BY <2>1, <2>2, <2>3, <2>4, SchemaMoves
<1>2. CASE SwitchRelease
  BY <1>2, SchemaSwitches
<1>3. CASE Activate
  BY <1>3, SchemaActivates
<1>4. CASE DeploymentFails
  BY <1>4, SchemaFails
<1>5. CASE PreflightFails
  <2>1. helper.pc = "preflight" /\ Exit("failed") /\ UNCHANGED <<current, schema, count>>
    BY <1>5 DEF PreflightFails, Host
  <2>2. ~Switched /\ SchemaServesRelease'
    BY <2>1 DEF Switched, SchemaInv, Checked, SchemaServesRelease
  <2> QED
    BY <2>1, <2>2, SchemaEnds
<1>6. CASE ReviewJournal /\ Exit("review")
  <2>1. helper.pc = "reviewing" /\ UNCHANGED <<current, schema>>
    BY <1>6 DEF ReviewJournal
  <2>2. ~Switched /\ SchemaServesRelease'
    BY <2>1 DEF Switched, SchemaInv, Checked, SchemaServesRelease
  <2>3. \/ count'.unrecorded = count.unrecorded
        \/ count.unrecorded = 0 /\ count'.unrecorded # 0
    BY <1>6, MishapCounts DEF ReviewJournal, AllStart, SomeStart
  <2> QED
    BY <1>6, <2>1, <2>2, <2>3, SchemaEnds
<1>7. CASE Restore /\ SomeStart(helper.original) /\ Exit("review")
  <2>1. helper.pc = "restoring" /\ UNCHANGED <<current, schema>> /\ Mishap
    BY <1>7 DEF Restore, SomeStart
  <2>2. SchemaServesRelease'
    BY <2>1 DEF SchemaInv, SchemaServesRelease
  <2> QED
    BY <1>7, <2>1, <2>2, MishapCounts, SchemaEnds
<1>8. CASE CloseJournal
  <2>1. helper.pc = "closing" /\ UNCHANGED <<current, schema, count>>
    BY <1>8 DEF CloseJournal, Host
  <2>2. SchemaServesRelease' /\ (~helper.completed => ~Switched)
    BY <2>1 DEF Switched, SchemaInv, SchemaServesRelease
  <2>3. CASE helper.completed /\ Exit("ok")
    BY <2>1, <2>2, <2>3, SchemaEnds
  <2>4. CASE ~helper.completed /\ (Exit("failed") \/ Exit("review"))
    BY <2>1, <2>2, <2>4, SchemaEnds
  <2> QED
    BY <1>8, <2>3, <2>4 DEF CloseJournal
<1>9. CASE HelperKilled
  <2>1. helper.pc # "off" /\ Exit("failed") /\ Mishap /\ Migrated /\ current' = current
    BY <1>9 DEF HelperKilled
  <2>2. SchemaServesRelease'
    BY <2>1, MigratedServes DEF SchemaInv
  <2> QED
    BY <2>1, <2>2, MishapCounts, SchemaEnds
<1> QED
  BY <1>1, <1>2, <1>3, <1>4, <1>5, <1>6, <1>7, <1>8, <1>9
     DEF HelperStep, ReviewJournal, Restore

LEMMA NextSchema == ASSUME Limits, Typed, Typed', SchemaInv, [Next]_vars PROVE SchemaInv'
<1>1. Numbers /\ Numbers'
  <2>1. Numbers
    BY TypedNumbers
  <2>2. Numbers'
    BY Bounds DEF Typed, TypeOK, Numbers, Releases, Manager, Operation, Previous, Requested,
       Helper, Count
  <2> QED
    BY <2>1, <2>2
<1>2. CASE UNCHANGED vars \/ TimerFires \/ Write \/ CollectGarbage \/ Acknowledge
  <2>1. UNCHANGED <<lock, manager, operation, state, requests, helper, current, schema>>
    BY <1>2 DEF vars, TimerFires, Write, CollectGarbage, Acknowledge, Control, Host
  <2>2. count'.unrecorded = count.unrecorded
    BY <1>2 DEF vars, TimerFires, Write, CollectGarbage, Acknowledge, AllStart, SomeStart,
       Mishap, Fault, At, Typed, TypeOK, Count
  <2> QED
    BY <2>1, <2>2, SchemaStill
<1>3. CASE \E verb \in Verb, target \in Releases : StartOperation(verb, target)
  BY <1>1, <1>3, SchemaStarts
<1>4. CASE \E r \in requests : BeginHelper(r) \/ RefuseRequest(r)
  BY <1>1, <1>4, SchemaBegins, SchemaRefuses
<1>5. CASE ManagerStep \/ LogFails \/ ManagerCrash
  BY <1>1, <1>5, SchemaManager, SchemaAsks, SchemaRecords, SchemaAnswers, SchemaMisread
     DEF ManagerStep
<1>6. CASE HelperStep \/ PreflightFails \/ GivesUp \/ DeploymentFails \/ HelperKilled
  BY <1>1, <1>6, SchemaHelper
<1>7. CASE Reboot
  BY <1>1, <1>7, SchemaReboots
<1> QED
  BY <1>2, <1>3, <1>4, <1>5, <1>6, <1>7 DEF Next

\* With one deployment that the manager did not record, and manifests that accept no source
\* to which the rollback they allow is unsafe, no deployment and no rollback installs a release that the
\* migrated schema does not serve (the checks of deployPrepared, rollbackRelease and the
\* helper, across crashes of each).
THEOREM SchemaAlwaysServes ==
  ASSUME MaxUnrecorded <= 1, Declared
  PROVE  Spec => []SchemaServesRelease
<1>1. Init => SchemaInv /\ Typed
  BY InitSchema, InitTyped
<1>2. SchemaInv /\ Typed /\ [Next]_vars => (SchemaInv /\ Typed)'
  BY NextTyped, NextSchema DEF Limits
<1>3. SchemaInv => SchemaServesRelease
  BY DEF SchemaInv
<1> QED
  BY <1>1, <1>2, <1>3, PTL DEF Spec

-----------------------------------------------------------------------------
(* WorkerDemand.  What it assumes of its constants is a hypothesis here.   *)

CONSTANTS Backlog, MaxEvents
VARIABLE tally
Wake == INSTANCE WorkerDemand WITH count <- tally
WakeBounds == Backlog \in Nat \ {0} /\ {MaxFaults, MaxEvents} \subseteq Nat

-----------------------------------------------------------------------------
(* The inductive invariant.                                                *)

\* Under the exclusive lock no worker was promised the engine, and before the stop
\* no container was left.
Locks ==
    /\ collector \in {"exclusive", "checked", "demand", "stop"} => ~worker.engine
    /\ collector = "stop" => containers = {}
    /\ Wake!EngineKept

\* From the stop of the listener to its restoration nothing wakes a worker, and a
\* process told to end does not fail.
Stops ==
    /\ deployment \in {"listener", "stopping", "quiesced"} => ~listening /\ backlog = 0
    /\ deployment = "stopping" => worker.pc = "off" \/ (worker.term /\ worker.pc # "failed")
    /\ worker.term => deployment = "stopping"
    /\ worker.pc = "off" => worker = Wake!NoWorker
    /\ worker.pc = "failed" => ~worker.term
    /\ Wake!QuiescedStaysOff

\* What was there at the last look of the process that ends, or has ended.
Left  == \E j \in Jobs \ late : jobs[j] \in {"queued", "running", "orphan"}
Hints == worker.pc \in {"closing", "off"} /\ listening /\ Left => backlog > 0

WakeInv == Wake!TypeOK /\ Locks /\ Stops /\ Hints

-----------------------------------------------------------------------------
(* Writing one record.                                                     *)

LEMMA WorkerGoes ==
  ASSUME Wake!TypeOK, NEW pc \in {"loop", "drain", "closing"}, Wake!Goto(pc)
  PROVE  /\ worker' \in Wake!Worker /\ worker'.pc = pc /\ worker'.engine = worker.engine
         /\ worker'.term = worker.term /\ worker'.error = worker.error
  BY DEF Wake!TypeOK, Wake!Worker, Wake!Goto

LEMMA NoWorkerTyped ==
  /\ Wake!NoWorker \in Wake!Worker /\ Wake!NoWorker.pc = "off"
  /\ ~Wake!NoWorker.engine /\ ~Wake!NoWorker.term
  /\ \A pc \in {"failed", "boot"} :
       LET w == [Wake!NoWorker EXCEPT !.pc = pc]
       IN w \in Wake!Worker /\ w.pc = pc /\ ~w.engine /\ ~w.term
  BY DEF Wake!NoWorker, Wake!Worker

LEMMA Faults ==
  ASSUME WakeBounds, Wake!TypeOK, Wake!Fault \/ Wake!Event
  PROVE  tally' \in [faults : 0..MaxFaults, events : 0..MaxEvents]
  BY DEF Wake!TypeOK, Wake!Fault, Wake!Event, WakeBounds

LEMMA JobGoes ==
  ASSUME Wake!TypeOK, NEW j \in Jobs,
         NEW to \in {"none", "queued", "running", "orphan", "done"},
         jobs' = [jobs EXCEPT ![j] = to]
  PROVE  /\ jobs' \in [Jobs -> {"none", "queued", "running", "orphan", "done"}]
         /\ jobs'[j] = to /\ \A k \in Jobs \ {j} : jobs'[k] = jobs[k]
  BY DEF Wake!TypeOK

LEMMA SenderGoes ==
  ASSUME Wake!TypeOK, NEW s \in {"api", "timer"},
         NEW to \in {"idle", "checked", "connecting", "waiting"},
         senders' = [senders EXCEPT ![s] = to]
  PROVE  senders' \in [{"api", "timer"} -> {"idle", "checked", "connecting", "waiting"}]
  BY DEF Wake!TypeOK

LEMMA WakeInit == ASSUME WakeBounds PROVE Wake!Init => WakeInv
<1> SUFFICES ASSUME Wake!Init PROVE WakeInv
  OBVIOUS
<1>1. tally \in [faults : 0..MaxFaults, events : 0..MaxEvents]
  BY DEF Wake!Init, WakeBounds
<1>2. backlog \in 0..Backlog /\ worker \in Wake!Worker
  BY NoWorkerTyped DEF Wake!Init, WakeBounds
<1>3. /\ jobs \in [Jobs -> {"none", "queued", "running", "orphan", "done"}]
      /\ senders \in [{"api", "timer"} -> {"idle", "checked", "connecting", "waiting"}]
  BY DEF Wake!Init
<1>4. Wake!TypeOK
  BY <1>1, <1>2, <1>3 DEF Wake!Init, Wake!TypeOK
<1>5. Locks /\ Stops /\ Hints
  BY NoWorkerTyped DEF Wake!Init, Locks, Stops, Hints, Left, Wake!EngineKept,
     Wake!QuiescedStaysOff, Wake!Asleep, Wake!At
<1> QED
  BY <1>4, <1>5 DEF WakeInv

-----------------------------------------------------------------------------
(* Types: one step per action.                                             *)

LEMMA HintTyped ==
  ASSUME WakeBounds, Wake!TypeOK,
         \/ \E s \in {"api", "timer"} : Wake!Hinting(s)
         \/ Wake!SenderCrash \/ Wake!MaintenanceDue \/ Wake!Reconcile \/ Wake!ReconcileNotify
         \/ \E j \in Jobs : Wake!Commit(j)
  PROVE  Wake!TypeOK'
<1> USE DEF Wake!Data, Wake!Socket, Wake!Docker, Wake!Hosts
<1>1. CASE \E s \in {"api", "timer"} : Wake!Hinting(s)
  <2>1. PICK s \in {"api", "timer"} : Wake!Hinting(s)
    BY <1>1
  <2>2. backlog' \in 0..Backlog
    BY <2>1 DEF Wake!Hinting, Wake!Connect, Wake!CanConnect, Wake!Answered, Wake!TypeOK, WakeBounds
  <2> QED
    BY <2>1, <2>2, SenderGoes DEF Wake!Hinting, Wake!Connect, Wake!Answered, Wake!TypeOK
<1>2. CASE Wake!SenderCrash
  BY <1>2, SenderGoes, Faults DEF Wake!SenderCrash, Wake!TypeOK
<1>3. CASE Wake!MaintenanceDue
  BY <1>3, Faults DEF Wake!MaintenanceDue, Wake!TypeOK
<1>4. CASE Wake!Reconcile
  BY <1>4, SenderGoes DEF Wake!Reconcile, Wake!TypeOK
<1>5. CASE Wake!ReconcileNotify
  BY <1>5, SenderGoes DEF Wake!ReconcileNotify, Wake!TypeOK
<1>6. CASE \E j \in Jobs : Wake!Commit(j)
  <2>1. PICK j \in Jobs : Wake!Commit(j)
    BY <1>6
  <2>2. senders' \in [{"api", "timer"} -> {"idle", "checked", "connecting", "waiting"}]
    BY <2>1, SenderGoes DEF Wake!Commit, Wake!TypeOK
  <2> QED
    BY <2>1, <2>2, JobGoes DEF Wake!Commit, Wake!TypeOK
<1> QED
  BY <1>1, <1>2, <1>3, <1>4, <1>5, <1>6

LEMMA WorkTyped ==
  ASSUME WakeBounds, Wake!TypeOK,
  Wake!Activate \/ Wake!Working \/ Wake!Accept \/ Wake!Throw \/ Wake!Crash
  PROVE  Wake!TypeOK'
<1> USE DEF Wake!Data, Wake!Socket, Wake!Docker, Wake!Hosts
<1>1. CASE Wake!Activate
  BY <1>1, NoWorkerTyped DEF Wake!Activate, Wake!TypeOK
<1>2. CASE Wake!Boot \/ Wake!IdleExit \/ Wake!Terminate
  BY <1>2, WorkerGoes DEF Wake!Boot, Wake!IdleExit, Wake!Terminate, Wake!TypeOK
<1>3. CASE Wake!PrepareEngine
  <2>1. worker' \in Wake!Worker
    BY <1>3 DEF Wake!PrepareEngine, Wake!TypeOK, Wake!Worker
  <2> QED
    BY <1>3, <2>1 DEF Wake!PrepareEngine, Wake!TypeOK
<1>4. CASE Wake!Maintain
  <2>1. worker' \in Wake!Worker
    BY <1>4 DEF Wake!Maintain, Wake!TypeOK, Wake!Worker
  <2> QED
    BY <1>4, <2>1, Faults DEF Wake!Maintain, Wake!TypeOK
<1>5. CASE Wake!Close
  <2>1. backlog' \in 0..Backlog
    BY <1>5 DEF Wake!Close, Wake!TypeOK, WakeBounds
  <2>2. tally' \in [faults : 0..MaxFaults, events : 0..MaxEvents]
    BY <1>5, Faults DEF Wake!Close, Wake!TypeOK
  <2> QED
    BY <1>5, <2>1, <2>2, WorkerGoes DEF Wake!Close, Wake!TypeOK
<1>6. CASE Wake!Exit
  BY <1>6, NoWorkerTyped DEF Wake!Exit, Wake!TypeOK
<1>7. CASE \E j \in Jobs : Wake!Recover(j) \/ Wake!Claim(j) \/ Wake!Finish(j)
  BY <1>7, JobGoes DEF Wake!Recover, Wake!Claim, Wake!Finish, Wake!TypeOK
<1>8. CASE Wake!Accept
  BY <1>8 DEF Wake!Accept, Wake!TypeOK, WakeBounds
<1>9. CASE Wake!Throw
  <2>1. worker' \in Wake!Worker
    BY <1>9 DEF Wake!Throw, Wake!TypeOK, Wake!Worker
  <2>2. backlog' \in 0..Backlog
    BY <1>9 DEF Wake!Throw, Wake!TypeOK, WakeBounds
  <2> QED
    BY <1>9, <2>1, <2>2, Faults DEF Wake!Throw, Wake!TypeOK
<1>10. CASE Wake!Crash
  BY <1>10, NoWorkerTyped, Faults DEF Wake!Crash, Wake!TypeOK
<1> QED
  BY <1>1, <1>2, <1>3, <1>4, <1>5, <1>6, <1>7, <1>8, <1>9, <1>10 DEF Wake!Working

LEMMA HostsTyped ==
  ASSUME WakeBounds, Wake!TypeOK, Wake!Collecting \/ Wake!Deploying
  PROVE  Wake!TypeOK'
<1> USE DEF Wake!Data, Wake!Socket, Wake!Docker, Wake!Hosts
<1>1. CASE Wake!Collecting
  BY <1>1 DEF Wake!Collecting, Wake!CollectLock, Wake!CollectExclusive, Wake!CollectServices,
     Wake!CollectDemand,
     Wake!CollectContainers, Wake!CollectStop, Wake!Collect, Wake!TypeOK
<1>2. CASE Wake!Deploy \/ Wake!StopTimers \/ Wake!Quiesced \/ Wake!RestoreTimers
  BY <1>2, Faults DEF Wake!Deploy, Wake!StopTimers, Wake!Quiesced, Wake!RestoreTimers, Wake!Step,
     Wake!TypeOK
<1>3. CASE Wake!StopFirst
  <2>1. 0 \in 0..Backlog
    BY DEF WakeBounds
  <2> QED
    BY <1>3, <2>1 DEF Wake!StopFirst, Wake!StopListener, Wake!Step, Wake!TypeOK
<1>5. CASE Wake!RestoreListener
  BY <1>5 DEF Wake!RestoreListener, Wake!Step, Wake!TypeOK
<1>4. CASE Wake!StopSecond
  <2>1. worker' \in Wake!Worker
    BY <1>4, NoWorkerTyped DEF Wake!StopSecond, Wake!StopService, Wake!TypeOK, Wake!Worker
  <2> QED
    BY <1>4, <2>1 DEF Wake!StopSecond, Wake!Step, Wake!TypeOK
<1> QED
  BY <1>1, <1>2, <1>3, <1>4, <1>5 DEF Wake!Deploying

LEMMA WakeTyped == ASSUME WakeBounds PROVE Wake!TypeOK /\ [Wake!Next]_Wake!vars => Wake!TypeOK'
<1>1. CASE UNCHANGED Wake!vars
  BY <1>1 DEF Wake!vars, Wake!TypeOK
<1> QED
  BY <1>1, HintTyped, WorkTyped, HostsTyped DEF Wake!Next

-----------------------------------------------------------------------------
(* The container engine.                                                   *)

\* The steps that change neither the engine, its users nor the collector.
LEMMA LocksAside ==
  ASSUME Locks, UNCHANGED <<containers, engine, collector>>,
         worker'.engine = worker.engine \/ ~worker'.engine
  PROVE  Locks'
  BY DEF Locks, Wake!EngineKept

LEMMA LocksKept == ASSUME Wake!TypeOK, Wake!TypeOK', Locks, Wake!Next PROVE Locks'
<1> USE DEF Wake!Data, Wake!Socket, Wake!Docker, Wake!Hosts
<1>1. CASE \/ \E j \in Jobs : Wake!Commit(j)
           \/ \E s \in {"api", "timer"} : Wake!Hinting(s)
           \/ Wake!SenderCrash \/ Wake!MaintenanceDue \/ Wake!Reconcile
           \/ Wake!ReconcileNotify \/ Wake!Accept
  <2>1. UNCHANGED <<containers, engine, collector, worker>>
    BY <1>1 DEF Wake!Commit, Wake!Hinting, Wake!Connect, Wake!Answered, Wake!SenderCrash,
       Wake!MaintenanceDue, Wake!Reconcile,
       Wake!ReconcileNotify, Wake!Accept
  <2> QED
    BY <2>1, LocksAside
<1>2. CASE Wake!Activate \/ Wake!Exit \/ Wake!Crash
  <2>1. UNCHANGED <<containers, engine, collector>> /\ ~worker'.engine
    BY <1>2, NoWorkerTyped DEF Wake!Activate, Wake!Exit, Wake!Crash
  <2> QED
    BY <2>1, LocksAside
<1>3. CASE Wake!Boot \/ Wake!Maintain \/ Wake!IdleExit \/ Wake!Close \/ Wake!Terminate \/ Wake!Throw
  <2>1. UNCHANGED <<containers, engine, collector>>
    BY <1>3 DEF Wake!Boot, Wake!Maintain, Wake!IdleExit, Wake!Close, Wake!Terminate, Wake!Throw
  <2>2. worker'.engine = worker.engine
    <3>1. CASE Wake!Boot \/ Wake!IdleExit \/ Wake!Close \/ Wake!Terminate
      BY <3>1, WorkerGoes DEF Wake!Boot, Wake!IdleExit, Wake!Close, Wake!Terminate
    <3>2. CASE Wake!Maintain \/ Wake!Throw
      BY <3>2 DEF Wake!Maintain, Wake!Throw, Wake!TypeOK, Wake!Worker
    <3> QED
      BY <1>3, <3>1, <3>2
  <2> QED
    BY <2>1, <2>2, LocksAside
<1>4. CASE Wake!PrepareEngine
  <2>1. collector \notin {"exclusive", "checked", "demand", "stop"}
    BY <1>4 DEF Wake!PrepareEngine, Wake!LockHeldExclusively
  <2> QED
    BY <1>4, <2>1 DEF Wake!PrepareEngine, Locks, Wake!EngineKept
<1>5. CASE \E j \in Jobs : Wake!Recover(j) \/ Wake!Claim(j) \/ Wake!Finish(j)
  BY <1>5 DEF Wake!Recover, Wake!Claim, Wake!Finish, Locks, Wake!EngineKept
<1>6. CASE Wake!Collecting
  BY <1>6 DEF Wake!Collecting, Wake!CollectLock, Wake!CollectExclusive, Wake!MayLockExclusively,
     Wake!CollectServices, Wake!CollectDemand, Wake!CollectContainers, Wake!CollectStop,
     Wake!Collect, Locks,
     Wake!EngineKept
<1>7. CASE Wake!Deploying
  <2>1. UNCHANGED <<containers, engine, collector>>
    BY <1>7 DEF Wake!Deploying, Wake!Deploy, Wake!StopTimers, Wake!StopFirst, Wake!StopSecond,
       Wake!Quiesced,
       Wake!RestoreListener, Wake!RestoreTimers
  <2>2. worker'.engine = worker.engine \/ ~worker'.engine
    <3>1. CASE Wake!StopSecond
      BY <3>1, NoWorkerTyped DEF Wake!StopSecond, Wake!StopService, Wake!TypeOK, Wake!Worker
    <3>2. CASE ~Wake!StopSecond
      BY <1>7, <3>2 DEF Wake!Deploying, Wake!Deploy, Wake!StopTimers, Wake!StopFirst,
         Wake!Quiesced,
         Wake!RestoreListener, Wake!RestoreTimers
    <3> QED
      BY <3>1, <3>2
  <2> QED
    BY <2>1, <2>2, LocksAside
<1> QED
  BY <1>1, <1>2, <1>3, <1>4, <1>5, <1>6, <1>7 DEF Wake!Next, Wake!Working

-----------------------------------------------------------------------------
(* The worker that a deployment stops.                                     *)

\* A step that leaves the worker as it is, and one that neither fails nor ends it.
LEMMA StopsAside ==
  ASSUME Stops, UNCHANGED <<deployment, listening, worker>>,
         listening \/ backlog' = backlog \/ backlog' = 0
  PROVE  Stops'
  BY DEF Stops, Wake!QuiescedStaysOff, Wake!Asleep, Wake!At

LEMMA StopsWorking ==
  ASSUME Stops, UNCHANGED <<deployment, listening>>, listening \/ backlog' = backlog,
         worker'.term = worker.term, worker.pc # "off", worker'.pc \notin {"off", "failed"}
  PROVE  Stops'
  BY DEF Stops, Wake!QuiescedStaysOff, Wake!Asleep, Wake!At

LEMMA StopsKept == ASSUME Wake!TypeOK, Wake!TypeOK', Stops, Wake!Next PROVE Stops'
<1> USE DEF Wake!Data, Wake!Socket, Wake!Docker, Wake!Hosts
<1>1. CASE \/ \E j \in Jobs : Wake!Commit(j)
           \/ \E s \in {"api", "timer"} : Wake!Hinting(s)
           \/ Wake!SenderCrash \/ Wake!MaintenanceDue \/ Wake!Reconcile
           \/ Wake!ReconcileNotify \/ Wake!Accept
  <2>1. UNCHANGED <<deployment, listening, worker>>
    BY <1>1 DEF Wake!Commit, Wake!Hinting, Wake!Connect, Wake!Answered, Wake!SenderCrash,
       Wake!MaintenanceDue, Wake!Reconcile,
       Wake!ReconcileNotify, Wake!Accept
  <2>2. listening \/ backlog' = backlog \/ backlog' = 0
    BY <1>1 DEF Wake!Commit, Wake!Hinting, Wake!Connect, Wake!CanConnect, Wake!Answered,
       Wake!SenderCrash, Wake!MaintenanceDue,
       Wake!Reconcile, Wake!ReconcileNotify, Wake!Accept
  <2> QED
    BY <2>1, <2>2, StopsAside
<1>2. CASE Wake!Activate
  BY <1>2, NoWorkerTyped DEF Wake!Activate, Wake!At, Stops, Wake!QuiescedStaysOff, Wake!Asleep
<1>3. CASE Wake!Exit \/ Wake!Crash
  <2>1. UNCHANGED <<deployment, listening, backlog>> /\ worker.pc \notin {"off", "failed"}
    BY <1>3 DEF Wake!Exit, Wake!Crash, Wake!At
  <2>2. CASE worker' = Wake!NoWorker
    BY <2>1, <2>2, NoWorkerTyped DEF Stops, Wake!QuiescedStaysOff, Wake!Asleep, Wake!At
  <2>3. CASE ~worker.term /\ worker' = [Wake!NoWorker EXCEPT !.pc = "failed"]
    BY <2>1, <2>3, NoWorkerTyped DEF Stops, Wake!QuiescedStaysOff, Wake!Asleep, Wake!At
  <2> QED
    BY <1>3, <2>2, <2>3 DEF Wake!Exit, Wake!Crash
<1>4. CASE Wake!Boot \/ Wake!IdleExit \/ Wake!Close \/ Wake!Terminate
  <2>1. worker'.term = worker.term /\ worker.pc # "off" /\ worker'.pc \notin {"off", "failed"}
    BY <1>4, WorkerGoes DEF Wake!Boot, Wake!IdleExit, Wake!Close, Wake!Terminate, Wake!At
  <2>2. UNCHANGED <<deployment, listening>> /\ (listening \/ backlog' = backlog)
    BY <1>4 DEF Wake!Boot, Wake!IdleExit, Wake!Close, Wake!Terminate
  <2> QED
    BY <2>1, <2>2, StopsWorking
<1>5. CASE Wake!PrepareEngine \/ Wake!Maintain \/ Wake!Throw
  <2>1. worker'.term = worker.term /\ worker.pc # "off" /\ worker'.pc \notin {"off", "failed"}
    <3>1. worker \in Wake!Worker
      BY DEF Wake!TypeOK
    <3>2. worker.pc \notin {"off", "failed"}
      BY <1>5 DEF Wake!PrepareEngine, Wake!Maintain, Wake!Throw, Wake!At
    <3>3. CASE Wake!PrepareEngine
      BY <3>1, <3>2, <3>3 DEF Wake!PrepareEngine, Wake!Worker
    <3>4. CASE Wake!Maintain
      BY <3>1, <3>2, <3>4 DEF Wake!Maintain, Wake!Worker
    <3>5. CASE Wake!Throw
      BY <3>1, <3>2, <3>5 DEF Wake!Throw, Wake!Worker
    <3> QED
      BY <1>5, <3>3, <3>4, <3>5
  <2>2. UNCHANGED <<deployment, listening>> /\ (listening \/ backlog' = backlog)
    BY <1>5 DEF Wake!PrepareEngine, Wake!Maintain, Wake!Throw
  <2> QED
    BY <2>1, <2>2, StopsWorking
<1>6. CASE (\E j \in Jobs : Wake!Recover(j) \/ Wake!Claim(j) \/ Wake!Finish(j)) \/ Wake!Collecting
  <2>1. UNCHANGED <<deployment, listening, backlog, worker>>
    BY <1>6 DEF Wake!Recover, Wake!Claim, Wake!Finish, Wake!Collecting, Wake!CollectLock,
       Wake!CollectExclusive,
       Wake!CollectServices, Wake!CollectDemand, Wake!CollectContainers, Wake!CollectStop,
       Wake!Collect
  <2> QED
    BY <2>1, StopsAside
<1>7. CASE Wake!StopSecond
  BY <1>7, NoWorkerTyped DEF Wake!StopSecond, Wake!StopService, Wake!Step, Stops,
     Wake!QuiescedStaysOff, Wake!Asleep, Wake!At,
     Wake!TypeOK, Wake!Worker
<1>8. CASE \/ Wake!Deploy \/ Wake!StopTimers \/ Wake!StopFirst \/ Wake!Quiesced
           \/ Wake!RestoreListener \/ Wake!RestoreTimers
  BY <1>8, NoWorkerTyped DEF Wake!Deploy, Wake!StopTimers, Wake!StopFirst, Wake!StopListener,
     Wake!Quiesced,
     Wake!RestoreListener, Wake!RestoreTimers, Wake!Step, Stops, Wake!QuiescedStaysOff,
     Wake!Asleep, Wake!At
<1> QED
  BY <1>1, <1>2, <1>3, <1>4, <1>5, <1>6, <1>7, <1>8 DEF Wake!Next, Wake!Working, Wake!Deploying

-----------------------------------------------------------------------------
(* The hint for the next process.                                          *)

LEMMA HintsKept == ASSUME WakeBounds, Wake!TypeOK, Wake!TypeOK', Stops, Hints,
Wake!Next PROVE Hints'
<1> USE DEF Wake!Data, Wake!Socket, Wake!Docker, Wake!Hosts
<1> backlog \in Nat /\ backlog' \in Nat
  BY DEF Wake!TypeOK, WakeBounds
<1>1. CASE \E j \in Jobs : Wake!Commit(j)
  <2>1. PICK j \in Jobs : Wake!Commit(j)
    BY <1>1
  <2>2. worker.pc \in {"closing", "off"} => late' = late \cup {j}
    BY <2>1 DEF Wake!Commit, Wake!At
  <2>3. \A k \in Jobs \ {j} : jobs'[k] = jobs[k]
    BY <2>1, JobGoes DEF Wake!Commit
  <2> QED
    BY <2>1, <2>2, <2>3 DEF Wake!Commit, Hints, Left
<1>2. CASE \/ \E s \in {"api", "timer"} : Wake!Hinting(s)
           \/ Wake!SenderCrash \/ Wake!MaintenanceDue \/ Wake!Reconcile
           \/ Wake!ReconcileNotify \/ Wake!Collecting
  <2>1. UNCHANGED <<worker, listening, jobs, late>> /\ backlog' >= backlog
    BY <1>2 DEF Wake!Hinting, Wake!Connect, Wake!Answered, Wake!SenderCrash, Wake!MaintenanceDue,
       Wake!Reconcile,
       Wake!ReconcileNotify, Wake!Collecting, Wake!CollectLock, Wake!CollectExclusive,
       Wake!CollectServices, Wake!CollectDemand, Wake!CollectContainers, Wake!CollectStop,
       Wake!Collect
  <2> QED
    BY <2>1 DEF Hints, Left
<1>3. CASE \/ Wake!Activate \/ Wake!Boot \/ Wake!IdleExit \/ Wake!PrepareEngine
           \/ Wake!Maintain \/ Wake!Accept
           \/ \E j \in Jobs : Wake!Recover(j) \/ Wake!Claim(j) \/ Wake!Finish(j)
  <2>1. worker'.pc \notin {"closing", "off"}
    BY <1>3, WorkerGoes, NoWorkerTyped DEF Wake!Activate, Wake!Boot, Wake!IdleExit,
       Wake!PrepareEngine, Wake!Maintain,
       Wake!Accept, Wake!Recover, Wake!Claim, Wake!Finish, Wake!At, Wake!TypeOK, Wake!Worker
  <2> QED
    BY <2>1 DEF Hints
<1>4. CASE Wake!Close
  <2>1. Left' => Wake!Demand
    BY <1>4 DEF Wake!Close, Left, Wake!Demand
  <2>2. worker.term => ~listening
    BY DEF Stops
  <2> QED
    BY <1>4, <2>1, <2>2 DEF Wake!Close, Wake!HintForNext, Hints, WakeBounds
<1>5. CASE Wake!Throw
  <2>1. Left' => Wake!Demand
    BY <1>5 DEF Wake!Throw, Left, Wake!Demand
  <2>2. worker.term => ~listening
    BY DEF Stops
  <2> QED
    BY <1>5, <2>1, <2>2 DEF Wake!Throw, Hints, WakeBounds
<1>6. CASE Wake!Terminate
  BY <1>6 DEF Wake!Terminate, Stops, Hints
<1>7. CASE Wake!Exit
  BY <1>7, NoWorkerTyped DEF Wake!Exit, Wake!At, Hints, Left
<1>8. CASE Wake!Crash
  BY <1>8, NoWorkerTyped DEF Wake!Crash, Stops, Hints
<1>9. CASE Wake!RestoreListener
  BY <1>9 DEF Wake!RestoreListener, Hints, Left
<1>10. CASE Wake!StopFirst \/ Wake!StopSecond
  BY <1>10 DEF Wake!StopFirst, Wake!StopListener, Wake!StopSecond, Wake!Step, Stops, Hints
<1>11. CASE Wake!Deploy \/ Wake!StopTimers \/ Wake!Quiesced \/ Wake!RestoreTimers
  BY <1>11 DEF Wake!Deploy, Wake!StopTimers, Wake!Quiesced, Wake!RestoreTimers, Hints, Left
<1> QED
  BY <1>1, <1>2, <1>3, <1>4, <1>5, <1>6, <1>7, <1>8, <1>9, <1>10, <1>11
     DEF Wake!Next, Wake!Working, Wake!Deploying

-----------------------------------------------------------------------------
(* The theorems.                                                           *)

LEMMA WakeInvariant == ASSUME WakeBounds PROVE Wake!Spec => []WakeInv
<1>1. WakeInv /\ [Wake!Next]_Wake!vars => WakeInv'
  <2>1. CASE UNCHANGED Wake!vars
    BY <2>1 DEF Wake!vars, WakeInv, Wake!TypeOK, Locks, Stops, Hints, Left, Wake!EngineKept,
       Wake!QuiescedStaysOff, Wake!Asleep, Wake!At
  <2> QED
    BY <2>1, WakeTyped, LocksKept, StopsKept, HintsKept DEF WakeInv
<1> QED
  BY <1>1, WakeInit, PTL DEF Wake!Spec

\* The state of jobs, hints, worker, engine and deployment is well typed.
THEOREM DemandTyped == ASSUME WakeBounds PROVE Wake!Spec => []Wake!TypeOK
<1>1. WakeInv => Wake!TypeOK
  BY DEF WakeInv
<1> QED
  BY <1>1, WakeInvariant, PTL

\* The collector never stops the engine under a worker or a container, whatever
\* wakes in between (idleContainerEngine against prepareEngineLease).
THEOREM EngineAlwaysKept == ASSUME WakeBounds PROVE Wake!Spec => []EngineKept
<1>1. WakeInv => EngineKept
  BY DEF WakeInv, Locks, Wake!EngineKept, EngineKept
<1> QED
  BY <1>1, WakeInvariant, PTL

\* No hint, crash or restart starts a worker that a deployment has found stopped
\* (controlService stops the listener before the service).
THEOREM QuiescedStay == ASSUME WakeBounds PROVE Wake!Spec => []QuiescedStaysOff
<1>1. WakeInv => QuiescedStaysOff
  BY DEF WakeInv, Stops, Wake!QuiescedStaysOff, Wake!Asleep, QuiescedStaysOff, Asleep
<1> QED
  BY <1>1, WakeInvariant, PTL

\* The last look of an ending worker leaves a hint for all it left undone.
THEOREM HintsRetained == ASSUME WakeBounds PROVE Wake!Spec => []HintRetained
<1>1. WakeInv => HintRetained
  BY DEF WakeInv, Hints, Left, HintRetained, Asleep
<1> QED
  BY <1>1, WakeInvariant, PTL
=============================================================================
