-------------------------- MODULE UpdateDeployment --------------------------
(***************************************************************************)
(* Application updates: the manager that prepares one, the root helper     *)
(* that deploys it, and the recovery point and journal around the          *)
(* deployment (deploy/scripts/update-manager.mjs,                          *)
(* update-manager-helper.mjs, update-recovery-host.mjs,                    *)
(* update-recovery.mjs, inherited-mutation-lock.mjs).                      *)
(*                                                                         *)
(* Releases are numbered in version order; the application's data is a     *)
(* counter of the writes its running services make, and a point is the     *)
(* data and the release it was taken of.  A killed helper takes its        *)
(* descendants along in one step: they keep the lock until the last ends.  *)
(***************************************************************************)
EXTENDS Naturals, FiniteSets

CONSTANTS MaxRelease,
          Compatible,         \* releases whose manifest declares rollbackCompatible
          MinimumSource,      \* minimumSourceVersion of each release's manifest
          RetainCount,        \* completed points retained
          MaxOps, MaxWrites,  \* bounds: operations, writes of the application
          MaxUnrecorded,      \* bound: what leaves a deployment out of the manager's state
          MaxFaults           \* bound: other faults

Releases == 1..MaxRelease

ASSUME UpdateAssumption ==
    /\ MaxRelease \in Nat \ {0} /\ Compatible \subseteq Releases
    /\ MinimumSource \in [Releases -> Nat] /\ RetainCount \in Nat \ {0}
    /\ {MaxOps, MaxWrites, MaxUnrecorded, MaxFaults} \subseteq Nat

VARIABLES lock,      \* holder of the mutation lock
          manager,   \* the controller's process
          operation, \* the record of the last operation
          state,     \* previousReleaseId and previousRollbackCompatible
          requests,  \* helpers started that have not taken their lock
          helper,    \* the helper that has
          journal,   \* operation.json of the recovery store
          points,    \* recovery points
          up,        \* the running ones of timers and services
          data,      \* writes so far
          current,   \* the installed release
          schema,    \* the latest release whose migration has run
          count      \* what the bounds count

vars == <<lock, manager, operation, state, requests, helper, journal, points, up,
          data, current, schema, count>>
Control == <<manager, operation, state, requests>>
Host    == <<up, data, current, schema>>
Store   == <<journal, points>>

Units == {"timers", "services"}

Verb      == {"apply", "rollback"}
Manager   == [pc : {"down", "recovering", "idle", "preparing", "waiting", "rollingBack"},
              verb : Verb, target : 0..MaxRelease, before : 0..MaxRelease,
              result : {"none", "ok", "failed", "review"}]
Operation == [id : 0..MaxOps, status : {"none", "running", "succeeded", "failed"}]
Previous  == [previous : 0..MaxRelease, compatible : BOOLEAN]
Requested == [op : 1..MaxOps, verb : Verb, target : Releases, expected : Releases]
Helper    == [pc : {"off", "reviewing", "preflight", "timers", "services", "point",
                    "recorded", "deploying", "activating", "restoring", "closing"},
              op : 0..MaxOps, verb : Verb, target : 0..MaxRelease,
              expected : 0..MaxRelease, original : SUBSET Units, point : Nat,
              completed : BOOLEAN]
Journal   == [pending : BOOLEAN, units : SUBSET Units, point : Nat]
Point     == [id : Nat, data : 0..MaxWrites, release : Releases]
Count     == [faults : 0..MaxFaults, unrecorded : 0..MaxUnrecorded, points : Nat]

\* withQuiescedRecovery's original and point, with the request it serves
NoHelper  == [pc |-> "off", op |-> 0, verb |-> "apply", target |-> 0, expected |-> 0,
              original |-> {}, point |-> 0, completed |-> FALSE]
NoJournal == [pending |-> FALSE, units |-> {}, point |-> 0]
Idle      == [pc |-> "idle", verb |-> "apply", target |-> 0, before |-> 0, result |-> "none"]

Init == /\ lock = "free" /\ manager = Idle
        /\ operation = [id |-> 0, status |-> "none"]
        /\ state = [previous |-> 0, compatible |-> FALSE]
        /\ requests = {} /\ helper = NoHelper
        /\ journal = NoJournal /\ points = {}
        /\ up = Units /\ data = 0 /\ current = 1 /\ schema = 1
        /\ count = [faults |-> 0, unrecorded |-> 0, points |-> 0]

Later(a, b) == IF a < b THEN b ELSE a
Fault       == count.faults < MaxFaults /\ count' = [count EXCEPT !.faults = @ + 1]
Unrecorded  == /\ count.unrecorded < MaxUnrecorded
               /\ count' = [count EXCEPT !.unrecorded = @ + 1]
\* what goes wrong in the helper counts as one or the other
Mishap      == IF helper.pc # "off" /\ current # helper.expected THEN Unrecorded ELSE Fault
Waiting     == manager.pc \in {"waiting", "rollingBack"}

-----------------------------------------------------------------------------
(* The manager.                                                            *)

\* startOperation, with the first checks of applyRelease and rollbackRelease
StartOperation(verb, target) ==
    /\ manager.pc = "idle" /\ lock = "free" /\ operation.id < MaxOps
    /\ \/ verb = "apply" /\ target > current /\ current >= MinimumSource[target]
       \/ verb = "rollback" /\ target = state.previous /\ state.compatible
    /\ lock' = "manager"
    /\ manager' = [Idle EXCEPT !.pc = "preparing", !.verb = verb, !.target = target,
                               !.before = current]
    /\ operation' = [id |-> operation.id + 1, status |-> "running"]
    /\ UNCHANGED <<state, requests, helper, count>> /\ UNCHANGED Host /\ UNCHANGED Store

Finish(status) == manager' = Idle /\ operation' = [operation EXCEPT !.status = status]

PreparationFails ==
    /\ manager.pc = "preparing" /\ Finish("failed") /\ lock' = "free"
    /\ UNCHANGED <<state, requests, helper, count>> /\ UNCHANGED Host /\ UNCHANGED Store

Request(verb, target) ==
    requests' = requests \cup {[op |-> operation.id, verb |-> verb, target |-> target,
                                expected |-> current]}

\* runPrivileged: the lock is released before the helper is asked
AskHelper ==
    /\ manager.pc = "preparing" /\ lock' = "free"
    /\ Request(manager.verb, manager.target)
    /\ manager' = [manager EXCEPT !.pc = "waiting"]
    /\ UNCHANGED <<operation, state, helper, count>> /\ UNCHANGED Host /\ UNCHANGED Store

\* deployPrepared and rollbackRelease after a helper that exited 0
RecordSuccess ==
    /\ manager.pc = "waiting" /\ manager.result = "ok" /\ current = manager.target
    /\ state' = [previous |-> manager.before,
                 compatible |-> manager.verb = "apply" /\ manager.target \in Compatible]
    /\ Finish("succeeded")
    /\ UNCHANGED <<lock, requests, helper, count>> /\ UNCHANGED Host /\ UNCHANGED Store

\* its log could not be written: a deployment that succeeded counts as failed
LogFails ==
    /\ manager.pc = "waiting" /\ manager.result = "ok" /\ Unrecorded
    /\ manager' = [manager EXCEPT !.result = "failed"]
    /\ UNCHANGED <<lock, operation, state, requests, helper>> /\ UNCHANGED Host
    /\ UNCHANGED Store

MayRollBackItself == manager.verb = "apply" /\ manager.result = "failed"
                     /\ manager.target \in Compatible

\* deployPrepared: a failure that needs no review is answered by a rollback
RollBackItself ==
    /\ manager.pc = "waiting" /\ MayRollBackItself
    /\ Request("rollback", manager.before)
    /\ manager' = [manager EXCEPT !.pc = "rollingBack", !.result = "none"]
    /\ UNCHANGED <<lock, operation, state, helper, count>> /\ UNCHANGED Host /\ UNCHANGED Store

RecordFailure ==
    /\ Waiting /\ manager.result # "none"
    /\ \/ manager.pc = "rollingBack"
       \/ manager.result = "ok" /\ current # manager.target
       \/ manager.result # "ok" /\ ~MayRollBackItself
    /\ Finish("failed")
    /\ UNCHANGED <<lock, state, requests, helper, count>> /\ UNCHANGED Host /\ UNCHANGED Store

\* the sudo client ends with the manager; the helper it started does not
ManagerCrash ==
    /\ manager.pc # "down" /\ Unrecorded
    /\ manager' = [Idle EXCEPT !.pc = "down"]
    /\ lock' = IF lock = "manager" THEN "free" ELSE lock
    /\ UNCHANGED <<operation, state, requests, helper>> /\ UNCHANGED Host /\ UNCHANGED Store

\* slip: the interval does not look again
ManagerRecovers_Once ==
    /\ manager.pc = "down"
    /\ IF operation.status # "running"
       THEN Finish(operation.status)
       ELSE IF lock = "free"
            THEN Finish("failed")
            ELSE manager' = [Idle EXCEPT !.pc = "recovering"] /\ UNCHANGED operation
    /\ UNCHANGED <<lock, state, requests, helper, count>> /\ UNCHANGED Host /\ UNCHANGED Store

\* recoverInterruptedOperation, at the start and every interval after it
ManagerRecovers ==
    /\ manager.pc \in {"down", "recovering"}
    /\ IF operation.status # "running"
       THEN Finish(operation.status)
       ELSE IF lock = "free"
            THEN Finish("failed")
            ELSE /\ manager.pc = "down" /\ manager' = [Idle EXCEPT !.pc = "recovering"]
                 /\ UNCHANGED operation
    /\ UNCHANGED <<lock, state, requests, helper, count>> /\ UNCHANGED Host /\ UNCHANGED Store

-----------------------------------------------------------------------------
(* The helper.  Result: what the manager that waits for it reads.          *)

Result(op, result) ==
    manager' = IF Waiting /\ operation.id = op THEN [manager EXCEPT !.result = result]
                                               ELSE manager

At(pc)   == helper.pc = pc
Goto(pc) == helper' = [helper EXCEPT !.pc = pc] /\ UNCHANGED lock
Exit(result) == /\ helper' = NoHelper /\ lock' = "free" /\ Result(helper.op, result)
                /\ UNCHANGED <<operation, state, requests>>

\* slip: the manager's word for the compatibility of a rollback
MayDeploy_Trusting(r) ==
    r.expected = current /\ (r.verb = "apply" => r.target >= current)

\* what the helper checks before it changes anything
MayDeploy(r) ==
    /\ r.expected = current
    /\ IF r.verb = "rollback" THEN current \in Compatible ELSE r.target >= current

\* the launcher's flock, then the mutation lock: neither waits
BeginHelper(r) ==
    /\ r \in requests /\ At("off") /\ lock = "free" /\ MayDeploy(r)
    /\ requests' = requests \ {r} /\ lock' = "helper"
    /\ helper' = [NoHelper EXCEPT !.pc = "reviewing", !.op = r.op, !.verb = r.verb,
                                  !.target = r.target, !.expected = r.expected]
    /\ UNCHANGED <<manager, operation, state, count>> /\ UNCHANGED Host
    /\ UNCHANGED Store

\* a lock is held, a check fails, or the release cannot be prepared
RefuseRequest(r) ==
    /\ r \in requests /\ requests' = requests \ {r} /\ Result(r.op, "failed")
    /\ UNCHANGED <<lock, operation, state, helper, count>> /\ UNCHANGED Host
    /\ UNCHANGED Store

\* restoreUnits tries every unit
AllStart(units)  == up' = up \cup units /\ UNCHANGED count
SomeStart(units) == Mishap /\ \E s \in SUBSET units : up' = up \cup s /\ ~ units \subseteq up'

\* withQuiescedRecovery meets the journal of a dead owner
ReviewJournal ==
    /\ At("reviewing")
    /\ \/ AllStart(journal.units) /\ journal.point = 0
          /\ journal' = NoJournal /\ Goto("preflight") /\ UNCHANGED Control
       \/ AllStart(journal.units) /\ journal.point # 0 /\ Exit("review") /\ UNCHANGED journal
       \/ SomeStart(journal.units) /\ Exit("review") /\ UNCHANGED journal
    /\ UNCHANGED <<points, data, current, schema>>

PreflightFails ==
    /\ At("preflight") /\ Exit("failed")
    /\ UNCHANGED count /\ UNCHANGED Host /\ UNCHANGED Store

RecordUnits ==
    /\ At("preflight") /\ journal' = [pending |-> TRUE, units |-> up, point |-> 0]
    /\ helper' = [helper EXCEPT !.pc = "timers", !.original = up]
    /\ UNCHANGED <<lock, points, count>> /\ UNCHANGED Control /\ UNCHANGED Host

\* RecoveryStore.collect may fail before the last one; by age or for want of space it
\* discards any that is not protected
Kept(protected) == {s \in SUBSET points : \A p \in points : p.id = protected => p \in s}
\* and it leaves RetainCount, unless the protected one is older
Collected(protected) ==
    {s \in Kept(protected) : \A p \in s :
        p.id = protected \/ Cardinality({q \in points : q.id > p.id}) < RetainCount}

\* slip: what was stopped so far is not restored
GivesUp_Closing ==
    /\ helper.pc \in {"timers", "services", "point"} /\ Goto("closing")
    /\ IF At("point") THEN points' \in Kept(0) ELSE UNCHANGED points
    /\ UNCHANGED <<journal, count>> /\ UNCHANGED Control /\ UNCHANGED Host

\* backup, cleanup or export still runs, a stop fails, or no point can be made
GivesUp ==
    /\ helper.pc \in {"timers", "services", "point"} /\ Goto("restoring")
    /\ IF At("point") THEN points' \in Kept(0) ELSE UNCHANGED points
    /\ UNCHANGED <<journal, count>> /\ UNCHANGED Control /\ UNCHANGED Host

\* slip: timers run through the deployment
StopTimers_Kept ==
    /\ At("timers") /\ Goto("services")
    /\ UNCHANGED <<up, data, current, schema, count>> /\ UNCHANGED Control
    /\ UNCHANGED Store

StopTimers ==
    /\ At("timers") /\ up' = up \ {"timers"} /\ Goto("services")
    /\ UNCHANGED <<data, current, schema, count>> /\ UNCHANGED Control /\ UNCHANGED Store

StopServices ==
    /\ At("services") /\ up' = up \ {"services"} /\ Goto("point")
    /\ UNCHANGED <<data, current, schema, count>> /\ UNCHANGED Control /\ UNCHANGED Store

CreatePoint ==
    /\ At("point")
    /\ \E kept \in Collected(0) :
          points' = kept \cup {[id |-> count.points + 1, data |-> data, release |-> current]}
    /\ count' = [count EXCEPT !.points = @ + 1]
    /\ helper' = [helper EXCEPT !.pc = "recorded", !.point = count.points + 1]
    /\ UNCHANGED <<lock, journal>> /\ UNCHANGED Control /\ UNCHANGED Host

RecordPoint ==
    /\ At("recorded") /\ journal' = [journal EXCEPT !.point = helper.point]
    /\ Goto("deploying")
    /\ UNCHANGED <<points, count>> /\ UNCHANGED Control /\ UNCHANGED Host

\* prepare-host.sh moves the current link
SwitchRelease ==
    /\ At("deploying") /\ current' = helper.target /\ Goto("activating")
    /\ UNCHANGED <<up, data, schema, count>> /\ UNCHANGED Control /\ UNCHANGED Store

\* the services start, migrate the database and pass the checks
Activate ==
    /\ At("activating") /\ schema' = Later(schema, current) /\ up' = Units
    /\ helper' = [helper EXCEPT !.pc = "restoring", !.completed = TRUE]
    /\ UNCHANGED <<lock, data, current, count>> /\ UNCHANGED Control /\ UNCHANGED Store

Migrated == schema' \in IF At("activating") THEN {schema, Later(schema, current)} ELSE {schema}

\* the deployment driver fails, here or there, and restarts what it can
DeploymentFails ==
    /\ helper.pc \in {"deploying", "activating"} /\ Mishap /\ Migrated
    /\ up' \in SUBSET Units /\ Goto("restoring")
    /\ UNCHANGED <<data, current>> /\ UNCHANGED Control /\ UNCHANGED Store

\* slip: a unit that did not start is logged and forgotten
Restore_Anyway ==
    /\ At("restoring")
    /\ AllStart(helper.original) \/ SomeStart(helper.original)
    /\ Goto("closing")
    /\ UNCHANGED <<journal, points, data, current, schema>> /\ UNCHANGED Control

\* the finally block
Restore ==
    /\ At("restoring")
    /\ \/ AllStart(helper.original) /\ Goto("closing") /\ UNCHANGED Control
       \/ SomeStart(helper.original) /\ Exit("review")
    /\ UNCHANGED <<journal, points, data, current, schema>>

CloseJournal ==
    /\ At("closing")
    /\ IF helper.completed \/ helper.point = 0
       THEN /\ journal' = NoJournal
            /\ Exit(IF helper.completed THEN "ok" ELSE "failed")
            /\ IF helper.completed
               THEN points' \in Kept(helper.point)
               ELSE UNCHANGED points
       ELSE Exit("review") /\ UNCHANGED Store
    /\ UNCHANGED count /\ UNCHANGED Host

\* SIGKILL or the two hours' limit, wherever it is; no stderr tells of a review
HelperKilled ==
    /\ helper.pc # "off" /\ Exit("failed") /\ Mishap /\ Migrated
    /\ IF At("activating") THEN up' \in SUBSET Units ELSE UNCHANGED up
    /\ UNCHANGED <<data, current>> /\ UNCHANGED Store

-----------------------------------------------------------------------------
(* The host and its operator.                                              *)

\* worker-reconcile and lan-renew start services
TimerFires ==
    /\ "timers" \in up /\ "services" \notin up /\ up' = Units
    /\ UNCHANGED <<lock, helper, data, current, schema, count>> /\ UNCHANGED Control
    /\ UNCHANGED Store

Write == /\ "services" \in up /\ data < MaxWrites /\ data' = data + 1
         /\ UNCHANGED <<lock, helper, up, current, schema, count>> /\ UNCHANGED Control
         /\ UNCHANGED Store

\* the enabled units start again; /run, with the lock, is empty
Reboot ==
    /\ Unrecorded /\ lock' = "free" /\ helper' = NoHelper /\ requests' = {}
    /\ manager' = [Idle EXCEPT !.pc = "down"] /\ up' = Units
    /\ UNCHANGED <<operation, state, data, current, schema>> /\ UNCHANGED Store

\* slip: the pending journal is not looked at
CollectGarbage_Pending ==
    /\ lock = "free" /\ At("off") /\ points' \in Collected(0)
    /\ UNCHANGED <<lock, helper, journal, count>> /\ UNCHANGED Control /\ UNCHANGED Host

\* the gc verb, by its timer or by hand: nothing while a journal is pending
CollectGarbage ==
    /\ lock = "free" /\ At("off") /\ ~ journal.pending
    /\ points' \in Collected(0)
    /\ UNCHANGED <<lock, helper, journal, count>> /\ UNCHANGED Control /\ UNCHANGED Host

\* the acknowledge verb, which names the pending point
Acknowledge ==
    /\ lock = "free" /\ At("off") /\ journal.point # 0
    /\ \/ AllStart(journal.units) /\ journal' = NoJournal
       \/ SomeStart(journal.units) /\ UNCHANGED journal
    /\ UNCHANGED <<lock, helper, points, data, current, schema>> /\ UNCHANGED Control

-----------------------------------------------------------------------------
ManagerStep ==
    \/ PreparationFails \/ AskHelper \/ RecordSuccess \/ RollBackItself \/ RecordFailure
    \/ ManagerRecovers
HelperStep ==
    \/ ReviewJournal \/ RecordUnits \/ StopTimers \/ StopServices \/ CreatePoint
    \/ RecordPoint \/ SwitchRelease \/ Activate \/ Restore \/ CloseJournal

Next ==
    \/ \E verb \in Verb, target \in Releases : StartOperation(verb, target)
    \/ \E r \in requests : BeginHelper(r) \/ RefuseRequest(r)
    \/ ManagerStep \/ HelperStep
    \/ LogFails \/ ManagerCrash \/ PreflightFails \/ GivesUp \/ DeploymentFails
    \/ HelperKilled \/ TimerFires \/ Write \/ Reboot \/ CollectGarbage \/ Acknowledge

Spec == Init /\ [][Next]_vars

\* systemd restarts the manager, which looks again at every interval; a request
\* is answered; the helper ends within its two hours
FairSpec ==
    /\ Spec /\ WF_vars(ManagerStep) /\ WF_vars(HelperStep)
    /\ WF_vars(\E r \in requests : BeginHelper(r) \/ RefuseRequest(r))

-----------------------------------------------------------------------------
(* Properties.                                                             *)

TypeOK ==
    /\ lock \in {"free", "manager", "helper"}
    /\ manager \in Manager /\ operation \in Operation /\ state \in Previous
    /\ requests \subseteq Requested /\ helper \in Helper
    /\ journal \in Journal /\ points \subseteq Point
    /\ up \subseteq Units /\ data \in 0..MaxWrites
    /\ current \in Releases /\ schema \in Releases
    /\ count \in Count

\* A unit that a deployment stopped runs again or is in the journal, from which the
\* next attempt, the operator's acknowledgement or a reboot starts it: no kill and no
\* failed start forgets it.
UnitsRemembered == \A u \in Units : u \in up \/ (journal.pending /\ u \in journal.units)

\* The recovery point of a deployment that is under way, or that failed and has not
\* been reviewed, is in the store: no collection takes it.
PendingPointKept == journal.point # 0 => \E p \in points : p.id = journal.point

\* The installed release changes over a point named in the journal that holds exactly
\* the data and the release it replaces: no service and no timer wrote in between.
PointHoldsWhatItReplaces ==
    [][current' # current =>
         \E p \in points : p.id = journal.point /\ p.data = data /\ p.release = current]_vars

\* The installed release has run, or its successors declare that it can run, on the
\* schema the database has been migrated to.
SchemaServesRelease == \A r \in Releases : current < r /\ r <= schema => r \in Compatible

\* An operation ends, whatever became of its manager and its helper.
OperationEnds == operation.status = "running" ~> operation.status # "running"

\* Units that a deployment stopped run again, or a journal that no helper works on
\* names them.
UnitsReturn == up # Units ~> up = Units \/ (helper.pc = "off" /\ journal.pending)
=============================================================================
