---------------------------- MODULE WorkerDemand ----------------------------
(***************************************************************************)
(* A worker that exits when it is idle, and what wakes it: hints on a      *)
(* socket that systemd keeps, sent after commits and by a timer            *)
(* (deploy/scripts/worker-demand.mjs, reconcile-worker.mjs,                *)
(* apps/renderer-worker/src/index.ts, worker.ts), with the collector that  *)
(* stops the idle container engine (idle-container-engine.mjs) and a       *)
(* deployment that stops the timers, the socket and the worker             *)
(* (update-recovery-host.mjs).                                             *)
(*                                                                         *)
(* A hint is a connection, counted: nobody acts on what its sender learns, *)
(* and the worker answers a hint, within a second, as it accepts it.       *)
(* The lease of an attempt, in JobLease in detail, is here a job's state.  *)
(***************************************************************************)
EXTENDS WorkerDemandState, FiniteSets

CONSTANTS Backlog,        \* connections the socket holds (128 in the unit)
          MaxFaults,      \* bound: crashes and expired deadlines
          MaxEvents       \* bound: deployments, and times maintenance becomes due

ASSUME WorkerDemandAssumption ==
    Backlog \in Nat \ {0} /\ {MaxFaults, MaxEvents} \subseteq Nat

VARIABLE count            \* what the bounds count

vars == <<jobs, late, due, senders, listening, backlog, worker, containers, engine,
          collector, deployment, count>>
Data    == <<jobs, late, due>>
Socket  == <<listening, backlog>>
Docker  == <<containers, engine>>
Hosts   == <<collector, deployment, count>>

Init == /\ jobs = [j \in Jobs |-> "none"] /\ late = {} /\ due = FALSE
        /\ senders = [s \in {"api", "timer"} |-> "idle"]
        /\ listening = TRUE /\ backlog = 0
        /\ worker = NoWorker /\ containers = {} /\ engine = FALSE
        /\ collector = "idle" /\ deployment = "idle"
        /\ count = [faults |-> 0, events |-> 0]

\* workerHasDemand
Demand     == \E j \in Jobs : jobs[j] \in {"queued", "running", "orphan"}
At(pc)     == worker.pc = pc
Goto(pc)   == worker' = [worker EXCEPT !.pc = pc]
Fault      == count.faults < MaxFaults /\ count' = [count EXCEPT !.faults = @ + 1]
Event      == count.events < MaxEvents /\ count' = [count EXCEPT !.events = @ + 1]
TimersOn   == deployment \in {"idle", "locked"}
MutationFree == collector = "idle" /\ deployment = "idle"

-----------------------------------------------------------------------------
(* Hints.                                                                  *)

\* RendererDatabase.transaction, then notifyWorkerAfterCommit: one notification at a time
Commit(j) ==
    /\ jobs[j] = "none" /\ jobs' = [jobs EXCEPT ![j] = "queued"]
    /\ late' = IF At("closing") \/ At("off") THEN late \cup {j} ELSE late
    /\ senders' = IF senders["api"] = "idle" THEN [senders EXCEPT !["api"] = "connecting"]
                                             ELSE senders
    /\ UNCHANGED <<due, worker>> /\ UNCHANGED Socket /\ UNCHANGED Docker
    /\ UNCHANGED Hosts

\* notifyWorker: the connection waits in the socket's backlog, or is refused.
CanConnect == listening /\ backlog < Backlog
Connect(s) ==
    /\ senders[s] = "connecting"
    /\ IF CanConnect
       THEN backlog' = backlog + 1 /\ senders' = [senders EXCEPT ![s] = "waiting"]
       ELSE senders' = [senders EXCEPT ![s] = "idle"] /\ UNCHANGED backlog
    /\ UNCHANGED <<listening, worker>> /\ UNCHANGED Data /\ UNCHANGED Docker
    /\ UNCHANGED Hosts

\* The answer, or the end of the second a sender waits.
Answered(s) ==
    /\ senders[s] = "waiting" /\ senders' = [senders EXCEPT ![s] = "idle"]
    /\ UNCHANGED <<worker>> /\ UNCHANGED Data /\ UNCHANGED Socket /\ UNCHANGED Docker
    /\ UNCHANGED Hosts

\* The API process dies between its commit and its hint.
SenderCrash ==
    /\ senders["api"] = "connecting" /\ senders' = [senders EXCEPT !["api"] = "idle"] /\ Fault
    /\ UNCHANGED <<worker, collector, deployment>> /\ UNCHANGED Data
    /\ UNCHANGED Socket /\ UNCHANGED Docker

MaintenanceDue ==
    /\ ~due /\ due' = TRUE /\ Event
    /\ UNCHANGED <<jobs, late, senders, worker, collector, deployment>>
    /\ UNCHANGED Socket /\ UNCHANGED Docker

\* reconcileWorker reads the database, then looks at the socket.
ReconcileDue_Maintenance == due
ReconcileDue == Demand \/ due
Reconcile ==
    /\ senders["timer"] = "idle" /\ TimersOn /\ ReconcileDue
    /\ senders' = [senders EXCEPT !["timer"] = "checked"]
    /\ UNCHANGED <<worker>> /\ UNCHANGED Data /\ UNCHANGED Socket /\ UNCHANGED Docker
    /\ UNCHANGED Hosts
ReconcileNotify ==
    /\ senders["timer"] = "checked"
    /\ senders' = [senders EXCEPT !["timer"] = IF listening THEN "connecting" ELSE "idle"]
    /\ UNCHANGED <<worker>> /\ UNCHANGED Data /\ UNCHANGED Socket /\ UNCHANGED Docker
    /\ UNCHANGED Hosts

-----------------------------------------------------------------------------
(* The worker's process.                                                   *)

\* systemd: a connection waits, or the last process failed (Restart=on-failure).
Activate ==
    /\ \/ At("off") /\ listening /\ backlog > 0
       \/ At("failed")
    /\ worker' = [NoWorker EXCEPT !.pc = "boot"] /\ late' = {}
    /\ UNCHANGED <<jobs, due, senders>> /\ UNCHANGED Socket /\ UNCHANGED Docker
    /\ UNCHANGED Hosts

\* runWorker: without demand it starts for maintenance only, without the engine.
Boot ==
    /\ At("boot") /\ (Demand => worker.engine) /\ Goto("loop")
    /\ UNCHANGED <<senders>> /\ UNCHANGED Data /\ UNCHANGED Socket /\ UNCHANGED Docker
    /\ UNCHANGED Hosts

\* prepareEngineLease: the shared lock, then the engine.
LockHeldExclusively_Early == collector \in {"exclusive", "checked", "demand"}
LockHeldExclusively == collector \in {"exclusive", "checked", "demand", "stop"}
PrepareEngine ==
    /\ (At("boot") \/ At("loop")) /\ Demand /\ ~worker.engine /\ ~LockHeldExclusively
    /\ worker' = [worker EXCEPT !.engine = TRUE] /\ engine' = TRUE
    /\ UNCHANGED <<senders, containers>> /\ UNCHANGED Data /\ UNCHANGED Socket
    /\ UNCHANGED Hosts

\* It gives up after two minutes, or something else fails: runWorker throws.
Throw ==
    /\ (At("boot") \/ At("loop")) /\ \A j \in Jobs : jobs[j] # "running"
    /\ worker' = [worker EXCEPT !.pc = "closing", !.error = TRUE]
    /\ late' = {}
    /\ backlog' = IF listening /\ Demand /\ ~worker.term /\ backlog < Backlog THEN backlog + 1
                                                                            ELSE backlog
    /\ Fault
    /\ UNCHANGED <<jobs, due, senders, listening, collector, deployment>> /\ UNCHANGED Docker

\* The wake listener accepts and answers what waits, in a turn of the event loop.
Accept ==
    /\ worker.pc \in {"boot", "loop", "drain"} /\ backlog > 0
    /\ backlog' = 0
    /\ UNCHANGED <<senders, listening, worker>> /\ UNCHANGED Data /\ UNCHANGED Docker
    /\ UNCHANGED Hosts

\* recoverStaleLeases: the container of a dead attempt goes before its lease.
Recover(j) ==
    /\ At("loop") /\ worker.engine /\ jobs[j] = "orphan"
    /\ jobs' = [jobs EXCEPT ![j] = "queued"] /\ containers' = containers \ {j}
    /\ UNCHANGED <<late, due, senders, worker, engine>> /\ UNCHANGED Socket
    /\ UNCHANGED Hosts

\* recoverSourceTreeReaders and collectSourceTrees, at first and every 15 minutes.
Maintain ==
    /\ At("loop") /\ (worker.trees # "collected" \/ due)
    /\ \/ due' = FALSE /\ worker' = [worker EXCEPT !.trees = "collected"] /\ UNCHANGED count
       \/ worker' = [worker EXCEPT !.trees = "failed"] /\ Fault /\ UNCHANGED due
    /\ UNCHANGED <<jobs, late, senders, collector, deployment>> /\ UNCHANGED Socket
    /\ UNCHANGED Docker

Claim(j) ==
    /\ At("loop") /\ worker.engine /\ ~worker.term
    /\ jobs[j] = "queued" /\ \A k \in Jobs : jobs[k] \notin {"running", "orphan"}
    /\ jobs' = [jobs EXCEPT ![j] = "running"] /\ containers' = containers \cup {j}
    /\ UNCHANGED <<late, due, senders, worker, engine>> /\ UNCHANGED Socket
    /\ UNCHANGED Hosts
Finish(j) ==
    /\ At("loop") /\ jobs[j] = "running"
    /\ jobs' = [jobs EXCEPT ![j] = "done"] /\ containers' = containers \ {j}
    /\ UNCHANGED <<late, due, senders, worker, engine>> /\ UNCHANGED Socket
    /\ UNCHANGED Hosts

\* No demand for the timeout, which is zero in a process started for maintenance.
MaySleep == ~Demand /\ worker.trees = "collected"
IdleExit ==
    /\ At("loop") /\ ~worker.term /\ MaySleep /\ Goto("drain")
    /\ UNCHANGED <<senders>> /\ UNCHANGED Data /\ UNCHANGED Socket /\ UNCHANGED Docker
    /\ UNCHANGED Hosts

\* listener.drain ends when it accepted and answered everything, or after two seconds;
\* then listener.close and the last look at the database, without an await between.
Drained_Assumed == TRUE
Drained == backlog = 0
HintForNext_None == FALSE
HintForNext == Demand
Close ==
    /\ At("drain")
    /\ \/ Drained /\ UNCHANGED count
       \/ ~Drained /\ Fault
    /\ Goto("closing") /\ late' = {}
    /\ backlog' = IF listening /\ ~worker.term /\ HintForNext /\ backlog < Backlog
                  THEN backlog + 1 ELSE backlog
    /\ UNCHANGED <<jobs, due, senders, listening, collector, deployment>> /\ UNCHANGED Docker

\* SIGTERM: the attempt in progress ends first; no hint is left.
Terminate ==
    /\ (At("loop") \/ At("boot")) /\ worker.term /\ \A j \in Jobs : jobs[j] # "running"
    /\ Goto("closing")
    /\ UNCHANGED senders /\ UNCHANGED Data /\ UNCHANGED Socket /\ UNCHANGED Docker
    /\ UNCHANGED Hosts

Exit ==
    /\ At("closing")
    /\ worker' = IF worker.error /\ ~worker.term THEN [NoWorker EXCEPT !.pc = "failed"]
                                                 ELSE NoWorker
    /\ UNCHANGED <<senders>> /\ UNCHANGED Data /\ UNCHANGED Socket /\ UNCHANGED Docker
    /\ UNCHANGED Hosts

\* Killed, by the system or by systemd after the 15 minutes of a stop.
Crash ==
    /\ worker.pc \notin {"off", "failed"} /\ Fault
    /\ worker' = IF worker.term THEN NoWorker ELSE [NoWorker EXCEPT !.pc = "failed"]
    /\ jobs' = [j \in Jobs |-> IF jobs[j] = "running" THEN "orphan" ELSE jobs[j]]
    /\ UNCHANGED <<late, due, senders, collector, deployment>> /\ UNCHANGED Socket
    /\ UNCHANGED Docker

-----------------------------------------------------------------------------
(* idleContainerEngine: both locks, then the checks, then the stop.        *)

Collect(from, to, may) ==
    /\ collector = from /\ collector' = IF may THEN to ELSE "idle"
    /\ UNCHANGED <<senders, worker, containers, deployment, count>>
    /\ UNCHANGED Data /\ UNCHANGED Socket

MayLockExclusively == ~worker.engine
CollectLock       == TimersOn /\ MutationFree /\ Collect("idle", "mutation", TRUE)
                     /\ UNCHANGED engine
CollectExclusive  == Collect("mutation", "exclusive", MayLockExclusively) /\ UNCHANGED engine
CollectServices   == Collect("exclusive", "checked", At("off")) /\ UNCHANGED engine
CollectDemand     == Collect("checked", "demand", ~Demand) /\ UNCHANGED engine
CollectContainers == Collect("demand", "stop", engine /\ containers = {}) /\ UNCHANGED engine
CollectStop       == Collect("stop", "idle", TRUE) /\ engine' = FALSE

Collecting == CollectLock \/ CollectExclusive \/ CollectServices \/ CollectDemand
              \/ CollectContainers \/ CollectStop

-----------------------------------------------------------------------------
(* withQuiescedRecovery, as far as the worker sees it.                     *)

Step(from, to) == deployment = from /\ deployment' = to
StopListener_Left == UNCHANGED <<listening, backlog>>
StopListener == listening' = FALSE /\ backlog' = 0
StopService  == worker' = IF worker.pc \in {"off", "failed"} THEN NoWorker
                                                            ELSE [worker EXCEPT !.term = TRUE]
Deploy ==
    /\ MutationFree /\ Step("idle", "locked") /\ Event
    /\ UNCHANGED <<senders, worker, collector>> /\ UNCHANGED Data /\ UNCHANGED Socket
    /\ UNCHANGED Docker
StopTimers ==
    /\ Step("locked", "timers")
    /\ UNCHANGED <<senders, worker, collector, count>> /\ UNCHANGED Data
    /\ UNCHANGED Socket /\ UNCHANGED Docker
\* controlService("stop"): the listener, then the service
StopFirst ==
    /\ Step("timers", "listener") /\ StopListener
    /\ UNCHANGED <<senders, worker, collector, count>> /\ UNCHANGED Data
    /\ UNCHANGED Docker
StopSecond ==
    /\ Step("listener", "stopping") /\ StopService
    /\ UNCHANGED <<senders, collector, count>> /\ UNCHANGED Data /\ UNCHANGED Socket
    /\ UNCHANGED Docker
Quiesced ==
    /\ At("off") /\ Step("stopping", "quiesced")
    /\ UNCHANGED <<senders, worker, collector, count>> /\ UNCHANGED Data
    /\ UNCHANGED Socket /\ UNCHANGED Docker
\* restoreUnits: applications, by their listeners, before timers
RestoreListener ==
    /\ Step("quiesced", "restored") /\ listening' = TRUE
    /\ late' = Jobs
    /\ UNCHANGED <<jobs, due, senders, backlog, worker, collector, count>>
    /\ UNCHANGED Docker
RestoreTimers ==
    /\ Step("restored", "idle")
    /\ UNCHANGED <<senders, worker, collector, count>> /\ UNCHANGED Data
    /\ UNCHANGED Socket /\ UNCHANGED Docker

Deploying == Deploy \/ StopTimers \/ StopFirst \/ StopSecond \/ Quiesced
             \/ RestoreListener \/ RestoreTimers

-----------------------------------------------------------------------------
Hinting(s) == Connect(s) \/ Answered(s)
Working    == Boot \/ PrepareEngine \/ Maintain \/ IdleExit \/ Close \/ Terminate \/ Exit
              \/ \E j \in Jobs : Recover(j) \/ Claim(j) \/ Finish(j)
Next == \/ \E j \in Jobs : Commit(j)
        \/ \E s \in {"api", "timer"} : Hinting(s)
        \/ SenderCrash \/ MaintenanceDue \/ Reconcile \/ ReconcileNotify
        \/ Activate \/ Working \/ Accept \/ Throw \/ Crash
        \/ Collecting \/ Deploying

Spec == Init /\ [][Next]_vars
\* Strong where a timer, once a minute, is in the way of what is retried every 100 ms (the
\* shared lock) or lasts two seconds (the drain).
Fairness ==
    /\ \A s \in {"api", "timer"} : WF_vars(Hinting(s))
    /\ WF_vars(Reconcile) /\ WF_vars(ReconcileNotify)
    /\ WF_vars(Activate) /\ WF_vars(Working) /\ WF_vars(Accept) /\ SF_vars(PrepareEngine) /\ SF_vars(Close)
    /\ WF_vars(Collecting) /\ WF_vars(Deploying)
FairSpec == Spec /\ Fairness

\* The type of the state, and the bounds.
TypeOK ==
    /\ jobs \in [Jobs -> {"none", "queued", "running", "orphan", "done"}]
    /\ late \subseteq Jobs /\ due \in BOOLEAN
    /\ senders \in [{"api", "timer"} -> {"idle", "checked", "connecting", "waiting"}]
    /\ listening \in BOOLEAN /\ backlog \in 0..Backlog
    /\ worker \in Worker /\ containers \subseteq Jobs /\ engine \in BOOLEAN
    /\ collector \in {"idle", "mutation", "exclusive", "checked", "demand", "stop"}
    /\ deployment \in {"idle", "locked", "timers", "listener", "stopping", "quiesced",
                       "restored"}
    /\ count \in [faults : 0..MaxFaults, events : 0..MaxEvents]

\* No lost hint, crash or deployment leaves a committed job without a worker.
JobsServed == \A j \in Jobs : (jobs[j] = "queued") ~> (jobs[j] = "done")

\* With no new work the worker stays asleep, woken by no stale hint, and the engine stops.
SleepsAgain == <>[](At("off") /\ ~engine)
=============================================================================
