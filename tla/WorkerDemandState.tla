------------------------- MODULE WorkerDemandState -------------------------
(***************************************************************************)
(* The state of a worker on demand, its hints, its engine and the          *)
(* deployment beside it, and what holds in every reachable one.  The steps *)
(* are in WorkerDemand.                                                    *)
(***************************************************************************)
EXTENDS Naturals

CONSTANT Jobs

VARIABLES jobs,        \* state of each job in the database
          late,        \* jobs committed after the worker's last look at the database
          due,         \* has the last maintenance passed its 15 minutes?
          senders,     \* the API process and the timer's process
          listening,   \* does systemd listen for hints?
          backlog,     \* connections nobody accepted
          worker,      \* the worker's process
          containers,  \* jobs with a container
          engine,      \* is the container engine running?
          collector,   \* where the engine's collector is
          deployment   \* where the deployment is

Worker == [pc : {"off", "failed", "boot", "loop", "drain", "closing"},
           engine  : BOOLEAN,   \* prepareEngineLease succeeded: shared lock held
           trees   : {"untried", "collected", "failed"},   \* maintenanceHealthy
           term    : BOOLEAN,   \* shutdown.signal.aborted
           error   : BOOLEAN]   \* runWorker threw
NoWorker == [pc |-> "off", engine |-> FALSE, trees |-> "untried", term |-> FALSE, error |-> FALSE]

Asleep == worker.pc = "off"

\* The collector never stops the engine under a worker that was promised it, or under a
\* container: one a crashed worker left behind included.
EngineKept == (worker.engine \/ containers # {}) => engine

\* Once a deployment found the worker stopped, no hint and no restart brings it back before
\* the deployment restores the listener.
QuiescedStaysOff == deployment = "quiesced" => Asleep

\* A job committed before the last look of a worker that went to sleep left a hint in the
\* socket for the next process, whatever became of the hint of its own commit.
HintRetained ==
    (Asleep /\ listening /\ \E j \in Jobs \ late : jobs[j] \in {"queued", "orphan"})
        => backlog > 0
=============================================================================
