---------------------------- MODULE SourceTrees ----------------------------
(***************************************************************************)
(* The cache of extracted and validated source archives: jobs that read a  *)
(* tree under a pin, jobs that add one, the recovery of the pins of dead   *)
(* attempts, and two collectors, that of the worker's loop and that of the *)
(* hourly cleanup (apps/renderer-worker/src/source-tree-cache.ts,          *)
(* packages/database/src/repositories/source-trees.ts,                     *)
(* deploy/scripts/source-tree-gc.mjs).                                     *)
(*                                                                         *)
(* All trees are of one size.  The identity of a tree is its source: owner *)
(* and limits are the same throughout.                                     *)
(***************************************************************************)
EXTENDS Naturals, FiniteSets

CONSTANTS Worker, Job, Source, Tree, NoOwner, NoTree, NoJob,
          Orders,     \* which source each job may render
          Capacity,   \* how many trees the budget has room for
          MaxRuns,    \* bound: leases a job gets
          MaxFaults   \* bound: crashes, stalls, Docker outages and failed removals

ASSUME SourceTreesAssumption ==
    /\ NoOwner \notin Worker /\ NoTree \notin Tree /\ NoJob \notin Job /\ Source # {}
    /\ Orders \subseteq [Job -> Source]
    /\ {Capacity, MaxRuns, MaxFaults} \subseteq Nat

VARIABLES jobs,        \* lease owner and generation of each job
          ready,       \* sources that are ready
          trees,       \* source_trees; ids are random and never used twice
          aged,        \* trees past expires_at
          pins,        \* source_tree_readers
          dirs,        \* source-trees/<id>
          inputs,      \* those of them that hold a complete input
          containers,  \* containers, the tree each has mounted, and whether its attempt
                       \* had the lease when the daemon started it, for the property only
          proc,        \* where each worker process is
          timer,       \* where the collector of the hourly cleanup is
          faults,
          sourceOf,    \* the source each job renders
          overlap      \* may a process start while another one is alive?

vars == <<jobs, ready, trees, aged, pins, dirs, inputs, containers, proc, timer, faults>>

Gen       == 0..MaxRuns
Row       == [status : {"none", "building", "ready", "invalid", "deleting", "gone"},
              source : Source]
Pin       == [tree : Tree, job : Job, gen : Gen]
Container == [job : Job, gen : Gen, tree : Tree \cup {NoTree}, leased : BOOLEAN]
Places    == {"off", "dead", "idle", "claimed", "verify", "extract", "reserve", "again",
              "promote", "publish", "run", "starting", "running", "commit", "release",
              "stop_reader", "free_reader", "gc_remove", "gc_row", "pressure_remove",
              "pressure_row"}
Process   == [pc : Places, job : Job \cup {NoJob}, gen : Gen, tree : Tree \cup {NoTree},
              victim : Tree \cup {NoTree}]
Resting(pc) == [pc |-> pc, job |-> NoJob, gen |-> 0, tree |-> NoTree, victim |-> NoTree]

Init == /\ jobs = [j \in Job |-> [owner |-> NoOwner, gen |-> 0, expired |-> FALSE]]
        /\ ready = Source
        /\ trees = [t \in Tree |-> [status |-> "none", source |-> CHOOSE s \in Source : TRUE]]
        /\ aged = {} /\ pins = {} /\ dirs = {} /\ inputs = {} /\ containers = {}
        /\ proc = [w \in Worker |-> Resting("off")]
        /\ timer = [pc |-> "idle", victim |-> NoTree]
        /\ faults = 0 /\ sourceOf \in Orders /\ overlap \in BOOLEAN

At(w, pc)   == proc[w].pc = pc
Goto(w, pc) == proc' = [proc EXCEPT ![w].pc = pc]
Rest(w)     == proc' = [proc EXCEPT ![w] = Resting("idle")]
Fallback(w) == proc' = [proc EXCEPT ![w].pc = "run", ![w].tree = NoTree]
Mine(w)     == [tree |-> proc[w].tree, job |-> proc[w].job, gen |-> proc[w].gen]
Wants(w)    == sourceOf[proc[w].job]
Exists(t)   == trees[t].status \notin {"none", "gone"}
Fault       == faults < MaxFaults /\ faults' = faults + 1

Cache == <<trees, aged, pins>>
Disk  == <<dirs, inputs>>
Rest4 == <<jobs, ready, containers, timer>>

\* ownedJob: some owner holds the job under this generation, and its source is ready.
OwnedJob(w) == LET j == proc[w].job IN
               jobs[j].gen = proc[w].gen /\ jobs[j].owner # NoOwner /\ sourceOf[j] \in ready
Holds(w)    == LET j == proc[w].job IN jobs[j].gen = proc[w].gen /\ jobs[j].owner = w

-----------------------------------------------------------------------------
(* An attempt: prepareSourceInput, the container, and the release.         *)

Claim(w, j) ==
    /\ At(w, "idle") /\ jobs[j].owner = NoOwner /\ jobs[j].gen < MaxRuns
    /\ jobs' = [jobs EXCEPT ![j] = [owner |-> w, gen |-> @.gen + 1, expired |-> FALSE]]
    /\ proc' = [proc EXCEPT ![w] = [Resting("claimed") EXCEPT !.job = j,
                                                              !.gen = jobs[j].gen + 1]]
    /\ UNCHANGED <<ready, containers, timer, faults>> /\ UNCHANGED Cache /\ UNCHANGED Disk

\* acquire: a ready tree of this source is pinned in the transaction that finds it.
Acquired(w) == {t \in Tree : trees[t].status = "ready" /\ trees[t].source = Wants(w)} \ aged
Acquire(w) ==
    /\ At(w, "claimed")
    /\ IF OwnedJob(w) /\ Acquired(w) # {}
         THEN \E t \in Acquired(w) :
                /\ pins' = pins \cup {[tree |-> t, job |-> proc[w].job, gen |-> proc[w].gen]}
                /\ proc' = [proc EXCEPT ![w].pc = "verify", ![w].tree = t]
         ELSE pins' = pins /\ Goto(w, "extract")
    /\ UNCHANGED <<trees, aged, faults>> /\ UNCHANGED Disk /\ UNCHANGED Rest4

\* invalidate, which leaves alone what a collector has taken.
Invalidated(t) == [trees EXCEPT ![t].status = IF @ \in {"building", "ready"} THEN "invalid"
                                                                            ELSE @]

\* verifyValidatedSourceTree; a tree that is not what it was is given up.
Verify(w) ==
    /\ At(w, "verify")
    /\ \/ /\ proc[w].tree \in inputs
          /\ Goto(w, "run") /\ UNCHANGED <<trees, pins>>
       \/ /\ trees' = Invalidated(proc[w].tree)
          /\ pins' = pins \ {Mine(w)}
          /\ proc' = [proc EXCEPT ![w].pc = "extract", ![w].tree = NoTree]
    /\ UNCHANGED <<aged, faults>> /\ UNCHANGED Disk /\ UNCHANGED Rest4

\* The archive is extracted into the attempt; it may be wrong, or not worth caching.
Extract(w) ==
    /\ At(w, "extract")
    /\ Goto(w, "reserve") \/ Fallback(w) \/ Goto(w, "commit")
    /\ UNCHANGED faults /\ UNCHANGED Cache /\ UNCHANGED Disk /\ UNCHANGED Rest4

\* reserve: the budget counts every row, those being deleted too.
Counted_Kept(t) == Exists(t) /\ trees[t].status # "deleting"
Counted(t)      == Exists(t)
HasRoom(w) == /\ Cardinality({t \in Tree : Counted(t)}) < Capacity
              /\ \A t \in Tree : Exists(t) => trees[t].source # Wants(w)

Reserved(w, t) ==
    /\ OwnedJob(w) /\ HasRoom(w) /\ trees[t].status = "none"
    /\ trees' = [trees EXCEPT ![t] = [status |-> "building", source |-> Wants(w)]]
    /\ pins' = pins \cup {[tree |-> t, job |-> proc[w].job, gen |-> proc[w].gen]}
    /\ proc' = [proc EXCEPT ![w].pc = "promote", ![w].tree = t]

Reserve(w) ==
    /\ proc[w].pc \in {"reserve", "again"}
    /\ \/ \E t \in Tree : Reserved(w, t) /\ UNCHANGED <<aged, faults>>
       \/ /\ ~(OwnedJob(w) /\ HasRoom(w) /\ \E t \in Tree : trees[t].status = "none")
          /\ At(w, "again") /\ Fallback(w)
          /\ UNCHANGED faults /\ UNCHANGED Cache
    /\ UNCHANGED Disk /\ UNCHANGED Rest4

\* mkdir of the directory and rename of the input into it, or what fails of them.
Promote(w) ==
    LET t == proc[w].tree IN
    /\ At(w, "promote")
    /\ \/ /\ dirs' = dirs \cup {t} /\ inputs' = inputs \cup {t}
          /\ Goto(w, "publish") /\ UNCHANGED <<trees, pins>>
       \/ /\ dirs' \in {dirs, dirs \cup {t}} /\ inputs' = inputs
          /\ trees' = Invalidated(t) /\ pins' = pins \ {Mine(w)}
          /\ Fallback(w)
    /\ UNCHANGED <<aged, faults>> /\ UNCHANGED Rest4

\* publish changes nothing when recovery and a collector were there meanwhile.
Published_Always(t) == [trees EXCEPT ![t].status = "ready"]
Published(t) == [trees EXCEPT ![t].status = IF @ = "building" THEN "ready" ELSE @]
Publish(w) ==
    /\ At(w, "publish")
    /\ trees' = Published(proc[w].tree)
    /\ Goto(w, "run")
    /\ UNCHANGED <<aged, pins, faults>> /\ UNCHANGED Disk /\ UNCHANGED Rest4

\* The transition to running, for the owner of the lease; in the same turn the Docker
\* CLI is launched.
CanRun(w) == Holds(w)
Run(w) ==
    /\ At(w, "run")
    /\ Goto(w, IF CanRun(w) THEN "starting" ELSE "commit")
    /\ UNCHANGED faults /\ UNCHANGED Cache /\ UNCHANGED Disk /\ UNCHANGED Rest4

\* The daemon starts the container whenever it comes to it, and asks nobody about the lease.
DaemonStarts(w) ==
    /\ At(w, "starting")
    /\ containers' = containers \cup {[job |-> proc[w].job, gen |-> proc[w].gen,
                                      tree |-> proc[w].tree, leased |-> Holds(w)]}
    /\ Goto(w, "running")
    /\ UNCHANGED <<jobs, ready, timer, faults>> /\ UNCHANGED Cache /\ UNCHANGED Disk

\* The CLI fails, or the container ends or is stopped; that it is absent is known.
Of(w) == {c \in containers : c.job = proc[w].job /\ c.gen = proc[w].gen}
RunEnds(w) ==
    /\ proc[w].pc \in {"starting", "running"}
    /\ containers' = containers \ Of(w)
    /\ Goto(w, "commit")
    /\ UNCHANGED <<jobs, ready, timer, faults>> /\ UNCHANGED Cache /\ UNCHANGED Disk

\* RendererCleanupDeferred: lease and pin are left to recovery.
RunDeferred(w) ==
    /\ proc[w].pc \in {"starting", "running"} /\ Fault
    /\ Rest(w)
    /\ UNCHANGED Cache /\ UNCHANGED Disk /\ UNCHANGED Rest4

Commit(w) ==
    /\ At(w, "commit")
    /\ jobs' = IF Holds(w) THEN [jobs EXCEPT ![proc[w].job].owner = NoOwner,
                                             ![proc[w].job].expired = FALSE] ELSE jobs
    /\ Goto(w, "release")
    /\ UNCHANGED <<ready, containers, timer, faults>> /\ UNCHANGED Cache /\ UNCHANGED Disk

Release(w) ==
    /\ At(w, "release")
    /\ pins' = pins \ {Mine(w)}
    /\ Rest(w)
    /\ UNCHANGED <<trees, aged, faults>> /\ UNCHANGED Disk /\ UNCHANGED Rest4

-----------------------------------------------------------------------------
(* Recovery of leases (JobLease has it in full), then of pins.             *)

\* Claim, listing, stop and release are one step: from the claim on the lease is that of
\* recovery, so a container started after the listing is not started under the attempt's.
RecoverLease(w, j) ==
    /\ At(w, "idle") /\ jobs[j].expired
    /\ containers' = {c \in containers : c.job # j}
    /\ jobs' = [jobs EXCEPT ![j] = [owner |-> NoOwner, gen |-> @.gen, expired |-> FALSE]]
    /\ UNCHANGED <<ready, proc, timer, faults>> /\ UNCHANGED Cache /\ UNCHANGED Disk

\* A pin whose job nobody has a lease on; the exact container is stopped first.
FindReader_Expired(w, r) == TRUE
FindReader(w, r) == jobs[r.job].owner = NoOwner
RecoverReader(w, r) ==
    /\ At(w, "idle") /\ r \in pins /\ FindReader(w, r)
    /\ proc' = [proc EXCEPT ![w] = [pc |-> "stop_reader", job |-> r.job, gen |-> r.gen,
                                    tree |-> r.tree, victim |-> NoTree]]
    /\ UNCHANGED faults /\ UNCHANGED Cache /\ UNCHANGED Disk /\ UNCHANGED Rest4

StopReader(w) ==
    /\ At(w, "stop_reader")
    /\ containers' = containers \ Of(w)
    /\ Goto(w, "free_reader")
    /\ UNCHANGED <<jobs, ready, timer, faults>> /\ UNCHANGED Cache /\ UNCHANGED Disk

StopReaderFails(w) ==
    /\ At(w, "stop_reader") /\ Fault
    /\ Rest(w)
    /\ UNCHANGED Cache /\ UNCHANGED Disk /\ UNCHANGED Rest4

FreeReader(w) ==
    /\ At(w, "free_reader")
    /\ pins' = pins \ {Mine(w)}
    /\ Rest(w)
    /\ UNCHANGED <<trees, aged, faults>> /\ UNCHANGED Disk /\ UNCHANGED Rest4

-----------------------------------------------------------------------------
(* collectSourceTrees.                                                     *)

Pinned(t) == \E r \in pins : r.tree = t

\* What a pass may take: leftovers, old trees, trees of sources that are gone, and
\* under pressure any; what is being deleted first, ready trees last.
Rank(t) == IF trees[t].status = "deleting" THEN 0 ELSE IF trees[t].status # "ready" THEN 1 ELSE 2
Collectable(t, pressure) ==
    Exists(t) /\ ~Pinned(t) /\ (pressure \/ trees[t].status # "ready" \/ t \in aged
                                \/ trees[t].source \notin ready)
Takes(t, pressure) ==
    /\ Collectable(t, pressure)
    /\ \A u \in Tree : Collectable(u, pressure) => Rank(t) <= Rank(u)
    /\ trees' = [trees EXCEPT ![t].status = "deleting"]

Select(w, pc, pressure, next) ==
    /\ At(w, pc)
    /\ \E t \in Tree : /\ Takes(t, pressure)
                       /\ proc' = [proc EXCEPT ![w].pc = next, ![w].victim = t]
    /\ UNCHANGED <<aged, pins, faults>> /\ UNCHANGED Disk /\ UNCHANGED Rest4

Collect(w)  == Select(w, "idle", FALSE, "gc_remove")
Pressure(w) == /\ At(w, "reserve") /\ ~(OwnedJob(w) /\ HasRoom(w))
               /\ Select(w, "reserve", TRUE, "pressure_remove")

\* Nothing to take under pressure, or the collection fails.
PressureFails(w) ==
    /\ At(w, "reserve") /\ ~(OwnedJob(w) /\ HasRoom(w))
    /\ ~\E t \in Tree : Collectable(t, TRUE)
    /\ Goto(w, "again")
    /\ UNCHANGED faults /\ UNCHANGED Cache /\ UNCHANGED Disk /\ UNCHANGED Rest4

RemoveBy(w, from, to) ==
    /\ At(w, from)
    /\ dirs' = dirs \ {proc[w].victim} /\ inputs' = inputs \ {proc[w].victim}
    /\ Goto(w, to)
    /\ UNCHANGED faults /\ UNCHANGED Cache /\ UNCHANGED Rest4

\* The row goes when nobody has pinned it again.
Dropped(t) == [trees EXCEPT ![t].status = IF @ = "deleting" /\ ~Pinned(t) THEN "gone" ELSE @]
DropBy(w, from) ==
    /\ At(w, from)
    /\ trees' = Dropped(proc[w].victim)
    /\ IF from = "gc_row" THEN Rest(w)
       ELSE proc' = [proc EXCEPT ![w].pc = "again", ![w].victim = NoTree]
    /\ UNCHANGED <<aged, pins, faults>> /\ UNCHANGED Disk /\ UNCHANGED Rest4

Remove(w) == RemoveBy(w, "gc_remove", "gc_row") \/ RemoveBy(w, "pressure_remove", "pressure_row")
Drop(w)   == DropBy(w, "gc_row") \/ DropBy(w, "pressure_row")

\* A removal throws: the row stays in `deleting` for another pass.
RemoveFails(w) ==
    /\ proc[w].pc \in {"gc_remove", "pressure_remove"} /\ Fault
    /\ IF At(w, "gc_remove") THEN Rest(w)
       ELSE proc' = [proc EXCEPT ![w].pc = "run", ![w].tree = NoTree, ![w].victim = NoTree]
    /\ UNCHANGED Cache /\ UNCHANGED Disk /\ UNCHANGED Rest4

\* The same collector in the process of the hourly cleanup, which may be killed.
TimerSelect ==
    /\ timer.pc = "idle"
    /\ \E t \in Tree : Takes(t, FALSE) /\ timer' = [pc |-> "remove", victim |-> t]
    /\ UNCHANGED <<jobs, ready, aged, pins, containers, proc, faults>> /\ UNCHANGED Disk
TimerRemove ==
    /\ timer.pc = "remove" /\ timer' = [timer EXCEPT !.pc = "row"]
    /\ dirs' = dirs \ {timer.victim} /\ inputs' = inputs \ {timer.victim}
    /\ UNCHANGED <<jobs, ready, containers, proc, faults>> /\ UNCHANGED Cache
TimerDrop ==
    /\ timer.pc = "row" /\ timer' = [pc |-> "idle", victim |-> NoTree]
    /\ trees' = Dropped(timer.victim)
    /\ UNCHANGED <<jobs, ready, aged, pins, containers, proc, faults>> /\ UNCHANGED Disk
TimerCrash ==
    /\ timer.pc # "idle" /\ timer' = [pc |-> "idle", victim |-> NoTree] /\ Fault
    /\ UNCHANGED <<jobs, ready, containers, proc>> /\ UNCHANGED Cache /\ UNCHANGED Disk

-----------------------------------------------------------------------------
(* Processes, time and users.                                              *)

Alive(w) == proc[w].pc \notin {"off", "dead"}
Start(w) ==
    /\ At(w, "off") /\ (overlap \/ \A v \in Worker : ~Alive(v))
    /\ Rest(w)
    /\ UNCHANGED faults /\ UNCHANGED Cache /\ UNCHANGED Disk /\ UNCHANGED Rest4

\* The last process is spared: systemd would start yet another one.
Crash(w) ==
    /\ Alive(w) /\ Fault /\ (\E v \in Worker \ {w} : ~At(v, "dead"))
    /\ proc' = [proc EXCEPT ![w] = Resting("dead")]
    /\ UNCHANGED Cache /\ UNCHANGED Disk /\ UNCHANGED Rest4

\* A lease runs out: its holder is gone, has deferred, or stalls.
Busy(w, j) == proc[w].job = j /\ proc[w].gen = jobs[j].gen /\ jobs[j].owner = w
Expire(j) ==
    /\ jobs[j].owner # NoOwner /\ ~jobs[j].expired
    /\ IF \E w \in Worker : Busy(w, j) THEN Fault ELSE faults' = faults
    /\ jobs' = [jobs EXCEPT ![j].expired = TRUE]
    /\ UNCHANGED <<ready, containers, proc, timer>> /\ UNCHANGED Cache /\ UNCHANGED Disk

DeleteSource(s) ==
    /\ s \in ready /\ ready' = ready \ {s}
    /\ UNCHANGED <<jobs, containers, proc, timer, faults>> /\ UNCHANGED Cache /\ UNCHANGED Disk

Age(t) ==
    /\ Exists(t) /\ t \notin aged /\ aged' = aged \cup {t}
    /\ UNCHANGED <<jobs, ready, trees, pins, containers, proc, timer, faults>>
    /\ UNCHANGED Disk

Step(w) == \/ Acquire(w) \/ Verify(w) \/ Extract(w) \/ Reserve(w) \/ Promote(w) \/ Publish(w)
           \/ Run(w) \/ DaemonStarts(w) \/ RunEnds(w) \/ Commit(w) \/ Release(w)
           \/ StopReader(w) \/ FreeReader(w) \/ Remove(w) \/ Drop(w) \/ Pressure(w) \/ PressureFails(w)
Upset(w) == Crash(w) \/ RunDeferred(w) \/ StopReaderFails(w) \/ RemoveFails(w)
Timer == TimerSelect \/ TimerRemove \/ TimerDrop

Next == \/ \E w \in Worker : \/ Start(w) \/ Step(w) \/ Upset(w) \/ Collect(w)
                              \/ \E j \in Job : Claim(w, j) \/ RecoverLease(w, j)
                              \/ \E r \in pins : RecoverReader(w, r)
        \/ \E j \in Job : Expire(j)
        \/ \E t \in Tree : Age(t)
        \/ \E s \in Source : DeleteSource(s)
        \/ Timer \/ TimerCrash

Spec == Init /\ [][Next /\ UNCHANGED <<sourceOf, overlap>>]_<<vars, sourceOf, overlap>>

-----------------------------------------------------------------------------
(* Properties.                                                             *)

\* Every variable has its type, and only rows that exist are pinned: the foreign key of source_tree_readers.
TypeOK ==
    /\ jobs \in [Job -> [owner : Worker \cup {NoOwner}, gen : Gen, expired : BOOLEAN]]
    /\ ready \subseteq Source /\ trees \in [Tree -> Row] /\ aged \subseteq Tree
    /\ pins \subseteq Pin /\ dirs \subseteq Tree /\ inputs \subseteq dirs
    /\ containers \subseteq Container /\ proc \in [Worker -> Process]
    /\ timer \in [pc : {"idle", "remove", "row"}, victim : Tree \cup {NoTree}]
    /\ faults \in 0..MaxFaults /\ sourceOf \in Orders /\ overlap \in BOOLEAN
    /\ \A r \in pins : Exists(r.tree)

\* No collector removes an input that a container has mounted, whoever of worker, cleanup
\* or recovery looks at the row ("readers hold persistent pins until their exact daemon
\* container is proven stopped", source-tree-cache.ts:47-48).  With two processes alive
\* this is about containers the daemon started while their attempt had the lease: one
\* that it starts later has no pin any more, until monitorJob stops it.
MountedStays == \A c \in containers :
    c.tree # NoTree /\ (~overlap \/ c.leased) => c.tree \in inputs

\* A tree that can be acquired is complete, and at most one for each source.
ReadyIsComplete ==
    \A t \in Tree : trees[t].status = "ready" =>
      t \in inputs /\ \A u \in Tree \ {t} : Exists(u) => trees[u].source # trees[t].source

\* With one process at a time every directory of the cache is accounted for by a row,
\* and with what is being removed there are never more than the budget allows ("a
\* deleting row keeps its reserved bytes until real removal", source-tree-gc.mjs:5-6).
BudgetKept ==
    ~overlap => (\A t \in dirs : Exists(t)) /\ Cardinality(dirs) <= Capacity

=============================================================================
