------------------------- MODULE SourceTreesProofs --------------------------
(***************************************************************************)
(* The safety of the cache of source trees, for any sets of processes,     *)
(* jobs, sources and trees and any bounds: what a container that was       *)
(* started under its lease has mounted is never removed (with one process  *)
(* at a time every container is), what can be acquired is complete and the *)
(* only tree of its source, and with one process at a time the directories *)
(* stay within the budget.                                                 *)
(***************************************************************************)
EXTENDS SourceTrees, FiniteSetTheorems, TLAPS

-----------------------------------------------------------------------------
(* Types.                                                                  *)

\* TypeOK without its foreign keys, which need the rest of the invariant.
Lock  == [owner : Worker \cup {NoOwner}, gen : Gen, expired : BOOLEAN]
Clock == [pc : {"idle", "remove", "row"}, victim : Tree \cup {NoTree}]
Types ==
    /\ jobs \in [Job -> Lock]
    /\ ready \subseteq Source /\ trees \in [Tree -> Row] /\ aged \subseteq Tree
    /\ pins \subseteq Pin /\ dirs \subseteq Tree /\ inputs \subseteq dirs
    /\ containers \subseteq Container /\ proc \in [Worker -> Process]
    /\ timer \in Clock
    /\ faults \in 0..MaxFaults /\ sourceOf \in Orders /\ overlap \in BOOLEAN

\* From its claim to its release a process works on an attempt of a job.
Attempt == {"claimed", "verify", "extract", "reserve", "again", "promote", "publish", "run",
            "starting", "running", "commit", "release", "pressure_remove", "pressure_row"}
Reader   == {"stop_reader", "free_reader"}
Removing == {"gc_remove", "gc_row", "pressure_remove", "pressure_row"}
Dropping == {"gc_row", "pressure_row"}

\* A process in one of these places has what they speak of.
Equipped == \A w \in Worker :
    /\ proc[w].pc \in Attempt \cup Reader => proc[w].job \in Job
    /\ proc[w].pc \in Reader \cup {"verify", "promote", "publish"} => proc[w].tree \in Tree
    /\ proc[w].pc \in Removing => proc[w].victim \in Tree
TimerEquipped == timer.pc # "idle" => timer.victim \in Tree

\* Attempts, pins and containers are of generations the job has had, and of an attempt at
\* most one process is working.
Reached == /\ \A r \in pins \cup containers : r.gen <= jobs[r.job].gen
           /\ \A w \in Worker : proc[w].pc \in Attempt \cup Reader => proc[w].gen <= jobs[proc[w].job].gen
OneAttempt == \A v, w \in Worker :
    /\ proc[v].pc \in Attempt /\ proc[w].pc \in Attempt
    /\ proc[v].job = proc[w].job /\ proc[v].gen = proc[w].gen
    => v = w

\* While a process works on an attempt, its container exists at most at `running`.
Contained == \A w \in Worker, c \in containers :
    proc[w].pc \in Attempt /\ c.job = proc[w].job /\ c.gen = proc[w].gen
      => proc[w].pc = "running"

\* A lease is over for good: no process gets one of this generation again.  What the
\* daemon starts of it from now on has not been started under the lease.
Over(j, g) == jobs[j].gen > g \/ jobs[j].owner = NoOwner
Recovering == \A w \in Worker :
    /\ proc[w].pc \in Reader => Over(proc[w].job, proc[w].gen)
    /\ proc[w].pc = "free_reader" =>
         \A c \in containers : c.leased => ~(c.job = proc[w].job /\ c.gen = proc[w].gen)

\* Who has the lease still has the pin of its tree, and so has every container that was
\* started under it.
PinOf(c) == [tree |-> c.tree, job |-> c.job, gen |-> c.gen]
Kept == \A w \in Worker :
    /\ proc[w].pc \in {"verify", "promote", "publish", "run", "starting"} /\ proc[w].tree # NoTree
    /\ Holds(w)
    => Mine(w) \in pins
Held == \A c \in containers : c.leased /\ c.tree # NoTree => PinOf(c) \in pins /\ c.tree \in inputs

\* What is pinned is not being removed, and what is being removed stays so.
Usable  == {"building", "ready", "invalid"}
Leaving == {"deleting", "gone"}
PinsUsable == \A r \in pins : trees[r.tree].status \in Usable
Victims == /\ \A w \in Worker : proc[w].pc \in Removing => trees[proc[w].victim].status \in Leaving
           /\ timer.pc # "idle" => trees[timer.victim].status \in Leaving

\* What may be published or mounted has its input, until its row is given up.
Filled == /\ \A t \in Tree : trees[t].status = "ready" => t \in inputs
          /\ \A w \in Worker :
               /\ proc[w].tree # NoTree => trees[proc[w].tree].status # "none"
               /\ /\ proc[w].pc \in {"publish", "run", "starting"} /\ proc[w].tree # NoTree
                  /\ trees[proc[w].tree].status \in Usable
                  => proc[w].tree \in inputs

\* The rows: at most one of a source, and no more than the budget has room for.
Distinct == \A t, u \in Tree : Exists(t) /\ Exists(u) /\ trees[t].source = trees[u].source => t = u
Rows == {t \in Tree : Counted(t)}
Budget == IsFiniteSet(Rows) /\ Cardinality(Rows) <= Capacity

\* One process at a time: no row goes before its directory, and nobody takes the lease of
\* an attempt that is about to start its container.
Alone == ~overlap =>
    /\ \A v, w \in Worker : Alive(v) /\ Alive(w) => v = w
    /\ \A w \in Worker : proc[w].pc = "promote" => Mine(w) \in pins
    /\ \A t \in dirs : Exists(t)
    /\ \A w \in Worker : proc[w].pc \in Dropping => proc[w].victim \notin dirs
    /\ timer.pc = "row" => timer.victim \notin dirs
    /\ \A w \in Worker : proc[w].pc = "starting" => Holds(w)
    /\ \A c \in containers : c.leased

Inv == /\ Types /\ Equipped /\ TimerEquipped /\ Reached /\ OneAttempt /\ Contained /\ Recovering
       /\ Kept /\ Held /\ PinsUsable /\ Victims /\ Filled /\ Distinct /\ Budget /\ Alone

Stepping == [Next /\ UNCHANGED <<sourceOf, overlap>>]_<<vars, sourceOf, overlap>>

-----------------------------------------------------------------------------
(* How a step moves a process.                                             *)

Others(w) == \A v \in Worker \ {w} : proc'[v] = proc[v]
\* The process stays with its job and generation, or has none any more.
Moves(w, pc, tree, victim) ==
    /\ proc' \in [Worker -> Process] /\ Others(w)
    /\ proc'[w].pc = pc /\ proc'[w].job = proc[w].job /\ proc'[w].gen = proc[w].gen
    /\ proc'[w].tree = tree /\ proc'[w].victim = victim
Leaves(w, pc) ==
    /\ proc' \in [Worker -> Process] /\ Others(w)
    /\ proc'[w].pc = pc /\ proc'[w].tree = NoTree /\ proc'[w].victim = NoTree

LEMMA Sets ==
  ASSUME Types, NEW w \in Worker, NEW q \in Process, proc' = [proc EXCEPT ![w] = q]
  PROVE  proc' \in [Worker -> Process] /\ Others(w) /\ proc'[w] = q
  BY DEF Types, Others

LEMMA GotoMoves ==
  ASSUME Types, NEW w \in Worker, NEW pc \in Places, Goto(w, pc)
  PROVE  Moves(w, pc, proc[w].tree, proc[w].victim)
<1> DEFINE q == [proc[w] EXCEPT !.pc = pc]
<1>1. proc[w] \in Process /\ proc' = [proc EXCEPT ![w] = q]
  BY DEF Types, Goto
<1>2. /\ q \in Process /\ q.pc = pc /\ q.job = proc[w].job /\ q.gen = proc[w].gen
      /\ q.tree = proc[w].tree /\ q.victim = proc[w].victim
  BY <1>1 DEF Process
<1> HIDE DEF q
<1> QED
  BY <1>1, <1>2, Sets DEF Moves

LEMMA TreeMoves ==
  ASSUME Types, NEW w \in Worker, NEW pc \in Places, NEW t \in Tree \cup {NoTree},
         proc' = [proc EXCEPT ![w].pc = pc, ![w].tree = t]
  PROVE  Moves(w, pc, t, proc[w].victim)
<1> DEFINE q == [proc[w] EXCEPT !.pc = pc, !.tree = t]
<1>1. proc[w] \in Process /\ proc' = [proc EXCEPT ![w] = q]
  BY DEF Types
<1>2. /\ q \in Process /\ q.pc = pc /\ q.job = proc[w].job /\ q.gen = proc[w].gen
      /\ q.tree = t /\ q.victim = proc[w].victim
  BY <1>1 DEF Process
<1> HIDE DEF q
<1> QED
  BY <1>1, <1>2, Sets DEF Moves

LEMMA VictimMoves ==
  ASSUME Types, NEW w \in Worker, NEW pc \in Places, NEW t \in Tree \cup {NoTree},
         proc' = [proc EXCEPT ![w].pc = pc, ![w].victim = t]
  PROVE  Moves(w, pc, proc[w].tree, t)
<1> DEFINE q == [proc[w] EXCEPT !.pc = pc, !.victim = t]
<1>1. proc[w] \in Process /\ proc' = [proc EXCEPT ![w] = q]
  BY DEF Types
<1>2. /\ q \in Process /\ q.pc = pc /\ q.job = proc[w].job /\ q.gen = proc[w].gen
      /\ q.tree = proc[w].tree /\ q.victim = t
  BY <1>1 DEF Process
<1> HIDE DEF q
<1> QED
  BY <1>1, <1>2, Sets DEF Moves

LEMMA GivesUp ==
  ASSUME Types, NEW w \in Worker, NEW pc \in Places,
         proc' = [proc EXCEPT ![w].pc = pc, ![w].tree = NoTree, ![w].victim = NoTree]
  PROVE  Moves(w, pc, NoTree, NoTree)
<1> DEFINE q == [proc[w] EXCEPT !.pc = pc, !.tree = NoTree, !.victim = NoTree]
<1>1. proc[w] \in Process /\ proc' = [proc EXCEPT ![w] = q]
  BY DEF Types
<1>2. /\ q \in Process /\ q.pc = pc /\ q.job = proc[w].job /\ q.gen = proc[w].gen
      /\ q.tree = NoTree /\ q.victim = NoTree
  BY <1>1 DEF Process
<1> HIDE DEF q
<1> QED
  BY <1>1, <1>2, Sets DEF Moves

LEMMA RestLeaves ==
  ASSUME Types, NEW w \in Worker, NEW pc \in {"idle", "dead"},
         proc' = [proc EXCEPT ![w] = Resting(pc)]
  PROVE  Leaves(w, pc)
<1>1. Resting(pc) \in Process
  BY SourceTreesAssumption DEF Resting, Process, Places, Gen
<1>2. Resting(pc).pc = pc /\ Resting(pc).tree = NoTree /\ Resting(pc).victim = NoTree
  BY DEF Resting
<1> QED
  BY <1>1, <1>2, Sets DEF Leaves

Keeps(w, pc) == Moves(w, pc, proc[w].tree, proc[w].victim)
Drops(w, pc) == Moves(w, pc, NoTree, proc[w].victim)

LEMMA AttemptMoves ==
  ASSUME Types, NEW w \in Worker
  PROVE  /\ Acquire(w) => Keeps(w, "extract") \/ \E t \in Acquired(w) : Moves(w, "verify", t, proc[w].victim)
         /\ Verify(w)  => Keeps(w, "run") \/ Drops(w, "extract")
         /\ Extract(w) => Keeps(w, "reserve") \/ Keeps(w, "commit") \/ Drops(w, "run")
         /\ Reserve(w) => Drops(w, "run") \/ \E t \in Tree : Moves(w, "promote", t, proc[w].victim)
         /\ Promote(w) => Keeps(w, "publish") \/ Drops(w, "run")
         /\ Publish(w) => Keeps(w, "run")
         /\ Run(w)     => Keeps(w, "starting") \/ Keeps(w, "commit")
         /\ DaemonStarts(w) => Keeps(w, "running")
         /\ RunEnds(w) => Keeps(w, "commit")
         /\ Commit(w)  => Keeps(w, "release")
         /\ StopReader(w) => Keeps(w, "free_reader")
         /\ PressureFails(w) => Keeps(w, "again")
<1>1. \A pc \in Places : Goto(w, pc) => Keeps(w, pc)
  BY GotoMoves DEF Keeps
<1>2. \A pc \in Places, t \in Tree \cup {NoTree} :
        proc' = [proc EXCEPT ![w].pc = pc, ![w].tree = t] => Moves(w, pc, t, proc[w].victim)
  BY TreeMoves
<1>3. Fallback(w) => Drops(w, "run")
  BY <1>2 DEF Fallback, Drops, Places
<1>4. {"verify", "extract", "reserve", "again", "promote", "publish", "run", "starting",
       "running", "commit", "release", "free_reader"} \subseteq Places
  BY DEF Places
<1>5. Acquire(w) => Keeps(w, "extract") \/ \E t \in Acquired(w) : Moves(w, "verify", t, proc[w].victim)
  BY <1>1, <1>2, <1>4 DEF Acquire, Acquired
<1>6. Verify(w)  => Keeps(w, "run") \/ Drops(w, "extract")
  BY <1>1, <1>2, <1>4 DEF Verify, Drops
<1>7. Extract(w) => Keeps(w, "reserve") \/ Keeps(w, "commit") \/ Drops(w, "run")
  BY <1>1, <1>3, <1>4 DEF Extract
<1>8. Reserve(w) => Drops(w, "run") \/ \E t \in Tree : Moves(w, "promote", t, proc[w].victim)
  BY <1>2, <1>3, <1>4 DEF Reserve, Reserved
<1>9. Promote(w) => Keeps(w, "publish") \/ Drops(w, "run")
  BY <1>1, <1>3, <1>4 DEF Promote
<1> QED
  BY <1>1, <1>4, <1>5, <1>6, <1>7, <1>8, <1>9
     DEF Publish, Run, DaemonStarts, RunEnds, Commit, StopReader, PressureFails

\* Ends of an attempt, of a removal and of a recovery.
LEMMA OtherMoves ==
  ASSUME Types, NEW w \in Worker
  PROVE  /\ Start(w) \/ Release(w) \/ FreeReader(w) \/ RunDeferred(w) \/ StopReaderFails(w)
              => Leaves(w, "idle")
         /\ Crash(w) => Leaves(w, "dead")
         /\ RemoveBy(w, "gc_remove", "gc_row") => Keeps(w, "gc_row")
         /\ RemoveBy(w, "pressure_remove", "pressure_row") => Keeps(w, "pressure_row")
         /\ DropBy(w, "gc_row") => Leaves(w, "idle")
         /\ DropBy(w, "pressure_row") => Moves(w, "again", proc[w].tree, NoTree)
         /\ RemoveFails(w) => \/ At(w, "gc_remove") /\ Leaves(w, "idle")
                              \/ At(w, "pressure_remove") /\ Moves(w, "run", NoTree, NoTree)
         /\ Collect(w) => \E t \in Tree : Takes(t, FALSE) /\ Moves(w, "gc_remove", proc[w].tree, t)
         /\ Pressure(w) => \E t \in Tree : Takes(t, TRUE) /\ Moves(w, "pressure_remove", proc[w].tree, t)
<1>1. \A pc \in {"idle", "dead"} : proc' = [proc EXCEPT ![w] = Resting(pc)] => Leaves(w, pc)
  BY RestLeaves
<1>2. Rest(w) => Leaves(w, "idle")
  BY <1>1 DEF Rest
<1>3. \A pc \in Places : Goto(w, pc) => Keeps(w, pc)
  BY GotoMoves DEF Keeps
<1>4. \A pc \in Places, t \in Tree \cup {NoTree} :
        proc' = [proc EXCEPT ![w].pc = pc, ![w].victim = t] => Moves(w, pc, proc[w].tree, t)
  BY VictimMoves
<1>5. {"again", "run", "gc_remove", "gc_row", "pressure_remove", "pressure_row"} \subseteq Places
  BY DEF Places
<1>6. Crash(w) => Leaves(w, "dead")
  BY <1>1 DEF Crash
<1>7. DropBy(w, "pressure_row") => Moves(w, "again", proc[w].tree, NoTree)
  BY <1>4, <1>5 DEF DropBy
<1>8. RemoveFails(w) => \/ At(w, "gc_remove") /\ Leaves(w, "idle")
                        \/ At(w, "pressure_remove") /\ Moves(w, "run", NoTree, NoTree)
  BY <1>2, <1>5, GivesUp DEF RemoveFails, At
<1>9. ASSUME NEW pc, NEW pressure, NEW next \in Places, Select(w, pc, pressure, next)
      PROVE  \E t \in Tree : Takes(t, pressure) /\ Moves(w, next, proc[w].tree, t)
  BY <1>4, <1>9 DEF Select
<1>10. Collect(w) => \E t \in Tree : Takes(t, FALSE) /\ Moves(w, "gc_remove", proc[w].tree, t)
  BY <1>5, <1>9 DEF Collect
<1>11. Pressure(w) => \E t \in Tree : Takes(t, TRUE) /\ Moves(w, "pressure_remove", proc[w].tree, t)
  BY <1>5, <1>9 DEF Pressure
<1>12. Start(w) \/ Release(w) \/ FreeReader(w) \/ RunDeferred(w) \/ StopReaderFails(w)
         => Leaves(w, "idle")
  BY <1>2 DEF Start, Release, FreeReader, RunDeferred, StopReaderFails
<1>13. DropBy(w, "gc_row") => Leaves(w, "idle")
  BY <1>2 DEF DropBy
<1>14. /\ RemoveBy(w, "gc_remove", "gc_row") => Keeps(w, "gc_row")
       /\ RemoveBy(w, "pressure_remove", "pressure_row") => Keeps(w, "pressure_row")
  BY <1>3, <1>5 DEF RemoveBy
<1> QED
  BY <1>6, <1>7, <1>8, <1>10, <1>11, <1>12, <1>13, <1>14

\* A claim starts a new generation of the job; a recovery takes over what the pin names.
Claims(w, j) ==
    /\ proc' \in [Worker -> Process] /\ Others(w)
    /\ proc'[w].pc = "claimed" /\ proc'[w].job = j /\ proc'[w].gen = jobs[j].gen + 1
    /\ proc'[w].tree = NoTree /\ proc'[w].victim = NoTree
Recovers(w, r) ==
    /\ proc' \in [Worker -> Process] /\ Others(w)
    /\ proc'[w].pc = "stop_reader" /\ proc'[w].job = r.job /\ proc'[w].gen = r.gen
    /\ proc'[w].tree = r.tree /\ proc'[w].victim = NoTree

LEMMA NewMoves ==
  ASSUME Types, NEW w \in Worker
  PROVE  /\ \A j \in Job : Claim(w, j) => Claims(w, j)
         /\ \A r \in pins : RecoverReader(w, r) => Recovers(w, r)
<1>1. ASSUME NEW j \in Job, Claim(w, j) PROVE Claims(w, j)
  <2> DEFINE p == Resting("claimed")
             g == jobs[j].gen + 1
             q == [p EXCEPT !.job = j, !.gen = g]
  <2>1. p \in Process /\ p.pc = "claimed" /\ p.tree = NoTree /\ p.victim = NoTree
    BY SourceTreesAssumption DEF Process, Places, Resting, Gen
  <2>2. g \in Gen
    BY <1>1, SourceTreesAssumption DEF Claim, Types, Lock, Gen
  <2>3. proc' = [proc EXCEPT ![w] = q]
    BY <1>1 DEF Claim
  <2> HIDE DEF p, g
  <2>4. q \in Process
    BY <2>1, <2>2 DEF Process
  <2>5. /\ q.pc = "claimed" /\ q.job = j /\ q.gen = g /\ q.tree = NoTree
        /\ q.victim = NoTree
    BY <2>1, <2>2 DEF Process
  <2> HIDE DEF q
  <2> QED
    BY <2>3, <2>4, <2>5, Sets DEF Claims, g
<1>2. ASSUME NEW r \in pins, RecoverReader(w, r) PROVE Recovers(w, r)
  <2> DEFINE q == [pc |-> "stop_reader", job |-> r.job, gen |-> r.gen, tree |-> r.tree,
                   victim |-> NoTree]
  <2>1. q \in Process
    BY DEF Process, Places, Types, Pin
  <2>2. proc' = [proc EXCEPT ![w] = q]
    BY <1>2 DEF RecoverReader
  <2>3. /\ q.pc = "stop_reader" /\ q.job = r.job /\ q.gen = r.gen /\ q.tree = r.tree
        /\ q.victim = NoTree
    OBVIOUS
  <2> HIDE DEF q
  <2> QED
    BY <2>1, <2>2, <2>3, Sets DEF Recovers
<1> QED
  BY <1>1, <1>2

-----------------------------------------------------------------------------
(* What each action leaves alone.                                          *)

LEMMA AttemptFrames ==
  ASSUME NEW w \in Worker
  PROVE  /\ Acquire(w) => UNCHANGED <<jobs, trees, dirs, inputs, containers, timer>>
         /\ Verify(w) \/ Reserve(w) => UNCHANGED <<jobs, dirs, inputs, containers, timer>>
         /\ Promote(w) => UNCHANGED <<jobs, containers, timer>>
         /\ Publish(w) => UNCHANGED <<jobs, pins, dirs, inputs, containers, timer>>
         /\ Run(w) => UNCHANGED <<jobs, trees, pins, dirs, inputs, containers, timer>>
         /\ DaemonStarts(w) \/ RunEnds(w) => UNCHANGED <<jobs, trees, pins, dirs, inputs, timer>>
         /\ Commit(w) => UNCHANGED <<trees, pins, dirs, inputs, containers, timer>>
         /\ Release(w) => UNCHANGED <<jobs, trees, dirs, inputs, containers, timer>>
         /\ Extract(w) \/ RunDeferred(w) \/ PressureFails(w)
              => UNCHANGED <<jobs, trees, pins, dirs, inputs, containers, timer>>
<1> USE DEF Cache, Disk, Rest4
<1>1. Acquire(w) => UNCHANGED <<jobs, trees, dirs, inputs, containers, timer>>
  BY DEF Acquire
<1>2. Verify(w) \/ Reserve(w) => UNCHANGED <<jobs, dirs, inputs, containers, timer>>
  BY DEF Verify, Reserve
<1>3. Promote(w) => UNCHANGED <<jobs, containers, timer>>
  BY DEF Promote
<1>4. Publish(w) => UNCHANGED <<jobs, pins, dirs, inputs, containers, timer>>
  BY DEF Publish
<1>5. /\ Run(w) => UNCHANGED <<jobs, trees, pins, dirs, inputs, containers, timer>>
      /\ DaemonStarts(w) \/ RunEnds(w) => UNCHANGED <<jobs, trees, pins, dirs, inputs, timer>>
  BY DEF Run, DaemonStarts, RunEnds
<1>6. Commit(w) => UNCHANGED <<trees, pins, dirs, inputs, containers, timer>>
  BY DEF Commit
<1>7. Release(w) => UNCHANGED <<jobs, trees, dirs, inputs, containers, timer>>
  BY DEF Release
<1>8. Extract(w) \/ RunDeferred(w) \/ PressureFails(w)
        => UNCHANGED <<jobs, trees, pins, dirs, inputs, containers, timer>>
  BY DEF Extract, RunDeferred, PressureFails
<1> QED
  BY <1>1, <1>2, <1>3, <1>4, <1>5, <1>6, <1>7, <1>8

LEMMA OtherFrames ==
  ASSUME NEW w \in Worker
  PROVE  /\ StopReader(w) => UNCHANGED <<jobs, trees, pins, dirs, inputs, timer>>
         /\ FreeReader(w) => UNCHANGED <<jobs, trees, dirs, inputs, containers, timer>>
         /\ Collect(w) \/ Pressure(w) => UNCHANGED <<jobs, pins, dirs, inputs, containers, timer>>
         /\ Remove(w) => UNCHANGED <<jobs, trees, pins, containers, timer>>
         /\ Drop(w) => UNCHANGED <<jobs, pins, dirs, inputs, containers, timer>>
         /\ Start(w) \/ Crash(w) \/ StopReaderFails(w) \/ RemoveFails(w)
              => UNCHANGED <<jobs, trees, pins, dirs, inputs, containers, timer>>
         /\ \A j \in Job :
              /\ Claim(w, j) => UNCHANGED <<trees, pins, dirs, inputs, containers, timer>>
              /\ RecoverLease(w, j) => UNCHANGED <<trees, pins, dirs, inputs, timer, proc>>
         /\ \A r \in pins : RecoverReader(w, r) =>
              UNCHANGED <<jobs, trees, pins, dirs, inputs, containers, timer>>
<1> USE DEF Cache, Disk, Rest4
<1>1. StopReader(w) => UNCHANGED <<jobs, trees, pins, dirs, inputs, timer>>
  BY DEF StopReader
<1>2. FreeReader(w) => UNCHANGED <<jobs, trees, dirs, inputs, containers, timer>>
  BY DEF FreeReader
<1>3. Collect(w) \/ Pressure(w) => UNCHANGED <<jobs, pins, dirs, inputs, containers, timer>>
  BY DEF Collect, Pressure, Select
<1>4. Remove(w) => UNCHANGED <<jobs, trees, pins, containers, timer>>
  BY DEF Remove, RemoveBy
<1>5. Drop(w) => UNCHANGED <<jobs, pins, dirs, inputs, containers, timer>>
  BY DEF Drop, DropBy
<1>6. Start(w) \/ Crash(w) \/ StopReaderFails(w) \/ RemoveFails(w)
        => UNCHANGED <<jobs, trees, pins, dirs, inputs, containers, timer>>
  BY DEF Start, Crash, StopReaderFails, RemoveFails
<1>7. \A j \in Job :
        /\ Claim(w, j) => UNCHANGED <<trees, pins, dirs, inputs, containers, timer>>
        /\ RecoverLease(w, j) => UNCHANGED <<trees, pins, dirs, inputs, timer, proc>>
  BY DEF Claim, RecoverLease
<1>8. \A r \in pins : RecoverReader(w, r) =>
        UNCHANGED <<jobs, trees, pins, dirs, inputs, containers, timer>>
  BY DEF RecoverReader
<1> QED
  BY <1>1, <1>2, <1>3, <1>4, <1>5, <1>6, <1>7, <1>8

LEMMA SharedFrames ==
  /\ \A j \in Job : Expire(j) => UNCHANGED <<trees, pins, dirs, inputs, containers, timer, proc>>
  /\ \A t \in Tree : Age(t) => UNCHANGED <<jobs, trees, pins, dirs, inputs, containers, timer, proc>>
  /\ \A s \in Source : DeleteSource(s) =>
       UNCHANGED <<jobs, trees, pins, dirs, inputs, containers, timer, proc>>
  /\ TimerSelect \/ TimerDrop => UNCHANGED <<jobs, pins, dirs, inputs, containers, proc>>
  /\ TimerRemove => UNCHANGED <<jobs, trees, pins, containers, proc>>
  /\ TimerCrash => UNCHANGED <<jobs, trees, pins, dirs, inputs, containers, proc>>
  BY DEF Expire, Age, DeleteSource, TimerSelect, TimerDrop, TimerRemove, TimerCrash, Cache, Disk

-----------------------------------------------------------------------------
(* What a step does to each of the variables.                              *)

\* The actions by what they change.
JobsBy  == \/ UNCHANGED jobs
           \/ \E w \in Worker : Commit(w) \/ \E j \in Job : Claim(w, j) \/ RecoverLease(w, j)
           \/ \E j \in Job : Expire(j)
TreesBy == \/ UNCHANGED trees
           \/ \E w \in Worker : \/ Reserve(w) \/ Verify(w) \/ Promote(w) \/ Publish(w)
                                \/ Collect(w) \/ Pressure(w) \/ Drop(w)
           \/ TimerSelect \/ TimerDrop
PinsBy  == \/ UNCHANGED pins
           \/ \E w \in Worker : \/ Acquire(w) \/ Reserve(w) \/ Verify(w) \/ Promote(w)
                                \/ Release(w) \/ FreeReader(w)
DiskBy  == \/ UNCHANGED <<dirs, inputs>>
           \/ \E w \in Worker : Promote(w) \/ Remove(w)
           \/ TimerRemove
ContainersBy == \/ UNCHANGED containers
                \/ \E w \in Worker : \/ DaemonStarts(w) \/ RunEnds(w) \/ StopReader(w)
                                     \/ \E j \in Job : RecoverLease(w, j)
TimerBy == UNCHANGED timer \/ TimerSelect \/ TimerRemove \/ TimerDrop \/ TimerCrash
Acts(w) == \/ Start(w) \/ Step(w) \/ Upset(w) \/ Collect(w)
           \/ (\E j \in Job : Claim(w, j)) \/ \E r \in pins : RecoverReader(w, r)
ProcBy  == UNCHANGED proc \/ \E w \in Worker : Acts(w)

LEMMA Changes ==
  ASSUME Stepping
  PROVE  /\ UNCHANGED <<sourceOf, overlap>>
         /\ JobsBy /\ TreesBy /\ PinsBy /\ DiskBy /\ ContainersBy /\ TimerBy /\ ProcBy
<1> DEFINE All == JobsBy /\ TreesBy /\ PinsBy /\ DiskBy /\ ContainersBy /\ TimerBy /\ ProcBy
<1>1. ASSUME UNCHANGED <<jobs, trees, pins, dirs, inputs, containers, timer, proc>> PROVE All
  BY <1>1 DEF JobsBy, TreesBy, PinsBy, DiskBy, ContainersBy, TimerBy, ProcBy
<1>2. ASSUME NEW w \in Worker, Acts(w) PROVE All
  <2>1. ProcBy
    BY <1>2 DEF ProcBy
  <2>2. CASE Step(w)
    <3>1. JobsBy
      BY <2>2, AttemptFrames, OtherFrames DEF Step, JobsBy
    <3>2. TreesBy
      BY <2>2, AttemptFrames, OtherFrames DEF Step, TreesBy
    <3>3. PinsBy
      BY <2>2, AttemptFrames, OtherFrames DEF Step, PinsBy
    <3>4. DiskBy
      BY <2>2, AttemptFrames, OtherFrames DEF Step, DiskBy
    <3>5. ContainersBy
      BY <2>2, AttemptFrames, OtherFrames DEF Step, ContainersBy
    <3>6. TimerBy
      BY <2>2, AttemptFrames, OtherFrames DEF Step, TimerBy
    <3> QED
      BY <2>1, <3>1, <3>2, <3>3, <3>4, <3>5, <3>6
  <2>3. CASE Collect(w)
    BY <2>1, <2>3, OtherFrames DEF JobsBy, TreesBy, PinsBy, DiskBy, ContainersBy, TimerBy
  <2>4. CASE Start(w) \/ Upset(w)
    BY <2>1, <2>4, AttemptFrames, OtherFrames
       DEF Upset, JobsBy, TreesBy, PinsBy, DiskBy, ContainersBy, TimerBy
  <2>5. CASE \E j \in Job : Claim(w, j)
    BY <2>1, <2>5, OtherFrames DEF JobsBy, TreesBy, PinsBy, DiskBy, ContainersBy, TimerBy
  <2>6. CASE \E r \in pins : RecoverReader(w, r)
    BY <2>1, <2>6, OtherFrames DEF JobsBy, TreesBy, PinsBy, DiskBy, ContainersBy, TimerBy
  <2> QED
    BY <1>2, <2>2, <2>3, <2>4, <2>5, <2>6 DEF Acts
<1>3. ASSUME NEW w \in Worker, NEW j \in Job, RecoverLease(w, j) PROVE All
  BY <1>3, OtherFrames DEF JobsBy, TreesBy, PinsBy, DiskBy, ContainersBy, TimerBy, ProcBy
<1>4. ASSUME NEW j \in Job, Expire(j) PROVE All
  BY <1>4, SharedFrames DEF JobsBy, TreesBy, PinsBy, DiskBy, ContainersBy, TimerBy, ProcBy
<1>5. ASSUME Timer \/ TimerCrash PROVE All
  BY <1>5, SharedFrames
     DEF Timer, JobsBy, TreesBy, PinsBy, DiskBy, ContainersBy, TimerBy, ProcBy
<1>6. ASSUME Next PROVE All
  <2>1. ASSUME (\E t \in Tree : Age(t)) \/ \E s \in Source : DeleteSource(s) PROVE All
    BY <1>1, <2>1, SharedFrames
  <2> HIDE DEF All
  <2> QED
    BY <1>2, <1>3, <1>4, <1>5, <1>6, <2>1 DEF Next, Acts
<1>7. UNCHANGED <<sourceOf, overlap>>
  BY DEF Stepping
<1>8. Next \/ UNCHANGED <<jobs, trees, pins, dirs, inputs, containers, timer, proc>>
  BY DEF Stepping, vars
<1>9. All
  <2> HIDE DEF All
  <2> QED
    BY <1>1, <1>6, <1>8
<1> QED
  BY <1>7, <1>9

\* A lease changes hands through "no owner", and a new one is of the next generation.
LEMMA JobsChange ==
  ASSUME Types, Stepping, NEW j \in Job
  PROVE  /\ jobs[j] \in Lock /\ jobs'[j] \in Lock /\ jobs[j].gen \in Nat /\ jobs'[j].gen \in Nat
         /\ \/ jobs'[j].gen = jobs[j].gen /\ jobs'[j].owner \in {jobs[j].owner, NoOwner}
            \/ /\ jobs'[j].gen = jobs[j].gen + 1 /\ jobs[j].owner = NoOwner
               /\ \E w \in Worker : Claim(w, j) /\ jobs'[j].owner = w
<1> SUFFICES \/ jobs'[j] = jobs[j]
             \/ /\ jobs'[j] \in Lock /\ jobs'[j].gen = jobs[j].gen
                /\ jobs'[j].owner \in {jobs[j].owner, NoOwner}
             \/ /\ jobs'[j] \in Lock
                /\ jobs'[j].gen = jobs[j].gen + 1 /\ jobs[j].owner = NoOwner
                /\ \E w \in Worker : Claim(w, j) /\ jobs'[j].owner = w
  BY SourceTreesAssumption DEF Types, Lock, Gen
<1>1. jobs \in [Job -> Lock] /\ jobs[j] \in Lock
  BY DEF Types
<1>2. CASE UNCHANGED jobs
  BY <1>2
<1>3. ASSUME NEW w \in Worker, NEW i \in Job, Claim(w, i)
      PROVE  \/ jobs'[j] = jobs[j]
             \/ /\ jobs'[j] \in Lock
                /\ jobs'[j].gen = jobs[j].gen + 1 /\ jobs[j].owner = NoOwner
                /\ Claim(w, j) /\ jobs'[j].owner = w
  <2> DEFINE g == jobs[i].gen + 1
  <2>1. g \in Gen
    BY <1>1, <1>3, SourceTreesAssumption DEF Claim, Types, Lock, Gen
  <2>2. jobs' = [jobs EXCEPT ![i] = [owner |-> w, gen |-> g, expired |-> FALSE]]
    BY <1>3 DEF Claim
  <2>3. jobs[i].owner = NoOwner
    BY <1>3 DEF Claim
  <2>4. CASE i # j
    BY <1>1, <2>2, <2>4
  <2>5. CASE i = j
    <3>1. jobs'[j] = [owner |-> w, gen |-> g, expired |-> FALSE]
      BY <1>1, <2>2, <2>5
    <3> QED
      BY <1>3, <2>1, <2>3, <2>5, <3>1 DEF Lock
  <2> QED
    BY <2>4, <2>5
<1>4. ASSUME NEW w \in Worker, NEW i \in Job, RecoverLease(w, i)
      PROVE  /\ jobs'[j] \in Lock /\ jobs'[j].gen = jobs[j].gen
             /\ jobs'[j].owner \in {jobs[j].owner, NoOwner}
  BY <1>1, <1>4 DEF RecoverLease, Lock
<1>5. ASSUME NEW i \in Job, Expire(i)
      PROVE  /\ jobs'[j] \in Lock /\ jobs'[j].gen = jobs[j].gen
             /\ jobs'[j].owner \in {jobs[j].owner, NoOwner}
  BY <1>1, <1>5 DEF Expire, Lock
<1>6. ASSUME NEW w \in Worker, Commit(w)
      PROVE  /\ jobs'[j] \in Lock /\ jobs'[j].gen = jobs[j].gen
             /\ jobs'[j].owner \in {jobs[j].owner, NoOwner}
  BY <1>1, <1>6 DEF Commit, Lock
<1> QED
  BY <1>2, <1>3, <1>4, <1>5, <1>6, Changes DEF JobsBy

\* One row of the cache is changed, in its status or, when it is reserved, altogether.
Statuses == Usable \cup Leaving \cup {"none"}

LEMMA StatusSet ==
  ASSUME Types, NEW u, NEW s \in Statuses, trees' = [trees EXCEPT ![u].status = s]
  PROVE  /\ trees' \in [Tree -> Row]
         /\ \A t \in Tree : /\ trees'[t].source = trees[t].source
                            /\ t # u => trees'[t] = trees[t]
                            /\ t = u => trees'[t].status = s
<1>1. trees \in [Tree -> Row]
  BY DEF Types
<1>2. ASSUME NEW t \in Tree
      PROVE  /\ [trees[t] EXCEPT !.status = s] \in Row
             /\ [trees[t] EXCEPT !.status = s].source = trees[t].source
             /\ [trees[t] EXCEPT !.status = s].status = s
  BY <1>1 DEF Row, Statuses, Usable, Leaving
<1>3. \A t \in Tree : trees'[t] = IF t = u THEN [trees[t] EXCEPT !.status = s] ELSE trees[t]
  BY <1>1
<1>4. trees' = [t \in Tree |-> trees'[t]]
  BY <1>1
<1> QED
  BY <1>1, <1>2, <1>3, <1>4

LEMMA RowSet ==
  ASSUME Types, NEW w \in Worker, NEW u \in Tree, Reserved(w, u)
  PROVE  /\ trees' \in [Tree -> Row]
         /\ \A t \in Tree : t # u => trees'[t] = trees[t]
         /\ trees'[u].status = "building" /\ trees'[u].source = Wants(w)
<1>1. trees \in [Tree -> Row]
  BY DEF Types
<1>2. Wants(w) \in Source
  BY SourceTreesAssumption DEF Types, Reserved, OwnedJob, Wants
<1>3. trees' = [trees EXCEPT ![u] = [status |-> "building", source |-> Wants(w)]]
  BY DEF Reserved
<1> QED
  BY <1>1, <1>2, <1>3 DEF Row

\* How the row of t may change.
Reserves(t, w)  == /\ trees[t].status = "none" /\ trees'[t].status = "building"
                   /\ Reserve(w) /\ Reserved(w, t)
Publishes(t)    == /\ trees[t].status = "building" /\ trees'[t].status = "ready"
                   /\ trees'[t].source = trees[t].source
                   /\ \E w \in Worker : Publish(w) /\ proc[w].tree = t
Invalidates(t)  == /\ trees[t].status \in {"building", "ready"} /\ trees'[t].status = "invalid"
                   /\ trees'[t].source = trees[t].source
GivesAway(t)    == /\ Exists(t) /\ ~Pinned(t) /\ trees'[t].status = "deleting"
                   /\ trees'[t].source = trees[t].source
Forgets(t)      == /\ trees[t].status = "deleting" /\ trees'[t].status = "gone" /\ ~Pinned(t)
                   /\ trees'[t].source = trees[t].source
                   /\ \/ \E w \in Worker : proc[w].pc \in Dropping /\ proc[w].victim = t
                      \/ timer.pc = "row" /\ timer.victim = t
RowChange(t) == \/ trees'[t] = trees[t]
                \/ \E w \in Worker : Reserves(t, w)
                \/ Publishes(t) \/ Invalidates(t) \/ GivesAway(t) \/ Forgets(t)

LEMMA TreesChange ==
  ASSUME Types, Stepping
  PROVE  trees' \in [Tree -> Row] /\ \A t \in Tree : RowChange(t)
<1> DEFINE Good == trees' \in [Tree -> Row] /\ \A t \in Tree : RowChange(t)
<1>1. trees \in [Tree -> Row]
  BY DEF Types
<1>2. \A t \in Tree : trees[t].status \in Statuses /\ (trees'[t] = trees[t] => RowChange(t))
  BY <1>1 DEF Row, Statuses, Usable, Leaving, RowChange
<1>3. ASSUME NEW u, trees' = Invalidated(u) PROVE Good
  <2> DEFINE s == IF trees[u].status \in {"building", "ready"} THEN "invalid" ELSE trees[u].status
  <2>1. CASE u \in Tree
    <3>1. s \in Statuses /\ trees' = [trees EXCEPT ![u].status = s]
      BY <1>2, <1>3, <2>1 DEF Invalidated, Statuses, Usable
    <3>2. CASE trees[u].status \in {"building", "ready"}
      <4>1. s = "invalid"
        BY <3>2
      <4> HIDE DEF s
      <4> QED
        <5>1. /\ trees' \in [Tree -> Row] /\ \A t \in Tree \ {u} : trees'[t] = trees[t]
              /\ trees'[u].source = trees[u].source /\ trees'[u].status = "invalid"
          BY <2>1, <3>1, <4>1, StatusSet
        <5>2. Invalidates(u)
          BY <3>2, <5>1 DEF Invalidates
        <5> QED
          BY <1>2, <2>1, <5>1, <5>2 DEF RowChange
    <3>3. CASE trees[u].status \notin {"building", "ready"}
      <4>1. trees' = trees
        BY <1>1, <2>1, <3>1, <3>3 DEF Row
      <4> QED
        BY <1>1, <1>2, <4>1
    <3> QED
      BY <3>2, <3>3
  <2>2. CASE u \notin Tree
    <3>1. trees' = trees
      BY <1>1, <1>3, <2>2 DEF Invalidated
    <3> QED
      BY <1>1, <1>2, <3>1
  <2> QED
    BY <2>1, <2>2
<1>4. ASSUME NEW w \in Worker, Publish(w) PROVE Good
  <2>1. CASE proc[w].tree \in Tree /\ trees[proc[w].tree].status = "building"
    <3>1. PICK u \in Tree : u = proc[w].tree
      BY <2>1
    <3>2. trees' = [trees EXCEPT ![u].status = "ready"] /\ "ready" \in Statuses
      BY <1>4, <2>1, <3>1 DEF Publish, Published, Statuses, Usable
    <3>3. /\ trees' \in [Tree -> Row] /\ \A t \in Tree \ {u} : trees'[t] = trees[t]
          /\ trees'[u].source = trees[u].source /\ trees'[u].status = "ready"
      BY <3>2, StatusSet
    <3>4. Publishes(u)
      BY <1>4, <2>1, <3>1, <3>3 DEF Publishes
    <3> QED
      BY <1>2, <3>3, <3>4 DEF RowChange
  <2>2. CASE ~(proc[w].tree \in Tree /\ trees[proc[w].tree].status = "building")
    <3>1. trees' = trees
      BY <1>1, <1>4, <2>2 DEF Publish, Published, Row
    <3> QED
      BY <1>1, <1>2, <3>1
  <2> QED
    BY <2>1, <2>2
<1>5. ASSUME NEW u \in Tree, NEW pressure, Takes(u, pressure) PROVE Good
  <2>1. /\ trees' = [trees EXCEPT ![u].status = "deleting"] /\ "deleting" \in Statuses
        /\ Exists(u) /\ ~Pinned(u)
    BY <1>5 DEF Takes, Collectable, Statuses, Leaving
  <2> QED
    BY <1>2, <2>1, StatusSet DEF RowChange, GivesAway
<1>6. ASSUME NEW u, trees' = Dropped(u),
             \/ \E w \in Worker : proc[w].pc \in Dropping /\ proc[w].victim = u
             \/ timer.pc = "row" /\ timer.victim = u
      PROVE  Good
  <2> DEFINE s == IF trees[u].status = "deleting" /\ ~Pinned(u) THEN "gone" ELSE trees[u].status
  <2>1. CASE u \in Tree
    <3>1. s \in Statuses /\ trees' = [trees EXCEPT ![u].status = s]
      BY <1>2, <1>6, <2>1 DEF Dropped, Statuses, Leaving
    <3>2. CASE trees[u].status = "deleting" /\ ~Pinned(u)
      <4>1. s = "gone"
        BY <3>2
      <4> HIDE DEF s
      <4> QED
        <5>1. /\ trees' \in [Tree -> Row] /\ \A t \in Tree \ {u} : trees'[t] = trees[t]
              /\ trees'[u].source = trees[u].source /\ trees'[u].status = "gone"
          BY <2>1, <3>1, <4>1, StatusSet
        <5>2. Forgets(u)
          BY <1>6, <3>2, <5>1 DEF Forgets
        <5> QED
          BY <1>2, <2>1, <5>1, <5>2 DEF RowChange
    <3>3. CASE ~(trees[u].status = "deleting" /\ ~Pinned(u))
      <4>1. trees' = trees
        BY <1>1, <2>1, <3>1, <3>3 DEF Row
      <4> QED
        BY <1>1, <1>2, <4>1
    <3> QED
      BY <3>2, <3>3
  <2>2. CASE u \notin Tree
    <3>1. trees' = trees
      BY <1>1, <1>6, <2>2 DEF Dropped
    <3> QED
      BY <1>1, <1>2, <3>1
  <2> QED
    BY <2>1, <2>2
<1>7. ASSUME NEW w \in Worker, Reserve(w) PROVE Good
  <2>1. CASE trees' = trees
    BY <1>1, <1>2, <2>1
  <2>2. ASSUME NEW u \in Tree, Reserved(w, u) PROVE Good
    <3>1. trees[u].status = "none"
      BY <2>2 DEF Reserved
    <3> QED
      BY <1>2, <1>7, <2>2, <3>1, RowSet DEF RowChange, Reserves
  <2> QED
    BY <1>7, <2>1, <2>2 DEF Reserve, Cache
<1>8. ASSUME trees' = trees PROVE Good
  BY <1>1, <1>2, <1>8
<1>9. ASSUME NEW w \in Worker, Verify(w) \/ Promote(w) PROVE Good
  <2>1. trees' = trees \/ trees' = Invalidated(proc[w].tree)
    BY <1>9 DEF Verify, Promote
  <2> QED
    BY <1>3, <1>8, <2>1
<1>10. ASSUME NEW w \in Worker, Collect(w) \/ Pressure(w) PROVE Good
  BY <1>5, <1>10 DEF Collect, Pressure, Select
<1>11. ASSUME NEW w \in Worker, Drop(w) PROVE Good
  <2>1. trees' = Dropped(proc[w].victim) /\ proc[w].pc \in Dropping
    BY <1>11 DEF Drop, DropBy, Dropping, At
  <2> QED
    BY <1>6, <2>1
<1>12. ASSUME TimerSelect \/ TimerDrop PROVE Good
  BY <1>5, <1>6, <1>12 DEF TimerSelect, TimerDrop
<1>13. Good
  <2> HIDE DEF Good
  <2> QED
    BY <1>4, <1>7, <1>8, <1>9, <1>10, <1>11, <1>12, Changes DEF TreesBy
<1> QED
  BY <1>13

\* A pin is added for a tree that stays usable, by who has a lease, and removed by its
\* holder or by who has made sure that its container has ended.
Pins(r, w)   == /\ r.job = proc[w].job /\ r.gen = proc[w].gen
                /\ proc[w].pc \in {"claimed", "reserve", "again"} /\ OwnedJob(w)
                /\ proc'[w].pc \in {"verify", "promote"} /\ r.tree = proc'[w].tree
                /\ trees'[r.tree].status \in {"building", "ready"}
Unpins(r, w) == /\ r = Mine(w)
                /\ \/ proc[w].pc \in {"verify", "promote"} /\ proc'[w].tree = NoTree
                   \/ proc[w].pc \in {"release", "free_reader"} /\ Leaves(w, "idle")

LEMMA PinsChange ==
  ASSUME Types, Equipped, Stepping
  PROVE  /\ pins' \subseteq Pin
         /\ \A r \in pins' \ pins : \E w \in Worker : Pins(r, w)
         /\ \A r \in pins \ pins' : \E w \in Worker : Unpins(r, w)
<1> DEFINE Good == /\ pins' \subseteq Pin
                   /\ \A r \in pins' \ pins : \E w \in Worker : Pins(r, w)
                   /\ \A r \in pins \ pins' : \E w \in Worker : Unpins(r, w)
<1>1. pins \subseteq Pin /\ proc \in [Worker -> Process]
  BY DEF Types
<1>2. ASSUME pins' = pins PROVE Good
  BY <1>1, <1>2
<1>3. ASSUME NEW w \in Worker, NEW r \in Pin, pins' = pins \cup {r}, Pins(r, w) PROVE Good
  BY <1>1, <1>3
<1>4. ASSUME NEW w \in Worker, pins' = pins \ {Mine(w)}, Unpins(Mine(w), w) PROVE Good
  BY <1>1, <1>4
<1>5. ASSUME NEW w \in Worker, Acquire(w), pins' # pins PROVE Good
  <2>1. PICK t \in Acquired(w) :
          /\ pins' = pins \cup {[tree |-> t, job |-> proc[w].job, gen |-> proc[w].gen]}
          /\ proc' = [proc EXCEPT ![w].pc = "verify", ![w].tree = t]
    BY <1>5 DEF Acquire
  <2>2. OwnedJob(w) /\ proc[w].pc = "claimed" /\ trees' = trees /\ proc[w].job \in Job
    BY <1>5, AttemptFrames DEF Acquire, At, Equipped, Attempt
  <2>3. t \in Tree /\ trees[t].status = "ready" /\ proc[w].gen \in Gen
    BY <1>1 DEF Acquired, Process
  <2>4. proc'[w].pc = "verify" /\ proc'[w].tree = t
    BY <1>1, <2>1, <2>3, TreeMoves DEF Moves, Places
  <2> DEFINE r == [tree |-> t, job |-> proc[w].job, gen |-> proc[w].gen]
  <2>5. r \in Pin /\ Pins(r, w)
    BY <2>2, <2>3, <2>4 DEF Pin, Pins
  <2> QED
    BY <1>3, <2>1, <2>5
<1>6. ASSUME NEW w \in Worker, Reserve(w), pins' # pins PROVE Good
  <2>1. PICK t \in Tree : Reserved(w, t)
    BY <1>6 DEF Reserve, Cache
  <2>2. /\ OwnedJob(w) /\ proc[w].pc \in {"reserve", "again"} /\ proc[w].job \in Job
        /\ proc[w].gen \in Gen
    BY <1>1, <1>6, <2>1 DEF Reserve, Reserved, Equipped, Attempt, Process
  <2>3. proc'[w].pc = "promote" /\ proc'[w].tree = t
    BY <1>1, <2>1, TreeMoves DEF Reserved, Moves, Places
  <2>4. trees'[t].status = "building"
    BY <2>1, RowSet
  <2> DEFINE r == [tree |-> t, job |-> proc[w].job, gen |-> proc[w].gen]
  <2>5. r \in Pin /\ Pins(r, w)
    BY <2>2, <2>3, <2>4 DEF Pin, Pins
  <2>6. pins' = pins \cup {r}
    BY <2>1 DEF Reserved
  <2> QED
    BY <1>3, <2>5, <2>6
<1>7. ASSUME NEW w \in Worker, Verify(w) \/ Promote(w), pins' # pins PROVE Good
  <2>1. pins' = pins \ {Mine(w)} /\ proc[w].pc \in {"verify", "promote"}
    BY <1>7 DEF Verify, Promote, At
  <2>2. proc'[w].tree = NoTree
    <3>1. \/ proc' = [proc EXCEPT ![w].pc = "extract", ![w].tree = NoTree]
          \/ proc' = [proc EXCEPT ![w].pc = "run", ![w].tree = NoTree]
      BY <1>7 DEF Verify, Promote, Fallback
    <3>2. "extract" \in Places /\ "run" \in Places
      BY DEF Places
    <3> QED
      BY <3>1, <3>2, TreeMoves DEF Moves
  <2> QED
    BY <1>4, <2>1, <2>2 DEF Unpins
<1>8. ASSUME NEW w \in Worker, Release(w) \/ FreeReader(w) PROVE Good
  <2>1. pins' = pins \ {Mine(w)} /\ proc[w].pc \in {"release", "free_reader"} /\ Leaves(w, "idle")
    BY <1>8, OtherMoves DEF Release, FreeReader, At
  <2> QED
    BY <1>4, <2>1 DEF Unpins
<1>9. Good
  <2> HIDE DEF Good
  <2> QED
    BY <1>2, <1>5, <1>6, <1>7, <1>8, Changes DEF PinsBy
<1> QED
  BY <1>9

\* A container starts with what its attempt has, under the lease or not.
LEMMA ContainersChange ==
  ASSUME Types, Equipped, Stepping
  PROVE  /\ containers' \subseteq Container
         /\ \A c \in containers' \ containers : \E w \in Worker :
              /\ proc[w].pc = "starting" /\ PinOf(c) = Mine(w) /\ c.leased = Holds(w)
              /\ c.job = proc[w].job /\ c.gen = proc[w].gen /\ c.tree = proc[w].tree
              /\ Keeps(w, "running") /\ pins' = pins /\ jobs' = jobs /\ inputs' = inputs
<1>1. containers \subseteq Container /\ proc \in [Worker -> Process]
  BY DEF Types
<1>2. ASSUME NEW w \in Worker, DaemonStarts(w), NEW c \in containers' \ containers
      PROVE  /\ c \in Container
             /\ proc[w].pc = "starting" /\ PinOf(c) = Mine(w) /\ c.leased = Holds(w)
             /\ c.job = proc[w].job /\ c.gen = proc[w].gen /\ c.tree = proc[w].tree
             /\ Keeps(w, "running") /\ pins' = pins /\ jobs' = jobs /\ inputs' = inputs
  <2>1. /\ proc[w].pc = "starting"
        /\ c = [job |-> proc[w].job, gen |-> proc[w].gen, tree |-> proc[w].tree,
                leased |-> Holds(w)]
    BY <1>2 DEF DaemonStarts, At
  <2>2. Holds(w) \in BOOLEAN
    BY DEF Holds
  <2>3. c \in Container
    BY <1>1, <2>1, <2>2 DEF Container, Process, Equipped, Attempt
  <2>4. PinOf(c) = Mine(w)
    BY <2>1 DEF PinOf, Mine
  <2> QED
    BY <1>2, <2>1, <2>3, <2>4, AttemptMoves, AttemptFrames
<1>3. ASSUME NEW w \in Worker, RunEnds(w) \/ StopReader(w) \/ \E j \in Job : RecoverLease(w, j)
      PROVE  containers' \subseteq containers
  BY <1>3 DEF RunEnds, StopReader, RecoverLease
<1>4. (\E w \in Worker : DaemonStarts(w)) \/ containers' \subseteq containers
  BY <1>3, Changes DEF ContainersBy
<1> QED
  BY <1>1, <1>2, <1>4

\* An input comes with its promotion and goes only as a collector's victim.
LEMMA DiskChange ==
  ASSUME Types, Equipped, Stepping
  PROVE  /\ dirs' \subseteq Tree /\ inputs' \subseteq dirs'
         /\ \A t \in dirs' \ dirs : \E w \in Worker : proc[w].pc = "promote" /\ proc[w].tree = t
         /\ \A t \in inputs \ inputs' :
              \/ \E w \in Worker : proc[w].pc \in Removing /\ proc[w].victim = t
              \/ timer.pc # "idle" /\ timer.victim = t
<1>1. dirs \subseteq Tree /\ inputs \subseteq dirs
  BY DEF Types
<1>2. ASSUME NEW w \in Worker, Promote(w)
      PROVE  /\ dirs \subseteq dirs' /\ dirs' \subseteq dirs \cup {proc[w].tree}
             /\ inputs' \subseteq dirs' /\ inputs \subseteq inputs'
             /\ proc[w].pc = "promote" /\ proc[w].tree \in Tree
  BY <1>1, <1>2 DEF Promote, At, Equipped
<1>3. ASSUME NEW w \in Worker, Remove(w)
      PROVE  /\ dirs' = dirs \ {proc[w].victim} /\ inputs' = inputs \ {proc[w].victim}
             /\ proc[w].pc \in Removing
  BY <1>3 DEF Remove, RemoveBy, At, Removing
<1>4. ASSUME TimerRemove
      PROVE  /\ dirs' = dirs \ {timer.victim} /\ inputs' = inputs \ {timer.victim}
             /\ timer.pc # "idle"
  BY <1>4 DEF TimerRemove
<1>5. CASE UNCHANGED <<dirs, inputs>>
  BY <1>1, <1>5
<1>6. CASE \E w \in Worker : Promote(w)
  BY <1>1, <1>2, <1>6
<1>7. CASE \E w \in Worker : Remove(w)
  BY <1>1, <1>3, <1>7
<1>8. CASE TimerRemove
  BY <1>1, <1>4, <1>8
<1> QED
  BY <1>5, <1>6, <1>7, <1>8, Changes DEF DiskBy

\* At most one process moves, and it moves as itself.
LEMMA ProcChange ==
  ASSUME Types, Stepping
  PROVE  /\ proc' \in [Worker -> Process]
         /\ proc' = proc \/ \E w \in Worker : Acts(w) /\ Others(w)
<1>1. ASSUME NEW w \in Worker, Acts(w) PROVE proc' \in [Worker -> Process] /\ Others(w)
  <2> DEFINE Good == proc' \in [Worker -> Process] /\ Others(w)
  <2>1. \A pc, t, v : Moves(w, pc, t, v) \/ Leaves(w, pc) => Good
    BY DEF Moves, Leaves
  <2>2. \A pc : Keeps(w, pc) \/ Drops(w, pc) => Good
    BY <2>1 DEF Keeps, Drops
  <2>3. (\E j \in Job : Claims(w, j)) \/ (\E r \in pins : Recovers(w, r)) => Good
    BY DEF Claims, Recovers
  <2> HIDE DEF Good
  <2>4. ASSUME \/ Acquire(w) \/ Verify(w) \/ Extract(w) \/ Reserve(w) \/ Promote(w)
               \/ Publish(w) \/ Run(w) \/ DaemonStarts(w) \/ RunEnds(w) \/ Commit(w)
               \/ StopReader(w) \/ PressureFails(w)
        PROVE  Good
    BY <2>1, <2>2, <2>4, AttemptMoves
  <2>5. ASSUME \/ Release(w) \/ FreeReader(w) \/ Remove(w) \/ Drop(w) \/ Pressure(w)
               \/ Crash(w) \/ RunDeferred(w) \/ StopReaderFails(w) \/ RemoveFails(w)
               \/ Start(w) \/ Collect(w)
        PROVE  Good
    BY <2>1, <2>2, <2>5, OtherMoves DEF Remove, Drop
  <2>6. Good
    BY <1>1, <2>3, <2>4, <2>5, NewMoves DEF Acts, Step, Upset
  <2> QED
    BY <2>6 DEF Good
<1> QED
  BY <1>1, Changes DEF ProcBy, Types

LEMMA TimerChange ==
  ASSUME Types, Stepping
  PROVE  /\ timer' \in Clock
         /\ \/ timer' = timer
            \/ TimerRemove /\ timer.pc = "remove" /\ timer'.pc = "row" /\ timer'.victim = timer.victim
            \/ timer'.pc = "idle"
            \/ timer'.pc = "remove" /\ \E t \in Tree : Takes(t, FALSE) /\ timer'.victim = t
<1>1. timer \in Clock
  BY DEF Types
<1>2. CASE TimerSelect
  <2>1. PICK t \in Tree : Takes(t, FALSE) /\ timer' = [pc |-> "remove", victim |-> t]
    BY <1>2 DEF TimerSelect
  <2> QED
    BY <2>1 DEF Clock
<1>3. CASE TimerRemove
  BY <1>1, <1>3 DEF TimerRemove, Clock
<1>4. CASE TimerDrop \/ TimerCrash
  <2>1. timer' = [pc |-> "idle", victim |-> NoTree]
    BY <1>4 DEF TimerDrop, TimerCrash
  <2>2. timer'.pc = "idle" /\ timer' \in Clock
    BY <2>1 DEF Clock
  <2> QED
    BY <2>2
<1> QED
  BY <1>1, <1>2, <1>3, <1>4, Changes DEF TimerBy

\* The variables the invariant does not look at.
LEMMA RestChange ==
  ASSUME Types, Stepping
  PROVE  ready' \subseteq Source /\ aged' \subseteq Tree /\ faults' \in 0..MaxFaults
<1> DEFINE Good == ready' \subseteq Source /\ aged' \subseteq Tree /\ faults' \in 0..MaxFaults
<1>1. UNCHANGED <<ready, aged>> /\ (UNCHANGED faults \/ Fault) => Good
  BY SourceTreesAssumption DEF Types, Fault
<1> USE DEF Cache, Rest4
<1>2. ASSUME NEW w \in Worker,
             \/ Acquire(w) \/ Verify(w) \/ Extract(w) \/ Reserve(w) \/ Promote(w) \/ Publish(w)
             \/ Run(w) \/ DaemonStarts(w) \/ RunEnds(w) \/ Commit(w)
      PROVE  Good
  <2> HIDE DEF Good
  <2> QED
    BY <1>1, <1>2 DEF Acquire, Verify, Extract, Reserve, Promote, Publish, Run, DaemonStarts,
       RunEnds, Commit
<1>3. ASSUME NEW w \in Worker,
             \/ Release(w) \/ StopReader(w) \/ FreeReader(w) \/ Remove(w) \/ Drop(w)
             \/ Pressure(w) \/ PressureFails(w) \/ Collect(w) \/ Start(w)
      PROVE  Good
  <2> HIDE DEF Good
  <2> QED
    BY <1>1, <1>3 DEF Release, StopReader, FreeReader, Remove, RemoveBy, Drop, DropBy,
       Pressure, PressureFails, Collect, Select, Start
<1>4. ASSUME NEW w \in Worker, Upset(w) PROVE Good
  <2> HIDE DEF Good
  <2> QED
    BY <1>1, <1>4 DEF Upset, Crash, RunDeferred, StopReaderFails, RemoveFails
<1>5. ASSUME NEW w \in Worker,
             \/ \E j \in Job : Claim(w, j) \/ RecoverLease(w, j)
             \/ \E r \in pins : RecoverReader(w, r)
      PROVE  Good
  <2> HIDE DEF Good
  <2> QED
    BY <1>1, <1>5 DEF Claim, RecoverLease, RecoverReader
<1>6. ASSUME \/ \E j \in Job : Expire(j)
             \/ TimerSelect \/ TimerRemove \/ TimerDrop \/ TimerCrash
      PROVE  Good
  <2> HIDE DEF Good
  <2> QED
    BY <1>1, <1>6 DEF Expire, TimerSelect, TimerRemove, TimerDrop, TimerCrash
<1>7. ASSUME NEW t \in Tree, Age(t) PROVE Good
  BY <1>7 DEF Age, Types
<1>8. ASSUME NEW s \in Source, DeleteSource(s) PROVE Good
  BY <1>8 DEF DeleteSource, Types
<1>9. UNCHANGED vars => UNCHANGED <<ready, aged, faults>>
  BY DEF vars
<1>10. Good
  <2> HIDE DEF Good
  <2> QED
    BY <1>1, <1>2, <1>3, <1>4, <1>5, <1>6, <1>7, <1>8, <1>9 DEF Stepping, Next, Step, Timer
<1> QED
  BY <1>10

-----------------------------------------------------------------------------
(* The invariant holds at first.                                           *)

LEMMA TypesStep ==
  ASSUME Types, Equipped, Stepping
  PROVE  Types'
<1>1. jobs' \in [Job -> Lock]
  <2>1. jobs' = [j \in Job |-> jobs'[j]]
    BY Changes DEF JobsBy, Commit, Claim, RecoverLease, Expire, Types
  <2> QED
    BY <2>1, JobsChange
<1>2. timer' \in Clock
  BY TimerChange
<1>3. proc' \in [Worker -> Process]
  BY ProcChange
<1>4. trees' \in [Tree -> Row]
  BY TreesChange
<1>5. pins' \subseteq Pin
  BY PinsChange
<1>6. containers' \subseteq Container
  BY ContainersChange
<1>7. dirs' \subseteq Tree /\ inputs' \subseteq dirs'
  BY DiskChange
<1>8. ready' \subseteq Source /\ aged' \subseteq Tree /\ faults' \in 0..MaxFaults
  BY RestChange
<1>9. sourceOf' \in Orders /\ overlap' \in BOOLEAN
  BY Changes DEF Types
<1> QED
  BY <1>1, <1>2, <1>3, <1>4, <1>5, <1>6, <1>7, <1>8, <1>9 DEF Types

LEMMA InvInit == Init => Inv
<1> SUFFICES ASSUME Init PROVE Inv
  OBVIOUS
<1>1. \A w \in Worker : proc[w] = Resting("off")
  BY DEF Init
<1>2. \A w \in Worker : proc[w].pc = "off" /\ proc[w].tree = NoTree
  BY <1>1 DEF Resting
<1>3. Types
  <2>1. Resting("off") \in Process
    BY SourceTreesAssumption DEF Resting, Process, Places, Gen
  <2>2. (CHOOSE s \in Source : TRUE) \in Source
    BY SourceTreesAssumption
  <2> DEFINE s0 == CHOOSE s \in Source : TRUE
  <2> HIDE DEF s0
  <2>3. [status |-> "none", source |-> s0] \in Row
    BY <2>2 DEF Row, s0
  <2>4. trees = [t \in Tree |-> [status |-> "none", source |-> s0]]
    BY DEF Init, s0
  <2>5. [owner |-> NoOwner, gen |-> 0, expired |-> FALSE] \in Lock
    BY SourceTreesAssumption DEF Lock, Gen
  <2>6. timer \in Clock /\ faults \in 0..MaxFaults
    BY SourceTreesAssumption DEF Init, Clock
  <2> QED
    BY <2>1, <2>3, <2>4, <2>5, <2>6 DEF Init, Types
<1>4. Equipped /\ TimerEquipped
  BY <1>2 DEF Init, Equipped, TimerEquipped, Attempt, Reader, Removing
<1>5. Reached /\ OneAttempt /\ Contained /\ Recovering
  BY <1>2 DEF Init, Reached, OneAttempt, Contained, Recovering, Attempt, Reader
<1>6. Kept /\ Held /\ PinsUsable /\ Victims
  BY <1>2 DEF Init, Kept, Held, PinsUsable, Victims, Removing
<1>7. \A t \in Tree : trees[t].status = "none"
  BY DEF Init
<1>8. Filled /\ Distinct
  BY <1>2, <1>7 DEF Filled, Distinct, Exists
<1>9. Budget
  <2>1. Rows = {}
    BY <1>7 DEF Rows, Counted, Exists
  <2> QED
    BY <2>1, FS_EmptySet, SourceTreesAssumption DEF Budget
<1>10. Alone
  BY <1>2 DEF Init, Alone, Alive, Dropping
<1> QED
  BY <1>3, <1>4, <1>5, <1>6, <1>8, <1>9, <1>10 DEF Inv

-----------------------------------------------------------------------------
(* How a process may move, from where to where.                            *)

Waits(w)    == proc'[w] = proc[w]
Quits(w)    == Leaves(w, "idle") \/ Leaves(w, "dead")
Begins(w)   == \E j \in Job : Claim(w, j) /\ Claims(w, j)
Looks(w)    == \E r \in pins : RecoverReader(w, r) /\ Recovers(w, r)
Stops(w)    == At(w, "stop_reader") /\ StopReader(w) /\ Keeps(w, "free_reader")
Chooses(w)  == \/ \E t \in Tree : Takes(t, FALSE) /\ Moves(w, "gc_remove", proc[w].tree, t)
               \/ \E t \in Tree : /\ At(w, "reserve") /\ Takes(t, TRUE)
                                  /\ Moves(w, "pressure_remove", proc[w].tree, t)
Removes(w)  == /\ \/ At(w, "gc_remove") /\ Keeps(w, "gc_row")
                  \/ At(w, "pressure_remove") /\ Keeps(w, "pressure_row")
               /\ dirs' = dirs \ {proc[w].victim}
Finds(w)    == /\ At(w, "claimed") /\ OwnedJob(w) /\ trees' = trees
               /\ \E t \in Acquired(w) :
                    /\ Moves(w, "verify", t, proc[w].victim)
                    /\ pins' = pins \cup {[tree |-> t, job |-> proc[w].job, gen |-> proc[w].gen]}
Makes(w)    == /\ proc[w].pc \in {"reserve", "again"}
               /\ \E t \in Tree :
                    /\ Reserved(w, t) /\ Moves(w, "promote", t, proc[w].victim)
                    /\ pins' = pins \cup {[tree |-> t, job |-> proc[w].job, gen |-> proc[w].gen]}
Fills(w)    == /\ At(w, "promote") /\ Keeps(w, "publish") /\ proc[w].tree \in inputs'
               /\ pins' = pins /\ jobs' = jobs
Uses(w)     == /\ \/ At(w, "verify") /\ proc[w].tree \in inputs
                  \/ At(w, "publish")
               /\ Keeps(w, "run") /\ inputs' = inputs /\ pins' = pins /\ jobs' = jobs
Launches(w) == /\ At(w, "run") /\ Holds(w) /\ Keeps(w, "starting")
               /\ inputs' = inputs /\ pins' = pins /\ jobs' = jobs
Mounts(w)   == At(w, "starting") /\ Keeps(w, "running")
Unmounts(w) == proc[w].pc \in {"starting", "running"} /\ RunEnds(w) /\ Keeps(w, "commit")
\* To a place from which no tree is used: the attempt goes on without one, or it ends.
Resigns(w)  == /\ proc[w].pc \in Attempt \ {"running"}
               /\ \/ \E pc \in {"extract", "reserve", "again", "commit", "release"} :
                       \E t \in {proc[w].tree, NoTree}, v \in {proc[w].victim, NoTree} : Moves(w, pc, t, v)
                  \/ \E v \in {proc[w].victim, NoTree} : Moves(w, "run", NoTree, v)
Edge(w) == \/ Waits(w) \/ Quits(w) \/ Begins(w) \/ Looks(w) \/ Stops(w) \/ Chooses(w)
           \/ Removes(w) \/ Finds(w) \/ Makes(w) \/ Fills(w) \/ Uses(w) \/ Launches(w)
           \/ Mounts(w) \/ Unmounts(w) \/ Resigns(w)

LEMMA Edges ==
  ASSUME Types, Stepping, NEW w \in Worker
  PROVE  Edge(w)
<1>1. ASSUME Acquire(w) PROVE Finds(w) \/ Resigns(w)
  <2>1. At(w, "claimed") /\ trees' = trees
    BY <1>1, AttemptFrames DEF Acquire
  <2>2. CASE OwnedJob(w) /\ Acquired(w) # {}
    <3>1. PICK t \in Acquired(w) :
            /\ pins' = pins \cup {[tree |-> t, job |-> proc[w].job, gen |-> proc[w].gen]}
            /\ proc' = [proc EXCEPT ![w].pc = "verify", ![w].tree = t]
      BY <1>1, <2>2 DEF Acquire
    <3>2. Moves(w, "verify", t, proc[w].victim)
      BY <3>1, TreeMoves DEF Acquired, Places
    <3> QED
      BY <2>1, <2>2, <3>1, <3>2 DEF Finds
  <2>3. CASE ~(OwnedJob(w) /\ Acquired(w) # {})
    <3>1. Keeps(w, "extract")
      BY <1>1, <2>3, GotoMoves DEF Acquire, Keeps, Places
    <3> QED
      BY <2>1, <3>1 DEF Resigns, Keeps, Attempt, At
  <2> QED
    BY <2>2, <2>3
<1>2. ASSUME Verify(w) PROVE Uses(w) \/ Resigns(w)
  <2>1. At(w, "verify") /\ UNCHANGED <<jobs, inputs>>
    BY <1>2, AttemptFrames DEF Verify
  <2>2. CASE proc[w].tree \in inputs /\ Goto(w, "run") /\ UNCHANGED <<trees, pins>>
    <3>1. Keeps(w, "run")
      BY <2>2, GotoMoves DEF Keeps, Places
    <3> QED
      BY <2>1, <2>2, <3>1 DEF Uses
  <2>3. CASE proc' = [proc EXCEPT ![w].pc = "extract", ![w].tree = NoTree]
    <3>1. Moves(w, "extract", NoTree, proc[w].victim)
      BY <2>3, TreeMoves DEF Places
    <3> QED
      BY <2>1, <3>1 DEF Resigns, Attempt, At
  <2> QED
    BY <1>2, <2>2, <2>3 DEF Verify
<1>3. ASSUME Extract(w) PROVE Resigns(w)
  <2>1. At(w, "extract")
    BY <1>3 DEF Extract
  <2> QED
    BY <1>3, <2>1, AttemptMoves DEF Resigns, Keeps, Drops, Attempt, At
<1>4. ASSUME Reserve(w) PROVE Makes(w) \/ Resigns(w)
  <2>1. proc[w].pc \in {"reserve", "again"}
    BY <1>4 DEF Reserve
  <2>2. ASSUME NEW t \in Tree, Reserved(w, t) PROVE Makes(w)
    <3>1. Moves(w, "promote", t, proc[w].victim)
      BY <2>2, TreeMoves DEF Reserved, Places
    <3> QED
      BY <2>1, <2>2, <3>1 DEF Makes, Reserved
  <2>3. ASSUME Fallback(w) PROVE Resigns(w)
    <3>1. Moves(w, "run", NoTree, proc[w].victim)
      BY <2>3, TreeMoves DEF Fallback, Places
    <3> QED
      BY <2>1, <3>1 DEF Resigns, Attempt
  <2> QED
    BY <1>4, <2>2, <2>3 DEF Reserve
<1>5. ASSUME Promote(w) PROVE Fills(w) \/ Resigns(w)
  <2>1. At(w, "promote") /\ jobs' = jobs
    BY <1>5, AttemptFrames DEF Promote
  <2>2. CASE inputs' = inputs \cup {proc[w].tree} /\ Goto(w, "publish") /\ UNCHANGED <<trees, pins>>
    <3>1. Keeps(w, "publish")
      BY <2>2, GotoMoves DEF Keeps, Places
    <3> QED
      BY <2>1, <2>2, <3>1 DEF Fills
  <2>3. CASE Fallback(w)
    <3>1. Moves(w, "run", NoTree, proc[w].victim)
      BY <2>3, TreeMoves DEF Fallback, Places
    <3> QED
      BY <2>1, <3>1 DEF Resigns, Attempt, At
  <2> QED
    BY <1>5, <2>2, <2>3 DEF Promote
<1>6. ASSUME Publish(w) PROVE Uses(w)
  BY <1>6, AttemptMoves, AttemptFrames DEF Publish, Uses
<1>7. ASSUME Run(w) PROVE Launches(w) \/ Resigns(w)
  <2>1. At(w, "run") /\ UNCHANGED <<jobs, pins, inputs>>
    BY <1>7, AttemptFrames DEF Run
  <2>2. CASE Holds(w)
    <3>1. Keeps(w, "starting")
      BY <1>7, <2>2, GotoMoves DEF Run, CanRun, Keeps, Places
    <3> QED
      BY <2>1, <2>2, <3>1 DEF Launches
  <2>3. CASE ~Holds(w)
    <3>1. Keeps(w, "commit")
      BY <1>7, <2>3, GotoMoves DEF Run, CanRun, Keeps, Places
    <3> QED
      BY <2>1, <3>1 DEF Resigns, Keeps, Attempt, At
  <2> QED
    BY <2>2, <2>3
<1>8. ASSUME DaemonStarts(w) \/ RunEnds(w) PROVE Mounts(w) \/ Unmounts(w)
  BY <1>8, AttemptMoves DEF DaemonStarts, Mounts, RunEnds, Unmounts
<1>9. ASSUME Commit(w) \/ PressureFails(w) PROVE Resigns(w)
  BY <1>9, AttemptMoves DEF Commit, PressureFails, Resigns, Keeps, Attempt, At
<1>10. ASSUME StopReader(w) PROVE Stops(w)
  BY <1>10, AttemptMoves DEF StopReader, Stops
<1>11. ASSUME Collect(w) \/ Pressure(w) PROVE Chooses(w)
  BY <1>11, OtherMoves DEF Pressure, Chooses
<1>12. ASSUME Remove(w) PROVE Removes(w)
  <2>1. dirs' = dirs \ {proc[w].victim}
    BY <1>12 DEF Remove, RemoveBy
  <2>2. CASE RemoveBy(w, "gc_remove", "gc_row")
    BY <2>1, <2>2, OtherMoves DEF RemoveBy, Removes
  <2>3. CASE RemoveBy(w, "pressure_remove", "pressure_row")
    BY <2>1, <2>3, OtherMoves DEF RemoveBy, Removes
  <2> QED
    BY <1>12, <2>2, <2>3 DEF Remove
<1>13. ASSUME Drop(w) PROVE Quits(w) \/ Resigns(w)
  <2>1. CASE DropBy(w, "gc_row")
    BY <2>1, OtherMoves DEF Quits
  <2>2. CASE DropBy(w, "pressure_row")
    BY <2>2, OtherMoves DEF DropBy, Resigns, Attempt, At
  <2> QED
    BY <1>13, <2>1, <2>2 DEF Drop
<1>14. ASSUME RemoveFails(w) PROVE Quits(w) \/ Resigns(w)
  BY <1>14, OtherMoves DEF Quits, Resigns, Attempt, At
<1>15. ASSUME Start(w) \/ Release(w) \/ FreeReader(w) \/ RunDeferred(w) \/ StopReaderFails(w)
              \/ Crash(w)
       PROVE  Quits(w)
  BY <1>15, OtherMoves DEF Quits
<1>16. ASSUME \E j \in Job : Claim(w, j) PROVE Begins(w)
  BY <1>16, NewMoves DEF Begins
<1>17. ASSUME \E r \in pins : RecoverReader(w, r) PROVE Looks(w)
  BY <1>17, NewMoves DEF Looks
<1>18. ASSUME Acts(w) PROVE Edge(w)
  BY <1>1, <1>2, <1>3, <1>4, <1>5, <1>6, <1>7, <1>8, <1>9, <1>10, <1>11, <1>12, <1>13, <1>14,
     <1>15, <1>16, <1>17, <1>18 DEF Acts, Step, Upset, Edge
<1>19. Acts(w) \/ proc'[w] = proc[w]
  BY ProcChange DEF Others
<1> QED
  BY <1>18, <1>19 DEF Edge, Waits

-----------------------------------------------------------------------------
(* Attempts, leases and recoveries.                                        *)

LEMMA EquippedStep ==
  ASSUME Types, Equipped, TimerEquipped, Stepping
  PROVE  Equipped' /\ TimerEquipped'
<1>1. ASSUME NEW w \in Worker
      PROVE  /\ proc'[w].pc \in Attempt \cup Reader => proc'[w].job \in Job
             /\ proc'[w].pc \in Reader \cup {"verify", "promote", "publish"} => proc'[w].tree \in Tree
             /\ proc'[w].pc \in Removing => proc'[w].victim \in Tree
  <2> USE DEF Attempt, Reader, Removing, At
  <2>1. /\ proc[w].pc \in Attempt \cup Reader => proc[w].job \in Job
        /\ proc[w].pc \in Reader \cup {"verify", "promote", "publish"} => proc[w].tree \in Tree
        /\ proc[w].pc \in Removing => proc[w].victim \in Tree
    BY DEF Equipped
  <2>2. CASE Waits(w)
    BY <2>1, <2>2 DEF Waits
  <2>3. CASE Quits(w)
    BY <2>3 DEF Quits, Leaves
  <2>4. CASE Begins(w)
    BY <2>4 DEF Begins, Claims
  <2>5. CASE Looks(w)
    BY <2>5 DEF Looks, Recovers, Types, Pin
  <2>6. CASE Stops(w)
    BY <2>1, <2>6 DEF Stops, Keeps, Moves
  <2>7. CASE Chooses(w)
    BY <2>1, <2>7 DEF Chooses, Moves
  <2>8. CASE Removes(w)
    BY <2>1, <2>8 DEF Removes, Keeps, Moves
  <2>9. CASE Finds(w)
    BY <2>1, <2>9 DEF Finds, Acquired, Moves
  <2>10. CASE Makes(w)
    BY <2>1, <2>10 DEF Makes, Moves
  <2>11. CASE Fills(w) \/ Uses(w) \/ Launches(w) \/ Mounts(w) \/ Unmounts(w)
    BY <2>1, <2>11 DEF Fills, Uses, Launches, Mounts, Unmounts, Keeps, Moves
  <2>12. CASE Resigns(w)
    BY <2>1, <2>12 DEF Resigns, Moves
  <2> QED
    BY <2>2, <2>3, <2>4, <2>5, <2>6, <2>7, <2>8, <2>9, <2>10, <2>11, <2>12, Edges DEF Edge
<1>2. TimerEquipped'
  BY TimerChange DEF TimerEquipped
<1> QED
  BY <1>1, <1>2 DEF Equipped

\* A process at work has begun now, or goes on with what it had.
LEMMA Continues ==
  ASSUME Types, Stepping, NEW w \in Worker, proc'[w].pc \in Attempt
  PROVE  \/ Begins(w)
         \/ /\ proc[w].pc \in Attempt
            /\ proc'[w].job = proc[w].job /\ proc'[w].gen = proc[w].gen
<1> USE DEF Attempt, At
<1>1. CASE Waits(w) \/ Quits(w) \/ Looks(w) \/ Stops(w)
  BY <1>1 DEF Waits, Quits, Leaves, Looks, Recovers, Stops, Keeps, Moves
<1>2. CASE Chooses(w) \/ Removes(w) \/ Finds(w) \/ Makes(w)
  BY <1>2 DEF Chooses, Removes, Finds, Makes, Keeps, Moves
<1>3. CASE Fills(w) \/ Uses(w) \/ Launches(w) \/ Mounts(w) \/ Unmounts(w) \/ Resigns(w)
  BY <1>3 DEF Fills, Uses, Launches, Mounts, Unmounts, Resigns, Keeps, Moves
<1> QED
  BY <1>1, <1>2, <1>3, Edges DEF Edge

LEMMA ReadsOn ==
  ASSUME Types, Stepping, NEW w \in Worker, proc'[w].pc \in Reader
  PROVE  \/ Looks(w)
         \/ /\ Waits(w) \/ Stops(w)
            /\ proc[w].pc \in Reader
            /\ proc'[w].job = proc[w].job /\ proc'[w].gen = proc[w].gen
<1> USE DEF Reader, At
<1>1. CASE Waits(w) \/ Quits(w) \/ Begins(w) \/ Stops(w)
  BY <1>1 DEF Waits, Quits, Leaves, Begins, Claims, Stops, Keeps, Moves
<1>2. CASE Chooses(w) \/ Removes(w) \/ Finds(w) \/ Makes(w)
  BY <1>2 DEF Chooses, Removes, Finds, Makes, Keeps, Moves
<1>3. CASE Fills(w) \/ Uses(w) \/ Launches(w) \/ Mounts(w) \/ Unmounts(w) \/ Resigns(w)
  BY <1>3 DEF Fills, Uses, Launches, Mounts, Unmounts, Resigns, Keeps, Moves
<1> QED
  BY <1>1, <1>2, <1>3, Edges DEF Edge

LEMMA BeginsFresh ==
  ASSUME Types, Stepping, NEW w \in Worker, Begins(w)
  PROVE  /\ proc'[w].job \in Job /\ Others(w)
         /\ proc'[w].gen = jobs[proc'[w].job].gen + 1
         /\ jobs'[proc'[w].job].gen = proc'[w].gen
         /\ jobs[proc'[w].job].gen \in Nat
         /\ UNCHANGED <<pins, containers, trees, dirs, inputs>>
<1>1. PICK j \in Job : Claim(w, j) /\ Claims(w, j)
  BY DEF Begins
<1> DEFINE g == jobs[j].gen + 1
<1>2. jobs' = [jobs EXCEPT ![j] = [owner |-> w, gen |-> g, expired |-> FALSE]]
  BY <1>1 DEF Claim
<1>3. jobs'[j] = [owner |-> w, gen |-> g, expired |-> FALSE]
  BY <1>2 DEF Types
<1>4. jobs'[j].gen = g
  BY <1>3
<1> QED
  BY <1>1, <1>4, OtherFrames, JobsChange DEF Claims

LEMMA ReachedStep ==
  ASSUME Types, Equipped, Reached, Stepping
  PROVE  Reached'
<1>1. \A j \in Job : /\ jobs[j].gen \in Nat /\ jobs'[j].gen \in Nat
                     /\ jobs[j].gen <= jobs'[j].gen
  BY JobsChange
<1>2. ASSUME NEW r \in pins' PROVE r.gen <= jobs'[r.job].gen
  <2>1. r \in Pin /\ r.job \in Job /\ r.gen \in Nat
    BY PinsChange, SourceTreesAssumption DEF Pin, Gen
  <2>2. CASE r \in pins
    BY <1>1, <2>1, <2>2 DEF Reached
  <2>3. CASE r \notin pins
    <3>1. PICK w \in Worker : Pins(r, w)
      BY <2>3, PinsChange
    <3>2. jobs[r.job].gen = r.gen
      BY <3>1 DEF Pins, OwnedJob
    <3> QED
      BY <1>1, <2>1, <3>2
  <2> QED
    BY <2>2, <2>3
<1>3. ASSUME NEW c \in containers' PROVE c.gen <= jobs'[c.job].gen
  <2>1. c \in Container /\ c.job \in Job /\ c.gen \in Nat
    BY ContainersChange, SourceTreesAssumption DEF Container, Gen
  <2>2. CASE c \in containers
    BY <1>1, <2>1, <2>2 DEF Reached
  <2>3. CASE c \notin containers
    <3>1. PICK w \in Worker : /\ proc[w].pc = "starting"
                              /\ c.job = proc[w].job /\ c.gen = proc[w].gen
      BY <2>3, ContainersChange
    <3>2. c.gen <= jobs[c.job].gen
      BY <3>1 DEF Reached, Attempt
    <3> QED
      BY <1>1, <2>1, <3>2
  <2> QED
    BY <2>2, <2>3
<1>4. ASSUME NEW w \in Worker, proc[w].pc \in Attempt \cup Reader,
             proc'[w].job = proc[w].job, proc'[w].gen = proc[w].gen
      PROVE  proc'[w].gen <= jobs'[proc'[w].job].gen
  <2>1. proc[w].job \in Job /\ proc[w].gen \in Nat /\ proc[w].gen <= jobs[proc[w].job].gen
    BY <1>4, SourceTreesAssumption DEF Equipped, Types, Process, Gen, Reached
  <2> QED
    BY <1>1, <1>4, <2>1
<1>5. ASSUME NEW w \in Worker, proc'[w].pc \in Attempt
      PROVE  proc'[w].gen <= jobs'[proc'[w].job].gen
  <2>1. CASE Begins(w)
    BY <1>1, <2>1, BeginsFresh
  <2> QED
    BY <1>4, <1>5, <2>1, Continues
<1>6. ASSUME NEW w \in Worker, proc'[w].pc \in Reader
      PROVE  proc'[w].gen <= jobs'[proc'[w].job].gen
  <2>1. CASE Looks(w)
    <3>1. PICK r \in pins : RecoverReader(w, r) /\ Recovers(w, r)
      BY <2>1 DEF Looks
    <3>2. pins' = pins /\ proc'[w].job = r.job /\ proc'[w].gen = r.gen
      BY <3>1, OtherFrames DEF Recovers
    <3> QED
      BY <1>2, <3>2
  <2> QED
    BY <1>4, <1>6, <2>1, ReadsOn
<1> QED
  BY <1>2, <1>3, <1>5, <1>6 DEF Reached

LEMMA OneAttemptStep ==
  ASSUME Types, Equipped, Reached, OneAttempt, Stepping
  PROVE  OneAttempt'
<1>1. ASSUME NEW v \in Worker, NEW w \in Worker, v # w, Begins(v), proc'[w].pc \in Attempt,
             proc'[v].job = proc'[w].job
      PROVE  proc'[v].gen # proc'[w].gen
  <2>1. /\ proc'[w] = proc[w] /\ proc'[v].gen = jobs[proc'[v].job].gen + 1
        /\ jobs[proc'[v].job].gen \in Nat
    BY <1>1, BeginsFresh DEF Others
  <2>2. proc[w].gen \in Nat /\ proc[w].gen <= jobs[proc[w].job].gen
    BY <1>1, <2>1, SourceTreesAssumption DEF Types, Process, Gen, Reached
  <2> QED
    BY <1>1, <2>1, <2>2
<1>2. ASSUME NEW v \in Worker, NEW w \in Worker, v # w,
             proc'[v].pc \in Attempt, proc'[w].pc \in Attempt, proc'[v].job = proc'[w].job
      PROVE  proc'[v].gen # proc'[w].gen
  <2>1. CASE Begins(v) \/ Begins(w)
    BY <1>1, <1>2, <2>1
  <2>2. CASE ~Begins(v) /\ ~Begins(w)
    BY <1>2, <2>2, Continues DEF OneAttempt
  <2> QED
    BY <2>1, <2>2
<1> QED
  BY <1>2 DEF OneAttempt

LEMMA ContainedStep ==
  ASSUME Types, Equipped, Reached, OneAttempt, Contained, Stepping
  PROVE  Contained'
<1>1. ASSUME NEW w \in Worker, NEW c \in containers', proc'[w].pc \in Attempt,
             c.job = proc'[w].job, c.gen = proc'[w].gen
      PROVE  proc'[w].pc = "running"
  <2>1. CASE Begins(w)
    <3>1. c \in containers
      BY <2>1, BeginsFresh
    <3>2. c.gen \in Nat /\ c.gen <= jobs[c.job].gen
      BY <3>1, SourceTreesAssumption DEF Types, Container, Gen, Reached
    <3> QED
      BY <1>1, <2>1, <3>2, BeginsFresh
  <2>2. CASE ~Begins(w)
    <3>1. /\ proc[w].pc \in Attempt /\ c.job = proc[w].job /\ c.gen = proc[w].gen
      BY <1>1, <2>2, Continues
    <3>2. CASE c \in containers
      <4>1. proc[w].pc = "running"
        BY <3>1, <3>2 DEF Contained
      <4>2. CASE Waits(w)
        BY <4>1, <4>2 DEF Waits
      <4>3. CASE Unmounts(w)
        BY <1>1, <3>1, <3>2, <4>3 DEF Unmounts, RunEnds, Of
      <4>4. CASE Quits(w) \/ Looks(w)
        BY <1>1, <4>4 DEF Quits, Leaves, Looks, Recovers, Attempt
      <4>5. ~(\/ Stops(w) \/ Removes(w) \/ Finds(w) \/ Makes(w) \/ Fills(w) \/ Uses(w)
              \/ Launches(w) \/ Mounts(w) \/ Resigns(w))
        BY <4>1 DEF Stops, Removes, Finds, Makes, Fills, Uses, Launches, Mounts, Resigns, At
      <4>6. CASE Chooses(w)
        BY <1>1, <4>1, <4>6 DEF Chooses, Moves, Attempt, At
      <4> QED
        BY <2>2, <4>2, <4>3, <4>4, <4>5, <4>6, Edges DEF Edge
    <3>3. CASE c \notin containers
      <4>1. PICK v \in Worker : /\ proc[v].pc = "starting" /\ Keeps(v, "running")
                                /\ c.job = proc[v].job /\ c.gen = proc[v].gen
        BY <3>3, ContainersChange
      <4>2. v = w
        BY <3>1, <4>1 DEF OneAttempt, Attempt
      <4> QED
        BY <4>1, <4>2 DEF Keeps, Moves
    <3> QED
      BY <3>2, <3>3
  <2> QED
    BY <2>1, <2>2
<1> QED
  BY <1>1 DEF Contained

\* A lease that is over stays so.
LEMMA OverStays ==
  ASSUME Types, Stepping, NEW j \in Job, NEW g \in Nat, g <= jobs[j].gen, Over(j, g)
  PROVE  Over(j, g)'
<1>1. /\ jobs[j].gen \in Nat /\ jobs'[j].gen \in Nat
      /\ \/ jobs'[j].gen = jobs[j].gen /\ jobs'[j].owner \in {jobs[j].owner, NoOwner}
         \/ jobs'[j].gen = jobs[j].gen + 1
  BY JobsChange
<1>2. CASE jobs'[j].gen = jobs[j].gen + 1
  BY <1>1, <1>2 DEF Over
<1>3. CASE jobs'[j].gen = jobs[j].gen /\ jobs'[j].owner \in {jobs[j].owner, NoOwner}
  BY <1>1, <1>3 DEF Over
<1> QED
  BY <1>1, <1>2, <1>3

LEMMA OverHolds ==
  ASSUME Types, Reached, NEW w \in Worker, proc[w].job \in Job, proc[w].gen \in Nat, Holds(w)
  PROVE  ~Over(proc[w].job, proc[w].gen)
  BY SourceTreesAssumption DEF Types, Lock, Gen, Over, Holds

LEMMA RecoveringStep ==
  ASSUME Types, Equipped, Reached, Recovering, Stepping
  PROVE  Recovering'
<1>1. ASSUME NEW w \in Worker, proc'[w].pc \in Reader, ~Looks(w)
      PROVE  /\ proc[w].pc \in Reader /\ Over(proc[w].job, proc[w].gen)
             /\ proc[w].job \in Job /\ proc[w].gen \in Nat /\ proc[w].gen <= jobs[proc[w].job].gen
             /\ proc'[w].job = proc[w].job /\ proc'[w].gen = proc[w].gen
  BY <1>1, ReadsOn, SourceTreesAssumption
     DEF Recovering, Equipped, Reached, Types, Process, Gen
<1>2. ASSUME NEW w \in Worker, proc'[w].pc \in Reader
      PROVE  Over(proc[w].job, proc[w].gen)'
  <2>1. CASE Looks(w)
    <3>1. PICK r \in pins : RecoverReader(w, r) /\ Recovers(w, r)
      BY <2>1 DEF Looks
    <3>2. jobs[r.job].owner = NoOwner /\ jobs' = jobs
      BY <3>1, OtherFrames DEF RecoverReader, FindReader
    <3> QED
      BY <3>1, <3>2 DEF Recovers, Over
  <2>2. CASE ~Looks(w)
    <3>1. \A i \in Job, n \in Nat : n <= jobs[i].gen /\ Over(i, n) =>
              jobs'[i].gen > n \/ jobs'[i].owner = NoOwner
      BY OverStays DEF Over
    <3> QED
      BY <1>1, <1>2, <2>2, <3>1 DEF Over
  <2> QED
    BY <2>1, <2>2
<1>3. ASSUME NEW w \in Worker, proc'[w].pc = "free_reader", NEW c \in containers', c.leased,
             c.job = proc'[w].job, c.gen = proc'[w].gen
      PROVE  FALSE
  <2>1. ~Looks(w) /\ proc'[w].pc \in Reader
    BY <1>3 DEF Looks, Recovers, Reader
  <2>2. CASE Stops(w)
    <3>1. \A d \in containers' : d.job # proc[w].job \/ d.gen # proc[w].gen
      BY <2>2 DEF Stops, StopReader, Of
    <3> QED
      BY <1>1, <1>3, <2>1, <3>1
  <2>3. CASE Waits(w)
    <3>1. proc[w].pc = "free_reader" /\ proc[w].job = c.job /\ proc[w].gen = c.gen
      BY <1>3, <2>3 DEF Waits
    <3>2. c \notin containers
      BY <1>3, <3>1 DEF Recovering
    <3>3. PICK v \in Worker : Holds(v) /\ c.job = proc[v].job /\ c.gen = proc[v].gen
      BY <1>3, <3>2, ContainersChange
    <3>4. Over(c.job, c.gen) /\ c.job \in Job /\ c.gen \in Nat
      BY <1>1, <2>1, <3>1
    <3> QED
      BY <3>3, <3>4, OverHolds
  <2> QED
    BY <2>1, <2>2, <2>3, ReadsOn
<1> QED
  BY <1>2, <1>3 DEF Recovering, Over

-----------------------------------------------------------------------------
(* Pins.                                                                   *)

\* Nobody else removes the pin of an attempt whose process holds the lease.
LEMMA KeptStep ==
  ASSUME Types, Equipped, Reached, OneAttempt, Recovering, Kept, Stepping
  PROVE  Kept'
<1>1. ASSUME NEW w \in Worker,
             proc'[w].pc \in {"verify", "promote", "publish", "run", "starting"}, proc'[w].tree # NoTree,
             Holds(w)'
      PROVE  Mine(w)' \in pins'
  <2>1. CASE Finds(w)
    BY <2>1 DEF Finds, Moves, Mine
  <2>2. CASE Makes(w)
    BY <2>2 DEF Makes, Moves, Mine
  <2>3. CASE Fills(w) \/ Uses(w) \/ Launches(w)
    <3>1. /\ proc[w].pc \in {"verify", "promote", "publish", "run"} /\ Mine(w)' = Mine(w)
          /\ proc'[w].tree = proc[w].tree /\ Holds(w)' = Holds(w) /\ pins' = pins
      BY <2>3 DEF Fills, Uses, Launches, Keeps, Moves, Mine, Holds, At
    <3> QED
      BY <1>1, <3>1 DEF Kept
  <2>4. CASE Waits(w)
    <3>1. Mine(w)' = Mine(w) /\ proc'[w] = proc[w]
      BY <2>4 DEF Waits, Mine
    <3>2. /\ proc[w].job \in Job /\ proc[w].gen \in Nat
          /\ proc[w].gen <= jobs[proc[w].job].gen
      BY <1>1, <3>1, SourceTreesAssumption DEF Equipped, Types, Process, Gen, Reached, Attempt
    <3>3. Holds(w)
      <4>1. jobs'[proc[w].job].gen = proc[w].gen /\ jobs'[proc[w].job].owner = w
        BY <1>1, <3>1 DEF Holds
      <4>2. w # NoOwner
        BY SourceTreesAssumption
      <4> QED
        BY <3>2, <4>1, <4>2, JobsChange DEF Holds
    <3>4. Mine(w) \in pins
      BY <1>1, <3>1, <3>3 DEF Kept
    <3>5. ASSUME Mine(w) \notin pins' PROVE FALSE
      <4>1. PICK v \in Worker : Unpins(Mine(w), v)
        BY <3>4, <3>5, PinsChange
      <4>2. Mine(v) = Mine(w) /\ proc[v].job = proc[w].job /\ proc[v].gen = proc[w].gen
        BY <4>1 DEF Unpins, Mine
      <4>3. CASE v = w
        BY <1>1, <3>1, <4>1, <4>3 DEF Unpins, Leaves
      <4>4. CASE v # w /\ proc[v].pc = "free_reader"
        BY <3>2, <3>3, <4>2, <4>4, OverHolds DEF Recovering, Reader
      <4>5. CASE v # w /\ proc[v].pc \in {"verify", "promote", "release"}
        BY <1>1, <3>1, <4>2, <4>5 DEF OneAttempt, Attempt
      <4> QED
        BY <4>1, <4>3, <4>4, <4>5 DEF Unpins
    <3> QED
      BY <3>1, <3>5
  <2>5. CASE Quits(w) \/ Begins(w) \/ Looks(w) \/ Stops(w) \/ Chooses(w)
    BY <1>1, <2>5 DEF Quits, Leaves, Begins, Claims, Looks, Recovers, Stops, Chooses, Keeps, Moves
  <2>6. CASE Removes(w) \/ Mounts(w) \/ Unmounts(w) \/ Resigns(w)
    BY <1>1, <2>6 DEF Removes, Mounts, Unmounts, Resigns, Keeps, Moves
  <2> QED
    BY <2>1, <2>2, <2>3, <2>4, <2>5, <2>6, Edges DEF Edge
<1> QED
  BY <1>1 DEF Kept

\* What is pinned stays usable.
LEMMA PinsUsableStep ==
  ASSUME Types, Equipped, PinsUsable, Stepping
  PROVE  PinsUsable'
<1>1. ASSUME NEW r \in pins' PROVE trees'[r.tree].status \in Usable
  <2>1. CASE r \in pins
    <3>1. r.tree \in Tree /\ trees[r.tree].status \in Usable /\ Pinned(r.tree)
      BY <2>1 DEF Types, Pin, PinsUsable, Pinned
    <3> QED
      BY <3>1, TreesChange
         DEF RowChange, Reserves, Publishes, Invalidates, GivesAway, Forgets, Usable
  <2>2. CASE r \notin pins
    BY <2>2, PinsChange DEF Pins, Usable
  <2> QED
    BY <2>1, <2>2
<1> QED
  BY <1>1 DEF PinsUsable

LEMMA LeavingStays ==
  ASSUME Types, Stepping, NEW t \in Tree, trees[t].status \in Leaving
  PROVE  trees'[t].status \in Leaving
  BY TreesChange DEF RowChange, Reserves, Publishes, Invalidates, GivesAway, Forgets, Leaving

LEMMA TakesLeaving ==
  ASSUME Types, NEW t \in Tree, NEW pressure, Takes(t, pressure)
  PROVE  trees'[t].status \in Leaving
  BY StatusSet DEF Takes, Statuses, Leaving

LEMMA VictimsStep ==
  ASSUME Types, Equipped, TimerEquipped, Victims, Stepping
  PROVE  Victims'
<1>1. ASSUME NEW w \in Worker, proc'[w].pc \in Removing
      PROVE  trees'[proc'[w].victim].status \in Leaving
  <2>1. CASE Chooses(w)
    BY <2>1, TakesLeaving DEF Chooses, Moves
  <2>2. CASE Waits(w) \/ Removes(w)
    <3>1. proc[w].pc \in Removing /\ proc'[w].victim = proc[w].victim
      BY <1>1, <2>2 DEF Waits, Removes, Keeps, Moves, Removing, At
    <3>2. proc[w].victim \in Tree /\ trees[proc[w].victim].status \in Leaving
      BY <3>1 DEF Equipped, Victims
    <3> QED
      BY <3>1, <3>2, LeavingStays
  <2>3. CASE Quits(w) \/ Begins(w) \/ Looks(w) \/ Stops(w) \/ Finds(w) \/ Makes(w) \/ Fills(w)
    BY <1>1, <2>3 DEF Quits, Leaves, Begins, Claims, Looks, Recovers, Stops, Finds, Makes, Fills,
       Keeps, Moves, Removing
  <2>4. CASE Uses(w) \/ Launches(w) \/ Mounts(w) \/ Unmounts(w) \/ Resigns(w)
    BY <1>1, <2>4 DEF Uses, Launches, Mounts, Unmounts, Resigns, Keeps, Moves, Removing
  <2> QED
    BY <2>1, <2>2, <2>3, <2>4, Edges DEF Edge
<1>2. ASSUME timer'.pc # "idle" PROVE trees'[timer'.victim].status \in Leaving
  <2>1. CASE timer.pc # "idle" /\ timer'.victim = timer.victim
    BY <2>1, LeavingStays DEF TimerEquipped, Victims
  <2>2. CASE \E t \in Tree : Takes(t, FALSE) /\ timer'.victim = t
    BY <2>2, TakesLeaving
  <2> QED
    BY <1>2, <2>1, <2>2, TimerChange
<1> QED
  BY <1>1, <1>2 DEF Victims

\* An input goes only after its row has been given up.
LEMMA InputsStay ==
  ASSUME Types, Equipped, TimerEquipped, Victims, Stepping,
         NEW t \in inputs, trees[t].status \in Usable \cup {"none"}
  PROVE  t \in inputs'
<1>1. CASE \E w \in Worker : proc[w].pc \in Removing /\ proc[w].victim = t
  BY <1>1 DEF Victims, Usable, Leaving
<1>2. CASE timer.pc # "idle" /\ timer.victim = t
  BY <1>2 DEF Victims, Usable, Leaving
<1> QED
  BY <1>1, <1>2, DiskChange

LEMMA HeldStep ==
  ASSUME Types, Equipped, TimerEquipped, Reached, OneAttempt, Contained, Recovering, Kept, Held,
         PinsUsable, Victims, Filled, Stepping
  PROVE  Held'
<1>1. ASSUME NEW c \in containers', c.leased, c.tree # NoTree
      PROVE  PinOf(c) \in pins' /\ c.tree \in inputs'
  <2>1. CASE c \notin containers
    <3>1. PICK w \in Worker :
            /\ proc[w].pc = "starting" /\ Holds(w) /\ PinOf(c) = Mine(w) /\ c.tree = proc[w].tree
            /\ pins' = pins /\ inputs' = inputs
      BY <1>1, <2>1, ContainersChange
    <3>2. PinOf(c) \in pins
      BY <1>1, <3>1 DEF Kept
    <3>3. trees[c.tree].status \in Usable
      BY <3>2 DEF PinsUsable, PinOf
    <3> QED
      BY <1>1, <3>1, <3>2, <3>3 DEF Filled
  <2>2. CASE c \in containers
    <3>1. PinOf(c) \in pins /\ c.tree \in inputs
      BY <1>1, <2>2 DEF Held
    <3>2. trees[c.tree].status \in Usable
      BY <3>1 DEF PinsUsable, PinOf
    <3>3. c.tree \in inputs'
      BY <3>1, <3>2, InputsStay
    <3>4. ASSUME PinOf(c) \notin pins' PROVE FALSE
      <4>1. PICK v \in Worker : Unpins(PinOf(c), v)
        BY <3>1, <3>4, PinsChange
      <4>2. c.job = proc[v].job /\ c.gen = proc[v].gen
        BY <4>1 DEF Unpins, Mine, PinOf
      <4>3. CASE proc[v].pc = "free_reader"
        BY <1>1, <2>2, <4>2, <4>3 DEF Recovering
      <4>4. CASE proc[v].pc \in {"verify", "promote", "release"}
        BY <2>2, <4>2, <4>4 DEF Contained, Attempt
      <4> QED
        BY <4>1, <4>3, <4>4 DEF Unpins
    <3> QED
      BY <3>3, <3>4
  <2> QED
    BY <2>1, <2>2
<1> QED
  BY <1>1 DEF Held

-----------------------------------------------------------------------------
(* Rows and inputs.                                                        *)

LEMMA UsableBefore ==
  ASSUME Types, Stepping, NEW t \in Tree, trees'[t].status \in Usable, trees[t].status # "none"
  PROVE  trees[t].status \in Usable
  BY TreesChange DEF RowChange, Reserves, Publishes, Invalidates, GivesAway, Forgets, Usable, Exists

LEMMA FilledStep ==
  ASSUME Types, Equipped, TimerEquipped, PinsUsable, Victims, Filled, Stepping
  PROVE  Filled'
<1>1. ASSUME NEW t \in Tree, trees'[t].status = "ready" PROVE t \in inputs'
  <2>1. CASE trees[t].status = "ready"
    BY <2>1, InputsStay DEF Filled, Usable
  <2>2. CASE trees[t].status # "ready"
    <3>1. Publishes(t)
      BY <1>1, <2>2, TreesChange DEF RowChange, Reserves, Invalidates, GivesAway, Forgets
    <3>2. PICK w \in Worker : Publish(w) /\ proc[w].tree = t
      BY <3>1 DEF Publishes
    <3>3. proc[w].pc = "publish" /\ trees[t].status \in Usable /\ t # NoTree
      BY <3>1, <3>2, SourceTreesAssumption DEF Publish, At, Publishes, Usable
    <3> QED
      BY <3>2, <3>3, InputsStay DEF Filled
  <2> QED
    BY <2>1, <2>2
<1>2. \A t \in Tree : trees[t].status # "none" => trees'[t].status # "none"
  BY TreesChange DEF RowChange, Reserves, Publishes, Invalidates, GivesAway, Forgets
<1>3. ASSUME NEW w \in Worker, proc'[w].tree # NoTree
      PROVE  trees'[proc'[w].tree].status # "none"
  <2>1. \A t \in Tree \cup {NoTree} : t = proc[w].tree /\ t # NoTree => trees'[t].status # "none"
    BY <1>2 DEF Filled
  <2>2. proc[w].tree \in Tree \cup {NoTree} /\ proc'[w].tree \in Tree \cup {NoTree}
    BY ProcChange DEF Types, Process
  <2>3. CASE proc'[w].tree = proc[w].tree
    BY <1>3, <2>1, <2>2, <2>3
  <2>4. CASE Finds(w)
    <3>1. proc'[w].tree \in Acquired(w)
      BY <2>4 DEF Finds, Moves
    <3> QED
      BY <1>2, <3>1 DEF Acquired
  <2>5. CASE Makes(w)
    BY <2>5, RowSet DEF Makes, Moves
  <2>6. CASE Looks(w)
    <3>1. PICK r \in pins : proc'[w].tree = r.tree
      BY <2>6 DEF Looks, Recovers
    <3>2. r.tree \in Tree /\ trees[r.tree].status # "none"
      BY DEF PinsUsable, Types, Pin, Usable
    <3> QED
      BY <1>2, <3>1, <3>2
  <2>7. CASE Quits(w) \/ Begins(w)
    BY <1>3, <2>7 DEF Quits, Leaves, Begins, Claims
  <2>8. \/ Waits(w) \/ Stops(w) \/ Chooses(w) \/ Removes(w) \/ Fills(w) \/ Uses(w)
        \/ Launches(w) \/ Mounts(w) \/ Unmounts(w) \/ Resigns(w)
        => proc'[w].tree \in {proc[w].tree, NoTree}
    BY DEF Waits, Stops, Chooses, Removes, Fills, Uses, Launches, Mounts, Unmounts, Resigns,
       Keeps, Moves
  <2> QED
    BY <1>3, <2>3, <2>4, <2>5, <2>6, <2>7, <2>8, Edges DEF Edge
<1>4. ASSUME NEW w \in Worker, proc'[w].pc \in {"publish", "run", "starting"}, proc'[w].tree # NoTree,
             trees'[proc'[w].tree].status \in Usable
      PROVE  proc'[w].tree \in inputs'
  <2>1. CASE Fills(w)
    BY <2>1 DEF Fills, Keeps, Moves
  <2>2. ASSUME proc'[w].tree = proc[w].tree
        PROVE  proc[w].tree \in Tree /\ trees[proc[w].tree].status \in Usable
    <3>1. proc[w].tree \in Tree /\ trees[proc[w].tree].status # "none"
      BY <1>4, <2>2 DEF Filled, Types, Process
    <3> QED
      BY <1>4, <2>2, <3>1, UsableBefore
  <2>3. CASE Uses(w) \/ Launches(w)
    BY <1>4, <2>2, <2>3 DEF Uses, Launches, Keeps, Moves, Filled, At
  <2>4. CASE Waits(w)
    <3>1. proc'[w].tree = proc[w].tree /\ proc[w].pc \in {"publish", "run", "starting"}
      BY <1>4, <2>4 DEF Waits
    <3>2. proc[w].tree \in inputs
      BY <1>4, <2>2, <3>1 DEF Filled
    <3> QED
      BY <2>2, <3>1, <3>2, InputsStay
  <2>5. CASE Quits(w) \/ Begins(w) \/ Looks(w) \/ Stops(w) \/ Chooses(w) \/ Removes(w)
    BY <1>4, <2>5 DEF Quits, Leaves, Begins, Claims, Looks, Recovers, Stops, Chooses, Removes,
       Keeps, Moves
  <2>6. CASE Finds(w) \/ Makes(w) \/ Mounts(w) \/ Unmounts(w) \/ Resigns(w)
    BY <1>4, <2>6 DEF Finds, Makes, Mounts, Unmounts, Resigns, Keeps, Moves
  <2> QED
    BY <2>1, <2>3, <2>4, <2>5, <2>6, Edges DEF Edge
<1> QED
  BY <1>1, <1>3, <1>4 DEF Filled

\* A tree exists that did not only when it has been reserved.
LEMMA ExistsChange ==
  ASSUME Types, Stepping, NEW t \in Tree, Exists(t)'
  PROVE  \/ Exists(t) /\ trees'[t].source = trees[t].source
         \/ \E w \in Worker : Reserves(t, w)
  BY TreesChange DEF RowChange, Publishes, Invalidates, GivesAway, Forgets, Exists

LEMMA DistinctStep ==
  ASSUME Types, Distinct, Stepping
  PROVE  Distinct'
<1>1. ASSUME NEW t \in Tree, NEW u \in Tree, t # u, NEW w \in Worker, Reserves(t, w), Exists(u)'
      PROVE  trees'[t].source # trees'[u].source
  <2>1. /\ trees'[t].source = Wants(w) /\ trees'[u] = trees[u]
        /\ \A v \in Tree : Exists(v) => trees[v].source # Wants(w)
    BY <1>1, RowSet DEF Reserves, Reserved, HasRoom
  <2> QED
    BY <1>1, <2>1 DEF Exists
<1>2. ASSUME NEW t \in Tree, NEW u \in Tree, t # u, Exists(t)', Exists(u)'
      PROVE  trees'[t].source # trees'[u].source
  <2>1. CASE (\E w \in Worker : Reserves(t, w)) \/ \E w \in Worker : Reserves(u, w)
    BY <1>1, <1>2, <2>1
  <2>2. CASE /\ Exists(t) /\ trees'[t].source = trees[t].source
             /\ Exists(u) /\ trees'[u].source = trees[u].source
    BY <1>2, <2>2 DEF Distinct
  <2> QED
    BY <1>2, <2>1, <2>2, ExistsChange
<1> QED
  BY <1>2 DEF Distinct

LEMMA BudgetStep ==
  ASSUME Types, Budget, Stepping
  PROVE  Budget'
<1>1. IsFiniteSet(Rows) /\ Cardinality(Rows) \in Nat /\ Cardinality(Rows) <= Capacity
  BY FS_CardinalityType DEF Budget
<1>2. CASE \E t \in Tree, w \in Worker : Reserves(t, w)
  <2>1. PICK t \in Tree, w \in Worker : Reserves(t, w)
    BY <1>2
  <2>2. Cardinality(Rows) < Capacity
    BY <2>1 DEF Reserves, Reserved, HasRoom, Rows
  <2>3. Rows' = Rows \cup {t} /\ t \notin Rows
    BY <2>1, RowSet DEF Reserves, Rows, Counted, Exists
  <2>4. IsFiniteSet(Rows \cup {t}) /\ Cardinality(Rows \cup {t}) = Cardinality(Rows) + 1
    BY <1>1, <2>3, FS_AddElement
  <2>5. Capacity \in Nat
    BY SourceTreesAssumption
  <2> QED
    BY <1>1, <2>2, <2>3, <2>4, <2>5 DEF Budget
<1>3. CASE ~\E t \in Tree, w \in Worker : Reserves(t, w)
  <2>1. Rows' \subseteq Rows
    BY <1>3, ExistsChange DEF Rows, Counted
  <2>2. IsFiniteSet(Rows') /\ Cardinality(Rows') <= Cardinality(Rows)
    BY <1>1, <2>1, FS_Subset
  <2>3. Cardinality(Rows') \in Nat /\ Capacity \in Nat
    BY <2>2, FS_CardinalityType, SourceTreesAssumption
  <2> QED
    BY <1>1, <2>2, <2>3 DEF Budget
<1> QED
  BY <1>2, <1>3

-----------------------------------------------------------------------------
(* One process at a time.                                                  *)

LEMMA Movers ==
  ASSUME NEW w \in Worker, Acts(w)
  PROVE  Start(w) \/ Alive(w)
<1> USE DEF At, Alive
<1>1. CASE \/ Acquire(w) \/ Verify(w) \/ Extract(w) \/ Reserve(w) \/ Promote(w) \/ Publish(w)
           \/ Run(w) \/ DaemonStarts(w) \/ RunEnds(w) \/ Commit(w) \/ Release(w)
           \/ StopReader(w) \/ FreeReader(w)
  BY <1>1 DEF Acquire, Verify, Extract, Reserve, Promote, Publish, Run, DaemonStarts, RunEnds,
     Commit, Release, StopReader, FreeReader
<1>2. CASE \/ Remove(w) \/ Drop(w) \/ Pressure(w) \/ PressureFails(w) \/ Collect(w) \/ Upset(w)
  BY <1>2 DEF Remove, RemoveBy, Drop, DropBy, Pressure, PressureFails, Collect, Select, Upset,
     Crash, RunDeferred, StopReaderFails, RemoveFails
<1>3. CASE (\E j \in Job : Claim(w, j)) \/ \E r \in pins : RecoverReader(w, r)
  BY <1>3 DEF Claim, RecoverReader
<1> QED
  BY <1>1, <1>2, <1>3 DEF Acts, Step

LEMMA AloneStep ==
  ASSUME Types, Equipped, TimerEquipped, PinsUsable, Victims, Alone, Stepping
  PROVE  Alone'
<1> SUFFICES ASSUME ~overlap
             PROVE  /\ \A v, w \in Worker : Alive(v)' /\ Alive(w)' => v = w
                    /\ \A w \in Worker : proc'[w].pc = "promote" => Mine(w)' \in pins'
                    /\ \A t \in dirs' : Exists(t)'
                    /\ \A w \in Worker : proc'[w].pc \in Dropping => proc'[w].victim \notin dirs'
                    /\ timer'.pc = "row" => timer'.victim \notin dirs'
                    /\ \A w \in Worker : proc'[w].pc = "starting" => Holds(w)'
                    /\ \A c \in containers' : c.leased
  BY Changes DEF Alone
<1>1. /\ \A v, w \in Worker : Alive(v) /\ Alive(w) => v = w
      /\ \A w \in Worker : proc[w].pc = "promote" => Mine(w) \in pins
      /\ \A t \in dirs : Exists(t)
      /\ \A w \in Worker : proc[w].pc \in Dropping => proc[w].victim \notin dirs
      /\ timer.pc = "row" => timer.victim \notin dirs
      /\ \A w \in Worker : proc[w].pc = "starting" => Holds(w)
      /\ \A c \in containers : c.leased
  BY DEF Alone
<1>2. ASSUME NEW v \in Worker, NEW w \in Worker, Alive(v)', Alive(w)' PROVE v = w
  <2>1. ASSUME NEW u \in Worker, Alive(u)', ~Alive(u)
        PROVE  (\A x \in Worker : ~Alive(x)) /\ Others(u)
    <3>1. proc'[u] # proc[u]
      BY <2>1 DEF Alive
    <3>2. Acts(u) /\ Others(u)
      BY <3>1, ProcChange DEF Others
    <3>3. Start(u)
      BY <2>1, <3>2, Movers
    <3> QED
      BY <3>2, <3>3 DEF Start
  <2>2. CASE Alive(v) /\ Alive(w)
    BY <1>1, <2>2
  <2>3. CASE ~Alive(v)
    BY <1>2, <2>1, <2>3 DEF Others, Alive
  <2>4. CASE ~Alive(w)
    BY <1>2, <2>1, <2>4 DEF Others, Alive
  <2> QED
    BY <2>2, <2>3, <2>4
<1>3. ASSUME NEW w \in Worker, proc'[w].pc = "promote" PROVE Mine(w)' \in pins'
  <2>1. CASE Makes(w)
    BY <2>1 DEF Makes, Moves, Mine
  <2>2. CASE Waits(w)
    <3>1. Mine(w) \in pins /\ proc[w].pc = "promote" /\ Mine(w)' = Mine(w)
      BY <1>1, <1>3, <2>2 DEF Waits, Mine
    <3>2. ASSUME Mine(w) \notin pins' PROVE FALSE
      <4>1. PICK v \in Worker : Unpins(Mine(w), v)
        BY <3>1, <3>2, PinsChange
      <4>2. v = w
        BY <1>1, <3>1, <4>1 DEF Unpins, Alive
      <4>3. proc'[w].tree = proc[w].tree /\ proc[w].tree \in Tree
        BY <2>2, <3>1 DEF Waits, Equipped
      <4> QED
        BY <3>1, <4>1, <4>2, <4>3, SourceTreesAssumption DEF Unpins, Leaves
    <3> QED
      BY <3>1, <3>2
  <2>3. CASE Quits(w) \/ Begins(w) \/ Looks(w) \/ Stops(w) \/ Chooses(w) \/ Removes(w)
    BY <1>3, <2>3 DEF Quits, Leaves, Begins, Claims, Looks, Recovers, Stops, Chooses, Removes,
       Keeps, Moves
  <2>4. CASE \/ Finds(w) \/ Fills(w) \/ Uses(w) \/ Launches(w) \/ Mounts(w) \/ Unmounts(w)
             \/ Resigns(w)
    BY <1>3, <2>4 DEF Finds, Fills, Uses, Launches, Mounts, Unmounts, Resigns, Keeps, Moves
  <2> QED
    BY <2>1, <2>2, <2>3, <2>4, Edges DEF Edge
\* A directory that comes is of a pinned tree, which no collector has.
<1>4. \A t \in dirs' \ dirs : t \in Tree /\ trees[t].status \in Usable
  <2>1. ASSUME NEW w \in Worker, proc[w].pc = "promote"
        PROVE  proc[w].tree \in Tree /\ trees[proc[w].tree].status \in Usable
    <3>1. Mine(w) \in pins /\ Mine(w).tree = proc[w].tree
      BY <1>1, <2>1 DEF Mine
    <3> QED
      BY <2>1, <3>1 DEF PinsUsable, Equipped
  <2> QED
    BY <2>1, DiskChange
<1>5. ASSUME NEW t \in dirs' PROVE Exists(t)'
  <2>1. CASE t \in dirs
    <3>1. Exists(t) /\ t \in Tree
      BY <1>1, <2>1 DEF Types
    <3>2. ~Forgets(t)
      BY <1>1, <2>1 DEF Forgets
    <3> QED
      BY <3>1, <3>2, TreesChange
         DEF RowChange, Reserves, Publishes, Invalidates, GivesAway, Exists
  <2>2. CASE t \notin dirs
    <3>1. t \in Tree /\ trees[t].status \in Usable
      BY <1>4, <2>2
    <3> QED
      BY <3>1, TreesChange
         DEF RowChange, Reserves, Publishes, Invalidates, GivesAway, Forgets, Exists, Usable
  <2> QED
    BY <2>1, <2>2
<1>6. ASSUME NEW w \in Worker, proc'[w].pc \in Dropping PROVE proc'[w].victim \notin dirs'
  <2>1. CASE Removes(w)
    BY <2>1 DEF Removes, Keeps, Moves
  <2>2. CASE Waits(w)
    <3>1. /\ proc'[w].victim = proc[w].victim /\ proc[w].victim \notin dirs
          /\ trees[proc[w].victim].status \in Leaving
      BY <1>1, <1>6, <2>2 DEF Waits, Victims, Dropping, Removing
    <3> QED
      BY <1>4, <3>1 DEF Usable, Leaving
  <2>3. CASE Quits(w) \/ Begins(w) \/ Looks(w) \/ Stops(w) \/ Chooses(w) \/ Finds(w)
    BY <1>6, <2>3 DEF Quits, Leaves, Begins, Claims, Looks, Recovers, Stops, Chooses, Finds,
       Keeps, Moves, Dropping
  <2>4. CASE \/ Makes(w) \/ Fills(w) \/ Uses(w) \/ Launches(w) \/ Mounts(w) \/ Unmounts(w)
             \/ Resigns(w)
    BY <1>6, <2>4 DEF Makes, Fills, Uses, Launches, Mounts, Unmounts, Resigns, Keeps, Moves,
       Dropping
  <2> QED
    BY <2>1, <2>2, <2>3, <2>4, Edges DEF Edge
<1>7. ASSUME timer'.pc = "row" PROVE timer'.victim \notin dirs'
  <2>1. CASE TimerRemove
    BY <2>1 DEF TimerRemove, Types, Clock
  <2>2. CASE timer' = timer
    <3>1. timer.victim \notin dirs /\ trees[timer.victim].status \in Leaving
      BY <1>1, <1>7, <2>2 DEF Victims
    <3> QED
      BY <1>4, <2>2, <3>1 DEF Usable, Leaving
  <2> QED
    BY <1>7, <2>1, <2>2, TimerChange
\* Who writes another owner into a lease is alive, and not about to start a container.
<1>8. ASSUME NEW w \in Worker, proc'[w].pc = "starting" PROVE Holds(w)'
  <2>1. CASE Launches(w)
    BY <2>1 DEF Launches, Keeps, Moves, Holds
  <2>2. CASE Waits(w)
    <3>1. proc[w].pc = "starting" /\ Holds(w) /\ proc[w].job \in Job /\ proc'[w] = proc[w]
      BY <1>1, <1>8, <2>2 DEF Waits, Equipped, Attempt
    <3>2. ~\E v \in Worker : proc[v].pc \in {"idle", "commit"}
      BY <1>1, <3>1 DEF Alive
    <3>3. UNCHANGED jobs \/ \E j \in Job : Expire(j)
      BY <3>2, Changes DEF JobsBy, Commit, Claim, RecoverLease, At
    <3>4. \A j \in Job : Expire(j) => /\ jobs'[proc[w].job].owner = jobs[proc[w].job].owner
                                      /\ jobs'[proc[w].job].gen = jobs[proc[w].job].gen
      BY <3>1 DEF Expire, Types, Lock
    <3> QED
      BY <3>1, <3>3, <3>4 DEF Holds
  <2>3. CASE Quits(w) \/ Begins(w) \/ Looks(w) \/ Stops(w) \/ Chooses(w) \/ Removes(w)
    BY <1>8, <2>3 DEF Quits, Leaves, Begins, Claims, Looks, Recovers, Stops, Chooses, Removes,
       Keeps, Moves
  <2>4. CASE \/ Finds(w) \/ Makes(w) \/ Fills(w) \/ Uses(w) \/ Mounts(w) \/ Unmounts(w)
             \/ Resigns(w)
    BY <1>8, <2>4 DEF Finds, Makes, Fills, Uses, Mounts, Unmounts, Resigns, Keeps, Moves
  <2> QED
    BY <2>1, <2>2, <2>3, <2>4, Edges DEF Edge
<1>9. ASSUME NEW c \in containers' PROVE c.leased
  BY <1>1, ContainersChange
<1> QED
  BY <1>2, <1>3, <1>5, <1>6, <1>7, <1>8, <1>9

-----------------------------------------------------------------------------
(* The theorems.                                                           *)

LEMMA InvStep == Inv /\ Stepping => Inv'
<1> SUFFICES ASSUME Inv, Stepping PROVE Inv'
  OBVIOUS
<1> USE DEF Inv
<1>1. Types' /\ Equipped' /\ TimerEquipped'
  BY TypesStep, EquippedStep
<1>2. Reached' /\ OneAttempt' /\ Contained'
  BY ReachedStep, OneAttemptStep, ContainedStep
<1>3. Recovering' /\ Kept' /\ Held'
  BY RecoveringStep, KeptStep, HeldStep
<1>4. PinsUsable' /\ Victims' /\ Filled'
  BY PinsUsableStep, VictimsStep, FilledStep
<1>5. Distinct' /\ Budget' /\ Alone'
  BY DistinctStep, BudgetStep, AloneStep
<1> QED
  BY <1>1, <1>2, <1>3, <1>4, <1>5

LEMMA AlwaysInv == Spec => []Inv
  BY InvInit, InvStep, PTL DEF Spec, Stepping

\* Types, and the foreign keys of the pins, which the deletion of a row relies on.
THEOREM TypeCorrect == Spec => []TypeOK
<1>1. Inv => TypeOK
  <2> SUFFICES ASSUME Inv PROVE TypeOK
    OBVIOUS
  <2>1. Types /\ PinsUsable
    BY DEF Inv
  <2>2. \A r \in pins : Exists(r.tree)
    BY <2>1 DEF PinsUsable, Exists, Usable
  <2> QED
    BY <2>1, <2>2 DEF Types, TypeOK, Lock, Clock
<1> QED
  BY <1>1, AlwaysInv, PTL

\* What a container has mounted is never removed, if the daemon started it under the lease
\* or there is one process at a time: the pin outlives it, whoever crashed.
THEOREM MountsNeverRemoved == Spec => []MountedStays
<1>1. Inv => MountedStays
  BY DEF Inv, Held, Alone, MountedStays
<1> QED
  BY <1>1, AlwaysInv, PTL

\* A tree that can be acquired has its input, and its source has no other tree.
THEOREM ReadyAlwaysComplete == Spec => []ReadyIsComplete
<1>1. Inv => ReadyIsComplete
  BY DEF Inv, Filled, Distinct, Exists, ReadyIsComplete
<1> QED
  BY <1>1, AlwaysInv, PTL

\* With one process at a time the directories stay accounted for, and within the budget.
THEOREM BudgetAlwaysKept == Spec => []BudgetKept
<1>1. Inv => BudgetKept
  <2> SUFFICES ASSUME Inv, ~overlap
               PROVE  (\A t \in dirs : Exists(t)) /\ Cardinality(dirs) <= Capacity
    BY DEF BudgetKept
  <2>1. /\ \A t \in dirs : Exists(t)
        /\ dirs \subseteq Tree
        /\ IsFiniteSet(Rows) /\ Cardinality(Rows) <= Capacity
    BY DEF Inv, Alone, Budget, Types
  <2>2. dirs \subseteq Rows
    BY <2>1 DEF Rows, Counted
  <2>3. /\ IsFiniteSet(dirs) /\ Cardinality(dirs) <= Cardinality(Rows)
        /\ Cardinality(dirs) \in Nat /\ Cardinality(Rows) \in Nat
    BY <2>1, <2>2, FS_Subset, FS_CardinalityType
  <2>4. Capacity \in Nat
    BY SourceTreesAssumption
  <2> QED
    BY <2>1, <2>3, <2>4
<1> QED
  BY <1>1, AlwaysInv, PTL
=============================================================================
