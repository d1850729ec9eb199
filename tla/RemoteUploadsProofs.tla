------------------------ MODULE RemoteUploadsProofs ------------------------
(***************************************************************************)
(* A remote upload that is ready has the declared content, and the offset  *)
(* of one that is open is backed by chunks on disk, for any number of      *)
(* requests, any archive, any chunks and any number of mishaps.            *)
(*                                                                         *)
(* The content is checked long before the row is `ready`, and the lease    *)
(* may change hands in between.  What carries the check over is `Checked`: *)
(* from the verification on a request holds the declared archive, so that  *)
(* whoever promotes, early or late, promotes the same; and the directory   *)
(* is removed only by those who hold the row in a state no upload comes    *)
(* back from (`Begun`, `Removal`).                                         *)
(*                                                                         *)
(* The offset grows by one chunk at a time, which is on disk before it     *)
(* counts and stays until the upload is over (`Written`, `ChunksStay`).    *)
(*                                                                         *)
(* At the end, the refinement of SourceLifecycle.                          *)
(***************************************************************************)
EXTENDS RemoteUploads, TLAPS

-----------------------------------------------------------------------------
(* The inductive invariant.                                                *)

Gone == {"expired", "deleting", "deleted", "discarded"}
Live == {"uploading", "ready"}

\* Until the row is open there is no request and nothing in the archive.
Unopened ==
    begin # "off" \/ row.status \in {"none", "reserved"}
      => archive = <<>> /\ \A r \in Request : ~Alive(r)

\* The request that begins an upload removes files only while it is not open.
Begun == begin # "off" => row.status \in Gone \cup {"reserved"}

\* The cleanup removes files only of a source that will not come back.
Removal == cleaner # "idle" => row.status \in Gone

\* From its verification on a request holds the declared archive, and once it has
\* promoted it, it stays in place as long as the row can become ready.
Checked(r) ==
    /\ reqs[r].pc \in {"rename", "complete"} => reqs[r].temp = Declared
    /\ reqs[r].pc = "complete" /\ row.status \in Live => dir /\ archive = Declared

IInv == /\ TypeOK /\ Unopened /\ Begun /\ Removal
        /\ \A r \in Request : Checked(r)
        /\ ReadyVerified

-----------------------------------------------------------------------------
(* Rows, requests and archives.                                            *)

Statuses == {"none", "reserved", "uploading"} \cup {"ready"} \cup Gone

LEMMA Archives == /\ <<>> \in Archive /\ Declared \in Archive
                  /\ [1..Size -> {Right, Wrong}] \subseteq Archive
                  /\ Chunks \subseteq Archive
                  /\ \A a \in Archive : Len(a) \in Nat
  BY RemoteUploadsAssumption DEF Archive, Declared

LEMMA InitHolds == Init => IInv
<1> SUFFICES ASSUME Init PROVE IInv
  OBVIOUS
<1>1. 0 \in 0..Size /\ 0 \in 0..MaxFaults
  BY RemoteUploadsAssumption
<1>2. TypeOK
  BY <1>1, Archives DEF Init, TypeOK, Row, Req, Off
<1>3. Unopened /\ Begun /\ Removal /\ (\A r \in Request : Checked(r)) /\ ReadyVerified
  BY DEF Init, Unopened, Begun, Removal, Checked, ReadyVerified, Alive, Off, Live
<1> QED
  BY <1>2, <1>3 DEF IInv

\* The row gets another status, and no more.
LEMMA StatusSet ==
  ASSUME TypeOK, NEW status \in Statuses
  PROVE  LET next == [row EXCEPT !.status = status]
         IN  /\ next \in Row /\ next.status = status /\ next.received = row.received
             /\ next.owner = row.owner
  BY DEF TypeOK, Row, Statuses, Gone

\* A request goes on to another step and keeps what it holds.
LEMMA PcSet ==
  ASSUME TypeOK, NEW r \in Request,
         NEW pc \in {"off", "dead", "write", "commit", "assemble", "verify", "rename",
                     "complete", "tidy", "release"},
         Goto(r, pc)
  PROVE  /\ reqs' \in [Request -> Req]
         /\ reqs'[r].pc = pc /\ reqs'[r].temp = reqs[r].temp
         /\ \A q \in Request \ {r} : reqs'[q] = reqs[q]
  BY DEF TypeOK, Goto, Req

LEMMA DeadSet ==
  ASSUME TypeOK, NEW r \in Request, Die(r)
  PROVE  /\ reqs' \in [Request -> Req] /\ reqs'[r].pc = "dead"
         /\ \A q \in Request \ {r} : reqs'[q] = reqs[q]
<1>1. [Off EXCEPT !.pc = "dead"] \in Req /\ [Off EXCEPT !.pc = "dead"].pc = "dead"
  BY Archives, RemoteUploadsAssumption DEF Off, Req
<1> HIDE DEF Off
<1> QED
  BY <1>1 DEF TypeOK, Die

LEMMA FaultSet == ASSUME TypeOK, Fault PROVE faults' \in 0..MaxFaults
  BY RemoteUploadsAssumption DEF TypeOK, Fault

-----------------------------------------------------------------------------
(* The request that begins the upload.                                     *)

\* Before the upload is open nobody else touches its files.
LEMMA BeginningSafe ==
  ASSUME IInv, UNCHANGED patient, Beginning \/ BeginCrash PROVE IInv'
<1> USE DEF IInv
<1> row \in Row
  BY DEF TypeOK
<1>1. CASE Reserve
  <2>1. row' \in Row /\ row'.status = "reserved" /\ UNCHANGED Disk
    BY <1>1, StatusSet DEF Reserve, Statuses
  <2>2. TypeOK'
    BY <1>1, <2>1 DEF Reserve, TypeOK, Disk
  <2>3. Unopened' /\ Begun' /\ Removal'
    BY <1>1, <2>1 DEF Reserve, Unopened, Begun, Removal, Alive, Disk, Gone
  <2>4. (\A r \in Request : Checked(r))' /\ ReadyVerified'
    BY <1>1, <2>1 DEF Reserve, Checked, ReadyVerified, Live
  <2> QED
    BY <2>2, <2>3, <2>4
<1>2. CASE MakeFiles
  <2>1. /\ archive = <<>> /\ row.status \notin Live /\ \A r \in Request : ~Alive(r)
        /\ begin' \in {"open", "undo"} /\ dir' \in BOOLEAN
        /\ UNCHANGED <<row, archive, reqs, cleaner>>
    BY <1>2 DEF MakeFiles, Unopened, Begun, Gone, Live
  <2>2. faults' \in 0..MaxFaults
    BY <1>2, FaultSet DEF MakeFiles, TypeOK
  <2>3. chunks' \in {<<>>} \cup [0..(Size - 1) -> Archive] /\ (~dir' => chunks' = <<>>)
    BY <1>2, Archives DEF MakeFiles
  <2>4. TypeOK'
    BY <2>1, <2>2, <2>3 DEF TypeOK
  <2>5. Unopened' /\ Begun' /\ Removal'
    BY <1>2, <2>1 DEF MakeFiles, Unopened, Begun, Removal, Alive
  <2>6. (\A r \in Request : Checked(r))' /\ ReadyVerified'
    BY <2>1 DEF Alive, Checked, ReadyVerified, Live
  <2> QED
    BY <2>4, <2>5, <2>6
<1>3. CASE Open
  <2>1. \/ row' = row /\ begin' = "undo"
        \/ row' \in Row /\ row.status = "reserved" /\ row'.status = "uploading" /\ begin' = "off"
    BY <1>3, StatusSet DEF Open, CanOpen, Statuses
  <2>2. TypeOK'
    BY <1>3, <2>1 DEF Open, TypeOK, Disk
  <2>3. Unopened' /\ Begun' /\ Removal'
    BY <1>3, <2>1 DEF Open, Unopened, Begun, Removal, Alive, Disk, Gone
  <2>4. (\A r \in Request : Checked(r))' /\ ReadyVerified'
    BY <1>3, <2>1 DEF Open, Unopened, Alive, Checked, ReadyVerified, Live, Disk
  <2> QED
    BY <2>2, <2>3, <2>4
<1>4. CASE Undo
  <2>1. /\ row.status \notin Live /\ NoFiles /\ begin' = "discard"
        /\ UNCHANGED <<row, reqs, cleaner, faults>>
    BY <1>4 DEF Undo, Begun, Gone, Live
  <2>2. TypeOK'
    BY <2>1, Archives DEF TypeOK, NoFiles
  <2>3. Unopened' /\ Begun' /\ Removal'
    BY <1>4, <2>1 DEF Undo, Unopened, Begun, Removal, Alive, NoFiles
  <2>4. (\A r \in Request : Checked(r))' /\ ReadyVerified'
    BY <2>1 DEF Checked, ReadyVerified, Live
  <2> QED
    BY <2>2, <2>3, <2>4
<1>5. CASE Discard
  <2>1. row' \in Row /\ row'.status \in Gone /\ begin' = "off"
        /\ UNCHANGED <<reqs, cleaner, faults>> /\ UNCHANGED Disk
    BY <1>5, StatusSet DEF Discard, Begun, Statuses, Gone
  <2>2. TypeOK'
    BY <2>1 DEF TypeOK, Disk, Gone
  <2>3. Unopened' /\ Begun' /\ Removal'
    BY <2>1 DEF Unopened, Begun, Removal, Gone
  <2>4. (\A r \in Request : Checked(r))' /\ ReadyVerified'
    BY <2>1 DEF Checked, ReadyVerified, Live, Gone
  <2> QED
    BY <2>2, <2>3, <2>4
<1>6. CASE BeginCrash
  <2>1. faults' \in 0..MaxFaults
    BY <1>6, FaultSet DEF BeginCrash
  <2>2. TypeOK'
    BY <1>6, <2>1 DEF BeginCrash, TypeOK, Disk
  <2>3. Unopened' /\ Begun' /\ Removal'
    BY <1>6 DEF BeginCrash, Unopened, Begun, Removal, Alive, Disk
  <2>4. (\A r \in Request : Checked(r))' /\ ReadyVerified'
    BY <1>6 DEF BeginCrash, Checked, ReadyVerified, Disk
  <2> QED
    BY <2>2, <2>3, <2>4
<1> QED
  BY <1>1, <1>2, <1>3, <1>4, <1>5, <1>6 DEF Beginning

-----------------------------------------------------------------------------
(* The requests.                                                           *)

\* A request at work finds the upload open, or gone.
LEMMA Opened ==
  ASSUME IInv, NEW r \in Request, Alive(r)
  PROVE  begin = "off" /\ row.status \in Live \cup Gone /\ row.status # "reserved"
  BY DEF IInv, TypeOK, Row, Unopened, Live, Gone

\* A request that only moves, without a new archive to promote.
LEMMA RequestMoves ==
  ASSUME IInv, UNCHANGED patient, NEW r \in Request, Alive(r), faults' \in 0..MaxFaults,
         reqs' \in [Request -> Req], \A q \in Request \ {r} : reqs'[q] = reqs[q],
         reqs'[r].pc # "complete", reqs'[r].pc = "rename" => reqs'[r].temp = Declared,
         UNCHANGED <<row, dir, archive, begin, cleaner>>,
         chunks' \in {<<>>} \cup [0..(Size - 1) -> Archive], ~dir => chunks' = <<>>
  PROVE  IInv'
<1> USE DEF IInv
<1>1. TypeOK'
  BY DEF TypeOK
<1>2. Unopened' /\ Begun' /\ Removal' /\ ReadyVerified'
  BY Opened DEF Unopened, Begun, Removal, ReadyVerified, Live, Gone
<1>3. ASSUME NEW q \in Request PROVE Checked(q)'
  BY DEF Checked
<1> QED
  BY <1>1, <1>2, <1>3

\* A request that changes the lease or the offset of the row.
LEMMA RowMoves ==
  ASSUME IInv, UNCHANGED patient, NEW r \in Request, row.status \in Live \cup Gone,
         row' \in Row, row'.status = row.status, begin = "off",
         row.status = "ready" => row'.received = row.received /\ row'.owner = row.owner,
         reqs' \in [Request -> Req], \A q \in Request \ {r} : reqs'[q] = reqs[q],
         reqs'[r].pc \notin {"rename", "complete"},
         UNCHANGED <<begin, cleaner, faults>>, UNCHANGED Disk
  PROVE  IInv'
<1> USE DEF IInv, Disk
<1>1. TypeOK'
  BY DEF TypeOK
<1>2. Unopened' /\ Begun' /\ Removal' /\ ReadyVerified'
  BY DEF Unopened, Begun, Removal, ReadyVerified, Live, Gone
<1>3. ASSUME NEW q \in Request PROVE Checked(q)'
  BY DEF Checked
<1> QED
  BY <1>1, <1>2, <1>3

LEMMA LeaseSafe ==
  ASSUME IInv, UNCHANGED patient, NEW r \in Request,
         (\E c \in Chunks : AppendChunk(r, c)) \/ Finalize(r) \/ CommitOffset(r) \/ Release(r)
  PROVE  IInv'
<1> USE DEF IInv
<1> row \in Row /\ reqs \in [Request -> Req] /\ reqs[r] \in Req
  BY DEF TypeOK
<1>1. ASSUME NEW c \in Chunks, AppendChunk(r, c) PROVE IInv'
  <2> DEFINE pc == IF row.received + Len(c) <= Size THEN "write" ELSE "release"
             req == [reqs[r] EXCEPT !.offset = row.received, !.chunk = c, !.pc = pc]
  <2>1. reqs' = [reqs EXCEPT ![r] = req] /\ row' = Leased(r)
    BY <1>1 DEF AppendChunk
  <2>2. req \in Req /\ req.pc \in {"write", "release"}
    <3>1. pc \in {"write", "release"} /\ row.received \in 0..Size /\ c \in Archive
      BY Archives DEF Row
    <3> HIDE DEF pc
    <3> QED
      BY <3>1 DEF Req
  <2> HIDE DEF req
  <2>3. row' \in Row /\ row'.status = row.status
    BY <2>1 DEF Leased, Row
  <2>4. row.status = "uploading" /\ begin = "off"
    BY <1>1 DEF AppendChunk, Claimable, Begun, Gone
  <2>5. /\ reqs' \in [Request -> Req] /\ reqs'[r].pc \in {"write", "release"}
        /\ \A q \in Request \ {r} : reqs'[q] = reqs[q]
    BY <2>1, <2>2
  <2>6. UNCHANGED <<begin, cleaner, faults>> /\ UNCHANGED Disk
    BY <1>1 DEF AppendChunk
  <2> QED
    BY <2>3, <2>4, <2>5, <2>6, RowMoves DEF Live
<1>2. CASE Finalize(r)
  <2>1. row' \in Row /\ row'.status = row.status
    BY <1>2 DEF Finalize, Leased, Row
  <2>2. row.status = "uploading" /\ begin = "off"
    BY <1>2 DEF Finalize, Claimable, Begun, Gone
  <2>3. PICK pc \in {"assemble", "release"} : Goto(r, pc)
    BY <1>2 DEF Finalize
  <2>4. /\ reqs' \in [Request -> Req] /\ reqs'[r].pc \in {"assemble", "release"}
        /\ \A q \in Request \ {r} : reqs'[q] = reqs[q]
    BY <2>3, PcSet
  <2>5. UNCHANGED <<begin, cleaner, faults>> /\ UNCHANGED Disk
    BY <1>2 DEF Finalize
  <2> QED
    BY <2>1, <2>2, <2>4, <2>5, RowMoves DEF Live
<1>3. CASE CommitOffset(r)
  <2>0. begin = "off" /\ row.status \in Live \cup Gone
    BY <1>3, Opened DEF CommitOffset, At, Alive
  <2>1. row' \in Row /\ row'.status = row.status
    <3>1. CanCommit(r) => reqs[r].offset + Len(reqs[r].chunk) \in 0..Size
      BY Archives, RemoteUploadsAssumption DEF CanCommit, Req
    <3> QED
      BY <1>3, <3>1 DEF CommitOffset, Row
  <2>2. row.status = "ready" => row' = row
    BY <1>3 DEF CommitOffset, CanCommit, Owns
  <2>3. /\ reqs' \in [Request -> Req] /\ reqs'[r].pc = "release"
        /\ \A q \in Request \ {r} : reqs'[q] = reqs[q]
    BY <1>3, PcSet DEF CommitOffset
  <2>4. UNCHANGED <<begin, cleaner, faults>> /\ UNCHANGED Disk
    BY <1>3 DEF CommitOffset
  <2> QED
    BY <2>0, <2>1, <2>2, <2>3, <2>4, RowMoves
<1>4. CASE Release(r)
  <2>0. begin = "off" /\ row.status \in Live \cup Gone
    BY <1>4, Opened DEF Release, At, Alive
  <2>1. row' \in Row /\ row'.status = row.status /\ row'.received = row.received
    BY <1>4 DEF Release, Row
  <2>2. row.status = "ready" => row'.owner = row.owner
    BY <1>4 DEF Release, TypeOK, Row
  <2>3. /\ reqs' \in [Request -> Req] /\ reqs'[r].pc = "dead"
        /\ \A q \in Request \ {r} : reqs'[q] = reqs[q]
    BY <1>4, DeadSet DEF Release
  <2>4. UNCHANGED <<begin, cleaner, faults>> /\ UNCHANGED Disk
    BY <1>4 DEF Release
  <2> QED
    BY <2>0, <2>1, <2>2, <2>3, <2>4, RowMoves
<1> QED
  BY <1>1, <1>2, <1>3, <1>4

\* Chunks, assembly and verification: only what matches is carried on.
LEMMA StepsSafe ==
  ASSUME IInv, UNCHANGED patient, NEW r \in Request,
         WriteChunk(r) \/ Assemble(r) \/ Verify(r) \/ Tidy(r) \/ Fails(r) \/ Crash(r)
  PROVE  IInv'
<1> USE DEF IInv
<1> reqs \in [Request -> Req] /\ reqs[r] \in Req /\ faults \in 0..MaxFaults
  BY DEF TypeOK
<1>0. Alive(r)
  BY DEF WriteChunk, Assemble, Verify, Tidy, Fails, Crash, At, Alive
<1>1. CASE WriteChunk(r)
  <2>1. PICK pc \in {"commit", "release"} : Goto(r, pc)
    BY <1>1 DEF WriteChunk
  <2>2. chunks' \in {<<>>} \cup [0..(Size - 1) -> Archive] /\ (~dir => chunks' = <<>>)
    <3> DEFINE o == reqs[r].offset
               c == reqs[r].chunk
    <3>1. c \in Archive
      BY DEF Req
    <3>2. chunks' = chunks \/ (o \in DOMAIN chunks /\ chunks' = [chunks EXCEPT ![o] = c])
      BY <1>1 DEF WriteChunk
    <3> HIDE DEF o, c
    <3>3. CASE chunks = <<>>
      <4>1. DOMAIN chunks = {}
        BY <3>3
      <4> QED
        BY <3>2, <3>3, <4>1
    <3>4. CASE chunks # <<>>
      <4>1. chunks \in [0..(Size - 1) -> Archive] /\ dir
        BY <3>4 DEF TypeOK
      <4> QED
        BY <3>1, <3>2, <4>1
    <3> QED
      BY <3>3, <3>4
  <2>3. UNCHANGED <<row, dir, archive, begin, cleaner, faults>>
    BY <1>1 DEF WriteChunk
  <2> QED
    BY <1>0, <2>1, <2>2, <2>3, PcSet, RequestMoves
<1>2. CASE Assemble(r)
  <2>1. CASE Goto(r, "release")
    BY <1>0, <1>2, <2>1, PcSet, RequestMoves DEF Assemble, Disk, TypeOK
  <2>2. CASE ~Goto(r, "release")
    <3>1. PICK built \in [1..Size -> {Right, Wrong}] :
            reqs' = [reqs EXCEPT ![r].temp = built, ![r].pc = "verify"]
      BY <1>2, <2>2 DEF Assemble
    <3>2. [reqs[r] EXCEPT !.temp = built, !.pc = "verify"] \in Req
      BY Archives DEF Req
    <3>3. /\ reqs' \in [Request -> Req] /\ reqs'[r].pc = "verify"
          /\ \A q \in Request \ {r} : reqs'[q] = reqs[q]
      BY <3>1, <3>2 DEF Req
    <3> QED
      BY <1>0, <1>2, <3>3, RequestMoves DEF Assemble, Disk, TypeOK
  <2> QED
    BY <2>1, <2>2
<1>3. CASE Verify(r)
  <2>1. PICK pc \in {"rename", "release"} :
          Goto(r, pc) /\ (pc = "rename" => reqs[r].temp = Declared)
    BY <1>3 DEF Verify, Matches
  <2> QED
    BY <1>0, <1>3, <2>1, PcSet, RequestMoves DEF Verify, Disk, TypeOK
<1>4. CASE Tidy(r)
  BY <1>0, <1>4, PcSet, RequestMoves DEF Tidy
<1>5. CASE Fails(r)
  BY <1>0, <1>5, PcSet, FaultSet, RequestMoves DEF Fails, Disk, TypeOK
<1>6. CASE Crash(r)
  BY <1>0, <1>6, DeadSet, FaultSet, RequestMoves DEF Crash, Disk, TypeOK
<1> QED
  BY <1>1, <1>2, <1>3, <1>4, <1>5, <1>6

\* Whoever promotes, promotes the declared archive; a directory that has been removed
\* is not filled again.
LEMMA PromoteSafe ==
  ASSUME IInv, UNCHANGED patient, NEW r \in Request, Promote(r) PROVE IInv'
<1> USE DEF IInv
<1>0. reqs[r].temp = Declared /\ begin = "off" /\ row.status \in Live \cup Gone
      /\ row.status # "reserved" /\ faults \in 0..MaxFaults
  BY Opened DEF Promote, At, Alive, Checked, TypeOK
<1>1. CASE ~dir
  <2>1. Goto(r, "release") /\ UNCHANGED <<row, dir, archive, chunks, begin, cleaner, faults>>
    BY <1>1 DEF Promote
  <2>2. Alive(r)
    BY DEF Promote, At, Alive
  <2> QED
    BY <1>0, <2>1, <2>2, PcSet, RequestMoves DEF TypeOK
<1>2. CASE dir
  <2>1. /\ archive' = Declared
        /\ UNCHANGED <<row, dir, chunks, begin, cleaner, faults>>
    BY <1>0, <1>2 DEF Promote
  <2>2. /\ reqs' \in [Request -> Req]
        /\ reqs'[r].pc = "complete" /\ reqs'[r].temp = Declared
        /\ \A q \in Request \ {r} : reqs'[q] = reqs[q]
    BY <1>0, <1>2, PcSet DEF Promote
  <2>3. TypeOK'
    BY <1>2, <2>1, <2>2, Archives DEF TypeOK
  <2>4. Unopened' /\ Begun' /\ Removal' /\ ReadyVerified'
    BY <1>0, <1>2, <2>1 DEF Unopened, Begun, Removal, ReadyVerified, Live, Gone
  <2>5. ASSUME NEW q \in Request PROVE Checked(q)'
    BY <1>2, <2>1, <2>2 DEF Checked
  <2> QED
    BY <2>3, <2>4, <2>5
<1> QED
  BY <1>1, <1>2

\* What becomes ready was promoted by the request that completes it, or by one that
\* promoted the same.
LEMMA CompleteSafe ==
  ASSUME IInv, UNCHANGED patient, NEW r \in Request, Complete(r) PROVE IInv'
<1> USE DEF IInv
<1>0. Alive(r) /\ reqs[r].pc = "complete"
  BY DEF Complete, At, Alive
<1>1. CASE ~CanComplete(r)
  <2>1. Goto(r, "release") /\ row' = row
        /\ UNCHANGED <<begin, cleaner, faults>> /\ UNCHANGED Disk
    BY <1>1 DEF Complete
  <2> QED
    BY <1>0, <2>1, PcSet, RequestMoves DEF TypeOK, Disk
<1>2. CASE CanComplete(r)
  <2>1. row.status = "uploading" /\ row.received = Size /\ dir /\ archive = Declared
        /\ begin = "off" /\ cleaner = "idle"
    BY <1>0, <1>2, Opened DEF CanComplete, Owns, Checked, Live, Removal, Gone, TypeOK
  <2>2. row' = [row EXCEPT !.status = "ready", !.owner = None]
        /\ UNCHANGED <<begin, cleaner, faults>> /\ UNCHANGED Disk
    BY <1>2 DEF Complete
  <2>3. row' \in Row /\ row'.status = "ready" /\ row'.received = Size /\ row'.owner = None
    BY <2>1, <2>2 DEF TypeOK, Row
  <2>4. /\ reqs' \in [Request -> Req] /\ reqs'[r].pc = "tidy"
        /\ \A q \in Request \ {r} : reqs'[q] = reqs[q]
    BY <1>2, PcSet DEF Complete
  <2>5. TypeOK'
    BY <2>1, <2>2, <2>3, <2>4 DEF TypeOK, Disk
  <2>6. Unopened' /\ Begun' /\ Removal' /\ ReadyVerified'
    BY <2>1, <2>2, <2>3 DEF Unopened, Begun, Removal, ReadyVerified, Disk
  <2>7. ASSUME NEW q \in Request PROVE Checked(q)'
    BY <2>1, <2>2, <2>4 DEF Checked, Disk
  <2> QED
    BY <2>5, <2>6, <2>7
<1> QED
  BY <1>1, <1>2

-----------------------------------------------------------------------------
(* Time and the cleanup.                                                   *)

LEMMA TimeSafe == ASSUME IInv, UNCHANGED patient, Lapse \/ Age PROVE IInv'
<1> USE DEF IInv
<1>1. row' \in Row /\ row'.status = row.status /\ row'.received = row.received
      /\ row'.owner = row.owner
  BY DEF Lapse, Age, TypeOK, Row
<1>2. faults' \in 0..MaxFaults /\ UNCHANGED <<begin, reqs, cleaner>> /\ UNCHANGED Disk
  BY FaultSet DEF Lapse, Age, TypeOK
<1>3. TypeOK'
  BY <1>1, <1>2 DEF TypeOK, Disk
<1>4. Unopened' /\ Begun' /\ Removal' /\ ReadyVerified'
  BY <1>1, <1>2 DEF Unopened, Alive, Begun, Removal, ReadyVerified, Disk
<1>5. (\A r \in Request : Checked(r))'
  BY <1>1, <1>2 DEF Checked, Disk
<1> QED
  BY <1>3, <1>4, <1>5

\* The row is taken out of every upload's reach before its files are removed.
LEMMA CleanupSafe ==
  ASSUME IInv, UNCHANGED patient, Cleanup \/ CleanerFails PROVE IInv'
<1> USE DEF IInv
<1>1. /\ row' \in Row /\ row'.status \in Gone
      /\ cleaner' \in {"idle", "remove", "row"} /\ faults' \in 0..MaxFaults
      /\ UNCHANGED <<begin, reqs>>
  <2>0. /\ faults \in 0..MaxFaults /\ row \in Row
        /\ \A s \in Gone : LET next == [row EXCEPT !.status = s]
                          IN  next \in Row /\ next.status = s
    BY StatusSet DEF TypeOK, Statuses
  <2>1. CASE ExpireUpload \/ ClaimDeletion
    BY <2>0, <2>1 DEF ExpireUpload, ClaimDeletion, Gone
  <2>2. CASE RemoveFiles
    BY <2>0, <2>2 DEF RemoveFiles, Removal
  <2>3. CASE FinishDeletion
    BY <2>0, <2>3 DEF FinishDeletion, Removal, Gone
  <2>4. CASE CleanerFails
    BY <2>0, <2>4, FaultSet DEF CleanerFails, Removal, Gone
  <2> QED
    BY <2>1, <2>2, <2>3, <2>4 DEF Cleanup
<1>2. UNCHANGED Disk \/ NoFiles
  BY DEF Cleanup, ExpireUpload, ClaimDeletion, RemoveFiles, FinishDeletion, CleanerFails
<1>3. begin # "off" \/ row.status = "reserved"
        => archive' = <<>> /\ \A r \in Request : ~Alive(r)'
  BY <1>1, <1>2 DEF Unopened, Alive, Disk, NoFiles
<1>4. TypeOK'
  <2>1. /\ dir' \in BOOLEAN /\ archive' \in Archive
        /\ chunks' \in {<<>>} \cup [0..(Size - 1) -> Archive]
        /\ ~dir' => archive' = <<>> /\ chunks' = <<>>
    BY <1>2, Archives DEF TypeOK, Disk, NoFiles
  <2> QED
    BY <1>1, <2>1 DEF TypeOK, Gone
<1>5. Unopened' /\ Begun' /\ Removal' /\ ReadyVerified'
  BY <1>1, <1>3 DEF Unopened, Begun, Removal, ReadyVerified, Gone
<1>6. (\A r \in Request : Checked(r))'
  BY <1>1 DEF Checked, Live, Gone
<1> QED
  BY <1>4, <1>5, <1>6

-----------------------------------------------------------------------------
(* The durable offset and the chunks on disk.                              *)

\* A new upload starts at offset 0, in a directory that exists.
Fresh == /\ row.status \in {"none", "reserved"} => row.received = 0
         /\ begin = "open" /\ row.status = "reserved" => dir

\* A request commits the offset only after its chunk, which is not empty, is on disk;
\* chunks are tidied away only when the upload is over.
Written(r) ==
    /\ reqs[r].pc \in {"write", "commit"} => reqs[r].chunk # <<>>
    /\ reqs[r].pc = "commit" /\ row.status = "uploading"
         => reqs[r].offset \in DOMAIN chunks /\ chunks[reqs[r].offset] = reqs[r].chunk
    /\ reqs[r].pc = "tidy" => row.status # "uploading"

OffsetInv == OffsetBacked /\ Fresh /\ \A r \in Request : Written(r)

\* What has been written to the chunk directory stays as it is.
ChunksStay == \A o \in DOMAIN chunks : chunks[o] # <<>> => o \in DOMAIN chunks' /\ chunks'[o] = chunks[o]

LEMMA BackedStays ==
  ASSUME OffsetBacked,
         row'.status = "uploading"
           => row.status = "uploading" /\ row'.received = row.received /\ dir' = dir /\ ChunksStay
  PROVE  OffsetBacked'
<1> SUFFICES ASSUME row'.status = "uploading"
             PROVE  dir' /\ \E C \in SUBSET (0..Size) : Chains(C)'
  BY DEF OffsetBacked
<1>1. PICK C \in SUBSET (0..Size) : Chains(C)
  BY DEF OffsetBacked
<1>2. Chains(C)'
  BY <1>1 DEF Chains, ChunksStay
<1> QED
  BY <1>2 DEF OffsetBacked

\* A request that does nothing, or goes on to a step in which it holds no chunk.
LEMMA WrittenStays ==
  ASSUME NEW q \in Request, Written(q), ChunksStay \/ row'.status # "uploading",
         row'.status = "uploading" => row.status = "uploading",
         reqs'[q] = reqs[q] \/ reqs'[q].pc \notin {"write", "commit", "tidy"}
  PROVE  Written(q)'
  BY DEF Written, ChunksStay

\* Nothing is written or committed, and no upload begins.
LEMMA OffsetQuiet ==
  ASSUME IInv, OffsetInv, ChunksStay \/ row'.status # "uploading",
         row'.status \in {"uploading", "reserved", "none"}
           => row'.status = row.status /\ row'.received = row.received /\ dir' = dir,
         begin' = "open" => begin = "open",
         \A q \in Request : reqs'[q] = reqs[q] \/ reqs'[q].pc \notin {"write", "commit", "tidy"}
  PROVE  OffsetInv'
<1>1. OffsetBacked'
  BY BackedStays DEF OffsetInv
<1>2. Fresh'
  BY DEF OffsetInv, Fresh
<1>3. ASSUME NEW q \in Request PROVE Written(q)'
  BY WrittenStays DEF OffsetInv
<1> QED
  BY <1>1, <1>2, <1>3 DEF OffsetInv

LEMMA OffsetInit == Init => OffsetInv
  BY DEF Init, OffsetInv, OffsetBacked, Fresh, Written, Off

LEMMA OffsetBeginning ==
  ASSUME IInv, OffsetInv, Beginning \/ BeginCrash PROVE OffsetInv'
<1> row \in Row
  BY DEF IInv, TypeOK
<1>0. ASSUME NEW s \in Statuses
      PROVE LET next == [row EXCEPT !.status = s]
            IN  next.status = s /\ next.received = row.received
  BY StatusSet DEF IInv
<1>1. CASE Reserve
  <2>1. row'.status = "reserved" /\ row'.received = 0 /\ begin' # "open" /\ UNCHANGED reqs
    BY <1>0, <1>1 DEF Reserve, Statuses, OffsetInv, Fresh
  <2>2. \A r \in Request : Written(r)'
    BY <2>1 DEF OffsetInv, Written
  <2> QED
    BY <2>1, <2>2 DEF OffsetInv, OffsetBacked, Fresh
<1>2. CASE MakeFiles
  <2>1. row.status # "uploading" /\ UNCHANGED <<row, reqs>> /\ (begin' = "open" => dir')
    BY <1>2 DEF MakeFiles, IInv, Begun, Gone
  <2>2. \A r \in Request : Written(r)'
    BY <2>1 DEF OffsetInv, Written
  <2> QED
    BY <2>1, <2>2 DEF OffsetInv, OffsetBacked, Fresh
<1>3. CASE Open
  <2>1. CASE CanOpen
    <3>1. /\ row'.status = "uploading" /\ row'.received = 0 /\ dir' /\ begin' = "off"
          /\ UNCHANGED reqs
      BY <1>0, <1>3, <2>1 DEF Open, CanOpen, Statuses, OffsetInv, Fresh, Disk
    <3>2. Chains({0})'
      BY <3>1 DEF Chains
    <3>3. {0} \in SUBSET (0..Size)
      BY RemoteUploadsAssumption
    <3>4. OffsetBacked'
      BY <3>1, <3>2, <3>3 DEF OffsetBacked
    <3>5. ASSUME NEW r \in Request PROVE Written(r)'
      <4>1. ~Alive(r)
        BY <1>3 DEF Open, IInv, Unopened
      <4> QED
        BY <3>1, <4>1 DEF Written, Alive
    <3> QED
      BY <3>1, <3>4, <3>5 DEF OffsetInv, Fresh
  <2>2. CASE ~CanOpen
    BY <1>3, <2>2, OffsetQuiet DEF Open, Disk, ChunksStay
  <2> QED
    BY <2>1, <2>2
<1>4. CASE Undo
  <2>1. row.status # "uploading" /\ UNCHANGED <<row, reqs>> /\ begin' # "open"
    BY <1>4 DEF Undo, IInv, Begun, Gone
  <2>2. \A r \in Request : Written(r)'
    BY <2>1 DEF OffsetInv, Written
  <2> QED
    BY <2>1, <2>2 DEF OffsetInv, OffsetBacked, Fresh
<1>5. CASE Discard
  <2>1. row' = row \/ row'.status = "discarded"
    BY <1>0, <1>5 DEF Discard, Statuses, Gone
  <2> QED
    BY <1>5, <2>1, OffsetQuiet DEF Discard, Disk, ChunksStay
<1>6. CASE BeginCrash
  BY <1>6, OffsetQuiet DEF BeginCrash, Disk, ChunksStay
<1> QED
  BY <1>1, <1>2, <1>3, <1>4, <1>5, <1>6 DEF Beginning

\* A request takes the lease with a chunk in hand, or none.
LEMMA OffsetLease ==
  ASSUME IInv, OffsetInv, NEW r \in Request,
         (\E c \in Chunks : AppendChunk(r, c)) \/ Finalize(r) \/ Release(r)
  PROVE  OffsetInv'
<1> row \in Row /\ reqs \in [Request -> Req] /\ reqs[r] \in Req
  BY DEF IInv, TypeOK
<1>1. /\ row'.status = row.status /\ row'.received = row.received
      /\ UNCHANGED begin /\ UNCHANGED Disk
      /\ \A q \in Request \ {r} : reqs'[q] = reqs[q]
  BY DEF AppendChunk, Finalize, Release, Leased, Goto, Die, Row
<1>2. CASE Finalize(r) \/ Release(r)
  <2>1. reqs'[r].pc \notin {"write", "commit", "tidy"}
    <3>1. CASE Finalize(r)
      <4>1. PICK pc \in {"assemble", "release"} : Goto(r, pc)
        BY <3>1 DEF Finalize
      <4> QED
        BY <4>1, PcSet DEF IInv
    <3>2. CASE Release(r)
      BY <3>2, DeadSet DEF Release, IInv
    <3> QED
      BY <1>2, <3>1, <3>2
  <2> QED
    BY <1>1, <2>1, OffsetQuiet DEF Disk, ChunksStay
<1>3. ASSUME NEW c \in Chunks, AppendChunk(r, c) PROVE OffsetInv'
  <2> DEFINE pc == IF row.received + Len(c) <= Size THEN "write" ELSE "release"
             req == [reqs[r] EXCEPT !.offset = row.received, !.chunk = c, !.pc = pc]
  <2>1. reqs' = [reqs EXCEPT ![r] = req]
    BY <1>3 DEF AppendChunk
  <2>2. c # <<>>
    <3>1. PICK n \in 1..Size : c \in [1..n -> {Right, Wrong}]
      BY RemoteUploadsAssumption
    <3>2. Len(c) = n
      BY <3>1
    <3>3. n # 0
      BY <3>1
    <3> QED
      BY <3>2, <3>3
  <2>3. req.pc \notin {"commit", "tidy"} /\ req.chunk = c
    BY DEF Req
  <2> HIDE DEF req
  <2>4. reqs'[r] = req
    BY <2>1
  <2>5. Written(r)'
    BY <2>2, <2>3, <2>4 DEF Written
  <2>6. ASSUME NEW q \in Request \ {r} PROVE Written(q)'
    BY <1>1, WrittenStays DEF OffsetInv, Disk, ChunksStay
  <2>7. OffsetBacked'
    BY <1>1, BackedStays DEF OffsetInv, Disk, ChunksStay
  <2>8. Fresh'
    BY <1>1 DEF OffsetInv, Fresh, Disk
  <2> QED
    BY <2>5, <2>6, <2>7, <2>8 DEF OffsetInv
<1> QED
  BY <1>2, <1>3

\* A chunk fills an empty place, or is there already.
LEMMA OffsetWrite ==
  ASSUME IInv, OffsetInv, NEW r \in Request, WriteChunk(r) PROVE OffsetInv'
<1> DEFINE o == reqs[r].offset
           c == reqs[r].chunk
<1>0. /\ UNCHANGED <<row, dir, begin>> /\ TypeOK
      /\ reqs \in [Request -> Req]
      /\ \A pc \in {"commit", "release"} : Goto(r, pc) =>
            /\ reqs'[r].pc = pc /\ reqs'[r].offset = o /\ reqs'[r].chunk = c
            /\ \A q \in Request \ {r} : reqs'[q] = reqs[q]
  BY DEF WriteChunk, IInv, TypeOK, Goto, Req
<1>1. CASE o \in DOMAIN chunks /\ Linked(r)
  <2>1. chunks' = [chunks EXCEPT ![o] = c] /\ Goto(r, "commit")
    BY <1>1 DEF WriteChunk
  <2>2. chunks[o] \in {<<>>, c}
    BY <1>1 DEF Linked
  <2>3. o \in DOMAIN chunks' /\ chunks'[o] = c
    BY <1>1, <2>1
  <2>4. ChunksStay
    BY <2>1, <2>2 DEF ChunksStay
  <2>5. c # <<>>
    BY DEF WriteChunk, At, OffsetInv, Written
  <2>6. Written(r)'
    BY <1>0, <2>1, <2>3, <2>5 DEF Written
  <2>7. ASSUME NEW q \in Request \ {r} PROVE Written(q)'
    BY <1>0, <2>1, <2>4, WrittenStays DEF OffsetInv
  <2>8. OffsetBacked' /\ Fresh'
    BY <1>0, <2>4, BackedStays DEF OffsetInv, Fresh
  <2> QED
    BY <2>6, <2>7, <2>8 DEF OffsetInv
<1>2. CASE ~(o \in DOMAIN chunks /\ Linked(r))
  <2>1. chunks' = chunks /\ Goto(r, "release")
    BY <1>2 DEF WriteChunk
  <2> QED
    BY <1>0, <2>1, OffsetQuiet DEF ChunksStay
<1> QED
  BY <1>1, <1>2

\* The offset moves on by the chunk that is on disk at the old offset.
LEMMA OffsetCommit ==
  ASSUME IInv, OffsetInv, NEW r \in Request, CommitOffset(r) PROVE OffsetInv'
<1> DEFINE o == reqs[r].offset
           c == reqs[r].chunk
           end == o + Len(c)
<1>0. /\ row \in Row /\ UNCHANGED begin /\ UNCHANGED Disk
      /\ reqs'[r].pc = "release" /\ \A q \in Request \ {r} : reqs'[q] = reqs[q]
  BY PcSet DEF CommitOffset, IInv, TypeOK
<1>1. CASE ~CanCommit(r)
  BY <1>0, <1>1, OffsetQuiet DEF CommitOffset, Disk, ChunksStay
<1>2. CASE CanCommit(r)
  <2>1. /\ row.status = "uploading" /\ row.received = o /\ end <= Size
        /\ row'.status = "uploading" /\ row'.received = end
    BY <1>0, <1>2 DEF CommitOffset, CanCommit, Owns, Row
  <2>2. o \in DOMAIN chunks /\ chunks[o] = c /\ c # <<>>
    BY <2>1 DEF CommitOffset, At, OffsetInv, Written
  <2>3. PICK C \in SUBSET (0..Size) : Chains(C)
    BY <2>1 DEF OffsetInv, OffsetBacked
  <2>4. end \in 0..Size
    <3>1. c \in Archive /\ o \in 0..Size
      BY DEF IInv, TypeOK, Req
    <3>2. Len(c) \in Nat
      BY <3>1, Archives
    <3> HIDE DEF c, o
    <3> QED
      BY <2>1, <3>1, <3>2, RemoteUploadsAssumption
  <2>5. PICK next \in 0..Size : next = end
    BY <2>4
  <2> DEFINE D == C \cup {next}
  <2>6. Chains(D)'
    <3>1. 0 \in D /\ row'.received \in D /\ UNCHANGED chunks
      BY <1>0, <2>1, <2>3, <2>5 DEF Chains, Disk
    <3>2. ASSUME NEW e \in D \ {0}
          PROVE  \E p \in D \cap DOMAIN chunks : chunks[p] # <<>> /\ p + Len(chunks[p]) = e
      <4>1. CASE e \in C
        BY <2>3, <3>2, <4>1 DEF Chains
      <4>2. CASE e = next
        BY <2>1, <2>2, <2>3, <2>5, <4>2 DEF Chains
      <4> QED
        BY <3>2, <4>1, <4>2
    <3> QED
      BY <3>1, <3>2 DEF Chains
  <2>7. OffsetBacked'
    BY <1>0, <2>1, <2>5, <2>6 DEF OffsetBacked, OffsetInv, Disk
  <2>8. ASSUME NEW q \in Request PROVE Written(q)'
    BY <1>0, <2>1, WrittenStays DEF OffsetInv, Disk, ChunksStay
  <2> QED
    BY <1>0, <2>1, <2>7, <2>8 DEF OffsetInv, Fresh
<1> QED
  BY <1>1, <1>2

\* The steps that write no chunk; chunks are tidied away when the upload is over.
LEMMA OffsetSteps ==
  ASSUME IInv, OffsetInv, NEW r \in Request,
         Assemble(r) \/ Verify(r) \/ Promote(r) \/ Complete(r) \/ Tidy(r) \/ Fails(r) \/ Crash(r)
  PROVE  OffsetInv'
<1> TypeOK /\ row \in Row /\ reqs \in [Request -> Req] /\ reqs[r] \in Req
  BY DEF IInv, TypeOK
<1>1. CASE Assemble(r)
  <2>1. reqs'[r].pc \in {"verify", "release"} /\ \A q \in Request \ {r} : reqs'[q] = reqs[q]
    <3>1. CASE Goto(r, "release")
      BY <3>1, PcSet
    <3>2. CASE ~Goto(r, "release")
      <4>1. PICK built \in [1..Size -> {Right, Wrong}] :
              reqs' = [reqs EXCEPT ![r].temp = built, ![r].pc = "verify"]
        BY <1>1, <3>2 DEF Assemble
      <4> QED
        BY <4>1 DEF Req
    <3> QED
      BY <3>1, <3>2
  <2> QED
    BY <1>1, <2>1, OffsetQuiet DEF Assemble, Disk, ChunksStay
<1>2. CASE Verify(r)
  <2>1. reqs'[r].pc \in {"rename", "release"} /\ \A q \in Request \ {r} : reqs'[q] = reqs[q]
    <3>1. PICK pc \in {"rename", "release"} : Goto(r, pc)
      BY <1>2 DEF Verify
    <3> QED
      BY <3>1, PcSet
  <2> QED
    BY <1>2, <2>1, OffsetQuiet DEF Verify, Disk, ChunksStay
<1>3. CASE Promote(r)
  <2>1. reqs'[r].pc \in {"complete", "release"} /\ \A q \in Request \ {r} : reqs'[q] = reqs[q]
    <3>1. PICK pc \in {"complete", "release"} : Goto(r, pc)
      BY <1>3 DEF Promote
    <3> QED
      BY <3>1, PcSet
  <2> QED
    BY <1>3, <2>1, OffsetQuiet DEF Promote, ChunksStay
<1>4. CASE Complete(r) /\ CanComplete(r)
  <2>1. row'.status = "ready" /\ row.status = "uploading" /\ UNCHANGED begin /\ UNCHANGED Disk
    BY <1>4 DEF Complete, CanComplete, Owns, Row
  <2>2. reqs'[r].pc = "tidy" /\ \A q \in Request \ {r} : reqs'[q] = reqs[q]
    BY <1>4, PcSet DEF Complete
  <2>3. ASSUME NEW q \in Request PROVE Written(q)'
    BY <2>1, <2>2 DEF OffsetInv, Written
  <2> QED
    BY <2>1, <2>3 DEF OffsetInv, OffsetBacked, Fresh
<1>5. CASE Complete(r) /\ ~CanComplete(r)
  <2>1. reqs'[r].pc = "release" /\ \A q \in Request \ {r} : reqs'[q] = reqs[q]
    BY <1>5, PcSet DEF Complete
  <2> QED
    BY <1>5, <2>1, OffsetQuiet DEF Complete, Disk, ChunksStay
<1>6. CASE Tidy(r)
  <2>1. reqs'[r].pc = "release" /\ \A q \in Request \ {r} : reqs'[q] = reqs[q]
    BY <1>6, PcSet DEF Tidy
  <2>2. row.status # "uploading"
    BY <1>6 DEF Tidy, At, OffsetInv, Written
  <2> QED
    BY <1>6, <2>1, <2>2, OffsetQuiet DEF Tidy
<1>7. CASE Fails(r)
  <2>1. reqs'[r].pc = "release" /\ \A q \in Request \ {r} : reqs'[q] = reqs[q]
    BY <1>7, PcSet DEF Fails
  <2> QED
    BY <1>7, <2>1, OffsetQuiet DEF Fails, Disk, ChunksStay
<1>8. CASE Crash(r)
  <2>1. reqs'[r].pc = "dead" /\ \A q \in Request \ {r} : reqs'[q] = reqs[q]
    BY <1>8, DeadSet DEF Crash
  <2> QED
    BY <1>8, <2>1, OffsetQuiet DEF Crash, Disk, ChunksStay
<1> QED
  BY <1>1, <1>2, <1>3, <1>4, <1>5, <1>6, <1>7, <1>8

LEMMA OffsetTime ==
  ASSUME IInv, OffsetInv, Lapse \/ Age \/ Cleanup \/ CleanerFails PROVE OffsetInv'
<1> row \in Row
  BY DEF IInv, TypeOK
<1>0. ASSUME NEW s \in Statuses
      PROVE LET next == [row EXCEPT !.status = s]
            IN  next.status = s /\ next.received = row.received
  BY StatusSet DEF IInv
<1>1. CASE Lapse \/ Age
  <2>1. row'.status = row.status /\ row'.received = row.received
    BY <1>1 DEF Lapse, Age, Row
  <2> QED
    BY <1>1, <2>1, OffsetQuiet DEF Lapse, Age, Disk, ChunksStay
<1>2. CASE Cleanup \/ CleanerFails
  <2>1. row'.status \in Gone
    BY <1>0, <1>2 DEF IInv, Cleanup, ExpireUpload, ClaimDeletion, RemoveFiles, FinishDeletion,
                      CleanerFails, Removal, Gone, Statuses
  <2>2. UNCHANGED <<begin, reqs>>
    BY <1>2 DEF Cleanup, ExpireUpload, ClaimDeletion, RemoveFiles, FinishDeletion, CleanerFails
  <2> QED
    BY <2>1, <2>2, OffsetQuiet DEF Gone
<1> QED
  BY <1>1, <1>2

LEMMA OffsetStep ==
  ASSUME IInv, OffsetInv, [Next /\ UNCHANGED patient]_<<vars, patient>> PROVE OffsetInv'
<1>1. CASE UNCHANGED <<vars, patient>>
  BY <1>1, OffsetQuiet DEF vars, ChunksStay
<1>2. CASE Next
  <2>1. ASSUME NEW r \in Request, Work(r) \/ Fails(r) \/ Crash(r) \/ Finalize(r)
        PROVE  OffsetInv'
    BY <2>1, OffsetLease, OffsetWrite, OffsetCommit, OffsetSteps DEF Work
  <2>2. ASSUME NEW r \in Request, NEW c \in Chunks, AppendChunk(r, c) PROVE OffsetInv'
    BY <2>2, OffsetLease
  <2> QED
    BY <1>2, <2>1, <2>2, OffsetBeginning, OffsetTime DEF Next
<1> QED
  BY <1>1, <1>2

-----------------------------------------------------------------------------
(* The theorems.                                                           *)

LEMMA NextSafe == ASSUME IInv, [Next /\ UNCHANGED patient]_<<vars, patient>> PROVE IInv'
<1>1. CASE UNCHANGED <<vars, patient>>
  BY <1>1 DEF vars, IInv, TypeOK, Unopened, Begun, Removal, Checked, ReadyVerified, Alive
<1>2. CASE Next /\ UNCHANGED patient
  <2>1. CASE Beginning \/ BeginCrash
    BY <1>2, <2>1, BeginningSafe
  <2>2. CASE Cleanup \/ CleanerFails
    BY <1>2, <2>2, CleanupSafe
  <2>3. CASE Lapse \/ Age
    BY <1>2, <2>3, TimeSafe
  <2>4. ASSUME NEW r \in Request, Work(r) \/ Fails(r) \/ Crash(r) \/ Finalize(r) PROVE IInv'
    BY <1>2, <2>4, LeaseSafe, StepsSafe, PromoteSafe, CompleteSafe DEF Work
  <2>5. ASSUME NEW r \in Request, NEW c \in Chunks, AppendChunk(r, c) PROVE IInv'
    BY <1>2, <2>5, LeaseSafe
  <2> QED
    BY <1>2, <2>1, <2>2, <2>3, <2>4, <2>5 DEF Next
<1> QED
  BY <1>1, <1>2

LEMMA AlwaysIInv == Spec => []IInv
<1>1. Init => IInv
  BY InitHolds
<1>2. IInv /\ [Next /\ UNCHANGED patient]_<<vars, patient>> => IInv'
  BY NextSafe
<1> QED
  BY <1>1, <1>2, PTL DEF Spec

\* However requests, expiry and cleanup interleave, files exist only in the directory
\* and a row that is ready has received everything and is leased to nobody.
THEOREM UploadsTyped == Spec => []TypeOK
<1>1. IInv => TypeOK
  BY DEF IInv
<1> QED
  BY <1>1, AlwaysIInv, PTL

\* The offset a client is told to go on from is always the end of a chain of chunks on
\* disk: neither a late writer, nor a tidy, an undo or a cleanup takes away or replaces a
\* chunk the row counts.
THEOREM OffsetAlwaysBacked == Spec => []OffsetBacked
<1>1. Init => OffsetInv
  BY OffsetInit
<1>2. IInv /\ OffsetInv /\ [Next /\ UNCHANGED patient]_<<vars, patient>> => OffsetInv'
  BY OffsetStep
<1>3. OffsetInv => OffsetBacked
  BY DEF OffsetInv
<1> QED
  BY <1>1, <1>2, <1>3, AlwaysIInv, PTL DEF Spec

\* A source is never ready with other bytes than the declared ones, or without its
\* directory: neither when two finalizes overlap, nor when the lease changes hands
\* between the verification and the promotion, nor when the upload expires meanwhile.
THEOREM ReadyAlwaysVerified == Spec => []ReadyVerified
<1>1. IInv => ReadyVerified
  BY DEF IInv
<1> QED
  BY <1>1, AlwaysIInv, PTL

-----------------------------------------------------------------------------
(* The refinement: the source as SourceLifecycle has it.  References to it *)
(* are not modelled here.                                                  *)

PhaseOf(status) == CASE status \in {"reserved", "uploading"} -> "open"
                     [] status \in {"expired", "deleting"}   -> "leaving"
                     [] status \in {"deleted", "discarded"}  -> "gone"
                     [] OTHER                                -> status
Filed     == dir /\ archive = Declared
This      == "source"
Lifecycle == INSTANCE SourceLifecycle
    WITH Source <- {This}, phase <- [s \in {This} |-> PhaseOf(row.status)],
         filed <- [s \in {This} |-> Filed], used <- [s \in {This} |-> FALSE]

PhaseAt == [s \in {This} |-> PhaseOf(row.status)]
FiledAt == [s \in {This} |-> Filed]

\* The cleanup works on a row in `deleting`, and nothing of a source that is gone can come
\* back: a directory that the beginning makes too late has no request.
Erased ==
    /\ cleaner # "idle" => row.status = "deleting"
    /\ row.status \in {"deleted", "discarded"} \/ cleaner = "row"
         => archive = <<>> /\ (dir => \A r \in Request : ~Alive(r))

\* What SourceLifecycle lets happen to the source.
Moved(phase, next) ==
    \/ phase = next /\ (Filed' <=> Filed)
    \/ phase = next /\ phase \in {"open", "leaving"}
    \/ phase = "none" /\ next = "open" /\ (Filed' <=> Filed)
    \/ phase = "open" /\ next = "ready" /\ Filed /\ Filed'
    \/ phase \in {"open", "ready"} /\ next = "leaving" /\ (Filed' <=> Filed)
    \/ phase \in {"open", "leaving"} /\ next = "gone" /\ ~Filed /\ ~Filed'

LEMMA Phases ==
  /\ PhaseOf("none") = "none" /\ PhaseOf("reserved") = "open" /\ PhaseOf("uploading") = "open"
  /\ PhaseOf("ready") = "ready" /\ PhaseOf("expired") = "leaving"
  /\ PhaseOf("deleting") = "leaving" /\ PhaseOf("deleted") = "gone"
  /\ PhaseOf("discarded") = "gone"
  BY DEF PhaseOf

LEMMA Mapping ==
  /\ Lifecycle!Reserve(This) <=> /\ PhaseAt[This] = "none" /\ FiledAt' = FiledAt
                                 /\ PhaseAt' = [PhaseAt EXCEPT ![This] = "open"]
  /\ Lifecycle!Put(This) <=> /\ PhaseAt[This] \in {"open", "leaving"} /\ PhaseAt' = PhaseAt
                             /\ FiledAt' = [FiledAt EXCEPT ![This] = TRUE]
  /\ Lifecycle!Remove(This) <=> /\ PhaseAt[This] \in {"open", "leaving"} /\ PhaseAt' = PhaseAt
                                /\ FiledAt' = [FiledAt EXCEPT ![This] = FALSE]
  /\ /\ PhaseAt[This] = "open" /\ FiledAt[This] /\ FiledAt' = FiledAt
     /\ PhaseAt' = [PhaseAt EXCEPT ![This] = "ready"]
     => Lifecycle!Complete(This)
  /\ Lifecycle!Leave(This) <=> /\ PhaseAt[This] \in {"open", "ready"} /\ FiledAt' = FiledAt
                               /\ PhaseAt' = [PhaseAt EXCEPT ![This] = "leaving"]
  /\ Lifecycle!Erase(This) <=> /\ PhaseAt[This] \in {"open", "leaving"} /\ ~FiledAt[This]
                               /\ PhaseAt' = [PhaseAt EXCEPT ![This] = "gone"]
                               /\ FiledAt' = FiledAt
  BY DEF Lifecycle!Reserve, Lifecycle!Put, Lifecycle!Remove, Lifecycle!Complete,
     Lifecycle!Leave, Lifecycle!Erase, Lifecycle!Enter, Lifecycle!File, PhaseAt, FiledAt

LEMMA Moves ==
  ASSUME Moved(PhaseOf(row.status), PhaseOf(row'.status))
  PROVE  [Lifecycle!Next]_(Lifecycle!vars)
<1>1. /\ PhaseAt[This] = PhaseOf(row.status)
      /\ PhaseAt' = [PhaseAt EXCEPT ![This] = PhaseOf(row'.status)]
      /\ PhaseOf(row.status) = PhaseOf(row'.status) => PhaseAt' = PhaseAt
  BY DEF PhaseAt
<1>2. /\ (FiledAt[This] <=> Filed)
      /\ (Filed' => FiledAt' = [FiledAt EXCEPT ![This] = TRUE])
      /\ (~Filed' => FiledAt' = [FiledAt EXCEPT ![This] = FALSE])
      /\ ((Filed' <=> Filed) => FiledAt' = FiledAt)
  BY DEF FiledAt, Filed
<1>3. CASE PhaseOf(row.status) = PhaseOf(row'.status) /\ (Filed' <=> Filed)
  BY <1>1, <1>2, <1>3 DEF PhaseAt, FiledAt, Lifecycle!vars
<1>4. CASE ~(PhaseOf(row.status) = PhaseOf(row'.status) /\ (Filed' <=> Filed))
  <2>1. \/ Lifecycle!Put(This) \/ Lifecycle!Remove(This) \/ Lifecycle!Reserve(This)
        \/ Lifecycle!Complete(This) \/ Lifecycle!Leave(This) \/ Lifecycle!Erase(This)
    BY <1>1, <1>2, <1>4, Mapping DEF Moved
  <2> QED
    BY <2>1 DEF Lifecycle!Next
<1> QED
  BY <1>3, <1>4

\* Steps that leave the status and the archive alone, and start requests only while the
\* upload is open.
LEMMA StatusKept ==
  ASSUME IInv, Erased, row'.status = row.status, UNCHANGED <<dir, archive, cleaner>>,
         \A q \in Request : Alive(q)' => Alive(q) \/ row.status = "uploading"
  PROVE  Erased' /\ [Lifecycle!Next]_(Lifecycle!vars)
<1>1. Erased'
  BY DEF Erased
<1>2. Filed' <=> Filed
  BY DEF Filed
<1> QED
  BY <1>1, <1>2, Moves DEF Moved

\* The beginning changes files only while there is no archive.
LEMMA BeginningMoves ==
  ASSUME IInv, Erased, Beginning \/ BeginCrash
  PROVE  Erased' /\ [Lifecycle!Next]_(Lifecycle!vars)
<1> row \in Row
  BY DEF IInv, TypeOK
<1>1. CASE Reserve
  <2>1. /\ row.status = "none" /\ row'.status = "reserved"
        /\ UNCHANGED <<dir, archive, reqs, cleaner>>
    BY <1>1, StatusSet DEF Reserve, Statuses, Disk, IInv
  <2>2. Erased'
    BY <2>1 DEF Erased
  <2>3. Filed' <=> Filed
    BY <2>1 DEF Filed
  <2> QED
    BY <2>1, <2>2, <2>3, Phases, Moves DEF Moved
<1>2. CASE MakeFiles \/ Undo
  <2>1. /\ archive = <<>> /\ archive' = <<>> /\ \A r \in Request : ~Alive(r)
        /\ UNCHANGED <<row, reqs, cleaner>>
    BY <1>2 DEF MakeFiles, Undo, NoFiles, IInv, Unopened
  <2>2. Erased'
    BY <2>1 DEF Erased, Alive
  <2>3. ~Filed /\ ~Filed'
    BY <2>1, RemoteUploadsAssumption DEF Filed, Declared
  <2> QED
    BY <2>1, <2>2, <2>3, Moves DEF Moved
<1>3. CASE Open
  <2>1. UNCHANGED <<dir, archive, reqs, cleaner>>
    BY <1>3 DEF Open, Disk
  <2>2. CASE CanOpen
    <3>1. row.status = "reserved" /\ row'.status = "uploading"
      BY <1>3, <2>2 DEF Open, CanOpen, Row
    <3>2. Erased'
      BY <2>1, <3>1 DEF Erased
    <3>3. Filed' <=> Filed
      BY <2>1 DEF Filed
    <3> QED
      BY <3>1, <3>2, <3>3, Phases, Moves DEF Moved
  <2>3. CASE ~CanOpen
    BY <1>3, <2>1, <2>3, StatusKept DEF Open, Alive
  <2> QED
    BY <2>2, <2>3
<1>4. CASE Discard
  <2>1. /\ archive = <<>> /\ \A r \in Request : ~Alive(r)
        /\ UNCHANGED <<dir, archive, reqs, cleaner>>
    BY <1>4 DEF Discard, Disk, IInv, Unopened
  <2>2. CASE row.status \in {"reserved", "uploading"}
    <3>1. row'.status = "discarded"
      BY <1>4, <2>2, StatusSet DEF Discard, Statuses, Gone, IInv
    <3>2. Erased'
      BY <2>1, <2>2, <3>1 DEF Erased, Alive
    <3>3. ~Filed /\ ~Filed'
      BY <2>1, RemoteUploadsAssumption DEF Filed, Declared
    <3> QED
      BY <2>2, <3>1, <3>2, <3>3, Phases, Moves DEF Moved
  <2>3. CASE row.status \notin {"reserved", "uploading"}
    BY <1>4, <2>1, <2>3, StatusKept DEF Discard, Alive
  <2> QED
    BY <2>2, <2>3
<1>5. CASE BeginCrash
  BY <1>5, StatusKept DEF BeginCrash, Disk, Alive
<1> QED
  BY <1>1, <1>2, <1>3, <1>4, <1>5 DEF Beginning

\* A request files what was declared, and only while the row is open or on its way out.
LEMMA RequestsMove ==
  ASSUME IInv, Erased, NEW r \in Request, Work(r) \/ Fails(r) \/ Crash(r) \/ Finalize(r)
  PROVE  Erased' /\ [Lifecycle!Next]_(Lifecycle!vars)
<1> row \in Row /\ reqs \in [Request -> Req]
  BY DEF IInv, TypeOK
<1>1. CASE WriteChunk(r) \/ Assemble(r) \/ Verify(r) \/ Tidy(r) \/ Fails(r) \/ Crash(r)
  <2>1. UNCHANGED <<row, dir, archive, cleaner>> /\ Alive(r)
    BY <1>1 DEF WriteChunk, Assemble, Verify, Tidy, Fails, Crash, Disk, Alive, At
  <2>2. \A q \in Request \ {r} : reqs'[q] = reqs[q]
    BY <1>1 DEF WriteChunk, Assemble, Verify, Tidy, Fails, Crash, Goto, Die
  <2> QED
    BY <2>1, <2>2, StatusKept DEF Alive
<1>2. CASE CommitOffset(r) \/ Release(r) \/ Finalize(r)
  <2>1. row'.status = row.status /\ UNCHANGED <<dir, archive, cleaner>>
    BY <1>2 DEF CommitOffset, Release, Finalize, Leased, Disk, Row
  <2>2. Alive(r) \/ row.status = "uploading"
    BY <1>2 DEF CommitOffset, Release, Finalize, Claimable, Alive, At
  <2>3. \A q \in Request \ {r} : reqs'[q] = reqs[q]
    BY <1>2 DEF CommitOffset, Release, Finalize, Goto, Die
  <2> QED
    BY <2>1, <2>2, <2>3, StatusKept DEF Alive
<1>3. CASE Promote(r)
  <2>1. /\ Alive(r) /\ reqs[r].temp = Declared /\ UNCHANGED <<row, dir, cleaner>>
        /\ \A q \in Request \ {r} : reqs'[q] = reqs[q]
    BY <1>3 DEF Promote, At, Alive, Goto, IInv, Checked
  <2>2. CASE ~dir
    BY <1>3, <2>1, <2>2, StatusKept DEF Promote, Alive
  <2>3. CASE dir
    <3>1. archive' = Declared /\ Filed'
      BY <1>3, <2>1, <2>3 DEF Promote, Filed, Declared
    <3>2. row.status \notin {"none", "deleted", "discarded"} /\ cleaner # "row"
      BY <2>1, <2>3 DEF IInv, Unopened, Erased
    <3>3. Erased'
      BY <2>1, <3>2 DEF Erased
    <3>4. row.status = "ready" => Filed
      BY DEF IInv, ReadyVerified, Filed
    <3> QED
      BY <2>1, <3>1, <3>2, <3>3, <3>4, Phases, Moves DEF Moved, Row
  <2> QED
    BY <2>2, <2>3
<1>4. CASE Complete(r)
  <2>1. /\ Alive(r) /\ UNCHANGED <<dir, archive, cleaner>>
        /\ \A q \in Request \ {r} : reqs'[q] = reqs[q]
    BY <1>4 DEF Complete, At, Alive, Goto, Disk
  <2>2. CASE CanComplete(r)
    <3>1. row.status = "uploading" /\ row'.status = "ready" /\ Filed
      BY <1>4, <2>2 DEF Complete, CanComplete, Owns, At, IInv, Checked, Live, Filed, Row
    <3>2. Erased'
      BY <2>1, <3>1 DEF Erased
    <3>3. Filed'
      BY <2>1, <3>1 DEF Filed
    <3> QED
      BY <3>1, <3>2, <3>3, Phases, Moves DEF Moved
  <2>3. CASE ~CanComplete(r)
    BY <1>4, <2>1, <2>3, StatusKept DEF Complete, Alive
  <2> QED
    BY <2>2, <2>3
<1> QED
  BY <1>1, <1>2, <1>3, <1>4 DEF Work

LEMMA AppendMoves ==
  ASSUME IInv, Erased, NEW r \in Request, NEW c \in Chunks, AppendChunk(r, c)
  PROVE  Erased' /\ [Lifecycle!Next]_(Lifecycle!vars)
<1>1. row'.status = row.status /\ row.status = "uploading" /\ UNCHANGED <<dir, archive, cleaner>>
  BY DEF AppendChunk, Claimable, Leased, Disk, IInv, TypeOK, Row
<1> QED
  BY <1>1, StatusKept

\* The cleanup removes the files before the row says that the source is gone.
LEMMA CleanupMoves ==
  ASSUME IInv, Erased, Cleanup \/ CleanerFails
  PROVE  Erased' /\ [Lifecycle!Next]_(Lifecycle!vars)
<1> row \in Row
  BY DEF IInv, TypeOK
<1>1. UNCHANGED reqs
  BY DEF Cleanup, ExpireUpload, ClaimDeletion, RemoveFiles, FinishDeletion, CleanerFails
<1>2. CASE ExpireUpload \/ ClaimDeletion
  <2>1. /\ \/ /\ row.status \in {"reserved", "uploading"}
              /\ row'.status = "expired" /\ cleaner' = "idle"
           \/ /\ row.status \in {"ready", "expired", "deleting"}
              /\ row'.status = "deleting" /\ cleaner' = "remove"
        /\ UNCHANGED <<dir, archive>>
    BY <1>2 DEF ExpireUpload, Expirable, ClaimDeletion, Disk, Row
  <2>2. Erased'
    BY <2>1 DEF Erased
  <2>3. Filed' <=> Filed
    BY <2>1 DEF Filed
  <2> QED
    BY <2>1, <2>2, <2>3, Phases, Moves DEF Moved
<1>3. CASE RemoveFiles
  <2>1. /\ row' = row /\ row.status = "deleting" /\ cleaner' = "row"
        /\ dir' = FALSE /\ archive' = <<>>
    BY <1>3 DEF RemoveFiles, NoFiles, Erased
  <2>2. Erased'
    BY <2>1 DEF Erased
  <2> QED
    BY <2>1, <2>2, Phases, Moves DEF Moved
<1>4. CASE FinishDeletion
  <2>1. /\ row.status = "deleting" /\ row'.status = "deleted" /\ cleaner' = "idle"
        /\ archive = <<>> /\ (dir => \A r \in Request : ~Alive(r))
        /\ UNCHANGED <<dir, archive>>
    BY <1>4, StatusSet DEF FinishDeletion, Erased, Statuses, Gone, Disk, IInv
  <2>2. Erased'
    BY <1>1, <2>1 DEF Erased, Alive
  <2>3. ~Filed /\ ~Filed'
    BY <2>1, RemoteUploadsAssumption DEF Filed, Declared
  <2> QED
    BY <2>1, <2>2, <2>3, Phases, Moves DEF Moved
<1>5. CASE CleanerFails
  <2>1. /\ row.status = "deleting" /\ row'.status \in {"deleting", "expired"}
        /\ cleaner' = "idle" /\ UNCHANGED <<dir, archive>>
    BY <1>5, StatusSet DEF CleanerFails, Erased, Statuses, Gone, Disk, IInv
  <2>2. Erased'
    BY <2>1 DEF Erased
  <2>3. Filed' <=> Filed
    BY <2>1 DEF Filed
  <2> QED
    BY <2>1, <2>2, <2>3, Phases, Moves DEF Moved
<1> QED
  BY <1>2, <1>3, <1>4, <1>5 DEF Cleanup

LEMMA LifecycleStep ==
  ASSUME IInv, Erased, [Next /\ UNCHANGED patient]_<<vars, patient>>
  PROVE  Erased' /\ [Lifecycle!Next]_(Lifecycle!vars)
<1>1. CASE UNCHANGED <<vars, patient>>
  BY <1>1, StatusKept DEF vars, Alive
<1>2. CASE Beginning \/ BeginCrash
  BY <1>2, BeginningMoves
<1>3. CASE Cleanup \/ CleanerFails
  BY <1>3, CleanupMoves
<1>4. CASE Lapse \/ Age
  <2>1. row'.status = row.status /\ UNCHANGED <<dir, archive, cleaner, reqs>>
    BY <1>4 DEF Lapse, Age, Disk, IInv, TypeOK, Row
  <2> QED
    BY <2>1, StatusKept DEF Alive
<1>5. ASSUME NEW r \in Request, Work(r) \/ Fails(r) \/ Crash(r) \/ Finalize(r)
      PROVE  Erased' /\ [Lifecycle!Next]_(Lifecycle!vars)
  BY <1>5, RequestsMove
<1>6. ASSUME NEW r \in Request, NEW c \in Chunks, AppendChunk(r, c)
      PROVE  Erased' /\ [Lifecycle!Next]_(Lifecycle!vars)
  BY <1>6, AppendMoves
<1> QED
  BY <1>1, <1>2, <1>3, <1>4, <1>5, <1>6 DEF Next

LEMMA LifecycleInit == Init => Lifecycle!Init /\ Erased
<1> SUFFICES ASSUME Init PROVE Lifecycle!Init /\ Erased
  OBVIOUS
<1>1. PhaseOf(row.status) = "none" /\ ~Filed
  BY Phases DEF Init, Filed
<1>2. Erased
  BY DEF Init, Erased
<1>3. PhaseAt = [s \in {This} |-> "none"]
  BY <1>1 DEF PhaseAt
<1>4. FiledAt = [s \in {This} |-> FALSE]
  BY <1>1 DEF FiledAt, Filed
<1> QED
  BY <1>2, <1>3, <1>4 DEF Lifecycle!Init, PhaseAt, FiledAt

\* A remote source becomes ready with its archive in place, and once it has expired or is
\* being deleted no request, however late, and no failure of the cleanup brings it back.
THEOREM RemoteImplementsSource == Spec => Lifecycle!Spec
<1>1. Init => IInv /\ Erased /\ Lifecycle!Init
  BY InitHolds, LifecycleInit
<1>2. IInv /\ Erased /\ [Next /\ UNCHANGED patient]_<<vars, patient>>
      => Erased' /\ [Lifecycle!Next]_(Lifecycle!vars)
  BY LifecycleStep
<1> QED
  BY <1>1, <1>2, AlwaysIInv, PTL DEF Spec, Lifecycle!Spec
=============================================================================
