--------------------------- MODULE RemoteUploads ---------------------------
(***************************************************************************)
(* A source uploaded in chunks through the remote MCP service: the request *)
(* that begins the upload, requests that append chunks or finalize, under  *)
(* the upload lease, and the cleanup that expires and deletes the source   *)
(* (packages/remote-mcp-core/src/index.ts,                                 *)
(* packages/database/src/repositories/sources.ts).                         *)
(*                                                                         *)
(* An archive is a sequence of units.  A request is alive until it ends or *)
(* its process dies; identities are random and never used again.  Removing *)
(* the directory is one step, or fails.                                    *)
(***************************************************************************)
EXTENDS Naturals, Sequences

CONSTANTS Request, None,
          Right, Wrong,  \* units of the declared archive, and any other
          Size,          \* units of the declared archive
          Chunks,        \* the chunks clients send
          MaxFaults      \* bound: stalls, crashes and failed file operations

ASSUME RemoteUploadsAssumption ==
    /\ None \notin Request /\ Right # Wrong /\ Size \in Nat \ {0} /\ MaxFaults \in Nat
    /\ Chunks \subseteq UNION {[1..n -> {Right, Wrong}] : n \in 1..Size}

VARIABLES row,      \* the row of the source
          dir,      \* does its directory exist?
          archive,  \* source.zip
          chunks,   \* .chunks/<offset>; the directory of chunks is the domain
          begin,    \* where beginSourceUpload is
          reqs,     \* chunk and finalize requests
          cleaner,  \* where the cleanup is with this source
          faults,
          patient   \* one client, that sends the archive unit by unit, each after an
                    \* answer, and in time; or several, that send what they like?

vars == <<row, dir, archive, chunks, begin, reqs, cleaner, faults>>
Disk == <<dir, archive, chunks>>

Declared == [i \in 1..Size |-> Right]
Archive  == UNION {[1..n -> {Right, Wrong}] : n \in 0..Size}
Row == [status   : {"none", "reserved", "uploading", "ready", "expired", "deleting", "deleted",
                    "discarded"},
        received : 0..Size, owner : Request \cup {None}, lapsed : BOOLEAN, old : BOOLEAN]
Req == [pc : {"off", "dead", "write", "commit", "assemble", "verify", "rename", "complete",
              "tidy", "release"},
        offset : 0..Size, chunk : Archive, temp : Archive]
Off == [pc |-> "off", offset |-> 0, chunk |-> <<>>, temp |-> <<>>]

Init == /\ row = [status |-> "none", received |-> 0, owner |-> None, lapsed |-> FALSE,
                  old |-> FALSE]
        /\ dir = FALSE /\ archive = <<>> /\ chunks = <<>>
        /\ begin = "off" /\ reqs = [r \in Request |-> Off] /\ cleaner = "idle" /\ faults = 0
        /\ patient \in BOOLEAN

Fault       == faults < MaxFaults /\ faults' = faults + 1
Alive(r)    == reqs[r].pc \notin {"off", "dead"}
At(r, pc)   == reqs[r].pc = pc
Goto(r, pc) == reqs' = [reqs EXCEPT ![r].pc = pc]
Die(r)      == reqs' = [reqs EXCEPT ![r] = [Off EXCEPT !.pc = "dead"]]
NoFiles     == dir' = FALSE /\ archive' = <<>> /\ chunks' = <<>>

-----------------------------------------------------------------------------
(* beginSourceUpload.                                                      *)

Reserve ==
    /\ begin = "off" /\ row.status = "none"
    /\ row' = [row EXCEPT !.status = "reserved"] /\ begin' = "files"
    /\ UNCHANGED <<reqs, cleaner, faults>> /\ UNCHANGED Disk

\* Directory, empty archive and chunk directory.
MakeFiles ==
    /\ begin = "files"
    /\ \/ /\ dir' = TRUE /\ chunks' = [o \in 0..(Size - 1) |-> <<>>]
          /\ begin' = "open" /\ UNCHANGED faults
       \/ dir' \in BOOLEAN /\ chunks' = <<>> /\ begin' = "undo" /\ Fault
    /\ UNCHANGED <<row, archive, reqs, cleaner>>

\* transitionBeforeExpiry
CanOpen == row.status = "reserved" /\ ~row.old
Open ==
    /\ begin = "open"
    /\ IF CanOpen THEN row' = [row EXCEPT !.status = "uploading"] /\ begin' = "off"
                  ELSE row' = row /\ begin' = "undo"
    /\ UNCHANGED <<reqs, cleaner, faults>> /\ UNCHANGED Disk

Undo ==
    /\ begin = "undo" /\ NoFiles /\ begin' = "discard"
    /\ UNCHANGED <<row, reqs, cleaner, faults>>

Discard ==
    /\ begin = "discard" /\ begin' = "off"
    /\ row' = IF row.status \in {"reserved", "uploading"}
                THEN [row EXCEPT !.status = "discarded"] ELSE row
    /\ UNCHANGED <<reqs, cleaner, faults>> /\ UNCHANGED Disk

BeginCrash ==
    /\ begin # "off" /\ Fault /\ begin' = "off"
    /\ UNCHANGED <<row, reqs, cleaner>> /\ UNCHANGED Disk

-----------------------------------------------------------------------------
(* The lease.                                                              *)

Claimable_Free == row.status = "uploading" /\ ~row.old /\ row.owner = None
Claimable == row.status = "uploading" /\ ~row.old /\ (row.owner = None \/ row.lapsed)
Leased(r) == [row EXCEPT !.owner = r, !.lapsed = FALSE]
Owns(r)   == row.status = "uploading" /\ ~row.old /\ row.owner = r /\ ~row.lapsed

Release(r) ==
    /\ At(r, "release")
    /\ row' = IF row.owner = r THEN [row EXCEPT !.owner = None, !.lapsed = FALSE] ELSE row
    /\ Die(r)
    /\ UNCHANGED <<begin, cleaner, faults>> /\ UNCHANGED Disk

-----------------------------------------------------------------------------
(* appendSourceChunk.                                                      *)

\* A patient client waits for an answer, and sends what the upload needs.
InTurn(full) == patient => full = (row.received = Size) /\ \A q \in Request : ~Alive(q)

\* A client sends what it likes; what is not at the durable offset, or too long, is
\* refused before anything is written.
AppendChunk(r, chunk) ==
    /\ At(r, "off") /\ Claimable /\ InTurn(FALSE) /\ (patient => chunk = <<Right>>)
    /\ row' = Leased(r)
    /\ reqs' = [reqs EXCEPT ![r].offset = row.received, ![r].chunk = chunk,
                            ![r].pc = IF row.received + Len(chunk) <= Size THEN "write"
                                                                           ELSE "release"]
    /\ UNCHANGED <<begin, cleaner, faults>> /\ UNCHANGED Disk

\* link creates and never replaces; the same bytes from a lost request are adopted.
Linked_Replaced(r) == TRUE
Linked(r) == chunks[reqs[r].offset] \in {<<>>, reqs[r].chunk}
WriteChunk(r) ==
    /\ At(r, "write")
    /\ IF reqs[r].offset \in DOMAIN chunks /\ Linked(r)
         THEN /\ chunks' = [chunks EXCEPT ![reqs[r].offset] = reqs[r].chunk]
              /\ Goto(r, "commit")
         ELSE chunks' = chunks /\ Goto(r, "release")
    /\ UNCHANGED <<row, dir, archive, begin, cleaner, faults>>

\* commitUploadOffset: the lease and the offset are compared with the row in
\* the statement that moves the offset forward.
CanCommit(r) == /\ Owns(r) /\ row.received = reqs[r].offset
                /\ reqs[r].offset + Len(reqs[r].chunk) <= Size
CommitOffset(r) ==
    /\ At(r, "commit")
    /\ row' = IF CanCommit(r) THEN [row EXCEPT !.received = reqs[r].offset + Len(reqs[r].chunk)]
                              ELSE row
    /\ Goto(r, "release")
    /\ UNCHANGED <<begin, cleaner, faults>> /\ UNCHANGED Disk

-----------------------------------------------------------------------------
(* completeSourceUpload.                                                   *)

Finalize(r) ==
    /\ At(r, "off") /\ Claimable /\ InTurn(TRUE)
    /\ row' = Leased(r)
    /\ Goto(r, IF row.received = Size THEN "assemble" ELSE "release")
    /\ UNCHANGED <<begin, cleaner, faults>> /\ UNCHANGED Disk

\* What the chunks on disk make up from offset o on; <<>> when they do not reach the end.
Assembled ==
    LET Chunk(o) == IF o \in DOMAIN chunks THEN chunks[o] ELSE <<>>
        From[o \in 0..Size] ==
          IF o = Size THEN <<>>
          ELSE LET c == Chunk(o) IN
               IF c = <<>> \/ o + Len(c) > Size THEN <<>>
               ELSE IF o + Len(c) = Size THEN c
               ELSE IF From[o + Len(c)] = <<>> THEN <<>> ELSE c \o From[o + Len(c)]
    IN From[0]

\* An archive that another finalize has promoted is taken as it is.
Assemble(r) ==
    /\ At(r, "assemble")
    /\ LET built == IF Len(archive) = Size THEN archive ELSE Assembled
       IN IF dir /\ built \in [1..Size -> {Right, Wrong}]
            THEN reqs' = [reqs EXCEPT ![r].temp = built, ![r].pc = "verify"]
            ELSE Goto(r, "release")
    /\ UNCHANGED <<row, begin, cleaner, faults>> /\ UNCHANGED Disk

\* Size, digest and content of the archive, and the lease once more.
Matches_Size(r) == Len(reqs[r].temp) = Size
Matches(r) == reqs[r].temp = Declared
Verify(r) ==
    /\ At(r, "verify")
    /\ Goto(r, IF Matches(r) /\ Owns(r) THEN "rename" ELSE "release")
    /\ UNCHANGED <<row, begin, cleaner, faults>> /\ UNCHANGED Disk

Promote(r) ==
    /\ At(r, "rename")
    /\ IF dir THEN archive' = reqs[r].temp /\ Goto(r, "complete")
              ELSE archive' = archive /\ Goto(r, "release")
    /\ UNCHANGED <<row, dir, chunks, begin, cleaner, faults>>

\* completeUpload
CanComplete(r) == Owns(r) /\ row.received = Size
Complete(r) ==
    /\ At(r, "complete")
    /\ IF CanComplete(r)
         THEN /\ row' = [row EXCEPT !.status = "ready", !.owner = None]
              /\ Goto(r, "tidy")
         ELSE row' = row /\ Goto(r, "release")
    /\ UNCHANGED <<begin, cleaner, faults>> /\ UNCHANGED Disk

Tidy(r) ==
    /\ At(r, "tidy") /\ Goto(r, "release") /\ chunks' = <<>>
    /\ UNCHANGED <<row, dir, archive, begin, cleaner, faults>>

-----------------------------------------------------------------------------
(* Mishaps, time and the cleanup.                                          *)

\* A file operation fails, or the process is killed.
Fails(r) ==
    /\ reqs[r].pc \in {"write", "assemble", "verify", "rename", "tidy"} /\ Fault
    /\ Goto(r, "release")
    /\ UNCHANGED <<row, begin, cleaner>> /\ UNCHANGED Disk
Crash(r) ==
    /\ Alive(r) /\ Fault /\ Die(r)
    /\ UNCHANGED <<row, begin, cleaner>> /\ UNCHANGED Disk

\* 60 s without renewal: the owner is dead, or stalls.
Lapse ==
    /\ row.owner # None /\ ~row.lapsed
    /\ IF Alive(row.owner) THEN Fault ELSE faults' = faults
    /\ row' = [row EXCEPT !.lapsed = TRUE]
    /\ UNCHANGED <<begin, reqs, cleaner>> /\ UNCHANGED Disk

\* expires_at; the retention of a ready source starts when it is completed.
Age ==
    /\ ~patient /\ row.status \in {"reserved", "uploading"} /\ ~row.old
    /\ row' = [row EXCEPT !.old = TRUE]
    /\ UNCHANGED <<begin, reqs, cleaner, faults>> /\ UNCHANGED Disk

Expirable == row.status \in {"reserved", "uploading"} /\ row.old
ExpireUpload ==
    /\ cleaner = "idle" /\ Expirable
    /\ row' = [row EXCEPT !.status = "expired"]
    /\ UNCHANGED <<begin, reqs, cleaner, faults>> /\ UNCHANGED Disk

\* A source that is ready goes the same way when its retention is over.
ClaimDeletion ==
    /\ cleaner = "idle"
    /\ row.status \in {"expired", "deleting"} \/ (~patient /\ row.status = "ready")
    /\ row' = [row EXCEPT !.status = "deleting"] /\ cleaner' = "remove"
    /\ UNCHANGED <<begin, reqs, faults>> /\ UNCHANGED Disk
RemoveFiles ==
    /\ cleaner = "remove" /\ NoFiles /\ cleaner' = "row"
    /\ UNCHANGED <<row, begin, reqs, faults>>
FinishDeletion ==
    /\ cleaner = "row" /\ cleaner' = "idle"
    /\ row' = IF row.status = "deleting" THEN [row EXCEPT !.status = "deleted"] ELSE row
    /\ UNCHANGED <<begin, reqs, faults>> /\ UNCHANGED Disk
CleanerFails ==
    /\ cleaner # "idle" /\ Fault /\ cleaner' = "idle"
    /\ row' \in {row, [row EXCEPT !.status = "expired"]}
    /\ UNCHANGED <<begin, reqs>> /\ UNCHANGED Disk

Work(r) == \/ WriteChunk(r) \/ CommitOffset(r) \/ Release(r) \/ Assemble(r) \/ Verify(r)
           \/ Promote(r) \/ Complete(r) \/ Tidy(r)
Cleanup == ExpireUpload \/ ClaimDeletion \/ RemoveFiles \/ FinishDeletion
Beginning == Reserve \/ MakeFiles \/ Open \/ Undo \/ Discard

Next == \/ Beginning \/ BeginCrash \/ Cleanup \/ CleanerFails \/ Lapse \/ Age
        \/ \E r \in Request : \/ Work(r) \/ Fails(r) \/ Crash(r) \/ Finalize(r)
                              \/ \E c \in Chunks : AppendChunk(r, c)

Spec == Init /\ [][Next /\ UNCHANGED patient]_<<vars, patient>>

\* A client that has heard nothing asks for the offset and sends the next request.
Retry == \E r \in Request : Finalize(r) \/ \E c \in Chunks : AppendChunk(r, c)
Fairness == /\ WF_vars(Beginning) /\ WF_vars(Retry) /\ WF_vars(Cleanup)
            /\ \A r \in Request : WF_vars(Work(r))
            /\ WF_vars((\A r \in Request : ~Alive(r)) /\ Lapse)

FairSpec == Spec /\ Fairness

-----------------------------------------------------------------------------
(* Properties.                                                             *)

\* Every variable has its type, files exist only in the directory, and a row that is
\* ready has received everything and is leased to nobody.
TypeOK ==
    /\ row \in Row /\ dir \in BOOLEAN /\ archive \in Archive
    /\ chunks \in {<<>>} \cup [0..(Size - 1) -> Archive]
    /\ begin \in {"off", "files", "open", "undo", "discard"}
    /\ reqs \in [Request -> Req] /\ cleaner \in {"idle", "remove", "row"}
    /\ faults \in 0..MaxFaults /\ patient \in BOOLEAN
    /\ row.status = "ready" => row.received = Size /\ row.owner = None
    /\ ~dir => archive = <<>> /\ chunks = <<>>

\* C holds the ends of chunks on disk that lead from offset 0 to the durable offset.
Chains(C) ==
    /\ 0 \in C /\ row.received \in C
    /\ \A o \in C \ {0} : \E p \in C \cap DOMAIN chunks :
         chunks[p] # <<>> /\ p + Len(chunks[p]) = o

\* The offset a client is told to go on from is always the end of a chain of chunks on
\* disk, whatever late writers do to the chunk directory ("Commit a filesystem append
\* only if the lease and expected offset still match", sources.ts:403-406).
OffsetBacked == row.status = "uploading" => dir /\ \E C \in SUBSET (0..Size) : Chains(C)

\* What is ready has the declared content, and a finalize that comes late, after the
\* upload was completed by another, does not take it away.
ReadyVerified == row.status = "ready" => dir /\ archive = Declared

\* An upload whose requests die or stall is taken over when the lease has run out, and
\* completed by a client that retries ("a crashed instance can be recovered after the
\* short lease expires", MIGRATIONS.md:83).
UploadCompletes ==
    patient /\ row.status = "uploading" ~> row.status = "ready"
=============================================================================
