---------------------------- MODULE PreviewsProofs ----------------------------
(***************************************************************************)
(* Theorems about Previews: its variables have their types, what is listed *)
(* of a PDF's previews is what is on disk, and, with one process at a time, *)
(* there is one container on the host, everything on disk is accounted     *)
(* for, and no mounted PDF is removed.                                     *)
(*                                                                         *)
(* The invariant follows a conversion. At most one request runs, and none  *)
(* beside an ordinary job (HostShared). While only one process is alive, a *)
(* process that converts owns the request that runs and its reservation    *)
(* (Converting), a container belongs to that request (Mounted) until the   *)
(* process that gives the request up has stopped it (Stopped), and the     *)
(* request is given up when nothing of it is left on disk (WorkGone,       *)
(* ImageGone). A process that lost its request cannot commit, and the only *)
(* one that may remove the image is the one that could commit (ImageKept). *)
(***************************************************************************)
EXTENDS Previews, FiniteSetTheorems, TLAPS

Resume    == {"off", "idle", "job", "dead"}
Converts  == {"reserved", "ready", "rendering", "rendered", "checked", "renamed", "tidied"}
NotMounted == {"claimed", "reserved", "ready", "rendered", "checked", "renamed", "tidied",
               "final", "finish", "prune", "give_up"}

\* The running request of c's page is at c's attempt and has reserved its space.
Holds(c) == /\ Running(c.page) /\ requests[c.page].reserved
            /\ requests[c.page].attempt = c.attempt

Types == TypeOK /\ \A w \in Worker : proc[w].pc \notin Resume => proc[w].page \in Page
Cleaning == /\ cleaner \in {"claimed", "removed"} => pdf = "deleting"
            /\ cleaner = "done" <=> pdf = "deleted"
HostShared == /\ \A p, q \in Page : Running(p) /\ Running(q) => p = q
              /\ render.container => render.status = "active"
              /\ render.status = "active" => \A p \in Page : ~Running(p)
ImageKept == \A w \in Worker : /\ proc[w].pc \in {"renamed", "tidied"} /\ pdf = "ready"
                               /\ Owns(proc[w].page, Me(w), proc[w].attempt)
                               => Of(w) \in outputs
OneAtATime == ~overlap => \A v, w \in Worker : Alive(v) /\ Alive(w) => v = w
Converting == ~overlap => \A w \in Worker : proc[w].pc \in Converts =>
                /\ Owns(proc[w].page, Me(w), proc[w].attempt)
                /\ requests[proc[w].page].reserved /\ cleaner = "idle"
Mounted    == ~overlap => \A c \in containers : Holds(c) /\ cleaner = "idle"
Stopped    == ~overlap => \A w \in Worker : proc[w].pc \in NotMounted => Of(w) \notin containers
WorkGone   == ~overlap => \A w \in Worker :
                proc[w].pc \in {"tidied", "finish", "give_up"} => Of(w) \notin works
ImageGone  == ~overlap /\ cleaner = "idle" => \A w \in Worker :
                proc[w].pc \in {"finish", "give_up"} => Of(w) \notin outputs \ rows

Inv == /\ Types /\ Cleaning /\ HostShared /\ PreviewsMatchRows /\ ImageKept
       /\ OneAtATime /\ Converting /\ Mounted /\ Stopped
       /\ WorkGone /\ ImageGone /\ DiskAccounted

Stepping == Next /\ UNCHANGED overlap

-----------------------------------------------------------------------------
(* What a step changes, one variable at a time.                            *)

Kept(w)  == proc'[w].page = proc[w].page /\ proc'[w].attempt = proc[w].attempt
Walks(w) == \/ /\ Reserve(w) /\ CanReserve(w) /\ proc'[w].pc = "reserved"
               /\ requests' = [requests EXCEPT ![proc[w].page].reserved = TRUE]
            \/ Prepare(w) /\ proc'[w].pc = "ready"
            \/ StartContainer(w) /\ proc'[w].pc = "rendering"
            \/ RenderEnds(w) /\ Of(w) \notin containers' /\ proc'[w].pc \in {"rendered", "final"}
            \/ Check(w) /\ proc'[w].pc = "checked"
            \/ Publish(w) /\ outputs' = outputs \cup {Of(w)} /\ proc'[w].pc = "renamed"
            \/ Tidy(w) /\ works' = works \ {Of(w)} /\ proc'[w].pc = "tidied"
            \/ /\ proc[w].pc \in {"claimed", "reserved", "rendered", "checked", "renamed",
                                  "tidied"}
               /\ proc'[w].pc = "final"
            \/ Final(w) /\ proc'[w].pc = "finish"
            \/ RecStop(w) /\ proc'[w].pc = "prune"
            \/ /\ RecPrune(w) /\ works' = works \ {Of(w)}
               /\ outputs' = outputs \ Unreferenced(w) /\ proc'[w].pc = "give_up"
Moves(w) == \/ proc'[w] = proc[w]
            \/ proc'[w].pc = "idle" /\ (Start(w) \/ Alive(w))
            \/ proc'[w].pc \in {"dead", "job"} /\ Alive(w)
            \/ \E p \in Page : /\ Claim(w, p) /\ proc'[w].pc = "claimed"
                               /\ proc'[w].page = p
                               /\ proc'[w].attempt = requests[p].attempt + 1
            \/ \E p \in Page : /\ RecClaim(w, p) /\ proc'[w].pc = "stop"
                               /\ proc'[w].page = p
                               /\ proc'[w].attempt = requests[p].attempt
            \/ Kept(w) /\ Walks(w)

LEMMA ProcSet ==
  ASSUME Types, NEW w \in Worker, NEW q \in Process, proc' = [proc EXCEPT ![w] = q],
         q.pc \notin Resume => q.page \in Page
  PROVE  /\ proc' \in [Worker -> Process] /\ proc'[w] = q
         /\ \A v \in Worker : v # w => proc'[v] = proc[v]
         /\ \A v \in Worker : proc'[v].pc \notin Resume => proc'[v].page \in Page
BY DEF Types, TypeOK

LEMMA Rested ==
  ASSUME Types, NEW w \in Worker, NEW pc \in {"idle", "dead"},
         proc' = [proc EXCEPT ![w] = Resting(pc)]
  PROVE  /\ proc' \in [Worker -> Process] /\ proc'[w].pc = pc
         /\ \A v \in Worker : v # w => proc'[v] = proc[v]
         /\ \A v \in Worker : proc'[v].pc \notin Resume => proc'[v].page \in Page
<1>1. Resting(pc) \in Process /\ Resting(pc).pc = pc
  BY PreviewsAssumption DEF Resting, Process, Places, Attempts
<1> QED
  BY <1>1, ProcSet DEF Resume

LEMMA Gone_To ==
  ASSUME Types, NEW w \in Worker, NEW pc \in Places, Goto(w, pc),
         pc = "job" \/ proc[w].page \in Page
  PROVE  /\ proc' \in [Worker -> Process] /\ proc'[w].pc = pc /\ Kept(w)
         /\ \A v \in Worker : v # w => proc'[v] = proc[v]
         /\ \A v \in Worker : proc'[v].pc \notin Resume => proc'[v].page \in Page
<1> DEFINE q == [proc[w] EXCEPT !.pc = pc]
<1>1. proc[w] \in Process /\ w \in DOMAIN proc
  BY DEF Types, TypeOK
<1>2. q \in Process /\ q.pc = pc /\ q.page = proc[w].page /\ q.attempt = proc[w].attempt
  BY <1>1 DEF Process
<1>3. proc' = [proc EXCEPT ![w] = q]
  BY <1>1 DEF Goto
<1> HIDE DEF q
<1> QED
  BY <1>2, <1>3, ProcSet DEF Resume, Kept

LEMMA Failed ==
  ASSUME Types, NEW w \in Worker, Fail(w), proc[w].page \in Page
  PROVE  /\ proc' \in [Worker -> Process] /\ proc'[w].pc = "final" /\ Kept(w)
         /\ \A v \in Worker : v # w => proc'[v] = proc[v]
         /\ \A v \in Worker : proc'[v].pc \notin Resume => proc'[v].page \in Page
<1> DEFINE q == [proc[w] EXCEPT !.pc = "final", !.failed = TRUE]
<1>1. proc[w] \in Process /\ w \in DOMAIN proc
  BY DEF Types, TypeOK
<1>2. /\ q \in Process /\ q.pc = "final" /\ q.page = proc[w].page
      /\ q.attempt = proc[w].attempt
  BY <1>1 DEF Process, Places
<1>3. proc' = [proc EXCEPT ![w] = q]
  BY <1>1 DEF Fail
<1> HIDE DEF q
<1> QED
  BY <1>2, <1>3, ProcSet DEF Resume, Kept

LEMMA Named ==
  ASSUME Types, NEW w \in Worker
  PROVE  /\ proc[w] \in Process /\ proc[w].attempt \in Attempts
         /\ proc[w].pc \notin Resume => proc[w].page \in Page /\ Of(w) \in Conversion
         /\ Of(w).page = proc[w].page /\ Of(w).attempt = proc[w].attempt
<1>1. proc[w] \in Process
  BY DEF Types, TypeOK
<1>2. proc[w].attempt \in Attempts
  BY <1>1 DEF Process
<1> QED
  BY <1>1, <1>2 DEF Types, Of, Conversion

LEMMA ProcChange ==
  ASSUME Types, Stepping
  PROVE  /\ proc' \in [Worker -> Process]
         /\ \A v \in Worker : proc'[v].pc \notin Resume => proc'[v].page \in Page
         /\ \A v \in Worker : Moves(v)
         /\ \A v, w \in Worker : proc'[v] # proc[v] /\ proc'[w] # proc[w] => v = w
<1> DEFINE Typed == /\ proc' \in [Worker -> Process]
                    /\ \A v \in Worker : proc'[v].pc \notin Resume => proc'[v].page \in Page
           Good == /\ Typed
                   /\ \A v \in Worker : Moves(v)
                   /\ \A v, w \in Worker : proc'[v] # proc[v] /\ proc'[w] # proc[w] => v = w
<1>0. ASSUME NEW w \in Worker, Typed, Moves(w),
             \A v \in Worker : v # w => proc'[v] = proc[v]
      PROVE  Good
  BY <1>0 DEF Moves
<1>1. ASSUME proc' = proc PROVE Good
  <2>1. Typed
    BY <1>1 DEF Types, TypeOK
  <2> QED
    BY <1>1, <2>1 DEF Moves
<1> HIDE DEF Good
<1>2. ASSUME NEW w \in Worker, Rest(w), Alive(w) \/ Start(w) PROVE Good
  BY <1>0, <1>2, Rested DEF Rest, Moves
<1>3. ASSUME NEW w \in Worker, NEW p \in Page, Claim(w, p) PROVE Good
  <2> DEFINE q == [pc |-> "claimed", page |-> p, failed |-> FALSE,
                   attempt |-> requests[p].attempt + 1]
  <2>1. requests[p].attempt \in Attempts /\ requests[p].attempt < MaxAttempts
    BY <1>3 DEF Claim, Types, TypeOK, Request
  <2>2. requests[p].attempt + 1 \in Attempts
    BY <2>1, PreviewsAssumption DEF Attempts
  <2>3. /\ q \in Process /\ q.pc = "claimed" /\ q.page = p
        /\ q.attempt = requests[p].attempt + 1
    BY <2>2 DEF Process, Places
  <2>4. proc' = [proc EXCEPT ![w] = q]
    BY <1>3 DEF Claim
  <2> HIDE DEF q
  <2>5. Typed /\ proc'[w] = q /\ \A v \in Worker : v # w => proc'[v] = proc[v]
    BY <2>3, <2>4, ProcSet
  <2>6. Moves(w)
    BY <1>3, <2>3, <2>5 DEF Moves
  <2> QED
    BY <1>0, <2>5, <2>6
<1>4. ASSUME NEW w \in Worker, NEW p \in Page, RecClaim(w, p) PROVE Good
  <2> DEFINE q == [pc |-> "stop", page |-> p, failed |-> FALSE,
                   attempt |-> requests[p].attempt]
  <2>1. requests[p].attempt \in Attempts
    BY DEF Types, TypeOK, Request
  <2>2. /\ q \in Process /\ q.pc = "stop" /\ q.page = p
        /\ q.attempt = requests[p].attempt
    BY <2>1 DEF Process, Places
  <2>3. proc' = [proc EXCEPT ![w] = q]
    BY <1>4 DEF RecClaim
  <2> HIDE DEF q
  <2>4. Typed /\ proc'[w] = q /\ \A v \in Worker : v # w => proc'[v] = proc[v]
    BY <2>2, <2>3, ProcSet
  <2>5. Moves(w)
    BY <1>4, <2>2, <2>4 DEF Moves
  <2> QED
    BY <1>0, <2>4, <2>5
<1>5. ASSUME NEW w \in Worker, NEW pc \in Places, Goto(w, pc),
             proc[w].page \in Page, Kept(w) /\ proc'[w].pc = pc => Walks(w)
      PROVE  Good
  BY <1>0, <1>5, Gone_To DEF Moves
<1>6. ASSUME NEW w \in Worker, Fail(w), proc[w].page \in Page,
             proc'[w].pc = "final" => Walks(w)
      PROVE  Good
  BY <1>0, <1>6, Failed DEF Moves
<1>7. ASSUME NEW w \in Worker, Step(w) PROVE Good
  <2>1. proc[w].pc \in Places \ {"off", "idle", "dead"}
    BY <1>7, Named DEF Step, At, Reserve, Prepare, StartContainer, RenderEnds, Check, Publish,
       Tidy, Commit, Final, FinishFailed, RecStop, RecPrune, RecFinish, EndRender,
       FinalDeferred, Places
  <2>2. Alive(w)
    BY <2>1 DEF Alive
  <2>3. CASE Rest(w)
    BY <1>2, <2>2, <2>3
  <2>4. CASE EndRender(w) \/ FinishFailed(w) \/ RecFinish(w) \/ FinalDeferred(w)
    BY <2>3, <2>4 DEF EndRender, FinishFailed, RecFinish, FinalDeferred
  <2>5. CASE Reserve(w)
    <3>1. proc[w].pc = "claimed" /\ proc[w].page \in Page
      BY <2>5, Named DEF Reserve, At, Resume
    <3> QED
      BY <1>5, <1>6, <2>5, <3>1 DEF Reserve, Walks, Places
  <2>6. CASE Prepare(w)
    <3>1. proc[w].pc = "reserved" /\ proc[w].page \in Page
      BY <2>6, Named DEF Prepare, At, Resume
    <3> QED
      BY <1>5, <1>6, <2>6, <3>1 DEF Prepare, Walks, Places
  <2>7. CASE StartContainer(w)
    <3>1. proc[w].page \in Page
      BY <2>7, Named DEF StartContainer, At, Resume
    <3> QED
      BY <1>5, <2>7, <3>1 DEF StartContainer, Walks, Places
  <2>8. CASE RenderEnds(w)
    <3>1. proc[w].page \in Page
      BY <2>8, Named DEF RenderEnds, At, Resume
    <3>2. Of(w) \notin containers'
      BY <2>8 DEF RenderEnds
    <3> QED
      BY <1>5, <1>6, <2>8, <3>1, <3>2 DEF RenderEnds, Walks, Places
  <2>9. CASE Check(w)
    <3>1. proc[w].pc = "rendered" /\ proc[w].page \in Page
      BY <2>9, Named DEF Check, At, Resume
    <3> QED
      BY <1>5, <1>6, <2>9, <3>1 DEF Check, Walks, Places
  <2>10. CASE Publish(w)
    <3>1. proc[w].pc = "checked" /\ proc[w].page \in Page
      BY <2>10, Named DEF Publish, At, Resume
    <3> QED
      BY <1>5, <1>6, <2>10, <3>1 DEF Publish, Walks, Places
  <2>11. CASE Tidy(w)
    <3>1. proc[w].pc = "renamed" /\ proc[w].page \in Page
      BY <2>11, Named DEF Tidy, At, Resume
    <3> QED
      BY <1>5, <1>6, <2>11, <3>1 DEF Tidy, Walks, Places
  <2>12. CASE Commit(w)
    <3>1. proc[w].pc = "tidied" /\ proc[w].page \in Page
      BY <2>12, Named DEF Commit, At, Resume
    <3> QED
      BY <1>5, <1>6, <2>12, <3>1 DEF Commit, Walks, Places
  <2>13. CASE Final(w)
    <3>1. proc[w].pc = "final" /\ proc[w].page \in Page
      BY <2>13, Named DEF Final, At, Resume
    <3> QED
      BY <1>5, <2>3, <2>13, <3>1 DEF Final, Walks, Places
  <2>14. CASE RecStop(w)
    <3>1. proc[w].page \in Page
      BY <2>14, Named DEF RecStop, At, Resume
    <3> QED
      BY <1>5, <2>14, <3>1 DEF RecStop, Walks, Places
  <2>15. CASE RecPrune(w)
    <3>1. proc[w].page \in Page
      BY <2>15, Named DEF RecPrune, At, Resume
    <3> QED
      BY <1>5, <2>3, <2>15, <3>1 DEF RecPrune, Walks, Places
  <2> QED
    BY <1>7, <2>4, <2>5, <2>6, <2>7, <2>8, <2>9, <2>10, <2>11, <2>12, <2>13, <2>14, <2>15
       DEF Step
<1>8. ASSUME NEW w \in Worker, Upset(w) PROVE Good
  <2>1. CASE Crash(w)
    BY <1>0, <2>1, Rested DEF Crash, Moves
  <2>2. CASE RenderDeferred(w) \/ RecDeferred(w) \/ FinalDeferred(w)
    BY <1>2, <2>2 DEF RenderDeferred, RecDeferred, FinalDeferred, At, Alive
  <2> QED
    BY <1>8, <2>1, <2>2 DEF Upset
<1>9. ASSUME NEW w \in Worker, ClaimRender(w) PROVE Good
  <2>1. Typed /\ proc'[w].pc = "job" /\ \A v \in Worker : v # w => proc'[v] = proc[v]
    BY <1>9, Gone_To DEF ClaimRender, Places
  <2> QED
    BY <1>0, <1>9, <2>1 DEF ClaimRender, At, Alive, Moves
<1>10. ASSUME NEW w \in Worker, Take(w) PROVE Good
  BY <1>1, <1>3, <1>4, <1>9, <1>10 DEF Take, RecoverRender
<1>11. ASSUME NEW w \in Worker, Start(w) PROVE Good
  BY <1>2, <1>11 DEF Start
<1>12. ASSUME NEW w \in Worker, LeaseLapses(w) PROVE Good
  BY <1>1, <1>12 DEF LeaseLapses
<1>13. ASSUME \/ \E p \in Page : AskFor(p) \/ Expire(p)
              \/ \E c \in containers : ContainerEnds(c)
              \/ AskForRender \/ MarkDeleting \/ Cleanup
       PROVE  Good
  BY <1>1, <1>13 DEF AskFor, Expire, ContainerEnds, AskForRender, MarkDeleting, Cleanup,
     CleanClaim, CleanRemove, CleanFinish
<1>14. Good
  BY <1>7, <1>8, <1>10, <1>11, <1>12, <1>13 DEF Stepping, Next
<1> QED
  BY <1>14 DEF Good

\* How the request of a page may change.
Claimed(p, w)   == /\ Claim(w, p) /\ requests'[p].status = "running"
                   /\ requests'[p].attempt = requests[p].attempt + 1
                   /\ requests'[p].owner = Me(w)
Reserved(p, w)  == /\ Reserve(w) /\ CanReserve(w) /\ proc[w].page = p
                   /\ requests'[p].status = "running" /\ requests'[p].reserved
                   /\ requests'[p].attempt = requests[p].attempt
                   /\ requests'[p].owner = requests[p].owner
Committed(p, w) == /\ Commit(w) /\ CanCommit(w) /\ proc[w].page = p
                   /\ requests'[p].status = "succeeded"
                   /\ rows' = rows \cup {Of(w)} /\ pdf' = pdf
GaveUp(p, w)    == /\ proc[w].page = p /\ requests'[p].status = "failed"
                   /\ \/ FinishFailed(w) /\ Owns(p, Me(w), proc[w].attempt)
                      \/ RecFinish(w) /\ Owns(p, Rescue(w), proc[w].attempt)
Rescued(p, w)   == /\ RecClaim(w, p) /\ requests'[p].status = "running"
                   /\ requests'[p].attempt = requests[p].attempt
                   /\ requests'[p].reserved = requests[p].reserved
                   /\ requests'[p].owner = Rescue(w)
Asked(p)        == /\ requests[p].status \in {"none", "failed"} /\ VerifiedPdf
                   /\ requests'[p].status = "queued"
Expired(p)      == /\ Running(p) /\ requests'[p].status = "running"
                   /\ requests'[p].attempt = requests[p].attempt
                   /\ requests'[p].reserved = requests[p].reserved
                   /\ requests'[p].owner = requests[p].owner
Changes(p) == \/ requests'[p] = requests[p]
              \/ \E w \in Worker : \/ Claimed(p, w) \/ Reserved(p, w) \/ Committed(p, w)
                                   \/ GaveUp(p, w) \/ Rescued(p, w)
              \/ Asked(p) \/ Expired(p)
              \/ CleanFinish /\ requests'[p] = NoRequest

\* A request has an owner, and a reservation, only while it runs.
Sound(r) == /\ r \in Request
            /\ r.status = "running" <=> r.owner # NoOwner
            /\ r.reserved => r.status = "running"
SoundRequests == requests \in [Page -> Request] /\ \A p \in Page : Sound(requests[p])

LEMMA RequestsSound ==
  ASSUME Types
  PROVE  SoundRequests
BY DEF Types, TypeOK, SoundRequests, Sound, Running

LEMMA RequestSet ==
  ASSUME SoundRequests, NEW p \in Page, NEW r, Sound(r), requests' = [requests EXCEPT ![p] = r]
  PROVE  /\ SoundRequests' /\ requests'[p] = r
         /\ \A q \in Page : q # p => requests'[q] = requests[q]
BY DEF SoundRequests, Sound

LEMMA Owner_ ==
  ASSUME NEW w \in Worker
  PROVE  /\ Me(w) \in Owner /\ Rescue(w) \in Owner
         /\ \A v \in Worker : /\ Me(w) # Rescue(v)
                              /\ Me(v) = Me(w) => v = w
                              /\ Rescue(v) = Rescue(w) => v = w
BY DEF Me, Rescue, Owner
LEMMA RequestsChange ==
  ASSUME Types, Stepping
  PROVE  SoundRequests' /\ \A p \in Page : Changes(p)
<1> DEFINE Good == SoundRequests' /\ \A p \in Page : Changes(p)
<1>1. SoundRequests
  BY RequestsSound
<1>2. \A p \in Page : /\ Sound(requests[p]) /\ requests[p] \in Request
                      /\ Running(p) <=> requests[p].status = "running"
  BY <1>1 DEF SoundRequests, Sound, Running
<1>3. ASSUME requests' = requests PROVE Good
  BY <1>1, <1>3 DEF SoundRequests, Changes
<1>4. ASSUME NEW p \in Page, NEW r, Sound(r), requests' = [requests EXCEPT ![p] = r],
             requests'[p] = r => Changes(p)
      PROVE  Good
  BY <1>1, <1>4, RequestSet DEF Changes
<1> HIDE DEF Good
<1>5. ASSUME NEW p \in Page, AskFor(p) PROVE Good
  <2> DEFINE r == [requests[p] EXCEPT !.status = "queued"]
  <2>1. requests[p].status \in {"none", "failed"} /\ VerifiedPdf
    BY <1>5 DEF AskFor, CanRequest
  <2>2. r.status = "queued" /\ Sound(r)
    BY <1>2, <2>1 DEF Sound, Request
  <2>3. requests' = [requests EXCEPT ![p] = r]
    BY <1>1, <1>5 DEF AskFor, SoundRequests
  <2> HIDE DEF r
  <2> QED
    BY <1>4, <2>1, <2>2, <2>3 DEF Changes, Asked
<1>6. ASSUME NEW p \in Page, NEW w \in Worker, Claim(w, p) PROVE Good
  <2> DEFINE r == [requests[p] EXCEPT !.status = "running", !.attempt = @ + 1,
                                      !.owner = Me(w), !.expired = FALSE]
  <2>1. requests[p].attempt + 1 \in Attempts
    <3>1. requests[p].attempt \in Attempts /\ requests[p].attempt < MaxAttempts
      BY <1>2, <1>6 DEF Claim, Request
    <3> QED
      BY <3>1, PreviewsAssumption DEF Attempts
  <2>2. Me(w) \in Owner /\ Me(w) # NoOwner
    BY Owner_, PreviewsAssumption
  <2>3. requests[p].owner \in Owner \cup {NoOwner}
    BY <1>2 DEF Request
  <2>4. /\ r.status = "running" /\ r.attempt = requests[p].attempt + 1 /\ r.owner = Me(w)
        /\ Sound(r)
    BY <1>2, <2>1, <2>2, <2>3 DEF Sound, Request
  <2>5. requests' = [requests EXCEPT ![p] = r]
    BY <1>1, <1>6 DEF Claim, SoundRequests
  <2> HIDE DEF r
  <2> QED
    BY <1>4, <1>6, <2>4, <2>5 DEF Changes, Claimed
<1>7. ASSUME NEW w \in Worker, Reserve(w), CanReserve(w),
             requests' = [requests EXCEPT ![proc[w].page].reserved = TRUE]
      PROVE  Good
  <2>1. PICK p \in Page : p = proc[w].page
    BY <1>7, Named DEF Reserve, At, Resume
  <2> DEFINE r == [requests[p] EXCEPT !.reserved = TRUE]
  <2>2. requests[p].status = "running"
    BY <1>7, <2>1 DEF CanReserve, Owns, Running
  <2>3. /\ r.status = "running" /\ r.attempt = requests[p].attempt /\ r.reserved
        /\ r.owner = requests[p].owner /\ Sound(r)
    BY <1>2, <2>2 DEF Sound, Request
  <2>4. requests' = [requests EXCEPT ![p] = r]
    BY <1>1, <1>7, <2>1 DEF SoundRequests
  <2> HIDE DEF r
  <2> QED
    BY <1>4, <1>7, <2>1, <2>3, <2>4 DEF Changes, Reserved
<1>8. ASSUME NEW w \in Worker, Commit(w), CanCommit(w) PROVE Good
  <2>1. PICK p \in Page : p = proc[w].page
    BY <1>8, Named DEF Commit, At, Resume
  <2> DEFINE r == [requests[p] EXCEPT !.status = "succeeded", !.reserved = FALSE,
                                      !.owner = NoOwner]
  <2>2. r.status = "succeeded" /\ Sound(r)
    BY <1>2 DEF Sound, Request
  <2>3. requests' = [requests EXCEPT ![p] = r]
    BY <1>1, <1>8, <2>1 DEF Commit, SoundRequests
  <2>4. rows' = rows \cup {Of(w)} /\ pdf' = pdf
    BY <1>8 DEF Commit
  <2> HIDE DEF r
  <2> QED
    BY <1>4, <1>8, <2>1, <2>2, <2>3, <2>4 DEF Changes, Committed
<1>9. ASSUME NEW w \in Worker, NEW p \in Page, p = proc[w].page, requests' = Finished(p),
             requests'[p].status = "failed" => GaveUp(p, w)
      PROVE  Good
  <2> DEFINE r == [requests[p] EXCEPT !.status = "failed", !.reserved = FALSE,
                                      !.owner = NoOwner, !.expired = FALSE]
  <2>1. r.status = "failed" /\ Sound(r)
    BY <1>2 DEF Sound, Request
  <2>2. requests' = [requests EXCEPT ![p] = r]
    BY <1>1, <1>9 DEF Finished, SoundRequests
  <2> HIDE DEF r
  <2> QED
    BY <1>4, <1>9, <2>1, <2>2 DEF Changes
<1>10. ASSUME NEW w \in Worker, FinishFailed(w) PROVE Good
  <2>1. CASE requests' = requests
    BY <1>3, <2>1
  <2>2. ASSUME Owns(proc[w].page, Me(w), proc[w].attempt), requests' = Finished(proc[w].page)
        PROVE  Good
    <3>1. PICK p \in Page : p = proc[w].page
      BY <1>10, Named DEF FinishFailed, At, Resume
    <3> QED
      BY <1>9, <1>10, <2>2, <3>1 DEF GaveUp
  <2> QED
    BY <1>10, <2>1, <2>2 DEF FinishFailed
<1>11. ASSUME NEW w \in Worker, RecFinish(w) PROVE Good
  <2>1. CASE requests' = requests
    BY <1>3, <2>1
  <2>2. ASSUME Owns(proc[w].page, Rescue(w), proc[w].attempt),
               requests' = Finished(proc[w].page)
        PROVE  Good
    <3>1. PICK p \in Page : p = proc[w].page
      BY <1>11, Named DEF RecFinish, At, Resume
    <3> QED
      BY <1>9, <1>11, <2>2, <3>1 DEF GaveUp
  <2> QED
    BY <1>11, <2>1, <2>2 DEF RecFinish
<1>12. ASSUME NEW w \in Worker, NEW p \in Page, RecClaim(w, p) PROVE Good
  <2> DEFINE r == [requests[p] EXCEPT !.owner = Rescue(w), !.expired = FALSE]
  <2>1. requests[p].status = "running"
    BY <1>12 DEF RecClaim, Running
  <2>2. Rescue(w) \in Owner /\ Rescue(w) # NoOwner
    BY Owner_, PreviewsAssumption
  <2>3. /\ r.status = "running" /\ r.attempt = requests[p].attempt
        /\ r.reserved = requests[p].reserved /\ r.owner = Rescue(w) /\ Sound(r)
    BY <1>2, <2>1, <2>2 DEF Sound, Request
  <2>4. requests' = [requests EXCEPT ![p] = r]
    BY <1>1, <1>12 DEF RecClaim, SoundRequests
  <2> HIDE DEF r
  <2> QED
    BY <1>4, <1>12, <2>3, <2>4 DEF Changes, Rescued
<1>13. ASSUME NEW p \in Page, Expire(p) PROVE Good
  <2> DEFINE r == [requests[p] EXCEPT !.expired = TRUE]
  <2>1. Running(p) /\ requests[p].status = "running"
    BY <1>13 DEF Expire, Running
  <2>2. /\ r.status = "running" /\ r.attempt = requests[p].attempt
        /\ r.reserved = requests[p].reserved /\ r.owner = requests[p].owner /\ Sound(r)
    BY <1>2, <2>1 DEF Sound, Request
  <2>3. requests' = [requests EXCEPT ![p] = r]
    BY <1>1, <1>13 DEF Expire, SoundRequests
  <2> HIDE DEF r
  <2> QED
    BY <1>4, <2>1, <2>2, <2>3 DEF Changes, Expired
<1>14. ASSUME CleanFinish PROVE Good
  <2>1. Sound(NoRequest)
    BY PreviewsAssumption DEF Sound, NoRequest, Request, Attempts
  <2>2. requests' = [p \in Page |-> NoRequest]
    BY <1>14 DEF CleanFinish
  <2>3. SoundRequests' /\ \A p \in Page : requests'[p] = NoRequest
    BY <2>1, <2>2 DEF SoundRequests, Sound
  <2> QED
    BY <1>14, <2>3 DEF Good, Changes
<1>15. ASSUME NEW w \in Worker, Step(w) PROVE Good
  <2>1. CASE Reserve(w)
    BY <1>3, <1>7, <2>1 DEF Reserve
  <2>2. CASE Commit(w)
    BY <1>3, <1>8, <2>2 DEF Commit
  <2>3. CASE \/ Prepare(w) \/ StartContainer(w) \/ RenderEnds(w) \/ Check(w) \/ Publish(w)
             \/ Tidy(w) \/ Final(w) \/ RecStop(w) \/ RecPrune(w) \/ EndRender(w)
             \/ FinalDeferred(w)
    BY <1>3, <2>3 DEF Prepare, StartContainer, RenderEnds, Check, Publish, Tidy, Final,
       RecStop, RecPrune, EndRender, FinalDeferred, Database
  <2> QED
    BY <1>10, <1>11, <1>15, <2>1, <2>2, <2>3 DEF Step
<1>16. ASSUME NEW w \in Worker, Upset(w) \/ Start(w) \/ LeaseLapses(w) PROVE Good
  BY <1>3, <1>16 DEF Upset, RenderDeferred, RecDeferred, FinalDeferred, Crash, Start,
     LeaseLapses, Database
<1>17. ASSUME NEW w \in Worker, Take(w) PROVE Good
  BY <1>3, <1>6, <1>12, <1>17 DEF Take, ClaimRender, RecoverRender, Database
<1>18. ASSUME \/ \E c \in containers : ContainerEnds(c)
              \/ AskForRender \/ MarkDeleting \/ Cleanup
       PROVE  Good
  BY <1>3, <1>14, <1>18 DEF ContainerEnds, AskForRender, MarkDeleting, Cleanup, CleanClaim,
     CleanRemove, Database
<1>19. Good
  BY <1>5, <1>13, <1>15, <1>16, <1>17, <1>18 DEF Stepping, Next
<1> QED
  BY <1>19 DEF Good

LEMMA RowsChange ==
  ASSUME Types, Stepping
  PROVE  /\ rows' \subseteq Conversion
         /\ \/ rows' = rows
            \/ \E w \in Worker : /\ Commit(w) /\ CanCommit(w) /\ proc[w].page \in Page
                                 /\ rows' = rows \cup {Of(w)}
            \/ CleanFinish /\ rows' = {}
<1> DEFINE Good == \/ rows' = rows
                   \/ \E w \in Worker : /\ Commit(w) /\ CanCommit(w) /\ proc[w].page \in Page
                                        /\ rows' = rows \cup {Of(w)}
                   \/ CleanFinish /\ rows' = {}
<1>1. ASSUME NEW w \in Worker, Step(w) PROVE Good
  <2>1. CASE Commit(w)
    <3>1. proc[w].page \in Page
      BY <2>1, Named DEF Commit, At, Resume
    <3> QED
      BY <2>1, <3>1 DEF Commit
  <2>2. CASE ~Commit(w)
    <3>1. rows' = rows
      BY <1>1, <2>2 DEF Step, Reserve, Prepare, StartContainer, RenderEnds, Check, Publish,
         Tidy, Final, FinishFailed, RecStop, RecPrune, RecFinish, EndRender, FinalDeferred,
         Database
    <3> QED
      BY <3>1
  <2> QED
    BY <2>1, <2>2
<1>2. ASSUME NEW w \in Worker, Take(w) \/ Upset(w) \/ Start(w) \/ LeaseLapses(w)
      PROVE  rows' = rows
  BY <1>2 DEF Take, Claim, RecClaim, ClaimRender, RecoverRender, Upset, RenderDeferred,
     RecDeferred, FinalDeferred, Crash, Start, LeaseLapses, Database
<1>3. ASSUME \/ \E p \in Page : AskFor(p) \/ Expire(p)
             \/ \E c \in containers : ContainerEnds(c)
             \/ AskForRender \/ MarkDeleting \/ CleanClaim \/ CleanRemove
      PROVE  rows' = rows
  BY <1>3 DEF AskFor, Expire, ContainerEnds, AskForRender, MarkDeleting, CleanClaim,
     CleanRemove, Database
<1>4. ASSUME CleanFinish PROVE Good
  BY <1>4 DEF CleanFinish
<1> HIDE DEF Good
<1>5. rows' = rows => Good
  BY DEF Good
<1>6. Good
  BY <1>1, <1>2, <1>3, <1>4, <1>5 DEF Stepping, Next, Cleanup
<1>7. rows \subseteq Conversion
  BY DEF Types, TypeOK
<1>8. \A w \in Worker : Commit(w) => Of(w) \in Conversion
  BY Named DEF Commit, At, Resume
<1>9. rows' \subseteq Conversion
  BY <1>6, <1>7, <1>8 DEF Good
<1> QED
  BY <1>6, <1>9 DEF Good

\* Who may add an image, and who takes one away.
Prunes(w) == RecPrune(w) /\ (Leftover(w) => Owns(proc[w].page, Rescue(w), proc[w].attempt))

LEMMA OutputsChange ==
  ASSUME Types, Stepping
  PROVE  /\ outputs' \subseteq Conversion
         /\ \/ outputs' = outputs
            \/ \E w \in Worker : /\ Publish(w) /\ proc'[w].pc = "renamed" /\ Kept(w)
                                 /\ outputs' = outputs \cup {Of(w)}
            \/ \E w \in Worker : /\ Final(w) \/ Prunes(w)
                                 /\ outputs' = outputs \ Unreferenced(w)
            \/ CleanRemove /\ outputs' = {}
<1> DEFINE Good == \/ outputs' = outputs
                   \/ \E w \in Worker : /\ Publish(w) /\ proc'[w].pc = "renamed" /\ Kept(w)
                                        /\ outputs' = outputs \cup {Of(w)}
                   \/ \E w \in Worker : /\ Final(w) \/ Prunes(w)
                                        /\ outputs' = outputs \ Unreferenced(w)
                   \/ CleanRemove /\ outputs' = {}
<1>1. ASSUME NEW w \in Worker, Publish(w) PROVE Good
  <2>1. proc[w].page \in Page
    BY <1>1, Named DEF Publish, At, Resume
  <2>2. CASE Of(w) \in works
    <3>1. outputs' = outputs \cup {Of(w)} /\ Goto(w, "renamed")
      BY <1>1, <2>2 DEF Publish
    <3>2. proc'[w].pc = "renamed" /\ Kept(w)
      BY <2>1, <3>1, Gone_To DEF Places
    <3> QED
      BY <1>1, <3>1, <3>2
  <2>3. CASE Of(w) \notin works
    BY <1>1, <2>3 DEF Publish
  <2> QED
    BY <2>2, <2>3
<1>2. ASSUME NEW w \in Worker, Final(w) PROVE Good
  BY <1>2 DEF Final
<1>3. ASSUME NEW w \in Worker, RecPrune(w) PROVE Good
  BY <1>3 DEF RecPrune, Prunes
<1>4. ASSUME CleanRemove PROVE Good
  BY <1>4 DEF CleanRemove
<1>5. ASSUME NEW w \in Worker, Step(w), ~Publish(w), ~Final(w), ~RecPrune(w)
      PROVE  outputs' = outputs
  BY <1>5 DEF Step, Reserve, Prepare, StartContainer, RenderEnds, Check, Tidy, Commit,
     FinishFailed, RecStop, RecFinish, EndRender, FinalDeferred, Disk
<1>6. ASSUME NEW w \in Worker, Take(w) \/ Upset(w) \/ Start(w) \/ LeaseLapses(w)
      PROVE  outputs' = outputs
  BY <1>6 DEF Take, Claim, RecClaim, ClaimRender, RecoverRender, Upset, RenderDeferred,
     RecDeferred, FinalDeferred, Crash, Start, LeaseLapses, Disk
<1>7. ASSUME \/ \E p \in Page : AskFor(p) \/ Expire(p)
             \/ \E c \in containers : ContainerEnds(c)
             \/ AskForRender \/ MarkDeleting \/ CleanClaim \/ CleanFinish
      PROVE  outputs' = outputs
  BY <1>7 DEF AskFor, Expire, ContainerEnds, AskForRender, MarkDeleting, CleanClaim,
     CleanFinish, Disk
<1>8. outputs' = outputs => Good
  OBVIOUS
<1> HIDE DEF Good
<1>9. Good
  BY <1>1, <1>2, <1>3, <1>4, <1>5, <1>6, <1>7, <1>8 DEF Stepping, Next, Cleanup
<1>10. outputs \subseteq Conversion
  BY DEF Types, TypeOK
<1>11. \A w \in Worker : Publish(w) => Of(w) \in Conversion
  BY Named DEF Publish, At, Resume
<1>12. outputs' \subseteq Conversion
  BY <1>9, <1>10, <1>11 DEF Good
<1> QED
  BY <1>9, <1>12 DEF Good

LEMMA WorksChange ==
  ASSUME Types, Stepping
  PROVE  /\ works' \subseteq Conversion
         /\ \/ works' \subseteq works
            \/ \E w \in Worker : Prepare(w) /\ works' = works \cup {Of(w)}
<1> DEFINE Good == \/ works' \subseteq works
                   \/ \E w \in Worker : Prepare(w) /\ works' = works \cup {Of(w)}
<1>1. ASSUME NEW w \in Worker, Step(w) PROVE Good
  BY <1>1 DEF Step, Reserve, Prepare, StartContainer, RenderEnds, Check, Publish, Tidy, Commit,
     Final, FinishFailed, RecStop, RecPrune, RecFinish, EndRender, FinalDeferred, Disk
<1>2. ASSUME NEW w \in Worker, Take(w) \/ Upset(w) \/ Start(w) \/ LeaseLapses(w)
      PROVE  Good
  BY <1>2 DEF Take, Claim, RecClaim, ClaimRender, RecoverRender, Upset, RenderDeferred,
     RecDeferred, FinalDeferred, Crash, Start, LeaseLapses, Disk
<1>3. ASSUME \/ \E p \in Page : AskFor(p) \/ Expire(p)
             \/ \E c \in containers : ContainerEnds(c)
             \/ AskForRender \/ MarkDeleting \/ Cleanup
      PROVE  Good
  BY <1>3 DEF AskFor, Expire, ContainerEnds, AskForRender, MarkDeleting, Cleanup, CleanClaim,
     CleanRemove, CleanFinish, Disk
<1> HIDE DEF Good
<1>4. Good
  BY <1>1, <1>2, <1>3 DEF Stepping, Next
<1>5. works \subseteq Conversion
  BY DEF Types, TypeOK
<1>6. \A w \in Worker : Prepare(w) => Of(w) \in Conversion
  BY Named DEF Prepare, At, Resume
<1>7. works' \subseteq Conversion
  BY <1>4, <1>5, <1>6 DEF Good
<1> QED
  BY <1>4, <1>7 DEF Good

LEMMA ContainersChange ==
  ASSUME Types, Stepping
  PROVE  /\ containers' \subseteq Conversion
         /\ \/ containers' \subseteq containers
            \/ \E w \in Worker : StartContainer(w) /\ containers' = containers \cup {Of(w)}
<1> DEFINE Good == \/ containers' \subseteq containers
                   \/ \E w \in Worker : StartContainer(w) /\ containers' = containers \cup {Of(w)}
<1>1. ASSUME NEW w \in Worker, Step(w) PROVE Good
  BY <1>1 DEF Step, Reserve, Prepare, StartContainer, RenderEnds, Check, Publish, Tidy, Commit,
     Final, FinishFailed, RecStop, RecPrune, RecFinish, EndRender, FinalDeferred, Disk
<1>2. ASSUME NEW w \in Worker, Take(w) \/ Upset(w) \/ Start(w) \/ LeaseLapses(w)
      PROVE  Good
  BY <1>2 DEF Take, Claim, RecClaim, ClaimRender, RecoverRender, Upset, RenderDeferred,
     RecDeferred, FinalDeferred, Crash, Start, LeaseLapses, Disk
<1>3. ASSUME \/ \E p \in Page : AskFor(p) \/ Expire(p)
             \/ \E c \in containers : ContainerEnds(c)
             \/ AskForRender \/ MarkDeleting \/ Cleanup
      PROVE  Good
  BY <1>3 DEF AskFor, Expire, ContainerEnds, AskForRender, MarkDeleting, Cleanup, CleanClaim,
     CleanRemove, CleanFinish, Disk
<1> HIDE DEF Good
<1>4. Good
  BY <1>1, <1>2, <1>3 DEF Stepping, Next
<1>5. containers \subseteq Conversion
  BY DEF Types, TypeOK
<1>6. \A w \in Worker : StartContainer(w) => Of(w) \in Conversion
  BY Named DEF StartContainer, At, Resume
<1>7. containers' \subseteq Conversion
  BY <1>4, <1>5, <1>6 DEF Good
<1> QED
  BY <1>4, <1>7 DEF Good

\* The cleanup, the PDF and the ordinary job.
LEMMA CleanerChange ==
  ASSUME Types, Stepping
  PROVE  \/ cleaner' = cleaner /\ pdf' = pdf
         \/ cleaner' = cleaner /\ pdf = "ready" /\ pdf' = "deleting"
         \/ /\ CleanClaim /\ cleaner = "idle" /\ pdf = "deleting" /\ pdf' = pdf
            /\ cleaner' = "claimed" /\ \A p \in Page : ~Running(p)
         \/ CleanRemove /\ cleaner = "claimed" /\ cleaner' = "removed" /\ pdf' = pdf
         \/ CleanFinish /\ cleaner = "removed" /\ cleaner' = "done" /\ pdf' = "deleted"
<1>1. ASSUME NEW w \in Worker,
             Step(w) \/ Take(w) \/ Upset(w) \/ Start(w) \/ LeaseLapses(w)
      PROVE  cleaner' = cleaner /\ pdf' = pdf
  BY <1>1 DEF Step, Reserve, Prepare, StartContainer, RenderEnds, Check, Publish, Tidy, Commit,
     Final, FinishFailed, RecStop, RecPrune, RecFinish, EndRender, FinalDeferred, Others,
     Take, Claim, RecClaim, ClaimRender, RecoverRender, Upset, RenderDeferred, RecDeferred,
     Crash, Start, LeaseLapses, Database
<1>2. ASSUME \/ \E p \in Page : AskFor(p) \/ Expire(p)
             \/ \E c \in containers : ContainerEnds(c)
             \/ AskForRender
      PROVE  cleaner' = cleaner /\ pdf' = pdf
  BY <1>2 DEF AskFor, Expire, ContainerEnds, AskForRender, Others, Database
<1>3. ASSUME MarkDeleting PROVE cleaner' = cleaner /\ pdf = "ready" /\ pdf' = "deleting"
  BY <1>3 DEF MarkDeleting, Others
<1> QED
  BY <1>1, <1>2, <1>3 DEF Stepping, Next, Cleanup, CleanClaim, CanClean, CleanRemove,
     CleanFinish, Database

LEMMA RenderChange ==
  ASSUME Types, Stepping
  PROVE  \/ render' = render
         \/ render.status = "none" /\ render'.status = "queued" /\ render'.container = render.container
         \/ /\ \E w \in Worker : ClaimRender(w)
            /\ render'.status = "active" /\ \A p \in Page : ~Running(p)
         \/ render'.status = "done" /\ ~render'.container
<1>1. render \in [status : {"none", "queued", "active", "done"},
                  owner : Worker \cup {NoOwner}, container : BOOLEAN]
  BY DEF Types, TypeOK
<1>2. ASSUME NEW w \in Worker, EndRender(w)
      PROVE  render' = render \/ (render'.status = "done" /\ ~render'.container)
  BY <1>1, <1>2 DEF EndRender
<1>3. ASSUME NEW w \in Worker, Step(w), ~EndRender(w) PROVE render' = render
  BY <1>3 DEF Step, Reserve, Prepare, StartContainer, RenderEnds, Check, Publish, Tidy, Commit,
     Final, FinishFailed, RecStop, RecPrune, RecFinish, FinalDeferred, Others
<1>4. ASSUME NEW w \in Worker, ClaimRender(w)
      PROVE  render'.status = "active" /\ \A p \in Page : ~Running(p)
  BY <1>4 DEF ClaimRender, CanRender
<1>5. ASSUME NEW w \in Worker, RecoverRender(w)
      PROVE  render'.status = "done" /\ ~render'.container
  BY <1>5 DEF RecoverRender
<1>6. ASSUME NEW w \in Worker,
             \/ \E p \in Page : Claim(w, p) \/ RecClaim(w, p)
             \/ Upset(w) \/ Start(w) \/ LeaseLapses(w)
      PROVE  render' = render
  BY <1>6 DEF Claim, RecClaim, Upset, RenderDeferred, RecDeferred, FinalDeferred, Crash, Start,
     LeaseLapses, Others
<1>7. ASSUME \/ \E p \in Page : AskFor(p) \/ Expire(p)
             \/ \E c \in containers : ContainerEnds(c)
             \/ MarkDeleting \/ Cleanup
      PROVE  render' = render
  BY <1>7 DEF AskFor, Expire, ContainerEnds, MarkDeleting, Cleanup, CleanClaim, CleanRemove,
     CleanFinish, Others
<1>8. ASSUME AskForRender
      PROVE  /\ render.status = "none" /\ render'.status = "queued"
             /\ render'.container = render.container
  BY <1>1, <1>8 DEF AskForRender
<1> QED
  BY <1>2, <1>3, <1>4, <1>5, <1>6, <1>7, <1>8 DEF Stepping, Next, Take

-----------------------------------------------------------------------------
(* What the steps that matter most to the invariant do.                    *)

LEMMA Claims ==
  ASSUME Types, NEW w \in Worker, NEW p \in Page, Claim(w, p)
  PROVE  /\ \A q \in Page : ~Running(q) /\ (q # p => requests'[q] = requests[q])
         /\ render.status # "active" /\ render' = render /\ containers' = containers
         /\ proc[w].pc = "idle"
<1>1. \A q \in Page : q # p => requests'[q] = requests[q]
  BY DEF Claim, Types, TypeOK
<1> QED
  BY <1>1 DEF Claim, Busy, At, Disk, Others

LEMMA Commits ==
  ASSUME Types, NEW w \in Worker, Commit(w), CanCommit(w)
  PROVE  /\ requests'[proc[w].page].status = "succeeded"
         /\ \A q \in Page : q # proc[w].page => requests'[q] = requests[q]
         /\ Owns(proc[w].page, Me(w), proc[w].attempt) /\ pdf = "ready"
         /\ proc[w].pc = "tidied" /\ proc'[w].pc = "final" /\ proc[w].page \in Page
         /\ rows' = rows \cup {Of(w)}
         /\ outputs' = outputs /\ works' = works
<1>1. proc[w].pc = "tidied" /\ proc[w].page \in Page
  BY Named DEF Commit, At, Resume
<1>2. requests' = [requests EXCEPT ![proc[w].page].status = "succeeded",
                     ![proc[w].page].reserved = FALSE, ![proc[w].page].owner = NoOwner]
  BY DEF Commit
<1>3. requests \in [Page -> Request]
  BY DEF Types, TypeOK
<1>4. requests'[proc[w].page].status = "succeeded"
  BY <1>1, <1>2, <1>3 DEF Request
<1>5. \A q \in Page : q # proc[w].page => requests'[q] = requests[q]
  BY <1>2, <1>3
<1>6. proc'[w].pc = "final"
  BY <1>1, Gone_To DEF Commit, Places
<1> QED
  BY <1>1, <1>4, <1>5, <1>6 DEF Commit, CanCommit, OwnsLifecycle, VerifiedPdf, Disk

\* A conversion that is the running one stays it until it ends.
LEMMA HoldsChange ==
  ASSUME Types, Stepping, NEW c \in Conversion, Holds(c)
  PROVE  \/ Holds(c)'
         \/ \E w \in Worker : Of(w) = c /\ (Committed(c.page, w) \/ GaveUp(c.page, w))
         \/ CleanFinish
<1>1. c.page \in Page /\ c = [page |-> c.page, attempt |-> c.attempt]
  BY DEF Conversion
<1>2. Changes(c.page)
  BY <1>1, RequestsChange
<1>3. ASSUME NEW w \in Worker, Committed(c.page, w) \/ GaveUp(c.page, w)
      PROVE  Of(w) = c
  <2>1. proc[w].page = c.page /\ requests[c.page].attempt = proc[w].attempt
    BY <1>3 DEF Committed, GaveUp, CanCommit, OwnsLifecycle, Owns
  <2>2. proc[w].attempt = c.attempt
    BY <2>1 DEF Holds
  <2> QED
    BY <1>1, <2>1, <2>2 DEF Of
<1>4. requests[c.page].status = "running"
  BY DEF Holds, Running
<1>5. \A w \in Worker : ~Claimed(c.page, w)
  BY <1>4 DEF Claimed, Claim
<1>6. ~Asked(c.page)
  BY <1>4 DEF Asked
<1>7. ASSUME requests'[c.page].status = "running",
             requests'[c.page].attempt = requests[c.page].attempt, requests'[c.page].reserved
      PROVE  Holds(c)'
  BY <1>7 DEF Holds, Running
<1>8. CASE requests'[c.page] = requests[c.page] \/ Expired(c.page)
  BY <1>4, <1>7, <1>8 DEF Holds, Expired
<1>9. CASE \E w \in Worker : Reserved(c.page, w) \/ Rescued(c.page, w)
  BY <1>7, <1>9 DEF Holds, Reserved, Rescued
<1> QED
  BY <1>2, <1>3, <1>5, <1>6, <1>8, <1>9 DEF Changes

\* A process gets a request by Claim, and loses it by what it does with it, to a
\* recovery, or with the job.
LEMMA OwnsChange ==
  ASSUME Types, Stepping, NEW w \in Worker, NEW p \in Page, NEW a
  PROVE  /\ requests'[p].status = "running" /\ requests'[p].owner = Me(w)
              /\ requests'[p].attempt = a
            => Owns(p, Me(w), a) \/ Claim(w, p)
         /\ Owns(p, Me(w), a)
            => \/ /\ requests'[p].status = "running" /\ requests'[p].owner = Me(w)
                  /\ requests'[p].attempt = a
                  /\ requests[p].reserved => requests'[p].reserved
               \/ \E v \in Worker : \/ Committed(p, v) \/ GaveUp(p, v) \/ Rescued(p, v)
               \/ CleanFinish
<1>1. Changes(p) /\ p # NoPage
  BY RequestsChange, PreviewsAssumption
<1>2. Me(w) # NoOwner /\ Me(w) \in Owner
  BY Owner_, PreviewsAssumption
<1>3. ASSUME requests'[p].status = "running", requests'[p].owner = Me(w),
             requests'[p].attempt = a
      PROVE  Owns(p, Me(w), a) \/ Claim(w, p)
  <2>1. CASE requests'[p] = requests[p] \/ Expired(p)
    BY <1>1, <1>3, <2>1 DEF Owns, Expired, Running
  <2>2. CASE \E v \in Worker : Reserved(p, v)
    BY <1>1, <1>3, <2>2 DEF Reserved, CanReserve, Owns, Running
  <2>3. CASE \E v \in Worker : Claimed(p, v)
    BY <1>3, <2>3, Owner_ DEF Claimed
  <2>4. CASE \E v \in Worker : Rescued(p, v)
    BY <1>3, <2>4, Owner_ DEF Rescued
  <2>5. CASE \/ \E v \in Worker : Committed(p, v) \/ GaveUp(p, v)
             \/ Asked(p) \/ requests'[p] = NoRequest
    BY <1>3, <2>5 DEF Committed, GaveUp, Asked, NoRequest
  <2> QED
    BY <1>1, <2>1, <2>2, <2>3, <2>4, <2>5 DEF Changes
<1>4. ASSUME Owns(p, Me(w), a)
      PROVE  \/ /\ requests'[p].status = "running" /\ requests'[p].owner = Me(w)
                /\ requests'[p].attempt = a
                /\ requests[p].reserved => requests'[p].reserved
             \/ \E v \in Worker : \/ Committed(p, v) \/ GaveUp(p, v) \/ Rescued(p, v)
             \/ CleanFinish
  <2>1. requests[p].status = "running"
    BY <1>4 DEF Owns, Running
  <2>2. ~Asked(p) /\ \A v \in Worker : ~Claimed(p, v)
    BY <2>1 DEF Asked, Claimed, Claim
  <2>3. CASE requests'[p] = requests[p] \/ Expired(p)
    BY <1>4, <2>1, <2>3 DEF Owns, Expired
  <2>4. CASE \E v \in Worker : Reserved(p, v)
    BY <1>4, <2>4 DEF Owns, Reserved
  <2> QED
    BY <1>1, <2>2, <2>3, <2>4 DEF Changes
<1> QED
  BY <1>3, <1>4

\* Only Start makes a process alive.
LEMMA AliveBefore ==
  ASSUME NEW w \in Worker, Moves(w), Alive(w)'
  PROVE  Alive(w) \/ Start(w)
BY DEF Moves, Walks, Alive, Claim, RecClaim, Reserve, Prepare, StartContainer, RenderEnds, Check,
   Publish, Tidy, Final, RecStop, RecPrune, At

-----------------------------------------------------------------------------
(* The invariant.                                                          *)

LEMMA Initially == Init => Inv
<1> SUFFICES ASSUME Init PROVE Inv
  OBVIOUS
<1>1. NoRequest \in Request /\ NoRequest.owner = NoOwner /\ NoRequest.status = "none"
      /\ ~NoRequest.reserved
  BY PreviewsAssumption DEF NoRequest, Request, Attempts
<1>2. Resting("off") \in Process /\ Resting("off").pc = "off"
  BY PreviewsAssumption DEF Resting, Process, Places, Attempts
<1>3. /\ \A p \in Page : requests[p] = NoRequest
      /\ \A w \in Worker : proc[w].pc = "off"
      /\ requests \in [Page -> Request] /\ proc \in [Worker -> Process]
  BY <1>1, <1>2 DEF Init
<1>4. \A p \in Page : ~Running(p) /\ requests[p].owner = NoOwner /\ ~requests[p].reserved
                      /\ requests[p].status = "none"
  BY <1>1, <1>3 DEF Running
<1>5. Types
  BY <1>3, <1>4, PreviewsAssumption DEF Init, Types, TypeOK, Resume
<1>6. Cleaning /\ HostShared /\ PreviewsMatchRows
  BY <1>4 DEF Init, Cleaning, HostShared, PreviewsMatchRows
<1>7. ImageKept /\ OneAtATime /\ Converting /\ Stopped /\ WorkGone /\ ImageGone
  BY <1>3 DEF ImageKept, OneAtATime, Converting, Stopped, WorkGone, ImageGone, Alive, Converts,
     NotMounted
<1>8. Mounted /\ DiskAccounted
  BY DEF Init, Mounted, DiskAccounted
<1> QED
  BY <1>5, <1>6, <1>7, <1>8 DEF Inv

LEMMA FaultsChange ==
  ASSUME Types, Stepping
  PROVE  faults' \in 0..MaxFaults
<1>1. faults \in 0..MaxFaults
  BY DEF Types, TypeOK
<1>2. faults' = faults \/ Fault
  <2>1. ASSUME NEW w \in Worker, Step(w) PROVE faults' = faults
    BY <2>1 DEF Step, Reserve, Prepare, StartContainer, RenderEnds, Check, Publish, Tidy, Commit,
       Final, FinishFailed, RecStop, RecPrune, RecFinish, EndRender
  <2>2. ASSUME NEW w \in Worker, Take(w) \/ Upset(w) \/ Start(w) \/ LeaseLapses(w)
        PROVE  faults' = faults \/ Fault
    BY <2>2 DEF Take, Claim, RecClaim, ClaimRender, RecoverRender, Upset, RenderDeferred,
       RecDeferred, FinalDeferred, Crash, Start, LeaseLapses
  <2>3. ASSUME \/ \E p \in Page : AskFor(p) \/ Expire(p)
               \/ \E c \in containers : ContainerEnds(c)
               \/ AskForRender \/ MarkDeleting \/ Cleanup
        PROVE  faults' = faults \/ Fault
    BY <2>3 DEF AskFor, Expire, ContainerEnds, AskForRender, MarkDeleting, Cleanup, CleanClaim,
       CleanRemove, CleanFinish
  <2> QED
    BY <2>1, <2>2, <2>3 DEF Stepping, Next
<1> QED
  BY <1>1, <1>2, PreviewsAssumption DEF Fault

LEMMA LeasesChange ==
  ASSUME Types, Stepping
  PROVE  leases' \subseteq Worker
<1>1. leases \subseteq Worker
  BY DEF Types, TypeOK
<1>2. \/ leases' \subseteq leases
      \/ \E w \in Worker : leases' = leases \cup {w}
  <2>1. ASSUME NEW w \in Worker, Step(w)
        PROVE  leases' \subseteq leases \/ leases' = leases \cup {w}
    BY <2>1 DEF Step, Reserve, Prepare, StartContainer, RenderEnds, Check, Publish, Tidy, Commit,
       Final, FinishFailed, RecStop, RecPrune, RecFinish, EndRender, FinalDeferred, Database
  <2>2. ASSUME NEW w \in Worker, Take(w) \/ Upset(w) \/ Start(w) \/ LeaseLapses(w)
        PROVE  leases' \subseteq leases
    BY <2>2 DEF Take, Claim, RecClaim, ClaimRender, RecoverRender, Upset, RenderDeferred,
       RecDeferred, FinalDeferred, Crash, Start, LeaseLapses, Database
  <2>3. ASSUME \/ \E p \in Page : AskFor(p) \/ Expire(p)
               \/ \E c \in containers : ContainerEnds(c)
               \/ AskForRender \/ MarkDeleting \/ Cleanup
        PROVE  leases' = leases
    BY <2>3 DEF AskFor, Expire, ContainerEnds, AskForRender, MarkDeleting, Cleanup, CleanClaim,
       CleanRemove, CleanFinish, Database
  <2> QED
    BY <2>1, <2>2, <2>3 DEF Stepping, Next
<1> QED
  BY <1>1, <1>2

LEMMA RenderTyped ==
  ASSUME Types, Stepping
  PROVE  render' \in [status : {"none", "queued", "active", "done"},
                      owner : Worker \cup {NoOwner}, container : BOOLEAN]
<1>1. render \in [status : {"none", "queued", "active", "done"},
                  owner : Worker \cup {NoOwner}, container : BOOLEAN]
  BY DEF Types, TypeOK
<1>2. ASSUME NEW w \in Worker, Step(w) PROVE render' = render \/ EndRender(w)
  BY <1>2 DEF Step, Reserve, Prepare, StartContainer, RenderEnds, Check, Publish, Tidy, Commit,
     Final, FinishFailed, RecStop, RecPrune, RecFinish, FinalDeferred, Others
<1>3. ASSUME NEW w \in Worker, Take(w) \/ Upset(w) \/ Start(w) \/ LeaseLapses(w)
      PROVE  render' = render \/ ClaimRender(w) \/ RecoverRender(w)
  BY <1>3 DEF Take, Claim, RecClaim, Upset, RenderDeferred, RecDeferred, FinalDeferred, Crash,
     Start, LeaseLapses, Others
<1>4. ASSUME \/ \E p \in Page : AskFor(p) \/ Expire(p)
             \/ \E c \in containers : ContainerEnds(c)
             \/ MarkDeleting \/ Cleanup
      PROVE  render' = render
  BY <1>4 DEF AskFor, Expire, ContainerEnds, MarkDeleting, Cleanup, CleanClaim, CleanRemove,
     CleanFinish, Others
<1>5. \/ render' = render \/ AskForRender
      \/ \E w \in Worker : ClaimRender(w) \/ RecoverRender(w) \/ EndRender(w)
  BY <1>2, <1>3, <1>4 DEF Stepping, Next
<1>6. CASE render' = render \/ AskForRender
  BY <1>1, <1>6 DEF AskForRender
<1>7. CASE \E w \in Worker : ClaimRender(w) \/ RecoverRender(w)
  <2>1. \/ \E w \in Worker : render' = [status |-> "active", owner |-> w, container |-> TRUE]
        \/ render' = [status |-> "done", owner |-> NoOwner, container |-> FALSE]
    BY <1>7 DEF ClaimRender, RecoverRender
  <2>2. \A w \in Worker \cup {NoOwner} : \A s \in {"active", "done"} : \A b \in BOOLEAN :
           [status |-> s, owner |-> w, container |-> b]
              \in [status : {"none", "queued", "active", "done"},
                   owner : Worker \cup {NoOwner}, container : BOOLEAN]
    OBVIOUS
  <2> QED
    BY <2>1, <2>2
<1>8. ASSUME NEW w \in Worker, EndRender(w)
      PROVE  render' \in [status : {"none", "queued", "active", "done"},
                          owner : Worker \cup {NoOwner}, container : BOOLEAN]
  <2>1. CASE render.owner = w
    <3>1. render' = [render EXCEPT !.status = "done", !.container = FALSE]
      BY <1>8, <2>1 DEF EndRender
    <3> QED
      BY <1>1, <3>1
  <2>2. CASE render.owner # w
    <3>1. render' = render
      BY <1>1, <1>8, <2>2 DEF EndRender
    <3> QED
      BY <1>1, <3>1
  <2> QED
    BY <2>1, <2>2
<1> QED
  BY <1>5, <1>6, <1>7, <1>8

LEMMA TypesKept ==
  ASSUME Types, Stepping
  PROVE  Types'
<1>1. /\ pdf' \in {"ready", "deleting", "deleted"}
      /\ cleaner' \in {"idle", "claimed", "removed", "done"}
  BY CleanerChange DEF Types, TypeOK
<1>2. /\ requests' \in [Page -> Request]
      /\ \A p \in Page : /\ requests'[p].status = "running" <=> requests'[p].owner # NoOwner
                         /\ requests'[p].reserved => requests'[p].status = "running"
  BY RequestsChange DEF SoundRequests, Sound
<1>3. (rows \cup outputs \cup works \cup containers)' \subseteq Conversion
  BY RowsChange, OutputsChange, WorksChange, ContainersChange
<1>4. overlap' \in BOOLEAN
  BY DEF Types, TypeOK, Stepping
<1> QED
  BY <1>1, <1>2, <1>3, <1>4, ProcChange, FaultsChange, LeasesChange, RenderTyped
     DEF Types, TypeOK, Running

LEMMA CleaningKept ==
  ASSUME Inv, Stepping
  PROVE  Cleaning'
<1>1. Types /\ Cleaning
  BY DEF Inv
<1>2. cleaner = "idle" => pdf \in {"ready", "deleting"}
  BY <1>1 DEF Types, TypeOK, Cleaning
<1> QED
  BY <1>1, <1>2, CleanerChange DEF Cleaning, Types, TypeOK

LEMMA HostSharedKept ==
  ASSUME Inv, Stepping
  PROVE  HostShared'
<1>1. Types /\ HostShared
  BY DEF Inv
<1>2. ASSUME NEW p \in Page, requests'[p].status = "running"
      PROVE  Running(p) \/ \E w \in Worker : Claim(w, p)
  <2>1. Changes(p)
    BY <1>1, RequestsChange
  <2>2. CASE requests'[p] = NoRequest \/ Asked(p)
             \/ \E w \in Worker : Committed(p, w) \/ GaveUp(p, w)
    BY <1>2, <2>2 DEF NoRequest, Asked, Committed, GaveUp
  <2>3. CASE requests'[p] = requests[p] \/ Expired(p)
    BY <1>2, <2>3 DEF Running, Expired
  <2>4. CASE \E w \in Worker : Claimed(p, w) \/ Reserved(p, w) \/ Rescued(p, w)
    BY <2>4 DEF Claimed, Reserved, CanReserve, Owns, Rescued, RecClaim
  <2> QED
    BY <2>1, <2>2, <2>3, <2>4 DEF Changes
<1>3. ASSUME NEW p \in Page, NEW q \in Page, requests'[p].status = "running",
             requests'[q].status = "running"
      PROVE  p = q
  <2>1. CASE Running(p) /\ Running(q)
    BY <1>1, <2>1 DEF HostShared
  <2>2. ASSUME NEW w \in Worker, NEW r \in Page, Claim(w, r) PROVE p = q
    <3>1. \A s \in Page : s # r => requests'[s] = requests[s] /\ ~Running(s)
      BY <1>1, <2>2, Claims
    <3> QED
      BY <1>3, <3>1 DEF Running
  <2> QED
    BY <1>2, <1>3, <2>1, <2>2
<1>4. render'.container => render'.status = "active"
  BY <1>1, RenderChange DEF HostShared
<1>5. ASSUME render'.status = "active", NEW p \in Page, requests'[p].status = "running"
      PROVE  FALSE
  <2>1. ASSUME NEW w \in Worker, Claim(w, p) PROVE FALSE
    BY <1>1, <1>5, <2>1, Claims
  <2>2. Running(p)
    BY <1>2, <1>5, <2>1
  <2> QED
    BY <1>1, <1>5, <2>2, RenderChange DEF HostShared
<1> QED
  BY <1>3, <1>4, <1>5 DEF HostShared, Running

LEMMA OneAtATimeKept ==
  ASSUME Inv, Stepping
  PROVE  OneAtATime'
<1> SUFFICES ASSUME ~overlap', NEW v \in Worker, NEW w \in Worker, Alive(v)', Alive(w)'
             PROVE  v = w
  BY DEF OneAtATime
<1>1. ~overlap
  BY DEF Stepping
<1>2. Types /\ OneAtATime
  BY DEF Inv
<1>3. /\ Moves(v) /\ Moves(w)
      /\ proc'[v] # proc[v] /\ proc'[w] # proc[w] => v = w
  BY <1>2, ProcChange
<1>4. (Alive(v) \/ Start(v)) /\ (Alive(w) \/ Start(w))
  BY <1>3, AliveBefore
<1>5. ASSUME NEW u \in Worker, Start(u) PROVE v = w
  <2>1. \A t \in Worker : ~Alive(t)
    BY <1>1, <1>5 DEF Start
  <2>2. Start(v) /\ Start(w)
    BY <1>4, <2>1
  <2>3. proc'[v] # proc[v] /\ proc'[w] # proc[w]
    <3>1. proc[v].pc = "off" /\ proc[w].pc = "off"
      BY <2>2 DEF Start, At
    <3> QED
      BY <3>1 DEF Alive
  <2> QED
    BY <1>3, <2>3
<1> QED
  BY <1>1, <1>2, <1>4, <1>5 DEF OneAtATime

LEMMA ListedKept ==
  ASSUME Inv, Stepping
  PROVE  PreviewsMatchRows'
<1> SUFFICES ASSUME pdf' # "deleted"
             PROVE  /\ cleaner' # "removed" => rows' \subseteq outputs'
                    /\ \A p \in Page :
                         /\ requests'[p].status = "succeeded" <=> \E c \in rows' : c.page = p
                         /\ \A c, d \in rows' : c.page = p /\ d.page = p => c = d
  BY DEF PreviewsMatchRows
<1>1. Types /\ Cleaning /\ PreviewsMatchRows /\ ImageKept
  BY DEF Inv
<1>2. /\ pdf # "deleted" /\ ~CleanFinish
      /\ cleaner' # "removed" => cleaner # "removed" /\ ~CleanRemove
  BY <1>1, CleanerChange DEF CleanFinish, CleanRemove, Cleaning
<1>3. /\ cleaner # "removed" => rows \subseteq outputs
      /\ \A p \in Page : /\ requests[p].status = "succeeded" <=> \E c \in rows : c.page = p
                         /\ \A c, d \in rows : c.page = p /\ d.page = p => c = d
  BY <1>1, <1>2 DEF PreviewsMatchRows
<1>4. \/ rows' = rows
      \/ \E w \in Worker : Commit(w) /\ CanCommit(w)
  BY <1>1, <1>2, RowsChange
<1>5. CASE rows' = rows
  <2>1. cleaner' # "removed" => rows' \subseteq outputs'
    BY <1>1, <1>2, <1>3, <1>5, OutputsChange DEF Unreferenced
  <2>2. ASSUME NEW p \in Page
        PROVE  requests'[p].status = "succeeded" <=> requests[p].status = "succeeded"
    <3>1. Changes(p)
      BY <1>1, RequestsChange
    <3>2. \A w \in Worker : ~Committed(p, w)
      <4> SUFFICES ASSUME NEW w \in Worker, Committed(p, w) PROVE FALSE
        OBVIOUS
      <4>1. Of(w) \in rows /\ Of(w).page = p /\ requests[p].status = "running"
        BY <1>5 DEF Committed, Of, CanCommit, OwnsLifecycle, Owns, Running
      <4> QED
        BY <1>3, <4>1
    <3>3. CASE \E w \in Worker : Claimed(p, w) \/ Reserved(p, w) \/ GaveUp(p, w) \/ Rescued(p, w)
      BY <3>3 DEF Claimed, Claim, Reserved, CanReserve, GaveUp, Rescued, RecClaim, Owns, Running
    <3>4. CASE Asked(p) \/ Expired(p)
      BY <3>4 DEF Asked, Expired, Running
    <3> QED
      BY <1>2, <3>1, <3>2, <3>3, <3>4 DEF Changes
  <2> QED
    BY <1>3, <1>5, <2>1, <2>2
<1>6. ASSUME NEW w \in Worker, Commit(w), CanCommit(w)
      PROVE  /\ cleaner' # "removed" => rows' \subseteq outputs'
             /\ \A p \in Page :
                  /\ requests'[p].status = "succeeded" <=> \E c \in rows' : c.page = p
                  /\ \A c, d \in rows' : c.page = p /\ d.page = p => c = d
  <2>1. /\ requests'[proc[w].page].status = "succeeded"
        /\ \A q \in Page : q # proc[w].page => requests'[q] = requests[q]
        /\ Owns(proc[w].page, Me(w), proc[w].attempt) /\ pdf = "ready"
        /\ proc[w].pc = "tidied" /\ proc[w].page \in Page
        /\ rows' = rows \cup {Of(w)} /\ outputs' = outputs
    BY <1>1, <1>6, Commits
  <2>2. Of(w) \in outputs
    BY <1>1, <2>1 DEF ImageKept
  <2>3. Of(w).page = proc[w].page
    BY DEF Of
  <2>4. ~\E c \in rows : c.page = proc[w].page
    BY <1>3, <2>1 DEF Owns, Running
  <2>5. \A p \in Page : requests'[p].status = "succeeded" <=> \E c \in rows' : c.page = p
    BY <1>3, <2>1, <2>3
  <2>6. \A p \in Page : \A c, d \in rows' : c.page = p /\ d.page = p => c = d
    BY <1>3, <2>1, <2>3, <2>4
  <2> QED
    BY <1>2, <1>3, <2>1, <2>2, <2>5, <2>6
<1> QED
  BY <1>4, <1>5, <1>6

LEMMA ImageKeptKept ==
  ASSUME Inv, Stepping
  PROVE  ImageKept'
<1> SUFFICES ASSUME NEW w \in Worker, proc'[w].pc \in {"renamed", "tidied"}, pdf' = "ready",
                    requests'[proc'[w].page].status = "running",
                    requests'[proc'[w].page].owner = Me(w),
                    requests'[proc'[w].page].attempt = proc'[w].attempt
             PROVE  [page |-> proc'[w].page, attempt |-> proc'[w].attempt] \in outputs'
  BY DEF ImageKept, Owns, Running, Of, Me
<1>1. Types /\ Cleaning /\ ImageKept
  BY DEF Inv
<1>2. pdf = "ready" /\ ~CleanRemove
  BY <1>1, CleanerChange DEF Cleaning, CleanRemove
<1>3. /\ Kept(w) /\ ~\E p \in Page : Claim(w, p)
      /\ \/ proc[w].pc \in {"renamed", "tidied"}
         \/ Publish(w) /\ outputs' = outputs \cup {Of(w)}
  <2>1. Moves(w)
    BY <1>1, ProcChange
  <2>2. CASE proc'[w] = proc[w]
    BY <2>2 DEF Kept, Claim, At
  <2>3. CASE Kept(w) /\ Walks(w)
    BY <2>3 DEF Walks, Publish, Tidy, Claim, At
  <2> QED
    BY <2>1, <2>2, <2>3 DEF Moves
<1>4. Of(w) = [page |-> proc'[w].page, attempt |-> proc'[w].attempt]
  BY <1>3 DEF Kept, Of
<1>5. CASE Publish(w) /\ outputs' = outputs \cup {Of(w)}
  BY <1>4, <1>5
<1>6. CASE proc[w].pc \in {"renamed", "tidied"}
  <2>1. PICK p \in Page : p = proc[w].page
    BY <1>1, <1>6 DEF Types, Resume
  <2>2. Owns(p, Me(w), proc[w].attempt)
    BY <1>1, <1>3, <2>1, OwnsChange DEF Kept
  <2>3. Of(w) \in outputs
    BY <1>1, <1>2, <1>6, <2>1, <2>2 DEF ImageKept
  <2>4. ASSUME NEW v \in Worker, Final(v) \/ Prunes(v), outputs' = outputs \ Unreferenced(v),
               Of(w) \notin outputs'
        PROVE  FALSE
    <3>1. Of(v) = Of(w) /\ Leftover(v)
      BY <2>3, <2>4 DEF Unreferenced, Leftover
    <3>2. proc[v].page = p /\ proc[v].attempt = proc[w].attempt
      BY <2>1, <3>1 DEF Of
    <3>3. v # w
      BY <1>6, <2>4 DEF Final, Prunes, RecPrune, At
    <3>4. ~Owns(p, Me(v), proc[v].attempt) /\ ~Owns(p, Rescue(v), proc[v].attempt)
      BY <2>2, <3>3, Owner_ DEF Owns
    <3>5. requests[p].status # "succeeded"
      BY <2>2 DEF Owns, Running
    <3> QED
      BY <2>4, <3>1, <3>2, <3>4, <3>5 DEF Final, MayCleanUp, Prunes
  <2> QED
    BY <1>1, <1>2, <1>4, <2>3, <2>4, OutputsChange
<1> QED
  BY <1>3, <1>5, <1>6

LEMMA ConvertingKept ==
  ASSUME Inv, Stepping
  PROVE  Converting'
<1> SUFFICES ASSUME ~overlap', NEW w \in Worker, proc'[w].pc \in Converts
             PROVE  /\ requests'[proc'[w].page].status = "running"
                    /\ requests'[proc'[w].page].owner = Me(w)
                    /\ requests'[proc'[w].page].attempt = proc'[w].attempt
                    /\ requests'[proc'[w].page].reserved /\ cleaner' = "idle"
                    /\ proc'[w].page \in Page
  BY PreviewsAssumption DEF Converting, Owns, Running, Me
<1>1. Types /\ Cleaning /\ Converting /\ OneAtATime
  BY DEF Inv
<1>2. ~overlap
  BY DEF Stepping
<1>3. /\ Kept(w)
      /\ \/ proc[w].pc \in Converts
         \/ Reserve(w) /\ CanReserve(w)
            /\ requests' = [requests EXCEPT ![proc[w].page].reserved = TRUE]
  <2>1. Moves(w)
    BY <1>1, ProcChange
  <2>2. CASE proc'[w] = proc[w]
    BY <2>2 DEF Kept
  <2>3. CASE Kept(w) /\ Walks(w)
    BY <2>3 DEF Walks, Converts, Prepare, StartContainer, RenderEnds, Check, Publish, Tidy, At
  <2> QED
    BY <2>1, <2>2, <2>3 DEF Moves, Converts
<1>4. CASE proc[w].pc \in Converts
  <2>1. PICK p \in Page : p = proc[w].page
    BY <1>1, <1>4 DEF Types, Resume, Converts
  <2>2. Owns(p, Me(w), proc[w].attempt) /\ requests[p].reserved /\ cleaner = "idle"
    BY <1>1, <1>2, <1>4, <2>1 DEF Converting
  <2>3. Alive(w)
    BY <1>4 DEF Alive, Converts
  <2>4. ASSUME NEW v \in Worker, Committed(p, v) \/ GaveUp(p, v) \/ Rescued(p, v)
        PROVE  FALSE
    <3>1. Alive(v)
      BY <2>4 DEF Committed, GaveUp, Rescued, Commit, FinishFailed, RecFinish, RecClaim, At, Alive
    <3>2. v = w
      BY <1>1, <1>2, <2>3, <3>1 DEF OneAtATime
    <3>3. ~GaveUp(p, v) /\ ~Rescued(p, v)
      BY <1>4, <3>2 DEF GaveUp, Rescued, FinishFailed, RecFinish, RecClaim, At, Converts
    <3>4. proc'[v].pc = "final"
      BY <1>1, <2>4, <3>3, Commits DEF Committed
    <3> QED
      BY <3>2, <3>4 DEF Converts
  <2>5. ~CleanFinish
    BY <2>2 DEF CleanFinish
  <2>6. /\ requests'[p].status = "running" /\ requests'[p].owner = Me(w)
        /\ requests'[p].attempt = proc[w].attempt /\ requests'[p].reserved
    <3>1. PICK a : a = proc[w].attempt
      OBVIOUS
    <3> QED
      BY <1>1, <2>2, <2>4, <2>5, <3>1, OwnsChange
  <2>7. cleaner' = "idle"
    BY <1>1, <2>2, CleanerChange DEF Owns
  <2> QED
    BY <1>3, <2>1, <2>6, <2>7 DEF Kept
<1>5. CASE Reserve(w) /\ CanReserve(w)
           /\ requests' = [requests EXCEPT ![proc[w].page].reserved = TRUE]
  <2>1. PICK p \in Page : p = proc[w].page
    BY <1>1, <1>5, Named DEF Reserve, At, Resume
  <2>2. requests \in [Page -> Request]
    BY <1>1 DEF Types, TypeOK
  <2>3. requests' = [requests EXCEPT ![p].reserved = TRUE]
    BY <1>5, <2>1
  <2>4. /\ requests'[p].status = requests[p].status /\ requests'[p].owner = requests[p].owner
        /\ requests'[p].attempt = requests[p].attempt /\ requests'[p].reserved
    BY <2>2, <2>3 DEF Request
  <2>5. Owns(p, Me(w), proc[w].attempt) /\ pdf = "ready" /\ cleaner' = cleaner
    BY <1>5, <2>1 DEF CanReserve, VerifiedPdf, Reserve, Others
  <2>6. cleaner' = "idle"
    BY <1>1, <2>5 DEF Cleaning, Types, TypeOK
  <2> QED
    BY <1>3, <2>1, <2>4, <2>5, <2>6 DEF Kept, Owns, Running
<1> QED
  BY <1>3, <1>4, <1>5
LEMMA MountedKept ==
  ASSUME Inv, Stepping
  PROVE  Mounted'
<1> SUFFICES ASSUME ~overlap', NEW c \in containers'
             PROVE  Holds(c)' /\ cleaner' = "idle"
  BY DEF Mounted
<1>1. Types /\ Cleaning /\ Converting /\ Mounted /\ Stopped
  BY DEF Inv
<1>2. ~overlap
  BY DEF Stepping
<1>3. CASE c \in containers
  <2>1. Holds(c) /\ cleaner = "idle" /\ c \in Conversion /\ c.page \in Page
    BY <1>1, <1>2, <1>3 DEF Mounted, Types, TypeOK, Conversion
  <2>2. ASSUME NEW w \in Worker, Of(w) = c, Committed(c.page, w) \/ GaveUp(c.page, w)
        PROVE  FALSE
    <3>1. proc[w].pc \in NotMounted
      BY <2>2 DEF Committed, Commit, GaveUp, FinishFailed, RecFinish, At, NotMounted
    <3> QED
      BY <1>1, <1>2, <1>3, <2>2, <3>1 DEF Stopped
  <2>3. Holds(c)'
    BY <1>1, <2>1, <2>2, HoldsChange DEF CleanFinish
  <2>4. cleaner' = "idle"
    BY <1>1, <2>1, CleanerChange DEF Holds
  <2> QED
    BY <2>3, <2>4
<1>4. ASSUME NEW w \in Worker, StartContainer(w), c = Of(w) PROVE Holds(c)' /\ cleaner' = "idle"
  <2>1. /\ Owns(proc[w].page, Me(w), proc[w].attempt)
        /\ requests[proc[w].page].reserved /\ cleaner = "idle"
    BY <1>1, <1>2, <1>4 DEF Converting, StartContainer, At, Converts
  <2>2. requests' = requests /\ cleaner' = cleaner
    BY <1>4 DEF StartContainer, Database, Others
  <2>3. c.page = proc[w].page /\ c.attempt = proc[w].attempt
    BY <1>4 DEF Of
  <2> QED
    BY <2>1, <2>2, <2>3 DEF Holds, Owns, Running
<1> QED
  BY <1>1, <1>3, <1>4, ContainersChange

\* A living process is the only one that moves.
LEMMA OnlyMe ==
  ASSUME Inv, Stepping, ~overlap, NEW v \in Worker, NEW w \in Worker, Alive(v), Alive(w)
  PROVE  v = w
BY DEF Inv, OneAtATime

LEMMA StoppedKept ==
  ASSUME Inv, Stepping
  PROVE  Stopped'
<1> SUFFICES ASSUME ~overlap', NEW w \in Worker, proc'[w].pc \in NotMounted
             PROVE  [page |-> proc'[w].page, attempt |-> proc'[w].attempt] \notin containers'
  BY DEF Stopped, Of
<1>1. Types /\ Mounted /\ Stopped
  BY DEF Inv
<1>2. ~overlap
  BY DEF Stepping
<1>3. Moves(w)
  BY <1>1, ProcChange
<1>4. ASSUME NEW p \in Page, Claim(w, p)
      PROVE  [page |-> proc'[w].page, attempt |-> proc'[w].attempt] \notin containers'
  <2>1. \A c \in containers : Running(c.page) /\ c.page \in Page
    BY <1>1, <1>2 DEF Mounted, Holds, Types, TypeOK, Conversion
  <2>2. containers' = {}
    BY <1>1, <1>4, <2>1, Claims
  <2> QED
    BY <2>2
<1>5. ASSUME Kept(w), Of(w) \notin containers'
      PROVE  [page |-> proc'[w].page, attempt |-> proc'[w].attempt] \notin containers'
  BY <1>5 DEF Kept, Of
<1>6. ASSUME Kept(w), proc[w].pc \in NotMounted
      PROVE  Of(w) \notin containers'
  <2>1. Of(w) \notin containers
    BY <1>1, <1>2, <1>6 DEF Stopped
  <2>2. ASSUME NEW v \in Worker, StartContainer(v) PROVE FALSE
    <3>1. Alive(v) /\ Alive(w)
      BY <1>6, <2>2 DEF StartContainer, At, Alive, NotMounted
    <3>2. v = w
      BY <1>2, <3>1, OnlyMe
    <3>3. proc[w].page \in Page
      BY <1>1, <1>6, Named DEF NotMounted, Resume
    <3>4. proc'[w].pc = "rendering"
      BY <1>1, <2>2, <3>2, <3>3, Gone_To DEF StartContainer, Places
    <3> QED
      BY <3>4 DEF NotMounted
  <2> QED
    BY <1>1, <2>1, <2>2, ContainersChange
<1>7. CASE proc'[w] = proc[w]
  BY <1>5, <1>6, <1>7 DEF Kept
<1>8. CASE Kept(w) /\ Walks(w)
  <2>1. \/ proc[w].pc \in NotMounted
        \/ Of(w) \notin containers'
    BY <1>8 DEF Walks, NotMounted, Reserve, Prepare, StartContainer, Check, Publish, Tidy, Final,
       RecStop, RecPrune, At
  <2> QED
    BY <1>5, <1>6, <1>8, <2>1
<1> QED
  BY <1>3, <1>4, <1>7, <1>8 DEF Moves, NotMounted

LEMMA WorkGoneKept ==
  ASSUME Inv, Stepping
  PROVE  WorkGone'
<1> SUFFICES ASSUME ~overlap', NEW w \in Worker, proc'[w].pc \in {"tidied", "finish", "give_up"}
             PROVE  [page |-> proc'[w].page, attempt |-> proc'[w].attempt] \notin works'
  BY DEF WorkGone, Of
<1>1. Types /\ WorkGone
  BY DEF Inv
<1>2. ~overlap
  BY DEF Stepping
<1>3. /\ Kept(w)
      /\ \/ proc[w].pc \in {"tidied", "finish", "give_up"}
         \/ Of(w) \notin works'
  <2>1. Moves(w)
    BY <1>1, ProcChange
  <2>2. CASE proc'[w] = proc[w]
    BY <2>2 DEF Kept
  <2>3. CASE Kept(w) /\ Walks(w)
    BY <2>3 DEF Walks, Final
  <2> QED
    BY <2>1, <2>2, <2>3 DEF Moves
<1>4. CASE proc[w].pc \in {"tidied", "finish", "give_up"}
  <2>1. Of(w) \notin works
    BY <1>1, <1>2, <1>4 DEF WorkGone
  <2>2. ASSUME NEW v \in Worker, Prepare(v) PROVE FALSE
    <3>1. Alive(v) /\ Alive(w) /\ v # w
      BY <1>4, <2>2 DEF Prepare, At, Alive
    <3> QED
      BY <1>2, <3>1, OnlyMe
  <2>3. Of(w) \notin works'
    BY <1>1, <2>1, <2>2, WorksChange
  <2> QED
    BY <1>3, <2>3 DEF Kept, Of
<1>5. CASE Of(w) \notin works'
  BY <1>3, <1>5 DEF Kept, Of
<1> QED
  BY <1>3, <1>4, <1>5

LEMMA ImageGoneKept ==
  ASSUME Inv, Stepping
  PROVE  ImageGone'
<1> SUFFICES ASSUME ~overlap', cleaner' = "idle", NEW w \in Worker,
                    proc'[w].pc \in {"finish", "give_up"}
             PROVE  [page |-> proc'[w].page, attempt |-> proc'[w].attempt] \notin outputs' \ rows'
  BY DEF ImageGone, Of
<1>1. Types /\ ImageGone
  BY DEF Inv
<1>2. ~overlap /\ cleaner = "idle"
  BY <1>1, CleanerChange DEF Stepping
<1>3. rows \subseteq rows'
  BY <1>1, <1>2, RowsChange DEF CleanFinish
<1>4. /\ Kept(w)
      /\ \/ proc[w].pc \in {"finish", "give_up"}
         \/ outputs' = outputs \ Unreferenced(w)
  <2>1. Moves(w)
    BY <1>1, ProcChange
  <2>2. CASE proc'[w] = proc[w]
    BY <2>2 DEF Kept
  <2>3. CASE Kept(w) /\ Walks(w)
    BY <2>3 DEF Walks, Final
  <2> QED
    BY <2>1, <2>2, <2>3 DEF Moves
<1>5. CASE proc[w].pc \in {"finish", "give_up"}
  <2>1. Of(w) \notin outputs \ rows
    BY <1>1, <1>2, <1>5 DEF ImageGone
  <2>2. ASSUME NEW v \in Worker, Publish(v) PROVE FALSE
    <3>1. Alive(v) /\ Alive(w) /\ v # w
      BY <1>5, <2>2 DEF Publish, At, Alive
    <3> QED
      BY <1>2, <3>1, OnlyMe
  <2>3. outputs' \subseteq outputs
    BY <1>1, <2>2, OutputsChange
  <2>4. Of(w) \notin outputs' \ rows'
    BY <1>3, <2>1, <2>3
  <2> QED
    BY <1>4, <2>4 DEF Kept, Of
<1>6. CASE outputs' = outputs \ Unreferenced(w)
  <2>1. Of(w) \notin outputs' \ rows'
    BY <1>3, <1>6 DEF Unreferenced
  <2> QED
    BY <1>4, <2>1 DEF Kept, Of
<1> QED
  BY <1>4, <1>5, <1>6

LEMMA AccountedKept ==
  ASSUME Inv, Stepping
  PROVE  DiskAccounted'
<1> SUFFICES ASSUME ~overlap', cleaner' = "idle", NEW c \in works' \cup (outputs' \ rows')
             PROVE  Holds(c)'
  BY DEF DiskAccounted, Holds, Running
<1>1. Types /\ Converting /\ WorkGone /\ ImageGone /\ DiskAccounted
  BY DEF Inv
<1>2. ~overlap /\ cleaner = "idle"
  BY <1>1, CleanerChange DEF Stepping
<1>3. rows \subseteq rows'
  BY <1>1, <1>2, RowsChange DEF CleanFinish
<1>4. CASE c \in works \cup (outputs \ rows)
  <2>1. Holds(c) /\ c \in Conversion
    BY <1>1, <1>2, <1>4 DEF DiskAccounted, Holds, Types, TypeOK
  <2>2. ASSUME NEW w \in Worker, Of(w) = c, Committed(c.page, w) PROVE FALSE
    <3>1. /\ proc[w].pc = "tidied" /\ works' = works /\ outputs' = outputs
          /\ rows' = rows \cup {Of(w)}
      BY <1>1, <2>2, Commits DEF Committed
    <3> QED
      BY <1>1, <1>2, <2>2, <3>1 DEF WorkGone
  <2>3. ASSUME NEW w \in Worker, Of(w) = c, GaveUp(c.page, w) PROVE FALSE
    <3>1. proc[w].pc \in {"finish", "give_up"}
      BY <2>3 DEF GaveUp, FinishFailed, RecFinish, At
    <3> QED
      BY <1>1, <1>2, <1>4, <2>3, <3>1 DEF WorkGone, ImageGone
  <2> QED
    BY <1>1, <1>2, <2>1, <2>2, <2>3, HoldsChange DEF CleanFinish
<1>5. ASSUME NEW w \in Worker, c = Of(w), Prepare(w) \/ Publish(w) PROVE Holds(c)'
  <2>1. Owns(proc[w].page, Me(w), proc[w].attempt) /\ requests[proc[w].page].reserved
    BY <1>1, <1>2, <1>5 DEF Converting, Prepare, Publish, At, Converts
  <2>2. requests' = requests
    BY <1>5 DEF Prepare, Publish, Database
  <2>3. c.page = proc[w].page /\ c.attempt = proc[w].attempt
    BY <1>5 DEF Of
  <2> QED
    BY <2>1, <2>2, <2>3 DEF Holds, Owns, Running
<1> QED
  BY <1>1, <1>3, <1>4, <1>5, WorksChange, OutputsChange

-----------------------------------------------------------------------------
(* The theorems.                                                           *)

LEMMA Inductive ==
  ASSUME Inv, [Next /\ UNCHANGED overlap]_<<vars, overlap>>
  PROVE  Inv'
<1>1. CASE Stepping
  <2>1. Types
    BY DEF Inv
  <2> QED
    BY <1>1, <2>1, TypesKept, CleaningKept, HostSharedKept, ListedKept, ImageKeptKept,
       OneAtATimeKept, ConvertingKept, MountedKept, StoppedKept, WorkGoneKept, ImageGoneKept,
       AccountedKept DEF Inv
<1>2. CASE UNCHANGED <<vars, overlap>>
  BY <1>2 DEF vars, Inv, Types, TypeOK, Cleaning, HostShared, PreviewsMatchRows, ImageKept,
     OneAtATime, Converting, Mounted, Stopped, WorkGone, ImageGone, DiskAccounted, Holds,
     Running, Owns, Of, Alive
<1> QED
  BY <1>1, <1>2 DEF Stepping

LEMMA Invariance == Spec => []Inv
BY Initially, Inductive, PTL DEF Spec

LEMMA OneAtMost ==
  ASSUME Inv
  PROVE  OneContainer
<1> SUFFICES ASSUME ~overlap
             PROVE  Cardinality(containers) + (IF render.container THEN 1 ELSE 0) <= 1
  BY DEF OneContainer
<1>1. Types /\ Mounted /\ HostShared
  BY DEF Inv
<1>2. \A c \in containers : Holds(c) /\ c \in Conversion /\ c.page \in Page
  BY <1>1 DEF Mounted, Types, TypeOK, Conversion
<1>3. CASE containers = {}
  <2>1. Cardinality(containers) = 0
    BY <1>3, FS_EmptySet
  <2> QED
    BY <2>1
<1>4. ASSUME NEW c \in containers PROVE Cardinality(containers) + (IF render.container THEN 1 ELSE 0) <= 1
  <2>1. ASSUME NEW d \in containers PROVE d = c
    <3>1. d.page = c.page
      BY <1>1, <1>2 DEF HostShared, Holds
    <3>2. d.attempt = c.attempt
      BY <1>2, <3>1 DEF Holds
    <3>3. \A e \in containers : e = [page |-> e.page, attempt |-> e.attempt]
      BY <1>2 DEF Conversion
    <3> QED
      BY <3>1, <3>2, <3>3
  <2>2. containers = {c}
    BY <2>1
  <2>3. Cardinality(containers) = 1
    BY <2>2, FS_Singleton
  <2>4. ~render.container
    BY <1>1, <1>2 DEF HostShared, Holds
  <2> QED
    BY <2>3, <2>4
<1> QED
  BY <1>3, <1>4

\* Every variable keeps its type; a request has an owner, and a reservation, only while
\* it runs (claim, reserve, finish and the recovery set and clear the columns together).
THEOREM TypeCorrect == Spec => []TypeOK
<1>1. Inv => TypeOK
  BY DEF Inv, Types
<1> QED
  BY <1>1, Invariance, PTL

\* However many processes work at once and wherever they die, the previews listed are on
\* disk, one for a page, for exactly the requests that succeeded: the commit checks the
\* owner, the attempt, both leases and the PDF in its transaction, and the cleanups spare
\* what a row names.
THEOREM ListedPreviewsExist == Spec => []PreviewsMatchRows
<1>1. Inv => PreviewsMatchRows
  BY DEF Inv
<1> QED
  BY <1>1, Invariance, PTL

\* With one process at a time, and any number of pages and deaths, there is at most one
\* container on the host: a request stays running, and blocks claims of both kinds, until
\* its container has been stopped.
THEOREM HostNeverShared == Spec => []OneContainer
<1>1. Inv => OneContainer
  BY OneAtMost
<1> QED
  BY <1>1, Invariance, PTL

\* With one process at a time, all that conversions have on disk is reserved by the
\* request that runs, or listed: a request is given up only after its leavings are gone.
THEOREM DiskAlwaysAccounted == Spec => []DiskAccounted
<1>1. Inv => DiskAccounted
  BY DEF Inv
<1> QED
  BY <1>1, Invariance, PTL

\* With one process at a time, the cleanup claims no job whose PDF a container has mounted:
\* the container's request is still running, whoever has lost the download lease.
THEOREM MountedPdfKept == Spec => []PdfNotPulledAway
<1>1. Inv => PdfNotPulledAway
  BY DEF Inv, Mounted, PdfNotPulledAway
<1> QED
  BY <1>1, Invariance, PTL
=============================================================================
