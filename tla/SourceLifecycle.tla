-------------------------- MODULE SourceLifecycle --------------------------
(***************************************************************************)
(* What a source promises to those who reserve it and refer to it, however *)
(* its archive arrives (in one request or in chunks): it becomes ready     *)
(* once, with its archive in place; only then is it used; it neither goes  *)
(* nor loses its archive while it is used; and once it has begun to go it  *)
(* never comes back ("neither references nor expiry revive a non-ready     *)
(* row", source-lifecycle.ts:39).                                          *)
(***************************************************************************)
CONSTANT Source

VARIABLES phase,   \* "none", "open", "ready", "leaving" or "gone"
          filed,   \* its archive is in place
          used     \* a project or a queued job needs it

vars == <<phase, filed, used>>

Init == /\ phase = [s \in Source |-> "none"]
        /\ filed = [s \in Source |-> FALSE]
        /\ used = [s \in Source |-> FALSE]

Enter(s, to) == phase' = [phase EXCEPT ![s] = to] /\ UNCHANGED filed
File(s, is)  == filed' = [filed EXCEPT ![s] = is] /\ UNCHANGED <<phase, used>>
Need(s, is)  == used' = [used EXCEPT ![s] = is]

Reserve(s) == phase[s] = "none" /\ Enter(s, "open") /\ UNCHANGED used

\* Late requests and the cleanup touch the archive of what is not ready, or no longer.
Put(s)    == phase[s] \in {"open", "leaving"} /\ File(s, TRUE)
Remove(s) == phase[s] \in {"open", "leaving"} /\ File(s, FALSE)

\* A job reserved with the source is queued in the same step.
Complete(s) == /\ phase[s] = "open" /\ filed[s] /\ Enter(s, "ready")
               /\ Need(s, TRUE) \/ UNCHANGED used

Use(s)    == phase[s] = "ready" /\ Need(s, TRUE) /\ UNCHANGED <<phase, filed>>
EndUse(s) == used[s] /\ Need(s, FALSE) /\ UNCHANGED <<phase, filed>>

Leave(s) == /\ phase[s] \in {"open", "ready"} /\ ~used[s]
            /\ Enter(s, "leaving") /\ UNCHANGED used
Erase(s) == /\ phase[s] \in {"open", "leaving"} /\ ~filed[s]
            /\ Enter(s, "gone") /\ UNCHANGED used

Next == \E s \in Source : \/ Reserve(s) \/ Put(s) \/ Remove(s) \/ Complete(s)
                          \/ Use(s) \/ EndUse(s) \/ Leave(s) \/ Erase(s)

Spec == Init /\ [][Next]_vars
=============================================================================
