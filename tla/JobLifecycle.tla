---------------------------- MODULE JobLifecycle ----------------------------
(***************************************************************************)
(* What the renderer promises about a job once it is queued, whatever      *)
(* workers, containers and recovery do: it is worked on and possibly       *)
(* queued again until it ends; it ends once; everything it publishes       *)
(* appears in the very step that ends it; and once its cancellation has    *)
(* been asked for it never ends with a render result.                      *)
(***************************************************************************)
CONSTANT Job

VARIABLES stage,      \* "queued", "active" or the final status
          asked,      \* cancellation was asked for
          published   \* the artifacts of the job are visible

vars == <<stage, asked, published>>

Results  == {"succeeded", "timeout"}          \* classified render results
Failures == {"failed", "rejected"}            \* may come without artifacts
Final    == Results \cup Failures \cup {"canceled"}

Init == /\ stage = [j \in Job |-> "queued"]
        /\ asked = [j \in Job |-> FALSE]
        /\ published = [j \in Job |-> FALSE]

Begin(j) == /\ stage[j] = "queued"
            /\ stage' = [stage EXCEPT ![j] = "active"]
            /\ UNCHANGED <<asked, published>>

Again(j) == /\ stage[j] = "active"
            /\ stage' = [stage EXCEPT ![j] = "queued"]
            /\ UNCHANGED <<asked, published>>

\* A render result is always published; a failure may be.
End(j) == /\ stage[j] = "active"
          /\ \E s \in Results \cup Failures :
               /\ s = "succeeded" \/ s = "timeout" => ~asked[j]
               /\ stage' = [stage EXCEPT ![j] = s]
               /\ \/ published' = [published EXCEPT ![j] = TRUE]
                  \/ s \in Failures /\ UNCHANGED published
          /\ UNCHANGED asked

\* Work in a container is stopped first, so the request and the end differ.
Ask(j) == /\ stage[j] \in {"queued", "active"}
          /\ asked' = [asked EXCEPT ![j] = TRUE]
          /\ stage' \in {stage, [stage EXCEPT ![j] = "canceled"]}
          /\ stage[j] = "queued" => stage'[j] = "canceled"
          /\ UNCHANGED published

Withdraw(j) == /\ stage[j] = "active" /\ asked[j]
               /\ stage' = [stage EXCEPT ![j] = "canceled"]
               /\ UNCHANGED <<asked, published>>

Next == \E j \in Job : Begin(j) \/ Again(j) \/ End(j) \/ Ask(j) \/ Withdraw(j)

Spec == Init /\ [][Next]_vars
=============================================================================
