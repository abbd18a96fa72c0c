---------------------------- MODULE JobLifecycle ----------------------------
(***************************************************************************)
(* What the job table of internal/jobs promises its callers, without its   *)
(* lock, goroutines, clock or pruning rule.                                *)
(*                                                                         *)
(* A job is an operation on a key (type, backend, model).  It is created   *)
(* only while no job of its key is active, runs, ends once, keeps its end, *)
(* and may then be forgotten.  It ends cancelled only if somebody asked.   *)
(***************************************************************************)
CONSTANTS
    JobId,  \* the ids jobs.Manager hands out
    Key     \* (Type, Backend, Model) of a StartRequest

VARIABLES
    phase,  \* phase[id]: where the job is in its life
    key,    \* key[id]: what the job is an operation on, once created
    asked   \* the ids whose cancellation was asked for

vars == <<phase, key, asked>>

Terminal == {"succeeded", "failed", "cancelled"}
Phases == {"absent", "pending", "running", "gone"} \cup Terminal

Active(id) == phase[id] \in {"pending", "running"}

Init ==
    /\ phase = [id \in JobId |-> "absent"]
    /\ key \in [JobId -> Key]
    /\ asked = {}

(* Finished jobs may be forgotten, several at a time. *)
Forgotten(S) == [id \in JobId |-> IF id \in S THEN "gone" ELSE phase[id]]

Forget(S) ==
    /\ \A id \in S : phase[id] \in Terminal
    /\ phase' = Forgotten(S)
    /\ UNCHANGED <<key, asked>>

(* A job starts only when its key has no active job. *)
Start(k, id, S) ==
    /\ phase[id] = "absent"
    /\ \A other \in JobId : Active(other) => key[other] # k
    /\ \A gone \in S : phase[gone] \in Terminal
    /\ phase' = [Forgotten(S) EXCEPT ![id] = "pending"]
    /\ key' = [key EXCEPT ![id] = k]
    /\ UNCHANGED asked

Begin(id) ==
    /\ phase[id] = "pending"
    /\ phase' = [phase EXCEPT ![id] = "running"]
    /\ UNCHANGED <<key, asked>>

Ask(id) ==
    /\ phase[id] # "absent"
    /\ asked' = asked \cup {id}
    /\ UNCHANGED <<phase, key>>

End(id, p) ==
    /\ phase[id] = "running"
    /\ p \in Terminal
    /\ p = "cancelled" => id \in asked
    /\ phase' = [phase EXCEPT ![id] = p]
    /\ UNCHANGED <<key, asked>>

Next ==
    \/ \E S \in SUBSET JobId : Forget(S)
    \/ \E k \in Key, id \in JobId, S \in SUBSET JobId : Start(k, id, S)
    \/ \E id \in JobId : Begin(id) \/ Ask(id)
    \/ \E id \in JobId, p \in Terminal : End(id, p)

Safety == Init /\ [][Next]_vars

(* A created job starts, and one whose cancellation was asked for ends. *)
Fairness ==
    \A id \in JobId :
        /\ WF_vars(Begin(id))
        /\ WF_vars(id \in asked /\ \E p \in Terminal : End(id, p))

Spec == Safety /\ Fairness
=============================================================================
