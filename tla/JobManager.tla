----------------------------- MODULE JobManager -----------------------------
(***************************************************************************)
(* internal/jobs: the in-memory job table, the goroutine that runs each    *)
(* job, and the callers of Start, List, Cancel and Await.                  *)
(*                                                                         *)
(* Every critical section of Manager.mu is one action.  What happens       *)
(* outside it is a step of its own: Cancel reads the entry, then calls the *)
(* context's cancel function, then reads the snapshot it returns; Await    *)
(* finds the entry, waits for its channel, then reads the snapshot; run    *)
(* writes the terminal phase first and closes the channel afterwards.      *)
(***************************************************************************)
EXTENDS Integers, FiniteSets

CONSTANTS
    JobId,      \* ids newID returns; random, so never handed out twice
    Key,        \* (Type, Backend, Model) of a request: the dedupe key
    Caller,     \* request goroutines calling Cancel and Await
    MaxJobs,    \* WithMaxJobs: finished jobs kept
    Retention,  \* WithRetention, in clock ticks
    MaxTime,    \* bound on the clock
    Sample,     \* what a Progress may carry: <<bytes done, total>>, 0 for no total
    NoJob       \* no id

ASSUME MaxJobsAssumption == MaxJobs \in Nat
ASSUME RetentionAssumption == Retention \in Nat
ASSUME MaxTimeAssumption == MaxTime \in Nat
ASSUME SampleAssumption == Sample \subseteq Nat \X Nat
ASSUME NoJobAssumption == NoJob \notin JobId

VARIABLES
    now,        \* the manager's clock
    table,      \* the ids in Manager.jobs
    job,        \* job[id]: the Job of the entry with that id
    worker,     \* worker[id]: where the goroutine of run is
    result,     \* result[id]: what the RunFunc returned, until run used it
    cancelled,  \* the ids whose context was cancelled
    caller      \* caller[c]: where a Cancel or Await call is

vars == <<now, table, job, worker, result, cancelled, caller>>

Terminal == {"succeeded", "failed", "cancelled"}
Phase == {"pending", "running"} \cup Terminal

Job == [key: Key, phase: Phase, completed: Nat, total: Nat,
        percent: 0..100, finishedAt: Nat]

WorkerState == {"none", "spawned", "running", "returned", "updated", "exited"}
Result == {"none", "ok", "error", "canceled"}

Reply == {"none", "notfound", "ctxerr", "active", "done"}
CallerState ==
    [pc: {"idle", "cancelling", "cancelled", "awaiting", "woken"},
     id: JobId \cup {NoJob}, seenDone: BOOLEAN, op: {"cancel", "await"}, reply: Reply]

(* Job.Done *)
Done(id) == job[id].phase \in Terminal

(* The entry of a job that is still pending or running. *)
Active(id) == id \in table /\ ~Done(id)

-----------------------------------------------------------------------------
(* pruneLocked *)

(* Mutant: forgets that only finished jobs expire. *)
MutExpired == {id \in table : job[id].finishedAt < now - Retention}

Expired == {id \in table : Done(id) /\ job[id].finishedAt < now - Retention}

Retained == {id \in table : Done(id)} \ Expired

(* The tables pruneLocked may leave: sort.Slice orders the finished jobs by
   FinishedAt and is free in how it orders equal ones. *)
PruneLocked ==
    LET excess == Cardinality(Retained) - MaxJobs
        Oldest(D) == \A d \in D, k \in Retained \ D :
                        job[d].finishedAt <= job[k].finishedAt
        dropped == {D \in SUBSET Retained :
                        /\ Cardinality(D) = (IF excess > 0 THEN excess ELSE 0)
                        /\ Oldest(D)}
    IN {table \ (Expired \cup D) : D \in dropped}

-----------------------------------------------------------------------------
(* Start, List *)

NewJob(k) == [key |-> k, phase |-> "pending", completed |-> 0, total |-> 0,
              percent |-> 0, finishedAt |-> 0]

(* A request for a key with an active job joins it: its own RunFunc is dropped. *)
StartJoined(k) ==
    \E kept \in PruneLocked :
        /\ \E id \in kept : Active(id) /\ job[id].key = k
        /\ table' = kept
        /\ UNCHANGED <<now, job, worker, result, cancelled, caller>>

(* Mutant: looks for running jobs only. *)
MutStartNew(k, id) ==
    \E kept \in PruneLocked :
        /\ worker[id] = "none"
        /\ ~ \E other \in kept : job[other].phase = "running" /\ job[other].key = k
        /\ table' = kept \cup {id}
        /\ job' = [job EXCEPT ![id] = NewJob(k)]
        /\ worker' = [worker EXCEPT ![id] = "spawned"]
        /\ UNCHANGED <<now, result, cancelled, caller>>

StartNew(k, id) ==
    \E kept \in PruneLocked :
        /\ worker[id] = "none"
        /\ ~ \E other \in kept : Active(other) /\ job[other].key = k
        /\ table' = kept \cup {id}
        /\ job' = [job EXCEPT ![id] = NewJob(k)]
        /\ worker' = [worker EXCEPT ![id] = "spawned"]
        /\ UNCHANGED <<now, result, cancelled, caller>>

List ==
    /\ table' \in PruneLocked
    /\ UNCHANGED <<now, job, worker, result, cancelled, caller>>

-----------------------------------------------------------------------------
(* run *)

(* update: a job that is no longer in the table is not written. *)
Update(id, j) == IF id \in table THEN [job EXCEPT ![id] = j] ELSE job

Running(j) == [j EXCEPT !.phase = "running"]

RunBegin(id) ==
    /\ worker[id] = "spawned"
    /\ job' = Update(id, Running(job[id]))
    /\ worker' = [worker EXCEPT ![id] = "running"]
    /\ UNCHANGED <<now, table, result, cancelled, caller>>

(* The report closure of run; a percentage is capped at 100. *)
Percent(completed, total) ==
    IF completed >= total THEN 100 ELSE (completed * 100) \div total

Reported(j, completed, total) ==
    LET t == IF total > 0 THEN total ELSE j.total
        c == IF completed > j.completed THEN completed ELSE j.completed
    IN [j EXCEPT !.total = t, !.completed = c,
                 !.percent = IF t > 0 THEN Percent(c, t) ELSE j.percent]

Report(id, completed, total) ==
    /\ worker[id] = "running"
    /\ job' = Update(id, Reported(job[id], completed, total))
    /\ UNCHANGED <<now, table, worker, result, cancelled, caller>>

(* The RunFunc returns.  It may end any way at any time: also with an error
   that wraps context.Canceled while its own context still stands. *)
Return(id, r) ==
    /\ worker[id] = "running"
    /\ worker' = [worker EXCEPT ![id] = "returned"]
    /\ result' = [result EXCEPT ![id] = r]
    /\ UNCHANGED <<now, table, job, cancelled, caller>>

(* Mutant: takes any context.Canceled for a cancelled job. *)
MutEndPhase(r, ctxDone) ==
    CASE r = "canceled" -> "cancelled"
      [] r = "ok" -> "succeeded"
      [] OTHER -> "failed"

(* How run closes the job: the switch over err and ctx.Err(). *)
EndPhase(r, ctxDone) ==
    CASE r = "canceled" /\ ctxDone -> "cancelled"
      [] r = "ok" -> "succeeded"
      [] OTHER -> "failed"

Ended(j, phase) ==
    LET ok == phase = "succeeded"
    IN [j EXCEPT !.phase = phase, !.finishedAt = now,
                 !.completed = IF ok /\ j.total > 0 THEN j.total ELSE @,
                 !.percent = IF ok THEN 100 ELSE @]

RunEnd(id) ==
    /\ worker[id] = "returned"
    /\ job' = Update(id, Ended(job[id], EndPhase(result[id], id \in cancelled)))
    /\ worker' = [worker EXCEPT ![id] = "updated"]
    /\ result' = [result EXCEPT ![id] = "none"]
    /\ UNCHANGED <<now, table, cancelled, caller>>

(* Mutant: the channel is closed on the success path only. *)
MutRunExit(id) ==
    /\ worker[id] = "updated"
    /\ job[id].phase = "succeeded"
    /\ worker' = [worker EXCEPT ![id] = "exited"]
    /\ UNCHANGED <<now, table, job, result, cancelled, caller>>

(* The deferred close(done) and wg.Done. *)
RunExit(id) ==
    /\ worker[id] = "updated"
    /\ worker' = [worker EXCEPT ![id] = "exited"]
    /\ UNCHANGED <<now, table, job, result, cancelled, caller>>

-----------------------------------------------------------------------------
(* Cancel and Await: one critical section, a step outside it, then Get *)

Snapshot(id) ==
    IF id \notin table THEN "notfound" ELSE IF Done(id) THEN "done" ELSE "active"

Answered(op, reply) ==
    [pc |-> "idle", id |-> NoJob, seenDone |-> FALSE, op |-> op, reply |-> reply]

Answer(c, reply) == caller' = [caller EXCEPT ![c] = Answered(caller[c].op, reply)]

(* Get: the snapshot a Cancel or Await call returns. *)
Get(c, from) ==
    /\ caller[c].pc = from
    /\ Answer(c, Snapshot(caller[c].id))
    /\ UNCHANGED <<now, table, job, worker, result, cancelled>>

Call(c, op, id, pc) ==
    /\ caller[c].pc = "idle"
    /\ caller' = [caller EXCEPT ![c] =
                    IF id \in table
                    THEN [pc |-> pc, id |-> id, seenDone |-> Done(id),
                          op |-> op, reply |-> "none"]
                    ELSE Answered(op, "notfound")]
    /\ UNCHANGED <<now, table, job, worker, result, cancelled>>

Cancel(c, id) == Call(c, "cancel", id, "cancelling")

(* cancel() runs outside the lock, on what the critical section saw. *)
CancelContext(c) ==
    /\ caller[c].pc = "cancelling"
    /\ cancelled' = IF caller[c].seenDone THEN cancelled
                    ELSE cancelled \cup {caller[c].id}
    /\ caller' = [caller EXCEPT ![c].pc = "cancelled"]
    /\ UNCHANGED <<now, table, job, worker, result>>

CancelReturn(c) == Get(c, "cancelled")

Await(c, id) == Call(c, "await", id, "awaiting")

AwaitDone(c) ==
    /\ caller[c].pc = "awaiting"
    /\ worker[caller[c].id] = "exited"
    /\ caller' = [caller EXCEPT ![c].pc = "woken"]
    /\ UNCHANGED <<now, table, job, worker, result, cancelled>>

(* The caller's own context ends first. *)
AwaitGivenUp(c) ==
    /\ caller[c].pc = "awaiting"
    /\ Answer(c, "ctxerr")
    /\ UNCHANGED <<now, table, job, worker, result, cancelled>>

AwaitReturn(c) == Get(c, "woken")

-----------------------------------------------------------------------------
Tick ==
    /\ now < MaxTime
    /\ now' = now + 1
    /\ UNCHANGED <<table, job, worker, result, cancelled, caller>>

(* NewManager; the fields of an entry that does not exist yet are arbitrary. *)
Init ==
    /\ now = 0
    /\ table = {}
    /\ \E k \in Key : job = [id \in JobId |-> NewJob(k)]
    /\ worker = [id \in JobId |-> "none"]
    /\ result = [id \in JobId |-> "none"]
    /\ cancelled = {}
    /\ caller = [c \in Caller |-> Answered("await", "none")]

Worker(id) ==
    \/ RunBegin(id) \/ RunEnd(id) \/ RunExit(id)
    \/ \E s \in Sample : Report(id, s[1], s[2])
    \/ \E r \in Result \ {"none"} : Return(id, r)

Request(c) ==
    \/ \E id \in JobId : Cancel(c, id) \/ Await(c, id)
    \/ CancelContext(c) \/ CancelReturn(c)
    \/ AwaitDone(c) \/ AwaitGivenUp(c) \/ AwaitReturn(c)

Next ==
    \/ \E k \in Key : StartJoined(k) \/ \E id \in JobId : StartNew(k, id)
    \/ List
    \/ \E id \in JobId : Worker(id)
    \/ \E c \in Caller : Request(c)
    \/ Tick

Spec == Init /\ [][Next]_vars

(* Goroutines that can run do run; a RunFunc whose context was cancelled
   returns (every RunFunc selects on ctx.Done()), one that was not cancelled
   may work for ever; a call past its wait completes.  Nobody has to call. *)
Fairness ==
    /\ \A id \in JobId :
        /\ WF_vars(RunBegin(id))
        /\ WF_vars(RunEnd(id))
        /\ WF_vars(RunExit(id))
        /\ WF_vars(id \in cancelled /\ \E r \in Result \ {"none"} : Return(id, r))
    /\ \A c \in Caller :
        /\ WF_vars(CancelContext(c))
        /\ WF_vars(CancelReturn(c))
        /\ WF_vars(AwaitDone(c))
        /\ WF_vars(AwaitReturn(c))

FairSpec == Spec /\ Fairness

-----------------------------------------------------------------------------
(* Properties *)

TypeOK ==
    /\ now \in Nat
    /\ table \subseteq JobId
    /\ job \in [JobId -> Job]
    /\ worker \in [JobId -> WorkerState]
    /\ result \in [JobId -> Result]
    /\ cancelled \subseteq JobId
    /\ caller \in [Caller -> CallerState]

(* Start's promise: however starts, ends and prunes interleave, a key never
   has two pending or running jobs, so one model is never pulled or watched
   twice on one backend. *)
OneActivePerKey ==
    \A a, b \in JobId : Active(a) /\ Active(b) /\ a # b => job[a].key # job[b].key

(* pruneLocked never drops a job whose goroutine still has something to
   write, so update never loses a phase: until run has written the end of the
   job, the job is in the table and not done. *)
NoJobLost ==
    \A id \in JobId : worker[id] \in {"spawned", "running", "returned"} => Active(id)

(* A caller Await released (the done channel, not its own context) reads a
   job that reached its end, or one the table dropped since: never a job
   still running.  endLoadJob removes a ModelConfig on the strength of it. *)
AwaitSeesEnd ==
    \A c \in Caller : caller[c].op = "await" => caller[c].reply # "active"

(* A job that is done stays as it ended: neither a late report nor a Cancel
   that raced the end rewrites it. *)
EndIsFinal ==
    [][\A id \in JobId : Done(id) /\ id \in table => job'[id] = job[id]]_vars

(* endLoadJob's wait: once a job's context is cancelled, everyone who awaits
   the job comes back, whatever the other callers and the pruning do. *)
CancelledJobsRelease ==
    \A c \in Caller, id \in JobId :
        (caller[c].pc = "awaiting" /\ caller[c].id = id /\ id \in cancelled)
            ~> caller[c].pc = "idle"

(* The table implements the lifecycle it promises. *)
Lifecycle ==
    INSTANCE JobLifecycle WITH
        phase <- [id \in JobId |->
                    IF worker[id] = "none" THEN "absent"
                    ELSE IF id \in table THEN job[id].phase ELSE "gone"],
        key <- [id \in JobId |-> job[id].key],
        asked <- cancelled

LifecycleSpec == Lifecycle!Spec
=============================================================================
