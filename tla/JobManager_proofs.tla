-------------------------- MODULE JobManager_proofs --------------------------
(***************************************************************************)
(* Proofs about the job table, for any number of jobs, keys, callers and   *)
(* any cap, retention and clock: its type, the uniqueness of active jobs,  *)
(* that no end of a job is lost or rewritten, and that the table           *)
(* implements JobLifecycle (its safety part).                              *)
(***************************************************************************)
EXTENDS JobManager, TLAPS

(* What a percentage computed from byte counts can be. *)
LEMMA PercentRange ==
    ASSUME NEW c \in Nat, NEW t \in Nat, t > 0
    PROVE  Percent(c, t) \in 0..100
<1>1. CASE c >= t
  BY <1>1 DEF Percent
<1>2. CASE c < t
  <2> DEFINE q == (c * 100) \div t
  <2>1. q \in Int /\ t * q <= c * 100 /\ c * 100 < t * q + t
    BY SMTT(30)
  <2>2. c * 100 < t * 100
    BY <1>2
  <2>3. q >= 0
    BY <2>1, SMTT(30)
  <2>4. q < 100
    <3>1. ASSUME q >= 100 PROVE FALSE
      <4> HIDE DEF q
      <4>1. t * q >= t * 100
        BY <3>1, <2>1, SMTT(30)
      <4>2. QED
        BY <4>1, <2>1, <2>2, SMTT(30)
    <3>2. QED
      BY <3>1, <2>1
  <2>5. QED
    BY <1>2, <2>1, <2>3, <2>4 DEF Percent
<1>3. QED
  BY <1>1, <1>2

(* A percentage is type correct whatever is reported. *)
LEMMA ReportedType ==
    ASSUME NEW j \in Job, NEW c \in Nat, NEW t \in Nat
    PROVE  /\ Reported(j, c, t) \in Job
           /\ Reported(j, c, t).phase = j.phase
           /\ Reported(j, c, t).key = j.key
<1> DEFINE tt == IF t > 0 THEN t ELSE j.total
           cc == IF c > j.completed THEN c ELSE j.completed
           pp == IF tt > 0 THEN Percent(cc, tt) ELSE j.percent
<1>1. tt \in Nat /\ cc \in Nat
  BY DEF Job
<1>2. pp \in 0..100
  BY <1>1, PercentRange DEF Job
<1>3. Reported(j, c, t) = [j EXCEPT !.total = tt, !.completed = cc, !.percent = pp]
  BY Zenon DEF Reported
<1> HIDE DEF tt, cc, pp
<1>4. QED
  BY <1>1, <1>2, <1>3 DEF Job

(* pruneLocked keeps every active job and takes nothing but finished ones. *)
LEMMA PruneKeeps ==
    ASSUME NEW kept \in PruneLocked
    PROVE  /\ kept \subseteq table
           /\ \A id \in table \ kept : Done(id)
BY DEF PruneLocked, Expired, Retained

(* The end of a job: type correct, terminal, of the same key. *)
LEMMA EndedType ==
    ASSUME NEW j \in Job, NEW p \in Terminal, now \in Nat
    PROVE  /\ Ended(j, p) \in Job
           /\ Ended(j, p).phase = p
           /\ Ended(j, p).key = j.key
<1> DEFINE ok == p = "succeeded"
           cc == IF ok /\ j.total > 0 THEN j.total ELSE j.completed
           pp == IF ok THEN 100 ELSE j.percent
<1>1. cc \in Nat /\ pp \in 0..100
  BY DEF Job
<1>2. Ended(j, p) = [j EXCEPT !.phase = p, !.finishedAt = now,
                              !.completed = cc, !.percent = pp]
  BY Zenon DEF Ended
<1>3. p \in Phase
  BY DEF Phase
<1> HIDE DEF ok, cc, pp
<1>4. QED
  BY <1>1, <1>2, <1>3 DEF Job

LEMMA EndPhaseType ==
    ASSUME NEW r, NEW b \in BOOLEAN
    PROVE  /\ EndPhase(r, b) \in Terminal
           /\ EndPhase(r, b) = "cancelled" => b
BY DEF EndPhase, Terminal

-----------------------------------------------------------------------------
(* The inductive invariant: where the goroutine of a job is decides whether
   the job is in the table and in which phase it is. *)
InStep ==
    \A id \in JobId :
        /\ worker[id] = "none" => id \notin table /\ id \notin cancelled
        /\ worker[id] = "spawned" => id \in table /\ job[id].phase = "pending"
        /\ worker[id] \in {"running", "returned"} =>
                id \in table /\ job[id].phase = "running"
        /\ worker[id] \in {"updated", "exited"} => Done(id)

(* A call in progress is about a job that was started, and one that Await
   released is about a job that ended. *)
CallsInStep ==
    \A c \in Caller :
        /\ caller[c].pc # "idle" =>
                caller[c].id \in JobId /\ worker[caller[c].id] # "none"
        /\ caller[c].pc \in {"cancelling", "cancelled"} => caller[c].op = "cancel"
        /\ caller[c].pc = "woken" => worker[caller[c].id] = "exited"

IndInv == TypeOK /\ InStep /\ CallsInStep /\ OneActivePerKey /\ AwaitSeesEnd

LEMMA InitInv == Init => IndInv
<1> SUFFICES ASSUME Init PROVE IndInv
  OBVIOUS
<1>1. TypeOK
  BY DEF Init, TypeOK, NewJob, Job, Phase, Terminal, WorkerState, Result,
         CallerState, Answered, Reply
<1>2. InStep /\ OneActivePerKey
  BY DEF Init, InStep, OneActivePerKey, Active
<1>3. CallsInStep /\ AwaitSeesEnd
  BY DEF Init, CallsInStep, AwaitSeesEnd, Answered
<1>4. QED
  BY <1>1, <1>2, <1>3 DEF IndInv

(* Writing one entry of the table through update. *)
LEMMA UpdateType ==
    ASSUME TypeOK, NEW id \in JobId, NEW j \in Job
    PROVE  /\ Update(id, j) \in [JobId -> Job]
           /\ id \in table => Update(id, j)[id] = j
           /\ \A other \in JobId \ {id} : Update(id, j)[other] = job[other]
BY DEF Update, TypeOK

(* One step of a job's goroutine keeps the invariant. *)
LEMMA WorkerInv ==
    ASSUME IndInv, NEW id \in JobId, Worker(id)
    PROVE  IndInv'
<1> USE DEF IndInv
<1>1. ASSUME RunBegin(id) PROVE IndInv'
  <2>1. Running(job[id]) \in Job /\ Running(job[id]).phase = "running"
        /\ Running(job[id]).key = job[id].key
    BY DEF Running, TypeOK, Job, Phase
  <2>2. id \in table
    BY <1>1 DEF RunBegin, InStep
  <2>3. job' \in [JobId -> Job] /\ job'[id] = Running(job[id])
        /\ \A o \in JobId \ {id} : job'[o] = job[o]
    BY <1>1, <2>1, <2>2, UpdateType DEF RunBegin
  <2>4. TypeOK'
    BY <1>1, <2>3 DEF RunBegin, TypeOK, WorkerState
  <2>5. InStep'
    BY <1>1, <2>1, <2>3 DEF RunBegin, InStep, TypeOK, Done, WorkerState
  <2>6. CallsInStep' /\ AwaitSeesEnd'
    BY <1>1 DEF RunBegin, CallsInStep, AwaitSeesEnd, TypeOK, WorkerState
  <2>7. OneActivePerKey'
    BY <1>1, <2>1, <2>3 DEF RunBegin, OneActivePerKey, Active, Done, InStep, Terminal
  <2>8. QED
    BY <2>4, <2>5, <2>6, <2>7
<1>2. ASSUME NEW s \in Sample, Report(id, s[1], s[2]) PROVE IndInv'
  <2> DEFINE j == Reported(job[id], s[1], s[2])
  <2>1. j \in Job /\ j.phase = job[id].phase /\ j.key = job[id].key
    BY ReportedType, SampleAssumption, ZenonT(40) DEF TypeOK
  <2> HIDE DEF j
  <2>2. id \in table /\ job[id].phase = "running" /\ worker[id] = "running"
    BY <1>2 DEF Report, InStep
  <2>3. job' \in [JobId -> Job] /\ job'[id] = j
        /\ \A o \in JobId \ {id} : job'[o] = job[o]
    BY <1>2, <2>1, <2>2, UpdateType DEF Report, j
  <2>4. TypeOK'
    BY <1>2, <2>3 DEF Report, TypeOK
  <2>5. InStep'
    BY <1>2, <2>1, <2>2, <2>3 DEF Report, InStep, Done
  <2>6. CallsInStep' /\ AwaitSeesEnd'
    BY <1>2 DEF Report, CallsInStep, AwaitSeesEnd
  <2>7. OneActivePerKey'
    BY <1>2, <2>1, <2>3 DEF Report, OneActivePerKey, Active, Done
  <2>8. QED
    BY <2>4, <2>5, <2>6, <2>7
<1>3. ASSUME NEW r \in Result \ {"none"}, Return(id, r) PROVE IndInv'
  <2>1. TypeOK'
    BY <1>3 DEF Return, TypeOK, WorkerState
  <2>2. InStep' /\ CallsInStep' /\ AwaitSeesEnd'
    BY <1>3 DEF Return, InStep, CallsInStep, AwaitSeesEnd, TypeOK, Done, WorkerState
  <2>3. OneActivePerKey'
    BY <1>3 DEF Return, OneActivePerKey, Active, Done
  <2>4. QED
    BY <2>1, <2>2, <2>3
<1>4. ASSUME RunEnd(id) PROVE IndInv'
  <2> DEFINE p == EndPhase(result[id], id \in cancelled)
             j == Ended(job[id], p)
  <2>1. p \in Terminal
    BY Zenon DEF EndPhase, Terminal
  <2>2. j \in Job /\ j.phase = p /\ j.key = job[id].key
    <3> HIDE DEF p
    <3>1. QED
      BY <2>1, EndedType DEF TypeOK, j
  <2> HIDE DEF p, j
  <2>3. id \in table /\ worker[id] = "returned"
    BY <1>4 DEF RunEnd, InStep
  <2>4. job' \in [JobId -> Job] /\ job'[id] = j
        /\ \A o \in JobId \ {id} : job'[o] = job[o]
    BY <1>4, <2>2, <2>3, UpdateType DEF RunEnd, j, p
  <2>5. TypeOK'
    BY <1>4, <2>4 DEF RunEnd, TypeOK, WorkerState, Result
  <2>6. InStep'
    BY <1>4, <2>1, <2>2, <2>3, <2>4 DEF RunEnd, InStep, TypeOK, Done
  <2>7. CallsInStep' /\ AwaitSeesEnd'
    BY <1>4, <2>3 DEF RunEnd, CallsInStep, AwaitSeesEnd, TypeOK
  <2>8. OneActivePerKey'
    BY <1>4, <2>1, <2>2, <2>4 DEF RunEnd, OneActivePerKey, Active, Done
  <2>9. QED
    BY <2>5, <2>6, <2>7, <2>8
<1>5. ASSUME RunExit(id) PROVE IndInv'
  <2>1. TypeOK'
    BY <1>5 DEF RunExit, TypeOK, WorkerState
  <2>2. InStep' /\ CallsInStep' /\ AwaitSeesEnd'
    BY <1>5 DEF RunExit, InStep, CallsInStep, AwaitSeesEnd, TypeOK, Done
  <2>3. OneActivePerKey'
    BY <1>5 DEF RunExit, OneActivePerKey, Active, Done
  <2>4. QED
    BY <2>1, <2>2, <2>3
<1>6. QED
  BY <1>1, <1>2, <1>3, <1>4, <1>5 DEF Worker

(* One step of a Cancel or Await call keeps the invariant. *)
LEMMA RequestInv ==
    ASSUME IndInv, NEW c \in Caller, Request(c)
    PROVE  IndInv'
<1> USE DEF IndInv
<1> DEFINE Rest == UNCHANGED <<now, table, job, worker, result>>
<1>1. ASSUME Rest, cancelled' \subseteq JobId, caller' \in [Caller -> CallerState],
             \A id \in cancelled' : worker[id] # "none",
             CallsInStep', AwaitSeesEnd'
      PROVE IndInv'
  BY <1>1 DEF TypeOK, InStep, OneActivePerKey, Active, Done
<1>2. \A op \in {"cancel", "await"}, r \in Reply : Answered(op, r) \in CallerState
  BY DEF Answered, CallerState
<1>3. caller[c] \in CallerState /\ caller[c].op \in {"cancel", "await"}
  BY DEF TypeOK, CallerState
<1>4. \A id \in cancelled : worker[id] # "none"
  BY DEF InStep, TypeOK
<1>5. ASSUME NEW id \in JobId, Cancel(c, id) \/ Await(c, id) PROVE IndInv'
  <2>1. PICK op \in {"cancel", "await"}, pc \in {"cancelling", "awaiting"} :
            Call(c, op, id, pc) /\ (op = "cancel" <=> pc = "cancelling")
    BY <1>5 DEF Cancel, Await
  <2>2. CASE id \in table
    <3> DEFINE call == [pc |-> pc, id |-> id, seenDone |-> Done(id),
                        op |-> op, reply |-> "none"]
    <3>1. caller' = [caller EXCEPT ![c] = call]
      BY <2>1, <2>2 DEF Call
    <3>2. call \in CallerState
      BY DEF CallerState, Reply, Done
    <3>3. worker[id] # "none"
      BY <2>2 DEF InStep
    <3> HIDE DEF call
    <3>4. caller' \in [Caller -> CallerState]
      BY <3>1, <3>2 DEF TypeOK
    <3>5. CallsInStep' /\ AwaitSeesEnd'
      BY <2>1, <3>1, <3>3 DEF Call, CallsInStep, AwaitSeesEnd, TypeOK, call
    <3>6. QED
      BY <1>1, <1>4, <2>1, <3>4, <3>5 DEF Call, TypeOK
  <2>3. CASE id \notin table
    <3>1. caller' = [caller EXCEPT ![c] = Answered(op, "notfound")]
      BY <2>1, <2>3 DEF Call
    <3>2. caller' \in [Caller -> CallerState]
      BY <1>2, <3>1 DEF TypeOK, Reply
    <3>3. CallsInStep' /\ AwaitSeesEnd'
      BY <2>1, <3>1 DEF Call, CallsInStep, AwaitSeesEnd, TypeOK, Answered
    <3>4. QED
      BY <1>1, <1>4, <2>1, <3>2, <3>3 DEF Call, TypeOK
  <2>4. QED
    BY <2>2, <2>3
<1>6. ASSUME CancelContext(c) PROVE IndInv'
  <2>1. caller' \in [Caller -> CallerState]
    BY <1>6 DEF CancelContext, TypeOK, CallerState
  <2>2. CallsInStep' /\ AwaitSeesEnd'
    BY <1>6 DEF CancelContext, CallsInStep, AwaitSeesEnd, TypeOK
  <2>3. caller[c].id \in JobId /\ worker[caller[c].id] # "none"
    BY <1>6 DEF CancelContext, CallsInStep
  <2>4. QED
    BY <1>1, <1>4, <1>6, <2>1, <2>2, <2>3 DEF CancelContext, TypeOK
<1>7. ASSUME AwaitDone(c) PROVE IndInv'
  <2>1. caller' \in [Caller -> CallerState]
    BY <1>7 DEF AwaitDone, TypeOK, CallerState
  <2>2. CallsInStep' /\ AwaitSeesEnd'
    BY <1>7 DEF AwaitDone, CallsInStep, AwaitSeesEnd, TypeOK
  <2>3. QED
    BY <1>1, <1>4, <1>7, <2>1, <2>2 DEF AwaitDone, TypeOK
<1>8. ASSUME NEW r \in Reply, Answer(c, r), r = "active" => caller[c].op = "cancel",
             UNCHANGED <<now, table, job, worker, result, cancelled>>
      PROVE IndInv'
  <2>1. caller' = [caller EXCEPT ![c] = Answered(caller[c].op, r)]
    BY <1>8 DEF Answer
  <2>2. caller' \in [Caller -> CallerState]
    BY <1>2, <1>3, <2>1 DEF TypeOK
  <2>3. CallsInStep' /\ AwaitSeesEnd'
    BY <1>8, <2>1 DEF CallsInStep, AwaitSeesEnd, TypeOK, Answered
  <2>4. QED
    BY <1>1, <1>4, <1>8, <2>2, <2>3 DEF TypeOK
<1>9. ASSUME CancelReturn(c) PROVE IndInv'
  BY <1>8, <1>9 DEF CancelReturn, Get, Snapshot, Reply, CallsInStep
<1>10. ASSUME AwaitGivenUp(c) PROVE IndInv'
  BY <1>8, <1>10 DEF AwaitGivenUp, Reply
<1>11. ASSUME AwaitReturn(c) PROVE IndInv'
  <2>1. worker[caller[c].id] = "exited" /\ caller[c].id \in JobId
    BY <1>11 DEF AwaitReturn, Get, CallsInStep
  <2>2. Done(caller[c].id)
    BY <2>1 DEF InStep
  <2>3. QED
    BY <1>8, <1>11, <2>2 DEF AwaitReturn, Get, Snapshot, Reply
<1>12. QED
  BY <1>5, <1>6, <1>7, <1>9, <1>10, <1>11 DEF Request

LEMMA NextInv == IndInv /\ [Next]_vars => IndInv'
<1> SUFFICES ASSUME IndInv, [Next]_vars PROVE IndInv'
  OBVIOUS
<1> USE DEF IndInv
<1>1. ASSUME NEW kept \in PruneLocked, table' = kept,
             UNCHANGED <<now, job, worker, result, cancelled, caller>>
      PROVE  IndInv'
  <2>1. kept \subseteq table /\ \A id \in table \ kept : Done(id)
    BY <1>1, PruneKeeps
  <2>2. TypeOK' /\ CallsInStep' /\ AwaitSeesEnd'
    BY <1>1, <2>1 DEF TypeOK, CallsInStep, AwaitSeesEnd
  <2>3. InStep' /\ OneActivePerKey'
    BY <1>1, <2>1 DEF InStep, OneActivePerKey, Active, Done, Terminal, TypeOK
  <2>4. QED
    BY <2>2, <2>3
<1>2. ASSUME NEW k \in Key, StartJoined(k) PROVE IndInv'
  BY <1>1, <1>2 DEF StartJoined
<1>3. ASSUME NEW k \in Key, NEW id \in JobId, StartNew(k, id) PROVE IndInv'
  <2>1. PICK kept \in PruneLocked :
            /\ worker[id] = "none"
            /\ ~ \E other \in kept : Active(other) /\ job[other].key = k
            /\ table' = kept \cup {id}
            /\ job' = [job EXCEPT ![id] = NewJob(k)]
            /\ worker' = [worker EXCEPT ![id] = "spawned"]
            /\ UNCHANGED <<now, result, cancelled, caller>>
    BY <1>3 DEF StartNew
  <2>2. kept \subseteq table /\ \A i \in table \ kept : Done(i)
    BY PruneKeeps
  <2>3. NewJob(k) \in Job /\ NewJob(k).phase = "pending" /\ NewJob(k).key = k
    BY DEF NewJob, Job, Phase
  <2>4. TypeOK'
    BY <2>1, <2>2, <2>3 DEF TypeOK, WorkerState
  <2>5. InStep'
    BY <2>1, <2>2, <2>3 DEF InStep, Done, Terminal, TypeOK
  <2>6. CallsInStep' /\ AwaitSeesEnd'
    BY <2>1 DEF CallsInStep, AwaitSeesEnd, TypeOK
  <2>7. OneActivePerKey'
    BY <2>1, <2>2, <2>3 DEF OneActivePerKey, Active, Done, TypeOK
  <2>8. QED
    BY <2>4, <2>5, <2>6, <2>7
<1>4. ASSUME List PROVE IndInv'
  BY <1>1, <1>4 DEF List
<1>5. ASSUME NEW id \in JobId, Worker(id) PROVE IndInv'
  BY <1>5, WorkerInv
<1>6. ASSUME NEW c \in Caller, Request(c) PROVE IndInv'
  BY <1>6, RequestInv
<1>7. ASSUME Tick PROVE IndInv'
  BY <1>7 DEF Tick, TypeOK, InStep, CallsInStep, OneActivePerKey, AwaitSeesEnd, Active, Done
<1>8. CASE UNCHANGED vars
  BY <1>8 DEF vars, TypeOK, InStep, CallsInStep, OneActivePerKey, AwaitSeesEnd, Active, Done
<1>9. QED
  BY <1>2, <1>3, <1>4, <1>5, <1>6, <1>7, <1>8 DEF Next

LEMMA Invariance == Spec => []IndInv
BY InitInv, NextInv, PTL DEF Spec

-----------------------------------------------------------------------------
(* The variables of the table have the types the Job struct gives them, a
   percentage between 0 and 100 among them, whatever progress is reported. *)
THEOREM TypeCorrect == Spec => []TypeOK
BY Invariance, PTL DEF IndInv

(* Start never lets a second job of a key run beside an active one. *)
THEOREM UniqueActiveJob == Spec => []OneActivePerKey
BY Invariance, PTL DEF IndInv

(* pruneLocked never takes a job from under its goroutine, so update always
   finds the entry it writes. *)
THEOREM NoJobIsLost == Spec => []NoJobLost
<1>1. IndInv => NoJobLost
  BY DEF IndInv, InStep, NoJobLost, Active, Done, Terminal
<1>2. QED
  BY <1>1, Invariance, PTL

(* Await's channel is closed only after the end of the job is written. *)
THEOREM AwaitReadsTheEnd == Spec => []AwaitSeesEnd
BY Invariance, PTL DEF IndInv

(* No step rewrites a job that is done. *)
LEMMA DoneJobsStand ==
    ASSUME IndInv, [Next]_vars, NEW i \in JobId, Done(i), i \in table
    PROVE  job'[i] = job[i]
<1> USE DEF IndInv
<1>1. worker[i] \in {"updated", "exited"}
  BY DEF InStep, TypeOK, WorkerState, Done, Terminal
<1>2. ASSUME NEW id \in JobId, Worker(id) PROVE job'[i] = job[i]
  <2>1. worker[id] \in {"spawned", "running", "returned"} => id # i
    BY <1>1
  <2>2. CASE UNCHANGED job
    BY <2>2
  <2>3. ASSUME NEW j, job' = Update(id, j), id # i PROVE job'[i] = job[i]
    BY <2>3 DEF Update, TypeOK
  <2>4. QED
    BY <1>2, <2>1, <2>2, <2>3 DEF Worker, RunBegin, RunEnd, RunExit, Report, Return
<1>3. ASSUME NEW k \in Key, NEW id \in JobId, StartNew(k, id) PROVE job'[i] = job[i]
  BY <1>1, <1>3 DEF StartNew, TypeOK
<1>4. ASSUME NEW c \in Caller, Request(c) PROVE job'[i] = job[i]
  BY <1>4 DEF Request, Cancel, Await, Call, CancelContext, CancelReturn, AwaitDone,
              AwaitGivenUp, AwaitReturn, Get
<1>5. QED
  BY <1>2, <1>3, <1>4 DEF Next, StartJoined, List, Tick, vars

(* Once run wrote the end of a job, no report and no Cancel changes it. *)
THEOREM EndsAreFinal == Spec => EndIsFinal
<1>1. IndInv /\ [Next]_vars
        => [\A id \in JobId : Done(id) /\ id \in table => job'[id] = job[id]]_vars
  BY DoneJobsStand
<1>2. QED
  BY <1>1, Invariance, PTL DEF Spec, EndIsFinal

-----------------------------------------------------------------------------
(* Refinement: the phase JobLifecycle sees, and one abstract step (or none)
   for every step of the table. *)
absPhase == [id \in JobId |->
                IF worker[id] = "none" THEN "absent"
                ELSE IF id \in table THEN job[id].phase ELSE "gone"]
absKey == [id \in JobId |-> job[id].key]

LEMMA RefinesInit == Init => Lifecycle!Init
<1> SUFFICES ASSUME Init PROVE Lifecycle!Init
  OBVIOUS
<1>1. PICK k \in Key : job = [id \in JobId |-> NewJob(k)]
  BY DEF Init
<1>2. absKey \in [JobId -> Key]
  BY <1>1 DEF absKey, NewJob
<1>3. absPhase = [id \in JobId |-> "absent"]
  BY DEF absPhase, Init
<1>4. QED
  BY <1>2, <1>3 DEF Lifecycle!Init, Init, absKey, absPhase

(* A pruning step forgets what it drops. *)
LEMMA PruneForgets ==
    ASSUME IndInv, NEW kept \in PruneLocked, UNCHANGED <<job, worker>>,
           table' = kept
    PROVE  /\ \A id \in table \ kept : absPhase[id] \in Lifecycle!Terminal
           /\ absPhase' = Lifecycle!Forgotten(table \ kept)
           /\ absKey' = absKey
<1>1. kept \subseteq table /\ \A id \in table \ kept : Done(id)
  BY PruneKeeps
<1>2. \A id \in table : worker[id] # "none" /\ id \in JobId
  BY DEF IndInv, InStep, TypeOK
<1>3. QED
  BY <1>1, <1>2 DEF absPhase, absKey, Lifecycle!Terminal, Lifecycle!Forgotten,
                    Done, Terminal

LEMMA RefinesWorker ==
    ASSUME IndInv, NEW id \in JobId, Worker(id)
    PROVE  [Lifecycle!Next]_(Lifecycle!vars)
<1> USE DEF IndInv
<1> DEFINE Same == absPhase' = absPhase /\ absKey' = absKey /\ cancelled' = cancelled
<1>1. ASSUME Same PROVE [Lifecycle!Next]_(Lifecycle!vars)
  BY <1>1 DEF Lifecycle!vars, absPhase, absKey
<1>2. ASSUME NEW s \in Sample, Report(id, s[1], s[2])
      PROVE [Lifecycle!Next]_(Lifecycle!vars)
  <2>1. id \in table /\ worker' = worker /\ table' = table
    BY <1>2 DEF Report, InStep
  <2> DEFINE j == Reported(job[id], s[1], s[2])
  <2>2. j \in Job /\ j.phase = job[id].phase /\ j.key = job[id].key
    BY ReportedType, SampleAssumption, ZenonT(40) DEF TypeOK
  <2>3. job' = [job EXCEPT ![id] = j]
    BY <1>2, <2>1 DEF Report, Update
  <2> HIDE DEF j
  <2>4. Same
    BY <1>2, <2>1, <2>2, <2>3 DEF absPhase, absKey, TypeOK, Report
  <2>5. QED
    BY <1>1, <2>4
<1>3. ASSUME NEW r \in Result \ {"none"}, Return(id, r)
      PROVE [Lifecycle!Next]_(Lifecycle!vars)
  <2>1. Same
    BY <1>3 DEF Return, absPhase, absKey, TypeOK
  <2>2. QED
    BY <1>1, <2>1
<1>4. ASSUME RunExit(id) PROVE [Lifecycle!Next]_(Lifecycle!vars)
  <2>1. Same
    BY <1>4 DEF RunExit, absPhase, absKey, TypeOK
  <2>2. QED
    BY <1>1, <2>1
<1>5. ASSUME RunBegin(id) PROVE Lifecycle!Begin(id)
  <2>1. id \in table /\ job[id].phase = "pending" /\ worker[id] = "spawned"
    BY <1>5 DEF RunBegin, InStep
  <2>2. job' = [job EXCEPT ![id] = Running(job[id])]
    BY <1>5, <2>1 DEF RunBegin, Update
  <2>3. Running(job[id]).phase = "running" /\ Running(job[id]).key = job[id].key
    BY DEF Running, TypeOK, Job
  <2>4. absPhase[id] = "pending" /\ absPhase' = [absPhase EXCEPT ![id] = "running"]
    BY <1>5, <2>1, <2>2, <2>3 DEF RunBegin, absPhase, TypeOK
  <2>5. absKey' = absKey
    BY <2>2, <2>3 DEF absKey, TypeOK
  <2>6. QED
    BY <1>5, <2>4, <2>5 DEF Lifecycle!Begin, absPhase, absKey, RunBegin
<1>6. ASSUME RunEnd(id) PROVE \E p \in Lifecycle!Terminal : Lifecycle!End(id, p)
  <2> DEFINE p == EndPhase(result[id], id \in cancelled)
             j == Ended(job[id], p)
  <2>1. p \in Terminal /\ (p = "cancelled" => id \in cancelled)
    BY Zenon DEF EndPhase, Terminal
  <2>2. j.phase = p /\ j.key = job[id].key
    <3> HIDE DEF p
    <3>1. QED
      BY <2>1, EndedType DEF TypeOK, j
  <2>3. id \in table /\ job[id].phase = "running" /\ worker[id] = "returned"
    BY <1>6 DEF RunEnd, InStep
  <2>4. job' = [job EXCEPT ![id] = j]
    BY <1>6, <2>3 DEF RunEnd, Update
  <2> HIDE DEF p, j
  <2>5. absPhase[id] = "running" /\ absPhase' = [absPhase EXCEPT ![id] = p]
    BY <1>6, <2>2, <2>3, <2>4 DEF RunEnd, absPhase, TypeOK
  <2>6. absKey' = absKey
    BY <2>2, <2>4 DEF absKey, TypeOK
  <2>7. p \in Lifecycle!Terminal /\ Lifecycle!End(id, p)
    BY <1>6, <2>1, <2>5, <2>6
       DEF Lifecycle!End, Lifecycle!Terminal, Terminal, absPhase, absKey, RunEnd
  <2>8. QED
    BY <2>7, Zenon DEF Lifecycle!End
<1>7. QED
  BY <1>2, <1>3, <1>4, <1>5, <1>6 DEF Worker, Lifecycle!Next

LEMMA RefinesNext == IndInv /\ [Next]_vars => [Lifecycle!Next]_(Lifecycle!vars)
<1> SUFFICES ASSUME IndInv, [Next]_vars PROVE [Lifecycle!Next]_(Lifecycle!vars)
  OBVIOUS
<1>1. ASSUME NEW kept \in PruneLocked, table' = kept,
             UNCHANGED <<job, worker, cancelled>>
      PROVE  Lifecycle!Next
  <2>1. table \ kept \in SUBSET JobId
    BY DEF IndInv, TypeOK
  <2>2. Lifecycle!Forget(table \ kept)
    BY <1>1, PruneForgets DEF Lifecycle!Forget, absPhase, absKey
  <2>3. QED
    BY <2>1, <2>2, Zenon DEF Lifecycle!Next, Lifecycle!Forget
<1>2. ASSUME NEW k \in Key, StartJoined(k) PROVE Lifecycle!Next
  BY <1>1, <1>2 DEF StartJoined
<1>3. ASSUME NEW k \in Key, NEW id \in JobId, StartNew(k, id) PROVE Lifecycle!Next
  <2>1. PICK kept \in PruneLocked :
            /\ worker[id] = "none"
            /\ ~ \E other \in kept : Active(other) /\ job[other].key = k
            /\ table' = kept \cup {id}
            /\ job' = [job EXCEPT ![id] = NewJob(k)]
            /\ worker' = [worker EXCEPT ![id] = "spawned"]
            /\ UNCHANGED <<now, result, cancelled, caller>>
    BY <1>3 DEF StartNew
  <2> DEFINE S == table \ kept
  <2>2. kept \subseteq table /\ \A gone \in S : Done(gone)
    BY PruneKeeps
  <2>3. \A i \in table : worker[i] # "none" /\ i \in JobId
    BY DEF IndInv, InStep, TypeOK
  <2>4. \A gone \in S : absPhase[gone] \in Lifecycle!Terminal
    BY <2>2, <2>3 DEF absPhase, Lifecycle!Terminal, Done, Terminal
  <2>5. NewJob(k).phase = "pending" /\ NewJob(k).key = k
    BY DEF NewJob
  <2>6. absPhase[id] = "absent"
    BY <2>1 DEF absPhase
  <2>7. absPhase' = [Lifecycle!Forgotten(S) EXCEPT ![id] = "pending"]
    BY <2>1, <2>2, <2>3, <2>5 DEF absPhase, Lifecycle!Forgotten, IndInv, TypeOK
  <2>8. absKey' = [absKey EXCEPT ![id] = k]
    BY <2>1, <2>5 DEF absKey, IndInv, TypeOK
  <2>9. \A other \in JobId : Lifecycle!Active(other) => absKey[other] # k
    BY <2>1, <2>2, <2>3
       DEF Lifecycle!Active, absPhase, absKey, Active, Done, Terminal, IndInv, TypeOK, Job
  <2>10. Lifecycle!Start(k, id, S)
    BY <2>1, <2>4, <2>6, <2>7, <2>8, <2>9 DEF Lifecycle!Start, absPhase, absKey
  <2>11. S \in SUBSET JobId
    BY DEF IndInv, TypeOK
  <2>12. QED
    BY <2>10, <2>11, ZenonT(30) DEF Lifecycle!Next, Lifecycle!Start
<1>4. ASSUME List PROVE Lifecycle!Next
  BY <1>1, <1>4 DEF List
<1>5. ASSUME NEW id \in JobId, Worker(id) PROVE [Lifecycle!Next]_(Lifecycle!vars)
  BY <1>5, RefinesWorker
<1>6. ASSUME NEW c \in Caller, CancelContext(c) PROVE [Lifecycle!Next]_(Lifecycle!vars)
  <2> DEFINE id == caller[c].id
  <2>1. id \in JobId /\ worker[id] # "none" /\ absPhase[id] # "absent"
    BY <1>6 DEF CancelContext, IndInv, CallsInStep, TypeOK, Job, Phase, Terminal, absPhase
  <2>2. CASE caller[c].seenDone
    BY <1>6, <2>2 DEF CancelContext, Lifecycle!vars
  <2>3. CASE ~caller[c].seenDone
    <3>1. Lifecycle!Ask(id)
      BY <1>6, <2>1, <2>3 DEF CancelContext, Lifecycle!Ask, absPhase
    <3>2. QED
      BY <2>1, <3>1 DEF Lifecycle!Next
  <2>4. QED
    BY <2>2, <2>3
<1>7. ASSUME UNCHANGED <<table, job, worker, cancelled>>
      PROVE [Lifecycle!Next]_(Lifecycle!vars)
  BY <1>7 DEF Lifecycle!vars
<1>8. ASSUME NEW c \in Caller, Request(c) PROVE [Lifecycle!Next]_(Lifecycle!vars)
  BY <1>6, <1>7, <1>8 DEF Request, Cancel, Await, Call, CancelReturn, AwaitDone,
                          AwaitGivenUp, AwaitReturn, Get
<1>9. QED
  BY <1>2, <1>3, <1>4, <1>5, <1>7, <1>8 DEF Next, Tick, vars

(* The job table implements the lifecycle of JobLifecycle: a job of a key
   starts only when none is active, runs, ends once, ends cancelled only if
   asked to, and is forgotten only then. *)
THEOREM TableImplementsLifecycle == Spec => Lifecycle!Safety
BY RefinesInit, RefinesNext, Invariance, PTL DEF Spec, Lifecycle!Safety

=============================================================================
