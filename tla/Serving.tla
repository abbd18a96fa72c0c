------------------------------- MODULE Serving -------------------------------
(***************************************************************************)
(* internal/service on a backend that serves models (ServeLifecycle:       *)
(* kserve): what load_model, unload_model, unwire_model, a read of the     *)
(* loaded models, the reconciler and the load job do to the serving        *)
(* objects of one model and to its ModelConfig.                            *)
(*                                                                         *)
(* Several presets may serve one model, each as an object of its own; the  *)
(* model has one ModelConfig on the backend (module Wiring), which names   *)
(* one of the objects.  The jobs are those of JobLifecycle, with one key:  *)
(* (load, kserve, the model).  The wirer's Ensure and Remove are one step  *)
(* each here; AutoWire is on and what model-manager creates carries its    *)
(* instance label.                                                         *)
(***************************************************************************)
EXTENDS Integers

CONSTANTS
    Preset,       \* presets of the model, numbered in the order of their names
    Call,         \* requests under way
    Loop,         \* the reconciler of Service.Run; no actor in caller-only mode
    Reconciles,   \* whether it runs
    JobId,
    Gateway,      \* the objects share a host (routes of the models Gateway)
    MaxCalls,     \* bound: loads, unloads and unwires that start
    MaxFaults,    \* bound: restarts of the process and requests that fail
    NoPreset

ASSUME PresetAssumption == Preset \subseteq Nat /\ NoPreset \notin Preset
ASSUME LoopAssumption == Loop \notin Call
ASSUME SwitchesAssumption == {Reconciles, Gateway} \subseteq BOOLEAN
ASSUME BoundsAssumption == MaxCalls \in Nat /\ MaxFaults \in Nat

VARIABLES
    obj,       \* obj[p]: the LLMInferenceService of preset p
    mc,        \* the preset whose object the model's ModelConfig names
    portal,    \* the preset whose object somebody else's ModelConfig names
    phase,     \* phase[id]: as in JobLifecycle
    asked,     \* the jobs whose context was cancelled
    job,       \* job[id]: the preset the job was started for, where it is
    act,       \* act[a]: where a request, or the reconciler, is
    calls, faults  \* how many of each have been

vars == <<obj, mc, portal, phase, asked, job, act, calls, faults>>

Actor == Call \cup {Loop}

Object == [state: {"none", "up", "stopping"}, ready: BOOLEAN]
None == [state |-> "none", ready |-> FALSE]

Idle == [op |-> "none", pc |-> "idle", todo |-> {}, gone |-> {}, job |-> 0]

ActorState ==
    [op: {"none", "load", "unload", "read", "reconcile"},
     pc: {"idle", "look", "write", "startjob", "delete", "check", "endjob", "await",
          "remove", "index", "item"},
     todo: SUBSET Preset,     \* what it has still to wire, or to delete
     gone: SUBSET Preset,     \* what the unload matched
     job: JobId \cup {0}]     \* the job it awaits

Jobs == INSTANCE JobLifecycle WITH
            Key <- {"load"}, key <- [id \in JobId |-> "load"]

First(S) == CHOOSE p \in S : \A q \in S : p <= q

(* wiredView.byEndpoint, foreignForEndpoint: somebody else's ModelConfig
   names p's endpoint: the same host, and the same model anyway. *)
Foreign(p) == portal # NoPreset /\ (Gateway \/ portal = p)

World == <<obj, mc, portal>>
Table == <<phase, asked, job>>
Bounds == <<calls, faults>>

Goto(a, pc) == act' = [act EXCEPT ![a].pc = pc]
Finish(a) == act' = [act EXCEPT ![a] = Idle]
At(a, pc) == act[a].pc = pc
Faulty == faults < MaxFaults /\ faults' = faults + 1

-----------------------------------------------------------------------------
(* wireModel: the foreign ModelConfigs are read before Ensure writes *)

(* Where an actor goes once the first of its todo is wired, or left. *)
Wired(a) ==
    LET q == act[a]
        rest == q.todo \ {First(q.todo)}
    IN act' = [act EXCEPT ![a] =
          IF q.op = "load" THEN [q EXCEPT !.pc = "startjob"]
          ELSE IF rest = {} THEN Idle
          ELSE [q EXCEPT !.pc = "item", !.todo = rest]]

WireLook(a) ==
    /\ At(a, "look")
    /\ IF Foreign(First(act[a].todo)) THEN Wired(a) ELSE Goto(a, "write")
    /\ UNCHANGED <<World, Table, Bounds>>

WireWrite(a) ==
    /\ At(a, "write")
    /\ mc' = First(act[a].todo)
    /\ Wired(a)
    /\ UNCHANGED <<obj, portal, Table, Bounds>>

(* A wiring that fails is reported, and the call goes on. *)
WireFails(a) ==
    /\ At(a, "write") /\ Faulty
    /\ Wired(a)
    /\ UNCHANGED <<World, Table, calls>>

-----------------------------------------------------------------------------
(* Load *)

Starts(c) == c \in Call /\ At(c, "idle") /\ calls < MaxCalls /\ calls' = calls + 1

(* Serve: an object that is there is a conflict, or already serving; neither
   wires nor starts a job. *)
LoadServe(c, p) ==
    /\ Starts(c)
    /\ IF obj[p] = None
       THEN /\ obj' = [obj EXCEPT ![p] = [state |-> "up", ready |-> FALSE]]
            /\ act' = [act EXCEPT ![c] = [Idle EXCEPT !.op = "load", !.pc = "look", !.todo = {p}]]
       ELSE UNCHANGED <<obj, act>>
    /\ UNCHANGED <<mc, portal, Table, faults>>

(* startLoadJob: a new job for the preset, or the one already active for the
   model. *)
LoadStartJob(c) ==
    /\ At(c, "startjob")
    /\ \/ /\ \E id \in JobId : Jobs!Active(id)
          /\ UNCHANGED Table
       \/ \E id \in JobId :
            /\ \A other \in JobId : other < id => phase[other] # "absent"
            /\ Jobs!Start("load", id, {})
            /\ job' = [job EXCEPT ![id] = [ref |-> First(act[c].todo), pc |-> "waiting"]]
    /\ Finish(c)
    /\ UNCHANGED <<World, Bounds>>

-----------------------------------------------------------------------------
(* The load job *)

JobBegin(id) ==
    /\ Jobs!Begin(id)
    /\ UNCHANGED <<World, job, act, Bounds>>

JobAt(id, pc) == phase[id] = "running" /\ job[id].pc = pc
JobGoto(id, pc) == job' = [job EXCEPT ![id].pc = pc]
JobEnd(id, p) == Jobs!End(id, p) /\ job' = [job EXCEPT ![id].pc = "over"]

(* WaitReady: any object of the model counts, also one that is stopping. *)
JobPoll(id) ==
    /\ JobAt(id, "waiting") /\ id \notin asked
    /\ \/ /\ \A p \in Preset : obj[p] = None
          /\ JobEnd(id, "failed")
       \/ /\ \E p \in Preset : obj[p].ready
          /\ JobGoto(id, "ready")
          /\ UNCHANGED <<phase, asked>>
    /\ UNCHANGED <<World, act, Bounds>>

(* The readiness timeout, a first answer that failed, an expired token. *)
JobGivesUp(id) ==
    /\ JobAt(id, "waiting")
    /\ JobEnd(id, "failed")
    /\ UNCHANGED <<World, act, Bounds>>

(* The context ends the wait, the check after it and the requests of the
   wiring. *)
JobStops(id) ==
    /\ phase[id] = "running" /\ job[id].pc # "over" /\ id \in asked
    /\ JobEnd(id, "cancelled")
    /\ UNCHANGED <<World, act, Bounds>>

JobCheck(id) ==
    /\ JobAt(id, "ready") /\ id \notin asked
    /\ JobGoto(id, "look")
    /\ UNCHANGED <<World, phase, asked, act, Bounds>>

JobLook(id) ==
    /\ JobAt(id, "look") /\ id \notin asked
    /\ IF Foreign(job[id].ref) THEN JobEnd(id, "succeeded")
       ELSE JobGoto(id, "write") /\ UNCHANGED <<phase, asked>>
    /\ UNCHANGED <<World, act, Bounds>>

(* A write under way when the context ends may still get through. *)
JobWrite(id) ==
    /\ JobAt(id, "write")
    /\ mc' = job[id].ref
    /\ JobEnd(id, "succeeded")
    /\ UNCHANGED <<obj, portal, act, Bounds>>

-----------------------------------------------------------------------------
(* Unload *)

(* Stop's read: by the preset's name, or every object of the model. *)
UnloadFind(c, names) ==
    LET found == {p \in names : obj[p] # None} IN
    /\ Starts(c)
    /\ act' = IF found = {} THEN act
              ELSE [act EXCEPT ![c] = [Idle EXCEPT !.op = "unload", !.pc = "delete",
                                                   !.todo = found, !.gone = found]]
    /\ UNCHANGED <<World, Table, faults>>

UnloadDelete(c) ==
    LET p == First(act[c].todo) IN
    /\ At(c, "delete")
    /\ obj' = [obj EXCEPT ![p].state = IF @ = "none" THEN @ ELSE "stopping"]
    /\ Goto(c, "check")
    /\ UNCHANGED <<mc, portal, Table, Bounds>>

(* deleted: an object served again by now fails the unload. *)
UnloadCheck(c) ==
    LET q == act[c]
        p == First(q.todo)
    IN /\ At(c, "check")
       /\ act' = [act EXCEPT ![c] =
             IF obj[p].state = "up" THEN Idle
             ELSE [q EXCEPT !.todo = @ \ {p},
                            !.pc = IF q.todo = {p} THEN "endjob" ELSE "delete"]]
       /\ UNCHANGED <<World, Table, Bounds>>

(* Mutant: cancels the job and does not wait for it. *)
MutUnloadEndJob(c) ==
    /\ At(c, "endjob")
    /\ \/ \E id \in JobId :
            /\ Jobs!Active(id)
            /\ Jobs!Ask(id)
            /\ Goto(c, "remove")
       \/ /\ \A id \in JobId : ~Jobs!Active(id)
          /\ Goto(c, "remove")
          /\ UNCHANGED <<phase, asked>>
    /\ UNCHANGED <<World, job, Bounds>>

(* endLoadJob *)
UnloadEndJob(c) ==
    /\ At(c, "endjob")
    /\ \/ \E id \in JobId :
            /\ Jobs!Active(id)
            /\ Jobs!Ask(id)
            /\ act' = [act EXCEPT ![c].pc = "await", ![c].job = id]
       \/ /\ \A id \in JobId : ~Jobs!Active(id)
          /\ Goto(c, "remove")
          /\ UNCHANGED <<phase, asked>>
    /\ UNCHANGED <<World, job, Bounds>>

UnloadAwait(c) ==
    /\ At(c, "await")
    /\ ~Jobs!Active(act[c].job)
    /\ Goto(c, "remove")
    /\ UNCHANGED <<World, Table, Bounds>>

UnloadRemove(c) ==
    /\ At(c, "remove")
    /\ mc' = NoPreset
    /\ Finish(c)
    /\ UNCHANGED <<obj, portal, Table, Bounds>>

(* A request of Stop that fails fails the unload, one of Remove is logged:
   either way the ModelConfig stays. *)
UnloadFails(c) ==
    /\ act[c].pc \in {"delete", "check", "remove"} /\ Faulty
    /\ Finish(c)
    /\ UNCHANGED <<World, Table, calls>>

Unwire(c) ==
    /\ Starts(c)
    /\ mc # NoPreset
    /\ mc' = NoPreset
    /\ UNCHANGED <<obj, portal, Table, act, faults>>

-----------------------------------------------------------------------------
(* A read of the loaded models, and the reconciler: list, index, wire *)

Lists(a, op, listed) ==
    /\ At(a, "idle")
    /\ act' = [act EXCEPT ![a] =
          IF listed = {} THEN Idle ELSE [Idle EXCEPT !.op = op, !.pc = "index", !.todo = listed]]
    /\ UNCHANGED <<World, Table, Bounds>>

(* loadedViews: what is on its way out is not wired. *)
Read(c) == c \in Call /\ Lists(c, "read", {p \in Preset : obj[p].state = "up"})

(* Mutant: leaves what becomes ready to the load jobs. *)
MutReconcile ==
    Reconciles /\ Lists(Loop, "reconcile", {p \in Preset : obj[p].state = "up" /\ ~obj[p].ready})

(* reconcileWiring: what is Ready. *)
Reconcile ==
    Reconciles /\ Lists(Loop, "reconcile", {p \in Preset : obj[p].state = "up" /\ obj[p].ready})

(* wiredIndex: the model's own ModelConfig counts for each of its objects,
   whichever it names. *)
Index(a) ==
    LET q == act[a]
        unwired == IF mc # NoPreset THEN {} ELSE {p \in q.todo : ~Foreign(p)}
    IN /\ At(a, "index")
       /\ act' = [act EXCEPT ![a] =
             IF unwired = {} THEN Idle ELSE [q EXCEPT !.pc = "item", !.todo = unwired]]
       /\ UNCHANGED <<World, Table, Bounds>>

(* The reconciler leaves a model with an active load job to it. *)
Item(a) ==
    LET q == act[a]
        left == q.op = "reconcile" /\ \E id \in JobId : Jobs!Active(id)
    IN /\ At(a, "item")
       /\ IF left THEN Wired(a) ELSE Goto(a, "look")
       /\ UNCHANGED <<World, Table, Bounds>>

-----------------------------------------------------------------------------
(* Around the process *)

(* KServe: an object becomes ready, stops being ready, is gone. *)
ControllerReady(p) ==
    /\ obj[p].state = "up" /\ ~obj[p].ready
    /\ obj' = [obj EXCEPT ![p].ready = TRUE]
    /\ UNCHANGED <<mc, portal, Table, act, Bounds>>

ControllerNotReady(p) ==
    /\ obj[p].ready
    /\ obj' = [obj EXCEPT ![p].ready = FALSE]
    /\ UNCHANGED <<mc, portal, Table, act, Bounds>>

ControllerGone(p) ==
    /\ obj[p].state = "stopping"
    /\ obj' = [obj EXCEPT ![p] = None]
    /\ UNCHANGED <<mc, portal, Table, act, Bounds>>

(* The portal's ModelConfig goes. *)
PortalUnwires ==
    /\ portal # NoPreset
    /\ portal' = NoPreset
    /\ UNCHANGED <<obj, mc, Table, act, Bounds>>

(* The process restarts: its jobs and the requests under way are lost. *)
Restart ==
    /\ Faulty
    /\ phase' = [id \in JobId |-> IF Jobs!Active(id) THEN "gone" ELSE phase[id]]
    /\ job' = [id \in JobId |-> [job[id] EXCEPT !.pc = "over"]]
    /\ asked' = {}
    /\ act' = [a \in Actor |-> Idle]
    /\ UNCHANGED <<World, calls>>

-----------------------------------------------------------------------------
Init ==
    /\ obj = [p \in Preset |-> None]
    /\ mc = NoPreset
    /\ portal \in Preset \cup {NoPreset}
    /\ phase = [id \in JobId |-> "absent"]
    /\ asked = {}
    /\ \E p \in Preset : job = [id \in JobId |-> [ref |-> p, pc |-> "over"]]
    /\ act = [a \in Actor |-> Idle]
    /\ calls = 0 /\ faults = 0

Load(c) == (\E p \in Preset : LoadServe(c, p)) \/ LoadStartJob(c)

Unload(c) ==
    \/ \E names \in {{p} : p \in Preset} \cup {Preset} : UnloadFind(c, names)
    \/ UnloadDelete(c) \/ UnloadCheck(c) \/ UnloadEndJob(c) \/ UnloadAwait(c) \/ UnloadRemove(c)

Wire(a) == WireLook(a) \/ WireWrite(a)

LoadJob(id) ==
    \/ JobBegin(id) \/ JobPoll(id) \/ JobGivesUp(id) \/ JobStops(id)
    \/ JobCheck(id) \/ JobLook(id) \/ JobWrite(id)

Controller(p) == ControllerReady(p) \/ ControllerNotReady(p) \/ ControllerGone(p)

Next ==
    \/ \E c \in Call : Load(c) \/ Unload(c) \/ Unwire(c) \/ UnloadFails(c) \/ Read(c)
    \/ Reconcile
    \/ \E a \in Actor : Index(a) \/ Item(a) \/ Wire(a) \/ WireFails(a)
    \/ \E id \in JobId : LoadJob(id)
    \/ \E p \in Preset : Controller(p)
    \/ PortalUnwires \/ Restart

Spec == Init /\ [][Next]_vars

(* Calls, jobs and the reconciler's pass go on; a job may give up at any time
   and need not. *)
Fairness ==
    /\ \A a \in Actor : WF_vars(Index(a) \/ Item(a) \/ Wire(a))
    /\ \A c \in Call :
        /\ WF_vars(LoadStartJob(c))
        /\ WF_vars(UnloadDelete(c) \/ UnloadCheck(c) \/ UnloadEndJob(c) \/ UnloadAwait(c)
                      \/ UnloadRemove(c))
    /\ \A id \in JobId :
        WF_vars(JobBegin(id) \/ JobPoll(id) \/ JobStops(id) \/ JobCheck(id)
                   \/ JobLook(id) \/ JobWrite(id))

-----------------------------------------------------------------------------
(* Properties *)

TypeOK ==
    /\ obj \in [Preset -> Object]
    /\ \A p \in Preset : obj[p].state = "none" => ~obj[p].ready
    /\ mc \in Preset \cup {NoPreset}
    /\ portal \in Preset \cup {NoPreset}
    /\ phase \in [JobId -> Jobs!Phases]
    /\ asked \subseteq JobId
    /\ job \in [JobId -> [ref: Preset,
                          pc: {"waiting", "ready", "look", "write", "over"}]]
    /\ act \in [Actor -> ActorState]
    /\ calls \in 0..MaxCalls /\ faults \in 0..MaxFaults

Quiet ==
    /\ \A a \in Actor : act[a] = Idle
    /\ \A id \in JobId : ~Jobs!Active(id)

(* Unload: the ModelConfig goes with the endpoint.  Once calls and jobs are
   over, a ModelConfig names an object that serves: in particular a load job
   that saw the object ready does not wire it behind the unload. *)
NoDangling == Quiet => mc = NoPreset \/ obj[mc].state = "up"

(* startLoadJob: the job refreshes "the same ModelConfig the load wired,
   updated in place", at the address of the object that load created. *)
JobRefreshesInPlace ==
    [][\A id \in JobId :
         JobAt(id, "write") /\ phase'[id] = "succeeded" /\ mc # NoPreset => mc' = mc]_vars

(* Unload: "the ModelConfig this model-manager created goes with the
   endpoint": an unload takes the one of an object it stopped, not the one
   of an object that goes on serving. *)
UnloadTakesItsOwn ==
    [][\A c \in Call :
         At(c, "remove") /\ mc # NoPreset /\ mc' = NoPreset => mc \in act[c].gone]_vars

(* WaitReady "blocks until the served model answers": when it returns, and
   no call is under way, an object that stays is ready. *)
WaitReadyMeansAnswering ==
    [][\A id \in JobId :
         JobAt(id, "waiting") /\ job'[id].pc = "ready" /\ (\A a \in Actor : act[a] = Idle) =>
             \E p \in Preset : obj[p].state = "up" /\ obj[p].ready]_vars

(* loadedViews: "an object on its way out is not re-wired behind the unload
   that removed its ModelConfig". *)
ReadLeavesStopping ==
    [][\A c \in Call :
         act[c].op = "read" /\ At(c, "write") /\ act'[c] # act[c] /\ mc' # mc =>
             obj[mc'].state = "up"]_vars
=============================================================================
