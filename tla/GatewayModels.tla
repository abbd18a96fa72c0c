---------------------------- MODULE GatewayModels ----------------------------
(***************************************************************************)
(* internal/backend/kserve/gatewaymodel.go: the AgentgatewayModels that    *)
(* put the served models on the platform's LLM endpoint.                   *)
(*                                                                         *)
(* Every list compares the objects with what it found served and writes    *)
(* the difference, request by request; an unload takes its model off.      *)
(* Two objects stand for a model, the public and the workload one; their   *)
(* spec is abstracted to the version of the endpoint's document.           *)
(***************************************************************************)
EXTENDS Naturals, FiniteSets

CONSTANTS
    Name,       \* public names: the presets
    Sync,       \* calls of the driver under way at a time
    MaxVersion, \* bound on the versions of the endpoint's document
    MaxChanges, \* bound on what people and the cluster do
    MaxErrors,  \* bound on the requests that fail
    NoSpec,     \* no object, no fingerprint, no name
    Absent, Waiting, Ready  \* a serving object: none, not Ready, Ready

ASSUME GatewayBounds == MaxVersion \in Nat \ {0} /\ MaxChanges \in Nat /\ MaxErrors \in Nat

VARIABLES
    serving,       \* serving[n]: the object created from preset n
    endpoint,      \* the version of the endpoint's document
    models,        \* models[n, part]: the AgentgatewayModels
    gwFingerprint, \* what the last sync without a failure has written
    gwOnEndpoint,  \* the names that sync left on the endpoint and those that failed
    gwFresh,       \* gwSyncedAt is younger than gatewayResync
    sync,          \* sync[c]
    changes, errors

gatewayVars == <<serving, endpoint, models, gwFingerprint, gwOnEndpoint, gwFresh, sync,
                 changes, errors>>

Version == 1..MaxVersion
Object == Name \X {"public", "workload"}

(* What a list says of every name: gone, not to be written yet, or what to
   write. *)
View == [Name -> {Absent, Waiting} \cup Version]

SyncState ==
    [pc: {"idle", "check", "list", "write", "clean", "set", "drop"},
     view: View,
     have: [Object -> Version \cup {NoSpec}],
     todo: SUBSET Name,           \* desired names not written yet
     half: Name \cup {NoSpec},    \* the name whose workload object is next
     wanted: SUBSET Object,
     names: SUBSET Name, failed: SUBSET Name]

GatewayTypeOK ==
    /\ serving \in [Name -> {Absent, Waiting, Ready}]
    /\ endpoint \in Version
    /\ models \in [Object -> Version \cup {NoSpec}]
    /\ gwFingerprint \in View \cup {NoSpec}
    /\ gwOnEndpoint \in [names: SUBSET Name, failed: SUBSET Name]
    /\ gwFresh \in BOOLEAN
    /\ sync \in [Sync -> SyncState]
    /\ changes \in 0..MaxChanges /\ errors \in 0..MaxErrors

-----------------------------------------------------------------------------
NoModels == [x \in Object |-> NoSpec]

IdleSync == [pc |-> "idle", view |-> [n \in Name |-> Absent], have |-> NoModels, todo |-> {},
         half |-> NoSpec, wanted |-> {}, names |-> {}, failed |-> {}]

AtSync(c, pc) == sync[c].pc = pc
GoSync(c, q) == sync' = [sync EXCEPT ![c] = q]
WriteFails == errors < MaxErrors /\ errors' = errors + 1

memory == <<gwFingerprint, gwOnEndpoint, gwFresh>>
world == <<serving, endpoint, changes>>

(* What the served models of this moment ask for: an object per Ready one. *)
Seen == [n \in Name |-> IF serving[n] = Ready THEN endpoint ELSE serving[n]]

Desired(view) == {n \in Name : view[n] \in Version}
Present(view) == {n \in Name : view[n] # Absent}

-----------------------------------------------------------------------------
(* syncGatewayModels *)

ListServed(c) ==
    /\ AtSync(c, "idle")
    /\ GoSync(c, [IdleSync EXCEPT !.pc = "check", !.view = Seen])
    /\ UNCHANGED <<world, models, memory, errors>>

(* Mutant: what was written once is never looked at again. *)
MutSynced(view) == gwFingerprint = view

Synced(view) == gwFingerprint = view /\ gwFresh

Check(c) ==
    /\ AtSync(c, "check")
    /\ GoSync(c, IF Synced(sync[c].view) THEN IdleSync ELSE [sync[c] EXCEPT !.pc = "list"])
    /\ UNCHANGED <<world, models, memory, errors>>

(* applyGatewayModels lists what there is; a list that fails fails every name. *)
ListModels(c) ==
    LET q == sync[c] IN
    /\ AtSync(c, "list")
    /\ \/ /\ GoSync(c, [q EXCEPT !.pc = "write", !.have = models, !.todo = Desired(q.view)])
          /\ UNCHANGED errors
       \/ /\ WriteFails
          /\ GoSync(c, [q EXCEPT !.pc = "set", !.failed = Present(q.view)])
    /\ UNCHANGED <<world, models, memory>>

(* The object to write: a name's public one, then its workload one. *)
NextObjects(q) ==
    IF q.half # NoSpec THEN {<<q.half, "workload">>}
    ELSE {<<n, "public">> : n \in q.todo}

(* What is left of the name after x was written. *)
Written(q, x) ==
    IF x[2] = "public"
    THEN [q EXCEPT !.half = x[1], !.wanted = @ \cup {x}]
    ELSE [q EXCEPT !.half = NoSpec, !.wanted = @ \cup {x}, !.todo = @ \ {x[1]},
                   !.names = @ \cup {x[1]}]

(* A write that failed ends its name. *)
Refused(q, x) ==
    [q EXCEPT !.half = NoSpec, !.wanted = @ \cup {x}, !.todo = @ \ {x[1]},
              !.failed = @ \cup {x[1]}]

(* Create what was not there, update what differs (with the resourceVersion
   listed), leave the rest. *)
WriteModel(c) ==
    LET q == sync[c] IN
    /\ AtSync(c, "write")
    /\ \E x \in NextObjects(q) :
          LET spec == q.view[x[1]]
              same == q.have[x] = spec
              taken == models[x] # q.have[x]
          IN \/ same /\ GoSync(c, Written(q, x)) /\ UNCHANGED <<models, errors>>
             \/ /\ ~same /\ ~taken
                /\ models' = [models EXCEPT ![x] = spec]
                /\ GoSync(c, Written(q, x)) /\ UNCHANGED errors
             \/ /\ ~same /\ taken
                /\ GoSync(c, Refused(q, x)) /\ UNCHANGED <<models, errors>>
             \/ ~same /\ WriteFails /\ GoSync(c, Refused(q, x)) /\ UNCHANGED models
    /\ UNCHANGED <<world, memory>>

AllWritten(c) ==
    /\ AtSync(c, "write") /\ NextObjects(sync[c]) = {}
    /\ GoSync(c, [sync[c] EXCEPT !.pc = "clean"])
    /\ UNCHANGED <<world, models, memory, errors>>

(* The objects listed that were not written. *)
Leftover(q) == {x \in Object : q.have[x] # NoSpec /\ x \notin q.wanted}

Done(q, x) == [q EXCEPT !.wanted = @ \cup {x}]

(* deleteGatewayModelObject: what is gone already is no error; the next sync
   looks again. *)
RemoveModel(x) ==
    /\ models' = [models EXCEPT ![x] = NoSpec]
    /\ gwFingerprint' = NoSpec

(* A model that restarts keeps its objects; the others of it go.  A delete
   that fails is logged. *)
Clean(c) ==
    LET q == sync[c] IN
    /\ AtSync(c, "clean")
    /\ \E x \in Leftover(q) :
          \/ /\ q.view[x[1]] = Waiting
             /\ GoSync(c, [Done(q, x) EXCEPT !.names = @ \cup {x[1]}])
             /\ UNCHANGED <<models, gwFingerprint, errors>>
          \/ /\ q.view[x[1]] # Waiting
             /\ RemoveModel(x) /\ GoSync(c, Done(q, x)) /\ UNCHANGED errors
          \/ /\ q.view[x[1]] # Waiting
             /\ WriteFails /\ GoSync(c, Done(q, x)) /\ UNCHANGED <<models, gwFingerprint>>
    /\ UNCHANGED <<world, gwOnEndpoint, gwFresh>>

AllClean(c) ==
    /\ AtSync(c, "clean") /\ Leftover(sync[c]) = {}
    /\ GoSync(c, [sync[c] EXCEPT !.pc = "set"])
    /\ UNCHANGED <<world, models, memory, errors>>

(* The sync is remembered, and not repeated unless a name failed. *)
Remember(c) ==
    LET q == sync[c] IN
    /\ AtSync(c, "set")
    /\ gwOnEndpoint' = [names |-> q.names, failed |-> q.failed]
    /\ gwFingerprint' = IF q.failed = {} THEN q.view ELSE NoSpec
    /\ gwFresh' = TRUE
    /\ GoSync(c, IdleSync)
    /\ UNCHANGED <<world, models, errors>>

(* deleteGatewayModel of an unload: public, then workload. *)
Drop(c) ==
    LET q == sync[c]
        x == <<q.half, IF q.todo = {} THEN "workload" ELSE "public">> IN
    /\ AtSync(c, "drop")
    /\ \/ /\ RemoveModel(x) /\ UNCHANGED errors
          /\ GoSync(c, IF q.todo = {} THEN IdleSync ELSE [q EXCEPT !.todo = {}])
       \/ WriteFails /\ GoSync(c, IdleSync) /\ UNCHANGED <<models, gwFingerprint>>
    /\ UNCHANGED <<world, gwOnEndpoint, gwFresh>>

SyncStep(c) ==
    \/ ListServed(c) \/ Check(c) \/ ListModels(c) \/ WriteModel(c) \/ AllWritten(c)
    \/ Clean(c) \/ AllClean(c) \/ Remember(c) \/ Drop(c)

-----------------------------------------------------------------------------
(* The cluster and people *)

Changes == changes < MaxChanges /\ changes' = changes + 1

(* A load, a model that answers, one that restarts, an object deleted by hand. *)
ServingChanges(n) ==
    /\ Changes
    /\ \E s \in {Absent, Waiting, Ready} :
          /\ s # serving[n] /\ (serving[n] = Absent => s = Waiting)
          /\ serving' = [serving EXCEPT ![n] = s]
    /\ UNCHANGED <<endpoint, models, memory, sync, errors>>

(* An unload deletes the serving object first. *)
UnloadModel(c, n) ==
    /\ Changes
    /\ AtSync(c, "idle") /\ serving[n] # Absent
    /\ serving' = [serving EXCEPT ![n] = Absent]
    /\ GoSync(c, [IdleSync EXCEPT !.pc = "drop", !.half = n, !.todo = {n}])
    /\ UNCHANGED <<endpoint, models, memory, errors>>

(* The platform's release changes the endpoint's parents. *)
EndpointChanges ==
    /\ Changes
    /\ endpoint < MaxVersion /\ endpoint' = endpoint + 1
    /\ UNCHANGED <<serving, models, memory, sync, errors>>

(* Somebody deletes one of the objects. *)
ModelRemoved(x) ==
    /\ Changes
    /\ models[x] # NoSpec
    /\ models' = [models EXCEPT ![x] = NoSpec]
    /\ UNCHANGED <<serving, endpoint, memory, sync, errors>>

ResyncDue ==
    /\ gwFresh
    /\ gwFresh' = FALSE
    /\ UNCHANGED <<world, models, gwFingerprint, gwOnEndpoint, sync, errors>>

-----------------------------------------------------------------------------
GatewayInit ==
    /\ serving = [n \in Name |-> Absent]
    /\ endpoint = 1
    /\ models = NoModels
    /\ gwFingerprint = NoSpec
    /\ gwOnEndpoint = [names |-> {}, failed |-> {}]
    /\ gwFresh = FALSE
    /\ sync = [c \in Sync |-> IdleSync]
    /\ changes = 0 /\ errors = 0

GatewayNext ==
    \/ \E c \in Sync : SyncStep(c)
    \/ \E n \in Name : ServingChanges(n)
    \/ \E c \in Sync, n \in Name : UnloadModel(c, n)
    \/ EndpointChanges
    \/ \E x \in Object : ModelRemoved(x)
    \/ ResyncDue

(* Lists go on, requests return, five minutes pass. *)
GatewayFairness == WF_gatewayVars(ResyncDue) /\ \A c \in Sync : WF_gatewayVars(SyncStep(c))

GatewaySpec == GatewayInit /\ [][GatewayNext]_gatewayVars /\ GatewayFairness

-----------------------------------------------------------------------------
(* What is on the endpoint follows what is served: in the end a Ready model
   has both its objects as they are now, and one that is gone has none,
   through overlapping lists of different moments, an unload among them,
   failing requests and objects deleted by hand (gatewaymodel.go:253-256). *)
EndpointFollows ==
    <>[]\A x \in Object :
          /\ serving[x[1]] = Ready => models[x] = endpoint
          /\ serving[x[1]] = Absent => models[x] = NoSpec

(* A sync takes no object off the endpoint whose serving object it has listed
   (gatewaymodel.go:255-256, "kept while its serving object exists ...,
   deleted when that object is gone"). *)
KeptWhileServed ==
    [][\A c \in Sync, x \in Object :
          AtSync(c, "clean") /\ sync'[c] # sync[c] /\ models[x] # NoSpec /\ models'[x] = NoSpec
             => sync[c].view[x[1]] = Absent]_gatewayVars
==============================================================================
