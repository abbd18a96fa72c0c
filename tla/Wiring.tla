------------------------------- MODULE Wiring -------------------------------
(***************************************************************************)
(* internal/wiring/kagent.go: the ModelConfigs and placeholder Secrets the *)
(* kagent wirer keeps in one namespace.  Several model-manager instances   *)
(* write there, each with several calls under way at once, next to people, *)
(* Flux and the Agents that name a ModelConfig.                            *)
(*                                                                         *)
(* An Ensure or a Remove is a sequence of API requests; every request on a *)
(* ModelConfig is a step of its own, because anybody may write between two *)
(* of them.  The Get and the Create or Delete of one placeholder Secret    *)
(* are one step.                                                           *)
(***************************************************************************)
EXTENDS Integers, FiniteSets

CONSTANTS
    Instance,     \* model-manager instances (Kagent.instance)
    Backend, Model,
    Name,         \* ModelConfig names
    Call,         \* requests under way
    Derived,      \* ModelConfigName(prefix, model), a function of the model
    Suffix,       \* suffixed(name, backend)
    Served,       \* the names a backend may choose (AgentEndpoint.Name)
    Seeds,        \* the namespaces an instance may find: contents of mc
    Legacy,       \* ModelConfigs of the kagent.dev group, by name
    LegacyListed, \* those a Kustomization's inventory still lists
    World,        \* who else acts: some of "people", "flux", "agents"
    Faults,       \* whether an API request may fail
    MaxWrites,    \* bound: no Ensure and no outside write starts past it
    NoName, NoInstance, NoBackend, NoConfig

Endpoint == [name: Served \cup {NoName}, key: BOOLEAN]
Scope == {"CreatedHere", "Unclaimed"}

(* A ModelConfig: its labels (managed-by, instance, backend, Flux), its model
   annotation, whether it reads the placeholder Secret, its resourceVersion. *)
Config == [managed: BOOLEAN, creator: Instance \cup {NoInstance},
           backend: Backend \cup {NoBackend}, model: Model,
           flux: BOOLEAN, key: BOOLEAN, rv: Nat]

ASSUME NamesAssumption ==
    /\ Derived \in [Model -> Name]
    /\ Suffix \in [Name \X Backend -> Name]
    /\ Served \subseteq Name
ASSUME NullsAssumption ==
    /\ NoName \notin Name
    /\ NoInstance \notin Instance
    /\ NoBackend \notin Backend
    /\ NoConfig \notin Config
ASSUME SeedsAssumption ==
    \A s \in Seeds : /\ s \in [Name -> Config \cup {NoConfig}]
                     /\ \A n \in Name : s[n] # NoConfig => s[n].rv = 0
ASSUME LegacyAssumption ==
    /\ Legacy \in [Name -> Config \cup {NoConfig}]
    /\ LegacyListed \subseteq Name
ASSUME FaultsAssumption == Faults \in BOOLEAN
ASSUME MaxWritesAssumption == MaxWrites \in Nat

VARIABLES
    mc,       \* mc[n]: the ModelConfig with that name, at the version in use
    secret,   \* secret[n]: the placeholder Secret of the ModelConfig n
    listed,   \* the ModelConfigs a Kustomization's inventory lists
    refs,     \* the ModelConfigs an Agent, AgentTemplate or Harness names
    rv,       \* the last resourceVersion given out
    call      \* call[c]: where a request is and what it has read

vars == <<mc, secret, listed, refs, rv, call>>

Idle == [pc |-> "idle"]

CallState ==
    {Idle} \cup
    [pc: {"find", "existing", "check", "refs", "delete", "dropsecret", "secret", "write"},
     op: {"ensure", "remove"}, inst: Instance, b: Backend, m: Model,
     ep: Endpoint, scope: Scope,
     name: Name,                          \* the name planned
     old: Config \cup {NoConfig},         \* what find returned, as read
     oldName: Name \cup {NoName},         \* its name, when it is to be deleted
     legacy: BOOLEAN,                     \* old is one of the kagent.dev group
     existing: Config \cup {NoConfig}]    \* what bears the planned name, as read

-----------------------------------------------------------------------------
(* What the wirer asks of a ModelConfig it has read *)

CreatedHere(obj, i) == obj.managed /\ obj.creator = i

BackendMatches(obj, b) == obj.backend \in {b, NoBackend}

OwnedByOtherBackend(obj, b) == obj.managed /\ ~BackendMatches(obj, b)

(* match: the managed ModelConfigs of (b, m) by annotation, else by name. *)
Match(objs, b, m) ==
    LET Of == {n \in Name : objs[n] # NoConfig /\ objs[n].managed
                            /\ BackendMatches(objs[n], b)}
        annotated == {n \in Of : objs[n].model = m}
    IN IF annotated # {} THEN annotated ELSE Of \cap {Derived[m]}

(* legacyGitOps: the kagent.dev ones Flux labels. *)
LegacyGitOps == [n \in Name |-> IF Legacy[n] # NoConfig /\ Legacy[n].flux
                                THEN Legacy[n] ELSE NoConfig]

(* find: the names match may return, and whether in the legacy group. *)
Find(b, m) ==
    IF Match(mc, b, m) # {} THEN Match(mc, b, m) \X {FALSE}
    ELSE Match(LegacyGitOps, b, m) \X {TRUE}

(* gitops.Applying of an object as read: its labels name a Kustomization,
   and that one's inventory lists it now. *)
Applying(obj, n, legacy) ==
    obj # NoConfig /\ obj.flux /\ n \in (IF legacy THEN LegacyListed ELSE listed)

-----------------------------------------------------------------------------
Goto(c, pc) == call' = [call EXCEPT ![c].pc = pc]
Finish(c) == call' = [call EXCEPT ![c] = Idle]
At(c, pc) == call[c].pc = pc
Store == <<mc, secret, listed, refs, rv>>

(* An API request that fails ends the call where it is. *)
Fail(c) ==
    /\ Faults
    /\ call[c] # Idle
    /\ Finish(c)
    /\ UNCHANGED Store

-----------------------------------------------------------------------------
(* Ensure: plan *)

(* plan's first read: a name another backend's ModelConfig bears is left to
   it, with the backend appended to this one's. *)
EnsureStart(c, i, b, m, ep) ==
    LET base == IF ep.name = NoName THEN Derived[m] ELSE ep.name
        taken == mc[base] # NoConfig /\ OwnedByOtherBackend(mc[base], b)
    IN /\ At(c, "idle")
       /\ rv < MaxWrites
       /\ call' = [call EXCEPT ![c] =
             [pc |-> "find", op |-> "ensure", inst |-> i, b |-> b, m |-> m, ep |-> ep,
              scope |-> "CreatedHere", name |-> IF taken THEN Suffix[base, b] ELSE base,
              old |-> NoConfig, oldName |-> NoName, legacy |-> FALSE, existing |-> NoConfig]]
       /\ UNCHANGED Store

(* plan's find: an owned ModelConfig keeps its name, unless the backend
   chose another one and this instance created the old. *)
EnsureFind(c) ==
    LET q == call[c]
        Replaces(n) == q.ep.name # NoName /\ n # q.name /\ CreatedHere(mc[n], q.inst)
        Found(n, legacy) ==
            [q EXCEPT !.pc = "existing",
                      !.old = IF legacy THEN Legacy[n] ELSE mc[n],
                      !.legacy = legacy,
                      !.oldName = IF ~legacy /\ Replaces(n) THEN n ELSE NoName,
                      !.name = IF ~legacy /\ Replaces(n) THEN q.name ELSE n]
    IN /\ At(c, "find") /\ q.op = "ensure"
       /\ \/ /\ Find(q.b, q.m) = {}
             /\ Goto(c, "existing")
          \/ \E f \in Find(q.b, q.m) : call' = [call EXCEPT ![c] = Found(f[1], f[2])]
       /\ UNCHANGED Store

(* plan's last read: a ModelConfig nobody here may write refuses the call. *)
EnsureExisting(c) ==
    LET q == call[c]
        obj == mc[q.name]
        writable == obj.managed /\ obj.creator \in {q.inst, NoInstance}
    IN /\ At(c, "existing")
       /\ IF obj = NoConfig \/ writable
          THEN call' = [call EXCEPT ![c] = [q EXCEPT !.pc = "check", !.existing = obj]]
          ELSE Finish(c)
       /\ UNCHANGED Store

(* Mutant: the older name is left behind. *)
MutEnsureCheck(c) ==
    /\ At(c, "check") /\ call[c].op = "ensure"
    /\ Goto(c, "secret")
    /\ UNCHANGED Store

(* refuseGitOps of what the plan writes over, replaces or moves. *)
EnsureCheck(c) ==
    LET q == call[c]
        refused == \/ Applying(q.existing, q.name, FALSE)
                   \/ q.oldName # NoName /\ Applying(q.old, q.oldName, FALSE)
                   \/ q.legacy /\ Applying(q.old, q.name, TRUE)
    IN /\ At(c, "check") /\ q.op = "ensure"
       /\ IF refused THEN Finish(c)
          ELSE Goto(c, IF q.oldName # NoName THEN "delete" ELSE "secret")
       /\ UNCHANGED Store

-----------------------------------------------------------------------------
(* removeObj: the ModelConfig by name, whatever bears it now, then its Secret *)

DeleteConfig(c) ==
    /\ At(c, "delete")
    /\ mc' = [mc EXCEPT ![call[c].oldName] = NoConfig]
    /\ Goto(c, "dropsecret")
    /\ UNCHANGED <<secret, listed, refs, rv>>

(* removePlaceholderSecret: only one model-manager created. *)
SecretDropped(n) == [secret EXCEPT ![n] = IF @ = "ours" THEN "none" ELSE @]

DropSecret(c) ==
    /\ At(c, "dropsecret")
    /\ secret' = SecretDropped(call[c].oldName)
    /\ IF call[c].op = "remove" THEN Finish(c) ELSE Goto(c, "secret")
    /\ UNCHANGED <<mc, listed, refs, rv>>

-----------------------------------------------------------------------------
(* Ensure: write *)

(* The Secret comes before the ModelConfig that reads it; an update to a
   shape that reads none drops it first. *)
EnsureSecret(c) ==
    LET q == call[c] IN
    /\ At(c, "secret")
    /\ secret' = IF q.ep.key THEN [secret EXCEPT ![q.name] = IF @ = "none" THEN "ours" ELSE @]
                 ELSE IF q.existing # NoConfig THEN SecretDropped(q.name)
                 ELSE secret
    /\ Goto(c, "write")
    /\ UNCHANGED <<mc, listed, refs, rv>>

(* build; plan takes the instance label off what it adopts. *)
Desired(q) ==
    [managed |-> TRUE, creator |-> IF q.existing = NoConfig THEN q.inst ELSE q.existing.creator,
     backend |-> q.b, model |-> q.m,
     flux |-> IF q.existing = NoConfig THEN FALSE ELSE q.existing.flux,
     key |-> q.ep.key, rv |-> rv + 1]

(* Mutant: the Update carries no resourceVersion. *)
MutAccepted(q) ==
    IF q.existing = NoConfig THEN mc[q.name] = NoConfig ELSE mc[q.name] # NoConfig

(* Create fails on a name taken; Update on another resourceVersion than the
   one the plan read, and on an object that is gone. *)
Accepted(q) ==
    IF q.existing = NoConfig THEN mc[q.name] = NoConfig
    ELSE mc[q.name] # NoConfig /\ mc[q.name].rv = q.existing.rv

EnsureWrite(c) ==
    LET q == call[c] IN
    /\ At(c, "write")
    /\ Finish(c)
    /\ \/ /\ Accepted(q)
          /\ mc' = [mc EXCEPT ![q.name] = Desired(q)]
          /\ rv' = rv + 1
       \/ /\ ~Accepted(q)
          /\ UNCHANGED <<mc, rv>>
    /\ UNCHANGED <<secret, listed, refs>>

-----------------------------------------------------------------------------
(* Remove *)

(* remove's find; nothing wired is nothing to do. *)
RemoveFind(c, i, b, m, scope) ==
    /\ At(c, "idle")
    /\ \/ /\ Find(b, m) = {}
          /\ UNCHANGED call
       \/ \E f \in Find(b, m) : call' = [call EXCEPT ![c] =
             [pc |-> "check", op |-> "remove", inst |-> i, b |-> b, m |-> m,
              ep |-> [name |-> NoName, key |-> FALSE], scope |-> scope, name |-> f[1],
              old |-> IF f[2] THEN Legacy[f[1]] ELSE mc[f[1]], oldName |-> f[1],
              legacy |-> f[2], existing |-> NoConfig]]
    /\ UNCHANGED Store

(* Mutant: an unwire deletes without asking who references it. *)
MutRemoveCheck(c) ==
    LET q == call[c]
        unclaimed == q.scope = "Unclaimed" /\ q.old.creator = NoInstance
    IN /\ At(c, "check") /\ q.op = "remove"
       /\ IF Applying(q.old, q.name, q.legacy) THEN Finish(c)
          ELSE IF CreatedHere(q.old, q.inst) \/ unclaimed THEN Goto(c, "delete")
          ELSE Finish(c)
       /\ UNCHANGED Store

(* refuseGitOps, then kept as far as it goes without asking who references it. *)
RemoveCheck(c) ==
    LET q == call[c]
        unclaimed == q.scope = "Unclaimed" /\ q.old.creator = NoInstance
    IN /\ At(c, "check") /\ q.op = "remove"
       /\ IF Applying(q.old, q.name, q.legacy) THEN Finish(c)
          ELSE IF CreatedHere(q.old, q.inst) THEN Goto(c, "delete")
          ELSE IF unclaimed THEN Goto(c, "refs")
          ELSE Finish(c)
       /\ UNCHANGED Store

(* kept's referrers. *)
RemoveRefs(c) ==
    /\ At(c, "refs")
    /\ IF call[c].name \in refs THEN Finish(c) ELSE Goto(c, "delete")
    /\ UNCHANGED Store

-----------------------------------------------------------------------------
(* Who else writes in the namespace *)

PeopleCreate(n, m) ==
    /\ "people" \in World /\ rv < MaxWrites
    /\ mc[n] = NoConfig
    /\ mc' = [mc EXCEPT ![n] = [managed |-> FALSE, creator |-> NoInstance, backend |-> NoBackend,
                                model |-> m, flux |-> FALSE, key |-> FALSE, rv |-> rv + 1]]
    /\ rv' = rv + 1
    /\ UNCHANGED <<secret, listed, refs, call>>

PeopleDelete(n) ==
    /\ "people" \in World
    /\ mc[n] # NoConfig
    /\ mc' = [mc EXCEPT ![n] = NoConfig]
    /\ UNCHANGED <<secret, listed, refs, rv, call>>

(* A Kustomization applies the manifest model-manager committed for n, or
   stops listing it and leaves it behind. *)
FluxApply(n) ==
    /\ "flux" \in World /\ rv < MaxWrites
    /\ mc[n] # NoConfig /\ n \notin listed
    /\ mc' = [mc EXCEPT ![n].flux = TRUE, ![n].rv = rv + 1]
    /\ rv' = rv + 1
    /\ listed' = listed \cup {n}
    /\ UNCHANGED <<secret, refs, call>>

FluxLeave(n) ==
    /\ "flux" \in World
    /\ n \in listed
    /\ listed' = listed \ {n}
    /\ UNCHANGED <<mc, secret, refs, rv, call>>

AgentRefers(n) ==
    /\ "agents" \in World
    /\ mc[n] # NoConfig
    /\ refs' = refs \cup {n}
    /\ UNCHANGED <<mc, secret, listed, rv, call>>

-----------------------------------------------------------------------------
Init ==
    /\ mc \in Seeds
    /\ secret = [n \in Name |-> IF mc[n] = NoConfig \/ ~mc[n].key THEN "none" ELSE "ours"]
    /\ listed = {n \in Name : mc[n] # NoConfig /\ mc[n].flux}
    /\ refs \in SUBSET {n \in Name : mc[n] # NoConfig}
    /\ rv = 0
    /\ call = [c \in Call |-> Idle]

Ensure(c) ==
    \/ \E i \in Instance, b \in Backend, m \in Model, ep \in Endpoint : EnsureStart(c, i, b, m, ep)
    \/ EnsureFind(c) \/ EnsureExisting(c) \/ EnsureCheck(c)
    \/ EnsureSecret(c) \/ EnsureWrite(c)

Remove(c) ==
    \/ \E i \in Instance, b \in Backend, m \in Model, s \in Scope : RemoveFind(c, i, b, m, s)
    \/ RemoveCheck(c) \/ RemoveRefs(c)

RemoveObj(c) == DeleteConfig(c) \/ DropSecret(c)

Others ==
    \E n \in Name :
        \/ \E m \in Model : PeopleCreate(n, m)
        \/ PeopleDelete(n)
        \/ FluxApply(n) \/ FluxLeave(n)
        \/ AgentRefers(n)

Next == Others \/ \E c \in Call : Ensure(c) \/ Remove(c) \/ RemoveObj(c) \/ Fail(c)

Spec == Init /\ [][Next]_vars

-----------------------------------------------------------------------------
(* Properties *)

TypeOK ==
    /\ mc \in [Name -> Config \cup {NoConfig}]
    /\ secret \in [Name -> {"none", "ours"}]
    /\ listed \subseteq Name
    /\ refs \subseteq Name
    /\ rv \in Nat
    /\ call \in [Call -> CallState]

(* A request step: some call moves on. *)
By(c) == call'[c] # call[c]
Gone(n) == mc[n] # NoConfig /\ mc'[n] = NoConfig
Rewritten(n) == mc[n] # NoConfig /\ mc'[n] # NoConfig /\ mc'[n] # mc[n]

(* "Another instance's ModelConfig is its own to write" (plan): whatever is
   deleted, re-created or adopted between an Ensure's reads and its Update, the
   Update lands on a managed ModelConfig its instance created or nobody
   claims, and an adopted one is never marked as created here. *)
WritesOnlyOwn ==
    [][\A c \in Call, n \in Name : By(c) /\ Rewritten(n) =>
          /\ mc[n].managed
          /\ mc[n].creator \in {call[c].inst, NoInstance}
          /\ mc'[n].creator = mc[n].creator]_vars

(* Who else acts in the namespace aside, a ModelConfig is deleted by its
   creator, or by an unwire when nobody claims and nothing references it,
   never while Flux applies it: however the calls of one instance overlap. *)
InScope ==
    \A c \in Call, n \in Name : By(c) /\ Gone(n) =>
          /\ mc[n].managed
          /\ ~Applying(mc[n], n, FALSE)
          /\ \/ mc[n].creator = call[c].inst
             \/ /\ mc[n].creator = NoInstance
                /\ call[c].scope = "Unclaimed"
                /\ n \notin refs

(* A ModelConfig is identified by (backend, model): repeated, renamed and
   replaced, wiring never leaves two for one. *)
OneConfigPerModel ==
    \A n1, n2 \in Name :
        /\ n1 # n2
        /\ mc[n1] # NoConfig /\ mc[n1].managed
        /\ mc[n2] # NoConfig /\ mc[n2].managed
        => <<mc[n1].backend, mc[n1].model>> # <<mc[n2].backend, mc[n2].model>>

Quiet == \A c \in Call : call[c] = Idle

(* Between calls, a placeholder Secret is there exactly for the ModelConfigs
   that read one: created before them, and removed with them or with their
   need for it. *)
SecretFollowsConfig ==
    Quiet => \A n \in Name :
        secret[n] = "ours" <=> mc[n] # NoConfig /\ mc[n].managed /\ mc[n].key

(* InstanceLabel's comment: only the instance that created a ModelConfig
   deletes it.  removeObj deletes by name what it decided on an earlier read. *)
OnlyCreatorDeletes ==
    [][\A c \in Call, n \in Name :
          By(c) /\ Gone(n) /\ mc[n].creator \in Instance =>
              mc[n].creator = call[c].inst]_vars

(* Wirer's comment: a ModelConfig is identified by its backend label and its
   model annotation; a call for one model changes no other model's. *)
OtherModelsStand ==
    [][\A c \in Call, n \in Name :
          By(c) /\ (Gone(n) \/ Rewritten(n)) => mc[n].model = call[c].m]_vars

(* docs/backends.md: the placeholder Secret is created and removed with the
   ModelConfig, so a ModelConfig that reads it finds it. *)
KeySecretStays ==
    Quiet => \A n \in Name :
        mc[n] # NoConfig /\ mc[n].managed /\ mc[n].key => secret[n] # "none"

=============================================================================
