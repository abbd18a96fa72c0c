----------------------------- MODULE HostModels -----------------------------
(***************************************************************************)
(* internal/service over the host drivers (backend/ollama, /lemonade,      *)
(* /lmstudio): load, unload, delete and wire on servers that load models   *)
(* by themselves, and the loop that brings their ModelConfigs to the       *)
(* configured agent settings.  One read or write of a host or of the       *)
(* cluster is one step; a request that times out is carried out anyway.    *)
(***************************************************************************)
EXTENDS Naturals, FiniteSets, FiniteSetsExt

CONSTANTS
    Host,      \* the registered backends, in the order 1, 2, ...
    Key,       \* names the hosts keep models under
    Alias,     \* other references that name one: no tag, another case
    KeyOf,     \* what an alias names
    Call,      \* requests the service answers
    Loop,      \* its reconcile loop
    MaxCalls, MaxEvents, MaxFaults, MaxLoads

Ref == Key \cup Alias
Actor == Call \cup {Loop}
Driver == {"ollama", "lemonade", "lmstudio"}
Window == {1, 2}      \* settings of the context window agents run at

ASSUME HostBounds == {MaxCalls, MaxEvents, MaxFaults, MaxLoads} \subseteq Nat
ASSUME HostOrder == IsFiniteSet(Host) /\ Host = 1..Cardinality(Host)
ASSUME AliasNames == KeyOf \in [Alias -> Key] /\ Alias \cap Key = {}

VARIABLES
    driver,    \* driver[h]
    library,   \* library[h]: the models downloaded
    resident,  \* resident[h]: instances in memory
    window,    \* the context window configured for this process
    config,    \* config[h][r]: the ModelConfig of model r on h
    act,       \* where each call, and the loop, is
    bounds     \* calls made, host events, reads that failed, loads

hostVars == <<driver, library, resident, window, config, act, bounds>>

(* Who created a ModelConfig, the window it has agents ask for (0: none), and
   whether Flux applies it from git. *)
Config == [by: {"none", "here", "other"}, window: Window \cup {0}, flux: BOOLEAN]
NoConfig == [by |-> "none", window |-> 0, flux |-> FALSE]
Instance == [key: Key, id: 1..MaxLoads]

Idle == [op |-> "none", pc |-> "idle", ref |-> "", host |-> 0, key |-> "",
         hits |-> {}, todo |-> {}, seen |-> {}]

HostTypeOK ==
    /\ driver \in [Host -> Driver]
    /\ library \in [Host -> SUBSET Key]
    /\ \A h \in Host : resident[h] \subseteq Instance
    /\ window \in Window
    /\ config \in [Host -> [Ref -> Config]]
    /\ \A a \in Actor : act[a].host \in Host \cup {0} /\ act[a].ref \in Ref \cup {""}

-----------------------------------------------------------------------------
Spend(what, n) == bounds[what] < n /\ bounds' = [bounds EXCEPT ![what] = @ + 1]
Keep == UNCHANGED <<driver, window>>
Goto(a, pc) == act' = [act EXCEPT ![a].pc = pc]
Finish(a) == act' = [act EXCEPT ![a] = Idle]
At(a, op, pc) == act[a].op = op /\ act[a].pc = pc

(* sameRef, EqualFold: the model a host finds under a reference. *)
Canonical(r) == IF r \in Alias THEN KeyOf[r] ELSE r
Holds(h, r) == Canonical(r) \in library[h]
InstancesOf(h, k) == {i \in resident[h] : i.key = k}

(* AgentEndpoint: only an Ollama ModelConfig carries a window (a model's own
   length, which may lower it, is left out). *)
EndpointWindow(h) == IF driver[h] = "ollama" THEN window ELSE 0

(* Ensure and Remove leave a ModelConfig of another creator, and refuse one
   that Flux applies. *)
Left(m) == m.by = "other" \/ m.flux

(* A read of a host fails now and then; one of them fails nothing else. *)
ReadFails(a) == Spend("faults", MaxFaults) /\ Finish(a) /\ UNCHANGED <<driver, library, resident, window, config>>

-----------------------------------------------------------------------------
(* resolve: the named host, or - one host per step - the only one that holds
   the model; one that fails to answer counts only when none does. *)
Begin(c, op) ==
    /\ act[c].pc = "idle" /\ Spend("calls", MaxCalls)
    /\ \E r \in Ref, h \in Host \cup {0} :
         act' = [act EXCEPT ![c] = [Idle EXCEPT !.op = op, !.pc = "resolve", !.ref = r,
                                                !.todo = IF h = 0 THEN Host ELSE {h}]]
    /\ Keep /\ UNCHANGED <<library, resident, config>>

Resolve(c) ==
    LET q == act[c]  h == Min(q.todo) IN
    /\ q.pc = "resolve" /\ q.todo # {}
    /\ \/ /\ act' = [act EXCEPT ![c].todo = @ \ {h},
                                ![c].hits = @ \cup IF Holds(h, q.ref) THEN {h} ELSE {}]
          /\ UNCHANGED bounds
       \/ act' = [act EXCEPT ![c].todo = @ \ {h}] /\ Spend("faults", MaxFaults)
    /\ Keep /\ UNCHANGED <<library, resident, config>>

Resolved(c) ==
    LET q == act[c] IN
    /\ q.pc = "resolve" /\ q.todo = {}
    /\ IF Cardinality(q.hits) = 1
       THEN LET h == Min(q.hits) IN
            act' = [act EXCEPT ![c].pc = "go", ![c].host = h, ![c].key = Canonical(q.ref), ![c].hits = {}]
       ELSE Finish(c)
    /\ Keep /\ UNCHANGED <<library, resident, config, bounds>>

-----------------------------------------------------------------------------
(* Load: the host loads the model, another time or not; LM Studio is asked
   first what is resident, and loads another instance when asked to. *)
LoadLook(c) ==
    LET q == act[c] IN
    /\ At(c, "load", "go") /\ driver[q.host] = "lmstudio"
    /\ Goto(c, IF InstancesOf(q.host, q.key) # {} THEN "wire" ELSE "send")
    /\ Keep /\ UNCHANGED <<library, resident, config, bounds>>

LoadSend(c) ==
    LET q == act[c]
        again == driver[q.host] # "lmstudio" /\ InstancesOf(q.host, q.key) # {}
    IN
    /\ \/ At(c, "load", "send")
       \/ At(c, "load", "go") /\ driver[q.host] # "lmstudio"
    /\ IF q.key \notin library[q.host] THEN Finish(c) /\ UNCHANGED <<resident, bounds>>
       ELSE /\ \/ Goto(c, "wire")
               \/ Finish(c)       \* the load outlived the caller's deadline
            /\ IF again THEN UNCHANGED <<resident, bounds>>
               ELSE /\ Spend("loads", MaxLoads)
                    /\ resident' = [resident EXCEPT ![q.host] = @ \cup {[key |-> q.key, id |-> bounds.loads + 1]}]
    /\ Keep /\ UNCHANGED <<library, config>>

(* endpointFor: the canonical name, or the caller's when the read fails. *)
WireLook(a) ==
    LET q == act[a] IN
    /\ q.pc = "wire"
    /\ \/ act' = [act EXCEPT ![a].pc = "ensure", ![a].key = IF Holds(q.host, @) THEN Canonical(@) ELSE @]
          /\ UNCHANGED bounds
       \/ Spend("faults", MaxFaults) /\ Goto(a, "ensure")
    /\ Keep /\ UNCHANGED <<library, resident, config>>

WireEnsure(a) ==
    LET q == act[a] IN
    /\ q.pc = "ensure"
    /\ \/ /\ config' = IF Left(config[q.host][q.key]) THEN config
                       ELSE [config EXCEPT ![q.host][q.key] =
                               [by |-> "here", window |-> EndpointWindow(q.host), flux |-> FALSE]]
          /\ UNCHANGED bounds
       \/ Spend("faults", MaxFaults) /\ UNCHANGED config
    /\ act' = [act EXCEPT ![a] = IF a = Loop THEN [q EXCEPT !.pc = "item", !.key = ""] ELSE Idle]
    /\ Keep /\ UNCHANGED <<library, resident>>

Wire(c) ==
    /\ At(c, "wire", "go") /\ Goto(c, "wire")
    /\ Keep /\ UNCHANGED <<library, resident, config, bounds>>

(* A pull's job wires what it pulled by the reference it was given. *)
PullWires(c) ==
    /\ act[c].pc = "idle" /\ Spend("calls", MaxCalls)
    /\ \E h \in Host, r \in Ref :
         /\ Canonical(r) \notin library[h]
         /\ library' = [library EXCEPT ![h] = @ \cup {Canonical(r)}]
         /\ act' = [act EXCEPT ![c] = [Idle EXCEPT !.op = "wire", !.pc = "wire", !.host = h, !.key = r]]
    /\ Keep /\ UNCHANGED <<resident, config>>

-----------------------------------------------------------------------------
(* Unload: Ollama and Lemonade evict the model; of LM Studio every instance
   it lists is evicted by its id, one request each. *)
UnloadModel(c) ==
    LET q == act[c] IN
    /\ At(c, "unload", "go") /\ driver[q.host] # "lmstudio"
    /\ IF driver[q.host] = "ollama" /\ q.key \notin library[q.host]
       THEN Finish(c) /\ UNCHANGED resident
       ELSE /\ resident' = [resident EXCEPT ![q.host] = @ \ InstancesOf(q.host, q.key)]
            /\ act' = [act EXCEPT ![c].pc = "ok", ![c].seen = InstancesOf(q.host, q.key)]
    /\ Keep /\ UNCHANGED <<library, config, bounds>>

UnloadLook(c) ==
    LET q == act[c] IN
    /\ At(c, "unload", "go") /\ driver[q.host] = "lmstudio"
    /\ act' = [act EXCEPT ![c].pc = "evict", ![c].seen = InstancesOf(q.host, q.key),
                          ![c].todo = InstancesOf(q.host, q.key)]
    /\ Keep /\ UNCHANGED <<library, resident, config, bounds>>

(* Mutant: an instance the host evicted itself ends the eviction. *)
MutUnloadEach(c) ==
    LET q == act[c] IN
    /\ At(c, "unload", "evict") /\ q.todo # {}
    /\ \E i \in q.todo :
         /\ resident' = [resident EXCEPT ![q.host] = @ \ {i}]
         /\ act' = [act EXCEPT ![c].todo = IF i \in resident[q.host] THEN @ \ {i} ELSE {}]
    /\ Keep /\ UNCHANGED <<library, config, bounds>>

(* One the host evicted itself meanwhile counts as evicted. *)
UnloadEach(c) ==
    LET q == act[c] IN
    /\ At(c, "unload", "evict") /\ q.todo # {}
    /\ \E i \in q.todo :
         /\ resident' = [resident EXCEPT ![q.host] = @ \ {i}]
         /\ act' = [act EXCEPT ![c].todo = @ \ {i}]
    /\ Keep /\ UNCHANGED <<library, config, bounds>>

UnloadFails(c) == act[c].op = "unload" /\ act[c].pc \in {"go", "evict"} /\ ReadFails(c)

UnloadDone(c) ==
    /\ At(c, "unload", "evict") /\ act[c].todo = {} /\ Goto(c, "ok")
    /\ Keep /\ UNCHANGED <<library, resident, config, bounds>>

Answer(c) ==
    /\ act[c].pc = "ok" /\ Finish(c)
    /\ Keep /\ UNCHANGED <<library, resident, config, bounds>>

-----------------------------------------------------------------------------
(* Delete: the ModelConfig first, when asked to unwire; one that is left
   refuses.  LM Studio has no delete. *)
DeleteUnwire(c) ==
    LET q == act[c]  able == driver[q.host] # "lmstudio" IN
    /\ At(c, "delete", "go")
    /\ \/ ~able /\ Finish(c) /\ UNCHANGED config
       \/ able /\ Goto(c, "remove") /\ UNCHANGED config
       \/ able /\ Left(config[q.host][q.key]) /\ Finish(c) /\ UNCHANGED config
       \/ /\ able /\ ~Left(config[q.host][q.key]) /\ Goto(c, "remove")
          /\ config' = [config EXCEPT ![q.host][q.key] = NoConfig]
    /\ Keep /\ UNCHANGED <<library, resident, bounds>>

DeleteModel(c) ==
    LET q == act[c] IN
    /\ At(c, "delete", "remove")
    /\ library' = [library EXCEPT ![q.host] = @ \ {q.key}]
    /\ resident' = [resident EXCEPT ![q.host] = @ \ InstancesOf(q.host, q.key)]
    /\ Finish(c)
    /\ Keep /\ UNCHANGED <<config, bounds>>

-----------------------------------------------------------------------------
(* refreshModelConfigs: a pass over the hosts, and over the ModelConfigs of
   each as listed; those another instance created or Flux applies are passed
   by. *)
RefreshPass ==
    /\ act[Loop].pc = "idle"
    /\ act' = [act EXCEPT ![Loop] = [Idle EXCEPT !.op = "refresh", !.pc = "list", !.hits = Host]]
    /\ Keep /\ UNCHANGED <<library, resident, config, bounds>>

RefreshList ==
    LET q == act[Loop] IN
    /\ At(Loop, "refresh", "list")
    /\ IF q.hits = {} THEN Finish(Loop)
       ELSE LET h == Min(q.hits) IN
            act' = [act EXCEPT ![Loop] =
                      [q EXCEPT !.pc = "item", !.host = h, !.hits = @ \ {h},
                                !.todo = {<<r, config[h][r].window>> :
                                            r \in {s \in Ref : config[h][s].by = "here" /\ ~config[h][s].flux}}]]
    /\ Keep /\ UNCHANGED <<library, resident, config, bounds>>

(* Mutant: passes by what has a window already. *)
MutRefreshItem ==
    LET q == act[Loop] IN
    /\ At(Loop, "refresh", "item")
    /\ IF q.todo = {} THEN Goto(Loop, "list")
       ELSE \E item \in q.todo :
              act' = [act EXCEPT ![Loop].todo = @ \ {item},
                                 ![Loop].pc = IF item[2] # 0 THEN "item" ELSE "wire",
                                 ![Loop].key = IF item[2] # 0 THEN "" ELSE Canonical(item[1])]
    /\ Keep /\ UNCHANGED <<library, resident, config, bounds>>

(* One whose model is gone and one up to date are passed by; the model is
   wired under the name its host has for it. *)
RefreshItem ==
    LET q == act[Loop]
        Stale(item) == Holds(q.host, item[1]) /\ item[2] # EndpointWindow(q.host)
    IN
    /\ At(Loop, "refresh", "item")
    /\ IF q.todo = {} THEN Goto(Loop, "list")
       ELSE \E item \in q.todo :
              act' = [act EXCEPT ![Loop].todo = @ \ {item},
                                 ![Loop].pc = IF Stale(item) THEN "wire" ELSE "item",
                                 ![Loop].key = IF Stale(item) THEN Canonical(item[1]) ELSE ""]
    /\ Keep /\ UNCHANGED <<library, resident, config, bounds>>

(* The list, or the read of what a ModelConfig can carry, fails the host's
   turn; the read of a model passes that one by. *)
RefreshFails ==
    LET q == act[Loop] IN
    /\ \/ At(Loop, "refresh", "list") /\ q.hits # {}
          /\ act' = [act EXCEPT ![Loop].hits = @ \ {Min(q.hits)}]
       \/ At(Loop, "refresh", "item") /\ act' = [act EXCEPT ![Loop].pc = "list", ![Loop].todo = {}]
       \/ /\ At(Loop, "refresh", "item")
          /\ \E item \in q.todo : act' = [act EXCEPT ![Loop].todo = @ \ {item}]
    /\ Spend("faults", MaxFaults)
    /\ Keep /\ UNCHANGED <<library, resident, config>>

(* A restart brings the configured setting; calls and the pass are gone. *)
Restart ==
    /\ Spend("events", MaxEvents)
    /\ window' \in Window
    /\ act' = [a \in Actor |-> Idle]
    /\ UNCHANGED <<driver, library, resident, config>>

-----------------------------------------------------------------------------
(* The hosts: an agent's request loads a model, a timer or a slot evicts
   it; people load, remove and wire models as well. *)
OnDemand(h) ==
    /\ Spend("loads", MaxLoads)
    /\ \E k \in library[h] :
         /\ InstancesOf(h, k) = {} \/ driver[h] = "lmstudio"
         /\ resident' = [resident EXCEPT ![h] = @ \cup {[key |-> k, id |-> bounds.loads + 1]}]
    /\ Keep /\ UNCHANGED <<library, config, act>>

Evict(h) ==
    /\ Spend("events", MaxEvents)
    /\ \E i \in resident[h] : resident' = [resident EXCEPT ![h] = @ \ {i}]
    /\ Keep /\ UNCHANGED <<library, config, act>>

PeopleWire(h) ==
    /\ Spend("events", MaxEvents)
    /\ \E k \in Key : config[h][k].by = "none" /\ config' = [config EXCEPT ![h][k].by = "other"]
    /\ Keep /\ UNCHANGED <<library, resident, act>>

(* A ModelConfig written here is put into git, as it is, and Flux applies it
   from there. *)
FluxTakes(h) ==
    /\ \E r \in Ref : /\ config[h][r].by = "here" /\ ~config[h][r].flux
                     /\ config' = [config EXCEPT ![h][r].flux = TRUE]
    /\ Keep /\ UNCHANGED <<library, resident, act, bounds>>

-----------------------------------------------------------------------------
HostInit ==
    /\ driver \in [Host -> Driver]
    /\ library \in [Host -> SUBSET Key]
    /\ resident = [h \in Host |-> {}]
    /\ window = 1
    /\ config = [h \in Host |-> [r \in Ref |-> NoConfig]]
    /\ act = [a \in Actor |-> Idle]
    /\ bounds = [calls |-> 0, events |-> 0, faults |-> 0, loads |-> 0]

Load(c) == LoadLook(c) \/ LoadSend(c)
Unload(c) == UnloadModel(c) \/ UnloadLook(c) \/ UnloadEach(c) \/ UnloadFails(c) \/ UnloadDone(c) \/ Answer(c)
Delete(c) == DeleteUnwire(c) \/ DeleteModel(c)
Refresh == RefreshPass \/ RefreshList \/ RefreshItem \/ WireLook(Loop) \/ WireEnsure(Loop)

HostNext ==
    \/ \E c \in Call, op \in {"load", "unload", "delete", "wire"} : Begin(c, op)
    \/ \E c \in Call : \/ Resolve(c) \/ Resolved(c) \/ Load(c) \/ Unload(c) \/ Delete(c) \/ Wire(c)
                       \/ PullWires(c) \/ WireLook(c) \/ WireEnsure(c)
    \/ Refresh \/ RefreshFails \/ Restart
    \/ \E h \in Host : OnDemand(h) \/ Evict(h) \/ PeopleWire(h) \/ FluxTakes(h)

HostSpec == HostInit /\ [][HostNext]_hostVars

(* Run's ticker goes on, and every call it makes ends. *)
HostFairSpec == HostSpec /\ WF_hostVars(Refresh)

-----------------------------------------------------------------------------
(* An unload that succeeded evicted every instance the host held of the
   model when it was asked, also those of LM Studio that an agent's request,
   another unload or the host itself added or took meanwhile
   (lmstudio/backend.go, Unload). *)
UnloadEvicts ==
    \A c \in Call : act[c].pc = "ok" => act[c].seen \cap resident[act[c].host] = {}

(* A changed setting reaches the agents of a model wired here: the loop brings
   the ModelConfig that bears the model's own name, on a host whose endpoint
   carries the setting and unless Flux applies it, to the setting, while the
   host has the model and once calls and restarts end (service.go,
   refreshModelConfigs). *)
SettingReaches ==
    <>[](\A h \in Host, k \in Key :
            config[h][k].by = "here" /\ ~config[h][k].flux /\ k \in library[h]
            => config[h][k].window = EndpointWindow(h))

(* The same of every ModelConfig model-manager owns, also one written under
   another reference to the model (service.go:1442). *)
SettingReachesEach ==
    <>[](\A h \in Host, r \in Ref :
            config[h][r].by = "here" /\ ~config[h][r].flux /\ Holds(h, r)
            => config[h][r].window = EndpointWindow(h))

(* However a model was named, it has one ModelConfig of this instance on a
   host (service.go:1565, "end up in one ModelConfig"). *)
OneConfigPerName ==
    \A h \in Host, r \in Alias :
        ~(config[h][r].by = "here" /\ config[h][KeyOf[r]].by = "here")

(* A model model-manager alone loads has one instance (lmstudio/backend.go,
   Load: "Loading a model that is already resident is a no-op"). *)
OneInstance == \A h \in Host, k \in Key : Cardinality(InstancesOf(h, k)) <= 1
=============================================================================
