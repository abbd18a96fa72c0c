# model-manager in TLA+

model-manager is one Go process that lists, downloads, serves and wires models
on several backends (host servers reached over HTTP, and KServe clusters), and
keeps a kagent `ModelConfig` for every model an agent may use.  This directory
holds its TLA+ specifications, the TLC configurations that check them on small
instances, and TLAPS proofs for every value of the constants.

Run `tlc -config MCx_y.cfg MCx` for a model check and `tlapm X_proofs.tla` for
the proofs.  `PROJECT.json` lists the runs, the theorems, the hazards and, under
`map`, the source lines of every definition.

## 1. Inventory of the system

| Component | Source | State it keeps | Operations | What is hard |
|---|---|---|---|---|
| Job manager | `internal/jobs/manager.go` | the in-memory table of jobs, one goroutine and context per active one | Start (joins an active job of its key), List, Get, Cancel, Await, report, pruning | concurrent starts, cancel against end, prune against reader, progress of retries |
| Service | `internal/service/service.go` | backends and load problems under one mutex; nothing about models | Pull, Load, Unload, Wire, Unwire, the reads (which wire), the reconciler `Run`, load and pull jobs | many actors write one ModelConfig after reads that have aged; restart in a cold start |
| Plans and commits | `service/plan.go`, `service/write.go` | none | dry runs, pull requests from the writes of a call | agreement with the writes |
| kagent wirer | `internal/wiring/kagent.go`, `schema.go` | ModelConfigs and Secrets in the API server; the discovered API version | Ensure, Remove, Render, Removal, List | several instances, Flux and people write the same names; no transaction across objects |
| Backend registry | `internal/registry/registry.go`, `service.go` | which ConfigMap registered which backend; the Service's two maps | informer handlers, WaitFor, Apply, Delete | watch breaks, restarts, lagging delivery, readers in between |
| Backend tools | `internal/api/mcp_backends.go` | none | add_backend, remove_backend (plan, list, unwire each, delete) | four-step removal against wirings and writers |
| Backend documents | `backend/document.go`, `backend/registry.go` | none | schema check, build | data rules |
| kserve: serving | `kserve/backend.go`, `served.go`, `webhook.go`, `llmisvc.go` | the cluster's LLMInferenceServices | Serve, Stop, ListLoaded, WaitReady | finalizers, several presets of one model, webhook retries |
| kserve: cache inventory | `kserve/inventory.go`, `scangate.go` | last scan per node, scans under way | snapshot, refresh, invalidate, the gate of background scans | sharing a scan, change during a scan, failing scans, deadlines |
| kserve: downloads | `kserve/jobs.go` | Kubernetes Jobs in the cluster | Pull, watch, cancel, adoption after a restart | restart, cancel, stuck pods, two pulls of one directory |
| kserve: cache index | `kserve/index.go` | a ConfigMap and its cached copy | record, forget | optimistic concurrency |
| kserve: first answer | `kserve/answer.go`, `interfaces.go` | one asked question per object | ask, gate of Ready | goroutines that outlive the read, replaced objects |
| kserve: LLM endpoint objects | `kserve/gatewaymodel.go` | fingerprint of the last sync | sync on every list | skip against outside deletes |
| kserve: phases, launch | `kserve/phases.go`, `launch.go` | none | phase and steps from object, pods, events | many partial inputs |
| kserve: fit, placement | `kserve/fit.go`, `placement.go`, `poolfit.go`, `shape.go`, `copies.go` | none; the objects it shaped | what fits where and in which shape; copies, splits | rounding, verdicts on what earlier loads left, an object that grows on nodes it was not composed for |
| kserve: KV cache, compute, requests | `kserve/kvcache.go`, `compute.go`, `nodes.go`, `requests.go` | none | further conditions of a verdict | missing facts |
| kserve: configuration | `kserve/config.go`, `presets.go`, `catalog.go`, ... | cached platform documents | read, parse, complete | staleness |
| Host drivers | `backend/ollama`, `lemonade`, `lmstudio` | none (the server's) | list, pull, load, unload over HTTP | the server changes by itself |
| GitOps commit | `internal/gitops` | branches and pull requests at the host | commit, open, find owner | retries, an existing branch |
| Kubernetes clients | `internal/kube` | cache of per-caller clients | get, evict | eviction and expiry |
| Surfaces | `internal/server`, `api`, `identity` | OAuth sessions (library) | HTTP, MCP | translation only |
| Cache agent | `internal/cacheagent` | none | read-only HTTP over the cache | - |
| Process | `cmd` | flags | start order, shutdown | a restart is an action of the modelled components |

How they interact: a tool or HTTP call goes to the **Service**, which asks the
**backend** (a driver) for objects and models and the **wirer** for
ModelConfigs; slow work runs as a **job** whose RunFunc calls back into the
Service.  The **registry** delivers backend documents to the Service from an
informer goroutine; the **backend tools** write those documents and then wait
for the delivery.  The reconciler and every read of the loaded models also
write: they wire what is served and not wired.

What makes each correct, in one sentence:

* job manager: one active job per key, no job lost by pruning, an end is final
  and seen by whoever awaited it, cancelled jobs release their waiters;
* wirer: writes and deletes touch only what the instance may touch, one
  ModelConfig per (backend, model), Secrets follow their ModelConfigs;
* service: no ModelConfig outlives what it points at, what stays ready is wired
  in the end, a call takes away only what it is about;
* registry: the backends and reports held are those of the delivered documents,
  static backends stand, everything delivered in the end;
* backend tools: a removal leaves nothing behind that it promised to remove,
  and documents are changed only through the store;
* inventory: one scan per node at a time, a change is seen by the next read, a
  failed scan costs no entry;
* downloads: a directory is written by one Job, a restart loses no download;
* placement: a host keeps its headroom and a device one user, what is served
  keeps its nodes.

## 2. Modules and plan

Written, in this order (most important behaviour first):

1. `JobManager` (component), `JobLifecycle` (what a job promises its users, the
   abstract specification), `JobManager_proofs`.
2. `Wiring` (component), `Wiring_proofs`.
3. `Serving` (composition: Service + kserve objects + the jobs of
   `JobLifecycle`, with a wiring abstracted to its two effects), `Serving_proofs`.
4. `Registry` (component).
5. `BackendTools` (composition over `Registry`), `BackendTools_proofs` (both).
6. `Inventory` (component).
7. `Downloads` (component).
8. `Fit` (the fit check as operators), `Placement` (composition: `Fit` with the
   loads and the cluster around them), `Placement_proofs`.
9. `Sizing` (over `Fit`: KV cache, GPU generation and CPU of a verdict, and the
   reads they rest on).
10. `CacheIndex`, `FirstAnswer`, `GatewayModels` (what a
    list of the served models does besides listing).
11. `NodeClaims` (the cache claims of the nodes, through pull, load and delete),
    `Caches_proofs` (about `Inventory` and `NodeClaims`).
12. `Settings` (the shared settings and the loads and lists that use them).
13. `Phases`, `Launch` (what a list shows of a serve under way).
14. `HostModels`, `HostPull` (the service over the host drivers),
    `IndexHosts_proofs` (about `CacheIndex` and `HostModels`).
15. `GitopsCommit` (the commit mode, with Flux and the pull requests),
    `Outside_proofs` (about `Downloads`, `GitopsCommit`, `Settings`, `Phases`,
    `Launch`).

Components that share no state share an MC module, which picks the one a
behaviour runs with a variable `part` (`scene` in `MCHosts`): `MCCaches`
(`Inventory`, `NodeClaims`), `MCPulls` (`Sizing`, `Downloads`), `MCTold`
(`Settings`, `Phases`, `Launch`), `MCReads` (`CacheIndex`, `FirstAnswer`,
`GatewayModels`), `MCHosts` (`HostModels`, `HostPull`).  The parts that do not
run rest in one of their initial states, so that their states add up and do not
multiply.  In `MCWiring`, `MCServing` and `MCBackendTools` the parts are scenarios
of one component, with bounds of their own.

What is left, in this order:

* `kube/client.go`: the clients kept per caller token, their expiry, and a call
  that still uses one that was dropped.
* The wirer's rediscovery of the API version (`kagent.go`) while an operator
  upgrades kagent under it.
* The composition of `Downloads` with `JobManager`: today the restart, the
  cancel and the joining of pulls are repeated in `Downloads`.
* A composition of `CacheIndex` with `NodeClaims`: which entry a delete forgets
  when the model lies on several nodes.
* Abstract specifications: the cache index as a set of facts that change at
  once, the commit as one write of all its files, with the refinements checked.

Every invariant and every action property of the passing runs is proved.  Theorems worth
proving next come with the modules above: the two refinements of the last item.

## 3. What is modelled, module by module

### JobManager, JobLifecycle

Every critical section of `Manager.mu` is one action: `StartNew`/`StartJoined`,
`List` (both prune first, as `pruneLocked` does), `RunBegin`, `Report`,
`RunEnd`.  Between them, outside the lock: the RunFunc returns (`Return`, any
outcome at any time), `run` closes the channel (`RunExit`), `Cancel` calls the
context's cancel, `Await` waits and then reads.  `table` is `Manager.jobs`,
`job[id]` the `Job`, `worker[id]` where its goroutine is, `cancelled` the
contexts cancelled, `caller[c]` a Cancel or Await under way.  `sort.Slice` is
not stable, so pruning chooses freely among jobs that ended together.  Job ids
are random and never handed out twice.  Percentages are integers.

`JobLifecycle` says what users rely on: absent, pending, running, one end,
gone, never two active jobs of a key.  `LifecycleSpec` (run `jobs`) and
`TableImplementsLifecycle` (theorem) show that the table implements it, and
`Serving` uses it in the table's place.

### Wiring

`mc[n]` is the ModelConfig named n with the labels and the annotation the code
decides by, `secret[n]` the placeholder Secret, `rv` the last resourceVersion.
An Ensure is find, existing, check, (delete, dropsecret), secret, write; a
Remove is find, check, (refs), delete, dropsecret: each a request, with anybody
else's writes between.  `Fail` ends a call at any request.  People, Flux and
Agents are actors of the namespace.  `DeleteConfig` deletes by name, as the code
does.  The Get and the Create or Delete of a Secret are one step.  The kagent.dev
ModelConfigs of Flux are constants (`Legacy`); their group is never written.

### Serving

One model of a serve-lifecycle backend with one or more presets.  `obj[p]` is
the LLMInferenceService of preset p, `mc` the preset the model's own ModelConfig
names, `portal` a foreign ModelConfig.  Load, Unload (by preset or by model),
Unwire, the reading list, the reconciler and the load job are broken where the
code makes a request whose answer it uses later.  An Ensure, and a Remove, is
one step here (Wiring has their inside), auto-wiring is on.  A restart ends all
jobs and calls.

### Registry

A ConfigMap stands for one name.  `doc`/`rv` is the API server, `events[n]` what
the informer has still to deliver, `backends` and `problems` the Service's maps,
`names` what the registry remembers.  A delivery is one step: its writes are
critical sections, and `RegisterBackend` clears the problem in the same section
that registers.  A broken watch (`Relist`) coalesces what is pending to the
present document.  A restart starts from the flags and a list.

### BackendTools

Extends Registry with `add_backend` (get, create or update with the
resourceVersion read, wait), `remove_backend` (plan, list, one Remove a model,
delete), `wire_model` and `unwire_model`.  `mc[n][m]` says who may remove the
ModelConfig.  WaitFor's timeout is an answer at any moment.

### Inventory

`disk[n]` counts the changes made to the cache of node n and stands for what
the directory holds; a scan shows the count it found.  `snaps` and `inflight`
are the inventory's maps; `actor[a]` is where a call (`Reader`) or a goroutine
of `refresh` (`Refresher`, a set that bounds how many run) is in
`cacheSnapshotFor` and `snapshot`.  Every critical section of `inventory.mu` is
one step; the scan runs outside it, reads the directory at one moment and may
fail at any.  `ttl` 0 is the scan a launch under way forces.  `change` holds
the deletes and downloads that changed a cache and have yet to call
`invalidate`, `told[n]` the last change a reader may count on; `Strict` decides
whether a change announced during a scan counts too (the code does not promise
those to the next reader, its comment does).  A call that starts forgets its
own last answer, so `NeverGoesBack` compares with the other readers' and with
what is cached.  The node a pod really ran on (`snapshot.Node`) is left out.

### Downloads

One cache directory and the references (`Ref`) whose pulls end up in it: a
preset name, the repository it serves, a revision.  The job manager joins pulls
of one reference, the cluster has one Job a directory, so pulls of different
references meet in the Job.  `kjob` is the Job that bears the directory's name
(its phase, whose reference its annotation names, whether it is being deleted),
`pull[r]` where the RunFunc of the pull of r is, `files` whether the directory
has any file, `filled` whether a download has completed since it was last
emptied, `stale` whether a cached scan still shows files that were removed.  Every request to the API server is
a step: the fit's look at the cache, `ensureJob`'s Get, Delete, wait and Create,
each look of `watchJob`, the Delete of a stuck or cancelled download.  A DELETE
with background propagation may leave the object for a while.  `RequestFails`
is any of these that fails (a cancelled context fails them too), and a Create
whose answer is lost.  `Delete` and `Invalidate` are `delete_model`, which
removes the directory first and says so afterwards.  A restart begins with
`AdoptList` (`runningDownloads`) and `AdoptStart` (`adoptPulls`), between which
calls may start pulls of their own, because `Run` is a goroutine beside the
server; with `--caller-only` there is no adoption, and `NoUnattendedDownload`
is about processes that adopt.  `pull[r].done` and `left` are history: whether
a download has completed since the pull began, and how the Job that runs lost the
last pull that attended it, while nobody does.  The two reasons
`NoUnattendedDownload` excepts are a request that failed and an adopted pull that
took partial files for the model (`LetGo`); any other step that leaves a running
Job alone violates it, and a pull that attends the Job again ends the exception,
whatever failed before.  `RestartLosesNoDownload` takes the second exception
back, and the run `downloads_adopt` refutes it.  Nothing is
served here, so the cache index has no record; progress, pods and events are
left out, and a pull that failed and one that was cancelled end alike.

### Fit, Placement

`Fit` has one operator for each function a verdict goes through: `DevicesOn`,
`Utilization` (`unifiedClaimOn` with `sized`), `PresetShare`, `JudgeNode`,
`ChooseNode`, `Candidates`, `LaunchingPools`, `PlaceOnPool`, `PlaceModel`,
`JudgeCopies`, `JudgeSplit`.  What a tie leaves to an order of names or of
iteration is a set of answers.  Left out: KV cache, GPU generation, CPU and
memory requests, cache claims and the preset's own node selector, each of which
only refuses more; CPU presets; bare model references (never served); the host
that the hub names as gated.  Memory is in one unit and a utilization in
hundredths, as `sized` makes it.

In `Placement` a load is three steps.  `Judge` is the fit check on the cluster
as it is (`Seen` is what `reservedByNode`, `withTaken` and `nodes` make of it),
for the weights the hub names or, when it does not answer, those the preset
declares.  `Look` reads the preset's object and decides between nothing to do,
a conflict, copies to add and a new object.  `Create` and `AddCopies` write;
the API server refuses a name that exists and a version that is not the one
read.  `obj[p]` is the LLMInferenceService: its pin, its pool, the nodes its
annotation records, its devices and utilization.  `pods[p]` is where its pods
run: `Bind` is a scheduler that honours pins, selectors and devices, `Evict`,
`NodeMoves` and `NodeReady` are the rest of the cluster, `Gone` the end of a
finalizer.  `judged` is history: the utilization p was judged at on a node.
`calm` tells the behaviours in which loads come one at a time, with the pods of
what is served bound before the next, from those in which anything overlaps:
two loads that judge the same free memory both fit, which no document denies,
so the two properties about capacity are about calm behaviours and
`ServedNodesStay` is about all of them.

Where the code and a comment differ and no run asks: `judgeNode` holds a node's
free devices against the devices of the preset's reference shape, not of the
shape derived for the node (hence the condition on `obj[p].devices` in
`DevicesKept`); `judgeSplit` looks at no devices in use; a running model counts
with the weights its preset declares, the one being placed with the hub's.

### Sizing

Extends `Fit`.  A checkpoint is what its `config.json` says: its layers a
sequence of kinds, its heads, windows and quantised groups; `KvLayers`, `Blocks`,
`Need`, `Longest`, `JudgeKV` are `kvcache.go`, `Precise`, `Capability`,
`Generation` are `compute.go`, `HasRoom` is `requests.go`, `ShapeOn` and
`SizedOn` are `shape.go`, `JudgePool` is `poolfit.go`.  A check is `plan`: it
asks for the weights (`SizeHub`, or `SizeImage` with the `images` remembered),
then the KV cache, then the generation, then judges (`JudgeFit`); every read may
fail.
`StartsThere`, `AdviceIsExact` and `RefusedForCause` compare the answer with
`Admits`, `LayerHolds` and `Needs`, which count a sequence layer by layer
instead of by groups, and count lengths down instead of halving.  The memory of
the two is in the same units, a KV element in whole bytes.

### CacheIndex, FirstAnswer, GatewayModels

`CacheIndex`: `stored` is the ConfigMap, `copy` the driver's copy with its TTL,
`call[c]` a list that records, an unload or a delete that forgets, each request
a step; the resourceVersion is whether somebody wrote since the read
(`current`).  Objects are created, deleted by calls or by hand, the cache moves
to another volume, the ConfigMap is wiped.

`FirstAnswer`: one serving object that goes in and out of Ready (`turn` counts
the transitions).  A list consults `apiCache` and the standing failure, sends a
request unless one is in flight or the transition has its answer (`ask`), waits
for it or gives up, and stores what it read.  `sent` keeps every request,
because it outlives the list; its outcome is answered, failed or nothing within
`answerTimeout`.

`GatewayModels`: two `AgentgatewayModel`s a model, as `gatewaymodel.go` writes
them, in its order; `gwFingerprint`, `gwOnEndpoint` and `gwFresh` are what the
driver remembers between lists.  A list has its `view` of what is served, which
ages while it works; an unload deletes the serving object and then drops the
two.  Iteration over a Go map is a free choice of the next name.

### NodeClaims

One model and the claims that may hold it: the cache claim (`base`: bound or
not, to which nodes) and the node claims `own[n]`.  A pull, a load (one node,
copies or a split) and a delete each read the claims, then each node's scan,
then act; `snap[n]` is a scan that stands, a later one is a step of its own.
`served` has the pods with the claims they name, because the copies of a model
share one pod template.  Unbound claims bind to the node of their first pod.
Loads of the model overlap: the service writes the object before it starts the
load's job, and only a job is one of its key.  `raced`, `located` and `unknown`
are history: whether a delete past its check overlapped, whether the calls that
placed the object and its copies read the claim bound, which scans were not there
to ask.  A load that read the claim before it was bound may still add copies to an
object that an unload and another load have put in the place of the one it saw:
those are outside `MountsReach`, and `CopiesReach` (section 4) shows them.

### Settings

`platform` is what the cluster says of its serving slice, which installs in
steps; `cached` with `age` the settings shared by every caller; `resolve` the
one refresh under way, which reads the four sources one by one with the
credentials of the call that needs it; `call[c]` a load, which uses the settings
up to four times (`Told`), or a list, which is told whether anything of the slice
is missing: the document, its pool, the API or the control plane (`Info`).
`ready` is history: for how long the slice was complete when the call began.

### Phases, Launch

`Phases` computes the steps of `phases.go` (`schedule`, `download`, `pullImage`,
`load`, `finish`) from one pod, its Events, its claim and its node; a list reads
the object, then the pod, then shows what the reads of the rest let it
(`Reads`).  The cluster around it creates, nominates, binds, starts, crashes and
forgets in the orders Kubernetes and Karpenter allow.  A runtime is refused its
image or its container the first time or after it died (`PullTrouble`), which
`pull` looks at before the crash, and one that was created may be backed off from
without ever running (`RunTrouble`).

`Launch` is what `launch.go` makes of refused launches: the claims Karpenter
nominates one after the other for the pod, each refused with the fleet's answer of
that moment, those of other pods of the pool, and the events that stay when a claim
is gone and go after an hour.  An answer has an error for each size and zone: a
lack of capacity, which names them, the quota, or another code, which name nothing;
Karpenter's message holds all of it or is cut to one error.  Between claims the cloud
gains and loses capacity, quota and other causes; the pool stays as it is.  A list
reads the claim (`ReadClaim`), and later the events, the pool, its class and the
cache claim, each of which may fail (`LaunchReads`); `standing` are the refusals it
then goes by.  `when`, the cloud that gave an answer, is history.  `RefusalIsTrue`
leaves out one thing, by `Telling`: a cut message whose quota or other error is lost
lets `capacity` lay every size on capacity, as the comment at `launch.go:404-408`
says it does.

### HostModels, HostPull

`HostModels` has one to three hosts, each of one driver.  `library[h]` and
`resident[h]` are the host's own state, which agents, timers and people change
too.  A load, unload, delete or wire resolves its host (one host a step), then
makes the driver's requests one a step: LM Studio looks before it loads and
unloads instance by instance, Ollama and Lemonade do neither.  The `Loop` is
`refreshModelConfigs`; it passes by what another instance created or Flux applies
(`Left`), and a failed read ends the host's turn or skips the item
(`RefreshFails`).  A ModelConfig is who created it, the context window it carries and
whether people have put it into git (`FluxTakes`); only Ollama's endpoint has a window
(`EndpointWindow`), and the cap by the model's own length is left out.  `Ensure` is
one step (Wiring has its inside), and fails on what is left.  `SettingReaches` is
about the ModelConfig under the name the host has for a model: the loop wires that
one, also for a ModelConfig listed under an alias, which keeps the old setting
(`SettingReachesEach`, section 4).

`HostPull` is the job of a pull on a host: a stream read to its end (Ollama,
Lemonade) or a download job that is polled (LM Studio), then the wiring under
the name the host answers to.

### GitopsCommit

One serving object on its own or a remote cluster, its ModelConfig, and two
Kustomizations over one or two repositories.  `Locate` is the lookup of where a
part's files go (explicit target, owner, namespace, a release's remote
Kustomization), `Builds` what a plan is refused for, `PlanPart` and
`OpenRequests` are `Commit`.  A commit waits for every part before it opens
anything; a pull request is merged or closed by people at any time and Flux
applies what is merged, or fails a build with one object in two files.  Beside
the commits: apply mode with its refusal of what Flux applies, dry runs,
Kustomizations that are deleted with or without pruning.  The labels of objects
on the own cluster are taken to be truthful (Flux writes them).

## 4. Runs

All bounds are constants of the configurations.  The passing runs:

| Run | Shows |
|---|---|
| `jobs` (`MCJobManager_jobs.cfg`) | Starts, reports, ends, cancels, waits and prunes of two jobs of one key in every order, with the clock passing the retention and more finished jobs than the cap: the dedupe holds and no running job is lost to pruning. With fair goroutines the table implements JobLifecycle and whoever awaits a cancelled job is released. Checks `OneActivePerKey`, `NoJobLost`, `LifecycleSpec`, `CancelledJobsRelease`. |
| `wiring` (`MCWiring_wiring.cfg`) | Three parts. Two instances on one backend with people, Flux and Agents writing the same names between any two requests: an Ensure writes only what is its own. Overlapping calls of one instance, any of whose requests may fail: nothing is deleted that is not its to delete. Calls on two backends, one after the other, whatever bears the names, ModelConfigs without a backend label among them: one ModelConfig per (backend, model), with its placeholder Secret exactly where it reads one. Checks `OneConfigWithItsSecret`, `WritesOnlyOwn`, `DeletesInScope`. |
| `serving` (`MCServing_serving.cfg`) | Three parts, beside the load jobs and a finalizing cluster. Four calls on a model of two presets, one after the other: no ModelConfig stays that names nothing. Two calls with a restart or a failed request, with the reconciler or with callers that keep reading: what stays ready is wired in the end. Checks `NoDanglingInTurn`, `ReadyGetsWired`. |
| `tools` (`MCBackendTools_tools.cfg`) | One caller adds, removes, wires and unwires while others write documents, the watch breaks and the process restarts: the service holds what the delivered documents say, never reports what it has registered, gets there in the end, and a removal leaves nothing but other instances' ModelConfigs. Checks `NeverBoth`, `InStep`, `RemovalLeavesNothing`, `Converges`. |
| `caches` (`MCCaches_caches.cfg`) | Three parts. Two readers and a background refresh of one node while its cache changes, scans fail and snapshots are invalidated: one scan at a time, nobody is shown an older cache than somebody before, an announced change is seen by the next read. Pulls, loads and deletes of a model whose cache claim is pinned, shared or not bound yet, two at a time, over node claims that are removed by hand, and two at a time with a split over three nodes: every pod that a call placed with the claim bound mounts the claim of its node, a split starts on weights, a pull leaves them where its node reads. Checks `OneScanPerNode`, `MountsReach`, `SplitHasWeights`, `PulledThere`, `NeverGoesBack`, `ChangeIsSeen`. |
| `pulls` (`MCPulls_pulls.cfg`) | Two parts. Fit checks of six checkpoints on a host that shares its memory, a host with two cards, one without labels and a pool of two sizes, each read of the hub or the registry failing or not: what is accepted starts there, what is refused is short, what is advised is exact. The pulls of two references that share a directory, with cancels, failed requests, lost answers, delete_model and restarts: a running download is followed by a pull, but for one whose last pull had a request fail or was adopted and took partial files; a cancelled pull returns. Checks `StartsThere`, `AdviceIsExact`, `RefusedForCause`, `NoUnattendedDownload`, `CancelledPullEnds`. |
| `told` (`MCTold_told.cfg`) | Three parts. Two calls, each a load or a list with good or dead credentials, over a serving slice that is being installed, with one failed read, through the cached settings: a load begun once the slice is complete is not refused for what was cached before, a list is told of nothing missing that has been there for long enough. The phase a list shows of a serve while its pod, Events, claim, node and object change under it and reads fail: a crash is named unless the image or the container is refused again, the step only moves forward. What it says of a node that the cloud refused, several times and while it changes, is so. Checks `LandedIsServed`, `ListsFollow`, `SaysWhatIs`, `MovesForward`. |
| `placement` (`MCPlacement_placement.cfg`) | Loads of two presets, pinned, free, as copies or split, on two unified-memory nodes and one with two cards whose pool scales from zero, one at a time or overlapping, with stops, evictions and nodes that go: vLLM never claims the memory of the host, no device is promised twice, no load takes a node from what is served. Checks `HeadroomKept`, `DevicesKept`, `ServedNodesStay`. |
| `reads` (`MCReads_reads.cfg`) | Three parts, what a list of the served models does besides listing, two calls at a time: it records in the cache index what is served, asks a Ready object its first question before it shows it Ready, and keeps the objects on the LLM endpoint in step with what is served. Checks `OthersEntriesStay`, `ServedGetsRecorded`, `AnswerIsShown`, `EndpointFollows`. |
| `commit` (`MCCommit_commit.cfg`) | Commit mode beside apply mode, merges and Flux, in fourteen arrangements of Flux objects over two repositories: the files of a call land where Flux applies them, and a call opens a pull request for all it writes in a repository or none. Checks `WholeOrNothing`, `LandsInPlace`. |
| `hosts` (`MCHosts_hosts.cfg`) | Three scenes. Loads, unloads and deletes on two host drivers, two at a time. One call at a time beside the loop that brings ModelConfigs to a changed setting, over restarts, failed reads and ModelConfigs that Flux takes over. A pull whose download the host breaks, pauses or keys under another name. Checks `UnloadEvicts`, `SettingReaches`, `StuckPullEnds`. |

The runs that TLC must refute, each a disagreement between what a comment, a
test or a document says and what the code does (`findings` quotes the lines):

| Run | The counterexample |
|---|---|
| `downloads_adopt` (`MCDownloads_v_adopt.cfg`) | After a restart the pull of a running download finds the files it has written so far, takes the model for cached and ends: nobody follows the Job. Checks `RestartLosesNoDownload`. |

What the code does not keep.  Each of these properties states what a comment or a
document of the repository promises, and TLC refutes each when it is put alone in
the place of the properties of the configuration named (the configurations end
with the lines to put):

| Property | Configuration | Counterexample | What says otherwise |
|---|---|---|---|
| `OneConfigPerModel` | `MCWiring_open.cfg` | Two overlapping Ensures of one model, one of them while another backend holds the plain name, leave two ModelConfigs: `plan` picks the name from a read of who bears the plain one (`kagent.go:654`). | `kagent.go:199-201` "A ModelConfig is identified by (backend, model)" |
| `OtherModelsStand` | `MCWiring_open.cfg` | Two models whose references sanitise to one name take over each other's ModelConfig: `match` falls back to the derived name also for a ModelConfig whose annotation names another model (`kagent.go:1091`). | as above |
| `OnlyCreatorDeletes` | `MCWiring_open.cfg` | An instance decides to delete the ModelConfig it created, another one re-creates the name, the first deletes by name (`kagent.go:960`). | `kagent.go:71-73` "only that instance deletes it" |
| `KeySecretStays` | `MCWiring_open.cfg` | `removeObj` deletes the Secret by name after the ModelConfig (`kagent.go:981`), an Ensure deletes it before an Update that may fail (`:750`): a ModelConfig that reads the Secret is without. | `docs/backends.md:406-407` "a placeholder Secret model-manager creates and removes with the ModelConfig" |
| `NoDangling` | `MCServing_open.cfg` | A load's wiring lands after the Remove of an unload that overlapped it (`service.go:819`); no later read or reconcile removes it. | `service.go:954-956` "the ModelConfig this model-manager created goes with the endpoint" |
| `ReadLeavesStopping` | `MCServing_open.cfg` | A read that listed the object before an unload wires it after the unload removed its ModelConfig (`service.go:699`). | `service.go:682-683` "an object on its way out is not re-wired behind the unload that removed its ModelConfig" |
| `JobRefreshesInPlace` | `MCServing_open.cfg` | A second preset of the model is loaded while the first one's job runs, joins it, and the job points the ModelConfig back (`service.go:920`). | `service.go:904-907` "the same ModelConfig the load wired, updated in place" |
| `UnloadTakesItsOwn` | `MCServing_open.cfg` | Unloading one preset removes the ModelConfig of the other preset's object, which goes on serving (`service.go:971`). | `service.go:954-956`, as above |
| `WaitReadyMeansAnswering` | `MCServing_open.cfg` | `WaitReady` returns for an object of the model that is being deleted, still Ready (`kserve/backend.go:895`). | `backend/backend.go:940` "WaitReady blocks until the served model answers" |
| `RemovalLeavesNothing` | `MCBackendTools_open.cfg` | A `wire_model` that overlaps a `remove_backend` leaves a ModelConfig of a backend that is gone (`mcp_backends.go:290`); with `Wired = {"here", "old"}`, one without the backend label does not refuse the removal (`service.go:1826`). | `README.md:115`, `:295` "drops the backend's ModelConfigs and the document", "refuses while one without the label remains" |
| `AddAnswersWithItsWrite` | `MCBackendTools_open.cfg` | Replacing the document of a registered backend answers registered before the new one is delivered (`registry.go:231`). | `docs/backends.md:432` "waits for the watch to deliver it (`registered: true`)" |
| `ChangeIsSeen`, `Strict` | `MCCaches_caches.cfg` | A scan that read the cache before a change stores what it found after the `invalidate` (`inventory.go:187`). | `inventory.go:184` "invalidate drops cached scans so the next read rescans" |
| `NamedClaimExists` | `MCCaches_caches.cfg` | A load that is not preceded by a pull to the node names a node claim nobody created (`backend.go:719`). | `nodeclaims.go:49-50` "every node outside the pinned claim's reach gets a cache claim of its own" |
| `CopiesReach` | `MCCaches_caches.cfg` | A load reads the claim unbound; the object it saw is unloaded, another load serves the model and its claim binds to one node; the first load adds copies on another node, by the claim as it read it (`copies.go:209`, `:216`). | `copies.go:206-208` "refused when the nodes' pods would mount different cache claims" |
| `ServedKeepsWeights` | `MCCaches_caches.cfg` | A load between the served check and the removal of a delete (`backend.go:578`). | `backend.go:562-563` "A model that is being served must be unloaded first" |
| `PulledIsComplete` | `MCDownloads_v_adopt.cfg` | A pull after one that was cancelled or failed finds its partial files and ends as cached (`fit.go:978`). | `README.md:614` "partial files stay and a new `pull` resumes" |
| `LeftoversOnly` | `MCDownloads_v_adopt.cfg` | Two pulls see the same finished Job: one replaces it, the other deletes the new one by name (`jobs.go:299`). | `jobs.go:284-286` "adopting an existing active one; a finished leftover (...) is replaced" |
| `CopiesKeepHeadroom` | `MCPlacement_placement.cfg` | A copy is added on a node that was judged at a lower utilization than the object runs at (`copies.go:209`). | `README.md:669-671` "that claim must fit the node's budget, at most its memory less the host headroom" |
| `NoConfigIsTrue` | `MCPulls_pulls.cfg` | A model image whose files could not be read is remembered without a `config.json` (`modelimage.go:113`), and every later check says the checkpoint has none. | `compute.go:27-29` "skipNoConfig is why a checkpoint without a config.json is not read from one" |
| `SizedToHighest` | `MCPulls_pulls.cfg` | `sized` takes the smallest utilization that holds the weights (`shape.go:129-134`). | `shape.go:24-26` "sized down to the highest fraction that leaves the host its headroom" |
| `ClaimLeavesHost` | `MCPulls_pulls.cfg` | A preset that splits its layers (pipeline parallel) keeps its own utilization, which is not held against the host (`shape.go:149-153`). | `fit.go:826-828` "The claim is outside the pod's memory limit (...): nothing on the Kubernetes side refuses or evicts it" |
| `EndpointKept` | `MCTold_told.cfg` | A failed read of the LLM endpoint document counts as none and replaces the good one (`config.go:533`). | `config.go:65` "A resolve error is never cached" |
| `ComposedAsJudged` | `MCTold_told.cfg` | `Serve` takes the settings again after the fit (`backend.go:647`): another call has replaced them in between. | `backend.go:636-637` "The object is composed with the settings the fit was judged on" |
| `EveryStepForward` | `MCTold_told.cfg` | A pod bound to a node whose device plugin restarts shows a later step before the kubelet's first report than after it (`phases.go:317-320`). | `phases.go:17-24`, the order of the steps |
| `LiveRecordStays` | `MCReads_reads.cfg` | An unload decides on a copy of the index, and drops the entry that a list has since written for the cache of this moment (`index.go:284`). | `index.go:266-268` "An entry bound to the cache of this moment stays" |
| `KeptWhileServed` | `MCReads_reads.cfg` | When the write of a model's public object fails, the workload object never becomes wanted and is deleted (`gatewaymodel.go:366-369`); an older list deletes what a newer one wrote. | `gatewaymodel.go:255-256` "kept while its serving object exists (a model restarting keeps its object), deleted when that object is gone" |
| `OneFile` | `MCCommit_v_second.cfg` | `inDirectory` checks the first object of a part only: a served model whose ModelConfig is applied from a file of the same directory gets a second file (`commit.go:379`). | `commit.go:342-344` "refuses a write on an object Flux applies from a file outside model-manager's directory" |
| `OneConfigPerName` | `MCHosts_hosts.cfg` | When `GetModel` fails, the model is wired under the caller's reference, beside its ModelConfig under the canonical name (`service.go:1575`). | `service.go:1565-1566` "end up in one ModelConfig" |
| `SettingReachesEach` | `MCHosts_hosts.cfg` | A ModelConfig written under an alias is listed in every pass and the model is wired under the name its host has for it: the alias keeps the old window (`service.go:1486`). | `service.go:1442` "re-wires every ModelConfig model-manager owns" |
| `OneInstance` | `MCHosts_hosts.cfg` | Two loads look, both find nothing resident, both load (`lmstudio/backend.go:365`). | `lmstudio/backend.go:355-359` "a second load would pin another copy of a multi-GB model" |
| `PulledIsAlwaysServed` | `MCHosts_hosts.cfg` | The read before the wiring fails, and the ModelConfig carries the reference as it was given (`service.go:1575`). | `lmstudio/backend.go:288-294`, the divergence the resolve is there for |

Bounds and why they are enough:

* `jobs`: two jobs of one key, with a retention of one tick and a cap of one
  finished job, meet in every way the table lets two jobs meet: together,
  pruned by age, pruned by count.  Jobs of other keys meet only in the pruning,
  which looks at no key.  One caller is enough because callers share no state.
  `Sample` is the progress a RunFunc reports, here a total exceeded.
* `wiring`: two calls are enough for every pair of requests to interleave, two
  instances and backends for every ownership.  `MaxWrites` bounds the
  resourceVersions; four writes let a name be created, taken away, re-created and
  written again.  The part "writes" (two instances, one backend, endpoints without
  a key) and the part "scope" (one instance) start no write past the second, which
  leaves one write between the two halves of any other; the part "serial" has all
  of them, with one call at a time, and starts also from a ModelConfig without the
  backend label, which a call on either backend finds.  `MCWiring_open` has two models and two
  overlapping calls in that part, too many states to exhaust; it is there to
  be refuted.
* `serving`: two presets of one model; models meet in the job table and in
  the wiring only, which have their own modules.  Four calls in a row are load,
  load of the other preset, unload and one more; two calls with a fault put a
  restart or a failed request between any two steps of either.
* `tools`: two models let an unwiring fail halfway.  Names do not interact:
  the documents of one static and one dynamic name are the second part, where
  three writes take a name through any three of absent, loading, broken and gone.
* `caches`: for the scans, one change and a clock two ticks beyond a TTL of one
  let a scan be fresh, expire and be replaced around a change; nodes share
  nothing but `invalidate`, which empties all of them.  For the claims, three
  nodes are enough for a split over two beside a node that has the model; three
  calls, two at a time, are a pull, the load that uses it and the delete between
  them, or two loads around an unload; a split has one worker, or two, which must share a
  claim (with one other call, in a part `workers`); one of the calls runs out of time for a scan, one claim is removed by hand.
* `pulls`: two checks on the same process show what the first one's failed reads
  leave to the second, two failures fail both reads of a check.  The checkpoints
  differ in what the code tells apart: layers that share, slide or keep a state,
  latent attention, an index, quantised groups, a model image.
  `Downloads` has no bounds: two references, because a Job is one pull's or
  another's, and pulls, faults, cancels and restarts as often as they like.
* `told`: a slice that changes once from any state it can be in, which is what a
  cached answer can be behind by; one failed read; two claims and two troubles
  of a pod are one that is over and one that stands (a crash, and the image refused at
  the restart).  Two sizes and two zones let the cloud lack one and have the other.
  Two claims, of the pod or of others, refused around one change of the cloud are two
  answers that differ.  The clouds and pools at the start are those of `NarrowCloud`: up to
  the names of sizes and zones, what the cloud has where the pool does not ask makes no
  difference, and besides capacity there is one other cause, which the change may add
  to.
* `placement`: two unified-memory nodes of different sizes joined by a fast link
  and a node with two cards in a pool that scales from zero; two presets whose
  claims at their own utilization do not fit together, so that the second is
  sized down, and one of which needs both cards.  Two calls overlap.  Four loads,
  stops and changes of the cluster in calm behaviours (`MaxCalm`) reach a load,
  a second beside it, a third change and the load that counts what they left;
  three where calls overlap (`MaxOverlap`), there from a cluster whose nodes are
  all ready.  A pinning pool and cache nodes are
  constants the instance leaves empty.
* `reads`: two directories and two volumes, because a write must lose nobody
  else's entry and an entry must not outlive its volume; two lists at a time;
  two Ready transitions, the first of which may still be answered after the
  second; one model on the endpoint, because the lists treat each on its own.
* `commit`: two Kustomizations over one or two repositories are enough for two
  parts that land together, apart, or one of them nowhere.  Fourteen arrangements
  are named in `MCCommit`: five usual ones with two commits, nine odd ones, each
  with one fact a plan is refused for, with one.
* `hosts`: two hosts with different drivers, one model and one alias; two loads
  and one event of the host between any two requests; Flux takes ModelConfigs over in
  the scene with the loop.

`CHECK_DEADLOCK FALSE` is set where counted budgets (calls, writes, faults,
changes of the world) end the run of the environment, and in `pulls` and `hosts`
besides, where nobody has to call again; `jobs` and `wiring` are checked for
deadlock.  Symmetry is used for callers and for instances only, which nothing
compares or chooses between.  A `SYMMETRY` set goes with invariants and action
properties alone: no run with a liveness property has one.

Fairness:

* jobs: a goroutine that can run does; a RunFunc whose context was cancelled
  returns, because every RunFunc in the repository selects on its context or
  passes it to its requests; an uncancelled one may run for ever; nobody has to
  call.
* serving: a call, a job and a pass of the reconciler go on once started; the
  ticker of `Run` comes back (part "loop"); with `--caller-only` there is no
  ticker and what is assumed is that callers keep reading (part "reader").
  The cluster's controller is never assumed to make progress.
* registry: the informer delivers what is pending and lists again after a
  broken watch, as client-go's reflector does.
* inventory, placement, claims, sizing, settings, phases and commits: only safety
  is checked, no fairness is assumed.
* downloads: a pull's steps go on (every one is a request with a deadline or the
  ticker of `watchJob`); Jobs in the cluster need not
  make progress, nobody has to call.  `CancelledPullEnds` is what the fairness
  of `JobManager` for cancelled RunFuncs asks of this one.
* reads: a call goes on once started, and callers list again (a reader of the
  models is what all three are for); the copy of the index expires, the resync
  becomes due and a standing failure is retried, because clocks go on; a request
  to a model is answered or runs into `answerTimeout`.
* hosts: the loop of `refreshModelConfigs` runs (`Run`'s ticker), and the job of a
  pull polls on (the ticker of LM Studio's `Pull`); the host need not make progress
  and callers need not call.

## 5. What is proved

Every proof assumes only the named `ASSUME`s on the constants of its module;
what a theorem assumes besides is in its statement and said here.  Those assumptions are
types of the facts of the world (a checkpoint, vLLM's arguments, a GPU, a pool's sizes),
bounds that are numbers, presets and nodes that are finite and of which there is a preset,
and a name for "nothing" that names nothing.

`JobManager_proofs`, for any sets of jobs, keys and callers, any retention and
any cap.  The inductive invariant `IndInv` is `TypeOK` with four parts: `InStep`
(the goroutine of a job, its state, the channel and the table agree: a job in
the table that is active has a worker that has not ended it, a removed job has
none), `CallsInStep` (an Await or a Cancel under way is about a job that was
started), `OneActivePerKey` and `AwaitSeesEnd`.  `InStep` is what makes it
inductive: pruning removes finished jobs only, and without the agreement of
worker and state "finished" says nothing of the goroutine that may still write.
From it follow

* `TypeCorrect`, `UniqueActiveJob` (never two active jobs of a key),
  `NoJobIsLost` (a goroutine always finds its job in the table),
  `AwaitReadsTheEnd` (whoever awaited a job reads its end), as invariants;
* `EndsAreFinal`, as an action property;
* `TableImplementsLifecycle`: every step of the table is a step or a stutter of
  `JobLifecycle`, which licenses its use in `Serving`.

`Wiring_proofs`, for any instances, backends, models and names, any number of
calls under way.  `IndInv` is `TypeOK` with `Versioned` (a ModelConfig is no newer
than the last resourceVersion given out) and `PlansStand`: what an Ensure past its
reads has read is managed, is its instance's or unclaimed, and is what bears the
name for as long as that has the version of the read.  `PlansHold` is the invariant;
`UpdatesOnlyOwn` (`WritesOnlyOwn`) follows because an Update carries the version of
the read; `TypeCorrect` the types.

That is what optimistic concurrency buys, and the deletes, which name no version, are
the part it says nothing of.  For those of one instance's calls, `AimStands` follows
a call from its read to its delete: what bears the name it aims at stays managed,
its instance's or as unclaimed as it was, and applied by Flux only if it was, because
the other calls' writes change nothing else (`Tame`).  `DeletesStayInScope`
(`DeletesInScope`) is for any finite set of instances and a cluster with no
ModelConfig left in the kagent.dev group: the name of a legacy ModelConfig is aimed
at in the group of today too, whoever's it is there.  For calls that follow one
another (`Concurrent` is 1, `Call` finite), `Turns` says what a call knows after each
request: which ModelConfigs its (backend, model) can have (`OnlyIn`), what bears the
name it plans (so its write is accepted), and that every placeholder Secret fits but
the one it is at work on.  `TurnsLeaveOneConfig` (`OneConfigWithItsSecret`) follows.

`Serving_proofs`, for any presets, jobs and callers.  `TypeCorrect` needs that a call
which goes through a list of presets still has one (`HasWork`), since the code then
takes the first; that a set of presets has a first is `FirstIsIn`, from the
well-foundedness of the numbers.  `NoDanglingHolds` (`NoDanglingInTurn`) is for one
call at a time, without a fault: `Serial` adds that a ModelConfig, and the object an
active job is to wire, are up, except while an unload that took the object down has
still to end the job and to remove the ModelConfig.

`BackendTools_proofs`, for any names, documents and number of writes, first of `Registry`.
`RegistryInv` is `RegistryTypeOK` with `NeverBoth`, `InStep`, `StaticStays`,
`NamesAgree` (the registry's names are the backends registered from documents)
and `LastIsDoc` (the last pending event carries the document as it is), which
makes a delivered sequence end at the present.
`RegistryCorrect` is the invariant; `NeverBothHolds` (no name is a backend and a
problem), `InStepHolds` (what is held is what was delivered) and
`StaticStaysHolds` (a document never displaces a static backend) follow.

Of the tools: `ToolsTypeCorrect` from `RegistryInv` with `ToolsInv`, and
`ToolsImplementRegistry`: every step of the tools is a step or a stutter of
`Registry`, so what is proved of the registry holds of the composition.
`RemovalsLeaveNothing` (`RemovalLeavesNothing`) rests on `RemovalInv`: what a removal
has planned, listed and unwired so far (`Kept`) is gone from its backend and stays so
until the document goes.  Its two hypotheses are those of the run `tools` and both are
needed: no wire_model beside a removal (`Apart`: one call at a time, or none of
them), which would put back what the removal has just taken away, as
`MCBackendTools_open` shows; and no ModelConfig from before the backend label, which a
removal does not find.

`Caches_proofs`, of `Inventory`, for any nodes, readers and background goroutines,
any TTL, any number of changes.  `IndInv` is `TypeOK` with `OneScanPerNode`,
`ScansInFlight` (a node an actor scans is in `inflight`, which is what makes the
first inductive) and a chain of orders: `AnswersLag` (nobody was shown more than
the directory holds), `SnapsLead` (a snapshot is no newer than the directory and
no older than any answer about the node) and `ScansLead` (what a scan has read
is no older than the snapshot and the answers).  Most steps are `Harmless`: they
begin no scan and answer from the snapshot or with nothing; `StoreStep` is the
one that moves the chain.  From it follow `TypeCorrect`, `ScansDeduplicated`
(`OneScanPerNode`) and the action property `AnswersNeverGoBack`
(`NeverGoesBack`).  `ChangesAreSeen` assumes `~Strict` and adds `Promised`: what
was announced is on the disk, in every good snapshot and in what every scan under
way has read.  It is inductive only because a scan that began before the
announcement keeps it from counting.

Of `NodeClaims`, for any nodes, claims, placements and bounds: `ClaimsInv` is the
types with `ScansHold` (a scan that found the model stands for one that would find it
now, until a delete has told of itself), what every call has read and seen
(`CallOK`: a bound claim it read is the one there is, a node it looked at has the
model, is still to be asked about, or a delete has raced it) and what the served
pods name (`ServedStands`).  `MountsReach` needs `ReadStands`, since two loads that
resolved different claims meet in one object, and holds of what was placed by calls that
read the claim bound (`located`), an unbound one being able to bind anywhere; `SplitHasWeights` and `PulledThere` need
`ScansHold` and `Saw`, since what they promise was seen some steps before.  From it
follow `PodsReachTheirClaims`, `SplitsHaveWeights` and `PullsLand`, which state the
properties of those names.

`Outside_proofs`, of `Downloads`, for any number of references.  `IndInv` is `TypeOK`,
`WatchersWereThere` (whoever watches a Job that has succeeded was there when it
did), `DownloadIsNew` and `LeftByRestart`: a running Job that nobody attends was
left by a restart, the adoption will find it or has found it, and no pull is
past its look at the Job.  Without the last part the adoption might join a pull
that saw no Job and is about to fail on the name.  `DownloadsAttended` gives
`NoUnattendedDownload` from the assumptions on the constants alone; what it excepts is in
the property (a failed request, or partial files taken by an adopted pull, by the last
pull that attended the Job), and the second exception is what the run `downloads_adopt`
refutes; `DownloadsNew` gives `DownloadIsNew`, `TypeCorrect` the
types.

Of `GitopsCommit`, for any calls, Kustomizations, repositories and bounds: `CommitInv` is
the types with `WholeOrNothing`, `LandsInPlace` and why the second is kept: what people
and requests put in Git lands (`FilesLand`, `RequestsLand`), a label on a live object is
of a Kustomization of the object's cluster (`LabelsStand`), and what a call has still to
plan fits the cluster of its part (`CallLands`), since the owner it will ask is read some
steps before the plan.  `CommitsAreWhole` and `CommitsLand` hold from every `Sound` start,
which `MCCommit`'s are: a world in which whoever made a namespace of the own cluster applies
there (`WellPlaced`), and files of people that land.  Without it a namespace of the own
cluster whose labels name a Kustomization of the remote one takes the commit there.

Of `Settings`, for any calls, tokens, TTLs, lengths of a resolve and bounds: `SettingsInv`
is the types with `OwnReads` (what the resolve of a call begun on a complete platform has
read is complete, unless a read failed that call), `LagsShortly` (what the cache or a
resolve under way lacks of a complete platform is younger than the platform) and, of each
call, `Rechecked` (one past its recheck found the pool in the cache, and no resolve under
way will take it out) and `ToldWell`.  `LoadsSeeTheLanded` (`LandedIsServed`) and
`ListsSeeTheSettled` (`ListsFollow`) follow.  Both assume `Shapes`, as the run does: without
registered shapes the code takes a document that names no pool for complete, keeps it for
the whole TTL and refuses by it.  Of `Phases` and `Launch`, on every behaviour of the
composition: `PhaseInv` (a container that ran or died has its init done, on a bound pod,
in what is there and in what a list has read of it) and `LaunchInv` (each refusal
that stands holds, whole or cut, the fleet's answer to the claim Karpenter makes of the pool, of
the cloud that gave it, which launched nothing) give `ListsSayWhatIs` (`SaysWhatIs`).  `PoolSpec` has the pool with a size
and a zone, as a pool that can be launched at all has.
`PhasesMoveForward` (`MovesForward`) counts the steps a list shows without building them:
`Coming` is their number by cases on the object and the pod, the lemma `ReachedComes`
says that the timeline of `phases.go` has that length in every state of `PhaseInv`, and
what is left is one comparison for each step of the cluster.

`Placement_proofs`, for any cluster, presets and pools.  `UtilizationFits` is
about `Fit` alone: whatever the sizes, an accepted utilization on a
unified-memory node claims at least the need (`SizedCovers`, from rounding up)
and at most what the node leaves.  `TypeCorrect` is the type invariant, by one
lemma for each function of the fit check.  `VersionsHold` is the inductive
strengthening of the action property: an object names nodes in one way only
(`Recorded`) and a load about to add copies adds to all of them as long as the
object still has the version it read (`Versions`).  `NodesStay` (`ServedNodesStay`)
follows, for any number of overlapping loads.

A host is promised to several models, so capacity is a sum over the objects on a node.
The library's folds have no laws that can be cited without induction; the laws of a sum
(`TotalSplits`: one element out; `TotalGrows`: a smaller set of smaller summands;
`TotalOfEqual`; `TotalOfParts`) are proved here by counting the elements, with the
well-foundedness of the numbers (`NatSteps`) in the place of an induction theorem.

`Calm` is the inductive invariant of loads that do not overlap: every node's promises
fit (`Headroomed`, `Equipped`), whoever is on a node was judged for it (`Placed`), one
call is at work (`OneByOne`), and what the call was judged by still has room when it
writes (`Roomy`).  The last part is the one that matters: the verdict is some requests
older than the object it lets in, and a pod bound or an object gone in between must not
have taken that room.  `CalmHolds` is the invariant, `HeadroomHolds`
(`HeadroomKept`) and `DevicesHold` (`DevicesKept`) follow for any nodes, presets and sizes.

Of `Sizing`, for any checkpoints, arguments, nodes, pool sizes and failing reads:
`SizingInv` says that a check judges only what it has read (a layout it can
compute, weights that need a generation).  The need of a sequence, which `kvcache.go`
counts by groups of layers, is the sum of what the layers hold one by one (the sum laws
again, with a group's count for its equal summands), and from it follow `ModelsStart`
(`StartsThere`) and `RefusalsHaveCause` (`RefusedForCause`).  `AdviceHolds`
(`AdviceIsExact`) is the binary search: the need grows with the length (`NeedGrows`), so
whatever the search still looks at holds the longest length that fits (`Halving`,
`HalvingFinds`).  The proof changed the model in three places: `Needs` had asked nothing of
weights quantized to no float (int4) that are computed in bf16, `Admits`
had let a sequence in where the weights left nothing, and the layers past the owning ones
had been able to make a checkpoint unreadable.  `Longest` recurses over pairs, since the
provers know functions of one argument.

`IndexHosts_proofs`, of `CacheIndex`, for any directories, repositories, volumes and callers.
`TypeCorrect` is the type invariant with what a caller between its read and its
write knows.  `RecordsStay` (`OthersEntriesStay`) follows: a write that goes through
was computed from what is stored (`Looked` and `Get` mark what somebody has written
since), so it changes the entries of its own directories and no others.

Of `HostModels`, for any hosts, models, aliases, calls and bounds: `HostInv` is the types
with `Placed` (a call past its resolve is on a host and about a model of a name) and
`Evicts`: what an unload has seen and the host still holds, it has still to evict.  It is
kept because an instance that comes has an id above all given out before, so nothing an
unload has seen can come back.  `UnloadsEvict` (`UnloadEvicts`) follows.

`AwaitReadsTheEnd`, `EndsAreFinal`, `StaticStaysHolds`, `DownloadsNew` and the type
theorems state properties that no run lists: each was checked by TLC before it was
proved, and the proof takes its place.

Only model-checked: liveness, which the prover does not do (`CancelledJobsRelease`, the
liveness half of `LifecycleSpec`, whose safety half is `TableImplementsLifecycle`,
`ReadyGetsWired`, `Converges`, `CancelledPullEnds`, `ServedGetsRecorded`, `AnswerIsShown`,
`EndpointFollows`, `SettingReaches`, `StuckPullEnds`).  Every other property of a passing
run is a theorem.

## 6. What is not modelled, and why

* Render and Removal of the wirer, and what a dry run shows: the same plan as
  Ensure and Remove without the writes, turned into text.
* The wirer's discovery of the API version and of the served schema; the clients
  of `internal/kube`: caches of facts about the API server whose staleness shows
  as a failed request, which every module has.
* Backend documents: a document is valid and builds or not (`Registry`); the rules
  for its fields are about one value and no state.
* The fields of the objects that are composed, the retries against the webhook
  (`webhook.go`), conditions and events as text, the progress and the pod of a
  download, the pod that scans a node (a step that may fail).
* Memory requests, tolerations and a preset's own node selector: each refuses a
  node, as the conditions of `Fit` and `Sizing` do.
* Parsing of platform documents, presets, catalogues and image references: data
  with no state.
* The hosts' listings, details and error texts; a host's own scheduling of
  models beyond what `HostModels` lets it do at any moment.
* OAuth, HTTP and MCP plumbing: each route or tool is one call of the service;
  the flags and the order of the process's start; the cache agent, which serves
  files read-only.
