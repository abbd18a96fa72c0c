---------------------------- MODULE GitopsCommit ----------------------------
(***************************************************************************)
(* internal/gitops and the commit mode of internal/service: a write lands  *)
(* as a pull request in the repository Flux applies from, next to writes   *)
(* in apply mode, merges and Flux's own reconciliation.                    *)
(*                                                                         *)
(* One model: its serving object, on model-manager's own cluster or on a   *)
(* remote one, and the ModelConfig that wires it, on the own cluster.      *)
(* A Kustomization stands for the directory it builds from: base[k] are    *)
(* the files in model-manager's directory there, foreign[k] what people    *)
(* wrote in other files of it.                                             *)
(***************************************************************************)
EXTENDS Naturals, FiniteSets, Sequences

CONSTANTS
    Kustomization, Repo,
    CommitCall, \* commits under way at a time
    MaxWrites,  \* bound on the calls that write objects
    MaxEvents,  \* bound on dry runs, failed reads, requests closed or half
                \* opened, Kustomizations deleted
    None, Unrecorded

ASSUME CommitBounds == MaxWrites \in Nat /\ MaxEvents \in Nat
ASSUME NoneAssumption == None \notin Kustomization

Object == {"serving", "config"}
Cluster == {"own", "remote"}

(* gitops.Owner: the Flux object that applies an object or a namespace. *)
Owner == Kustomization \cup {"release", None}

VARIABLES
    flux,       \* the Flux objects and what model-manager reaches
    base,       \* base[k]: model-manager's files on the base branch
    foreign,    \* foreign[k]: objects in other files of k's directory
    inventory,  \* inventory[k]: status.inventory, what k applied last
    live,       \* live[o]: whether it exists, and its provenance label
    stray,      \* the objects Flux applied on another cluster or namespace
    prs,        \* the open pull requests
    commitCall, \* commitCall[c]: a commit under way
    writes, happened

commitVars == <<flux, base, foreign, inventory, live, stray, prs, commitCall, writes, happened>>

(* moves are the objects spec.targetNamespace would take out of their
   namespace; source says the GitRepository is found; seals that its path
   has an age recipient for a Secret. *)
Flux ==
    [at: Cluster,
     ks: [Kustomization -> [there: BOOLEAN, cluster: Cluster, moves: SUBSET Object,
                            source: BOOLEAN, seals: BOOLEAN, prune: BOOLEAN, repo: Repo]],
     hr: [there: BOOLEAN, cluster: Cluster, by: Kustomization \cup {None}],
     ns: [Object -> Owner],
     reach: SUBSET Repo]

(* Part, with where it lands. *)
Part == [write: SUBSET Object, remove: SUBSET Object, owner: Owner, cluster: Cluster]
Plan == [k: Kustomization, add: SUBSET Object, remove: SUBSET Object]
PullRequest == [repo: Repo, plans: SUBSET Plan]
CallState ==
    [pc: {"idle", "plan", "open", "opened", "refused", "failed"},
     dry: BOOLEAN, target: Kustomization \cup {None}, todo: Seq(Part),
     plans: SUBSET Plan, prs: SUBSET PullRequest]

IdleCommit == [pc |-> "idle", dry |-> FALSE, target |-> None, todo |-> <<>>,
               plans |-> {}, prs |-> {}]

CommitTypeOK ==
    /\ flux \in Flux
    /\ base \in [Kustomization -> SUBSET Object]
    /\ foreign \in [Kustomization -> SUBSET Object]
    /\ inventory \in [Kustomization -> (SUBSET Object) \cup {Unrecorded}]
    /\ live \in [Object -> [there: BOOLEAN, label: Owner]]
    /\ stray \subseteq Object
    /\ prs \subseteq PullRequest
    /\ commitCall \in [CommitCall -> CallState]
    /\ writes \in 0..MaxWrites /\ happened \in 0..MaxEvents

-----------------------------------------------------------------------------
(* Where a part's files go. *)

ClusterOf(o) == IF o = "serving" THEN flux.at ELSE "own"
Present(k) == flux.ks[k].there
Objects(p) == p.write \cup p.remove
First(p) == IF "serving" \in Objects(p) THEN "serving" ELSE "config"

(* resolveRemote through a HelmRelease: the one Kustomization that applies
   through its kubeconfig Secret. *)
ThroughRelease ==
    {k \in Kustomization : Present(k) /\ flux.hr.cluster = "remote" /\ flux.ks[k].cluster = "remote"}

(* resolve and resolveRemote, up to the Kustomization: none or one. *)
Leads(owner, cluster) ==
    IF owner \in Kustomization
    THEN {k \in {owner} : Present(k) /\ (cluster = "remote" => flux.ks[k].cluster = "remote")}
    ELSE LET via == IF cluster = "own" THEN {flux.hr.by} \cap {k \in Kustomization : Present(k)}
                                       ELSE ThroughRelease
         IN  IF owner = "release" /\ flux.hr.there /\ Cardinality(via) = 1 THEN via ELSE {}

(* Mutant: plans a file also for what the Kustomization would move. *)
MutLocationOf(k, p) == flux.ks[k].source

(* locationOf: the Kustomization's repository, none when it is not known or
   the objects would be moved. *)
LocationOf(k, p) == flux.ks[k].source /\ Objects(p) \cap flux.ks[k].moves = {}

namespaceOwner(p) == flux.ns[First(p)]

(* locate: the explicit target, else the object's owner, else its
   namespace's; none when it is refused. *)
Locate(p, target) ==
    IF p.owner = "release" THEN {}
    ELSE IF target # None THEN {target}
    ELSE LET owner == IF p.owner # None THEN p.owner ELSE namespaceOwner(p)
         IN  {k \in Leads(owner, p.cluster) : LocationOf(k, p)}

(* inDirectory and layout.Build: what is removed has its file there, the
   first object written is not applied from another file, and a Secret can
   be encrypted. *)
InDirectory(p, k) ==
    /\ p.remove \subseteq base[k]
    /\ p.write # {} => First(p) \in base[k] \/ p.owner = None
Builds(p, k) == "config" \in p.write \ base[k] => flux.ks[k].seals

PlanOf(p, k) == [k |-> k, add |-> p.write \ base[k], remove |-> p.remove]
Changed(plan) == plan.add \cup plan.remove # {}

-----------------------------------------------------------------------------
(* What a live change is refused for. *)

Lists(k, o) == inventory[k] = Unrecorded \/ o \in inventory[k]

(* Applying: a label whose Kustomization is gone, or no longer lists the
   object, applies nothing. *)
Applying(o) ==
    LET owner == live[o].label
    IN  owner = "release" \/ owner \in {k \in Kustomization : Present(k) /\ Lists(k, o)}

-----------------------------------------------------------------------------
(* The calls. *)

GoCommit(c, q) == commitCall' = [commitCall EXCEPT ![c] = q]
OnlyCalls == UNCHANGED <<flux, base, foreign, inventory, live, stray>>
Writes == writes < MaxWrites /\ writes' = writes + 1
Happened == happened < MaxEvents /\ happened' = happened + 1

(* The explicit target a caller gives is the directory of a Kustomization
   that applies to the first part's cluster, in its namespaces. *)
Targets(p) ==
    {k \in Kustomization : Present(k) /\ flux.ks[k].cluster = p.cluster
                           /\ Objects(p) \cap flux.ks[k].moves = {}}

How == [dry: BOOLEAN, target: Kustomization \cup {None}]

CommitBegins(c, how, parts) ==
    /\ commitCall[c].pc = "idle"
    /\ how.target \in {None} \cup Targets(parts[1])
    /\ IF how.dry THEN Happened ELSE UNCHANGED happened
    /\ GoCommit(c, [IdleCommit EXCEPT !.pc = "plan", !.dry = how.dry, !.target = how.target,
                                       !.todo = parts])
    /\ OnlyCalls /\ UNCHANGED prs

(* splitForTarget: on the own cluster one part, on a remote one the
   ModelConfig in a part of its own; rendered objects carry no label. *)
Split(write, remove, owner) ==
    LET both == [write |-> write, remove |-> remove, owner |-> owner, cluster |-> flux.at]
        wiring == (write \cup remove) \cap {"config"}
        also == [write |-> write \cap wiring, remove |-> remove \cap wiring, cluster |-> "own",
                 owner |-> IF remove = {} THEN None ELSE live["config"].label]
    IN  IF flux.at = "own" THEN <<both>>
        ELSE <<[both EXCEPT !.write = @ \ wiring, !.remove = @ \ wiring]>>
             \o (IF wiring = {} THEN <<>> ELSE <<also>>)

(* Render and Removal name the object that applies the ModelConfig now. *)
WirePart(write, remove) ==
    <<[write |-> write, remove |-> remove, cluster |-> "own",
       owner |-> IF Applying("config") THEN live["config"].label ELSE None]>>

(* CommitLoad, not for a model that serves already; CommitWire. *)
CommitLoad(c, how) ==
    ~live["serving"].there /\ Writes /\ CommitBegins(c, how, Split(Object, {}, None))
CommitWire(c, how) == Writes /\ CommitBegins(c, how, WirePart({"config"}, {}))

(* CommitUnload removes what serves and wires now; CommitUnwire. *)
UnloadParts == Split({}, {o \in Object : live[o].there}, live["serving"].label)
CommitUnload(c, how) ==
    /\ live["serving"].there
    /\ CommitBegins(c, how, UnloadParts)
    /\ UNCHANGED writes
CommitUnwire(c, how) ==
    live["config"].there /\ CommitBegins(c, how, WirePart({}, {"config"})) /\ UNCHANGED writes

(* One part of Commit: it is planned, or the whole call is refused.  A dry
   run only reports a repository out of reach. *)
PlanPart(c) ==
    /\ commitCall[c].pc = "plan"
    /\ LET q == commitCall[c]
           p == Head(q.todo)
           reached == {k \in Locate(p, q.target) : flux.ks[k].repo \in flux.reach}
           fits == {k \in reached : InDirectory(p, k) /\ Builds(p, k)}
           next == [q EXCEPT !.todo = Tail(@), !.target = None,
                             !.pc = IF Len(q.todo) = 1 THEN "open" ELSE "plan",
                             !.plans = @ \cup {PlanOf(p, k) : k \in fits}]
           passes == fits # {} \/ (q.dry /\ reached = {} /\ Locate(p, q.target) # {})
       IN  GoCommit(c, IF passes THEN next
                           ELSE [IdleCommit EXCEPT !.pc = "refused", !.prs = q.prs])
    /\ OnlyCalls /\ UNCHANGED <<prs, writes, happened>>

(* A read of GitHub that fails, or a call without the person's consent. *)
RemoteFails(c) ==
    /\ commitCall[c].pc = "plan" /\ Happened
    /\ GoCommit(c, [IdleCommit EXCEPT !.pc = "refused", !.prs = commitCall[c].prs])
    /\ OnlyCalls /\ UNCHANGED <<prs, writes>>

(* Mutant: a part that only removes opens no request. *)
MutRequestsOf(plans) ==
    {[repo |-> r, plans |-> {plan \in plans : Changed(plan) /\ flux.ks[plan.k].repo = r}] :
        r \in {flux.ks[plan.k].repo : plan \in {x \in plans : x.add # {}}}}

RequestsOf(plans) ==
    {[repo |-> r, plans |-> {plan \in plans : Changed(plan) /\ flux.ks[plan.k].repo = r}] :
        r \in {flux.ks[plan.k].repo : plan \in {x \in plans : Changed(x)}}}

(* The pull requests are opened, one per repository, once every part is
   planned; the last one may fail after the first is open. *)
OpenRequests(c) ==
    /\ commitCall[c].pc = "open"
    /\ \E opened \in SUBSET RequestsOf(commitCall[c].plans) :
         /\ commitCall[c].dry => opened = {}
         /\ LET all == commitCall[c].dry \/ opened = RequestsOf(commitCall[c].plans)
            IN  /\ IF all THEN UNCHANGED happened ELSE Happened
                /\ GoCommit(c, [commitCall[c] EXCEPT !.pc = IF all THEN "opened" ELSE "failed",
                                                     !.prs = @ \cup opened])
         /\ prs' = prs \cup opened
    /\ OnlyCalls /\ UNCHANGED writes

Return(c) ==
    /\ commitCall[c].pc \in {"opened", "refused", "failed"}
    /\ GoCommit(c, IdleCommit)
    /\ OnlyCalls /\ UNCHANGED <<prs, writes, happened>>

CommitStep(c) == PlanPart(c) \/ RemoteFails(c) \/ OpenRequests(c) \/ Return(c)

(* Apply mode: a live write, and a live removal unless Flux applies the
   object (Refuse). *)
WriteLive(o) ==
    /\ ~live[o].there /\ Writes
    /\ live' = [live EXCEPT ![o] = [there |-> TRUE, label |-> None]]
    /\ UNCHANGED <<flux, base, foreign, inventory, stray, prs, commitCall, happened>>

RemoveLive(o) ==
    /\ live[o].there /\ ~Applying(o)
    /\ live' = [live EXCEPT ![o] = [there |-> FALSE, label |-> None]]
    /\ UNCHANGED <<flux, base, foreign, inventory, stray, prs, commitCall, writes, happened>>

-----------------------------------------------------------------------------
(* GitHub and Flux. *)

Merge(pr) ==
    /\ pr \in prs
    /\ prs' = prs \ {pr}
    /\ base' = [k \in Kustomization |->
                  LET mine == {plan \in pr.plans : plan.k = k}
                  IN  (base[k] \cup UNION {plan.add : plan \in mine})
                        \ UNION {plan.remove : plan \in mine}]
    /\ UNCHANGED <<flux, foreign, inventory, live, stray, commitCall, writes, happened>>

Close(pr) ==
    /\ pr \in prs /\ Happened
    /\ prs' = prs \ {pr}
    /\ UNCHANGED <<flux, base, foreign, inventory, live, stray, commitCall, writes>>

Pruned(k, o, declared) ==
    /\ flux.ks[k].prune /\ live[o].label = k
    /\ inventory[k] # Unrecorded /\ o \in inventory[k] \ declared

(* A build with the same object in two files fails and applies nothing. *)
Reconcile(k) ==
    LET declared == base[k] \cup foreign[k]
        lands(o) == flux.ks[k].cluster = ClusterOf(o) /\ o \notin flux.ks[k].moves
    IN  /\ Present(k) /\ base[k] \cap foreign[k] = {}
        /\ inventory' = [inventory EXCEPT ![k] = declared]
        /\ stray' = stray \cup {o \in declared : ~lands(o)}
        /\ live' = [o \in Object |->
                      IF o \in declared /\ lands(o) THEN [there |-> TRUE, label |-> k]
                      ELSE IF Pruned(k, o, declared) THEN [there |-> FALSE, label |-> None]
                      ELSE live[o]]
        /\ UNCHANGED <<flux, base, foreign, prs, commitCall, writes, happened>>

(* Its objects go with a Kustomization that prunes, and stay, with their
   labels, without one. *)
DeleteKustomization(k) ==
    /\ Present(k) /\ Happened
    /\ flux' = [flux EXCEPT !.ks[k].there = FALSE]
    /\ live' = [o \in Object |->
                  IF Pruned(k, o, {}) THEN [there |-> FALSE, label |-> None] ELSE live[o]]
    /\ inventory' = [inventory EXCEPT ![k] = Unrecorded]
    /\ UNCHANGED <<base, foreign, stray, prs, commitCall, writes>>

-----------------------------------------------------------------------------
Foreign(o) == \E k \in Kustomization : Present(k) /\ o \in foreign[k]

(* Flux has applied what people wrote. *)
CommitInitFor(f, written, n) ==
    /\ flux = f
    /\ foreign = written
    /\ base = [k \in Kustomization |-> {}]
    /\ \E start \in {Unrecorded, {}} :
         inventory = [k \in Kustomization |-> IF foreign[k] = {} THEN start ELSE foreign[k]]
    /\ live = [o \in Object |->
                 IF Foreign(o)
                 THEN [there |-> TRUE, label |-> CHOOSE k \in Kustomization : o \in foreign[k]]
                 ELSE [there |-> FALSE, label |-> None]]
    /\ stray = {} /\ prs = {} /\ writes = n /\ happened = 0
    /\ commitCall = [c \in CommitCall |-> IdleCommit]

CommitNext ==
    \/ \E c \in CommitCall : \/ CommitStep(c)
                             \/ \E how \in How : \/ CommitLoad(c, how) \/ CommitUnload(c, how)
                                                 \/ CommitWire(c, how) \/ CommitUnwire(c, how)
    \/ \E o \in Object : WriteLive(o) \/ RemoveLive(o)
    \/ \E pr \in prs : Merge(pr) \/ Close(pr)
    \/ \E k \in Kustomization : Reconcile(k) \/ DeleteKustomization(k)

-----------------------------------------------------------------------------
(* A call that is refused has opened nothing, and one that succeeds has
   opened a request for every part it changes: commit.go:191-192 "Every refusal
   is decided before anything is written". *)
WholeOrNothing ==
    \A c \in CommitCall :
      /\ commitCall[c].pc \in {"idle", "plan", "open", "refused"} => commitCall[c].prs = {}
      /\ commitCall[c].pc = "opened" /\ ~commitCall[c].dry =>
           \A plan \in commitCall[c].plans :
             Changed(plan) => \E pr \in commitCall[c].prs : plan \in pr.plans

(* What model-manager commits is applied on the cluster and in the namespace
   the request named (locationOf, resolveRemote). *)
LandsInPlace == stray \subseteq UNION {foreign[k] : k \in Kustomization}

(* No object gets a second file in a directory Flux builds, which would fail
   the build (commit.go:342-344). *)
OneFile == \A k \in Kustomization : base[k] \cap foreign[k] = {}

==============================================================================
