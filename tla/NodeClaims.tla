----------------------------- MODULE NodeClaims -----------------------------
(***************************************************************************)
(* The caches of a model's nodes (nodeclaims.go): a cache claim pinned to  *)
(* some nodes, and a claim of its own for every other node.  A pull        *)
(* creates and fills the claim of its node, the fit check of a split reads *)
(* every node's, a served model's pods name the claims of their nodes, a   *)
(* delete empties one.  Each of them locates the claims for itself, and    *)
(* asks scans which others have left behind.                               *)
(*                                                                         *)
(* One model.  Pods and Jobs fill the claim they mount.  Eligibility,      *)
(* memory and the cache index are in other modules.                        *)
(***************************************************************************)
EXTENDS Integers, FiniteSets, Sequences, SequencesExt

CONSTANTS
    CacheNode, Base,      \* the nodes; the cache claim itself
    Request, NoModel,
    Home,            \* the nodes of its volume, where it is bound from the start
    Placements,      \* the placements a load asks for: <<kind, nodes>>
    MaxCalls, MaxLate, MaxRemovals

ASSUME ClaimBounds ==
    /\ {MaxCalls, MaxLate, MaxRemovals} \subseteq Nat
    /\ Base \notin CacheNode /\ Home \subseteq CacheNode /\ Home \notin {{}, CacheNode}
    /\ \A p \in Placements : p[1] \in {"one", "copies", "split"} /\ p[2] \in Seq(CacheNode) /\ p[2] # <<>>
                           /\ (p[1] = "one" => Len(p[2]) = 1)

VARIABLES
    base,     \* the cache claim: whether it exists, is bound, its volume's nodes,
              \* whether the other nodes get claims of their own, and whether
              \* its StorageClass can provision them
    own,      \* per node: its own claim
    weights,  \* the claims that hold the model
    snap,     \* per scanned node: what its last scan said, while that stands
    served,   \* the serving object: its pods and the claims they name
    call,     \* per call: what it does, how far it is, what it has read
    spent     \* bounds: calls, calls too late for a scan, claims removed by hand

claimVars == <<base, own, weights, snap, served, call, spent>>

Idle == [op |-> "none", nodes |-> <<>>, at |-> "idle", base |-> [there |-> FALSE, bound |-> FALSE, reach |-> {}, each |-> FALSE, class |-> FALSE],
         own |-> {}, todo |-> {}, lacks |-> {}, unknown |-> {}, claim |-> Base, raced |-> FALSE]

Anywhere == Base   \* no node, and the scan of a claim that every node mounts

-----------------------------------------------------------------------------
(* cacheLocation: l has what a call read of the cache claim and of the node
   claims.  A volume without node affinity is shared, its reach empty. *)

Pinned(l) == l.base.there /\ l.base.bound /\ l.base.reach # {}

PerNode(l) == l.base.each /\ Pinned(l)

ClaimOn(l, n) == IF PerNode(l) /\ n # Anywhere /\ n \notin l.base.reach THEN n ELSE Base

HasCacheOn(l, n) == ClaimOn(l, n) = Base \/ n \in l.own

(* Mutant: asks whether the nodes have caches, not whether they share one. *)
MutSameClaim(l, nodes) == \A n \in nodes, m \in nodes : HasCacheOn(l, n) = HasCacheOn(l, m)

SameClaim(l, nodes) == \A n \in nodes, m \in nodes : ClaimOn(l, n) = ClaimOn(l, m)

Here == [base |-> base, own |-> {n \in CacheNode : own[n] = "there"}]

(* eligibility, as far as the claim has a say. *)
MayServe(l, n) == Pinned(l) => l.base.each \/ n \in l.base.reach

(* candidateNodes: the nodes of the claim first. *)
Preferred(l) == IF l.base.reach # {} THEN l.base.reach ELSE CacheNode

(* Whether a pod on n can mount the claim, and what that makes of the cache
   claim: the first consumer of an unbound one binds it. *)
Mounts(n, claim) == IF claim = Base THEN base.there /\ (base.bound /\ base.reach # {} => n \in base.reach)
                    ELSE n = claim /\ own[n] = "there"

Bind(n, claim) ==
    IF claim # Base \/ base.bound THEN UNCHANGED base
    ELSE \E reach \in {{}, {n}} : base' = [base EXCEPT !.bound = TRUE, !.reach = reach]

-----------------------------------------------------------------------------
(* Calls *)

Goes(c, at) == call' = [call EXCEPT ![c].at = at]
CallEnds(c) == call' = [call EXCEPT ![c] = Idle]
In(c, op, at) == call[c].op = op /\ call[c].at = at
Removing == \E c \in Request : call[c].at \in {"remove", "tell"}

(* The job manager has one pull of a model at a time; loads overlap, their job
   starts when the object is written. *)
Begin(c) ==
    /\ call[c].at = "idle" /\ spent.calls < MaxCalls
    /\ spent' = [spent EXCEPT !.calls = @ + 1]
    /\ \E op \in {"pull", "one", "copies", "split", "delete"}, nodes \in {p[2] : p \in Placements} \cup {<<n>> : n \in CacheNode} \cup {<<>>} :
         /\ CASE op = "pull" -> Len(nodes) <= 1 /\ \A d \in Request : call[d].op # "pull"
              [] op = "delete" -> nodes = <<>>
              [] OTHER -> <<op, nodes>> \in Placements
         /\ call' = [call EXCEPT ![c] = [Idle EXCEPT !.op = op, !.nodes = nodes, !.at = "locate", !.raced = Removing]]
    /\ UNCHANGED <<base, own, weights, snap, served>>

(* claimLocation *)
LocateClaim(c) ==
    /\ call[c].at = "locate"
    /\ call' = [call EXCEPT ![c].base = base, ![c].at = IF PerNode([base |-> base]) THEN "caches" ELSE "plan"]
    /\ UNCHANGED <<base, own, weights, snap, served, spent>>

(* nodeCaches: a claim on its way out is none. *)
LocateCaches(c) ==
    /\ call[c].at = "caches"
    /\ call' = [call EXCEPT ![c].own = Here.own, ![c].at = "plan"]
    /\ UNCHANGED <<base, own, weights, snap, served, spent>>

(* The nodes whose cache a call asks: those of a split, the node a pull goes
   to, all that hold one for a delete. *)
Plan(c) ==
    /\ call[c].at = "plan"
    /\ LET l == call[c] IN
       \/ /\ l.op = "split" /\ \A n \in ToSet(l.nodes) : MayServe(l, n)
          /\ call' = [call EXCEPT ![c].todo = ToSet(l.nodes), ![c].at = "look"]
       \/ l.op \in {"one", "copies"} /\ (\A n \in ToSet(l.nodes) : MayServe(l, n)) /\ Goes(c, "look")
       \/ l.op \in {"one", "copies", "split"} /\ (\E n \in ToSet(l.nodes) : ~MayServe(l, n)) /\ CallEnds(c)
       \/ /\ l.op = "pull" /\ (l.nodes # <<>> => MayServe(l, Head(l.nodes)))
          /\ \E n \in IF l.nodes # <<>> THEN {Head(l.nodes)} ELSE IF l.base.reach # {} THEN Preferred(l) ELSE {Anywhere} :
               call' = [call EXCEPT ![c].nodes = <<n>>, ![c].todo = {n}, ![c].at = "look"]
       \/ l.op = "pull" /\ l.nodes # <<>> /\ ~MayServe(l, Head(l.nodes)) /\ CallEnds(c)
       \/ /\ l.op = "delete"
          /\ call' = [call EXCEPT ![c].todo = IF l.base.there THEN IF l.base.reach = {} THEN {Anywhere}
                                              ELSE l.base.reach \cup l.own ELSE {},
                                  ![c].at = "look"]
    /\ UNCHANGED <<base, own, weights, snap, served, spent>>

(* Mutant: one scan of the cache claim stands for every node. *)
MutScanned(l, n) == IF l.base.reach = {} THEN Anywhere ELSE CHOOSE m \in l.base.reach : TRUE

(* isCached and cacheSnapshotFor: a node without a claim has nothing; a scan
   that still stands answers; else the node is scanned, the claim located
   afresh (scanNode), unless the claim is not bound or the call too late. *)
Scanned(l, n) == IF l.base.reach = {} THEN Anywhere ELSE n

Seen(c, n, what) ==
    call' = [call EXCEPT ![c].todo = @ \ {n}, ![c].lacks = IF what = "no" THEN @ \cup {n} ELSE @,
                         ![c].unknown = IF what = "unknown" THEN @ \cup {n} ELSE @]

Look(c) ==
    /\ call[c].at = "look"
    /\ \E n \in call[c].todo :
         LET l == call[c]  at == Scanned(l, n) IN
         \/ ~(l.base.there /\ l.base.bound) /\ Seen(c, n, "unknown") /\ UNCHANGED <<snap, spent>>
         \/ l.base.bound /\ ~HasCacheOn(l, n) /\ Seen(c, n, "no") /\ UNCHANGED <<snap, spent>>
         \/ /\ l.base.bound /\ HasCacheOn(l, n) /\ snap[at] # "none"
            /\ Seen(c, n, snap[at]) /\ UNCHANGED <<snap, spent>>
         \/ /\ l.base.bound /\ HasCacheOn(l, n) /\ snap[at] = "none"
            /\ snap' = [snap EXCEPT ![at] = IF ClaimOn(Here, at) \in weights THEN "yes" ELSE "no"]
            /\ Seen(c, n, snap'[at]) /\ UNCHANGED spent
         \/ /\ l.base.bound /\ HasCacheOn(l, n) /\ snap[at] = "none" /\ spent.late < MaxLate
            /\ spent' = [spent EXCEPT !.late = @ + 1] /\ Seen(c, n, "unknown") /\ UNCHANGED snap
    /\ UNCHANGED <<base, own, weights, served>>

SawCache(c) == call[c].at = "look" /\ call[c].todo = {}

-----------------------------------------------------------------------------
(* Pull *)

(* ensureNodeClaim: an existing claim of the name is taken for the node's. *)
EnsureClaim(c) ==
    /\ SawCache(c) /\ call[c].op = "pull" /\ UNCHANGED <<base, weights, snap, served, spent>>
    /\ LET n == Head(call[c].nodes)
           has == HasCacheOn(call[c], n)
           cached == call[c].lacks \cup call[c].unknown = {} IN
       \/ ~has /\ ~(base.there /\ base.class) /\ CallEnds(c) /\ UNCHANGED own
       \/ /\ has \/ (base.there /\ base.class)
          /\ own' = IF has \/ own[n] # "none" THEN own ELSE [own EXCEPT ![n] = "there"]
          /\ call' = [call EXCEPT ![c].claim = ClaimOn(call[c], n), ![c].at = IF cached THEN "done" ELSE "job"]

(* The download Job's pod names its node; without one it goes where the
   claim takes it. *)
JobFills(c) ==
    /\ In(c, "pull", "job")
    /\ \E n \in IF Head(call[c].nodes) = Anywhere THEN CacheNode ELSE {Head(call[c].nodes)} :
         Mounts(n, call[c].claim) /\ Bind(n, call[c].claim)
    /\ weights' = weights \cup {call[c].claim} /\ Goes(c, "done")
    /\ UNCHANGED <<own, snap, served, spent>>

JobFails(c) == In(c, "pull", "job") /\ CallEnds(c) /\ UNCHANGED <<base, own, weights, snap, served, spent>>

NoScans == [n \in CacheNode \cup {Base} |-> "none"]

(* watchJob: the end of a download drops the scans. *)
PullEnds(c) ==
    /\ In(c, "pull", "done") /\ CallEnds(c)
    /\ snap' = IF call[c].lacks \cup call[c].unknown = {} THEN snap ELSE NoScans
    /\ UNCHANGED <<base, own, weights, served, spent>>

-----------------------------------------------------------------------------
(* Serve *)

(* cacheClaimAnnotations: the first node's claim on the leader (a single-node
   model, every copy), the second's on all the workers. *)
Pods(l, kind, nodes) ==
    {<<nodes[i], ClaimOn(l, nodes[IF kind = "split" /\ i > 1 THEN 2 ELSE 1])>> : i \in DOMAIN nodes}

(* judgeSplit, judgeCopies *)
Refused(c) ==
    LET l == call[c]  nodes == ToSet(l.nodes) IN
    CASE l.op = "split" -> (PerNode(l) /\ l.lacks # {}) \/ ~SameClaim(l, ToSet(Tail(l.nodes)))
      [] l.op = "copies" -> ~SameClaim(l, nodes)
      [] OTHER -> FALSE

Asked(c) == SawCache(c) /\ call[c].op \in {"one", "copies", "split"}

Serve(c) ==
    /\ Asked(c) /\ ~Refused(c) /\ served = NoModel /\ CallEnds(c)
    /\ served' = [kind |-> call[c].op, nodes |-> ToSet(call[c].nodes), pods |-> Pods(call[c], call[c].op, call[c].nodes),
                  located |-> call[c].base.bound, unknown |-> call[c].unknown, raced |-> call[c].raced]
    /\ UNCHANGED <<base, own, weights, snap, spent>>

(* addCopies: one pod template, the claim it names stays. *)
AddCopies(c) ==
    /\ Asked(c) /\ ~Refused(c) /\ served # NoModel /\ CallEnds(c)
    /\ call[c].op = "copies" /\ served.kind = "copies" /\ ~(ToSet(call[c].nodes) \subseteq served.nodes)
    /\ LET more == served.nodes \cup ToSet(call[c].nodes)
           named == (CHOOSE p \in served.pods : TRUE)[2] IN
       /\ SameClaim(call[c], more)
       /\ served' = [served EXCEPT !.nodes = more, !.pods = {<<n, named>> : n \in more},
                                  !.located = @ /\ call[c].base.bound]
    /\ UNCHANGED <<base, own, weights, snap, spent>>

(* Refused, or something serves already. *)
ServeEnds(c) ==
    /\ Asked(c) /\ (Refused(c) \/ served # NoModel)
    /\ CallEnds(c) /\ UNCHANGED <<base, own, weights, snap, served, spent>>

Stop == served # NoModel /\ served' = NoModel /\ UNCHANGED <<base, own, weights, snap, call, spent>>

(* A pod starts where it can mount its claim, and downloads what it lacks. *)
PodStarts ==
    /\ served # NoModel
    /\ \E p \in served.pods :
         /\ p[2] \notin weights /\ Mounts(p[1], p[2]) /\ Bind(p[1], p[2])
         /\ weights' = weights \cup {p[2]}
    /\ UNCHANGED <<own, snap, served, call, spent>>

-----------------------------------------------------------------------------
(* Delete *)

(* The model is in a cache, and nothing serves it: what listServed answers
   now, the removal a while later. *)
DeleteChecks(c) ==
    /\ SawCache(c) /\ call[c].op = "delete" /\ UNCHANGED <<base, own, weights, snap, served, spent>>
    /\ LET at == (IF call[c].base.reach = {} THEN {Anywhere} ELSE call[c].base.reach \cup call[c].own)
                 \ (call[c].lacks \cup call[c].unknown) IN
       \/ (~call[c].base.there \/ at = {} \/ served # NoModel) /\ CallEnds(c)
       \/ /\ call[c].base.there /\ served = NoModel
          /\ \E n \in at : call' = [d \in Request |-> IF d = c THEN [call[c] EXCEPT !.at = "remove", !.nodes = <<n>>]
                                                  ELSE [call[d] EXCEPT !.raced = @ \/ call[d].at # "idle"]]

(* removeDir *)
RemoveDir(c) ==
    /\ call[c].at = "remove" /\ Goes(c, "tell")
    /\ weights' = weights \ {ClaimOn(Here, Head(call[c].nodes))}
    /\ UNCHANGED <<base, own, snap, served, spent>>

RemoveFails(c) == call[c].at = "remove" /\ CallEnds(c) /\ UNCHANGED <<base, own, weights, snap, served, spent>>

(* Mutant: a cache that changed is announced to no scan. *)
MutTell(c) == call[c].at = "tell" /\ CallEnds(c) /\ UNCHANGED <<base, own, weights, snap, served, spent>>

Tell(c) == call[c].at = "tell" /\ CallEnds(c) /\ snap' = NoScans /\ UNCHANGED <<base, own, weights, served, spent>>

-----------------------------------------------------------------------------
(* An operator removes a node's claim: it goes once nothing mounts it.  Scans
   stand for a while. *)
RemoveClaim ==
    /\ Cardinality(spent.removed) < MaxRemovals
    /\ \E n \in CacheNode : /\ own[n] = "there" /\ own' = [own EXCEPT ![n] = "going"]
                        /\ spent' = [spent EXCEPT !.removed = @ \cup {n}]
    /\ UNCHANGED <<base, weights, snap, served, call>>

ClaimGoes ==
    /\ \E n \in CacheNode : own[n] = "going" /\ own' = [own EXCEPT ![n] = "none"] /\ weights' = weights \ {n}
    /\ UNCHANGED <<base, snap, served, call, spent>>

ScansAge == snap # NoScans /\ snap' = NoScans /\ UNCHANGED <<base, own, weights, served, call, spent>>

ClaimInit ==
    /\ base \in [there : BOOLEAN, bound : BOOLEAN, reach : {{}, Home}, each : BOOLEAN, class : BOOLEAN]
    /\ base.reach # {} => base.bound
    /\ base.bound => base.there
    /\ base.each \/ base.reach # {}
    /\ base.class \/ (base.reach # {} /\ base.each)
    /\ \E earlier \in {{}, IF Pinned([base |-> base]) THEN {CHOOSE n \in CacheNode \ Home : TRUE} ELSE {}} :
          /\ own = [n \in CacheNode |-> IF n \in earlier THEN "there" ELSE "none"]
          /\ weights = earlier \cup IF base.bound THEN {Base} ELSE {}
    /\ snap = NoScans /\ served = NoModel /\ call = [c \in Request |-> Idle]
    /\ spent = [calls |-> 0, late |-> 0, removed |-> {}]

Steps(c) ==
    \/ Begin(c) \/ LocateClaim(c) \/ LocateCaches(c) \/ Plan(c) \/ Look(c)
    \/ EnsureClaim(c) \/ JobFills(c) \/ JobFails(c) \/ PullEnds(c)
    \/ Serve(c) \/ AddCopies(c) \/ ServeEnds(c)
    \/ DeleteChecks(c) \/ RemoveDir(c) \/ RemoveFails(c) \/ Tell(c)

ClaimNext == (\E c \in Request : Steps(c)) \/ Stop \/ PodStarts \/ RemoveClaim \/ ClaimGoes \/ ScansAge

ClaimSpec == ClaimInit /\ [][ClaimNext]_claimVars

-----------------------------------------------------------------------------
(* Properties *)

(* A model placed by calls that read the cache claim bound never names, on the
   pods of a node, a claim of another node: whoever added copies to it, and
   however many nodes share a pod template. *)
MountsReach ==
    served # NoModel /\ served.located =>
        \A p \in served.pods : p[2] = p[1] \/ (p[2] = Base /\ (base.reach = {} \/ p[1] \in base.reach))

(* placement.go:290: a split is served only with the weights in the claim of
   every node that could be asked; later deletes find it served.  (A delete
   already past its check, and claims removed by hand, aside.) *)
SplitHasWeights ==
    served # NoModel /\ served.kind = "split" /\ served.located /\ base.each /\ base.reach # {} /\ ~served.raced =>
        \A p \in served.pods : p[2] \in weights \/ p[1] \in served.unknown \/ p[1] \in spent.removed

(* A pull for a node that ends well has left the model in the claim that the
   pods of the node mount, also when it ended because the model was cached. *)
PulledThere ==
    \A c \in Request : In(c, "pull", "done") /\ ~call[c].raced =>
        LET n == Head(call[c].nodes) IN ClaimOn(Here, n) \in weights \/ n \in spent.removed

(* backend.go:562-563: a model that is being served must be unloaded before
   its weights are deleted. *)
ServedKeepsWeights ==
    [][served # NoModel /\ served' = served => \A p \in served.pods : p[2] \in weights => p[2] \in weights']_claimVars

(* nodeclaims.go:49-50: every node outside the reach of the cache claim gets
   a claim of its own: the claim a pod names exists. *)
NamedClaimExists ==
    [][served = NoModel /\ served' # NoModel =>
        \A p \in served'.pods : p[2] \in CacheNode => own[p[2]] # "none"]_claimVars

(* copies.go:206-208: nodes whose pods would mount another claim than the one
   the object names are refused; also by a load that read the claim before it
   was bound. *)
CopiesReach ==
    [][served # NoModel /\ served' # NoModel /\ served.located /\ base.reach # {} =>
        \A p \in served'.pods : p[2] = p[1] \/ (p[2] = Base /\ p[1] \in base.reach)]_claimVars

=============================================================================
