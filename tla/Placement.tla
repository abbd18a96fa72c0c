------------------------------ MODULE Placement ------------------------------
(***************************************************************************)
(* Loads on the nodes of the cluster: Backend.Serve of the kserve backend   *)
(* with the fit check it goes by (module Fit), the copies and splits it     *)
(* places, Stop, and around them the scheduler, the autoscaler and the      *)
(* nodes themselves.                                                        *)
(*                                                                         *)
(* A load is three steps: the verdict on the nodes and the models served    *)
(* now, the read of the preset's own object, the write.  The fit checks of  *)
(* one load see one state of the cluster; retries against the webhook, the  *)
(* owner of an object and tracing are left out.                             *)
(***************************************************************************)
EXTENDS Fit

CONSTANTS
    Call,
    MaxCalm,    \* bound: loads, stops, changes of nodes and evictions where loads
                \* come one at a time
    MaxOverlap  \* bound: the same where they overlap

ASSUME BoundsAssumption == MaxCalm \in Nat /\ MaxOverlap \in Nat

VARIABLES
    node,      \* node[n]: whether it is there, and a serving target
    obj,       \* obj[p]: the LLMInferenceService of preset p
    pods,      \* pods[p]: the nodes its predictor pods run on
    judged,    \* judged[p]: the utilization p was judged at on each node, unless its
               \* pod has left that node for another; 0 for none
    call,      \* call[c]: where a load is
    calm,      \* loads come one at a time, and nothing else happens meanwhile
    writes,    \* resource versions handed out
    events     \* loads, stops, changes of nodes and evictions so far

vars == <<node, obj, pods, judged, call, calm, writes, events>>

Request == {r \in [split: BOOLEAN, nodes: SUBSET Node] : r.split => Cardinality(r.nodes) # 1}

Object == [state: {"none", "up", "stopping"}, rv: Nat, pin: Node \cup {NoNode},
           pool: Pool \cup {NoPool}, nodes: SUBSET Node, split: BOOLEAN,
           devices: Nat, util: 0..100]

None == [state |-> "none", rv |-> 0, pin |-> NoNode, pool |-> NoPool, nodes |-> {},
         split |-> FALSE, devices |-> 0, util |-> 0]

(* on: the nodes recorded on the object this load would write; seen: the
   version of the object it read. *)
CallState == [pc: {"idle", "look", "create", "add"}, preset: Preset, request: Request,
              verdict: Verdict, on: SUBSET Node, seen: Nat]

Nowhere == [split |-> FALSE, nodes |-> {}]
Idle == [pc |-> "idle", preset |-> CHOOSE p \in Preset : TRUE, request |-> Nowhere,
         verdict |-> Refused, on |-> {}, seen |-> 0]

Goes(c, next) == call' = [call EXCEPT ![c] = next]
Done(c) == Goes(c, Idle)
Quiet == \A c \in Call : call[c].pc = "idle"

-----------------------------------------------------------------------------
(* What the fit check sees *)

(* onNodes: those recorded on the object, else its pod's. *)
On(p) == IF obj[p].nodes # {} THEN obj[p].nodes ELSE pods[p]

Parts(p) == IF obj[p].split THEN Cardinality(On(p)) ELSE 1

(* reservedByNode: a model on its way out, or the one being loaded, does not
   count. *)
Others(p, n) == {q \in Preset \ {p} : obj[q].state = "up" /\ n \in On(q)}

(* Mutant: leaves vLLM's claim at start out of what a model reserves. *)
MutReserved(p, n) ==
    LET share(q) == CeilDiv(PresetFact[q].declared, Parts(q)) + Overhead(q)
    IN MapThenSumSet(share, Others(p, n))

Reserved(p, n) ==
    LET share(q) == PresetShare(q, n, Parts(q), obj[q].util)
    IN MapThenSumSet(share, Others(p, n))

(* Mutant: a model whose pod holds devices takes one, whatever its shape. *)
MutTaken(p, n) == Cardinality(Others(p, n))

Taken(p, n) ==
    LET devices(q) == obj[q].devices
    IN MapThenSumSet(devices, Others(p, n))

Seen(p) ==
    [there |-> {n \in Node : node[n] # "none"},
     eligible |-> {n \in Node : node[n] = "ready" /\ Pinning \in {NoPool, NodeFact[n].pool}},
     starting |-> {n \in Node : node[n] = "starting" /\ Pinning \in {NoPool, NodeFact[n].pool}},
     reserved |-> [n \in Node |-> Reserved(p, n)],
     taken |-> [n \in Node |-> Taken(p, n)]]

(* splitLinks, placeSplit: the asked nodes where one link joins them, else
   a link that fits; {} when there is none. *)
SplitNodes(p, w, asked) ==
    LET tried == IF asked = {} THEN Link
                 ELSE {asked} \cap UNION {SUBSET l : l \in Link}
        fitting == {l \in tried : \E j \in JudgeSplit(p, w, l, Seen(p)) : j.fits}
    IN IF fitting = {} THEN {{}} ELSE fitting

(* placementCheck: pairs of a verdict and the nodes to record. *)
Judgements(p, w, r) ==
    LET Pair(J, on) == {[verdict |-> j, on |-> on] : j \in J}
        v == Seen(p)
        Copy(explicit) == Pair(PlaceModel(p, w, explicit, v), {})
    IN IF r.split
       THEN UNION {Pair(IF l = {} THEN {Refused} ELSE JudgeSplit(p, w, l, v), l) :
                       l \in SplitNodes(p, w, r.nodes)}
       ELSE CASE r.nodes = {} -> Copy(NoNode)
              [] Cardinality(r.nodes) = 1 -> UNION {Copy(n) : n \in r.nodes}
              [] OTHER -> Pair(JudgeCopies(p, w, r.nodes, v), r.nodes)

-----------------------------------------------------------------------------
(* Load *)

Settled ==
    \A p \in Preset :
        /\ obj[p].state # "stopping"
        /\ obj[p].state = "up" => pods[p] # {} /\ (obj[p].nodes # {} => pods[p] = obj[p].nodes)

Counts == events < (IF calm THEN MaxCalm ELSE MaxOverlap) /\ events' = events + 1

Starts == Counts /\ (calm => Quiet /\ Settled)

(* The weights are the hub's, or those the preset declares. *)
Judge(c, p, r) ==
    /\ call[c].pc = "idle"
    /\ Starts
    /\ \E w \in {PresetFact[p].hub, PresetFact[p].declared} : \E j \in Judgements(p, w, r) :
          Goes(c, [Idle EXCEPT !.pc = "look", !.preset = p, !.request = r,
                               !.verdict = j.verdict, !.on = j.on])
    /\ UNCHANGED <<node, obj, pods, judged, calm, writes>>

(* servingNodes: an object that waits for its node, pinned to none, has none. *)
ServingNodes(p) ==
    IF obj[p].nodes # {} THEN obj[p].nodes
    ELSE IF obj[p].pin # NoNode THEN {obj[p].pin}
    ELSE pods[p]

(* What is served already, and on which nodes, decides what becomes of the
   load: nothing to do, a conflict, copies added, or a new object. *)
Look(c) ==
    LET q == call[c]
        o == obj[q.preset]
        on == ServingNodes(q.preset)
        other == ~(q.request.nodes \subseteq on)
        adds == other /\ on # {} /\ ~q.request.split /\ ~o.split
    IN /\ q.pc = "look"
       /\ CASE o.state = "none" /\ q.verdict.fits -> Goes(c, [q EXCEPT !.pc = "create"])
            [] o.state = "up" /\ adds /\ q.verdict.fits ->
                 Goes(c, [q EXCEPT !.pc = "add", !.seen = o.rv, !.on = on \cup q.request.nodes])
            [] OTHER -> Done(c)
       /\ UNCHANGED <<node, obj, pods, judged, calm, writes, events>>

JudgedOn(q) == IF q.on # {} THEN q.on ELSE {q.verdict.node} \ {NoNode}

Pin(r) ==
    IF ~r.split /\ \E n \in Node : r.nodes = {n} THEN CHOOSE n \in Node : r.nodes = {n} ELSE NoNode

(* composeLLM, composeSplit, applyCopies; an object served meanwhile refuses
   the create. *)
Create(c) ==
    LET q == call[c]
        p == q.preset
    IN /\ q.pc = "create"
       /\ IF obj[p].state = "none"
          THEN /\ obj' = [obj EXCEPT ![p] =
                    [state |-> "up", rv |-> writes + 1, pin |-> Pin(q.request),
                     pool |-> q.verdict.pool, nodes |-> q.on, split |-> q.request.split,
                     devices |-> q.verdict.devices, util |-> q.verdict.util]]
               /\ judged' = [judged EXCEPT ![p] =
                    [n \in Node |-> IF n \in JudgedOn(q) THEN q.verdict.util ELSE 0]]
               /\ writes' = writes + 1
          ELSE UNCHANGED <<obj, judged, writes>>
       /\ Done(c)
       /\ UNCHANGED <<node, pods, calm, events>>

(* Mutant: records the nodes asked for alone. *)
MutAddCopies(c) ==
    LET q == call[c]
        p == q.preset
    IN /\ q.pc = "add"
       /\ IF obj[p].state # "none" /\ obj[p].rv = q.seen
          THEN /\ obj' = [obj EXCEPT ![p].rv = writes + 1, ![p].pin = NoNode, ![p].nodes = q.request.nodes]
               /\ judged' = [judged EXCEPT ![p] =
                    [n \in Node |-> IF n \in q.request.nodes THEN q.verdict.util ELSE @[n]]]
               /\ writes' = writes + 1
          ELSE UNCHANGED <<obj, judged, writes>>
       /\ Done(c)
       /\ UNCHANGED <<node, pods, calm, events>>

(* addCopies: the object as read, with more nodes; its shape, and a pool's
   selector, stay. *)
AddCopies(c) ==
    LET q == call[c]
        p == q.preset
    IN /\ q.pc = "add"
       /\ IF obj[p].state # "none" /\ obj[p].rv = q.seen
          THEN /\ obj' = [obj EXCEPT ![p].rv = writes + 1, ![p].pin = NoNode, ![p].nodes = q.on]
               /\ judged' = [judged EXCEPT ![p] =
                    [n \in Node |-> IF n \in q.request.nodes THEN q.verdict.util ELSE @[n]]]
               /\ writes' = writes + 1
          ELSE UNCHANGED <<obj, judged, writes>>
       /\ Done(c)
       /\ UNCHANGED <<node, pods, calm, events>>

(* Stop: what goes is still there for a while. *)
Stop(p) ==
    /\ Starts
    /\ obj[p].state = "up"
    /\ obj' = [obj EXCEPT ![p].state = "stopping", ![p].rv = writes + 1]
    /\ writes' = writes + 1
    /\ UNCHANGED <<node, pods, judged, call, calm>>

-----------------------------------------------------------------------------
(* Around the process *)

Holds(n) ==
    LET devices(q) == obj[q].devices
    IN MapThenSumSet(devices, {q \in Preset : n \in pods[q]})

(* The scheduler: a pod for each recorded node, else one, where its selectors
   and the devices allow. *)
Allowed(p) ==
    LET o == obj[p]
    IN {n \in Node :
          /\ node[n] = "ready"
          /\ IF o.nodes # {} THEN n \in o.nodes ELSE o.pin \in {NoNode, n}
          /\ o.pool \in {NoPool, NodeFact[n].pool}
          /\ Holds(n) + o.devices <= GpuDevices(n)}

(* The nodes an object names itself. *)
Fixed(p) == obj[p].nodes \cup ({obj[p].pin} \ {NoNode})

Bind(p, n) ==
    /\ obj[p].state = "up"
    /\ n \in Allowed(p) \ pods[p]
    /\ obj[p].nodes = {} => pods[p] = {}
    /\ pods' = [pods EXCEPT ![p] = @ \cup {n}]
    /\ judged' = IF Fixed(p) # {} THEN judged
                 ELSE [judged EXCEPT ![p] = [m \in Node |-> IF m = n THEN @[m] ELSE 0]]
    /\ UNCHANGED <<node, obj, call, calm, writes, events>>

Gone(p) ==
    /\ obj[p].state = "stopping"
    /\ obj' = [obj EXCEPT ![p] = None]
    /\ pods' = [pods EXCEPT ![p] = {}]
    /\ judged' = [judged EXCEPT ![p] = [n \in Node |-> 0]]
    /\ UNCHANGED <<node, call, calm, writes, events>>

Moves == Counts /\ (calm => Quiet)

Evict(p, n) ==
    /\ Moves
    /\ n \in pods[p]
    /\ pods' = [pods EXCEPT ![p] = @ \ {n}]
    /\ UNCHANGED <<node, obj, judged, call, calm, writes>>

(* A node the autoscaler launches, one that stops being a serving target, one
   that goes. *)
NodeMoves(n, from, to) ==
    /\ Moves
    /\ node[n] = from
    /\ node' = [node EXCEPT ![n] = to]
    /\ pods' = IF to = "none" THEN [p \in Preset |-> pods[p] \ {n}] ELSE pods
    /\ UNCHANGED <<obj, judged, call, calm, writes>>

NodeReady(n) ==
    /\ node[n] = "starting" /\ (calm => Quiet)
    /\ node' = [node EXCEPT ![n] = "ready"]
    /\ UNCHANGED <<obj, pods, judged, call, calm, writes, events>>

-----------------------------------------------------------------------------
Init ==
    /\ node \in [Node -> {"none", "ready"}]
    /\ \A n \in Node : NodeFact[n].pool = NoPool => node[n] = "ready"
    /\ obj = [p \in Preset |-> None]
    /\ pods = [p \in Preset |-> {}]
    /\ judged = [p \in Preset |-> [n \in Node |-> 0]]
    /\ call = [c \in Call |-> Idle]
    /\ calm \in BOOLEAN
    /\ writes = 0 /\ events = 0

Load(c) ==
    \/ \E p \in Preset, r \in Request : Judge(c, p, r)
    \/ Look(c) \/ Create(c) \/ AddCopies(c)

Cluster(n) ==
    \/ NodeMoves(n, "none", "starting")
    \/ NodeMoves(n, "ready", "broken")
    \/ NodeMoves(n, "ready", "none")
    \/ NodeReady(n)
    \/ \E p \in Preset : Bind(p, n) \/ Evict(p, n)

Next ==
    \/ \E c \in Call : Load(c)
    \/ \E p \in Preset : Stop(p) \/ Gone(p)
    \/ \E n \in Node : Cluster(n)

Spec == Init /\ [][Next]_vars

-----------------------------------------------------------------------------
(* Properties *)

(* Every record is in shape; the fit check answers a verdict (Backend.Serve,
   placementCheck). *)
TypeOK ==
    /\ node \in [Node -> {"none", "starting", "ready", "broken"}]
    /\ obj \in [Preset -> Object]
    /\ pods \in [Preset -> SUBSET Node]
    /\ judged \in [Preset -> [Node -> 0..100]]
    /\ call \in [Call -> CallState]
    /\ calm \in BOOLEAN
    /\ writes \in Nat /\ events \in Nat

JudgedAs(p, n) == judged[p][n] > 0 /\ obj[p].util <= judged[p][n]

Claims(n) ==
    LET claim(p) == Claim(obj[p].util, n)
    IN MapThenSumSet(claim, {p \in Preset : n \in pods[p]})

(* However loads, stops and evictions follow each other, as long as they do
   not overlap: on a unified-memory node whose models were all judged there,
   at the utilization they run at or a higher one, what vLLM claims leaves
   the host its headroom (unifiedClaimOn, sized, reservedByNode). *)
HeadroomKept ==
    calm => \A n \in Node :
        Unified(n) /\ (\A p \in Preset : n \in pods[p] => JudgedAs(p, n))
            => Claims(n) <= AtLeast(Memory(n) - Headroom, 0)

(* What README.md says of every copy: also of those added to a model that is
   served already (addCopies). *)
CopiesKeepHeadroom ==
    calm => \A n \in Node :
        Unified(n) /\ (\A p \in Preset : n \in pods[p] => judged[p][n] > 0)
            => Claims(n) <= AtLeast(Memory(n) - Headroom, 0)

(* Loads that do not overlap never promise more devices of a node than it
   has, counting every model recorded on the node or pinned to it, as long as
   the shapes derived for it are at most the presets' own (judgeNode,
   freeGPUs, withTaken); a split is not judged by devices. *)
Promised(n) == {p \in Preset : obj[p].state = "up" /\ n \in ServingNodes(p) /\ judged[p][n] > 0}

DevicesKept ==
    calm => \A n \in Node :
        Discrete(n) /\ (\A p \in Promised(n) : ~obj[p].split /\ obj[p].devices <= Gpus(p))
            => LET devices(p) == obj[p].devices
               IN MapThenSumSet(devices, Promised(n)) <= GpuDevices(n)

(* While an object is up, whatever loads overlap, the nodes it is recorded on
   or pinned to stay among its nodes, and the shape and pool it was judged for
   stay; what is on its way out does not come back (Serve, addCopies). *)
ServedNodesStay ==
    [][\A p \in Preset :
          /\ obj[p].state = "up" /\ obj[p]'.state = "up" =>
                /\ Fixed(p) \subseteq Fixed(p)'
                /\ obj[p]'.devices = obj[p].devices /\ obj[p]'.util = obj[p].util
                /\ obj[p]'.pool = obj[p].pool /\ obj[p]'.split = obj[p].split
          /\ obj[p].state = "stopping" => obj[p]'.state # "up"]_vars
=============================================================================
