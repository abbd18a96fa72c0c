--------------------------------- MODULE Fit ---------------------------------
(***************************************************************************)
(* The fit check of the kserve backend: which node, or GPU pool, a model    *)
(* goes to, and the shape its predictor gets there (fit.go, shape.go,       *)
(* poolfit.go, copies.go, placement.go).                                    *)
(*                                                                         *)
(* Memory is in one unit, a --gpu-memory-utilization in hundredths.  The    *)
(* checks of the KV cache, of the GPU generation and of the CPU request,    *)
(* which only narrow what fits, are in Sizing.  The memory request and the  *)
(* preset's own node selector are left out.  Weights kept on disk are not   *)
(* told apart from the others.                                              *)
(***************************************************************************)
EXTENDS Integers, FiniteSets, FiniteSetsExt

CONSTANTS
    Node, Preset, Pool,
    NodeFact,     \* NodeFact[n]: budget, memory, GPUs and pool of node n
    PresetFact,   \* PresetFact[p]: declared and hub weights, overhead, shape
    Sizes,        \* Sizes[k]: the instance shapes of pool k; {} if not known
    Link,         \* fast links, each the set of its nodes
    CacheNodes,   \* nodes that hold the cache, without being the only ones
    Headroom,     \* what a unified-memory node leaves its host
    Pinning,      \* the pool that pins every predictor
    NoNode, NoPool

NodeFacts == [budget: Nat \ {0}, memory: Nat \ {0}, count: Nat, alloc: Nat,
              gpuMem: Nat, pool: Pool \cup {NoPool}]
PresetFacts == [declared: Nat, hub: Nat, overhead: Nat, gpus: Nat \ {0}, util: 1..100]
SizeFacts == [rank: Nat, gpus: Nat, gpuMem: Nat]

ASSUME SetAssumption == Preset # {} /\ IsFiniteSet(Preset) /\ IsFiniteSet(Node)
ASSUME FactAssumption == NodeFact \in [Node -> NodeFacts] /\ PresetFact \in [Preset -> PresetFacts]
ASSUME SizeAssumption == Sizes \in [Pool -> SUBSET SizeFacts]
ASSUME PlaceAssumption == Link \subseteq SUBSET Node /\ CacheNodes \subseteq Node
ASSUME HeadroomAssumption == Headroom \in Nat
ASSUME NoneAssumption == NoNode \notin Node /\ NoPool \notin Pool /\ Pinning \in Pool \cup {NoPool}

AtLeast(a, b) == IF a >= b THEN a ELSE b
AtMost(a, b) == IF a <= b THEN a ELSE b
Least(S) == {x \in S : \A y \in S : x <= y}
Most(S) == {x \in S : \A y \in S : x >= y}
CeilDiv(a, b) == (a + b - 1) \div b
Memory(n) == NodeFact[n].memory
Overhead(p) == PresetFact[p].overhead
Gpus(p) == PresetFact[p].gpus

-----------------------------------------------------------------------------
(* GPU devices *)

(* vllmClaim: GPUs that share the memory of their node. *)
Unified(n) == NodeFact[n].count > 0 /\ NodeFact[n].gpuMem = 0

GpuDevices(n) == IF NodeFact[n].alloc > 0 THEN NodeFact[n].alloc ELSE NodeFact[n].count

Discrete(n) == NodeFact[n].gpuMem > 0 /\ GpuDevices(n) > 0

FreeGPUs(n, taken) ==
    IF Discrete(n) THEN AtLeast(GpuDevices(n) - taken, 0) ELSE GpuDevices(n)

Powers == {1, 2, 4, 8, 16}

(* devicesOn: the smallest power of two whose cards hold the share; the
   preset's own count where the node tells nothing.  Bound: the code doubles
   without end, here it stops at 16, more than a node has. *)
DevicesOn(p, n, share) ==
    LET f == NodeFact[n] IN
    CASE f.count = 1 /\ f.gpuMem = 0 -> 1
      [] f.count # 1 /\ f.gpuMem = 0 -> Gpus(p)
      [] OTHER -> Min({d \in Powers : d * f.gpuMem >= share \/ d = 16})

-----------------------------------------------------------------------------
(* The claim of vLLM on a unified-memory node *)

Claim(u, n) == (u * Memory(n)) \div 100

(* The smallest utilization whose claim holds need. *)
Sized(need, n) == CeilDiv(need * 100, Memory(n))

Available(n, reserved) ==
    AtLeast(AtMost(NodeFact[n].budget, Memory(n) - Headroom) - reserved, 0)

(* unifiedClaimOn, sized: the preset's utilization, or the one sized down from
   it; 0 when neither fits.  A claim short of the need is never sized up. *)
Utilization(p, n, reserved, need) ==
    LET u == PresetFact[p].util
        s == Sized(need, n)
        left == Available(n, reserved)
    IN CASE ~Unified(n) -> u
         [] Unified(n) /\ need <= Claim(u, n) /\ Claim(u, n) <= left -> u
         [] Unified(n) /\ Claim(u, n) > left /\ s \in 1..100 /\ Claim(s, n) <= left -> s
         [] OTHER -> 0

(* presetShare: what a served preset holds on a node, composed at u, one of
   parts nodes of a split. *)
PresetShare(p, n, parts, u) ==
    LET need == CeilDiv(PresetFact[p].declared, parts) + Overhead(p)
    IN IF Unified(n) THEN AtLeast(need, Claim(u, n)) ELSE need

-----------------------------------------------------------------------------
(* The verdict of one node *)

(* What a fit check reads of the cluster: the nodes there, those that are
   serving targets and those still starting, and per node what the models
   served there reserve of its memory and take of its devices. *)
View == [there: SUBSET Node, eligible: SUBSET Node, starting: SUBSET Node,
         reserved: [Node -> Nat], taken: [Node -> Nat]]

Verdict == [fits: BOOLEAN, node: Node \cup {NoNode}, pool: Pool \cup {NoPool},
            devices: Nat, util: 0..100]

Refused == [fits |-> FALSE, node |-> NoNode, pool |-> NoPool, devices |-> 0, util |-> 0]

Free(n, v) == NodeFact[n].budget - v.reserved[n]

PoolOf(n) == IF Pinning # NoPool THEN Pinning ELSE NodeFact[n].pool

(* judgeNode, for weights w.  The devices that must be free are those of the
   preset's reference shape; those of the shape must be allocatable. *)
JudgeNode(p, w, n, v) ==
    LET need == w + Overhead(p)
        u == Utilization(p, n, v.reserved[n], need)
        d == DevicesOn(p, n, need)
        f == NodeFact[n]
    IN [fits |-> /\ need <= AtLeast(Free(n, v), 0)
                 /\ u > 0
                 /\ f.alloc = 0 \/ d <= f.alloc
                 /\ Discrete(n) => FreeGPUs(n, v.taken[n]) >= Gpus(p),
        node |-> n, pool |-> PoolOf(n), devices |-> d, util |-> u]

(* chooseNode: of the nodes that host the model the smallest, the one with
   most left among equals; else the one with most left. *)
ChooseNode(p, w, C, v) ==
    LET hosting == {n \in C : JudgeNode(p, w, n, v).fits}
        budget(n) == NodeFact[n].budget
    IN IF hosting # {}
       THEN {n \in hosting : \A m \in hosting :
                \/ budget(n) < budget(m)
                \/ budget(n) = budget(m) /\ Free(n, v) >= Free(m, v)}
       ELSE {n \in C : \A m \in C : Free(n, v) >= Free(m, v)}

(* candidateNodes *)
Candidates(explicit, v) ==
    IF explicit # NoNode THEN {explicit} \cap v.eligible
    ELSE IF v.eligible \cap CacheNodes # {} THEN v.eligible \cap CacheNodes
    ELSE v.eligible

-----------------------------------------------------------------------------
(* Pools whose node the autoscaler launches *)

InPool(k, v) == {n \in v.there : NodeFact[n].pool = k}

Takes(n, p, v) ==
    /\ n \in v.eligible
    /\ GpuDevices(n) = 0 \/ FreeGPUs(n, v.taken[n]) >= Gpus(p)

AnyTakes(k, p, v) == \E n \in InPool(k, v) : Takes(n, p, v)

Hosting(p, w, k) ==
    {s \in Sizes[k] : Gpus(p) <= s.gpus /\ w + Overhead(p) <= s.gpuMem * Gpus(p)}

(* launchingPool: the pinning pool, else the pool with the smallest size that
   hosts the model; the pool to word the refusal against when none does. *)
LaunchingPools(p, w, v) ==
    LET open == {k \in Pool : ~AnyTakes(k, p, v) /\ Sizes[k] # {}}
        able == {k \in open : Hosting(p, w, k) # {}}
        smallest(k) == Min({s.rank : s \in Hosting(p, w, k)})
    IN CASE Pinning # NoPool -> open \cap {Pinning}
         [] Pinning = NoPool /\ able = {} -> open
         [] OTHER -> {k \in able : \A m \in able : smallest(k) <= smallest(m)}

(* placeOnPool: no node, the reference shape; not verified without sizes. *)
PlaceOnPool(p, w, k) ==
    [fits |-> k = NoPool \/ Sizes[k] = {} \/ Hosting(p, w, k) # {},
     node |-> NoNode, pool |-> k, devices |-> Gpus(p), util |-> PresetFact[p].util]

(* placeModel without a candidate: what a GPU pool, or a node that still
   starts, makes of it. *)
Waiting(p, w, v) ==
    IF Pinning # NoPool /\ InPool(Pinning, v) = {} THEN {PlaceOnPool(p, w, Pinning)}
    ELSE IF LaunchingPools(p, w, v) # {} THEN {PlaceOnPool(p, w, k) : k \in LaunchingPools(p, w, v)}
    ELSE IF v.starting # {} THEN {PlaceOnPool(p, w, PoolOf(n)) : n \in v.starting}
    ELSE {Refused}

(* placeModel *)
PlaceModel(p, w, explicit, v) ==
    LET C == Candidates(explicit, v)
        best(n) ==
            LET j == JudgeNode(p, w, n, v)
            IN IF j.fits \/ explicit # NoNode \/ LaunchingPools(p, w, v) = {} THEN {j}
               ELSE {PlaceOnPool(p, w, k) : k \in LaunchingPools(p, w, v)}
    IN CASE C # {} -> UNION {best(n) : n \in ChooseNode(p, w, C, v)}
         [] C = {} /\ explicit = NoNode -> Waiting(p, w, v)
         [] OTHER -> {Refused}

-----------------------------------------------------------------------------
(* Several nodes *)

(* judgeCopies: one copy on each node, in one shape, at the lowest
   utilization a node leaves. *)
JudgeCopies(p, w, nodes, v) ==
    LET each == UNION {PlaceModel(p, w, n, v) : n \in nodes}
        pools == {j.pool : j \in each}
    IN IF (\E j \in each : ~j.fits) \/ Cardinality({j.devices : j \in each}) > 1 THEN {Refused}
       ELSE UNION {{[j EXCEPT !.pool = IF Cardinality(pools) > 1 THEN NoPool ELSE @, !.util = u] :
                        u \in Least({i.util : i \in each})} : j \in each}

(* judgeSplit: each node holds its share of the weights.  The devices other
   models hold are not looked at, and no pool is named. *)
JudgeSplit(p, w, nodes, v) ==
    LET share == CeilDiv(w, Cardinality(nodes)) + Overhead(p)
        u(n) == Utilization(p, n, v.reserved[n], share)
        all == Most({DevicesOn(p, n, share) : n \in nodes}) \X Least({u(n) : n \in nodes})
        able(d) == /\ nodes \subseteq v.eligible
                   /\ \A n \in nodes : /\ share <= Free(n, v)
                                       /\ u(n) > 0
                                       /\ NodeFact[n].alloc = 0 \/ d <= NodeFact[n].alloc
        fits == {s \in all : able(s[1])}
    IN IF fits = {} THEN {Refused}
       ELSE UNION {{[fits |-> TRUE, node |-> n, pool |-> Pinning, devices |-> s[1], util |-> s[2]] :
                       s \in fits} : n \in nodes}
=============================================================================
