------------------------------- MODULE Sizing -------------------------------
(***************************************************************************)
(* What a fit check reads of a checkpoint and judges beside its memory     *)
(* (Fit): one sequence in the KV cache, the GPU generation its weights     *)
(* need, the CPU of its pods (kvcache.go, compute.go, shape.go,            *)
(* requests.go, poolfit.go), from files the hub or a registry may not      *)
(* give, one read at a time (fit.go, modelimage.go).                       *)
(*                                                                         *)
(* A checkpoint is what its config.json says, its layers a sequence.       *)
(* Memory is in the unit of Fit, a compute capability in tenths.           *)
(***************************************************************************)
EXTENDS Fit, Sequences, FiniteSetsExt

CONSTANTS
    Checkpoint,  \* Checkpoint[p]: the files of the model preset p serves
    Args,        \* Args[p]: p's vLLM arguments, its CPU request and source
    GpuFact,     \* GpuFact[n]: capability (0: no label), A100, CPU left
    SizeFact,    \* SizeFact[s]: the same of the pool's size s, and what its name tells
    Reserve,     \* what vLLM holds beside weights and KV cache
    LargeGPU,    \* GPU memory from which vLLM batches more
    Batch,       \* tokens it batches by default: [small, large]
    Held,        \* what running models may reserve on the node
    MaxChecks, MaxFaults

CheckpointFacts ==
    [known: BOOLEAN, types: Seq(STRING), listed: BOOLEAN, shared: Nat, latent: Nat, heads: Nat, dim: Nat,
     wideHeads: Nat, wideDim: Nat, window: Nat, index: Nat, ratio: Nat, cache: STRING, dtype: STRING,
     method: STRING, groups: SUBSET STRING, algos: SUBSET STRING, mixed: BOOLEAN, file: STRING]
ArgFacts == [given: BOOLEAN, len: Nat \ {0}, batched: Nat, cache: STRING, dtype: STRING, block: Nat \ {0},
             chunked: BOOLEAN, tp: Nat \ {0}, pipeline: BOOLEAN, cpu: Nat, source: STRING]
GpuFacts == [capability: Nat, a100: BOOLEAN, cpu: Nat]
PoolSizeFacts == [capability: Nat, family: Nat, gpuMem: Nat, gpus: Nat, cpu: Nat]

ASSUME SizingBounds == {Reserve, LargeGPU, MaxChecks, MaxFaults} \subseteq Nat /\ Held \subseteq Nat
ASSUME ModelAssumption == Checkpoint \in [Preset -> CheckpointFacts] /\ Args \in [Preset -> ArgFacts]
ASSUME GpuAssumption == GpuFact \in [Node -> GpuFacts] /\ SizeFact \in Seq(PoolSizeFacts) \ {<<>>}
ASSUME BatchAssumption == Batch \in [small: Nat, large: Nat]

VARIABLES
    plan,    \* the check in progress: what it asks and has read
    images,  \* the model images remembered, per preset
    answer,  \* the last answer
    spent    \* bounds: checks asked, reads that failed

sizeVars == <<plan, images, answer, spent>>

-----------------------------------------------------------------------------
Owning(c) == 1..(Len(c.types) - c.shared)
CountOf(c, t) == Cardinality({i \in Owning(c) : c.types[i] = t})

(* kvLayersOf: the layers that hold a cache, grouped by what they hold. *)
Readable(c) ==
    /\ c.known /\ Len(c.types) > 0 /\ c.cache # "nvfp4"
    /\ c.latent = 0 => /\ c.heads > 0 /\ c.dim > 0
                       /\ c.listed => \A i \in Owning(c) : c.types[i] \in {"full", "sliding", "state"}
                       /\ CountOf(c, "sliding") > 0 => c.window > 0
                       /\ c.window > 0 => c.listed
                       /\ c.index > 0 => c.ratio > 0

Layers(count, heads, dim) == [count |-> count, heads |-> heads, dim |-> dim,
                              latent |-> 0, window |-> 0, per |-> 1, elem |-> 0]

(* Mutant: every layer is sized by the narrow heads, the last ones hold a cache. *)
MutKvLayers(c) ==
    IF c.latent > 0 THEN {[Layers(Len(c.types), 0, 0) EXCEPT !.latent = c.latent]}
    ELSE {l \in {Layers(CountOf(c, "full"), c.heads, c.dim),
                 [Layers(CountOf(c, "sliding"), c.heads, c.dim) EXCEPT !.window = c.window]} : l.count > 0}

KvLayers(c) ==
    LET full == Layers(CountOf(c, "full"), c.wideHeads, c.wideDim)
        sliding == [Layers(CountOf(c, "sliding"), c.heads, c.dim) EXCEPT !.window = c.window]
        index == [Layers(IF c.index > 0 THEN full.count ELSE 0, 0, 0)
                    EXCEPT !.latent = c.index, !.per = c.ratio, !.elem = 2]
    IN IF c.latent > 0 THEN {[Layers(Len(c.types), 0, 0) EXCEPT !.latent = c.latent]}
       ELSE {l \in {full, sliding, index} : l.count > 0}

(* dtypeBytes: of one element; 0 for a layout the check does not compute. *)
ElemBytes(c, a) ==
    LET cache == IF a.cache = "auto" /\ c.cache # "none" THEN c.cache ELSE a.cache
        dtype == IF a.dtype = "auto" THEN c.dtype ELSE a.dtype
    IN CASE cache = "fp8" -> 1
         [] cache = "bf16" -> 2
         [] cache = "auto" /\ dtype \in {"bf16", "fp16", "fp32", "none"} -> 2
         [] OTHER -> 0

(* needBytes: of one sequence of len tokens, on each of tp GPUs. *)
Blocks(l, a, len, batched) ==
    LET window == AtMost(l.window - 1 + batched, len)
    IN IF l.window > 0 THEN CeilDiv(window, a.block) + 1 ELSE CeilDiv(len, a.block)

Need(c, a, tp, len, batched) ==
    LET chunk == IF a.chunked THEN batched ELSE AtLeast(batched, len)
        perState(l) == IF l.latent > 0 THEN l.latent ELSE 2 * AtLeast(l.heads \div tp, 1) * l.dim
        elem(l) == IF l.elem > 0 THEN l.elem ELSE ElemBytes(c, a)
        of(l) == l.count * Blocks(l, a, len, chunk) * (a.block \div l.per) * perState(l) * elem(l)
    IN MapThenSumSet(of, KvLayers(c))

-----------------------------------------------------------------------------
(* judge: the KV cache on a GPU of mem, at utilization u, on tp GPUs. *)
Batched(a, mem, a100) ==
    IF a.batched > 0 THEN a.batched
    ELSE IF mem >= LargeGPU /\ ~a100 THEN Batch.large ELSE Batch.small

Left(w, tp, u, mem) == (u * mem) \div 100 - w \div tp - Reserve

(* Mutant: the search steps over a length. *)
MutLongest(p, left, tp, batched) ==
    LET holds(len) == Need(Checkpoint[p], Args[p], tp, len, batched) <= left
        f[r \in (1..Args[p].len + 1) \X (0..Args[p].len)] ==
            LET lo == r[1]
                hi == r[2]
                mid == (lo + hi) \div 2
            IN CASE lo > hi -> 0
                 [] lo <= hi /\ holds(mid) -> AtLeast(mid, f[<<mid + 1, hi>>])
                 [] OTHER -> f[<<lo, IF mid > lo THEN mid - 2 ELSE mid - 1>>]
    IN f[<<1, Args[p].len>>]

(* The longest length that fits: the binary search of vLLM. *)
Longest(p, left, tp, batched) ==
    LET holds(len) == Need(Checkpoint[p], Args[p], tp, len, batched) <= left
        f[r \in (1..Args[p].len + 1) \X (0..Args[p].len)] ==
            LET lo == r[1]
                hi == r[2]
                mid == (lo + hi) \div 2
            IN CASE lo > hi -> 0
                 [] lo <= hi /\ holds(mid) -> AtLeast(mid, f[<<mid + 1, hi>>])
                 [] OTHER -> f[<<lo, mid - 1>>]
    IN f[<<1, Args[p].len>>]

Unjudged == [skip |-> TRUE, fits |-> FALSE, longest |-> 0]

JudgeKV(p, w, tp, u, mem, a100) ==
    LET c == Checkpoint[p]
        a == Args[p]
        left == Left(w, tp, u, mem)
        batched == Batched(a, mem, a100)
        ok == left > 0 /\ Need(c, a, tp, a.len, batched) <= left
    IN IF plan.kv = "skip" \/ mem = 0 \/ ElemBytes(c, a) = 0 THEN Unjudged
       ELSE [skip |-> FALSE, fits |-> ok,
             longest |-> IF ok \/ left <= 0 THEN 0 ELSE Longest(p, left, tp, batched)]

(* judgeOn: a GPU that shares its node's memory is judged against that;
   several that share it are not judged. *)
JudgeKVOn(p, w, n, shape) ==
    LET f == NodeFact[n] IN
    IF f.gpuMem = 0 /\ f.count > 1 THEN Unjudged
    ELSE JudgeKV(p, w, shape.tp, shape.util, IF Unified(n) THEN f.memory ELSE f.gpuMem, GpuFact[n].a100)

-----------------------------------------------------------------------------
(* computeNeedOf, quantizedNeed: the capability the weights need; 0 if none,
   or none that is told. *)
Precise(S) == IF S \cap {"fp4", "fp8"} # {} THEN 89 ELSE 0

Capability(c, a) ==
    LET floats == IF c.method = "modelopt" /\ Precise(c.groups) = 0 THEN c.algos ELSE c.groups
        dtype == IF a.dtype = "auto" THEN c.dtype ELSE a.dtype
    IN CASE c.method = "fp8" -> 89
         [] c.method \in {"compressed-tensors", "modelopt"} /\ Precise(floats) > 0 -> Precise(floats)
         [] c.method = "modelopt" /\ Precise(floats) = 0 /\ c.mixed -> 0
         [] OTHER -> IF dtype = "bf16" THEN 80 ELSE 0

(* judgeNode, judgeShape: unknown generations are not judged. *)
Generation(p, have) == have = 0 \/ have >= Capability(Checkpoint[p], Args[p])
SizeCapability(s) == IF SizeFact[s].capability > 0 THEN SizeFact[s].capability ELSE SizeFact[s].family

-----------------------------------------------------------------------------
(* shapeOn: the shape a predictor gets on a node of its own. *)
Reference(p) == [devices |-> Gpus(p), tp |-> Args[p].tp, util |-> PresetFact[p].util]

Derived(n) == NodeFact[n].gpuMem > 0 \/ NodeFact[n].count = 1

SizedOn(p, w, n, held) ==
    LET u == Utilization(p, n, held, w + Overhead(p)) IN IF u > 0 THEN u ELSE PresetFact[p].util

ShapeOn(p, w, n, held) ==
    LET d == DevicesOn(p, n, w + Overhead(p)) IN
    CASE Args[p].pipeline -> Reference(p)
      [] ~Args[p].pipeline /\ Derived(n) -> [devices |-> d, tp |-> d, util |-> SizedOn(p, w, n, held)]
      [] OTHER -> [Reference(p) EXCEPT !.util = SizedOn(p, w, n, held)]

(* unifiedClaimOn: the utilization a refusal advises where the claim is
   short of the need; 0 for none. *)
Advised(p, w, n, held) ==
    LET u == Sized(w + Overhead(p), n) IN
    IF /\ Unified(n) /\ Claim(PresetFact[p].util, n) < w + Overhead(p)
       /\ Claim(PresetFact[p].util, n) <= Available(n, held)
       /\ u \in 1..100 /\ Claim(u, n) <= Available(n, held)
    THEN u ELSE 0

(* fitRequests: a request is capped at what the node has left, and refused
   where it has nothing left. *)
HasRoom(p, n) == Args[p].cpu <= GpuFact[n].cpu \/ GpuFact[n].cpu > 0

-----------------------------------------------------------------------------
(* The check: one read of the hub or the registry is one step *)

Files == {"unread", "read", "none", "failed"}
NoImage == [known |-> FALSE, label |-> FALSE, file |-> FALSE]
NoAnswer == [kind |-> "none", preset |-> CHOOSE p \in Preset : TRUE, where |-> NoNode, size |-> 0,
             held |-> 0, w |-> 0, fits |-> FALSE, kv |-> "skip", compute |-> "skip", config |-> "unread",
             shape |-> [devices |-> 0, tp |-> 1, util |-> 0], longest |-> 0, advised |-> 0]

Rest == [pc |-> "idle", preset |-> NoAnswer.preset, where |-> NoNode, held |-> 0, w |-> 0,
         hub |-> FALSE, image |-> NoImage, config |-> "unread", kv |-> "skip", compute |-> "skip"]

Cost(what, n) == spent[what] < n /\ spent' = [spent EXCEPT ![what] = @ + 1]
Fault == Cost("faults", MaxFaults)
Only(p) == plan' = p /\ UNCHANGED <<images, answer>>
FromImage(p) == Args[p].source = "image"

Ask ==
    /\ plan.pc = "idle" /\ Cost("checks", MaxChecks)
    /\ \E p \in Preset, n \in Node \cup {NoNode}, held \in Held :
         Only([Rest EXCEPT !.pc = "size", !.preset = p, !.where = n, !.held = held])

(* sizeModel: the hub's weights, or the preset's; a tree the hub does not
   give ends the check. *)
SizeHub ==
    LET p == plan.preset
        sized(ok) == [plan EXCEPT !.pc = "kv", !.hub = ok,
                                  !.w = IF ok THEN PresetFact[p].hub ELSE PresetFact[p].declared]
    IN
    /\ plan.pc = "size" /\ ~FromImage(p)
    /\ \/ Only(sized(TRUE)) /\ UNCHANGED spent
       \/ Only(sized(FALSE)) /\ Fault
       \/ Only(Rest) /\ Fault

(* sizeModelImage, readModelImage: an image is remembered once its manifest
   is read, also when its label or its files were not. *)
SizeImage ==
    LET p == plan.preset
        Told(i) == [plan EXCEPT !.pc = "kv", !.image = i,
                                !.w = IF i.label THEN PresetFact[p].hub ELSE PresetFact[p].declared]
    IN
    /\ plan.pc = "size" /\ FromImage(p) /\ UNCHANGED answer
    /\ \/ images[p].known /\ plan' = Told(images[p]) /\ UNCHANGED <<images, spent>>
       \/ /\ ~images[p].known
          /\ \E i \in [known : BOOLEAN, label : BOOLEAN, file : BOOLEAN] :
               /\ (i.label \/ i.file) => i.known
               /\ IF i.known /\ i.label /\ i.file THEN UNCHANGED spent ELSE Fault
               /\ plan' = Told(i) /\ images' = [images EXCEPT ![p] = i]

(* checkpointConfig: once per plan. *)
ReadConfig ==
    LET has == Checkpoint[plan.preset].file = "config" IN
    IF plan.config # "unread" THEN {plan.config}
    ELSE IF FromImage(plan.preset)
    THEN IF ~plan.image.known THEN {"failed"} ELSE {IF has /\ plan.image.file THEN "read" ELSE "none"}
    ELSE IF ~plan.hub THEN {"failed"} ELSE {IF has THEN "read" ELSE "none", "failed"}

Paid(c) == IF c = "failed" /\ plan.config = "unread" /\ plan.hub THEN Fault ELSE UNCHANGED spent

(* kvCheckFor: arguments that cannot be judged skip it before any read. *)
CheckKV ==
    LET p == plan.preset IN
    /\ plan.pc = "kv"
    /\ IF ~Args[p].given \/ Args[p].pipeline THEN Only([plan EXCEPT !.pc = "compute"]) /\ UNCHANGED spent
       ELSE \E c \in ReadConfig :
              /\ Paid(c)
              /\ Only([plan EXCEPT !.pc = "compute", !.config = c,
                                   !.kv = IF c = "read" /\ Readable(Checkpoint[p]) THEN "judge" ELSE "skip"])

(* computeNeedFor: a checkpoint without a config.json has a params.json. *)
CheckCompute ==
    LET p == plan.preset IN
    /\ plan.pc = "compute"
    /\ \E c \in ReadConfig, params \in BOOLEAN :
         /\ params => c = "none" /\ Checkpoint[p].file = "params" /\ (FromImage(p) => plan.image.file)
         /\ IF c = "none" /\ ~FromImage(p) /\ ~params /\ Checkpoint[p].file = "params" THEN Fault ELSE Paid(c)
         /\ Only([plan EXCEPT !.pc = "judge", !.config = c,
                              !.compute = IF (c = "read" \/ params) /\ Capability(Checkpoint[p], Args[p]) > 0
                                          THEN "judge" ELSE "skip"])

(* Mutant: only the KV cache is judged. *)
MutJudgeThere(p, w, n, held, room) ==
    LET sh == ShapeOn(p, w, n, held)
        kv == JudgeKVOn(p, w, n, sh)
    IN [NoAnswer EXCEPT !.kind = "node", !.preset = p, !.where = n, !.held = held, !.w = w,
          !.fits = kv.fits /\ (room => HasRoom(p, n)), !.shape = sh]

(* judgeNode: a check that was skipped refuses nothing, and is named; room:
   the pods of the node were listed. *)
JudgeThere(p, w, n, held, room) ==
    LET sh == ShapeOn(p, w, n, held)
        need == w + Overhead(p)
        alloc == NodeFact[n].alloc
        kv == JudgeKVOn(p, w, n, sh)
        judges == plan.compute = "judge" /\ GpuFact[n].capability > 0
    IN [NoAnswer EXCEPT !.kind = "node", !.preset = p, !.where = n, !.held = held, !.w = w,
          !.fits = /\ need <= NodeFact[n].budget - held /\ Utilization(p, n, held, need) > 0
                   /\ alloc = 0 \/ sh.devices <= alloc
                   /\ Discrete(n) => GpuDevices(n) >= Gpus(p)
                   /\ room => HasRoom(p, n)
                   /\ kv.skip \/ kv.fits
                   /\ judges => Generation(p, GpuFact[n].capability),
          !.kv = IF kv.skip THEN "skip" ELSE "judge", !.compute = IF judges THEN "judge" ELSE "skip",
          !.config = plan.config, !.shape = sh, !.longest = kv.longest, !.advised = Advised(p, w, n, held)]

(* placeOnPool, hosts: the smallest size that hosts it, in its own shape. *)
JudgePool(p, w) ==
    LET own == Reference(p)
        kv(s) == JudgeKV(p, w, own.tp, own.util, SizeFact[s].gpuMem, FALSE)
        judges(s) == plan.compute = "judge" /\ SizeCapability(s) > 0
        hosts == {s \in DOMAIN SizeFact :
                    /\ Args[p].cpu <= SizeFact[s].cpu /\ Gpus(p) <= SizeFact[s].gpus
                    /\ w + Overhead(p) <= SizeFact[s].gpuMem * Gpus(p)
                    /\ kv(s).skip \/ kv(s).fits
                    /\ judges(s) => Generation(p, SizeCapability(s))}
        s == IF hosts # {} THEN Min(hosts) ELSE Len(SizeFact)
    IN [NoAnswer EXCEPT !.kind = "pool", !.preset = p, !.size = s, !.w = w, !.fits = hosts # {},
          !.kv = IF kv(s).skip THEN "skip" ELSE "judge", !.compute = IF judges(s) THEN "judge" ELSE "skip",
          !.config = plan.config, !.shape = own, !.longest = kv(s).longest]

JudgeFit ==
    LET q == plan IN
    /\ q.pc = "judge" /\ plan' = Rest /\ UNCHANGED images
    /\ \/ q.where = NoNode /\ answer' = JudgePool(q.preset, q.w) /\ UNCHANGED spent
       \/ /\ q.where # NoNode
          /\ \E room \in BOOLEAN :
               /\ IF room THEN UNCHANGED spent ELSE Fault
               /\ answer' = JudgeThere(q.preset, q.w, q.where, q.held, room)

SizingInit ==
    /\ plan = Rest /\ answer = NoAnswer /\ images = [p \in Preset |-> NoImage]
    /\ spent = [checks |-> 0, faults |-> 0]

SizingNext == Ask \/ SizeHub \/ SizeImage \/ CheckKV \/ CheckCompute \/ JudgeFit

SizingSpec == SizingInit /\ [][SizingNext]_sizeVars

-----------------------------------------------------------------------------
(* Properties *)

SizingTypeOK ==
    /\ plan.pc \in {"idle", "size", "kv", "compute", "judge"} /\ plan.config \in Files
    /\ plan.preset \in Preset /\ plan.where \in Node \cup {NoNode} /\ plan.held \in Held
    /\ plan.image \in [known : BOOLEAN, label : BOOLEAN, file : BOOLEAN]
    /\ answer.kind \in {"none", "node", "pool"} /\ answer.longest \in Nat /\ answer.advised \in 0..100

(* What a layer of the checkpoint holds of a sequence on each of tp GPUs, by
   vLLM: a full layer the sequence and its index, a sliding one the window
   and a prefill chunk, a shared one nothing of its own. *)
LayerHolds(p, i, tp, len, batched) ==
    LET c == Checkpoint[p]
        a == Args[p]
        chunk == IF a.chunked THEN batched ELSE AtLeast(batched, len)
        whole == CeilDiv(len, a.block)
        part == CeilDiv(AtMost(c.window - 1 + chunk, len), a.block) + 1
        each(heads, dim) == a.block * 2 * AtLeast(heads \div tp, 1) * dim * ElemBytes(c, a)
    IN CASE c.latent > 0 -> whole * a.block * c.latent * ElemBytes(c, a)
         [] c.latent = 0 /\ i \notin Owning(c) -> 0
         [] c.latent = 0 /\ i \in Owning(c) /\ c.types[i] = "full" ->
                whole * (each(c.wideHeads, c.wideDim)
                         + (IF c.index > 0 THEN (a.block \div c.ratio) * c.index * 2 ELSE 0))
         [] c.latent = 0 /\ i \in Owning(c) /\ c.types[i] = "sliding" -> part * each(c.heads, c.dim)
         [] OTHER -> 0

(* vLLM admits a sequence of len tokens on GPUs of mem each: beside the weights
   it has memory left, and the sequence fits there. *)
Admits(p, w, tp, u, len, mem, a100) ==
    LET holds(i) == LayerHolds(p, i, tp, len, Batched(Args[p], mem, a100))
        beside == w \div tp + Reserve
    IN /\ beside < (u * mem) \div 100
       /\ MapThenSumSet(holds, DOMAIN Checkpoint[p].types) + beside <= (u * mem) \div 100

GpuThere(a) ==
    IF a.kind = "pool" THEN [mem |-> SizeFact[a.size].gpuMem, a100 |-> FALSE, have |-> SizeCapability(a.size)]
    ELSE [mem |-> IF Unified(a.where) THEN Memory(a.where) ELSE NodeFact[a.where].gpuMem,
          a100 |-> GpuFact[a.where].a100, have |-> GpuFact[a.where].capability]

(* The capability the weights need of a GPU: of every float its quantization
   names, the dtype where it names none. *)
Needs(p, have) ==
    LET c == Checkpoint[p]
        told == CASE c.method = "compressed-tensors" -> c.groups
                  [] c.method = "modelopt" -> c.groups \cup c.algos
                  [] c.method = "fp8" -> {"fp8"}
                  [] OTHER -> {}
        floats == told \cap {"fp4", "fp8"}
        dtype == IF Args[p].dtype = "auto" THEN c.dtype ELSE Args[p].dtype
    IN /\ floats # {} => have >= 89
       /\ floats = {} /\ dtype = "bf16" => have >= 80

(* A model a check accepts, its weights read, starts where it was placed: its
   layers, counted one by one, leave the sequence room beside the weights on
   every GPU of its shape; the GPUs are those the pod requests; their
   generation computes the weights; and a claim on the memory of a host leaves
   it its headroom. *)
StartsThere ==
    LET a == answer
        p == a.preset
        g == GpuThere(a)
        claimed == Unified(a.where) /\ ~Args[p].pipeline
    IN a.kind # "none" /\ a.fits =>
         /\ a.kv = "judge" => Admits(p, a.w, a.shape.tp, a.shape.util, Args[p].len, g.mem, g.a100)
         /\ a.compute = "judge" => Needs(p, g.have)
         /\ a.kind = "node" /\ Derived(a.where) /\ ~Args[p].pipeline => a.shape.tp = a.shape.devices
         /\ a.kind = "node" /\ claimed => /\ Claim(a.shape.util, a.where) <= Available(a.where, a.held)
                                          /\ Claim(a.shape.util, a.where) >= a.w + Overhead(p)

(* What a refusal advises is exact: the length is the longest the GPU holds
   (the binary search of vLLM agrees with counting down), the utilization the
   smallest that holds the need. *)
AdviceIsExact ==
    LET a == answer
        p == a.preset
        g == GpuThere(a)
        w == a.w + Overhead(p)
        admitted == {len \in 1..Args[p].len :
                       Admits(p, a.w, a.shape.tp, a.shape.util, len, g.mem, g.a100)}
    IN a.kind # "none" /\ ~a.fits =>
         /\ a.kv = "judge" /\ Args[p].len \notin admitted => a.longest = Max(admitted \cup {0})
         /\ a.advised > 0 => /\ Claim(a.advised, a.where) \in w..Available(a.where, a.held)
                             /\ \A u \in 1..a.advised - 1 : (u * Memory(a.where)) < 100 * w

(* A check that could not be made refuses nothing: a refusal is of a need
   that is really short of what is there. *)
RefusedForCause ==
    LET a == answer
        p == a.preset
        need == a.w + Overhead(p)
        u == Utilization(p, a.where, a.held, need)
    IN a.kind = "node" /\ ~a.fits =>
         \/ need > NodeFact[a.where].budget - a.held \/ u = 0
         \/ NodeFact[a.where].alloc \in 1..(a.shape.devices - 1)
         \/ Discrete(a.where) /\ GpuDevices(a.where) < Gpus(p)
         \/ GpuFact[a.where].cpu = 0 /\ Args[p].cpu > 0
         \/ a.kv = "judge" /\ ~Admits(p, a.w, a.shape.tp, a.shape.util, Args[p].len, GpuThere(a).mem, GpuThere(a).a100)
         \/ a.compute = "judge" /\ ~Needs(p, GpuThere(a).have)

(* compute.go:27-29: a check that says the checkpoint has no config.json says
   so of a checkpoint that has none. *)
NoConfigIsTrue ==
    answer.config = "none" => Checkpoint[answer.preset].file # "config"

(* shape.go:24-26: the utilization is sized down to the highest that leaves
   the host its headroom. *)
SizedToHighest ==
    LET a == answer
        n == a.where
    IN a.kind = "node" /\ a.fits /\ Unified(n) /\ a.shape.util < PresetFact[a.preset].util =>
         Claim(a.shape.util + 1, n) > Available(n, a.held)

(* fit.go:826-828: nothing on the Kubernetes side limits a claim, so the one a
   preset is composed with leaves the host its headroom, also when it splits
   its layers and keeps its own utilization (shape.go:149-153). *)
ClaimLeavesHost ==
    LET a == answer IN
    a.kind = "node" /\ a.fits /\ Unified(a.where) =>
        Claim(a.shape.util, a.where) <= Available(a.where, a.held)
=============================================================================
