------------------------------ MODULE MCPulls ------------------------------
(***************************************************************************)
(* The way of a model to its node: does it fit, and why not (Sizing, over  *)
(* the fit check of Fit), and the Job that downloads it (Downloads).  They *)
(* share no variable; a behaviour runs one of them.                        *)
(*                                                                         *)
(* For Sizing: six presets on a host that shares its memory, one with two  *)
(* cards, one whose GPU has no labels, and a pool of two sizes.            *)
(***************************************************************************)
EXTENDS Sizing, Downloads, TLC

CONSTANTS gb, l40, t4, wide, mla, quant, small, image, split, scaled

Config == [known |-> TRUE, types |-> <<"full", "sliding", "full", "sliding">>, listed |-> TRUE, shared |-> 0,
           latent |-> 0, heads |-> 2, dim |-> 1, wideHeads |-> 2, wideDim |-> 1, window |-> 4, index |-> 0,
           ratio |-> 1, cache |-> "none", dtype |-> "bf16", method |-> "none", groups |-> {}, algos |-> {},
           mixed |-> FALSE, file |-> "config"]

MCCheckpoint ==
    (wide :> [Config EXCEPT !.types = <<"full", "sliding", "state", "full">>, !.shared = 1, !.wideHeads = 1,
                            !.wideDim = 3, !.index = 2, !.ratio = 2]) @@
    (mla :> [Config EXCEPT !.types = <<"full", "full">>, !.latent = 3, !.window = 0,
                           !.method = "compressed-tensors", !.groups = {"fp8", "int4"}]) @@
    (quant :> [Config EXCEPT !.cache = "fp8", !.method = "modelopt", !.algos = {"fp4"}, !.mixed = TRUE]) @@
    (small :> [Config EXCEPT !.file = "params", !.method = "fp8"]) @@
    (image :> Config) @@
    (split :> [Config EXCEPT !.cache = "nvfp4"])

Flags == [given |-> TRUE, len |-> 9, batched |-> 0, cache |-> "auto", dtype |-> "auto", block |-> 2,
          chunked |-> TRUE, tp |-> 1, pipeline |-> FALSE, cpu |-> 2, source |-> "hub"]

MCArgs ==
    (wide :> [Flags EXCEPT !.tp = 2, !.len = 5]) @@
    (mla :> [Flags EXCEPT !.chunked = FALSE]) @@
    (quant :> [Flags EXCEPT !.batched = 2, !.cpu = 5]) @@
    (small :> [Flags EXCEPT !.given = FALSE, !.cpu = 0]) @@
    (image :> [Flags EXCEPT !.source = "image", !.dtype = "fp16", !.cache = "fp8", !.len = 5]) @@
    (split :> [Flags EXCEPT !.pipeline = TRUE])

MCPresetFact ==
    LET P == [declared |-> 40, hub |-> 40, overhead |-> 10, gpus |-> 1, util |-> 50] IN
    (wide :> [P EXCEPT !.hub = 44, !.gpus = 2, !.util = 50]) @@
    (mla :> [P EXCEPT !.util = 90]) @@
    (quant :> P) @@
    (small :> [P EXCEPT !.util = 10]) @@
    (image :> [P EXCEPT !.declared = 60, !.hub = 160, !.util = 95]) @@
    (split :> [P EXCEPT !.gpus = 2, !.util = 70])

MCNodeFact ==
    (gb :> [budget |-> 360, memory |-> 400, count |-> 1, alloc |-> 4, gpuMem |-> 0, pool |-> NoPool]) @@
    (l40 :> [budget |-> 300, memory |-> 400, count |-> 2, alloc |-> 2, gpuMem |-> 150, pool |-> NoPool]) @@
    (t4 :> [budget |-> 120, memory |-> 140, count |-> 2, alloc |-> 0, gpuMem |-> 0, pool |-> scaled])

MCGpuFact ==
    (gb :> [capability |-> 121, a100 |-> FALSE, cpu |-> 3]) @@
    (l40 :> [capability |-> 80, a100 |-> TRUE, cpu |-> 4]) @@
    (t4 :> [capability |-> 75, a100 |-> FALSE, cpu |-> 0])

MCSizeFact ==
    <<[capability |-> 0, family |-> 86, gpuMem |-> 100, gpus |-> 1, cpu |-> 2],
      [capability |-> 89, family |-> 0, gpuMem |-> 200, gpus |-> 2, cpu |-> 4]>>

MCSizes == scaled :> {}
MCBatch == [small |-> 2, large |-> 4]

-----------------------------------------------------------------------------
VARIABLE part

mcVars == <<part, sizeVars, vars>>

(* The part that does not run is in its initial state. *)
MCInit == part \in {"fit", "download"} /\ SizingInit /\ Init

Fits(A) == part = "fit" /\ A /\ UNCHANGED <<part, vars>>
Downloading(A) == part = "download" /\ A /\ UNCHANGED <<part, sizeVars>>

MCNext == Fits(SizingNext) \/ Downloading(Next)

(* A pull goes on; the cluster need not. *)
MCSpec == MCInit /\ [][MCNext]_mcVars /\ \A r \in Ref : WF_mcVars(Downloading(Step(r)))
=============================================================================
