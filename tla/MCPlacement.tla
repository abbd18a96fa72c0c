----------------------------- MODULE MCPlacement -----------------------------
(* Two unified-memory nodes and one with two cards in a pool; two presets. *)
EXTENDS Placement, TLC

CONSTANTS u1, u2, d1, p1, p2, g

Callers == Permutations(Call)

MCNodeFact ==
    (u1 :> [budget |-> 100, memory |-> 100, count |-> 1, alloc |-> 2, gpuMem |-> 0, pool |-> NoPool]) @@
    (u2 :> [budget |-> 110, memory |-> 120, count |-> 1, alloc |-> 2, gpuMem |-> 0, pool |-> NoPool]) @@
    (d1 :> [budget |-> 48, memory |-> 200, count |-> 2, alloc |-> 2, gpuMem |-> 24, pool |-> g])

MCPresetFact ==
    (p1 :> [declared |-> 20, hub |-> 20, overhead |-> 5, gpus |-> 2, util |-> 50]) @@
    (p2 :> [declared |-> 10, hub |-> 12, overhead |-> 5, gpus |-> 1, util |-> 50])

MCSizes == g :> {[rank |-> 1, gpus |-> 2, gpuMem |-> 24]}

MCLink == {{u1, u2}}

(* Where loads overlap, every node is there at the start. *)
MCInit == Init /\ (calm \/ \A n \in Node : node[n] = "ready")
MCSpec == MCInit /\ [][Next]_vars
==============================================================================
