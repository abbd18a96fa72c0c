------------------------------ MODULE MCCaches ------------------------------
(***************************************************************************)
(* The caches of the models: what scans say they hold (Inventory) and      *)
(* which claim a node's pods mount (NodeClaims).  The two share no        *)
(* variable; a behaviour runs one of them, Inventory on one node.          *)
(***************************************************************************)
EXTENDS Inventory, NodeClaims, TLC

CONSTANTS n1, n2, n3

MCPlacements == {<<"one", <<n2>>>>, <<"copies", <<n1>>>>, <<"copies", <<n1, n2>>>>,
                 <<"split", <<n1, n2>>>>, <<"split", <<n1, n2, n3>>>>}

(* The calls of NodeClaims. *)
Callers == Permutations(Request)

VARIABLE part

mcVars == <<part, vars, claimVars>>

(* The part that does not run is in one of its initial states.  The split with
   two workers has a part of its own, with one other call. *)
MCInit ==
    /\ part \in {"claims", "workers", "scans"}
    /\ Init /\ ClaimInit
    /\ part = "scans" =>
         /\ base = [there |-> TRUE, bound |-> TRUE, reach |-> Home, each |-> TRUE, class |-> TRUE]
         /\ weights = {Base}

Splits == {c \in Request : call'[c].op = "split"}
Claims(A) ==
    /\ part # "scans" /\ A /\ UNCHANGED <<part, vars>>
    /\ part = "claims" => \A c \in Splits : Len(call'[c].nodes) = 2
    /\ part = "workers" => spent'.calls <= 2 /\ \A c \in Splits : Len(call'[c].nodes) = 3
Scans(A) == part = "scans" /\ A /\ UNCHANGED <<part, claimVars>>

MCNext == Claims(ClaimNext) \/ Scans(Next)

MCSpec == MCInit /\ [][MCNext]_mcVars
=============================================================================
