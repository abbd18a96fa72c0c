--------------------------- MODULE MCBackendTools ---------------------------
(* Small instances of BackendTools, with the registry it extends. *)
EXTENDS BackendTools

CONSTANTS kserve, second, broken

(* What one behaviour is about: a call of a tool on one backend while others
   write documents ("tools"), or the documents of a static and of another
   name with nobody calling ("documents"). *)
VARIABLE part

mcVars == <<part, vars>>

Contents == IF part = "tools" THEN Content \ {second} ELSE Content \ {broken}

Held == {doc[n] : n \in Name} \ {NoDoc}

Room ==
    /\ Held \subseteq Contents
    /\ part = "tools" => \A n \in Name \ {kserve} : doc[n] = NoDoc
    /\ \A c \in Client : tool[c] # Idle => part = "tools" /\ tool[c].name = kserve

NoConfigs == [m \in Model |-> "none"]

MCInit ==
    /\ part \in {"tools", "documents"}
    /\ Init
    /\ \A n \in Name : n # kserve \/ part = "documents" => mc[n] = NoConfigs
    /\ Room

Within(A) == UNCHANGED part /\ A /\ Room'

Delivers(n) == Deliver(n) /\ UNCHANGED tool /\ ModelConfigs

MCNext ==
    \/ \E n \in Name : Within(Others(n)) \/ Within(Informer(n))
    \/ Within(ProcessRestart)
    \/ \E c \in Client : Within(Add(c)) \/ Within(Remove(c)) \/ Within(Wire(c))

(* The informer retries its watch for ever. *)
MCSpec == MCInit /\ [][MCNext]_mcVars /\ \A n \in Name : WF_mcVars(Within(Delivers(n)))
=============================================================================
