------------------------------- MODULE MCHosts -------------------------------
(***************************************************************************)
(* Three scenes: of HostModels two calls that overlap while the loop waits *)
(* for its ticker, and one call at a time next to the loop and restarts;   *)
(* and the pull of HostPull.                                               *)
(***************************************************************************)
EXTENDS HostModels, HostPull

VARIABLE scene

mcVars == <<scene, hostVars, pullVars>>

MCKeyOf == [r \in Alias |-> CHOOSE k \in Key : TRUE]

ModelsInit ==
    /\ HostInit
    /\ driver \in {<<"lmstudio", "ollama">>, <<"lemonade", "lmstudio">>}
    /\ library[1] = Key

Init ==
    /\ scene \in {"calls", "loop", "pull"}
    /\ ModelsInit /\ PullInit
    /\ scene = "pull" => driver = <<"lmstudio", "ollama">> /\ library[2] = Key
    /\ scene # "pull" => server = "ollama" /\ keyed = "asked" /\ kept = {}

FirstCall == CHOOSE c \in Call : TRUE

Models ==
    /\ scene # "pull" /\ HostNext /\ UNCHANGED <<scene, pullVars>>
    /\ scene = "calls" => /\ act'[Loop] = Idle /\ window' = window
                          /\ \A c \in Call : act'[c].op # "wire"
                          /\ \A h \in Host, r \in Ref : ~config'[h][r].flux
    /\ scene = "loop" => /\ \A c \in Call \ {FirstCall} : act'[c] = Idle
                         /\ act'[FirstCall].op # "unload"
                         /\ act' = act => resident' = resident

Pull == scene = "pull" /\ PullNext /\ UNCHANGED <<scene, hostVars>>

Next == Models \/ Pull

Spec ==
    /\ Init /\ [][Next]_mcVars
    /\ WF_mcVars(scene = "loop" /\ Refresh /\ UNCHANGED <<scene, pullVars>>)
    /\ WF_mcVars(scene = "pull" /\ JobStep /\ UNCHANGED <<scene, hostVars>>)
=============================================================================
