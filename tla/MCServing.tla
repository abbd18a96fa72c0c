------------------------------ MODULE MCServing ------------------------------
(* Small instances of Serving: two presets of the model, one call at a time
   unless a configuration has more. *)
EXTENDS Serving, TLC

(* What one behaviour is about: four calls one after the other without a
   fault ("serial"), or two and a restart or a request that fails, with the
   reconciler ("loop") or with callers that keep reading ("reader"). *)
VARIABLE part

mcVars == <<part, vars>>

Room ==
    IF part = "serial" THEN act[Loop] = Idle /\ faults = 0
    ELSE /\ calls <= 2
         /\ \A id \in JobId : phase[id] # "absent" => id <= 2
         /\ part = "reader" => act[Loop] = Idle

Within(A) == UNCHANGED part /\ A /\ Room'

MCInit == Init /\ part \in {"serial", "loop", "reader"}

MCNext ==
    \/ \E c \in Call :
        \/ Within(Load(c)) \/ Within(Unload(c)) \/ Within(Unwire(c)) \/ Within(UnloadFails(c))
        \/ Within(Read(c))
    \/ Within(Reconcile)
    \/ \E a \in Actor : Within(Index(a)) \/ Within(Item(a)) \/ Within(Wire(a)) \/ Within(WireFails(a))
    \/ \E id \in JobId : Within(LoadJob(id))
    \/ \E p \in Preset : Within(Controller(p))
    \/ Within(PortalUnwires) \/ Within(Restart)

(* Fairness of Serving; the ticker comes back, or callers do. *)
MCFairness ==
    /\ \A a \in Actor : WF_mcVars(Within(Index(a) \/ Item(a) \/ Wire(a)))
    /\ \A c \in Call :
        /\ WF_mcVars(Within(LoadStartJob(c)))
        /\ WF_mcVars(Within(UnloadDelete(c) \/ UnloadCheck(c) \/ UnloadEndJob(c) \/ UnloadAwait(c)
                                \/ UnloadRemove(c)))
        /\ WF_mcVars(part = "reader" /\ Within(Read(c)))
    /\ \A id \in JobId :
        WF_mcVars(Within(JobBegin(id) \/ JobPoll(id) \/ JobStops(id) \/ JobCheck(id)
                             \/ JobLook(id) \/ JobWrite(id)))
    /\ WF_mcVars(Within(Reconcile))

MCSpec == MCInit /\ [][MCNext]_mcVars /\ MCFairness

(* Whatever a ModelConfig of this instance names is still up (NoDangling), when
   calls follow one another: an unload ends the load job before it removes. *)
NoDanglingInTurn == part = "serial" => NoDangling

(* A model that stays up and Ready is wired again and again, whatever ended its
   load job or failed its wiring, where somebody lists the loaded models again
   and again: the reconciler (Run), or callers (loadedViews). *)
ReadyGetsWired ==
    \A p \in Preset :
        <>[](obj[p].state = "up" /\ obj[p].ready) =>
            []<>(part = "serial" \/ mc # NoPreset \/ Foreign(p))
=============================================================================
