------------------------------- MODULE Phases -------------------------------
(***************************************************************************)
(* internal/backend/kserve: where a serve is (phases.go), read off the     *)
(* predictor pod, its Events, its node and the NodeClaim Karpenter         *)
(* nominated for it (launch.go), and what a list says of it (served.go).   *)
(*                                                                         *)
(* One serving object and one pod at a time.  Times are left out but for   *)
(* what they decide: whether the scale-up budget ran out, a download has   *)
(* stalled, a refusal is younger than the claim.  A list reads the object, *)
(* then the pod, then the rest; each of the last reads may fail.           *)
(***************************************************************************)
EXTENDS Naturals, Sequences

CONSTANTS
    MaxClaims,   \* bound on the NodeClaims nominated
    MaxTroubles, \* bound on refusals, crashes, evictions, expiries, failures
    NoPod, NotRead

ASSUME PhaseBounds == {MaxClaims, MaxTroubles} \subseteq Nat

VARIABLES
    object,    \* the serving object's conditions
    pod,       \* its predictor pod
    events,    \* the pod's Events that stand
    claim,     \* the NodeClaim the Nominated event names
    claims,    \* the claims nominated so far
    refused,   \* the refusal events of the pool, against this claim's age
    gpus,      \* whether the node's accelerators are allocatable
    list,      \* what the list under way has read
    troubles

clusterVars == <<object, pod, events, claim, claims, refused, gpus>>
phaseVars == <<clusterVars, list, troubles>>

ServePhases == <<"scheduling", "nodeStarting", "downloadingWeights", "pullingImage",
                 "loading", "routing", "ready">>
StepState == {"pending", "inProgress", "done", "failed"}

(* An init container is absent from the spec, has no status yet, waits, is
   refused its image, runs, or ended; the runtime has no status yet, waits
   for its image, has it, runs, lies dead, or is backed off from. *)
InitState == {"absent", "none", "waiting", "refused", "running", "stalled", "failed", "done"}
MainState == {"none", "pulling", "refused", "created", "running", "dead", "backoff"}

ServedState == [ready: BOOLEAN, failed: BOOLEAN, deleting: BOOLEAN]
Pod == [place: {"none", "nominated", "bound"}, overdue: BOOLEAN,
        init: InitState, restarted: BOOLEAN,
        main: MainState, died: BOOLEAN, ready: BOOLEAN, restarts: BOOLEAN]
(* A pod is one or is not there. *)
ASSUME PhaseNames == NoPod \notin Pod

ClaimState == {"none", "unknown", "launched", "refused", "gone"}

PhaseTypeOK ==
    /\ object \in ServedState
    /\ pod \in Pod \cup {NoPod}
    /\ events \subseteq {"Nominated", "Pulling", "Pulled"}
    /\ claim \in ClaimState /\ claims \in 0..MaxClaims
    /\ refused \subseteq {"before", "after"}
    /\ gpus \in BOOLEAN
    /\ list \in [object: ServedState \cup {NotRead}, pod: Pod \cup {NoPod, NotRead}]
    /\ troubles \in 0..MaxTroubles

-----------------------------------------------------------------------------
(* The timeline, up to the step under way or failed; each part says whether
   the next one goes on. *)

Stops(steps) == [steps |-> steps, more |-> FALSE]
Goes(steps) == [steps |-> steps, more |-> TRUE]

(* launchFacts: the refusals that stand against the pod are those younger
   than its claim, every one when the claim is gone or was not read, and the
   claim's own. *)
Refusals(how) ==
    (IF how.claim /\ claim \notin {"gone", "none"} THEN refused \ {"before"} ELSE refused)
    \cup (IF how.claim /\ claim = "refused" THEN {"own"} ELSE {})

nodeLaunched(p, how) ==
    \/ p.place = "nominated"
    \/ how.claim /\ how.events /\ "Nominated" \in events /\ claim = "launched"

(* A refusal is only looked for once a claim was nominated. *)
late(p, how) ==
    /\ how.events /\ "Nominated" \in events /\ claim # "none"
    /\ Refusals(how) # {} /\ p.overdue

(* Mutant: a bound pod whose accelerators are not allocatable is still being
   scheduled. *)
MutSchedule(p, how) ==
    IF p.place = "bound" /\ (how.nodes => gpus) THEN Goes(<<"done", "done">>)
    ELSE IF nodeLaunched(p, how) /\ p.place # "bound" THEN Stops(<<"done", "inProgress">>)
    ELSE Stops(<<"inProgress">>)

(* schedule: a bound pod's claim is not asked for. *)
schedule(p, how) ==
    IF p.place = "bound"
    THEN IF how.nodes /\ ~gpus THEN Stops(<<"done", "inProgress">>) ELSE Goes(<<"done", "done">>)
    ELSE IF nodeLaunched(p, how) THEN Stops(<<"done", "inProgress">>)
    ELSE Stops(<<IF late(p, how) THEN "failed" ELSE "inProgress">>)

(* download: without a status of the initializer the step is done. *)
download(p) ==
    IF p.init \in {"absent", "none", "done"} THEN Goes(<<"done">>)
    ELSE IF p.init \in {"refused", "stalled", "failed"} \/ (p.init = "running" /\ p.restarted)
    THEN Stops(<<"failed">>)
    ELSE Stops(<<"inProgress">>)

crashed(p) == p.died \/ p.main = "dead"

(* pull: the runtime's image.  An image or a container refused fails the step,
   also of a runtime that ran before; else one that crashed had its image,
   whether or not the Pulled event still stands, and one backed off from fails
   to load. *)
pullImage(p, how) ==
    LET pulled == how.events /\ "Pulled" \in events
        waits == p.main \in {"pulling", "refused", "created", "backoff"}
    IN  IF p.main \in {"none"} THEN Stops(<<"inProgress">>)
        ELSE IF p.main = "refused" THEN Stops(<<"failed">>)
        ELSE IF waits /\ ~pulled /\ ~crashed(p) THEN Stops(<<"inProgress">>)
        ELSE IF waits THEN Stops(<<"done", IF p.main = "backoff" THEN "failed" ELSE "inProgress">>)
        ELSE Goes(<<"done">>)

(* load: a runtime that died keeps the step under way while the kubelet
   restarts it. *)
load(p) ==
    IF crashed(p) THEN Stops(<<IF p.main = "dead" /\ ~p.restarts THEN "failed" ELSE "inProgress">>)
    ELSE IF ~p.ready THEN Stops(<<"inProgress">>)
    ELSE Goes(<<"done">>)

Then(a, b) == IF a.more THEN [steps |-> a.steps \o b.steps, more |-> b.more] ELSE a

Route(o) == Stops(IF o.ready THEN <<"done", "done">> ELSE <<"inProgress">>)

(* finish: the object's own account of a failure fails the step under way. *)
finish(steps, o) ==
    IF o.failed /\ steps[Len(steps)] = "inProgress" THEN [steps EXCEPT ![Len(steps)] = "failed"]
    ELSE steps

servePhase(o, p, how) ==
    IF p = NoPod THEN finish(IF o.ready THEN [i \in 1..7 |-> "done"] ELSE <<"inProgress">>, o)
    ELSE finish(Then(Then(Then(Then(schedule(p, how), download(p)), pullImage(p, how)), load(p)),
                     Route(o)).steps, o)

Latest(steps) == steps[Len(steps)]
Phase(steps, o) ==
    IF o.deleting THEN "terminating"
    ELSE IF Latest(steps) = "failed" THEN "failed"
    ELSE ServePhases[Len(steps)]

-----------------------------------------------------------------------------
(* The cluster. *)

Trouble == troubles < MaxTroubles /\ troubles' = troubles + 1
Fine == UNCHANGED troubles
OnlyPod(p) == pod' = p /\ UNCHANGED <<object, events, claim, claims, refused, gpus, list>>
Bound == pod # NoPod /\ pod.place = "bound"
Unbound == pod # NoPod /\ pod.place # "bound"

CreatePod ==
    /\ pod = NoPod /\ Fine
    /\ \E init \in {"absent", "none"}, restarts \in BOOLEAN :
         OnlyPod([place |-> "none", overdue |-> FALSE, init |-> init, restarted |-> FALSE,
                  main |-> "none", died |-> FALSE, ready |-> FALSE, restarts |-> restarts])

Nominate ==
    /\ Unbound /\ claim \in {"none", "gone"} /\ claims < MaxClaims /\ Fine
    /\ claim' = "unknown" /\ claims' = claims + 1
    /\ events' = events \cup {"Nominated"}
    /\ refused' = IF refused = {} THEN {} ELSE {"before"}
    /\ UNCHANGED <<object, pod, gpus, list>>

(* An instance comes; a refusal shows on the claim, or in the event Karpenter
   leaves when it deletes it, also for other pods of the pool. *)
Launch ==
    /\ claim = "unknown" /\ claim' = "launched" /\ Fine
    /\ UNCHANGED <<object, pod, events, claims, refused, gpus, list>>
RefuseClaim ==
    /\ claim = "unknown" /\ Trouble
    /\ claim' \in {"refused", "gone"}
    /\ refused' = IF claim' = "gone" THEN refused \cup {"after"} ELSE refused
    /\ UNCHANGED <<object, pod, events, claims, gpus, list>>
RefuseOther ==
    /\ Trouble
    /\ refused' = refused \cup {IF claim \in {"none", "gone"} THEN "before" ELSE "after"}
    /\ UNCHANGED <<object, pod, events, claim, claims, gpus, list>>
LoseClaim ==
    /\ claim \in {"unknown", "refused", "launched"} /\ Unbound /\ Trouble
    /\ claim' = "gone"
    /\ UNCHANGED <<object, pod, events, claims, refused, gpus, list>>

NominateNode ==
    Unbound /\ pod.place = "none" /\ Fine /\ OnlyPod([pod EXCEPT !.place = "nominated"])
BudgetEnds == Unbound /\ ~pod.overdue /\ Fine /\ OnlyPod([pod EXCEPT !.overdue = TRUE])

(* A pod binds to a node once its accelerators are allocatable, or to one
   whose device plugin restarts. *)
Bind ==
    /\ Unbound /\ Fine
    /\ pod' = [pod EXCEPT !.place = "bound", !.overdue = FALSE]
    /\ gpus' \in BOOLEAN
    /\ UNCHANGED <<object, events, claim, claims, refused, list>>
Allocatable ==
    /\ ~gpus /\ gpus' = TRUE /\ Fine
    /\ UNCHANGED <<object, pod, events, claim, claims, refused, list>>

(* The kubelet's first status of the pod's containers. *)
Report ==
    /\ Bound /\ gpus /\ pod.main = "none" /\ Fine
    /\ OnlyPod([pod EXCEPT !.main = "pulling",
                           !.init = IF @ = "none" THEN "waiting" ELSE @])

InitStarts == Bound /\ pod.init = "waiting" /\ Fine /\ OnlyPod([pod EXCEPT !.init = "running"])
InitEnds == Bound /\ pod.init \in {"running", "stalled"} /\ Fine /\ OnlyPod([pod EXCEPT !.init = "done"])
InitTrouble ==
    /\ Bound /\ Trouble
    /\ \/ pod.init = "waiting" /\ OnlyPod([pod EXCEPT !.init = "refused"])
       \/ pod.init = "running" /\ \E to \in {"stalled", "failed"} : OnlyPod([pod EXCEPT !.init = to])
InitAgain ==
    /\ Bound /\ pod.init \in {"refused", "failed"} /\ Fine
    /\ OnlyPod([pod EXCEPT !.init = "running", !.restarted = pod.init = "failed"])

PullingImage == Bound /\ pod.init \in {"absent", "done"} /\ pod.main \in {"pulling", "refused"}
Event(e, main) ==
    /\ PullingImage /\ Fine
    /\ events' = events \cup {e}
    /\ pod' = [pod EXCEPT !.main = main]
    /\ UNCHANGED <<object, claim, claims, refused, gpus, list>>
PullStarts == "Pulling" \notin events /\ Event("Pulling", "pulling")
PullEnds == Event("Pulled", "created")
(* The image, or the container, is refused: the first time, or when a runtime
   that died is restarted. *)
PullTrouble ==
    /\ Bound /\ pod.init \in {"absent", "done"} /\ Trouble
    /\ \/ pod.main \in {"pulling", "refused", "created", "backoff"}
       \/ pod.main = "dead" /\ pod.restarts
    /\ OnlyPod([pod EXCEPT !.main = "refused", !.died = @ \/ pod.main = "dead"])
(* A container that was created and cannot be run is backed off from too. *)
RunTrouble == Bound /\ pod.main = "created" /\ Trouble /\ OnlyPod([pod EXCEPT !.main = "backoff"])

StartsServer == Bound /\ pod.main \in {"created", "backoff"} /\ Fine /\ OnlyPod([pod EXCEPT !.main = "running"])
ProbesPass == Bound /\ pod.main = "running" /\ ~pod.ready /\ Fine /\ OnlyPod([pod EXCEPT !.ready = TRUE])
Crash ==
    /\ Bound /\ pod.main = "running" /\ Trouble
    /\ OnlyPod([pod EXCEPT !.main = "dead", !.ready = FALSE])
BackOff ==
    /\ Bound /\ pod.main = "dead" /\ pod.restarts /\ Fine
    /\ \E main \in {"backoff", "running"} : OnlyPod([pod EXCEPT !.main = main, !.died = TRUE])

(* Events go an hour after they happened. *)
Expire ==
    /\ events # {} /\ Trouble /\ events' = {}
    /\ UNCHANGED <<object, pod, claim, claims, refused, gpus, list>>

Evict ==
    /\ pod # NoPod /\ Trouble
    /\ pod' = NoPod /\ events' = {} /\ claim' = "none" /\ gpus' = FALSE
    /\ UNCHANGED <<object, claims, refused, list>>

(* KServe: the object follows its pod, later. *)
OnlyObject(o) == object' = o /\ UNCHANGED <<pod, events, claim, claims, refused, gpus, list>>
Serving == pod # NoPod /\ pod.ready
Routes == ~object.ready /\ Serving /\ Fine /\ OnlyObject([object EXCEPT !.ready = TRUE, !.failed = FALSE])
Unroutes == object.ready /\ ~Serving /\ Fine /\ OnlyObject([object EXCEPT !.ready = FALSE])
ObjectTrouble ==
    \/ ~object.ready /\ ~object.failed /\ Trouble /\ OnlyObject([object EXCEPT !.failed = TRUE])
    \/ ~object.deleting /\ Trouble /\ OnlyObject([object EXCEPT !.deleting = TRUE])

-----------------------------------------------------------------------------
(* The list: the objects, the pods, then per pod what the phase needs. *)

Reads == [events: BOOLEAN, claim: BOOLEAN, nodes: BOOLEAN]

ReadObject ==
    /\ list.object = NotRead
    /\ list' = [list EXCEPT !.object = object] /\ UNCHANGED <<clusterVars, troubles>>
ReadPods ==
    /\ list.object # NotRead /\ list.pod = NotRead
    /\ list' = [list EXCEPT !.pod = pod] /\ UNCHANGED <<clusterVars, troubles>>
Show ==
    /\ list.pod # NotRead
    /\ list' = [object |-> NotRead, pod |-> NotRead] /\ UNCHANGED <<clusterVars, troubles>>

(* What it shows, when the reads of Events, claim and nodes succeed or not. *)
ShownPhase(how) == servePhase(list.object, list.pod, how)

-----------------------------------------------------------------------------
PhaseInit ==
    /\ object = [ready |-> FALSE, failed |-> FALSE, deleting |-> FALSE]
    /\ pod = NoPod /\ events = {} /\ claim = "none" /\ claims = 0
    /\ refused = {} /\ gpus = FALSE
    /\ list = [object |-> NotRead, pod |-> NotRead] /\ troubles = 0

(* What takes a fresh serve on, in any order. *)
Progress ==
    \/ Nominate \/ Launch \/ NominateNode \/ Bind \/ Allocatable
    \/ InitStarts \/ InitEnds \/ InitAgain \/ PullStarts \/ PullEnds
    \/ StartsServer \/ ProbesPass \/ BackOff \/ Routes
Setback ==
    \/ CreatePod \/ RefuseClaim \/ RefuseOther \/ LoseClaim \/ BudgetEnds \/ InitTrouble \/ PullTrouble
    \/ RunTrouble \/ Crash \/ Expire \/ Evict \/ Unroutes \/ ObjectTrouble

PhaseNext == Progress \/ Report \/ Setback \/ ReadObject \/ ReadPods \/ Show
PhaseSpec == PhaseInit /\ [][PhaseNext]_phaseVars

-----------------------------------------------------------------------------
(* Of a runtime that died a list never says that its image is on the way, or
   that it has come further than loading: the crash is the loading step's,
   with or without the Events (pull, load; phases.go:468 "a crashed runtime had
   its image"), unless its image or its container is refused at the restart,
   which fails the image's step. *)
CrashNamed ==
    list.pod \notin {NotRead, NoPod} /\ (list.pod.died \/ list.pod.main = "dead") =>
      \A how \in Reads :
        LET steps == ShownPhase(how)
            refusedAgain == list.pod.main = "refused"
        IN  Len(steps) > 2 =>
              /\ Len(steps) = (IF refusedAgain THEN 4 ELSE 5)
              /\ Latest(steps) \in (IF refusedAgain THEN {} ELSE {"inProgress"}) \cup {"failed"}

(* The phase moves forward while the cluster does: what takes the serve on
   never shows an earlier step than before (phases.go:17-24). *)
All == [events |-> TRUE, claim |-> TRUE, nodes |-> TRUE]
Reached == Len(servePhase(object, pod, All))
MovesForward == [][Progress => Reached' >= Reached]_phaseVars

(* So does what the kubelet says first of a pod's containers: not when the
   node took the pod before its device plugin was back. *)
EveryStepForward == [][Progress \/ Report => Reached' >= Reached]_phaseVars
==============================================================================
