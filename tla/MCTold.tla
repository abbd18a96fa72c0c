------------------------------- MODULE MCTold -------------------------------
(***************************************************************************)
(* What a caller is told: the phase of a serve (Phases), what the cloud    *)
(* has for it (Launch), and whether the cluster can serve at all           *)
(* (Settings).  They share no variable; a behaviour runs one of them.      *)
(***************************************************************************)
EXTENDS Settings, Phases, Launch, TLC

(* The calls of Settings. *)
Callers == Permutations(Call)

VARIABLE part

mcVars == <<part, settingsVars, phaseVars, launchVars>>

(* Up to the names of sizes and zones: clouds that differ in what the pool asks
   for, with one cause besides capacity at first. *)
OneSize == CHOOSE s \in Size : TRUE
OneZone == CHOOSE z \in Zone : TRUE
NarrowCloud ==
    /\ pool.types \in {{OneSize}, Size} /\ pool.class \in {{OneZone}, Zone}
    /\ pool.zones \in {{}, {OneZone}, Zone} /\ (pool.zones # {} => pool.class = Zone)
    /\ cloud.has \subseteq Requested \ cloud.other
    /\ \/ cloud.other = {} /\ cloud.quota \subseteq {OneSize}
       \/ cloud.other = {<<OneSize, OneZone>>} /\ cloud.quota = {}

(* The parts that do not run are in one of their initial states. *)
MCInit ==
    /\ part \in {"settings", "phases", "launch"}
    /\ SettingsInit /\ PhaseInit /\ LaunchInit
    /\ part # "settings" => platform.doc = "absent" /\ platform.api = "no"
    /\ part # "launch" =>
         /\ cloud = [has |-> {}, quota |-> {}, other |-> {}]
         /\ pool = [types |-> Size, zones |-> {}, class |-> Zone]
    /\ NarrowCloud

Loading(A) == part = "settings" /\ A /\ UNCHANGED <<part, phaseVars, launchVars>>
Showing(A) == part = "phases" /\ A /\ UNCHANGED <<part, settingsVars, launchVars>>
Launching(A) == part = "launch" /\ A /\ UNCHANGED <<part, settingsVars, phaseVars>>

MCNext == Loading(SettingsNext) \/ Showing(PhaseNext) \/ Launching(LaunchNext)

MCSpec == MCInit /\ [][MCNext]_mcVars

(* What a phase says of the cluster is so: of the sizes and zones the cloud
   refused (RefusalIsTrue), and of a runtime that died (CrashNamed). *)
SaysWhatIs == RefusalIsTrue /\ CrashNamed
=============================================================================
