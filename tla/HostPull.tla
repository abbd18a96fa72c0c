------------------------------ MODULE HostPull ------------------------------
(***************************************************************************)
(* The pull job of a host driver (service.go startPull over ollama,        *)
(* lemonade and lmstudio): a stream of events the host ends, or a download *)
(* job it is asked about; then the ModelConfig of what was pulled.  The    *)
(* host may break, pause or mislabel the download, and keys the model by   *)
(* the name asked for, one that folds to it, or another.                   *)
(***************************************************************************)
EXTENDS Naturals

CONSTANTS MaxUnknown, \* statuses in a row that are neither progress nor an end
          MaxPulls, MaxHostEvents, MaxReads

ASSUME PullBounds == {MaxUnknown, MaxPulls, MaxHostEvents, MaxReads} \subseteq Nat

Name == {"asked", "folded", "other"}
Streams == {"ollama", "lemonade"}
PullDriver == Streams \cup {"lmstudio"}
Odd == {"paused", "unknown"}

VARIABLES
    server,    \* the host's driver
    keyed,     \* the name the host keys the model by
    kept,      \* the models it has
    download,  \* its download
    bytes,     \* how far that is, of 2
    job,       \* the job: where it is, the odd statuses in a row, what it reported
    cancelled, \* whether its context was
    wired,     \* the model the ModelConfig names, or "none"
    count      \* bounds: pulls, events on the host, reads that failed

pullVars == <<server, keyed, kept, download, bytes, job, cancelled, wired, count>>

Ended == {"succeeded", "failed", "cancelled"}

PullTypeOK ==
    /\ server \in PullDriver /\ keyed \in Name /\ kept \subseteq Name
    /\ download \in {"none", "downloading", "completed", "failed", "broken"} \cup Odd
    /\ bytes \in 0..2
    /\ job \in [pc: {"idle", "running", "resolve", "wire"} \cup Ended,
                odd: 0..MaxUnknown + 1, said: 0..2]
    /\ cancelled \in BOOLEAN /\ wired \in Name \cup {"none"}
    /\ count \in [pulls: 0..MaxPulls, events: 0..MaxHostEvents, reads: 0..MaxReads]

-----------------------------------------------------------------------------
SpendPull(what, n) == count[what] < n /\ count' = [count EXCEPT ![what] = @ + 1]
Free == UNCHANGED count
OnlyJob(j) == job' = j /\ UNCHANGED <<server, keyed, kept, download, bytes, wired>>
End(how) == [job EXCEPT !.pc = how]

(* GetModel: the name itself, else the only one that folds to it. *)
Found == kept \cap {"asked", "folded"} # {}
FoundName == IF "asked" \in kept THEN "asked" ELSE "folded"

-----------------------------------------------------------------------------
(* The job starts the download; one that is there already is done. *)
StartPull ==
    /\ job.pc = "idle" \/ job.pc \in Ended
    /\ SpendPull("pulls", MaxPulls)
    /\ cancelled' = FALSE
    /\ job' = [pc |-> "running", odd |-> 0, said |-> 0]
    /\ download' = IF keyed \in kept THEN "completed" ELSE "downloading"
    /\ bytes' = IF keyed \in kept THEN 2 ELSE 0
    /\ UNCHANGED <<server, keyed, kept, wired>>

(* A stream is read until its success event, an error or its end. *)
ReadStream ==
    /\ job.pc = "running" /\ server \in Streams /\ Free
    /\ \/ /\ download \in {"downloading"} \cup Odd /\ job.said # bytes /\ OnlyJob([job EXCEPT !.said = bytes])
       \/ download = "completed" /\ OnlyJob([job EXCEPT !.pc = "wire", !.said = 2])
       \/ download \in {"failed", "broken"} /\ OnlyJob(End("failed"))
    /\ UNCHANGED cancelled

(* Mutant: an odd status is progress. *)
MutPoll ==
    /\ job.pc = "running" /\ server = "lmstudio" /\ Free
    /\ \/ download = "completed" /\ OnlyJob([job EXCEPT !.pc = "resolve"])
       \/ download = "failed" /\ OnlyJob(End("failed"))
       \/ download \in {"downloading"} \cup Odd /\ OnlyJob([job EXCEPT !.odd = 0, !.said = bytes])
    /\ UNCHANGED cancelled

(* LM Studio is polled: an end, progress, or one odd status more. *)
Poll ==
    /\ job.pc = "running" /\ server = "lmstudio" /\ Free
    /\ \/ download = "completed" /\ OnlyJob([job EXCEPT !.pc = "resolve"])
       \/ download = "failed" /\ OnlyJob(End("failed"))
       \/ download = "downloading" /\ OnlyJob([job EXCEPT !.odd = 0, !.said = bytes])
       \/ /\ download \in Odd
          /\ OnlyJob(IF job.odd = MaxUnknown THEN End("failed")
                     ELSE [job EXCEPT !.odd = @ + 1, !.said = bytes])
    /\ UNCHANGED cancelled

PollFails ==
    /\ job.pc \in {"running", "resolve"} /\ server = "lmstudio" /\ SpendPull("reads", MaxReads)
    /\ OnlyJob(End("failed")) /\ UNCHANGED cancelled

(* finishPull: the reference has to name a model the host has. *)
FinishPull ==
    /\ job.pc = "resolve" /\ Free
    /\ OnlyJob(IF Found THEN [job EXCEPT !.pc = "wire", !.said = 2] ELSE End("failed"))
    /\ UNCHANGED cancelled

(* The wiring: the canonical name, the caller's when the read fails or finds
   none; a cancelled one writes nothing. *)
WirePulled ==
    /\ job.pc = "wire"
    /\ \/ /\ cancelled /\ OnlyJob(End("cancelled")) /\ Free
       \/ /\ ~cancelled
          /\ \/ wired' = (IF Found THEN FoundName ELSE "asked") /\ Free
             \/ wired' = "asked" /\ SpendPull("reads", MaxReads)
          /\ job' = End("succeeded")
          /\ UNCHANGED <<server, keyed, kept, download, bytes>>
    /\ UNCHANGED cancelled

Cancel ==
    /\ job.pc \in {"running", "resolve", "wire"} /\ ~cancelled /\ cancelled' = TRUE
    /\ Free /\ UNCHANGED <<server, keyed, kept, download, bytes, job, wired>>

(* A cancelled pull ends; its stream with it, a download job of the host
   goes on. *)
Stop ==
    /\ cancelled /\ job.pc \in {"running", "resolve"} /\ Free
    /\ job' = End("cancelled")
    /\ download' = IF server \in Streams /\ download # "completed" THEN "none" ELSE download
    /\ UNCHANGED <<server, keyed, kept, bytes, cancelled, wired>>

-----------------------------------------------------------------------------
(* The host: bytes come, the download completes or goes wrong; a person
   pauses or resumes it, or removes the model. *)
OnHost == UNCHANGED <<server, keyed, job, cancelled, wired>>

Download ==
    /\ download = "downloading" /\ Free /\ OnHost
    /\ \/ bytes < 2 /\ bytes' = bytes + 1 /\ UNCHANGED <<download, kept>>
       \/ /\ bytes = 2 /\ download' = "completed" /\ kept' = kept \cup {keyed}
          /\ UNCHANGED bytes

Trouble ==
    /\ download = "downloading" /\ SpendPull("events", MaxHostEvents) /\ OnHost
    /\ \/ download' \in Odd \cup {"failed"}
       \/ server \in Streams /\ download' = "broken"
    /\ UNCHANGED <<kept, bytes>>

Resume ==
    /\ download \in Odd /\ download' = "downloading" /\ Free /\ OnHost
    /\ UNCHANGED <<kept, bytes>>

RemoveModel ==
    /\ kept # {} /\ SpendPull("events", MaxHostEvents) /\ kept' = {} /\ OnHost
    /\ UNCHANGED <<download, bytes>>

-----------------------------------------------------------------------------
PullInit ==
    /\ server \in PullDriver
    /\ keyed \in IF server = "lmstudio" THEN Name ELSE {"asked", "folded"}
    /\ kept \in {{}, {keyed}}
    /\ download = "none" /\ bytes = 0 /\ cancelled = FALSE /\ wired = "none"
    /\ job = [pc |-> "idle", odd |-> 0, said |-> 0]
    /\ count = [pulls |-> 0, events |-> 0, reads |-> 0]

JobStep == ReadStream \/ Poll \/ FinishPull \/ WirePulled \/ Stop

PullNext ==
    JobStep \/ StartPull \/ PollFails \/ Cancel \/ Download \/ Trouble \/ Resume \/ RemoveModel

PullSpec == PullInit /\ [][PullNext]_pullVars
PullFairSpec == PullSpec /\ WF_pullVars(JobStep)

-----------------------------------------------------------------------------

(* A pull that succeeds wires a name the host serves, as long as nobody
   removed the model: Ollama also serves one under the reference without its
   tag (lmstudio/backend.go, finishPull: "so the wired ModelConfig names a
   model the server serves").  A read that fails before the wiring breaks it. *)
PulledIsAlwaysServed ==
    [][job.pc = "wire" /\ job'.pc = "succeeded" /\ count'.events = 0
         => wired' \in kept' \/ server = "ollama"]_pullVars

(* A pull of LM Studio does not wait for ever for a download stuck in a
   status that is no end: it would block every later pull of the model
   (lmstudio/backend.go, Pull, "must not poll forever"). *)
StuckPullEnds ==
    (<>[](server = "lmstudio" /\ download \in Odd)) => <>[](job.pc \in Ended \cup {"idle"})

=============================================================================
