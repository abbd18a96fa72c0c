----------------------------- MODULE Downloads -----------------------------
(***************************************************************************)
(* internal/backend/kserve: the download of a model into the cache         *)
(* (Pull in backend.go, jobs.go), started by Service.Pull and taken up     *)
(* again by adoptPulls.                                                    *)
(*                                                                         *)
(* One cache directory and the references whose pulls end up in it: a      *)
(* preset name, the repository it serves, a revision of it.  The job       *)
(* manager has one pull a reference, the cluster one Job a directory.      *)
(* Every request to the API server is a step.                              *)
(***************************************************************************)
EXTENDS Integers, FiniteSets

CONSTANTS
    Ref,         \* references that resolve to the directory
    NoJob        \* no Job of the name

JobState == [phase: {"active", "succeeded", "failed"}, ref: Ref, deleting: BOOLEAN]

ASSUME NoJobAssumption == NoJob \notin JobState

VARIABLES
    kjob,     \* the Job that bears the directory's name
    files,    \* whether the directory has any file
    filled,   \* whether a download has completed since it was last removed
    stale,    \* a cached scan still shows files that were removed
    pull,     \* pull[r]: the pull of r
    adopt,    \* adoptPulls: about to list the Jobs, to start their pulls, done
    found,    \* the references whose Jobs it found running
    left      \* how the Job that runs lost the last pull that attended it

vars == <<kjob, files, filled, stale, pull, adopt, found, left>>

Pc == {"idle", "fit", "get", "delete", "gone", "create", "watch", "drop", "cleanup", "ended"}
End == {"none", "cached", "downloaded", "failed"}  \* failed, or cancelled

PullState == [pc: Pc, cancelled: BOOLEAN, end: End,
              adopted: BOOLEAN, \* started, or joined, by adoptPulls, and yet to look
              done: BOOLEAN]    \* a download has completed since it began

NotStarted == [pc |-> "idle", cancelled |-> FALSE, end |-> "none", adopted |-> FALSE, done |-> FALSE]

-----------------------------------------------------------------------------
At(r, pc) == pull[r].pc = pc
Goto(r, pc) == pull' = [pull EXCEPT ![r].pc = pc]
Ended(r, end) == [pc |-> "ended", cancelled |-> FALSE, end |-> end, adopted |-> FALSE,
                  done |-> end = "downloaded" /\ pull[r].done]
Ends(r, end) == pull' = [pull EXCEPT ![r] = Ended(r, end)]

(* The job manager joins a pull of the reference that has not ended. *)
Under(r) == pull[r].pc \notin {"idle", "ended"}

jobFinished == kjob # NoJob /\ kjob.phase # "active"
Running == kjob # NoJob /\ ~jobFinished /\ ~kjob.deleting

(* buildJob, as far as anybody asks it. *)
NewJob(r) == [phase |-> "active", ref |-> r, deleting |-> FALSE]

(* A pull that follows the Job or is about to delete it, or an adopted one
   that has yet to look. *)
Attends(r) ==
    \/ pull[r].pc \in {"watch", "drop", "cleanup"}
    \/ pull[r].adopted /\ pull[r].pc \in {"fit", "get"}

Unattended == Running /\ ~\E r \in Ref : Attends(r)

(* A step leaves the Job with nobody, for a request that failed ("request") or
   because an adopted pull took the files it found for the model ("partial"),
   until a pull attends it again. *)
LetGo(how) == left' = IF Unattended' THEN left \cup how ELSE {}

(* The pulls under way were there when a download completed. *)
Witnessed == [r \in Ref |-> [pull[r] EXCEPT !.done = Under(r) \/ @]]

(* A DELETE with background propagation; the object may go at once or later. *)
deleteJob ==
    kjob' \in {NoJob} \cup {[j EXCEPT !.deleting = TRUE] : j \in {kjob} \ {NoJob}}

Started(adopted) == [NotStarted EXCEPT !.pc = "fit", !.adopted = adopted]

(* Service.Pull: starts a pull or joins the one of the reference. *)
StartPull(r) ==
    /\ ~Under(r)
    /\ pull' = [pull EXCEPT ![r] = Started(FALSE)]
    /\ UNCHANGED <<kjob, files, filled, stale, adopt, found>>
    /\ LetGo({})

Cancel(r) ==
    /\ Under(r) /\ ~pull[r].cancelled
    /\ pull' = [pull EXCEPT ![r].cancelled = TRUE]
    /\ UNCHANGED <<kjob, files, filled, stale, adopt, found>>
    /\ LetGo({})

-----------------------------------------------------------------------------
(* Backend.Pull *)

(* isCached: a directory with any file is cached, by the scan cached or a new
   one; where none can answer it is not known to be.  (Nothing is served here:
   the cache index has no record of the directory.) *)
Fit(r) ==
    /\ At(r, "fit")
    /\ \/ /\ files \/ stale
          /\ Ends(r, "cached")
          /\ UNCHANGED stale
       \/ /\ stale' \in {stale, FALSE}
          /\ Goto(r, "get")
    /\ UNCHANGED <<kjob, files, filled, adopt, found>>
    /\ LetGo(IF pull[r].adopted THEN {"partial"} ELSE {})

Looked(r, pc) == pull' = [pull EXCEPT ![r].pc = pc, ![r].adopted = FALSE]

(* ensureJob joins a Job that is running; a leftover is to be replaced. *)
EnsureGet(r) ==
    /\ At(r, "get")
    /\ Looked(r, CASE kjob = NoJob -> "create" [] Running -> "watch" [] OTHER -> "delete")
    /\ UNCHANGED <<kjob, files, filled, stale, adopt, found>>
    /\ LetGo({})

EnsureDelete(r) ==
    /\ At(r, "delete")
    /\ deleteJob
    /\ Goto(r, "gone")
    /\ UNCHANGED <<files, filled, stale, adopt, found>>
    /\ LetGo({})

(* waitJobGone; it gives up after 30 s, and when the pull is cancelled. *)
WaitJobGone(r) ==
    /\ At(r, "gone")
    /\ \/ kjob = NoJob /\ ~pull[r].cancelled /\ Goto(r, "create")
       \/ kjob # NoJob /\ Ends(r, "failed")
       \/ pull[r].cancelled /\ Ends(r, "failed")
    /\ UNCHANGED <<kjob, files, filled, stale, adopt, found>>
    /\ LetGo({})

(* The Job of another pull may have come first: the name is taken. *)
EnsureCreate(r) ==
    /\ At(r, "create")
    /\ \/ /\ kjob = NoJob /\ ~pull[r].cancelled
          /\ kjob' = NewJob(r)
          /\ Goto(r, "watch")
       \/ /\ kjob # NoJob \/ pull[r].cancelled
          /\ Ends(r, "failed")
          /\ UNCHANGED <<kjob>>
    /\ UNCHANGED <<files, filled, stale, adopt, found>>
    /\ LetGo({})

(* watchJob: one look at the Job and its pod. *)
WatchJob(r) ==
    /\ At(r, "watch") /\ ~pull[r].cancelled
    /\ \/ kjob = NoJob /\ Ends(r, "failed") /\ UNCHANGED stale
       \/ jobFinished /\ kjob.phase = "succeeded" /\ Ends(r, "downloaded") /\ stale' = FALSE
       \/ jobFinished /\ kjob.phase = "failed" /\ Ends(r, "failed") /\ UNCHANGED stale
       \/ kjob # NoJob /\ ~jobFinished /\ Goto(r, "drop") /\ UNCHANGED stale
    /\ UNCHANGED <<kjob, files, filled, adopt, found>>
    /\ LetGo({})

(* Its pod was seen unable to start: the Job goes, whichever it is by now. *)
DropStuck(r) ==
    /\ At(r, "drop")
    /\ deleteJob
    /\ Ends(r, "failed")
    /\ UNCHANGED <<files, filled, stale, adopt, found>>
    /\ LetGo({})

(* Mutant: only the ticker is looked at. *)
MutWatchNever(r) ==
    /\ At(r, "watch") /\ pull[r].cancelled /\ jobFinished
    /\ Goto(r, "cleanup")
    /\ UNCHANGED <<kjob, files, filled, stale, adopt, found>>
    /\ LetGo({})

(* The pull's context has ended. *)
WatchCancelled(r) ==
    /\ At(r, "watch") /\ pull[r].cancelled
    /\ Goto(r, "cleanup")
    /\ UNCHANGED <<kjob, files, filled, stale, adopt, found>>
    /\ LetGo({})

(* The Job of the name goes on a context of its own. *)
Cleanup(r) ==
    /\ At(r, "cleanup")
    /\ deleteJob
    /\ stale' = FALSE
    /\ Ends(r, "failed")
    /\ UNCHANGED <<files, filled, adopt, found>>
    /\ LetGo({})

(* A request fails, or a create's answer is lost. *)
RequestFails(r) ==
    /\ pull[r].pc \in {"fit", "get", "delete", "gone", "create", "drop", "cleanup"}
    /\ Ends(r, "failed")
    /\ \/ UNCHANGED kjob
       \/ /\ At(r, "create") /\ kjob = NoJob
          /\ kjob' = NewJob(r)
    /\ stale' = IF At(r, "cleanup") THEN FALSE ELSE stale
    /\ UNCHANGED <<files, filled, adopt, found>>
    /\ LetGo(IF Attends(r) \/ kjob' # kjob THEN {"request"} ELSE {})

-----------------------------------------------------------------------------
(* The cluster *)

(* The download writes its first file. *)
JobWrites ==
    /\ kjob # NoJob /\ ~jobFinished /\ ~files
    /\ files' = TRUE
    /\ UNCHANGED <<kjob, filled, stale, pull, adopt, found>>
    /\ LetGo({})

JobEnds ==
    /\ kjob # NoJob /\ ~jobFinished
    /\ \/ /\ kjob' = [kjob EXCEPT !.phase = "succeeded"]
          /\ files' = TRUE /\ filled' = TRUE
          /\ pull' = Witnessed
       \/ /\ kjob' = [kjob EXCEPT !.phase = "failed"]
          /\ UNCHANGED <<files, filled, pull>>
    /\ UNCHANGED <<stale, adopt, found>>
    /\ LetGo({})

(* A deleted Job goes, and a finished one when its TTL has passed. *)
JobGoes ==
    /\ kjob # NoJob /\ (kjob.deleting \/ jobFinished)
    /\ kjob' = NoJob
    /\ UNCHANGED <<files, filled, stale, pull, adopt, found>>
    /\ LetGo({})

-----------------------------------------------------------------------------
(* delete_model removes the directory, pulled or not, ... *)
Delete ==
    /\ files
    /\ files' = FALSE /\ filled' = FALSE /\ stale' = TRUE
    /\ UNCHANGED <<kjob, pull, adopt, found>>
    /\ LetGo({})

(* ... and then says so; a scan that shows the files may have expired since. *)
Invalidate ==
    /\ stale
    /\ stale' = FALSE
    /\ UNCHANGED <<kjob, files, filled, pull, adopt, found>>
    /\ LetGo({})

-----------------------------------------------------------------------------
(* A restart forgets the pulls and the scans; calls come while the new process
   looks for the downloads that were running. *)
Restart ==
    /\ pull' = [r \in Ref |-> NotStarted]
    /\ stale' = FALSE /\ adopt' = "list" /\ found' = {}
    /\ left' = {}
    /\ UNCHANGED <<kjob, files, filled>>

(* runningDownloads; without an answer there is nothing to adopt. *)
AdoptList ==
    /\ adopt = "list"
    /\ UNCHANGED <<kjob, files, filled, stale, pull>>
    /\ \/ /\ adopt' = "start"
          /\ found' = IF Running THEN {kjob.ref} ELSE {}
          /\ LetGo({})
       \/ /\ adopt' = "done"
          /\ UNCHANGED found
          /\ LetGo({"request"})

(* Mutant: a pull under way hides the Jobs of the others. *)
MutAdoptStart ==
    /\ adopt = "start"
    /\ adopt' = "done" /\ found' = {}
    /\ pull' = IF \E r \in Ref : Under(r) THEN pull
               ELSE [r \in Ref |-> IF r \in found THEN Started(TRUE) ELSE pull[r]]
    /\ UNCHANGED <<kjob, files, filled, stale>>
    /\ LetGo({})

(* adoptPulls starts the pulls of the Jobs it found, or joins those a call has
   started since. *)
AdoptStart ==
    /\ adopt = "start"
    /\ adopt' = "done" /\ found' = {}
    /\ pull' = [r \in Ref |->
          IF r \notin found THEN pull[r]
          ELSE IF Under(r) THEN [pull[r] EXCEPT !.adopted = pull[r].pc \in {"fit", "get"}]
          ELSE Started(TRUE)]
    /\ UNCHANGED <<kjob, files, filled, stale>>
    /\ LetGo({})

Init ==
    /\ kjob = NoJob
    /\ files = FALSE /\ filled = FALSE
    /\ stale = FALSE
    /\ pull = [r \in Ref |-> NotStarted]
    /\ adopt = "list" /\ found = {} /\ left = {}

Step(r) ==
    \/ Fit(r) \/ EnsureGet(r) \/ EnsureDelete(r) \/ WaitJobGone(r) \/ EnsureCreate(r)
    \/ WatchJob(r) \/ DropStuck(r) \/ WatchCancelled(r) \/ Cleanup(r)

Next ==
    \/ \E r \in Ref : StartPull(r) \/ Cancel(r) \/ Step(r) \/ RequestFails(r)
    \/ JobWrites \/ JobEnds \/ JobGoes
    \/ Delete \/ Invalidate
    \/ Restart \/ AdoptList \/ AdoptStart

Spec == Init /\ [][Next]_vars

(* A pull goes on; the cluster need not. *)
FairSpec == Spec /\ \A r \in Ref : WF_vars(Step(r))

-----------------------------------------------------------------------------
(* Properties *)

TypeOK ==
    /\ kjob \in JobState \cup {NoJob}
    /\ files \in BOOLEAN /\ filled \in BOOLEAN /\ stale \in BOOLEAN /\ left \subseteq {"request", "partial"}
    /\ pull \in [Ref -> PullState]
    /\ adopt \in {"list", "start", "done"} /\ found \subseteq Ref

(* A download that runs in the cluster is somebody's: whatever pulls start,
   join, end and are cancelled, a running Job has a pull that follows it or is
   about to delete it, also once a restart has adopted it ("A restart loses
   the job list, not the work"); but for one whose last such pull went by a
   request that failed, or took partial files for the model. *)
NoUnattendedDownload ==
    Unattended /\ adopt = "done" => left # {}

(* The same where no request failed: what the documentation says of a restart. *)
RestartLosesNoDownload ==
    Unattended /\ adopt = "done" => "request" \in left

(* A pull that ends as downloaded has not taken a leftover for its own: a Job
   completed after it began. *)
DownloadIsNew == \A r \in Ref : pull[r].end = "downloaded" => pull[r].done

(* "Partial files stay and a new pull resumes": a pull that ends well leaves
   a directory some download has completed. *)
PulledIsComplete ==
    [][\A r \in Ref :
         pull[r].pc # "ended" /\ pull'[r].end \in {"cached", "downloaded"}
         => filled' \/ stale]_vars

(* "Adopting an existing active one; a finished leftover is replaced": no
   pull deletes a running Job to put its own in its place. *)
LeftoversOnly ==
    [][\A r \in Ref : At(r, "delete") /\ pull'[r].pc = "gone" => ~Running]_vars

(* What the job manager relies on: a pull whose context was cancelled
   returns, whatever its Job does. *)
CancelledPullEnds ==
    \A r \in Ref : []<>~(pull[r].cancelled /\ Under(r))
=============================================================================
