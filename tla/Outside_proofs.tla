-------------------------- MODULE Outside_proofs --------------------------
(* Theorems about what model-manager asks of others and is told by them: the
   Jobs and pull requests whose work outlives the process, and the settings,
   the phases and the refusals it reads.  They share no state.  Downloads: any
   number of references that share the directory, of pulls, faults and
   restarts.  GitopsCommit: any number of calls, Kustomizations, repositories,
   writes.  MCTold: Settings, any number of calls and any ages; Phases, any
   time; Launch, any pool. *)
EXTENDS MCTold, Downloads, GitopsCommit, SequenceTheorems, TLAPS


-----------------------------------------------------------------------------
(* Downloads *)

(* Whoever watches a Job that has succeeded was there when it did. *)
WatchersWereThere ==
    \A r \in Ref :
        At(r, "watch") /\ kjob # NoJob /\ kjob.phase = "succeeded" => pull[r].done

(* A running Job nobody attends, and no pull let go of, is one a restart has
   left, which the adoption will find or has found; whoever pulls has yet to
   look at it. *)
RestartFinds ==
    /\ adopt \in {"list", "start"}
    /\ adopt = "start" => kjob.ref \in found
    /\ \A r \in Ref : pull[r].pc \in {"idle", "ended", "fit", "get"}

LeftByRestart == Unattended /\ left = {} => RestartFinds

IndInv == TypeOK /\ LeftByRestart /\ WatchersWereThere /\ DownloadIsNew

(* A step leaves the Job with nobody for the causes it names, and no others. *)
LEMMA LetGoEffect ==
    ASSUME TypeOK, NEW how \in SUBSET {"request", "partial"}, LetGo(how)
    PROVE  /\ left' \subseteq {"request", "partial"}
           /\ Unattended' /\ left' = {} => left = {} /\ how = {}
  BY DEF TypeOK, LetGo

(* What a DELETE of the Job can leave. *)
LEMMA DeleteLeaves ==
    ASSUME TypeOK, deleteJob
    PROVE  /\ kjob' \in JobState \cup {NoJob}
           /\ ~Running'
           /\ kjob' # NoJob => kjob # NoJob /\ kjob'.phase = kjob.phase
  BY NoJobAssumption, ZenonT(40) DEF TypeOK, deleteJob, Running, jobFinished, JobState

(* The Job when it is created, ends, and goes. *)
LEMMA JobTypes ==
    /\ \A r \in Ref : NewJob(r) \in JobState /\ NewJob(r).phase = "active"
    /\ \A j \in JobState :
        /\ [j EXCEPT !.phase = "succeeded"] \in JobState
        /\ [j EXCEPT !.phase = "failed"] \in JobState
        /\ j.ref \in Ref
  BY DEF NewJob, JobState

(* What a step does to the pull it is of, and to no other. *)
LEMMA GotoEffect ==
    ASSUME pull \in [Ref -> PullState], NEW r \in Ref, NEW pc \in Pc, Goto(r, pc)
    PROVE  /\ pull' \in [Ref -> PullState]
           /\ pull'[r].pc = pc /\ pull'[r].end = pull[r].end
           /\ pull'[r].done = pull[r].done /\ pull'[r].adopted = pull[r].adopted
           /\ \A s \in Ref : s # r => pull'[s] = pull[s]
<1>1. pull[r] \in PullState
  OBVIOUS
<1>2. [pull[r] EXCEPT !.pc = pc] \in PullState
  BY <1>1 DEF PullState
<1>3. pull' = [pull EXCEPT ![r] = [pull[r] EXCEPT !.pc = pc]]
  BY DEF Goto
<1>4. pull' \in [Ref -> PullState]
  BY <1>2, <1>3
<1>5. pull'[r] = [pull[r] EXCEPT !.pc = pc] /\ \A s \in Ref : s # r => pull'[s] = pull[s]
  BY <1>3
<1>6. QED
  BY <1>1, <1>4, <1>5 DEF PullState

LEMMA LookedEffect ==
    ASSUME pull \in [Ref -> PullState], NEW r \in Ref, NEW pc \in Pc, Looked(r, pc)
    PROVE  /\ pull' \in [Ref -> PullState]
           /\ pull'[r].pc = pc /\ pull'[r].end = pull[r].end
           /\ pull'[r].done = pull[r].done
           /\ \A s \in Ref : s # r => pull'[s] = pull[s]
<1>1. pull[r] \in PullState
  OBVIOUS
<1>2. [pull[r] EXCEPT !.pc = pc, !.adopted = FALSE] \in PullState
  BY <1>1 DEF PullState
<1>3. pull' = [pull EXCEPT ![r] = [pull[r] EXCEPT !.pc = pc, !.adopted = FALSE]]
  BY DEF Looked
<1>4. pull' \in [Ref -> PullState]
  BY <1>2, <1>3
<1>5. /\ pull'[r] = [pull[r] EXCEPT !.pc = pc, !.adopted = FALSE]
      /\ \A s \in Ref : s # r => pull'[s] = pull[s]
  BY <1>3
<1>6. QED
  BY <1>1, <1>4, <1>5 DEF PullState

LEMMA EndsEffect ==
    ASSUME pull \in [Ref -> PullState], NEW r \in Ref, NEW end \in End, Ends(r, end)
    PROVE  /\ pull' \in [Ref -> PullState]
           /\ pull'[r].pc = "ended" /\ pull'[r].end = end
           /\ end = "downloaded" => pull'[r].done = pull[r].done
           /\ \A s \in Ref : s # r => pull'[s] = pull[s]
<1>1. /\ Ended(r, end) \in PullState
      /\ end = "downloaded" => Ended(r, end).done = pull[r].done
  BY DEF Ended, PullState, Pc
<1>2. pull'[r] = Ended(r, end)
  BY DEF Ends
<1>3. QED
  BY <1>1, <1>2 DEF Ends, Ended

LEMMA CancelEffect ==
    ASSUME pull \in [Ref -> PullState], NEW r \in Ref, Cancel(r)
    PROVE  /\ pull' \in [Ref -> PullState]
           /\ \A s \in Ref : /\ pull'[s].pc = pull[s].pc
                             /\ pull'[s].end = pull[s].end
                             /\ pull'[s].done = pull[s].done
                             /\ pull'[s].adopted = pull[s].adopted
<1>1. pull[r] \in PullState
  OBVIOUS
<1>2. [pull[r] EXCEPT !.cancelled = TRUE] \in PullState
  BY <1>1 DEF PullState
<1>3. pull' = [pull EXCEPT ![r] = [pull[r] EXCEPT !.cancelled = TRUE]]
  BY DEF Cancel
<1>4. pull' \in [Ref -> PullState]
  BY <1>2, <1>3
<1>5. pull'[r] = [pull[r] EXCEPT !.cancelled = TRUE] /\ \A s \in Ref : s # r => pull'[s] = pull[s]
  BY <1>3
<1>6. QED
  BY <1>1, <1>4, <1>5 DEF PullState

(* The pulls when a download ends well: those under way have seen it. *)
LEMMA DoneEffect ==
    ASSUME pull \in [Ref -> PullState], pull' = Witnessed
    PROVE  /\ pull' \in [Ref -> PullState]
           /\ \A s \in Ref : /\ pull'[s].pc = pull[s].pc
                             /\ pull'[s].end = pull[s].end
                             /\ Under(s) \/ pull[s].done => pull'[s].done
<1>1. \A s \in Ref : Witnessed[s] = [pull[s] EXCEPT !.done = Under(s) \/ @]
  BY DEF Witnessed
<1>2. ASSUME NEW s \in Ref
      PROVE  /\ Witnessed[s] \in PullState
             /\ Witnessed[s].pc = pull[s].pc /\ Witnessed[s].end = pull[s].end
             /\ Under(s) \/ pull[s].done => Witnessed[s].done
  <2>1. pull[s] \in PullState /\ (Under(s) \/ pull[s].done) \in BOOLEAN
    OBVIOUS
  <2>2. QED
    BY <1>1, <2>1 DEF PullState
<1>3. Witnessed \in [Ref -> PullState]
  BY <1>2 DEF Witnessed
<1>4. QED
  BY <1>2, <1>3

(* A pull that starts. *)
LEMMA StartedType ==
    ASSUME NEW adopted \in BOOLEAN
    PROVE  /\ Started(adopted) \in PullState
           /\ Started(adopted).pc = "fit" /\ Started(adopted).end = "none"
           /\ Started(adopted).adopted = adopted
  BY DEF Started, NotStarted, PullState, Pc, End

(* What the adoption does to the pulls: those of the Jobs it found are adopted,
   unless they are past their look at the Job. *)
LEMMA AdoptEffect ==
    ASSUME pull \in [Ref -> PullState], AdoptStart
    PROVE  /\ pull' \in [Ref -> PullState]
           /\ \A s \in Ref : s \notin found => pull'[s] = pull[s]
           /\ \A s \in found \cap Ref :
                 IF Under(s)
                 THEN /\ pull'[s].pc = pull[s].pc
                      /\ pull'[s].end = pull[s].end
                      /\ pull'[s].done = pull[s].done
                      /\ pull[s].pc \in {"fit", "get"} => pull'[s].adopted
                 ELSE pull'[s].pc = "fit" /\ pull'[s].end = "none" /\ pull'[s].adopted
<1> DEFINE early(s) == pull[s].pc \in {"fit", "get"}
<1>1. ASSUME NEW s \in Ref
      PROVE  /\ s \notin found => pull'[s] = pull[s]
             /\ s \in found /\ Under(s) => pull'[s] = [pull[s] EXCEPT !.adopted = early(s)]
             /\ s \in found /\ ~Under(s) => pull'[s] = Started(TRUE)
             /\ pull[s] \in PullState
  BY DEF AdoptStart
<1>2. ASSUME NEW s \in Ref
      PROVE  /\ [pull[s] EXCEPT !.adopted = early(s)] \in PullState
             /\ [pull[s] EXCEPT !.adopted = early(s)].pc = pull[s].pc
             /\ [pull[s] EXCEPT !.adopted = early(s)].end = pull[s].end
             /\ [pull[s] EXCEPT !.adopted = early(s)].done = pull[s].done
             /\ early(s) => [pull[s] EXCEPT !.adopted = early(s)].adopted
  <2> DEFINE yes == early(s)
  <2>1. pull[s] \in PullState /\ yes \in BOOLEAN
    OBVIOUS
  <2> HIDE DEF yes
  <2>2. /\ [pull[s] EXCEPT !.adopted = yes] \in PullState
        /\ [pull[s] EXCEPT !.adopted = yes].pc = pull[s].pc
        /\ [pull[s] EXCEPT !.adopted = yes].end = pull[s].end
        /\ [pull[s] EXCEPT !.adopted = yes].done = pull[s].done
        /\ [pull[s] EXCEPT !.adopted = yes].adopted = yes
    BY <2>1 DEF PullState
  <2> QED
    BY <2>2 DEF yes
<1>3. ASSUME NEW s \in Ref
      PROVE  pull'[s] \in PullState
  BY <1>1, <1>2, StartedType
<1>4. pull' \in [Ref -> PullState]
  BY <1>3 DEF AdoptStart
<1> QED
  BY <1>1, <1>2, <1>4, StartedType

LEMMA InitInv == Init => IndInv
<1> SUFFICES ASSUME Init PROVE IndInv
  OBVIOUS
<1>1. TypeOK
  BY DEF Init, TypeOK, NotStarted, PullState, Pc, End
<1>2. LeftByRestart /\ WatchersWereThere
  BY DEF Init, LeftByRestart, Unattended, WatchersWereThere, Running, At, NotStarted
<1>3. DownloadIsNew
  BY DEF Init, DownloadIsNew, NotStarted
<1>4. QED
  BY <1>1, <1>2, <1>3 DEF IndInv

LEMMA TypeStep ==
    ASSUME TypeOK, [Next]_vars
    PROVE  TypeOK'
<1> USE NoJobAssumption DEF TypeOK, Pc, End, At
<1>1. ASSUME NEW r \in Ref, StartPull(r) \/ Cancel(r) PROVE TypeOK'
  BY <1>1, StartedType, CancelEffect, LetGoEffect DEF StartPull, Cancel
<1>2. ASSUME NEW r \in Ref, Fit(r) PROVE TypeOK'
  BY <1>2, GotoEffect, EndsEffect, LetGoEffect DEF Fit
<1>3. ASSUME NEW r \in Ref, EnsureGet(r) PROVE TypeOK'
  BY <1>3, LookedEffect, LetGoEffect DEF EnsureGet
<1>4. ASSUME NEW r \in Ref, EnsureDelete(r) \/ DropStuck(r) \/ Cleanup(r) PROVE TypeOK'
  BY <1>4, DeleteLeaves, GotoEffect, EndsEffect, LetGoEffect DEF EnsureDelete, DropStuck, Cleanup
<1>5. ASSUME NEW r \in Ref, WaitJobGone(r) \/ WatchJob(r) \/ WatchCancelled(r) PROVE TypeOK'
  BY <1>5, GotoEffect, EndsEffect, LetGoEffect DEF WaitJobGone, WatchJob, WatchCancelled
<1>6. ASSUME NEW r \in Ref, EnsureCreate(r) PROVE TypeOK'
  BY <1>6, GotoEffect, EndsEffect, JobTypes, LetGoEffect DEF EnsureCreate
<1>7. ASSUME NEW r \in Ref, RequestFails(r) PROVE TypeOK'
  BY <1>7, EndsEffect, JobTypes, LetGoEffect DEF RequestFails
<1>8. CASE JobWrites \/ JobEnds \/ JobGoes
  <2>1. kjob' \in JobState \cup {NoJob}
    BY <1>8, JobTypes DEF JobWrites, JobEnds, JobGoes
  <2>2. pull' \in [Ref -> PullState]
    BY <1>8, DoneEffect DEF JobWrites, JobEnds, JobGoes
  <2>3. QED
    BY <1>8, <2>1, <2>2, LetGoEffect DEF JobWrites, JobEnds, JobGoes
<1>9. CASE Delete \/ Invalidate \/ Restart
  <2>1. NotStarted \in PullState
    BY DEF NotStarted, PullState
  <2>2. QED
    BY <1>9, <2>1, LetGoEffect DEF Delete, Invalidate, Restart
<1>10. CASE AdoptList
  BY <1>10, JobTypes, LetGoEffect DEF AdoptList, Running
<1>13. CASE AdoptStart
  BY <1>13, AdoptEffect, LetGoEffect DEF AdoptStart
<1>11. CASE UNCHANGED vars
  BY <1>11 DEF vars
<1>12. QED
  BY <1>1, <1>2, <1>3, <1>4, <1>5, <1>6, <1>7, <1>8, <1>9, <1>10, <1>11, <1>13 DEF Next, Step

(* Which steps can leave a running Job with nobody, without a cause of those
   LetGo names. *)
LEMMA AttendedStep ==
    ASSUME IndInv, [Next]_vars
    PROVE  LeftByRestart'
<1> SUFFICES ASSUME Unattended', left' = {}
             PROVE  RestartFinds'
  BY DEF LeftByRestart
<1>0. /\ LetGo({}) => left = {}
      /\ ~LetGo({"request"}) /\ ~LetGo({"partial"})
      /\ UNCHANGED vars => left = {}
  BY LetGoEffect DEF IndInv, vars
<1>00. ASSUME left = {} PROVE Unattended => RestartFinds
  BY <1>00 DEF IndInv, LeftByRestart
<1> USE NoJobAssumption DEF Pc, End, IndInv, TypeOK, RestartFinds, Unattended, Running, jobFinished, Attends, At
<1>1. ASSUME NEW r \in Ref, StartPull(r) PROVE RestartFinds'
  <2>1. /\ pull'[r].pc = "fit"
        /\ \A s \in Ref : s # r => pull'[s] = pull[s]
        /\ pull[r].pc \in {"idle", "ended"}
    BY <1>1, StartedType DEF StartPull, Under
  <2> QED
    BY <1>0, <1>00, <1>1, <2>1 DEF StartPull
<1>14. ASSUME NEW r \in Ref, Cancel(r) PROVE RestartFinds'
  <2>1. \A s \in Ref : pull'[s].pc = pull[s].pc /\ pull'[s].adopted = pull[s].adopted
    BY <1>14, CancelEffect
  <2> QED
    BY <1>0, <1>00, <1>14, <2>1 DEF Cancel
<1>2. ASSUME NEW r \in Ref, Fit(r) PROVE RestartFinds'
  <2>1. left = {} /\ ~pull[r].adopted
    <3>1. left \cup (IF pull[r].adopted THEN {"partial"} ELSE {}) = {}
      BY <1>2 DEF Fit, LetGo
    <3> QED BY <3>1
  <2>2. /\ pull'[r].pc \in {"get", "ended"} /\ pull[r].pc = "fit"
        /\ \A s \in Ref : s # r => pull'[s] = pull[s]
        /\ UNCHANGED <<kjob, adopt, found>>
    BY <1>2, GotoEffect, EndsEffect DEF Fit
  <2> QED
    BY <1>00, <2>1, <2>2
<1>3. ASSUME NEW r \in Ref, EnsureGet(r) PROVE RestartFinds'
  BY <1>0, <1>00, <1>3, LookedEffect DEF EnsureGet
<1>4. ASSUME NEW r \in Ref, EnsureDelete(r) \/ DropStuck(r) \/ Cleanup(r)
      PROVE  RestartFinds'
  BY <1>4, DeleteLeaves DEF EnsureDelete, DropStuck, Cleanup
<1>5. ASSUME NEW r \in Ref, WaitJobGone(r) \/ WatchJob(r) \/ WatchCancelled(r)
      PROVE  RestartFinds'
  BY <1>0, <1>00, <1>5, GotoEffect, EndsEffect DEF WaitJobGone, WatchJob, WatchCancelled
<1>6. ASSUME NEW r \in Ref, EnsureCreate(r) PROVE RestartFinds'
  BY <1>0, <1>00, <1>6, GotoEffect, EndsEffect DEF EnsureCreate
<1>7. ASSUME NEW r \in Ref, RequestFails(r) PROVE RestartFinds'
  <2>1. pull'[r].pc = "ended" /\ \A s \in Ref : s # r => pull'[s] = pull[s]
    BY <1>7, EndsEffect DEF RequestFails
  <2>2. left = {} /\ ~Attends(r) /\ kjob' = kjob
    <3>1. left \cup (IF Attends(r) \/ kjob' # kjob THEN {"request"} ELSE {}) = {}
      BY <1>7 DEF RequestFails, LetGo
    <3> QED BY <3>1
  <2>3. UNCHANGED <<adopt, found>>
    BY <1>7 DEF RequestFails
  <2> QED
    BY <1>00, <2>1, <2>2, <2>3
<1>8. CASE JobWrites \/ JobEnds \/ JobGoes
  BY <1>0, <1>00, <1>8 DEF JobWrites, JobEnds, JobGoes, JobState
<1>9. CASE Delete \/ Invalidate \/ Restart
  BY <1>0, <1>00, <1>9 DEF Delete, Invalidate, Restart, NotStarted
<1>10. CASE AdoptList
  BY <1>0, <1>00, <1>10 DEF AdoptList
<1>13. CASE AdoptStart
  <2>1. UNCHANGED kjob /\ left = {} /\ adopt = "start"
    BY <1>0, <1>13 DEF AdoptStart
  <2>2. ASSUME NEW s \in Ref, Attends(s)
        PROVE  Attends(s)'
    BY <1>13, <2>2, AdoptEffect DEF Under
  <2>3. ASSUME Running, kjob.ref \in found, pull[kjob.ref].pc \in {"idle", "ended", "fit", "get"}
        PROVE  Attends(kjob.ref)'
    BY <1>13, <2>3, AdoptEffect, <2>1 DEF Under
  <2>4. Running => kjob.ref \in Ref
    BY DEF JobState
  <2> QED
    BY <1>00, <2>1, <2>2, <2>3, <2>4
<1>11. CASE UNCHANGED vars
  BY <1>0, <1>00, <1>11 DEF vars
<1>12. QED
  BY <1>1, <1>2, <1>3, <1>4, <1>5, <1>6, <1>7, <1>8, <1>9, <1>10, <1>11, <1>13, <1>14 DEF Next, Step

(* A pull begins to watch only Jobs that run. *)
LEMMA WatchersStep ==
    ASSUME IndInv, [Next]_vars
    PROVE  WatchersWereThere' /\ DownloadIsNew'
<1> USE NoJobAssumption DEF Pc, End, IndInv, TypeOK, WatchersWereThere, DownloadIsNew, At
<1>1. ASSUME NEW r \in Ref, StartPull(r) \/ Cancel(r) PROVE WatchersWereThere' /\ DownloadIsNew'
  <2>1. CASE StartPull(r)
    BY <2>1, StartedType DEF StartPull
  <2>2. CASE Cancel(r)
    BY <2>2, CancelEffect DEF Cancel
  <2> QED BY <1>1, <2>1, <2>2
<1>2. ASSUME NEW r \in Ref, Fit(r) PROVE WatchersWereThere' /\ DownloadIsNew'
  <2>1. CASE Goto(r, "get")
    BY <1>2, <2>1, GotoEffect DEF Fit
  <2>2. CASE Ends(r, "cached")
    BY <1>2, <2>2, EndsEffect DEF Fit
  <2> QED BY <1>2, <2>1, <2>2 DEF Fit
<1>3. ASSUME NEW r \in Ref, EnsureGet(r) PROVE WatchersWereThere' /\ DownloadIsNew'
  BY <1>3, LookedEffect DEF EnsureGet, Running, jobFinished
<1>4. ASSUME NEW r \in Ref, EnsureDelete(r) \/ DropStuck(r) \/ Cleanup(r)
      PROVE  WatchersWereThere' /\ DownloadIsNew'
  BY <1>4, DeleteLeaves, GotoEffect, EndsEffect DEF EnsureDelete, DropStuck, Cleanup
<1>5. ASSUME NEW r \in Ref, WaitJobGone(r) \/ WatchJob(r) \/ WatchCancelled(r)
      PROVE  WatchersWereThere' /\ DownloadIsNew'
  BY <1>5, GotoEffect, EndsEffect DEF WaitJobGone, WatchJob, WatchCancelled, jobFinished
<1>6. ASSUME NEW r \in Ref, EnsureCreate(r) PROVE WatchersWereThere' /\ DownloadIsNew'
  BY <1>6, GotoEffect, EndsEffect, JobTypes DEF EnsureCreate
<1>7. ASSUME NEW r \in Ref, RequestFails(r) PROVE WatchersWereThere' /\ DownloadIsNew'
  BY <1>7, GotoEffect, EndsEffect, JobTypes DEF RequestFails
<1>8. CASE JobWrites \/ JobGoes
  BY <1>8 DEF JobWrites, JobGoes
<1>13. CASE JobEnds
  <2>1. CASE pull' = Witnessed
    <3>1. \A s \in Ref : pull[s].pc = "watch" => Under(s)
      BY DEF Under
    <3>2. QED
      BY <2>1, <3>1, DoneEffect
  <2>2. CASE UNCHANGED pull /\ kjob' = [kjob EXCEPT !.phase = "failed"]
    BY <1>13, <2>2 DEF JobEnds, JobState
  <2>3. QED
    BY <1>13, <2>1, <2>2 DEF JobEnds
<1>9. CASE Delete \/ Invalidate \/ Restart
  BY <1>9 DEF Delete, Invalidate, Restart, NotStarted
<1>10. CASE AdoptList
  BY <1>10 DEF AdoptList
<1>14. CASE AdoptStart
  BY <1>14, AdoptEffect DEF AdoptStart
<1>11. CASE UNCHANGED vars
  BY <1>11 DEF vars
<1>12. QED
  BY <1>1, <1>2, <1>3, <1>4, <1>5, <1>6, <1>7, <1>8, <1>9, <1>10, <1>11, <1>13, <1>14 DEF Next, Step

(* The three facts hold of every reachable state. *)
THEOREM DownloadsCorrect == Spec => []IndInv
<1>1. IndInv /\ [Next]_vars => IndInv'
  BY TypeStep, AttendedStep, WatchersStep DEF IndInv
<1>2. QED
  BY InitInv, <1>1, PTL DEF Spec

(* Types. *)
THEOREM TypeCorrect == Spec => []TypeOK
  BY DownloadsCorrect, PTL DEF IndInv

(* A running download Job always has a pull that follows it, is about to
   delete it, or adopted it and has yet to look, but for one that was let go
   of for a request that failed or for the files an adopted pull found. *)
THEOREM DownloadsAttended == Spec => []NoUnattendedDownload
<1>1. IndInv => NoUnattendedDownload
  BY DEF IndInv, LeftByRestart, RestartFinds, NoUnattendedDownload
<1>2. QED
  BY DownloadsCorrect, <1>1, PTL

(* A pull that reports a download has not taken a leftover for its own. *)
THEOREM DownloadsNew == Spec => []DownloadIsNew
  BY DownloadsCorrect, PTL DEF IndInv

-----------------------------------------------------------------------------
(* GitopsCommit: where things land *)

(* What k applies of o lands on the cluster, and in the namespace, of o. *)
Lands(k, o) == flux.ks[k].cluster = ClusterOf(o) /\ o \notin flux.ks[k].moves

(* Who made a namespace of the own cluster applies there. *)
WellPlaced(f) ==
    \A o \in Object :
        f.at = "own" \/ o = "config" =>
            /\ f.ns[o] \in Kustomization => f.ks[f.ns[o]].cluster = "own"
            /\ f.ns[o] = "release" /\ f.hr.by \in Kustomization => f.ks[f.hr.by].cluster = "own"

(* A part is of one cluster, and so is who applies its objects now. *)
PartFits(p) ==
    /\ \A o \in Objects(p) : ClusterOf(o) = p.cluster
    /\ p.owner \in Kustomization /\ p.cluster = "own" => flux.ks[p.owner].cluster = "own"

PlanLands(plan) == \A o \in plan.add : Lands(plan.k, o)

CallLands(q) ==
    /\ \A plan \in q.plans : PlanLands(plan)
    /\ q.pc = "plan" =>
         /\ q.todo # <<>>
         /\ \A i \in 1..Len(q.todo) : PartFits(q.todo[i])
         /\ q.target # None => \A o \in Objects(Head(q.todo)) : Lands(q.target, o)

FilesLand ==
    \A k \in Kustomization : /\ \A o \in base[k] : Lands(k, o)
                             /\ \A o \in foreign[k] : Lands(k, o)

LabelsStand ==
    \A o \in Object : live[o].label \in Kustomization =>
        flux.ks[live[o].label].cluster = ClusterOf(o)

RequestsLand == \A pr \in prs : \A plan \in pr.plans : PlanLands(plan)

CommitInv ==
    /\ CommitTypeOK /\ WellPlaced(flux)
    /\ FilesLand /\ LabelsStand /\ RequestsLand /\ LandsInPlace /\ WholeOrNothing
    /\ \A c \in CommitCall : CallLands(commitCall[c])

-----------------------------------------------------------------------------
(* What a call hands on *)

LEMMA FluxFields ==
    ASSUME CommitTypeOK
    PROVE  /\ flux.at \in Cluster /\ flux.hr.by \in Kustomization \cup {None}
           /\ flux.ks \in [Kustomization -> [there: BOOLEAN, cluster: Cluster, moves: SUBSET Object,
                                  source: BOOLEAN, seals: BOOLEAN, prune: BOOLEAN, repo: Repo]]
           /\ flux.ns \in [Object -> Owner]
           /\ \A o \in Object : ClusterOf(o) \in Cluster
  BY DEF CommitTypeOK, Flux, ClusterOf, Cluster

LEMMA CallFields ==
    ASSUME NEW q \in CallState
    PROVE  /\ q.dry \in BOOLEAN /\ q.target \in Kustomization \cup {None} /\ q.todo \in Seq(Part)
           /\ q.plans \subseteq Plan /\ q.prs \subseteq PullRequest
           /\ q.pc \in {"idle", "plan", "open", "opened", "refused", "failed"}
  BY DEF CallState

LEMMA IdleCall == IdleCommit \in CallState
  BY DEF IdleCommit, CallState, Part, Plan, PullRequest

(* A part that removes or writes what a plan of it may: where it is located,
   its objects land. *)
LEMMA LocateLands ==
    ASSUME CommitTypeOK, WellPlaced(flux), NEW p \in Part, PartFits(p),
           NEW t \in Kustomization \cup {None},
           t # None => \A o \in Objects(p) : Lands(t, o),
           NEW k \in Locate(p, t)
    PROVE  k \in Kustomization /\ \A o \in Objects(p) : Lands(k, o)
<1>1. CASE t # None
  BY <1>1 DEF Locate
<1>2. CASE t = None
  <2> PICK owner : owner = IF p.owner # None THEN p.owner ELSE namespaceOwner(p)
    OBVIOUS
  <2>1. p.owner # "release" /\ k \in Leads(owner, p.cluster) /\ Objects(p) \cap flux.ks[k].moves = {}
    BY <1>2 DEF Locate, LocationOf
  <2>2. k \in Kustomization
    BY <2>1 DEF Leads, ThroughRelease
  <2>3. p.cluster \in Cluster /\ First(p) \in Object /\ Objects(p) \subseteq Object
    BY DEF Part, First, Object, Objects
  <2>4. p.cluster = "own" /\ Objects(p) # {} => flux.at = "own" \/ First(p) = "config"
    BY DEF PartFits, First, ClusterOf
  <2>5. ASSUME Objects(p) # {} PROVE flux.ks[k].cluster = p.cluster
    <3>1. CASE p.cluster = "remote"
      BY <2>1, <3>1 DEF Leads, ThroughRelease
    <3>2. CASE p.cluster = "own" /\ owner \in Kustomization
      <4>1. k = owner
        BY <2>1, <3>2 DEF Leads
      <4>2. flux.ks[owner].cluster = "own"
        BY <2>3, <2>4, <2>5, <3>2 DEF PartFits, WellPlaced, namespaceOwner
      <4> QED BY <3>2, <4>1, <4>2
    <3>3. CASE p.cluster = "own" /\ owner \notin Kustomization
      <4>1. owner = "release" /\ k = flux.hr.by
        BY <2>1, <3>3 DEF Leads
      <4>2. owner = flux.ns[First(p)]
        BY <2>1, <4>1 DEF namespaceOwner
      <4>3. flux.ks[flux.hr.by].cluster = "own"
        BY <2>2, <2>3, <2>4, <2>5, <3>3, <4>1, <4>2 DEF WellPlaced
      <4> QED BY <3>3, <4>1, <4>3
    <3> QED BY <2>3, <3>1, <3>2, <3>3 DEF Cluster
  <2> QED BY <2>1, <2>2, <2>5 DEF PartFits, Lands
<1> QED BY <1>1, <1>2

(* What a call starts with. *)
Kept(parts) ==
    /\ parts \in Seq(Part) /\ parts # <<>>
    /\ \A i \in 1..Len(parts) : PartFits(parts[i])

LEMMA PartsFit ==
    ASSUME NEW p \in Part, PartFits(p)
    PROVE  /\ Kept(<<p>>) /\ Kept(<<p>> \o <<>>)
           /\ \A q \in Part : PartFits(q) => Kept(<<p>> \o <<q>>)
<1>1. Kept(<<p>>)
  BY DEF Kept
<1>2. <<p>> \o <<>> = <<p>>
  OBVIOUS
<1>3. ASSUME NEW q \in Part, PartFits(q) PROVE Kept(<<p>> \o <<q>>)
  <2> DEFINE s == <<p>> \o <<q>>
  <2>1. <<p>> \in Seq(Part) /\ <<q>> \in Seq(Part)
    OBVIOUS
  <2>2. s \in Seq(Part) /\ Len(s) = 2 /\ s[1] = p /\ s[2] = q
    BY <2>1, ConcatProperties
  <2>3. s # <<>>
    OBVIOUS
  <2> HIDE DEF s
  <2>4. ASSUME NEW i \in 1..Len(s) PROVE PartFits(s[i])
    <3>1. i = 1 \/ i = 2
      BY <2>2
    <3> QED BY <1>3, <2>2, <3>1
  <2>5. Kept(s)
    BY <2>2, <2>3, <2>4 DEF Kept
  <2> QED BY <2>5 DEF s
<1> QED BY <1>1, <1>2, <1>3

LEMMA LabelFits ==
    ASSUME CommitTypeOK, LabelsStand, NEW o \in Object, live[o].label \in Kustomization
    PROVE  flux.ks[live[o].label].cluster = ClusterOf(o)
  BY DEF LabelsStand

LEMMA SplitFits ==
    ASSUME CommitTypeOK, LabelsStand, NEW w \in SUBSET Object, NEW r \in SUBSET Object,
           NEW owner \in {None, live["serving"].label}
    PROVE  Kept(Split(w, r, owner))
<1> DEFINE both == [write |-> w, remove |-> r, owner |-> owner, cluster |-> flux.at]
           wiring == (w \cup r) \cap {"config"}
           label == IF r = {} THEN None ELSE live["config"].label
           also == [write |-> w \cap wiring, remove |-> r \cap wiring, cluster |-> "own",
                    owner |-> label]
           rest == [both EXCEPT !.write = @ \ wiring, !.remove = @ \ wiring]
<1>1. /\ live["serving"].label \in Owner /\ live["config"].label \in Owner /\ None \in Owner
      /\ flux.at \in Cluster /\ "own" \in Cluster
  BY FluxFields DEF CommitTypeOK, Object, Owner, Cluster
<1>2. both \in Part /\ also \in Part
  BY <1>1 DEF Part
<1>3. rest \in Part /\ rest.write = w \ wiring /\ rest.remove = r \ wiring /\ rest.owner = owner
      /\ rest.cluster = flux.at
  BY <1>2 DEF Part
<1>4. owner \in Kustomization => flux.ks[owner].cluster = flux.at
  BY LabelFits, NoneAssumption DEF Object, ClusterOf
<1>5. label \in Kustomization => flux.ks[label].cluster = "own"
  BY LabelFits, NoneAssumption DEF Object, ClusterOf
<1>6. PartFits(also)
  BY <1>5 DEF PartFits, Objects, ClusterOf
<1>7. CASE flux.at = "own"
  <2>1. PartFits(both)
    BY <1>4, <1>7 DEF PartFits, Objects, Object, ClusterOf
  <2> QED BY <1>2, <1>7, <2>1, PartsFit DEF Split
<1>8. CASE flux.at # "own"
  <2>1. \A o \in Objects(rest) : o = "serving"
    BY <1>3 DEF Objects, Object
  <2>2. PartFits(rest)
    BY <1>3, <1>4, <2>1 DEF PartFits, ClusterOf
  <2>3. Split(w, r, owner) = <<rest>> \o (IF wiring = {} THEN <<>> ELSE <<also>>)
    BY <1>8 DEF Split
  <2> HIDE DEF rest, also, wiring
  <2> QED BY <1>2, <1>3, <1>6, <2>2, <2>3, PartsFit
<1> QED BY <1>7, <1>8

LEMMA WireFits ==
    ASSUME CommitTypeOK, LabelsStand, NEW w \in SUBSET {"config"}, NEW r \in SUBSET {"config"}
    PROVE  Kept(WirePart(w, r))
<1> DEFINE label == IF Applying("config") THEN live["config"].label ELSE None
           p == [write |-> w, remove |-> r, cluster |-> "own", owner |-> label]
<1>1. live["config"].label \in Owner /\ None \in Owner
  BY DEF CommitTypeOK, Object, Owner
<1>2. p \in Part
  BY <1>1 DEF Part, Object, Cluster
<1>3. label \in Kustomization => flux.ks[label].cluster = "own"
  BY LabelFits, NoneAssumption DEF Object, ClusterOf
<1>4. PartFits(p)
  BY <1>3 DEF PartFits, Objects, ClusterOf
<1> HIDE DEF p
<1>5. WirePart(w, r) = <<p>>
  BY DEF WirePart, p
<1> QED BY <1>2, <1>4, <1>5, PartsFit

-----------------------------------------------------------------------------
(* A call moves *)

(* The world stays, but for a Kustomization that goes. *)
SameWorld ==
    /\ flux'.at = flux.at /\ flux'.ns = flux.ns /\ flux'.hr = flux.hr
    /\ \A k \in Kustomization : /\ flux'.ks[k].cluster = flux.ks[k].cluster
                                /\ flux'.ks[k].moves = flux.ks[k].moves

(* A call that only reads, or opens requests for what it has planned. *)
LEMMA CallMoves ==
    ASSUME CommitInv, NEW c \in CommitCall, NEW q \in CallState,
           commitCall' = [commitCall EXCEPT ![c] = q],
           UNCHANGED <<flux, base, foreign, inventory, live, stray>>,
           prs' \in SUBSET PullRequest, RequestsLand', writes' \in 0..MaxWrites,
           happened' \in 0..MaxEvents,
           CallLands(q), 
           q.pc \in {"idle", "plan", "open", "refused"} => q.prs = {},
           q.pc = "opened" /\ ~q.dry =>
             \A plan \in q.plans : Changed(plan) => \E pr \in q.prs : plan \in pr.plans
    PROVE  CommitInv'
<1>1. commitCall \in [CommitCall -> CallState]
  BY DEF CommitInv, CommitTypeOK
<1>2. /\ commitCall' \in [CommitCall -> CallState] /\ commitCall'[c] = q
      /\ \A d \in CommitCall : d # c => commitCall'[d] = commitCall[d]
  BY <1>1
<1>3. CommitTypeOK'
  BY <1>2 DEF CommitInv, CommitTypeOK
<1>4. FilesLand' /\ LabelsStand' /\ LandsInPlace' /\ WellPlaced(flux)'
  BY DEF CommitInv, FilesLand, LabelsStand, LandsInPlace, WellPlaced, Lands, ClusterOf
<1>5. WholeOrNothing'
  BY <1>2 DEF CommitInv, WholeOrNothing, Changed
<1>6. ASSUME NEW d \in CommitCall PROVE CallLands(commitCall[d])'
  <2>1. CallLands(commitCall'[d])
    BY <1>2 DEF CommitInv
  <2>2. \A k, o : Lands(k, o)' = Lands(k, o)
    BY DEF Lands, ClusterOf
  <2>3. \A plan : PlanLands(plan)' = PlanLands(plan)
    BY DEF PlanLands, Lands, ClusterOf
  <2>4. \A fp : PartFits(fp)' = PartFits(fp)
    BY DEF PartFits, Objects, ClusterOf
  <2> QED BY <2>1, <2>2, <2>3, <2>4 DEF CallLands, Objects
<1> QED BY <1>3, <1>4, <1>5, <1>6 DEF CommitInv

LEMMA BeginMoves ==
    ASSUME CommitInv, NEW c \in CommitCall, NEW how \in How, NEW parts, Kept(parts),
           CommitBegins(c, how, parts), writes' \in 0..MaxWrites
    PROVE  CommitInv'
<1> DEFINE q == [IdleCommit EXCEPT !.pc = "plan", !.dry = how.dry, !.target = how.target, !.todo = parts]
<1>1. parts \in Seq(Part) /\ parts # <<>> /\ Head(parts) = parts[1] /\ parts[1] \in Part
  BY DEF Kept
<1>2. how.dry \in BOOLEAN /\ how.target \in Kustomization \cup {None}
  BY DEF How
<1>3. /\ q \in CallState /\ q.pc = "plan" /\ q.plans = {} /\ q.prs = {} /\ q.todo = parts
      /\ q.target = how.target
  BY <1>1, <1>2, IdleCall DEF IdleCommit, CallState
<1>4. how.target # None => \A o \in Objects(parts[1]) : Lands(how.target, o)
  BY <1>1, NoneAssumption DEF CommitBegins, Targets, Lands, Kept, PartFits
<1>5. CallLands(q)
  BY <1>1, <1>3, <1>4 DEF CallLands, Kept
<1>6. /\ commitCall' = [commitCall EXCEPT ![c] = q] /\ UNCHANGED <<flux, base, foreign, inventory, live, stray>>
      /\ UNCHANGED prs /\ happened' \in 0..MaxEvents
  <2>1. happened \in 0..MaxEvents /\ MaxEvents \in Nat
    BY CommitBounds DEF CommitInv, CommitTypeOK
  <2> QED BY <2>1 DEF CommitBegins, GoCommit, OnlyCalls, Happened
<1>7. prs' \in SUBSET PullRequest /\ RequestsLand'
  BY <1>6 DEF CommitInv, CommitTypeOK, RequestsLand, PlanLands, Lands, ClusterOf
<1> HIDE DEF q
<1> QED BY <1>3, <1>5, <1>6, <1>7, CallMoves

LEMMA PlanPartMoves ==
    ASSUME CommitInv, NEW c \in CommitCall, PlanPart(c)
    PROVE  CommitInv'
<1> PICK l \in CallState : l = commitCall[c]
  BY DEF CommitInv, CommitTypeOK
<1>0. l.pc = "plan" /\ l.prs = {} /\ CallLands(l)
  BY DEF PlanPart, CommitInv, WholeOrNothing
<1>1. l.todo \in Seq(Part) /\ l.todo # <<>> /\ \A i \in 1..Len(l.todo) : PartFits(l.todo[i])
  BY <1>0, CallFields DEF CallLands
<1> PICK p \in Part : p = Head(l.todo) /\ PartFits(p)
  BY <1>1
<1> DEFINE reached == {k \in Locate(p, l.target) : flux.ks[k].repo \in flux.reach}
           fits == {k \in reached : InDirectory(p, k) /\ Builds(p, k)}
           plans == {PlanOf(p, k) : k \in fits}
           pc == IF Len(l.todo) = 1 THEN "open" ELSE "plan"
           next == [l EXCEPT !.todo = Tail(@), !.target = None, !.pc = pc,
                             !.plans = @ \cup plans]
           refusal == [IdleCommit EXCEPT !.pc = "refused", !.prs = l.prs]
<1>2. /\ commitCall' = [commitCall EXCEPT ![c] = next] \/ commitCall' = [commitCall EXCEPT ![c] = refusal]
      /\ UNCHANGED <<flux, base, foreign, inventory, live, stray, prs, writes, happened>>
  <2> DEFINE passes == fits # {} \/ (l.dry /\ reached = {} /\ Locate(p, l.target) # {})
  <2>1. GoCommit(c, IF passes THEN next ELSE refusal)
    BY DEF PlanPart
  <2> HIDE DEF passes, next, refusal
  <2> QED BY <2>1 DEF PlanPart, GoCommit, OnlyCalls
<1>3. prs' \in SUBSET PullRequest /\ RequestsLand' /\ writes' \in 0..MaxWrites /\ happened' \in 0..MaxEvents
  BY <1>2 DEF CommitInv, CommitTypeOK, RequestsLand, PlanLands, Lands, ClusterOf
<1>4. l.target # None => \A o \in Objects(p) : Lands(l.target, o)
  BY <1>0 DEF CallLands
<1>5. ASSUME NEW k \in Locate(p, l.target)
      PROVE  k \in Kustomization /\ \A o \in Objects(p) : Lands(k, o)
  <2>1. l.target \in Kustomization \cup {None}
    BY CallFields
  <2> QED BY <1>4, <1>5, <2>1, LocateLands DEF CommitInv
<1>6. plans \subseteq Plan /\ \A plan \in plans : PlanLands(plan)
  <2> SUFFICES ASSUME NEW k \in fits PROVE PlanOf(p, k) \in Plan /\ PlanLands(PlanOf(p, k))
    OBVIOUS
  <2>1. k \in Kustomization /\ \A o \in Objects(p) : Lands(k, o)
    BY <1>5
  <2> QED BY <2>1 DEF PlanOf, Plan, Part, PlanLands, Objects
<1>7. refusal \in CallState /\ refusal.pc = "refused" /\ refusal.plans = {} /\ refusal.prs = {}
  BY <1>0, IdleCall DEF IdleCommit, CallState
<1>8. /\ next \in CallState /\ next.pc = pc /\ next.plans = l.plans \cup plans /\ next.prs = {}
      /\ next.todo = Tail(l.todo) /\ next.target = None
  <2>1. Tail(l.todo) \in Seq(Part) /\ None \in Kustomization \cup {None}
    BY <1>1, HeadTailProperties
  <2>2. l.plans \cup plans \in SUBSET Plan
    BY <1>6, CallFields
  <2> HIDE DEF plans
  <2> QED BY <1>0, <2>1, <2>2 DEF CallState
<1>9. CallLands(refusal)
  BY <1>7 DEF CallLands
<1>10. CallLands(next)
  <2>1. \A plan \in next.plans : PlanLands(plan)
    BY <1>0, <1>6, <1>8 DEF CallLands
  <2>2. ASSUME next.pc = "plan"
        PROVE  next.todo # <<>> /\ \A i \in 1..Len(next.todo) : PartFits(next.todo[i])
    <3>1. Len(l.todo) # 1
      BY <1>8, <2>2
    <3>2. Len(Tail(l.todo)) = Len(l.todo) - 1 /\ Len(l.todo) \in Nat /\ Len(l.todo) # 0
          /\ \A i \in 1..Len(Tail(l.todo)) : Tail(l.todo)[i] = l.todo[i+1]
      BY <1>1, HeadTailProperties, EmptySeq
    <3>3. Len(Tail(l.todo)) # 0 /\ \A i \in 1..Len(Tail(l.todo)) : i+1 \in 1..Len(l.todo)
      BY <3>1, <3>2
    <3>4. Tail(l.todo) # <<>>
      BY <3>3
    <3>5. \A i \in 1..Len(Tail(l.todo)) : PartFits(Tail(l.todo)[i])
      BY <1>1, <3>2, <3>3
    <3> HIDE DEF next
    <3> QED BY <1>8, <3>4, <3>5
  <2> HIDE DEF next
  <2> QED BY <1>8, <2>1, <2>2 DEF CallLands
<1>11. pc \in {"open", "plan"}
  OBVIOUS
<1> HIDE DEF next, refusal, pc
<1>12. CASE commitCall' = [commitCall EXCEPT ![c] = next]
  BY <1>2, <1>3, <1>8, <1>10, <1>11, <1>12, CallMoves
<1>13. CASE commitCall' = [commitCall EXCEPT ![c] = refusal]
  BY <1>2, <1>3, <1>7, <1>9, <1>13, CallMoves
<1> QED BY <1>2, <1>12, <1>13

LEMMA FailsMoves ==
    ASSUME CommitInv, NEW c \in CommitCall, RemoteFails(c) \/ Return(c)
    PROVE  CommitInv'
<1> DEFINE refusal == [IdleCommit EXCEPT !.pc = "refused", !.prs = commitCall[c].prs]
<1>1. commitCall[c].pc = "plan" => commitCall[c].prs = {}
  BY DEF CommitInv, WholeOrNothing
<1>2. refusal.pc = "refused" /\ refusal.plans = {} /\ refusal.prs = commitCall[c].prs
  BY DEF IdleCommit
<1>3. IdleCommit \in CallState /\ (commitCall[c].pc = "plan" => refusal \in CallState)
  BY <1>1, IdleCall DEF IdleCommit, CallState
<1>4. CallLands(refusal) /\ CallLands(IdleCommit)
  BY <1>2 DEF CallLands, IdleCommit
<1>5. /\ UNCHANGED <<flux, base, foreign, inventory, live, stray, prs, writes>>
      /\ happened' \in 0..MaxEvents
  <2>1. happened \in 0..MaxEvents /\ MaxEvents \in Nat
    BY CommitBounds DEF CommitInv, CommitTypeOK
  <2> QED BY <2>1 DEF RemoteFails, Return, OnlyCalls, Happened
<1>6. prs' \in SUBSET PullRequest /\ RequestsLand' /\ writes' \in 0..MaxWrites
  BY <1>5 DEF CommitInv, CommitTypeOK, RequestsLand, PlanLands, Lands, ClusterOf
<1>7. IdleCommit.pc = "idle" /\ IdleCommit.prs = {}
  BY DEF IdleCommit
<1> HIDE DEF refusal
<1>8. CASE RemoteFails(c)
  <2>1. commitCall' = [commitCall EXCEPT ![c] = refusal] /\ commitCall[c].pc = "plan"
    BY <1>8 DEF RemoteFails, GoCommit, refusal
  <2> QED BY <1>1, <1>2, <1>3, <1>4, <1>5, <1>6, <2>1, CallMoves
<1>9. CASE Return(c)
  <2>1. commitCall' = [commitCall EXCEPT ![c] = IdleCommit]
    BY <1>9 DEF Return, GoCommit
  <2> QED BY <1>3, <1>4, <1>5, <1>6, <1>7, <2>1, CallMoves
<1> QED BY <1>8, <1>9

LEMMA OpenMoves ==
    ASSUME CommitInv, NEW c \in CommitCall, OpenRequests(c)
    PROVE  CommitInv'
<1> PICK l \in CallState : l = commitCall[c]
  BY DEF CommitInv, CommitTypeOK
<1>0. l.pc = "open" /\ l.prs = {} /\ CallLands(l)
  BY DEF OpenRequests, CommitInv, WholeOrNothing
<1> PICK opened \in SUBSET RequestsOf(l.plans) :
         /\ l.dry => opened = {}
         /\ LET all == l.dry \/ opened = RequestsOf(l.plans)
            IN  /\ IF all THEN UNCHANGED happened ELSE Happened
                /\ GoCommit(c, [l EXCEPT !.pc = IF all THEN "opened" ELSE "failed",
                                         !.prs = @ \cup opened])
         /\ prs' = prs \cup opened
  BY DEF OpenRequests
<1> DEFINE all == l.dry \/ opened = RequestsOf(l.plans)
           pc == IF all THEN "opened" ELSE "failed"
           q == [l EXCEPT !.pc = pc, !.prs = @ \cup opened]
<1>1. l.plans \subseteq Plan
  BY CallFields
<1>2. ASSUME NEW pr \in RequestsOf(l.plans)
      PROVE  pr \in PullRequest /\ pr.plans \subseteq l.plans
  <2>1. PICK r \in {flux.ks[plan.k].repo : plan \in {x \in l.plans : Changed(x)}} :
           pr = [repo |-> r, plans |-> {plan \in l.plans : Changed(plan) /\ flux.ks[plan.k].repo = r}]
    BY DEF RequestsOf
  <2>2. r \in Repo
    BY <1>1, FluxFields DEF Plan, CommitInv
  <2> QED BY <1>1, <2>1, <2>2 DEF PullRequest
<1>3. ASSUME NEW plan \in l.plans, Changed(plan)
      PROVE  \E pr \in RequestsOf(l.plans) : plan \in pr.plans
  <2> DEFINE r == flux.ks[plan.k].repo
             pr == [repo |-> r, plans |-> {x \in l.plans : Changed(x) /\ flux.ks[x.k].repo = r}]
  <2>1. pr \in RequestsOf(l.plans)
    BY <1>3 DEF RequestsOf
  <2>2. plan \in pr.plans
    BY <1>3
  <2> QED BY <2>1, <2>2
<1>4. q \in CallState /\ q.pc = pc /\ q.prs = opened /\ q.plans = l.plans /\ q.dry = l.dry
  <2>1. opened \in SUBSET PullRequest
    BY <1>2
  <2>2. l.prs \cup opened = opened
    BY <1>0
  <2> QED BY <2>1, <2>2 DEF CallState
<1>5. pc \in {"opened", "failed"} /\ (pc = "opened" => l.dry \/ opened = RequestsOf(l.plans))
  OBVIOUS
<1>6. CallLands(q)
  BY <1>0, <1>4, <1>5 DEF CallLands
<1>7. /\ commitCall' = [commitCall EXCEPT ![c] = q] /\ prs' = prs \cup opened
      /\ UNCHANGED <<flux, base, foreign, inventory, live, stray, writes>>
      /\ happened' \in 0..MaxEvents
  <2>1. happened \in 0..MaxEvents /\ MaxEvents \in Nat
    BY CommitBounds DEF CommitInv, CommitTypeOK
  <2>2. UNCHANGED happened \/ Happened
    BY DEF OpenRequests
  <2>3. happened' \in 0..MaxEvents
    BY <2>1, <2>2 DEF Happened
  <2>4. commitCall' = [commitCall EXCEPT ![c] = q]
    BY DEF GoCommit
  <2> QED BY <2>3, <2>4 DEF OpenRequests, OnlyCalls
<1>8. prs' \in SUBSET PullRequest /\ writes' \in 0..MaxWrites
  BY <1>2, <1>7 DEF CommitInv, CommitTypeOK
<1>9. RequestsLand'
  <2> SUFFICES ASSUME NEW pr \in prs \cup opened, NEW plan \in pr.plans PROVE PlanLands(plan)'
    BY <1>7 DEF RequestsLand
  <2>1. PlanLands(plan)
    BY <1>0, <1>2 DEF CommitInv, RequestsLand, CallLands
  <2> QED BY <1>7, <2>1 DEF PlanLands, Lands, ClusterOf
<1>10. q.pc = "opened" /\ ~q.dry =>
         \A plan \in q.plans : Changed(plan) => \E pr \in q.prs : plan \in pr.plans
  BY <1>3, <1>4, <1>5
<1> HIDE DEF q, pc
<1> QED BY <1>4, <1>5, <1>6, <1>7, <1>8, <1>9, <1>10, CallMoves

-----------------------------------------------------------------------------
(* The world moves *)

LEMMA SameWorldKeeps ==
    ASSUME SameWorld
    PROVE  /\ \A k \in Kustomization, o \in Object : Lands(k, o)' <=> Lands(k, o)
           /\ WellPlaced(flux) => WellPlaced(flux)'
           /\ \A o \in Object : ClusterOf(o)' = ClusterOf(o)
  BY DEF SameWorld, Lands, WellPlaced, ClusterOf

(* Where no call moves. *)
LEMMA CallsStay ==
    ASSUME CommitInv, CommitTypeOK', SameWorld, UNCHANGED commitCall
    PROVE  WellPlaced(flux)' /\ WholeOrNothing' /\ \A c \in CommitCall : CallLands(commitCall[c])'
<1>1. WellPlaced(flux)' /\ WholeOrNothing'
  BY SameWorldKeeps DEF CommitInv, WholeOrNothing, Changed
<1>2. ASSUME NEW c \in CommitCall PROVE CallLands(commitCall[c])'
  <2> PICK q \in CallState : q = commitCall[c]
    BY DEF CommitInv, CommitTypeOK
  <2>1. CallLands(q)
    BY DEF CommitInv
  <2>2. /\ q.plans \subseteq Plan /\ q.todo \in Seq(Part)
        /\ q.target \in Kustomization \cup {None}
    BY CallFields
  <2>3. ASSUME NEW plan \in q.plans PROVE PlanLands(plan)'
    <3>1. plan.k \in Kustomization /\ plan.add \subseteq Object
      BY <2>2 DEF Plan
    <3>2. PlanLands(plan)
      BY <2>1 DEF CallLands
    <3> QED BY <3>1, <3>2, SameWorldKeeps DEF PlanLands
  <2>4. ASSUME q.pc = "plan"
        PROVE  /\ q.todo # <<>>
               /\ \A i \in 1..Len(q.todo) : PartFits(q.todo[i])'
               /\ q.target # None => \A o \in Objects(Head(q.todo)) : Lands(q.target, o)'
    <3>1. q.todo # <<>>
      BY <2>1, <2>4 DEF CallLands
    <3>2. ASSUME NEW p \in Part PROVE Objects(p) \subseteq Object
      BY DEF Part, Objects
    <3>3. ASSUME NEW p \in Part, PartFits(p) PROVE PartFits(p)'
      BY <3>2, <3>3, SameWorldKeeps DEF PartFits, SameWorld, Objects
    <3>4. \A i \in 1..Len(q.todo) : PartFits(q.todo[i])'
      BY <2>1, <2>2, <2>4, <3>3 DEF CallLands
    <3>5. ASSUME q.target # None, NEW o \in Objects(Head(q.todo)) PROVE Lands(q.target, o)'
      <4>1. Head(q.todo) \in Part
        BY <2>2, <3>1
      <4>2. Lands(q.target, o) /\ o \in Object /\ q.target \in Kustomization
        BY <2>1, <2>2, <2>4, <3>2, <3>5, <4>1 DEF CallLands
      <4> QED BY <4>2, SameWorldKeeps
    <3> QED BY <3>1, <3>4, <3>5
  <2> QED BY <2>3, <2>4 DEF CallLands, Objects
<1> QED BY <1>1, <1>2

LEMMA BoundsHold ==
    ASSUME CommitTypeOK
    PROVE  (Writes => writes' \in 0..MaxWrites) /\ (Happened => happened' \in 0..MaxEvents)
  BY CommitBounds DEF CommitTypeOK, Writes, Happened

LEMMA LiveMoves ==
    ASSUME CommitInv, NEW o \in Object, WriteLive(o) \/ RemoveLive(o)
    PROVE  CommitInv'
<1>1. /\ UNCHANGED <<flux, base, foreign, inventory, stray, prs, commitCall, happened>>
      /\ writes' \in 0..MaxWrites
  BY BoundsHold DEF WriteLive, RemoveLive, CommitInv, CommitTypeOK
<1>2. PICK there \in BOOLEAN : live' = [live EXCEPT ![o] = [there |-> there, label |-> None]]
  BY DEF WriteLive, RemoveLive
<1>3. live' \in [Object -> [there: BOOLEAN, label: Owner]]
  BY <1>2 DEF CommitInv, CommitTypeOK, Owner
<1>4. CommitTypeOK'
  BY <1>1, <1>3 DEF CommitInv, CommitTypeOK
<1>5. SameWorld
  BY <1>1 DEF SameWorld
<1>6. LabelsStand'
  <2>1. \A x \in Object : live'[x].label = live[x].label \/ live'[x].label = None
    BY <1>2 DEF CommitInv, CommitTypeOK
  <2> QED BY <1>1, <2>1, NoneAssumption DEF CommitInv, LabelsStand, ClusterOf
<1>7. FilesLand' /\ RequestsLand' /\ LandsInPlace'
  BY <1>1 DEF CommitInv, FilesLand, RequestsLand, PlanLands, LandsInPlace, Lands, ClusterOf
<1> QED BY <1>1, <1>4, <1>5, <1>6, <1>7, CallsStay DEF CommitInv

LEMMA RequestMoves ==
    ASSUME CommitInv, NEW pr \in prs, Merge(pr) \/ Close(pr)
    PROVE  CommitInv'
<1>1. /\ UNCHANGED <<flux, foreign, inventory, live, stray, commitCall, writes>> /\ prs' = prs \ {pr}
      /\ happened' \in 0..MaxEvents
  BY BoundsHold DEF Merge, Close, CommitInv, CommitTypeOK
<1>2. pr \in PullRequest /\ \A plan \in pr.plans : PlanLands(plan) /\ plan.add \subseteq Object
  BY DEF CommitInv, CommitTypeOK, RequestsLand, PullRequest, Plan
<1>3. /\ base' \in [Kustomization -> SUBSET Object]
      /\ \A k \in Kustomization : \A o \in base'[k] : o \in base[k] \/ \E plan \in pr.plans : plan.k = k /\ o \in plan.add
  <2>1. CASE Merge(pr)
    <3>1. ASSUME NEW k \in Kustomization
          PROVE  /\ base'[k] = (base[k] \cup UNION {plan.add : plan \in {x \in pr.plans : x.k = k}})
                                 \ UNION {plan.remove : plan \in {x \in pr.plans : x.k = k}}
                 /\ base[k] \subseteq Object
      BY <2>1 DEF Merge, CommitInv, CommitTypeOK
    <3>2. base' = [k \in Kustomization |-> base'[k]]
      BY <2>1 DEF Merge
    <3>3. ASSUME NEW k \in Kustomization, NEW o \in base'[k]
          PROVE  o \in Object /\ (o \in base[k] \/ \E plan \in pr.plans : plan.k = k /\ o \in plan.add)
      BY <1>2, <3>1, <3>3
    <3> QED BY <3>2, <3>3
  <2>2. CASE Close(pr)
    BY <2>2 DEF Close, CommitInv, CommitTypeOK
  <2> QED BY <2>1, <2>2
<1>4. CommitTypeOK'
  BY <1>1, <1>3 DEF CommitInv, CommitTypeOK
<1>5. SameWorld
  BY <1>1 DEF SameWorld
<1>6. FilesLand'
  <2>1. \A k \in Kustomization : \A o \in base'[k] : Lands(k, o)
    BY <1>2, <1>3 DEF CommitInv, FilesLand, PlanLands
  <2> QED BY <1>1, <2>1 DEF CommitInv, FilesLand, Lands, ClusterOf
<1>7. LabelsStand' /\ RequestsLand' /\ LandsInPlace'
  BY <1>1 DEF CommitInv, LabelsStand, RequestsLand, PlanLands, LandsInPlace, Lands, ClusterOf
<1> QED BY <1>1, <1>4, <1>5, <1>6, <1>7, CallsStay DEF CommitInv

LEMMA ReconcileMoves ==
    ASSUME CommitInv, NEW k \in Kustomization, Reconcile(k)
    PROVE  CommitInv'
<1> DEFINE declared == base[k] \cup foreign[k]
<1>1. UNCHANGED <<flux, base, foreign, prs, commitCall, writes, happened>>
  BY DEF Reconcile
<1>2. declared \subseteq Object /\ \A o \in declared : Lands(k, o)
  BY DEF CommitInv, CommitTypeOK, FilesLand
<1>3. inventory' = [inventory EXCEPT ![k] = declared] /\ UNCHANGED stray
  BY <1>2 DEF Reconcile, Lands
<1>4. /\ live' = [o \in Object |-> live'[o]]
      /\ \A o \in Object : \/ live'[o] = live[o]
                           \/ live'[o] = [there |-> FALSE, label |-> None]
                           \/ Lands(k, o) /\ live'[o] = [there |-> TRUE, label |-> k]
  BY <1>2 DEF Reconcile
<1>5. live' \in [Object -> [there: BOOLEAN, label: Owner]]
  <2>1. [there |-> FALSE, label |-> None] \in [there: BOOLEAN, label: Owner]
    BY DEF Owner
  <2>2. [there |-> TRUE, label |-> k] \in [there: BOOLEAN, label: Owner]
    BY DEF Owner
  <2>3. \A o \in Object : live[o] \in [there: BOOLEAN, label: Owner]
    BY DEF CommitInv, CommitTypeOK
  <2>4. \A o \in Object : live'[o] \in [there: BOOLEAN, label: Owner]
    BY <1>4, <2>1, <2>2, <2>3
  <2> QED BY <1>4, <2>4
<1>6. CommitTypeOK'
  BY <1>1, <1>2, <1>3, <1>5 DEF CommitInv, CommitTypeOK
<1>7. SameWorld
  BY <1>1 DEF SameWorld
<1>8. LabelsStand'
  BY <1>1, <1>4, NoneAssumption DEF CommitInv, LabelsStand, Lands, ClusterOf
<1>9. FilesLand' /\ RequestsLand' /\ LandsInPlace'
  BY <1>1, <1>3 DEF CommitInv, FilesLand, RequestsLand, PlanLands, LandsInPlace, Lands, ClusterOf
<1> QED BY <1>1, <1>6, <1>7, <1>8, <1>9, CallsStay DEF CommitInv

LEMMA DeleteMoves ==
    ASSUME CommitInv, NEW k \in Kustomization, DeleteKustomization(k)
    PROVE  CommitInv'
<1>1. UNCHANGED <<base, foreign, stray, prs, commitCall, writes>> /\ happened' \in 0..MaxEvents
  BY BoundsHold DEF DeleteKustomization, CommitInv
<1>2. flux' = [flux EXCEPT !.ks[k].there = FALSE]
  BY DEF DeleteKustomization
<1> DEFINE ks == [flux.ks EXCEPT ![k].there = FALSE]
<1>3. flux' = [flux EXCEPT !.ks = ks]
  BY <1>2
<1>4. /\ ks \in [Kustomization -> [there: BOOLEAN, cluster: Cluster, moves: SUBSET Object,
                            source: BOOLEAN, seals: BOOLEAN, prune: BOOLEAN, repo: Repo]]
      /\ \A j \in Kustomization : ks[j].cluster = flux.ks[j].cluster /\ ks[j].moves = flux.ks[j].moves
  BY FluxFields DEF CommitInv
<1> HIDE DEF ks
<1>5. flux' \in Flux /\ SameWorld
  BY <1>3, <1>4 DEF CommitInv, CommitTypeOK, Flux, SameWorld
<1>6. inventory' \in [Kustomization -> (SUBSET Object) \cup {Unrecorded}]
  <2>1. inventory' = [inventory EXCEPT ![k] = Unrecorded]
    BY DEF DeleteKustomization
  <2> DEFINE S == (SUBSET Object) \cup {Unrecorded}
  <2>2. inventory \in [Kustomization -> S] /\ Unrecorded \in S
    BY DEF CommitInv, CommitTypeOK
  <2> HIDE DEF S
  <2>3. inventory' \in [Kustomization -> S]
    BY <2>1, <2>2
  <2> QED BY <2>3 DEF S
<1>7. /\ live' = [o \in Object |-> live'[o]]
      /\ \A o \in Object : live'[o] = live[o] \/ live'[o] = [there |-> FALSE, label |-> None]
  BY DEF DeleteKustomization
<1>8. live' \in [Object -> [there: BOOLEAN, label: Owner]]
  <2>1. [there |-> FALSE, label |-> None] \in [there: BOOLEAN, label: Owner]
    BY DEF Owner
  <2>3. \A o \in Object : live[o] \in [there: BOOLEAN, label: Owner]
    BY DEF CommitInv, CommitTypeOK
  <2>4. \A o \in Object : live'[o] \in [there: BOOLEAN, label: Owner]
    BY <1>7, <2>1, <2>3
  <2> QED BY <1>7, <2>4
<1>9. CommitTypeOK'
  BY <1>1, <1>5, <1>6, <1>8 DEF CommitInv, CommitTypeOK
<1>10. LabelsStand'
  BY <1>5, <1>7, NoneAssumption, SameWorldKeeps DEF CommitInv, LabelsStand, SameWorld
<1>11. FilesLand'
  BY <1>1, <1>5, SameWorldKeeps DEF CommitInv, CommitTypeOK, FilesLand
<1>12. RequestsLand'
  BY <1>1, <1>5, SameWorldKeeps DEF CommitInv, CommitTypeOK, RequestsLand, PlanLands, PullRequest, Plan
<1>13. LandsInPlace'
  BY <1>1 DEF CommitInv, LandsInPlace
<1> QED BY <1>1, <1>5, <1>9, <1>10, <1>11, <1>12, <1>13, CallsStay DEF CommitInv

-----------------------------------------------------------------------------
(* Every step *)

LEMMA CommitCallMoves ==
    ASSUME CommitInv, NEW c \in CommitCall, NEW how \in How,
           CommitLoad(c, how) \/ CommitUnload(c, how) \/ CommitWire(c, how) \/ CommitUnwire(c, how)
    PROVE  CommitInv'
<1>1. \A o \in Object : live[o].label \in {None, live[o].label}
  OBVIOUS
<1>2. writes' \in 0..MaxWrites
  BY BoundsHold DEF CommitLoad, CommitUnload, CommitWire, CommitUnwire, CommitInv, CommitTypeOK
<1>3. CASE CommitLoad(c, how)
  <2>1. Kept(Split(Object, {}, None))
    BY SplitFits DEF CommitInv
  <2> QED BY <1>2, <1>3, <2>1, BeginMoves DEF CommitLoad
<1>4. CASE CommitWire(c, how)
  <2>1. Kept(WirePart({"config"}, {}))
    BY WireFits DEF CommitInv
  <2> QED BY <1>2, <1>4, <2>1, BeginMoves DEF CommitWire
<1>5. CASE CommitUnload(c, how)
  <2>1. {o \in Object : live[o].there} \in SUBSET Object
    OBVIOUS
  <2>2. Kept(Split({}, {o \in Object : live[o].there}, live["serving"].label))
    BY <2>1, SplitFits DEF CommitInv
  <2> QED BY <1>2, <1>5, <2>2, BeginMoves DEF CommitUnload, UnloadParts
<1>6. CASE CommitUnwire(c, how)
  <2>1. Kept(WirePart({}, {"config"}))
    BY WireFits DEF CommitInv
  <2> QED BY <1>2, <1>6, <2>1, BeginMoves DEF CommitUnwire
<1> QED BY <1>3, <1>4, <1>5, <1>6

LEMMA CommitInvKept ==
    ASSUME CommitInv, [CommitNext]_commitVars PROVE CommitInv'
<1>1. CASE UNCHANGED commitVars
  <2>1. CommitTypeOK'
    BY <1>1 DEF commitVars, CommitInv, CommitTypeOK
  <2>2. FilesLand' /\ LabelsStand' /\ LandsInPlace' /\ WellPlaced(flux)'
    BY <1>1 DEF commitVars, CommitInv, FilesLand, LabelsStand, LandsInPlace, WellPlaced, Lands, ClusterOf
  <2>3. RequestsLand'
    BY <1>1 DEF commitVars, CommitInv, RequestsLand, PlanLands, Lands, ClusterOf
  <2>4. WholeOrNothing'
    BY <1>1 DEF commitVars, CommitInv, WholeOrNothing, Changed
  <2>5. ASSUME NEW d \in CommitCall PROVE CallLands(commitCall[d])'
    <3>1. CallLands(commitCall[d])
      BY DEF CommitInv
    <3> QED BY <1>1, <3>1 DEF commitVars, CallLands, PlanLands, PartFits, Lands, ClusterOf, Objects
  <2> QED BY <2>1, <2>2, <2>3, <2>4, <2>5 DEF CommitInv
<1>2. ASSUME NEW c \in CommitCall, CommitStep(c) PROVE CommitInv'
  BY <1>2, PlanPartMoves, FailsMoves, OpenMoves DEF CommitStep
<1>3. ASSUME NEW o \in Object, WriteLive(o) \/ RemoveLive(o) PROVE CommitInv'
  BY <1>3, LiveMoves
<1>4. ASSUME NEW pr \in prs, Merge(pr) \/ Close(pr) PROVE CommitInv'
  BY <1>4, RequestMoves
<1>5. ASSUME NEW k \in Kustomization, Reconcile(k) \/ DeleteKustomization(k) PROVE CommitInv'
  BY <1>5, ReconcileMoves, DeleteMoves
<1> QED BY <1>1, <1>2, <1>3, <1>4, <1>5, CommitCallMoves DEF CommitNext

(* Where the commits may start: a world that holds together, and what people
   wrote is where it lands. *)
Sound(f, written, n) ==
    /\ f \in Flux /\ WellPlaced(f) /\ n \in 0..MaxWrites
    /\ written \in [Kustomization -> SUBSET Object]
    /\ \A k \in Kustomization : \A o \in written[k] :
         /\ f.ks[k].cluster = IF o = "serving" THEN f.at ELSE "own"
         /\ o \notin f.ks[k].moves

LEMMA CommitStarts ==
    ASSUME NEW f, NEW written, NEW n, Sound(f, written, n), CommitInitFor(f, written, n)
    PROVE  CommitInv
<1>1. /\ flux = f /\ foreign = written /\ base = [k \in Kustomization |-> {}]
      /\ stray = {} /\ prs = {} /\ writes = n /\ happened = 0
      /\ commitCall = [c \in CommitCall |-> IdleCommit]
  BY DEF CommitInitFor
<1>2. inventory \in [Kustomization -> (SUBSET Object) \cup {Unrecorded}]
  <2> DEFINE S == (SUBSET Object) \cup {Unrecorded}
  <2>1. PICK start \in {Unrecorded, {}} :
           inventory = [k \in Kustomization |-> IF foreign[k] = {} THEN start ELSE foreign[k]]
    BY DEF CommitInitFor
  <2>2. start \in S /\ \A k \in Kustomization : foreign[k] \in S
    BY <1>1 DEF Sound
  <2> HIDE DEF S
  <2>3. inventory \in [Kustomization -> S]
    BY <2>1, <2>2
  <2> QED BY <2>3 DEF S
<1>3. FilesLand
  BY <1>1 DEF Sound, FilesLand, Lands, ClusterOf
<1>4. \A o \in Object : Foreign(o) =>
        /\ (CHOOSE k \in Kustomization : o \in foreign[k]) \in Kustomization
        /\ o \in foreign[CHOOSE k \in Kustomization : o \in foreign[k]]
  BY DEF Foreign
<1>5. /\ live = [o \in Object |-> live[o]]
      /\ \A o \in Object : \/ live[o] = [there |-> FALSE, label |-> None]
                           \/ \E k \in Kustomization : Lands(k, o) /\ live[o] = [there |-> TRUE, label |-> k]
  <2>1. live = [o \in Object |->
                 IF Foreign(o)
                 THEN [there |-> TRUE, label |-> CHOOSE k \in Kustomization : o \in foreign[k]]
                 ELSE [there |-> FALSE, label |-> None]]
    BY DEF CommitInitFor
  <2> QED BY <1>3, <1>4, <2>1 DEF FilesLand
<1>6. live \in [Object -> [there: BOOLEAN, label: Owner]]
  <2>1. \A o \in Object : live[o] \in [there: BOOLEAN, label: Owner]
    <3>1. \A k \in Kustomization \cup {None}, there \in BOOLEAN :
            [there |-> there, label |-> k] \in [there: BOOLEAN, label: Owner]
      BY DEF Owner
    <3> SUFFICES ASSUME NEW o \in Object PROVE live[o] \in [there: BOOLEAN, label: Owner]
      OBVIOUS
    <3>2. \E k \in Kustomization \cup {None}, there \in BOOLEAN : live[o] = [there |-> there, label |-> k]
      BY <1>5
    <3> HIDE DEF Owner
    <3> QED BY <3>1, <3>2
  <2> QED BY <1>5, <2>1
<1>7. CommitTypeOK
  BY <1>1, <1>2, <1>6, IdleCall, CommitBounds DEF CommitTypeOK, Sound
<1>8. LabelsStand
  BY <1>5, NoneAssumption DEF LabelsStand, Lands
<1>9. IdleCommit.pc = "idle" /\ IdleCommit.prs = {} /\ IdleCommit.plans = {}
  BY DEF IdleCommit
<1>10. WholeOrNothing /\ \A c \in CommitCall : CallLands(commitCall[c])
  BY <1>1, <1>9 DEF WholeOrNothing, CallLands
<1>11. WellPlaced(flux) /\ RequestsLand /\ LandsInPlace
  BY <1>1 DEF Sound, RequestsLand, LandsInPlace
<1> QED BY <1>3, <1>7, <1>8, <1>10, <1>11 DEF CommitInv

(* "Every refusal is decided before anything is written" (commit.go:191), and
   what a call promised to commit it has opened; for any number of calls, of
   Kustomizations and of repositories, with requests merged and closed, Flux
   and direct writes beside them. *)
THEOREM CommitsAreWhole ==
    ASSUME NEW f, NEW written, NEW n, Sound(f, written, n)
    PROVE  CommitInitFor(f, written, n) /\ [][CommitNext]_commitVars => []WholeOrNothing
<1>1. CommitInitFor(f, written, n) => CommitInv
  BY CommitStarts
<1>2. CommitInv /\ [CommitNext]_commitVars => CommitInv'
  BY CommitInvKept
<1>3. CommitInv => WholeOrNothing
  BY DEF CommitInv
<1> QED BY <1>1, <1>2, <1>3, PTL

(* What is committed is applied on the cluster and in the namespace the request
   named (locationOf, resolveRemote), through two clusters, HelmReleases,
   namespaces that move and Kustomizations that are deleted.  It rests on who
   made a namespace of the own cluster applying there. *)
THEOREM CommitsLand ==
    ASSUME NEW f, NEW written, NEW n, Sound(f, written, n)
    PROVE  CommitInitFor(f, written, n) /\ [][CommitNext]_commitVars => []LandsInPlace
<1>1. CommitInitFor(f, written, n) => CommitInv
  BY CommitStarts
<1>2. CommitInv /\ [CommitNext]_commitVars => CommitInv'
  BY CommitInvKept
<1>3. CommitInv => LandsInPlace
  BY DEF CommitInv
<1> QED BY <1>1, <1>2, <1>3, PTL

-----------------------------------------------------------------------------
(* Launch: what was refused *)

(* A refusal holds part of what the cloud answered to the pool's claim, all of
   it unless it is cut, and that cloud launched nothing the claim asked for. *)
RefusalFits(r) ==
    /\ r.said \subseteq FleetAnswer(r.when)
    /\ r.cut \/ r.said = FleetAnswer(r.when)
    /\ \A sz \in Requested : ~Launches(r.when, sz)

LaunchInv ==
    /\ pool \in PoolSpec
    /\ \A r \in own \cup warned \cup look.own : RefusalFits(r)

(* What a list has read, whichever reads failed. *)
FactsFit(f) ==
    /\ \A r \in f.refusals : RefusalFits(r) /\ r.said \subseteq f.errors
    /\ \A e \in f.errors : \E r \in f.refusals : e \in r.said
    /\ f.asked \subseteq pool.types /\ f.allowed \in {{}, Tried}

LEMMA PoolTried ==
    ASSUME pool \in PoolSpec
    PROVE  /\ pool.types # {} /\ Tried # {} /\ Tried \subseteq Zone
           /\ pool.zones # {} => Tried = pool.zones
           /\ \A s \in pool.types, z \in Tried : <<s, z>> \in Requested
           /\ \A sz \in Requested : /\ sz = <<sz[1], sz[2]>>
                                    /\ sz[1] \in pool.types /\ sz[2] \in Tried
<1>1. pool.types \in (SUBSET Size) \ {{}} /\ pool.zones \in SUBSET Zone /\ pool.class \in (SUBSET Zone) \ {{}}
  BY DEF PoolSpec
<1>2. /\ Tried # {} /\ Tried \subseteq Zone
      /\ pool.zones # {} => Tried = pool.zones
  BY <1>1 DEF Tried
<1>3. /\ \A s \in pool.types, z \in Tried : <<s, z>> \in Requested
      /\ \A sz \in Requested : /\ sz = <<sz[1], sz[2]>>
                               /\ sz[1] \in pool.types /\ sz[2] \in Tried
  BY DEF Requested
<1> QED BY <1>1, <1>2, <1>3

LEMMA LaunchStarts == LaunchInit => LaunchInv
  BY DEF LaunchInit, LaunchInv, NotLooked

LEMMA LaunchKept ==
    LaunchInv /\ [LaunchNext]_launchVars => LaunchInv'
<1> SUFFICES ASSUME LaunchInv, [LaunchNext]_launchVars PROVE LaunchInv'
  OBVIOUS
<1>0. /\ pool' = pool
      /\ \A r : RefusalFits(r)' <=> RefusalFits(r)
  <2>1. pool' = pool
    BY DEF LaunchNext, CreateClaim, LaunchFails, DeleteClaim, OtherRefused, EventsGo, CloudMoves,
           ReadClaim, Forget, launchVars
  <2>2. Tried' = Tried /\ Requested' = Requested
    BY <2>1 DEF Tried, Requested
  <2>3. \A in : FleetAnswer(in)' = FleetAnswer(in)
    BY <2>2 DEF FleetAnswer, Shortage, Quota, Other, NamesNothing
  <2> QED BY <2>1, <2>2, <2>3 DEF RefusalFits, Launches
<1>1. \A r \in Denials : RefusalFits(r)
  <2> SUFFICES ASSUME NEW r \in Denials PROVE RefusalFits(r)
    OBVIOUS
  <2>1. \A sz \in Requested : ~Launches(cloud, sz)
    BY DEF Denials
  <2>2. PICK said \in {FleetAnswer(cloud)} \cup {{e} : e \in FleetAnswer(cloud)} : r = Refusing(said)
    BY <2>1 DEF Denials
  <2>3. /\ said \subseteq FleetAnswer(cloud)
        /\ r.said = said /\ r.when = cloud /\ r.cut = (said # FleetAnswer(cloud))
    BY <2>2 DEF Refusing
  <2> QED BY <2>1, <2>3 DEF RefusalFits
<1>2. own' \cup warned' \cup look'.own \subseteq own \cup warned \cup look.own \cup Denials
  <2>1. CASE CreateClaim
    BY <2>1 DEF CreateClaim
  <2>2. CASE LaunchFails
    BY <2>2 DEF LaunchFails
  <2>3. CASE DeleteClaim
    BY <2>3 DEF DeleteClaim
  <2>4. CASE OtherRefused
    BY <2>4 DEF OtherRefused
  <2>5. CASE EventsGo
    BY <2>5 DEF EventsGo
  <2>6. CASE CloudMoves
    BY <2>6 DEF CloudMoves
  <2>7. CASE ReadClaim
    BY <2>7 DEF ReadClaim
  <2>8. CASE Forget
    BY <2>8 DEF Forget, NotLooked
  <2>9. CASE UNCHANGED launchVars
    BY <2>9 DEF launchVars
  <2> QED BY <2>1, <2>2, <2>3, <2>4, <2>5, <2>6, <2>7, <2>8, <2>9 DEF LaunchNext
<1> QED BY <1>0, <1>1, <1>2 DEF LaunchInv

LEMMA ListsFit ==
    ASSUME LaunchInv, NEW how
    PROVE  FactsFit(launchFacts(how))
<1> DEFINE f == launchFacts(how)
<1>1. /\ f.refusals = standing(how)
      /\ f.errors = UNION {r.said : r \in standing(how)}
      /\ f.asked = (IF look.claim > 0 \/ how.pool THEN pool.types ELSE {})
      /\ f.allowed = (IF look.claim > 0 \/ (how.pool /\ pool.zones = {} /\ how.class) THEN Tried ELSE {})
  BY DEF launchFacts
<1>2. standing(how) \subseteq own \cup warned \cup look.own
  BY DEF standing
<1>3. /\ \A r \in f.refusals : RefusalFits(r) /\ r.said \subseteq f.errors
      /\ \A e \in f.errors : \E r \in f.refusals : e \in r.said
  BY <1>1, <1>2 DEF LaunchInv
<1>4. f.asked \subseteq pool.types /\ f.allowed \in {{}, Tried}
  BY <1>1
<1> QED BY <1>3, <1>4 DEF FactsFit

(* What an error of a refusal says of the cloud that answered. *)
LEMMA OneError ==
    ASSUME pool \in PoolSpec, NEW r, RefusalFits(r), NEW e \in r.said
    PROVE  \/ \E s \in pool.types, z \in Tried :
                /\ <<s, z>> \notin r.when.has \cup r.when.other /\ e.code = "InsufficientInstanceCapacity"
                /\ e.sizes = {s} /\ e.zones = {z}
           \/ /\ \E s \in pool.types, z \in Tried : <<s, z>> \in r.when.has \ r.when.other
              /\ e.code = "VcpuLimitExceeded" /\ e.sizes = {} /\ e.zones = {} /\ e.offered = {}
           \/ /\ \E s \in pool.types, z \in Tried : <<s, z>> \in r.when.other
              /\ e.code = "Other" /\ e.sizes = {} /\ e.zones = {} /\ e.offered = {}
<1>1. \/ \E sz \in Requested \ (r.when.has \cup r.when.other) : e = Shortage(sz[1], sz[2])
      \/ \E sz \in Requested \cap (r.when.has \ r.when.other) : e = Quota
      \/ \E sz \in Requested \cap r.when.other : e = Other
  BY DEF RefusalFits, FleetAnswer
<1>2. CASE \E sz \in Requested \ (r.when.has \cup r.when.other) : e = Shortage(sz[1], sz[2])
  <2>1. PICK s \in pool.types, z \in Tried :
          <<s, z>> \notin r.when.has \cup r.when.other /\ e = Shortage(s, z)
    BY <1>2, PoolTried
  <2> QED BY <2>1 DEF Shortage
<1>3. CASE \E sz \in Requested \cap (r.when.has \ r.when.other) : e = Quota
  <2>1. \E s \in pool.types, z \in Tried : <<s, z>> \in r.when.has \ r.when.other
    BY <1>3, PoolTried
  <2> QED BY <1>3, <2>1 DEF Quota, NamesNothing
<1>4. CASE \E sz \in Requested \cap r.when.other : e = Other
  <2>1. \E s \in pool.types, z \in Tried : <<s, z>> \in r.when.other
    BY <1>4, PoolTried
  <2> QED BY <1>4, <2>1 DEF Other, NamesNothing
<1> QED BY <1>1, <1>2, <1>3, <1>4

(* A refusal that is not cut names all of its cause. *)
LEMMA WholeAnswer ==
    ASSUME pool \in PoolSpec, NEW r, RefusalFits(r), ~r.cut, NEW s \in pool.types, NEW z \in Tried
    PROVE  /\ <<s, z>> \notin r.when.has \cup r.when.other =>
                \E e \in r.said : e.sizes = {s} /\ e.zones = {z}
           /\ <<s, z>> \in r.when.has \ r.when.other => \E e \in r.said : e.code = "VcpuLimitExceeded"
           /\ <<s, z>> \in r.when.other => \E e \in r.said : e.code = "Other"
<1>1. r.said = FleetAnswer(r.when) /\ <<s, z>> \in Requested /\ <<s, z>>[1] = s /\ <<s, z>>[2] = z
  BY PoolTried DEF RefusalFits
<1>2. ASSUME <<s, z>> \notin r.when.has \cup r.when.other
      PROVE  \E e \in r.said : e.sizes = {s} /\ e.zones = {z}
  <2>1. Shortage(s, z) \in r.said
    BY <1>1, <1>2 DEF FleetAnswer
  <2> QED BY <2>1 DEF Shortage
<1>3. ASSUME <<s, z>> \in r.when.has \ r.when.other
      PROVE  \E e \in r.said : e.code = "VcpuLimitExceeded"
  <2>1. Quota \in r.said
    BY <1>1, <1>3 DEF FleetAnswer
  <2> QED BY <2>1 DEF Quota, NamesNothing
<1>4. ASSUME <<s, z>> \in r.when.other
      PROVE  \E e \in r.said : e.code = "Other"
  <2>1. Other \in r.said
    BY <1>1, <1>4 DEF FleetAnswer
  <2> QED BY <2>1 DEF Other, NamesNothing
<1> QED BY <1>2, <1>3, <1>4

LEMMA NothingLaunched ==
    ASSUME pool \in PoolSpec, NEW r, RefusalFits(r), NEW s \in pool.types, NEW z \in Tried
    PROVE  ~Launches(r.when, <<s, z>>)
           /\ (<<s, z>> \in r.when.has \ r.when.other => s \in r.when.quota)
<1>1. <<s, z>> \in Requested /\ <<s, z>>[1] = s
  BY PoolTried
<1>2. ~Launches(r.when, <<s, z>>)
  BY <1>1 DEF RefusalFits
<1> QED BY <1>1, <1>2 DEF Launches

(* Whatever the list could read, the sizes and zones it names were asked for. *)
LEMMA NamedWereSent ==
    ASSUME pool \in PoolSpec, NEW f, FactsFit(f)
    PROVE  /\ refusedSizes(f) \subseteq pool.types /\ requestedZones(f) \subseteq Tried
           /\ \A e \in f.errors : e.zones \subseteq requestedZones(f) /\ e.sizes \subseteq short(f)
           /\ f.pool /\ (pool.zones # {} \/ EveryZone(f)) /\ Tells(f) => Tried \subseteq requestedZones(f)
<1>1. ASSUME NEW e \in f.errors PROVE e.sizes \subseteq pool.types /\ e.zones \subseteq Tried
  <2>1. PICK r \in f.refusals : RefusalFits(r) /\ e \in r.said
    BY DEF FactsFit
  <2>2. \/ \E s \in pool.types, z \in Tried : e.sizes = {s} /\ e.zones = {z}
        \/ e.sizes = {} /\ e.zones = {}
    BY <2>1, OneError
  <2> QED BY <2>2
<1>2. /\ short(f) \subseteq pool.types
      /\ \A e \in f.errors : e.sizes \subseteq short(f)
  BY <1>1 DEF short
<1>3. f.asked \subseteq pool.types /\ f.allowed \subseteq Tried /\ (f.allowed # {} => f.allowed = Tried)
  BY DEF FactsFit
<1>4. requestedZones(f) \subseteq Tried
  <2>1. UNION {e.zones : e \in f.errors} \subseteq Tried
    BY <1>1
  <2>2. pool.zones \subseteq Tried
    BY PoolTried
  <2> DEFINE asked == IF ~Tells(f) THEN {} ELSE IF f.pool /\ pool.zones # {} THEN pool.zones ELSE f.allowed
  <2>3. asked \subseteq Tried
    BY <1>3, <2>2
  <2>4. requestedZones(f) = (UNION {e.zones : e \in f.errors}) \cup asked
    BY DEF requestedZones
  <2> DEFINE told == UNION {e.zones : e \in f.errors}
  <2> HIDE DEF asked, told
  <2> QED BY <2>1, <2>3, <2>4 DEF told
<1>5. \A e \in f.errors : e.zones \subseteq requestedZones(f)
  BY DEF requestedZones
<1>6. f.pool /\ (pool.zones # {} \/ EveryZone(f)) /\ Tells(f) => Tried \subseteq requestedZones(f)
  <2> SUFFICES ASSUME f.pool, pool.zones # {} \/ EveryZone(f), Tells(f) PROVE Tried \subseteq requestedZones(f)
    OBVIOUS
  <2> DEFINE asked == IF ~Tells(f) THEN {} ELSE IF f.pool /\ pool.zones # {} THEN pool.zones ELSE f.allowed
  <2>1. asked = Tried
    BY <1>3, PoolTried DEF EveryZone, Unpinned
  <2>2. asked \subseteq requestedZones(f)
    BY DEF requestedZones
  <2> QED BY <2>1, <2>2
<1> QED BY <1>2, <1>3, <1>4, <1>5, <1>6 DEF refusedSizes

(* The quota, or another error, stands only when a cloud refused for it. *)
LEMMA CauseStands ==
    ASSUME pool \in PoolSpec, NEW f, FactsFit(f), NEW e \in f.errors
    PROVE  /\ e.code = "VcpuLimitExceeded" => \E r \in f.refusals : e \in r.said /\ r.when.quota # {}
           /\ e.sizes # {} => \E r \in f.refusals : \A s \in e.sizes : \E z \in Tried : <<s, z>> \notin r.when.has
<1>1. PICK r \in f.refusals : RefusalFits(r) /\ e \in r.said
  BY DEF FactsFit
<1>2. ASSUME e.code = "VcpuLimitExceeded" PROVE r.when.quota # {}
  <2>1. PICK s \in pool.types, z \in Tried : <<s, z>> \in r.when.has \ r.when.other
    BY <1>1, <1>2, OneError
  <2> QED BY <1>1, <2>1, NothingLaunched
<1>3. \A s \in e.sizes : \E z \in Tried : <<s, z>> \notin r.when.has
  BY <1>1, OneError
<1> QED BY <1>1, <1>2, <1>3

LEMMA CapacityTrue ==
    ASSUME pool \in PoolSpec, NEW f, FactsFit(f), \A r \in f.refusals : Telling(r), NEW s \in capacitySizes(f)
    PROVE  /\ \E r \in f.refusals, z \in Tried : <<s, z>> \notin r.when.has
           /\ \A r \in f.refusals, z \in requestedZones(f) : ~Launches(r.when, <<s, z>>)
<1>1. s \in pool.types /\ s \in refusedSizes(f) /\ requestedZones(f) \subseteq Tried
  BY NamedWereSent DEF capacitySizes
<1>2. \A r \in f.refusals, z \in requestedZones(f) : ~Launches(r.when, <<s, z>>)
  BY <1>1, NothingLaunched DEF FactsFit
<1>3. CASE s \in short(f)
  <2>1. PICK e \in f.errors : s \in e.sizes
    BY <1>3 DEF short
  <2> QED BY <1>2, <2>1, CauseStands
<1>4. CASE s \notin short(f)
  <2>1. /\ \A e \in f.errors : e.code # "VcpuLimitExceeded" /\ e.code # "Other"
        /\ Tells(f)
    BY <1>1, <1>4 DEF capacitySizes, QuotaStands, OtherStands, refusedSizes
  <2>2. PICK e \in f.errors : TRUE
    BY <2>1 DEF Tells, short, QuotaStands
  <2>3. PICK r \in f.refusals : RefusalFits(r) /\ r.said \subseteq f.errors
    BY <2>2 DEF FactsFit
  <2>4. PICK z \in Tried : TRUE
    BY PoolTried
  <2>5. <<s, z>> \notin r.when.has
    <3>1. CASE r.cut
      <4>1. r.when.quota = {} /\ r.when.other = {}
        BY <3>1 DEF Telling
      <4> QED BY <1>1, <2>3, <2>4, <4>1, NothingLaunched
    <3>2. CASE ~r.cut
      BY <1>1, <2>1, <2>3, <2>4, <3>2, WholeAnswer
    <3> QED BY <3>1, <3>2
  <2> QED BY <1>2, <2>4, <2>5
<1> QED BY <1>3, <1>4

LEMMA QuotaTrue ==
    ASSUME pool \in PoolSpec, NEW f, FactsFit(f), \A r \in f.refusals : Telling(r), NEW r \in f.refusals
    PROVE  /\ Quota \in r.said /\ r.when.other = {} => quotaSizes(f) \subseteq r.when.quota
           /\ Other \in r.said => otherSizes(f) \X Tried \subseteq r.when.other
<1>1. RefusalFits(r) /\ r.said \subseteq f.errors
  BY DEF FactsFit
<1>2. ASSUME NEW s \in quotaSizes(f), Quota \in r.said, r.when.other = {} PROVE s \in r.when.quota
  <2>1. s \in pool.types /\ s \notin short(f)
    BY NamedWereSent DEF quotaSizes
  <2>2. ~r.cut
    <3>1. Quota.code = "VcpuLimitExceeded"
      BY DEF Quota, NamesNothing
    <3>2. PICK t \in pool.types, z \in Tried : <<t, z>> \in r.when.has \ r.when.other
      BY <1>1, <1>2, <3>1, OneError
    <3>3. t \in r.when.quota
      BY <1>1, <3>2, NothingLaunched
    <3> QED BY <3>3 DEF Telling
  <2>3. PICK z \in Tried : TRUE
    BY PoolTried
  <2>4. <<s, z>> \in r.when.has
    <3>1. SUFFICES ASSUME <<s, z>> \notin r.when.has PROVE FALSE
      OBVIOUS
    <3>2. PICK e \in r.said : e.sizes = {s}
      BY <1>1, <1>2, <2>1, <2>2, <2>3, <3>1, WholeAnswer
    <3> QED BY <1>1, <2>1, <3>2, NamedWereSent
  <2> QED BY <1>1, <1>2, <2>1, <2>3, <2>4, NothingLaunched
<1>3. ASSUME Other \in r.said, NEW s \in otherSizes(f), NEW z \in Tried PROVE <<s, z>> \in r.when.other
  <2>1. s \in pool.types /\ s \notin short(f) /\ ~QuotaStands(f)
    BY NamedWereSent DEF otherSizes
  <2>2. ~r.cut
    <3>1. Other.code = "Other"
      BY DEF Other, NamesNothing
    <3>2. \E t \in pool.types, y \in Tried : <<t, y>> \in r.when.other
      BY <1>1, <1>3, <3>1, OneError
    <3> QED BY <3>2 DEF Telling
  <2>3. SUFFICES ASSUME <<s, z>> \notin r.when.other PROVE FALSE
    OBVIOUS
  <2>4. CASE <<s, z>> \in r.when.has
    BY <1>1, <1>3, <2>1, <2>2, <2>3, <2>4, WholeAnswer DEF QuotaStands
  <2>5. CASE <<s, z>> \notin r.when.has
    <3>1. PICK e \in r.said : e.sizes = {s}
      BY <1>1, <1>3, <2>1, <2>2, <2>3, <2>5, WholeAnswer
    <3> QED BY <1>1, <2>1, <3>1, NamedWereSent
  <2> QED BY <2>4, <2>5
<1> QED BY <1>2, <1>3

LEMMA OfferTrue ==
    ASSUME pool \in PoolSpec, NEW f, FactsFit(f),
           \/ f.pool /\ (pool.zones # {} \/ EveryZone(f))
           \/ \E r \in f.refusals : ~r.cut /\ r.when.quota = {} /\ r.when.other = {}
    PROVE  availableZones(f) \cap Tried = {}
<1>1. CASE ~Tells(f)
  <2>1. \A e \in f.errors : e.sizes = {} /\ e.code # "VcpuLimitExceeded"
    BY <1>1 DEF Tells, short, QuotaStands
  <2>2. \A e \in f.errors : e.offered = {}
    <3> SUFFICES ASSUME NEW e \in f.errors PROVE e.offered = {}
      OBVIOUS
    <3>1. PICK r \in f.refusals : RefusalFits(r) /\ e \in r.said
      BY DEF FactsFit
    <3> QED BY <2>1, <3>1, OneError
  <2> QED BY <2>2 DEF availableZones
<1>2. CASE Tells(f)
  <2>1. Tried \subseteq requestedZones(f)
    <3>1. CASE f.pool /\ (pool.zones # {} \/ EveryZone(f))
      BY <1>2, <3>1, NamedWereSent
    <3>2. ASSUME NEW r \in f.refusals, ~r.cut, r.when.quota = {}, r.when.other = {}
          PROVE  Tried \subseteq requestedZones(f)
      <4>1. PICK s \in pool.types : TRUE
        BY PoolTried
      <4>2. RefusalFits(r) /\ r.said \subseteq f.errors
        BY DEF FactsFit
      <4>3. \A z \in Tried : <<s, z>> \notin r.when.has \cup r.when.other
        BY <3>2, <4>1, <4>2, NothingLaunched
      <4>4. ASSUME NEW z \in Tried PROVE \E e \in f.errors : e.zones = {z}
        <5>1. \E e \in r.said : e.zones = {z}
          <6>1. <<s, z>> \notin r.when.has \cup r.when.other
            BY <4>3
          <6> HIDE DEF PoolSpec
          <6> QED BY <3>2, <4>1, <4>2, <6>1, WholeAnswer
        <5> QED BY <4>2, <5>1
      <4> QED BY <4>4, NamedWereSent
    <3> QED BY <3>1, <3>2
  <2> DEFINE offered == UNION {e.offered : e \in f.errors}
  <2>2. availableZones(f) = offered \ requestedZones(f)
    BY <1>2 DEF availableZones
  <2> HIDE DEF offered
  <2> QED BY <2>1, <2>2
<1> QED BY <1>1, <1>2

LEMMA RefusalsTrue ==
    LaunchInv => RefusalIsTrue
<1> SUFFICES ASSUME LaunchInv, NEW how \in LaunchReads,
                    \A r \in launchFacts(how).refusals : Telling(r)
             PROVE  LET f == launchFacts(how) IN
        /\ \A s \in capacitySizes(f) :
              /\ \E r \in f.refusals, z \in Tried : <<s, z>> \notin r.when.has
              /\ \A r \in f.refusals, z \in requestedZones(f) : ~Launches(r.when, <<s, z>>)
        /\ \A r \in f.refusals :
              /\ Quota \in r.said /\ r.when.other = {} => quotaSizes(f) \subseteq r.when.quota
              /\ Other \in r.said => otherSizes(f) \X Tried \subseteq r.when.other
        /\ \/ f.pool /\ (pool.zones # {} \/ EveryZone(f))
           \/ \E r \in f.refusals : ~r.cut /\ r.when.quota = {} /\ r.when.other = {}
           => availableZones(f) \cap Tried = {}
        /\ wayOut(f) \cap {"zone", "unpin"} # {} /\ f.pool => pool.zones # {}
        /\ "quota" \in wayOut(f) => \E r \in f.refusals : r.when.quota # {}
  BY DEF RefusalIsTrue
<1>0. PICK f : f = launchFacts(how)
  OBVIOUS
<1>1. pool \in PoolSpec /\ FactsFit(f) /\ \A r \in f.refusals : Telling(r)
  BY <1>0, ListsFit DEF LaunchInv
<1>2. \A s \in capacitySizes(f) :
              /\ \E r \in f.refusals, z \in Tried : <<s, z>> \notin r.when.has
              /\ \A r \in f.refusals, z \in requestedZones(f) : ~Launches(r.when, <<s, z>>)
  BY <1>1, CapacityTrue
<1>3. \A r \in f.refusals :
              /\ Quota \in r.said /\ r.when.other = {} => quotaSizes(f) \subseteq r.when.quota
              /\ Other \in r.said => otherSizes(f) \X Tried \subseteq r.when.other
  BY <1>1, QuotaTrue
<1>4. \/ f.pool /\ (pool.zones # {} \/ EveryZone(f))
      \/ \E r \in f.refusals : ~r.cut /\ r.when.quota = {} /\ r.when.other = {}
      => availableZones(f) \cap Tried = {}
  BY <1>1, OfferTrue
<1>5. wayOut(f) \cap {"zone", "unpin"} # {} /\ f.pool => pool.zones # {}
  <2>1. "zone" \in wayOut(f) \/ "unpin" \in wayOut(f) => ~Unpinned(f)
    BY DEF wayOut, pinnedByCache
  <2> QED BY <2>1 DEF Unpinned
<1>6. "quota" \in wayOut(f) => \E r \in f.refusals : r.when.quota # {}
  BY <1>1, CauseStands DEF wayOut, QuotaStands
<1> QED BY <1>0, <1>2, <1>3, <1>4, <1>5, <1>6

-----------------------------------------------------------------------------
(* Phases: what a crash is shown as *)

(* A runtime that has run was let in by its init container, on its node. *)
Sane(p) ==
    /\ p \in Pod
    /\ p.died \/ p.main \in {"created", "running", "dead", "backoff"} =>
         p.init \in {"absent", "done"} /\ p.place = "bound"
    /\ p.died => p.main # "none"

PhaseInv ==
    /\ object \in ServedState
    /\ pod # NoPod => Sane(pod)
    /\ list.pod \notin {NotRead, NoPod} => Sane(list.pod)
    /\ list \in [object: ServedState \cup {NotRead}, pod: Pod \cup {NoPod, NotRead}]
    /\ list.pod # NotRead => list.object \in ServedState

LEMMA PhaseStarts == PhaseInit => PhaseInv
  BY DEF PhaseInit, PhaseInv, ServedState

LEMMA PodMoves ==
    ASSUME PhaseInv, pod' # NoPod => Sane(pod'), object' = object, list' = list
    PROVE  PhaseInv'
  BY DEF PhaseInv, Sane

LEMMA PhaseKept ==
    PhaseInv /\ [PhaseNext]_phaseVars => PhaseInv'
<1> SUFFICES ASSUME PhaseInv, [PhaseNext]_phaseVars PROVE PhaseInv'
  OBVIOUS
<1>1. CASE CreatePod
  <2>1. pod' # NoPod => Sane(pod')
    BY <1>1 DEF CreatePod, OnlyPod, Sane, Pod, InitState, MainState
  <2> QED BY <1>1, <2>1, PodMoves DEF CreatePod, OnlyPod
<1>2. CASE Nominate \/ Launch \/ RefuseClaim \/ RefuseOther \/ LoseClaim \/ Allocatable \/ Expire
           \/ UNCHANGED phaseVars
  <2>1. pod' = pod /\ object' = object /\ list' = list
    BY <1>2 DEF Nominate, Launch, RefuseClaim, RefuseOther, LoseClaim, Allocatable, Expire, phaseVars, clusterVars
  <2> QED BY <2>1, PodMoves DEF PhaseInv, Sane
<1>3. CASE NominateNode \/ BudgetEnds \/ Bind
  <2>1. pod' # NoPod => Sane(pod')
    <3>1. pod # NoPod /\ Sane(pod) /\ pod.place # "bound"
      BY <1>3 DEF NominateNode, BudgetEnds, Bind, Unbound, PhaseInv
    <3>2. \/ pod' = [pod EXCEPT !.place = "nominated"]
          \/ pod' = [pod EXCEPT !.overdue = TRUE]
          \/ pod' = [pod EXCEPT !.place = "bound", !.overdue = FALSE]
      BY <1>3 DEF NominateNode, BudgetEnds, Bind, OnlyPod
    <3> QED BY <3>1, <3>2 DEF Sane, Pod
  <2> QED BY <1>3, <2>1, PodMoves DEF NominateNode, BudgetEnds, Bind, OnlyPod
<1>4. CASE Report \/ InitStarts \/ InitEnds \/ InitTrouble \/ InitAgain
  <2>0. pod # NoPod => Sane(pod)
    BY DEF PhaseInv
  <2>1. ASSUME Report PROVE Sane(pod')
    BY <2>0, <2>1 DEF Report, Bound, OnlyPod, Sane, Pod, InitState, MainState
  <2>2. ASSUME InitStarts \/ InitEnds PROVE Sane(pod')
    BY <2>0, <2>2 DEF InitStarts, InitEnds, Bound, OnlyPod, Sane, Pod, InitState
  <2>3. ASSUME InitTrouble PROVE Sane(pod')
    BY <2>0, <2>3 DEF InitTrouble, Bound, OnlyPod, Sane, Pod, InitState
  <2>4. ASSUME InitAgain PROVE Sane(pod')
    BY <2>0, <2>4 DEF InitAgain, Bound, OnlyPod, Sane, Pod, InitState
  <2> QED BY <1>4, <2>1, <2>2, <2>3, <2>4, PodMoves DEF Report, InitStarts, InitEnds, InitTrouble, InitAgain,
             OnlyPod
<1>5. CASE PullStarts \/ PullEnds \/ PullTrouble \/ RunTrouble
  <2>0. pod # NoPod => Sane(pod)
    BY DEF PhaseInv
  <2>1. ASSUME PullStarts \/ PullEnds PROVE Sane(pod')
    BY <2>0, <2>1 DEF PullStarts, PullEnds, PullingImage, Event, Bound, Sane, Pod, MainState
  <2>2. ASSUME PullTrouble PROVE Sane(pod')
    BY <2>0, <2>2 DEF PullTrouble, Bound, OnlyPod, Sane, Pod, MainState
  <2>3. ASSUME RunTrouble PROVE Sane(pod')
    BY <2>0, <2>3 DEF RunTrouble, Bound, OnlyPod, Sane, Pod, MainState
  <2> QED BY <1>5, <2>1, <2>2, <2>3, PodMoves DEF PullStarts, PullEnds, PullTrouble, RunTrouble, Event, OnlyPod
<1>6. CASE StartsServer \/ ProbesPass \/ Crash \/ BackOff
  <2>0. pod # NoPod => Sane(pod)
    BY DEF PhaseInv
  <2>1. ASSUME StartsServer \/ ProbesPass PROVE Sane(pod')
    BY <2>0, <2>1 DEF StartsServer, ProbesPass, Bound, OnlyPod, Sane, Pod, MainState
  <2>2. ASSUME Crash PROVE Sane(pod')
    BY <2>0, <2>2 DEF Crash, Bound, OnlyPod, Sane, Pod, MainState
  <2>3. ASSUME BackOff PROVE Sane(pod')
    BY <2>0, <2>3 DEF BackOff, Bound, OnlyPod, Sane, Pod, MainState
  <2> QED BY <1>6, <2>1, <2>2, <2>3, PodMoves DEF StartsServer, ProbesPass, Crash, BackOff, OnlyPod
<1>7. CASE Evict
  BY <1>7, PodMoves DEF Evict
<1>8. CASE Routes \/ Unroutes \/ ObjectTrouble
  <2>1. pod' = pod /\ list' = list /\ object' \in ServedState
    BY <1>8 DEF Routes, Unroutes, ObjectTrouble, OnlyObject, PhaseInv, ServedState
  <2> QED BY <2>1 DEF PhaseInv, Sane
<1>9. CASE ReadObject \/ ReadPods \/ Show
  <2>1. pod' = pod /\ object' = object
    BY <1>9 DEF ReadObject, ReadPods, Show, clusterVars
  <2>2. CASE ReadObject
    <3>1. list' = [list EXCEPT !.object = object]
      BY <2>2 DEF ReadObject
    <3> QED BY <2>1, <3>1 DEF PhaseInv, Sane
  <2>3. CASE ReadPods
    <3>1. list' = [list EXCEPT !.pod = pod] /\ list.object # NotRead
      BY <2>3 DEF ReadPods
    <3> QED BY <2>1, <3>1 DEF PhaseInv, Sane
  <2>4. CASE Show
    <3>1. list' = [object |-> NotRead, pod |-> NotRead]
      BY <2>4 DEF Show
    <3> QED BY <2>1, <3>1 DEF PhaseInv, Sane
  <2> QED BY <1>9, <2>2, <2>3, <2>4
<1> QED BY <1>1, <1>2, <1>3, <1>4, <1>5, <1>6, <1>7, <1>8, <1>9 DEF PhaseNext, Progress, Setback

(* How far the steps of a timeline go, and how the last of them stands. *)
PhaseEnds(steps, n, S) == steps \in Seq(StepState) /\ Len(steps) = n /\ steps[n] \in S

LEMMA OneStep ==
    ASSUME NEW x \in StepState PROVE PhaseEnds(<<x>>, 1, {x})
  BY DEF PhaseEnds

LEMMA TwoSteps ==
    ASSUME NEW x \in StepState, NEW y \in StepState PROVE PhaseEnds(<<x, y>>, 2, {y})
  BY DEF PhaseEnds

LEMMA Joined ==
    ASSUME NEW s, NEW t, NEW n \in Nat, NEW m \in Nat \ {0}, NEW S, NEW T, PhaseEnds(s, n, S), PhaseEnds(t, m, T)
    PROVE  PhaseEnds(s \o t, n + m, T)
<1>1. s \in Seq(StepState) /\ t \in Seq(StepState) /\ Len(s) = n /\ Len(t) = m /\ t[m] \in T
  BY DEF PhaseEnds
<1>2. /\ s \o t \in Seq(StepState) /\ Len(s \o t) = n + m
      /\ \A i \in 1..(n + m) : (s \o t)[i] = IF i <= n THEN s[i] ELSE t[i - n]
  BY <1>1, ConcatProperties
<1>3. n + m \in 1..(n + m) /\ ~(n + m <= n) /\ (n + m) - n = m
  OBVIOUS
<1>4. (s \o t)[n + m] = t[m]
  BY <1>2, <1>3
<1> QED BY <1>1, <1>2, <1>4 DEF PhaseEnds

LEMMA GoesOnTo ==
    ASSUME NEW a, NEW b, NEW n \in Nat, NEW m \in Nat \ {0}, NEW k, k = n + m, NEW S, NEW T,
           a.more = TRUE, PhaseEnds(a.steps, n, S), PhaseEnds(b.steps, m, T)
    PROVE  Then(a, b).more = b.more /\ PhaseEnds(Then(a, b).steps, k, T)
<1>1. Then(a, b) = [steps |-> a.steps \o b.steps, more |-> b.more]
  BY DEF Then
<1>2. PhaseEnds(a.steps \o b.steps, k, T)
  BY Joined
<1> QED BY <1>1, <1>2

LEMMA Finished ==
    ASSUME NEW steps, NEW n \in Nat \ {0}, NEW o, PhaseEnds(steps, n, {"inProgress", "failed"})
    PROVE  PhaseEnds(finish(steps, o), n, {"inProgress", "failed"})
<1>1. steps \in Seq(StepState) /\ Len(steps) = n /\ steps[n] \in {"inProgress", "failed"} /\ n \in 1..Len(steps)
  BY DEF PhaseEnds
<1> DEFINE f == [steps EXCEPT ![n] = "failed"]
<1>2. f \in Seq(StepState) /\ Len(f) = n /\ f[n] = "failed"
  BY <1>1, ExceptSeq DEF StepState
<1>3. finish(steps, o) \in {steps, f}
  BY <1>1 DEF finish
<1> HIDE DEF f
<1> QED BY <1>2, <1>3 DEF PhaseEnds

(* The timeline of a pod whose runtime died. *)
LEMMA CrashShown ==
    ASSUME NEW p, Sane(p), p # NoPod, p.died \/ p.main = "dead", NEW o \in ServedState, NEW how \in Reads
    PROVE  \/ PhaseEnds(servePhase(o, p, how), 2, {"inProgress", "failed"})
           \/ p.main = "refused" /\ PhaseEnds(servePhase(o, p, how), 4, {"failed"})
           \/ p.main # "refused" /\ PhaseEnds(servePhase(o, p, how), 5, {"inProgress", "failed"})
<1> DEFINE Below == {"inProgress", "failed"}
           first == schedule(p, how)
           two == Then(first, download(p))
           three == Then(two, pullImage(p, how))
           four == Then(three, load(p))
           five == Then(four, Route(o))
<1>1. /\ p.main \in MainState \ {"none"} /\ p.place = "bound" /\ p.init \in {"absent", "done"}
      /\ crashed(p)
  BY DEF Sane, crashed, Pod
<1>2. servePhase(o, p, how) = finish(five.steps, o)
  BY DEF servePhase
<1>3. \/ first = Stops(<<"done", "inProgress">>)
      \/ first = Goes(<<"done", "done">>)
  BY <1>1 DEF schedule
<1>4. ASSUME first = Stops(<<"done", "inProgress">>) PROVE PhaseEnds(five.steps, 2, Below)
  <2>1. first.more = FALSE /\ first.steps = <<"done", "inProgress">>
    BY <1>4 DEF Stops
  <2> HIDE DEF first
  <2>2. five = first
    BY <2>1 DEF Then
  <2> HIDE DEF five
  <2> QED BY <2>1, <2>2, TwoSteps DEF PhaseEnds, StepState
<1>5. ASSUME first = Goes(<<"done", "done">>)
      PROVE  \/ p.main = "refused" /\ PhaseEnds(five.steps, 4, {"failed"})
             \/ p.main # "refused" /\ PhaseEnds(five.steps, 5, Below)
  <2>0. /\ {2, 3, 4} \subseteq Nat /\ {1, 2} \subseteq Nat \ {0}
        /\ 3 = 2 + 1 /\ 4 = 3 + 1 /\ 5 = 3 + 2 /\ 5 = 4 + 1
    OBVIOUS
  <2>1. first.more = TRUE /\ PhaseEnds(first.steps, 2, {"done"})
    BY <1>5, TwoSteps DEF Goes, StepState
  <2> HIDE DEF first
  <2>2. download(p).more = TRUE /\ PhaseEnds(download(p).steps, 1, {"done"})
    BY <1>1, OneStep DEF download, Goes, StepState
  <2>3. two.more = TRUE /\ PhaseEnds(two.steps, 3, {"done"})
    BY <2>0, <2>1, <2>2, GoesOnTo, Zenon
  <2> HIDE DEF two
  <2>4. CASE p.main \in {"pulling", "created", "backoff"}
    <3>1. PICK x \in Below : pullImage(p, how) = Stops(<<"done", x>>)
      BY <1>1, <2>4 DEF pullImage
    <3>2. pullImage(p, how).more = FALSE /\ PhaseEnds(pullImage(p, how).steps, 2, {x})
      BY <3>1, TwoSteps DEF Stops, StepState
    <3>3. three.more = pullImage(p, how).more /\ PhaseEnds(three.steps, 5, {x})
      BY <2>0, <2>3, <3>2, GoesOnTo, Zenon
    <3> HIDE DEF three
    <3>4. five = three
      BY <3>2, <3>3 DEF Then
    <3> HIDE DEF five
    <3> QED BY <2>4, <3>3, <3>4 DEF PhaseEnds
  <2>6. CASE p.main = "refused"
    <3>1. pullImage(p, how) = Stops(<<"failed">>)
      BY <2>6 DEF pullImage
    <3>2. pullImage(p, how).more = FALSE /\ PhaseEnds(pullImage(p, how).steps, 1, {"failed"})
      BY <3>1, OneStep DEF Stops, StepState
    <3>3. three.more = pullImage(p, how).more /\ PhaseEnds(three.steps, 4, {"failed"})
      BY <2>0, <2>3, <3>2, GoesOnTo, Zenon
    <3> HIDE DEF three
    <3>4. five = three
      BY <3>2, <3>3 DEF Then
    <3> HIDE DEF five
    <3> QED BY <2>6, <3>3, <3>4 DEF PhaseEnds
  <2>5. CASE p.main \in {"running", "dead"}
    <3>1. pullImage(p, how).more = TRUE /\ PhaseEnds(pullImage(p, how).steps, 1, {"done"})
      BY <1>1, <2>5, OneStep DEF pullImage, Goes, StepState
    <3>2. three.more = TRUE /\ PhaseEnds(three.steps, 4, {"done"})
      BY <2>0, <2>3, <3>1, GoesOnTo, Zenon
    <3> HIDE DEF three
    <3>3. PICK x \in Below : load(p) = Stops(<<x>>)
      BY <1>1 DEF load
    <3>4. load(p).more = FALSE /\ PhaseEnds(load(p).steps, 1, {x})
      BY <3>3, OneStep DEF Stops, StepState
    <3>5. four.more = load(p).more /\ PhaseEnds(four.steps, 5, {x})
      BY <2>0, <3>2, <3>4, GoesOnTo, Zenon
    <3> HIDE DEF four
    <3>6. five = four
      BY <3>4, <3>5 DEF Then
    <3> HIDE DEF five
    <3> QED BY <2>5, <3>5, <3>6 DEF PhaseEnds
  <2> QED BY <1>1, <2>4, <2>5, <2>6 DEF MainState
<1> HIDE DEF five, first
<1>6. \/ PhaseEnds(finish(five.steps, o), 2, Below)
      \/ p.main = "refused" /\ PhaseEnds(finish(five.steps, o), 4, {"failed"})
      \/ p.main # "refused" /\ PhaseEnds(finish(five.steps, o), 5, Below)
  <2>1. ASSUME PhaseEnds(five.steps, 4, {"failed"}) PROVE PhaseEnds(finish(five.steps, o), 4, {"failed"})
    BY <2>1 DEF PhaseEnds, finish
  <2> QED BY <1>3, <1>4, <1>5, <2>1, Finished
<1> QED BY <1>2, <1>6

LEMMA CrashesNamed ==
    PhaseInv => CrashNamed
<1> SUFFICES ASSUME PhaseInv, list.pod \notin {NotRead, NoPod}, list.pod.died \/ list.pod.main = "dead",
                    NEW how \in Reads
             PROVE  LET steps == ShownPhase(how)
                        refusedAgain == list.pod.main = "refused"
                    IN  Len(steps) > 2 =>
                          /\ Len(steps) = (IF refusedAgain THEN 4 ELSE 5)
                          /\ Latest(steps) \in (IF refusedAgain THEN {} ELSE {"inProgress"}) \cup {"failed"}
  BY DEF CrashNamed
<1>1. Sane(list.pod) /\ list.object \in ServedState
  BY DEF PhaseInv
<1> DEFINE steps == ShownPhase(how)
<1>2. \/ PhaseEnds(steps, 2, {"inProgress", "failed"})
      \/ list.pod.main = "refused" /\ PhaseEnds(steps, 4, {"failed"})
      \/ list.pod.main # "refused" /\ PhaseEnds(steps, 5, {"inProgress", "failed"})
  BY <1>1, CrashShown DEF ShownPhase
<1>3. \/ Len(steps) = 2
      \/ list.pod.main = "refused" /\ Len(steps) = 4 /\ Latest(steps) = "failed"
      \/ list.pod.main # "refused" /\ Len(steps) = 5 /\ Latest(steps) \in {"inProgress", "failed"}
  <2> HIDE DEF steps
  <2> QED BY <1>2 DEF PhaseEnds, Latest
<1>4. ASSUME NEW main, NEW n, NEW latest,
             \/ n = 2
             \/ main = "refused" /\ n = 4 /\ latest = "failed"
             \/ main # "refused" /\ n = 5 /\ latest \in {"inProgress", "failed"}
      PROVE  n > 2 => /\ n = (IF main = "refused" THEN 4 ELSE 5)
                      /\ latest \in (IF main = "refused" THEN {} ELSE {"inProgress"}) \cup {"failed"}
  BY <1>4
<1>5. /\ Len(steps) > 2 => Len(steps) = (IF list.pod.main = "refused" THEN 4 ELSE 5)
      /\ Len(steps) > 2 =>
            Latest(steps) \in (IF list.pod.main = "refused" THEN {} ELSE {"inProgress"}) \cup {"failed"}
  <2> HIDE DEF steps
  <2> QED BY <1>3, <1>4
<1> QED BY <1>5

-----------------------------------------------------------------------------
(* Phases: how far a serve has come *)

(* The steps a timeline shows, and whether it goes on. *)
Spans(x, n, more) == x.steps \in Seq(StepState) /\ Len(x.steps) = n /\ x.more = more

(* How far a serve has come, counted from what its pod tells. *)
Scheduled(p, how) == IF p.place = "bound" THEN 2 ELSE IF nodeLaunched(p, how) THEN 2 ELSE 1
Fetched(p) == p.init \in {"absent", "none", "done"}
HeldUp(p) == p.main \in {"pulling", "refused", "created", "backoff"}
ImageIn(p, how) == p.main # "refused" /\ ((how.events /\ "Pulled" \in events) \/ crashed(p))
Pulling(p, how) == p.main = "none" \/ HeldUp(p)

Coming(o, p, how) ==
    IF p = NoPod THEN IF o.ready THEN 7 ELSE 1
    ELSE IF p.place # "bound" \/ (how.nodes /\ ~gpus) THEN Scheduled(p, how)
    ELSE IF ~Fetched(p) THEN 3
    ELSE IF Pulling(p, how) THEN IF p.main # "none" /\ ImageIn(p, how) THEN 5 ELSE 4
    ELSE IF crashed(p) \/ ~p.ready THEN 5
    ELSE IF o.ready THEN 7 ELSE 6

LEMMA ShowsOne == ASSUME NEW x \in StepState PROVE Spans(Stops(<<x>>), 1, FALSE) /\ Spans(Goes(<<x>>), 1, TRUE)
  BY DEF Spans, Stops, Goes
LEMMA ShowsTwo == ASSUME NEW x \in StepState, NEW y \in StepState
             PROVE Spans(Stops(<<x, y>>), 2, FALSE) /\ Spans(Goes(<<x, y>>), 2, TRUE)
  BY DEF Spans, Stops, Goes

LEMMA ThenSpans ==
    ASSUME NEW a, NEW b, NEW n \in Nat, NEW m \in Nat, NEW k, k = n + m, NEW x, NEW y
    PROVE  /\ Spans(a, n, TRUE) /\ Spans(b, m, y) => Spans(Then(a, b), k, y)
           /\ Spans(a, n, FALSE) => Spans(Then(a, b), n, FALSE)
<1>1. ASSUME Spans(a, n, TRUE), Spans(b, m, y) PROVE Spans(Then(a, b), k, y)
  <2>1. a.steps \o b.steps \in Seq(StepState) /\ Len(a.steps \o b.steps) = n + m
    BY <1>1, ConcatProperties DEF Spans
  <2>2. Then(a, b) = [steps |-> a.steps \o b.steps, more |-> b.more]
    BY <1>1 DEF Then, Spans
  <2>3. b.more = y
    BY <1>1 DEF Spans
  <2>4. Then(a, b) = [steps |-> a.steps \o b.steps, more |-> y]
    BY <2>2, <2>3
  <2>5. \A s : Spans([steps |-> s, more |-> y], k, y) <=> s \in Seq(StepState) /\ Len(s) = k
    BY DEF Spans
  <2> QED BY <2>1, <2>4, <2>5
<1>2. ASSUME Spans(a, n, FALSE) PROVE Then(a, b) = a
  BY <1>2 DEF Then, Spans
<1> QED BY <1>1, <1>2

LEMMA FinishSpans ==
    ASSUME NEW steps \in Seq(StepState), NEW o, Len(steps) > 0
    PROVE  Len(finish(steps, o)) = Len(steps)
<1>1. Len(steps) \in 1..Len(steps)
  BY LenProperties
<1>2. Len([steps EXCEPT ![Len(steps)] = "failed"]) = Len(steps)
  BY <1>1, ExceptSeq DEF StepState
<1> QED BY <1>2 DEF finish

(* Where a timeline stops, what comes after does not show. *)
LEMMA StopsThere ==
    ASSUME NEW a, NEW b, NEW c, NEW d, NEW n \in Nat, Spans(a, n, FALSE)
    PROVE  Spans(Then(Then(Then(a, b), c), d), n, FALSE)
<1>1. Spans(Then(a, b), n, FALSE)
  BY ThenSpans
<1>2. Spans(Then(Then(a, b), c), n, FALSE)
  BY <1>1, ThenSpans
<1> QED BY <1>2, ThenSpans

(* Each part of the timeline, on a node whose accelerators are there. *)
LEMMA PartsSpan ==
    ASSUME NEW o \in ServedState, NEW p \in Pod, NEW how \in Reads
    PROVE  /\ p.place # "bound" \/ (how.nodes /\ ~gpus) => Spans(schedule(p, how), Scheduled(p, how), FALSE)
           /\ ~(p.place # "bound" \/ (how.nodes /\ ~gpus)) => Spans(schedule(p, how), 2, TRUE)
           /\ ~Fetched(p) => Spans(download(p), 1, FALSE)
           /\ Fetched(p) => Spans(download(p), 1, TRUE)
           /\ Pulling(p, how) => Spans(pullImage(p, how), IF p.main # "none" /\ ImageIn(p, how) THEN 2 ELSE 1, FALSE)
           /\ ~Pulling(p, how) => Spans(pullImage(p, how), 1, TRUE)
           /\ crashed(p) \/ ~p.ready => Spans(load(p), 1, FALSE)
           /\ ~(crashed(p) \/ ~p.ready) => Spans(load(p), 1, TRUE)
           /\ Spans(Route(o), IF o.ready THEN 2 ELSE 1, FALSE)
<1>0. {"pending", "inProgress", "done", "failed"} \subseteq StepState
  BY DEF StepState
<1>1. /\ \A x, y \in StepState : Spans(Stops(<<x, y>>), 2, FALSE) /\ Spans(Goes(<<x, y>>), 2, TRUE)
      /\ \A x \in StepState : Spans(Stops(<<x>>), 1, FALSE) /\ Spans(Goes(<<x>>), 1, TRUE)
  BY ShowsOne, ShowsTwo
<1>2. /\ p.place # "bound" \/ (how.nodes /\ ~gpus) => Spans(schedule(p, how), Scheduled(p, how), FALSE)
      /\ ~(p.place # "bound" \/ (how.nodes /\ ~gpus)) => Spans(schedule(p, how), 2, TRUE)
  BY <1>0, <1>1 DEF schedule, Scheduled
<1>3. /\ ~Fetched(p) => Spans(download(p), 1, FALSE)
      /\ Fetched(p) => Spans(download(p), 1, TRUE)
  BY <1>0, <1>1 DEF download, Fetched
<1>4. /\ Pulling(p, how) => Spans(pullImage(p, how), IF p.main # "none" /\ ImageIn(p, how) THEN 2 ELSE 1, FALSE)
      /\ ~Pulling(p, how) => Spans(pullImage(p, how), 1, TRUE)
  BY <1>0, <1>1 DEF pullImage, Pulling, ImageIn, HeldUp
<1>5. /\ crashed(p) \/ ~p.ready => Spans(load(p), 1, FALSE)
      /\ ~(crashed(p) \/ ~p.ready) => Spans(load(p), 1, TRUE)
  BY <1>0, <1>1 DEF load
<1>6. Spans(Route(o), IF o.ready THEN 2 ELSE 1, FALSE)
  BY <1>0, <1>1 DEF Route
<1> QED BY <1>2, <1>3, <1>4, <1>5, <1>6

(* The last step a serve shows, from what its object and pod tell. *)
LEMMA ReachedIs ==
    ASSUME NEW o \in ServedState, NEW p, p = NoPod \/ p \in Pod, NEW how \in Reads
    PROVE  Len(servePhase(o, p, how)) = Coming(o, p, how)
<1>1. CASE p = NoPod
  <2> DEFINE seven == [i \in 1..7 |-> "done"]
             only == <<"inProgress">>
  <2>1. seven \in Seq(StepState) /\ Len(seven) = 7 /\ Len(seven) > 0
    BY DEF StepState
  <2>2. only \in Seq(StepState) /\ Len(only) = 1 /\ Len(only) > 0
    BY DEF StepState
  <2>3. servePhase(o, p, how) = finish(IF o.ready THEN seven ELSE only, o)
    BY <1>1 DEF servePhase
  <2>4. Coming(o, p, how) = IF o.ready THEN 7 ELSE 1
    BY <1>1 DEF Coming
  <2> HIDE DEF seven, only
  <2>5. Len(finish(seven, o)) = 7 /\ Len(finish(only, o)) = 1
    BY <2>1, <2>2, FinishSpans
  <2>6. CASE o.ready
    BY <2>3, <2>4, <2>5, <2>6
  <2>7. CASE ~o.ready
    BY <2>3, <2>4, <2>5, <2>7
  <2> QED BY <2>6, <2>7
<1>2. CASE p # NoPod
  <2> DEFINE first == schedule(p, how)
             two == Then(first, download(p))
             three == Then(two, pullImage(p, how))
             four == Then(three, load(p))
             five == Then(four, Route(o))
             far == IF p.main # "none" /\ ImageIn(p, how) THEN 2 ELSE 1
             end == IF o.ready THEN 2 ELSE 1
             unbound == p.place # "bound" \/ (how.nodes /\ ~gpus)
  <2>0. p \in Pod
    BY <1>2
  <2>1. servePhase(o, p, how) = finish(five.steps, o)
    BY <1>2 DEF servePhase
  <2>2. /\ unbound => Spans(first, Scheduled(p, how), FALSE)
        /\ ~unbound => Spans(first, 2, TRUE)
        /\ ~Fetched(p) => Spans(download(p), 1, FALSE)
        /\ Fetched(p) => Spans(download(p), 1, TRUE)
        /\ Pulling(p, how) => Spans(pullImage(p, how), far, FALSE)
        /\ ~Pulling(p, how) => Spans(pullImage(p, how), 1, TRUE)
        /\ crashed(p) \/ ~p.ready => Spans(load(p), 1, FALSE)
        /\ ~(crashed(p) \/ ~p.ready) => Spans(load(p), 1, TRUE)
        /\ Spans(Route(o), end, FALSE)
    BY <2>0, PartsSpan
  <2>3. Scheduled(p, how) \in {1, 2} /\ far \in {1, 2} /\ end \in {1, 2}
    BY DEF Scheduled
  <2>a. /\ {1, 2, 3, 4, 5} \subseteq Nat /\ 3 = 2 + 1 /\ 4 = 3 + 1 /\ 5 = 4 + 1
        /\ far \in Nat /\ 3 + far \in Nat /\ end \in Nat /\ 5 + end \in Nat
    BY <2>3
  <2> HIDE DEF far, end, unbound, first
  <2>4. CASE unbound
    <3>1. Spans(two, Scheduled(p, how), FALSE)
      BY <2>2, <2>3, <2>4, ThenSpans
    <3> HIDE DEF two
    <3>2. Spans(five, Scheduled(p, how), FALSE)
      BY <2>3, <3>1, StopsThere
    <3> HIDE DEF five
    <3>3. Coming(o, p, how) = Scheduled(p, how)
      BY <1>2, <2>4 DEF Coming, unbound
    <3>4. five.steps \in Seq(StepState) /\ Len(five.steps) = Scheduled(p, how) /\ Len(five.steps) > 0
      BY <2>3, <3>2 DEF Spans
    <3> QED BY <2>1, <3>3, <3>4, FinishSpans
  <2>5. CASE ~unbound /\ ~Fetched(p)
    <3>1. Spans(two, 3, FALSE)
      BY <2>2, <2>5, <2>a, ThenSpans
    <3> HIDE DEF two
    <3>2. Spans(five, 3, FALSE)
      BY <2>a, <3>1, StopsThere
    <3> HIDE DEF five
    <3>3. Coming(o, p, how) = 3
      BY <1>2, <2>5 DEF Coming, unbound
    <3>4. five.steps \in Seq(StepState) /\ Len(five.steps) = 3 /\ Len(five.steps) > 0
      BY <3>2 DEF Spans
    <3> QED BY <2>1, <3>3, <3>4, FinishSpans
  <2>6. CASE ~unbound /\ Fetched(p)
    <3>1. Spans(two, 3, TRUE)
      BY <2>2, <2>6, <2>a, ThenSpans
    <3> HIDE DEF two
    <3>2. CASE Pulling(p, how)
      <4>1. Spans(three, 3 + far, FALSE)
        BY <2>2, <3>1, <3>2, <2>a, ThenSpans
      <4> HIDE DEF three
      <4>2. Spans(four, 3 + far, FALSE)
        BY <2>a, <4>1, ThenSpans
      <4> HIDE DEF four
      <4>3. Spans(five, 3 + far, FALSE)
        BY <2>a, <4>2, ThenSpans
      <4> HIDE DEF five
      <4>4. Coming(o, p, how) = 3 + far
        BY <1>2, <2>6, <3>2 DEF Coming, unbound, far
      <4>5. five.steps \in Seq(StepState) /\ Len(five.steps) = 3 + far /\ Len(five.steps) > 0
        BY <2>3, <4>3 DEF Spans
      <4> QED BY <2>1, <4>4, <4>5, FinishSpans
    <3>3. CASE ~Pulling(p, how)
      <4>1. Spans(three, 4, TRUE)
        BY <2>2, <3>1, <3>3, <2>a, ThenSpans
      <4> HIDE DEF three
      <4>2. CASE crashed(p) \/ ~p.ready
        <5>1. Spans(four, 5, FALSE)
          BY <2>2, <4>1, <4>2, <2>a, ThenSpans
        <5> HIDE DEF four
        <5>2. Spans(five, 5, FALSE)
          BY <2>a, <5>1, ThenSpans
        <5> HIDE DEF five
        <5>3. Coming(o, p, how) = 5
          BY <1>2, <2>6, <3>3, <4>2 DEF Coming, unbound
        <5>4. five.steps \in Seq(StepState) /\ Len(five.steps) = 5 /\ Len(five.steps) > 0
          BY <5>2 DEF Spans
        <5> QED BY <2>1, <5>3, <5>4, FinishSpans
      <4>3. CASE ~(crashed(p) \/ ~p.ready)
        <5>1. Spans(four, 5, TRUE)
          BY <2>2, <4>1, <4>3, <2>a, ThenSpans
        <5> HIDE DEF four
        <5>2. Spans(five, 5 + end, FALSE)
          BY <2>2, <2>a, <5>1, ThenSpans
        <5> HIDE DEF five
        <5>3. Coming(o, p, how) = 5 + end
          BY <1>2, <2>6, <3>3, <4>3 DEF Coming, unbound, end
        <5>4. five.steps \in Seq(StepState) /\ Len(five.steps) = 5 + end /\ Len(five.steps) > 0
          BY <2>3, <5>2 DEF Spans
        <5> QED BY <2>1, <5>3, <5>4, FinishSpans
      <4> QED BY <4>2, <4>3
    <3> QED BY <3>2, <3>3
  <2> QED BY <2>4, <2>5, <2>6
<1> QED BY <1>1, <1>2

(* What a list shows when every read of it succeeds. *)
LEMMA ReachedComes == PhaseInv => Reached = Coming(object, pod, All)
<1>1. All \in Reads
  BY DEF All, Reads
<1> QED BY <1>1, ReachedIs DEF Reached, PhaseInv, Sane

(* What a kubelet, a scheduler or KServe does next takes a serve no further back. *)
LEMMA ComesForward ==
    ASSUME PhaseInv, Progress
    PROVE  Coming(object, pod, All)' >= Coming(object, pod, All)
<1> DEFINE Now == Coming(object, pod, All)
<1>0. /\ object \in ServedState
      /\ pod # NoPod => Sane(pod)
      /\ NoPod \notin Pod
  BY PhaseNames DEF PhaseInv
<1>1. CASE Nominate \/ Launch \/ Allocatable
  BY <1>0, <1>1 DEF Nominate, Launch, Allocatable, Unbound, Coming, Scheduled, nodeLaunched, All, Fetched, Pulling, HeldUp, ImageIn,
     crashed
<1>2. CASE NominateNode \/ Bind
  <2>0. pod # NoPod /\ pod \in Pod /\ pod.place # "bound"
    BY <1>0, <1>2 DEF NominateNode, Bind, Unbound, Sane
  <2>1. CASE NominateNode
    <3>1. pod' \in Pod /\ pod'.place = "nominated" /\ events' = events /\ claim' = claim /\ object' = object
      BY <2>0, <2>1 DEF NominateNode, OnlyPod, Pod
    <3>2. Now' = 2 /\ Now \in {1, 2}
      BY <1>0, <2>0, <3>1 DEF Coming, Scheduled, nodeLaunched
    <3> HIDE DEF Now
    <3> QED BY <3>2 DEF Now
  <2>2. CASE Bind
    <3>1. pod' \in Pod /\ pod'.place = "bound"
      BY <2>0, <2>2 DEF Bind, Pod
    <3>2. Now' \in 2..7 /\ Now \in {1, 2}
      BY <1>0, <2>0, <3>1 DEF Coming, Scheduled, nodeLaunched
    <3> HIDE DEF Now
    <3> QED BY <3>2 DEF Now
  <2> QED BY <1>2, <2>1, <2>2
<1>3. CASE InitStarts \/ InitEnds \/ InitAgain
  <2>0. pod # NoPod /\ pod \in Pod /\ pod.place = "bound" /\ ~Fetched(pod)
    BY <1>0, <1>3 DEF InitStarts, InitEnds, InitAgain, Bound, Sane, Fetched
  <2>1. pod' \in Pod /\ pod'.place = "bound" /\ gpus' = gpus
    BY <2>0, <1>3 DEF InitStarts, InitEnds, InitAgain, OnlyPod, Pod, InitState
  <2>2. /\ Now = IF gpus THEN 3 ELSE 2
        /\ Now' \in IF gpus THEN 3..7 ELSE {2}
    BY <1>0, <2>0, <2>1 DEF Coming, Scheduled, All
  <2> HIDE DEF Now
  <2> QED BY <2>2 DEF Now
<1>4. CASE PullStarts \/ PullEnds
  <2>0. pod # NoPod /\ Sane(pod) /\ pod.place = "bound" /\ pod.main \in {"pulling", "refused"}
        /\ Fetched(pod)
    BY <1>0, <1>4 DEF PullStarts, PullEnds, Event, PullingImage, Bound, Sane, Fetched
  <2>1. /\ pod' \in Pod /\ pod'.place = "bound" /\ pod'.main \in {"pulling", "created"} /\ pod'.died = pod.died
        /\ pod'.init = pod.init
        /\ gpus' = gpus /\ events \subseteq events' /\ (pod'.main = "created" => "Pulled" \in events')
    BY <2>0, <1>4 DEF PullStarts, PullEnds, Event, Pod, MainState, Sane
  <2>2. /\ Now = IF ~gpus THEN 2 ELSE IF pod.main = "pulling" /\ ("Pulled" \in events \/ pod.died) THEN 5 ELSE 4
        /\ Now' = IF ~gpus THEN 2 ELSE IF "Pulled" \in events' \/ pod.died THEN 5 ELSE 4
    BY <1>0, <2>0, <2>1 DEF Coming, Scheduled, All, Fetched, Pulling, HeldUp, ImageIn, crashed
  <2> HIDE DEF Now
  <2> QED BY <2>1, <2>2 DEF Now
<1>5. CASE StartsServer \/ ProbesPass \/ BackOff
  <2>0. /\ pod # NoPod /\ Sane(pod) /\ pod.place = "bound" /\ Fetched(pod) /\ pod.main # "none"
        /\ pod.main \in {"created", "backoff", "running", "dead"}
    BY <1>0, <1>5 DEF StartsServer, ProbesPass, BackOff, Bound, Sane, Fetched
  <2>1. /\ pod' \in Pod /\ pod'.place = "bound" /\ Fetched(pod') /\ pod'.main \in {"running", "backoff"}
        /\ pod'.main = "backoff" => pod'.died
        /\ gpus' = gpus /\ events' = events /\ object' = object
    BY <2>0, <1>5 DEF StartsServer, ProbesPass, BackOff, OnlyPod, Pod, MainState, Sane, Fetched
  <2>2. CASE ~gpus
    <3>1. Now = 2 /\ Now' = 2
      BY <1>0, <2>0, <2>1, <2>2 DEF Coming, Scheduled, All
    <3> HIDE DEF Now
    <3> QED BY <3>1 DEF Now
  <2>3. CASE gpus
    <3>1. Now' \in 5..7
      BY <1>0, <2>0, <2>1, <2>3 DEF Coming, Scheduled, All, Pulling, HeldUp, ImageIn, crashed
    <3>2. Now \in 4..5
      <4>1. pod.main # "running" \/ ~pod.ready
        BY <1>5 DEF StartsServer, ProbesPass, BackOff
      <4> QED BY <1>0, <2>0, <2>3, <4>1 DEF Coming, Scheduled, All, Pulling, HeldUp, ImageIn, crashed
    <3> HIDE DEF Now
    <3> QED BY <3>1, <3>2 DEF Now
  <2> QED BY <2>2, <2>3, <1>0 DEF Now
<1>6. CASE Routes
  <2>1. /\ pod' = pod /\ events' = events /\ claim' = claim /\ gpus' = gpus /\ pod # NoPod
        /\ ~object.ready
    BY <1>6 DEF Routes, OnlyObject, Serving
  <2>2. Now' = Now \/ (Now = 6 /\ Now' \in {6, 7})
    BY <2>1 DEF Coming, Scheduled, nodeLaunched, Fetched, Pulling, ImageIn, crashed
  <2>3. Now \in 1..7
    BY <2>1 DEF Coming, Scheduled
  <2> HIDE DEF Now
  <2> QED BY <2>2, <2>3 DEF Now
<1> QED BY <1>1, <1>2, <1>3, <1>4, <1>5, <1>6 DEF Progress

-----------------------------------------------------------------------------
(* Settings: how old what a call is told may be *)

(* How long a platform is complete before no list may miss any of it. *)
Settled == ShortTTL + MaxRead

Value == {"absent", "unnamed", "named", "no", "yes", "none", "one"}
Platform == [doc: {"absent", "unnamed", "named"}, endpoint: {"one"}, api: {"no", "yes"},
             control: {"no", "yes"}, node: BOOLEAN, done: -1..Settled]
Stored == [doc: {"absent", "unnamed", "named", "error"}, endpoint: {"none", "one", "error"},
           api: {"no", "yes", "error"}, control: {"no", "yes", "error"}]
Resolve == [by: Call \cup {NoCall}, at: Source \cup {"store"}, read: Stored,
            saw: [Source -> SUBSET Value], ticks: 0..MaxRead]
Answer == {"none", "complete", "lacking", "unavailable", "judged", "retry", "refused", "composed", "unpooled"}
UseState == [pc: Users \cup {"idle"}, cred: {"good", "dead", "none"}, node: BOOLEAN, answer: Answer,
              ready: -1..Settled]

SettingsTypes ==
    /\ platform \in Platform
    /\ cached \in Stored /\ age \in 0..TTL
    /\ resolve \in Resolve
    /\ call \in [Call -> UseState]

(* What a resolve has read since the platform is complete is complete. *)
ReadLanded(r) ==
    /\ r.at # "doc" => r.read.doc = "named"
    /\ r.at \in {"control", "store"} => r.read.api = "yes"
    /\ r.at = "store" => r.read.control = "yes"

(* A resolve is of a call that waits for it, and has not failed it since the
   platform is complete unless that call has seen the failure. *)
OwnReads ==
    resolve.by # NoCall =>
        /\ call[resolve.by].pc \in Users
        /\ call[resolve.by].ready >= 0 => ReadLanded(resolve)

(* A call that has passed the recheck found the pool in the cache, and no
   resolve under way will take it out. *)
Rechecked(q) ==
    q.ready >= 0 /\ q.pc \in {"again", "pool", "compose"} =>
        /\ cached.doc = "named"
        /\ resolve.by # NoCall /\ resolve.at # "doc" => resolve.read.doc \in {"named", "error"}

ToldWell(q) ==
    /\ q.ready >= 0 => q.answer \notin {"unavailable", "refused", "retry", "unpooled"}
    /\ q.ready = Settled => q.answer # "lacking"

CallFits(q) == q.ready <= platform.done /\ Rechecked(q) /\ ToldWell(q)

(* A resolve has read that a part is missing: no fault of the read. *)
Lags(r) ==
    \/ r.at # "doc" /\ r.read.doc \notin {"named", "error"}
    \/ r.at \in {"control", "store"} /\ r.read.api = "no"
    \/ r.at = "store" /\ r.read.api = "yes" /\ r.read.control = "no"

(* What the cache, or a resolve under way, lacks of a complete platform is
   younger than that platform. *)
LagsShortly ==
    platform.done >= 0 =>
        /\ cached # Blank /\ ~Landed(cached) => platform.done <= age + MaxRead \/ age = TTL
        /\ resolve.by # NoCall /\ Lags(resolve) => platform.done <= resolve.ticks

SettingsInv ==
    /\ SettingsTypes
    /\ platform.done >= 0 <=> Landed(platform)
    /\ cached # Blank => ~Errs(cached)
    /\ OwnReads /\ LagsShortly
    /\ \A c \in Call : CallFits(call[c])

LEMMA SettingsStart == SettingsInit => SettingsInv
<1> SUFFICES ASSUME SettingsInit PROVE SettingsInv
  OBVIOUS
<1>1. PICK doc \in {"absent", "unnamed", "named"}, api \in {"no", "yes"}, control \in {"no", "yes"} :
          /\ control = "yes" => api = "yes"
          /\ platform = [doc |-> doc, endpoint |-> "one", api |-> api, control |-> control, node |-> FALSE,
                         done |-> IF doc = "named" /\ control = "yes" THEN 0 ELSE -1]
  BY DEF SettingsInit
<1>2. platform \in Platform /\ (platform.done >= 0 <=> Landed(platform)) /\ platform.done \in {-1, 0}
  BY <1>1, SettingsBounds DEF Platform, Landed, Settled
<1>3. cached = Blank /\ age = 0 /\ resolve = NoResolve
      /\ call = [c \in Call |-> [pc |-> "idle", cred |-> "none", node |-> FALSE, answer |-> "none", ready |-> -1]]
  BY DEF SettingsInit
<1>4. NoResolve \in Resolve /\ NoResolve.by = NoCall /\ Blank \in Stored /\ age \in 0..TTL
  BY <1>3, SettingsBounds DEF NoResolve, Resolve, Blank, Stored, Source
<1>5. call \in [Call -> UseState] /\ \A c \in Call : call[c].ready = -1 /\ call[c].pc = "idle"
  BY <1>3, SettingsBounds DEF UseState, Answer, Settled
<1>6. \A c \in Call : CallFits(call[c])
  BY <1>2, <1>5, SettingsBounds DEF CallFits, Rechecked, ToldWell, Settled
<1> QED BY <1>2, <1>3, <1>4, <1>5, <1>6 DEF SettingsInv, SettingsTypes, OwnReads, LagsShortly

-----------------------------------------------------------------------------
(* What a call makes of the settings it is given *)

LEMMA GivenEffect ==
    ASSUME SettingsTypes, NEW c \in Call, NEW s \in Stored, call[c].pc \in Users \ {"recheck"}
    PROVE  \E q \in UseState :
             /\ Given(c, s) = [call EXCEPT ![c] = q]
             /\ q.ready = call[c].ready
             /\ q.pc \in {"again", "pool", "compose"} =>
                  s.doc = "named" \/ call[c].pc = "again"
             /\ \/ q.answer \in {call[c].answer, "complete", "judged", "composed"}
                \/ q.answer = "unavailable" /\ Unavailable(s) /\ call[c].pc = "first"
                \/ q.answer = "lacking" /\ ~Landed(s) /\ call[c].pc = "list"
                \/ q.answer \in {"retry", "refused"} /\ call[c].pc = "pool" /\ (Shapes => s.doc # "named")
                \/ q.answer = "unpooled" /\ call[c].pc = "compose" /\ s.doc # "named"
<1> DEFINE q == call[c]
           to(pc, what) == [pc |-> pc, answer |-> what, node |-> FALSE, ready |-> q.ready,
                            cred |-> IF pc = "idle" THEN "none" ELSE q.cred]
<1>1. q \in UseState /\ call \in [Call -> UseState] /\ q.pc \in Users \ {"recheck"}
      /\ platform.node \in BOOLEAN
  BY DEF SettingsTypes, Platform
<1>2. ASSUME NEW pc \in {"idle", "compose"}, NEW what \in Answer
      PROVE  /\ Told(c, pc, what) = [call EXCEPT ![c] = to(pc, what)] /\ to(pc, what) \in UseState
             /\ to(pc, what).ready = q.ready /\ to(pc, what).pc = pc /\ to(pc, what).answer = what
  <2>1. Told(c, pc, what) = [call EXCEPT ![c] = to(pc, what)]
    BY DEF Told
  <2>2. to(pc, what) \in UseState
    BY <1>1 DEF UseState, Users
  <2> QED BY <2>1, <2>2
<1> HIDE DEF to
<1>3. CASE q.pc = "list"
  <2>1. PICK what \in {"complete", "lacking"} : /\ Given(c, s) = Told(c, "idle", what)
                                                /\ what = "lacking" => ~Landed(s)
    BY <1>3 DEF Given
  <2>2. what \in Answer
    BY DEF Answer
  <2>3. Told(c, "idle", what) = [call EXCEPT ![c] = to("idle", what)]
    BY <1>2, <2>2
  <2>4. to("idle", what) \in UseState
    BY <1>2, <2>2
  <2>5. to("idle", what).ready = q.ready /\ to("idle", what).pc = "idle" /\ to("idle", what).answer = what
    BY <1>2, <2>2
  <2>6. /\ what = "complete" \/ (what = "lacking" /\ ~Landed(s) /\ call[c].pc = "list")
        /\ "idle" \notin {"again", "pool", "compose"}
    BY <1>3, <2>1
  <2> QED BY <2>1, <2>3, <2>4, <2>5, <2>6, Zenon
<1>4. CASE q.pc = "first" /\ Unavailable(s)
  <2>1. Given(c, s) = Told(c, "idle", "unavailable")
    BY <1>4 DEF Given
  <2> QED BY <1>2, <1>4, <2>1 DEF Answer
<1>5. CASE q.pc = "first" /\ ~Unavailable(s)
  <2> DEFINE n == [q EXCEPT !.pc = "nodes"]
  <2>1. Given(c, s) = [call EXCEPT ![c] = n]
    BY <1>1, <1>5 DEF Given, GoesOn
  <2>2. n \in UseState /\ n.ready = q.ready /\ n.pc = "nodes" /\ n.answer = q.answer
    BY <1>1 DEF UseState, Users
  <2> HIDE DEF n
  <2> QED BY <2>1, <2>2
<1>6. CASE q.pc \in {"nodes", "again"} /\ platform.node /\ s.doc = "named"
  <2>1. Given(c, s) = Told(c, "compose", "judged")
    BY <1>6 DEF Given
  <2> QED BY <1>2, <1>6, <2>1 DEF Answer
<1>7. CASE q.pc \in {"nodes", "again"} /\ ~(platform.node /\ s.doc = "named")
  <2> DEFINE n == [q EXCEPT !.pc = IF q.pc = "nodes" THEN "recheck" ELSE "pool", !.node = platform.node]
  <2>1. Given(c, s) = [call EXCEPT ![c] = n]
    <3>1. Given(c, s) = [call EXCEPT ![c].pc = IF q.pc = "nodes" THEN "recheck" ELSE "pool",
                                     ![c].node = platform.node]
      BY <1>7 DEF Given
    <3> QED BY <1>1, <3>1
  <2>2. n \in UseState /\ n.ready = q.ready /\ n.answer = q.answer
        /\ n.pc = IF q.pc = "nodes" THEN "recheck" ELSE "pool"
    BY <1>1 DEF UseState, Users
  <2> HIDE DEF n
  <2> QED BY <1>7, <2>1, <2>2
<1>8. CASE q.pc = "pool"
  <2>1. CASE s.doc = "named" /\ (Shapes \/ ~q.node)
    <3>1. Given(c, s) = Told(c, "compose", "judged")
      BY <1>8, <2>1 DEF Given
    <3> QED BY <1>2, <2>1, <3>1 DEF Answer
  <2>2. CASE ~(s.doc = "named" /\ (Shapes \/ ~q.node))
    <3>1. PICK what \in {"retry", "refused"} : Given(c, s) = Told(c, "idle", what)
      BY <1>8, <2>2 DEF Given
    <3> QED BY <1>2, <1>8, <2>2, <3>1 DEF Answer
  <2> QED BY <2>1, <2>2
<1>9. CASE q.pc = "compose"
  <2>1. PICK what \in {"composed", "unpooled"} : /\ Given(c, s) = Told(c, "idle", what)
                                                 /\ what = "unpooled" => s.doc # "named"
    BY <1>9 DEF Given
  <2>2. what \in Answer
    BY DEF Answer
  <2>3. Told(c, "idle", what) = [call EXCEPT ![c] = to("idle", what)]
    BY <1>2, <2>2
  <2>4. to("idle", what) \in UseState
    BY <1>2, <2>2
  <2>5. to("idle", what).ready = q.ready /\ to("idle", what).pc = "idle" /\ to("idle", what).answer = what
    BY <1>2, <2>2
  <2>6. /\ what = "composed" \/ (what = "unpooled" /\ s.doc # "named" /\ call[c].pc = "compose")
        /\ "idle" \notin {"again", "pool", "compose"}
    BY <1>9, <2>1
  <2> QED BY <2>1, <2>3, <2>4, <2>5, <2>6, Zenon
<1> QED BY <1>1, <1>3, <1>4, <1>5, <1>6, <1>7, <1>8, <1>9 DEF Users

(* One call moves on, and nothing else. *)
LEMMA CallGoes ==
    ASSUME SettingsInv, NEW c \in Call, NEW q \in UseState, call' = [call EXCEPT ![c] = q],
           UNCHANGED <<platform, cached, age, resolve>>, resolve.by # c, CallFits(q)
    PROVE  SettingsInv'
<1>1. call' \in [Call -> UseState] /\ call'[c] = q /\ \A d \in Call \ {c} : call'[d] = call[d]
  BY DEF SettingsInv, SettingsTypes
<1>2. ASSUME NEW d \in Call PROVE CallFits(call[d])'
  <2>1. CallFits(call'[d])
    BY <1>1 DEF SettingsInv
  <2> QED BY <2>1 DEF CallFits, Rechecked, ToldWell
<1>3. OwnReads'
  <2>1. resolve.by \in Call \cup {NoCall}
    BY DEF SettingsInv, SettingsTypes, Resolve
  <2>2. resolve.by # NoCall => call'[resolve.by] = call[resolve.by]
    BY <1>1, <2>1
  <2> QED BY <2>2 DEF SettingsInv, OwnReads, ReadLanded
<1> QED BY <1>1, <1>2, <1>3 DEF SettingsInv, SettingsTypes, LagsShortly, Landed

LEMMA Begins ==
    ASSUME SettingsInv, NEW c \in Call, Begin(c)
    PROVE  SettingsInv'
<1>1. platform.done \in -1..Settled
  BY DEF SettingsInv, SettingsTypes, Platform
<1>2. PICK kind \in {"list", "first"}, cred \in {"good", "dead", "none"} :
         call' = [call EXCEPT ![c] = [pc |-> kind, cred |-> cred, node |-> FALSE, answer |-> "none",
                                      ready |-> platform.done]]
  BY DEF Begin
<1> DEFINE q == [pc |-> kind, cred |-> cred, node |-> FALSE, answer |-> "none", ready |-> platform.done]
<1>3. q \in UseState /\ q.ready = platform.done /\ q.pc = kind /\ q.answer = "none"
  BY <1>1 DEF UseState, Users, Answer
<1>4. call' = [call EXCEPT ![c] = q]
  BY <1>2
<1> HIDE DEF q
<1>5. CallFits(q)
  BY <1>1, <1>3, SettingsBounds DEF CallFits, Rechecked, ToldWell, Settled
<1>6. resolve.by # c
  BY SettingsBounds DEF Begin, SettingsInv, OwnReads, Users
<1> QED BY <1>3, <1>4, <1>5, <1>6, CallGoes DEF Begin

(* A use answered from the cache: what that may lack is old enough to be
   looked at again, or no older than a resolve and the short time it stands. *)
LEMMA UsesCached ==
    ASSUME SettingsInv, Shapes, NEW c \in Call, UseCached(c)
    PROVE  SettingsInv'
<1> DEFINE p == call[c]
<1>1. /\ p \in UseState /\ p.pc \in Users /\ cached \in Stored /\ CallFits(p) /\ p.ready \in -1..Settled
      /\ resolve.by = NoCall /\ Stands(p.pc) /\ age \in 0..TTL /\ platform.done \in -1..Settled
      /\ UNCHANGED <<platform, cached, age, resolve>> /\ resolve.by # c
  BY SettingsBounds DEF UseCached, SettingsInv, SettingsTypes, UseState, Platform
<1>2. cached # Blank /\ ~Errs(cached)
  BY <1>1 DEF Stands, Fresh, SettingsInv
<1>3. CASE p.pc = "recheck"
  <2> DEFINE q == [p EXCEPT !.pc = "pool"]
  <2>1. call' = [call EXCEPT ![c] = q]
    BY <1>3 DEF UseCached, GoesOn
  <2>2. q \in UseState /\ q.pc = "pool" /\ q.ready = p.ready /\ q.answer = p.answer
    BY <1>1 DEF UseState, Users
  <2>3. cached.doc = "named"
    BY <1>1, <1>2, <1>3 DEF Stands, Pending, Unnamed, Errs, Stored
  <2> HIDE DEF q
  <2>4. CallFits(q)
    BY <1>1, <2>2, <2>3 DEF CallFits, Rechecked, ToldWell
  <2> QED BY <1>1, <2>1, <2>2, <2>4, CallGoes
<1>4. CASE p.pc # "recheck"
  <2>1. call' = Given(c, cached)
    BY <1>4 DEF UseCached
  <2>2. p.ready >= 0 /\ p.pc \in {"again", "pool", "compose"} => cached.doc = "named"
    BY <1>1 DEF CallFits, Rechecked
  <2>3. p.pc = "first" => ~Unavailable(cached)
    BY <1>1, <1>2 DEF Stands, Absent, Unavailable, Errs, Stored
  <2>4. p.pc = "list" /\ p.ready = Settled => Landed(cached)
    <3> SUFFICES ASSUME p.pc = "list", p.ready = Settled, ~Landed(cached) PROVE FALSE
      OBVIOUS
    <3>1. age < ShortTTL
      <4>1. Pending(cached) \/ Absent(cached)
        BY <1>1, <1>2 DEF Landed, Pending, Unnamed, Absent, Errs, Stored
      <4> QED BY <1>1, <4>1 DEF Stands, Fresh
    <3>2. platform.done = Settled
      BY <1>1, SettingsBounds DEF CallFits, Settled
    <3>3. platform.done <= age + MaxRead \/ age = TTL
      BY <1>2, <3>2, SettingsBounds DEF SettingsInv, LagsShortly, Settled
    <3> QED BY <1>1, <3>1, <3>2, <3>3, SettingsBounds DEF Settled
  <2>5. PICK q \in UseState :
             /\ Given(c, cached) = [call EXCEPT ![c] = q]
             /\ q.ready = p.ready
             /\ q.pc \in {"again", "pool", "compose"} => cached.doc = "named" \/ p.pc = "again"
             /\ \/ q.answer \in {p.answer, "complete", "judged", "composed"}
                \/ q.answer = "unavailable" /\ Unavailable(cached) /\ p.pc = "first"
                \/ q.answer = "lacking" /\ ~Landed(cached) /\ p.pc = "list"
                \/ q.answer \in {"retry", "refused"} /\ p.pc = "pool" /\ (Shapes => cached.doc # "named")
                \/ q.answer = "unpooled" /\ p.pc = "compose" /\ cached.doc # "named"
    <3>1. p.pc \in Users \ {"recheck"} /\ SettingsTypes
      BY <1>1, <1>4 DEF SettingsInv
    <3> HIDE DEF p
    <3> QED BY <1>1, <3>1, GivenEffect DEF p
  <2> HIDE DEF p
  <2>6. ToldWell(q)
    BY <1>1, <2>2, <2>3, <2>4, <2>5, SettingsBounds DEF CallFits, ToldWell, Settled
  <2>7. Rechecked(q) /\ q.ready <= platform.done
    BY <1>1, <2>2, <2>5 DEF CallFits, Rechecked
  <2> QED BY <1>1, <2>1, <2>5, <2>6, <2>7, CallGoes DEF CallFits
<1> QED BY <1>3, <1>4

-----------------------------------------------------------------------------
(* A resolve *)

LEMMA ResolveStarts ==
    ASSUME SettingsInv, NEW c \in Call, StartResolve(c)
    PROVE  SettingsInv'
<1>1. /\ UNCHANGED <<platform, cached, age, call>> /\ call[c].pc \in Users
      /\ resolve' = [NoResolve EXCEPT !.by = c, !.saw = [f \in Source |-> {platform[f]}]]
  BY DEF StartResolve
<1>2. \A f \in Source : platform[f] \in Value
  <2>1. platform \in Platform
    BY DEF SettingsInv, SettingsTypes
  <2> QED BY <2>1 DEF Source, Platform, Value
<1>3. resolve' \in Resolve /\ resolve'.by = c /\ resolve'.at = "doc"
  <2> DEFINE saw == [f \in Source |-> {platform[f]}]
  <2>1. resolve' = [by |-> c, at |-> "doc", read |-> Blank, saw |-> saw, ticks |-> 0]
    BY <1>1 DEF NoResolve
  <2>2. saw \in [Source -> SUBSET Value] /\ Blank \in Stored /\ 0 \in 0..MaxRead
    BY <1>2, SettingsBounds DEF Blank, Stored
  <2> HIDE DEF saw
  <2> QED BY <2>1, <2>2 DEF Resolve, Source
<1>4. \A d \in Call : CallFits(call[d])'
  BY <1>1, <1>3 DEF SettingsInv, CallFits, Rechecked, ToldWell
<1>5. OwnReads' /\ LagsShortly'
  BY <1>1, <1>3 DEF SettingsInv, OwnReads, ReadLanded, LagsShortly, Lags, Landed
<1> QED BY <1>1, <1>3, <1>4, <1>5 DEF SettingsInv, SettingsTypes, Landed

(* One read of it. *)
LEMMA ReadGoes ==
    ASSUME SettingsInv, NEW c \in Call, resolve.by = c, UNCHANGED <<platform, cached, age>>,
           resolve' \in Resolve, resolve'.by = c, resolve'.ticks = resolve.ticks,
           resolve'.read.doc \in IF resolve.at = "doc" THEN {platform.doc, "error"} ELSE {resolve.read.doc},
           Landed(platform) /\ Lags(resolve') => Lags(resolve),
           \/ UNCHANGED call /\ (call[c].ready >= 0 => ReadLanded(resolve'))
           \/ Fails(c)
    PROVE  SettingsInv'
<1>1. call \in [Call -> UseState] /\ call[c].pc \in Users /\ c # NoCall
  BY SettingsBounds DEF SettingsInv, SettingsTypes, OwnReads
<1>2. /\ call' \in [Call -> UseState] /\ call'[c].pc = call[c].pc
      /\ \A d \in Call : /\ call'[d].ready \in {call[d].ready, -1}
                         /\ call'[d].pc = call[d].pc /\ call'[d].answer = call[d].answer
  <2>1. CASE UNCHANGED call
    BY <1>1, <2>1
  <2>2. CASE Fails(c)
    <3> DEFINE q == [call[c] EXCEPT !.ready = -1]
    <3>1. q \in UseState /\ q.ready = -1 /\ q.pc = call[c].pc /\ q.answer = call[c].answer
      BY <1>1, SettingsBounds DEF UseState, Settled
    <3>2. call' = [call EXCEPT ![c] = q]
      BY <2>2 DEF Fails
    <3> HIDE DEF q
    <3> QED BY <1>1, <3>1, <3>2
  <2> QED BY <2>1, <2>2
<1>3. call'[c].ready >= 0 => ReadLanded(resolve')
  <2>1. Fails(c) => call'[c].ready = -1
    BY <1>1 DEF Fails, UseState
  <2> QED BY <2>1
<1>4. OwnReads'
  BY <1>1, <1>2, <1>3 DEF OwnReads, ReadLanded
<1>5. platform.done >= 0 => platform.doc = "named"
  BY DEF SettingsInv, Landed
<1>6. LagsShortly'
  BY <1>1 DEF SettingsInv, LagsShortly
<1>7. ASSUME NEW d \in Call PROVE CallFits(call[d])'
  <2>1. CallFits(call[d]) /\ call[d].ready \in -1..Settled /\ platform.done \in -1..Settled
    BY <1>1 DEF SettingsInv, SettingsTypes, UseState, Platform
  <2>2. call'[d].ready <= platform.done
    BY <1>2, <2>1, SettingsBounds DEF CallFits, Settled
  <2>3. ToldWell(call'[d])
    BY <1>2, <2>1, SettingsBounds DEF CallFits, ToldWell, Settled
  <2>4. call'[d].ready >= 0 /\ call'[d].pc \in {"again", "pool", "compose"} =>
          cached.doc = "named" /\ resolve'.read.doc \in {"named", "error"}
    <3> SUFFICES ASSUME call'[d].ready >= 0, call'[d].pc \in {"again", "pool", "compose"}
                 PROVE  cached.doc = "named" /\ resolve'.read.doc \in {"named", "error"}
      OBVIOUS
    <3>1. call[d].ready >= 0 /\ call[d].pc \in {"again", "pool", "compose"}
      BY <1>2
    <3>2. platform.done >= 0
      BY <2>1, <3>1, SettingsBounds DEF CallFits, Settled
    <3> QED BY <1>1, <1>5, <2>1, <3>1, <3>2 DEF CallFits, Rechecked
  <2> QED BY <2>2, <2>3, <2>4 DEF CallFits, Rechecked, ToldWell
<1> QED BY <1>2, <1>4, <1>6, <1>7 DEF SettingsInv, SettingsTypes, Landed

LEMMA ReadsGo ==
    ASSUME SettingsInv, NEW c \in Call, ReadDoc(c) \/ ReadEndpoint(c) \/ ReadApi(c) \/ ReadControl(c)
    PROVE  SettingsInv'
<1>1. /\ resolve \in Resolve /\ platform \in Platform /\ c # NoCall
      /\ call[c].ready >= 0 => platform.doc = "named" /\ platform.api = "yes" /\ platform.control = "yes"
      /\ call[c].ready >= 0 /\ resolve.by = c => ReadLanded(resolve)
  <2>1. call[c].ready <= platform.done /\ call[c].ready \in -1..Settled /\ platform.done \in -1..Settled
    BY DEF SettingsInv, SettingsTypes, CallFits, UseState, Platform
  <2>2. call[c].ready >= 0 => platform.done >= 0
    BY <2>1, SettingsBounds DEF Settled
  <2> QED BY <2>2, SettingsBounds DEF SettingsInv, SettingsTypes, OwnReads, Landed
<1>2. ASSUME NEW v \in {"absent", "unnamed", "named", "error"}, Got(c, "doc", v)
      PROVE  /\ resolve.by = c /\ resolve.at = "doc" /\ UNCHANGED <<platform, cached, age>>
             /\ resolve' \in Resolve /\ resolve'.by = c /\ resolve'.ticks = resolve.ticks
             /\ resolve'.read.doc = v /\ resolve'.at = "endpoint"
  <2> DEFINE d == [resolve.read EXCEPT !.doc = v]
             at == "endpoint"
  <2>1. resolve' = [resolve EXCEPT !.read = d, !.at = at]
    BY <1>2 DEF Got
  <2>2. /\ d \in Stored /\ d.doc = v /\ at \in Source \cup {"store"}
        /\ d.api = resolve.read.api
    BY <1>1, <1>2 DEF Resolve, Stored, Source
  <2> HIDE DEF d, at
  <2>3. /\ resolve' \in Resolve /\ resolve'.by = resolve.by /\ resolve'.ticks = resolve.ticks
        /\ resolve'.read = d /\ resolve'.at = at
    BY <1>1, <2>1, <2>2 DEF Resolve
  <2> QED BY <1>2, <2>2, <2>3 DEF Got, at
<1>3. ASSUME NEW v \in {"none", "one"}, Got(c, "endpoint", v)
      PROVE  /\ resolve.by = c /\ resolve.at = "endpoint" /\ UNCHANGED <<platform, cached, age>>
             /\ resolve' \in Resolve /\ resolve'.by = c /\ resolve'.ticks = resolve.ticks
             /\ resolve'.read.doc = resolve.read.doc /\ resolve'.at = "api"
  <2> DEFINE d == [resolve.read EXCEPT !.endpoint = v]
             at == "api"
  <2>1. resolve' = [resolve EXCEPT !.read = d, !.at = at]
    BY <1>3 DEF Got
  <2>2. /\ d \in Stored /\ d.endpoint = v /\ at \in Source \cup {"store"}
        /\ d.doc = resolve.read.doc /\ d.api = resolve.read.api
    BY <1>1, <1>3 DEF Resolve, Stored, Source
  <2> HIDE DEF d, at
  <2>3. /\ resolve' \in Resolve /\ resolve'.by = resolve.by /\ resolve'.ticks = resolve.ticks
        /\ resolve'.read = d /\ resolve'.at = at
    BY <1>1, <2>1, <2>2 DEF Resolve
  <2> QED BY <1>3, <2>2, <2>3 DEF Got, at
<1>4. ASSUME NEW v \in {"no", "yes", "error"}, Got(c, "api", v)
      PROVE  /\ resolve.by = c /\ resolve.at = "api" /\ UNCHANGED <<platform, cached, age>>
             /\ resolve' \in Resolve /\ resolve'.by = c /\ resolve'.ticks = resolve.ticks
             /\ resolve'.read.doc = resolve.read.doc /\ resolve'.read.api = v
             /\ resolve'.at = IF v = "yes" THEN "control" ELSE "store"
  <2> DEFINE d == [resolve.read EXCEPT !.api = v]
             at == IF v = "yes" THEN "control" ELSE "store"
  <2>1. resolve' = [resolve EXCEPT !.read = d, !.at = at]
    BY <1>4 DEF Got
  <2>2. /\ d \in Stored /\ d.api = v /\ at \in Source \cup {"store"}
        /\ d.doc = resolve.read.doc
    BY <1>1, <1>4 DEF Resolve, Stored, Source
  <2> HIDE DEF d, at
  <2>3. /\ resolve' \in Resolve /\ resolve'.by = resolve.by /\ resolve'.ticks = resolve.ticks
        /\ resolve'.read = d /\ resolve'.at = at
    BY <1>1, <2>1, <2>2 DEF Resolve
  <2> QED BY <1>4, <2>2, <2>3 DEF Got, at
<1>5. ASSUME NEW v \in {"no", "yes", "error"}, Got(c, "control", v)
      PROVE  /\ resolve.by = c /\ resolve.at = "control" /\ UNCHANGED <<platform, cached, age>>
             /\ resolve' \in Resolve /\ resolve'.by = c /\ resolve'.ticks = resolve.ticks
             /\ resolve'.read.doc = resolve.read.doc /\ resolve'.read.api = resolve.read.api
             /\ resolve'.read.control = v /\ resolve'.at = "store"
  <2> DEFINE d == [resolve.read EXCEPT !.control = v]
             at == "store"
  <2>1. resolve' = [resolve EXCEPT !.read = d, !.at = at]
    BY <1>5 DEF Got
  <2>2. /\ d \in Stored /\ d.control = v /\ at \in Source \cup {"store"}
        /\ d.doc = resolve.read.doc /\ d.api = resolve.read.api
    BY <1>1, <1>5 DEF Resolve, Stored, Source
  <2> HIDE DEF d, at
  <2>3. /\ resolve' \in Resolve /\ resolve'.by = resolve.by /\ resolve'.ticks = resolve.ticks
        /\ resolve'.read = d /\ resolve'.at = at
    BY <1>1, <2>1, <2>2 DEF Resolve
  <2> QED BY <1>5, <2>2, <2>3 DEF Got, at
<1>6. CASE ReadDoc(c)
  <2>1. PICK v \in {platform.doc, "error"} :
           Got(c, "doc", v) /\ ((v = platform.doc /\ UNCHANGED call) \/ Fails(c))
    BY <1>6 DEF ReadDoc, Read
  <2>2. v \in {"absent", "unnamed", "named", "error"}
    BY <1>1 DEF Platform
  <2>3. v = platform.doc /\ call[c].ready >= 0 => ReadLanded(resolve')
    BY <1>1, <1>2, <2>1, <2>2 DEF ReadLanded
  <2>4. Landed(platform) /\ Lags(resolve') => Lags(resolve)
    BY <1>2, <2>1, <2>2 DEF Landed, Lags
  <2> QED BY <1>2, <2>1, <2>2, <2>3, <2>4, ReadGoes
<1>7. CASE ReadEndpoint(c)
  <2>1. PICK v \in {"none", "one"} : Got(c, "endpoint", v) /\ UNCHANGED call
    BY <1>1, <1>7 DEF ReadEndpoint, Platform
  <2>2. call[c].ready >= 0 => ReadLanded(resolve')
    BY <1>1, <1>3, <2>1 DEF ReadLanded
  <2>3. Landed(platform) /\ Lags(resolve') => Lags(resolve)
    BY <1>3, <2>1 DEF Lags
  <2> QED BY <1>3, <2>1, <2>2, <2>3, ReadGoes
<1>8. CASE ReadApi(c)
  <2>1. PICK v \in {platform.api, "error"} :
           Got(c, "api", v) /\ ((v = platform.api /\ UNCHANGED call) \/ Fails(c))
    BY <1>8 DEF ReadApi, Read
  <2>2. v \in {"no", "yes", "error"}
    BY <1>1 DEF Platform
  <2>3. v = platform.api /\ call[c].ready >= 0 => ReadLanded(resolve')
    BY <1>1, <1>4, <2>1, <2>2 DEF ReadLanded
  <2>4. Landed(platform) /\ Lags(resolve') => Lags(resolve)
    BY <1>4, <2>1, <2>2 DEF Landed, Lags
  <2> QED BY <1>4, <2>1, <2>2, <2>3, <2>4, ReadGoes
<1>9. CASE ReadControl(c)
  <2>1. PICK v \in {platform.control, "error"} :
           Got(c, "control", v) /\ ((v = platform.control /\ UNCHANGED call) \/ Fails(c))
    BY <1>9 DEF ReadControl, Read
  <2>2. v \in {"no", "yes", "error"}
    BY <1>1 DEF Platform
  <2>3. v = platform.control /\ call[c].ready >= 0 => ReadLanded(resolve')
    BY <1>1, <1>5, <2>1, <2>2 DEF ReadLanded
  <2>4. Landed(platform) /\ Lags(resolve') => Lags(resolve)
    BY <1>5, <2>1, <2>2 DEF Landed, Lags
  <2> QED BY <1>5, <2>1, <2>2, <2>3, <2>4, ReadGoes
<1> QED BY <1>6, <1>7, <1>8, <1>9

(* The end of a resolve: its own call is told of a complete platform, and the
   others that have passed their recheck keep the pool in the cache. *)
LEMMA Stores ==
    ASSUME SettingsInv, Shapes, NEW c \in Call, Store(c)
    PROVE  SettingsInv'
<1> DEFINE p == call[c]  r == resolve.read
<1>1. /\ p \in UseState /\ p.pc \in Users /\ CallFits(p) /\ p.ready \in -1..Settled
      /\ r \in Stored /\ resolve.by = c /\ resolve.at = "store" /\ c # NoCall /\ resolve.ticks \in 0..MaxRead
      /\ p.ready >= 0 => Landed(r)
      /\ cached \in Stored /\ age \in 0..TTL /\ platform.done \in -1..Settled
      /\ call \in [Call -> UseState] /\ UNCHANGED platform /\ resolve' = NoResolve
  BY SettingsBounds DEF Store, Done, SettingsInv, SettingsTypes, OwnReads, ReadLanded, Landed, UseState,
     Platform, Resolve
<1>2. /\ Errs(r) => UNCHANGED <<cached, age>>
      /\ ~Errs(r) => cached' = r /\ age' = 0
      /\ call' = Answered(c, r)
  BY DEF Store
<1>3. cached' \in Stored /\ age' \in 0..TTL /\ (cached' # Blank => ~Errs(cached'))
  BY <1>1, <1>2, SettingsBounds DEF SettingsInv
<1>4. NoResolve \in Resolve /\ resolve'.by = NoCall
  BY <1>1, SettingsBounds DEF NoResolve, Resolve, Blank, Stored, Source
<1>5. Landed(r) => ~Errs(r) /\ cached' = r /\ cached'.doc = "named" /\ Learnt(r)
  BY <1>2 DEF Landed, Errs, Learnt, Unnamed
<1>6. LagsShortly'
  <2> SUFFICES ASSUME platform.done >= 0, cached' # Blank, ~Landed(cached')
               PROVE  platform.done <= age' + MaxRead \/ age' = TTL
    BY <1>1, <1>4 DEF LagsShortly
  <2>1. CASE Errs(r)
    BY <1>2, <2>1 DEF SettingsInv, LagsShortly
  <2>2. CASE ~Errs(r)
    <3>1. cached' = r /\ age' = 0
      BY <1>2, <2>2
    <3>2. Lags(resolve)
      BY <1>1, <2>2, <3>1 DEF Landed, Lags, Errs, Stored
    <3>3. platform.done <= resolve.ticks
      BY <1>1, <3>2 DEF SettingsInv, LagsShortly
    <3> QED BY <1>1, <3>1, <3>3, SettingsBounds DEF Settled
  <2> QED BY <2>1, <2>2
<1>7. PICK q \in UseState :
         /\ call' = [call EXCEPT ![c] = q] /\ q.ready = p.ready
         /\ p.ready >= 0 => /\ ToldWell(q)
                            /\ q.pc \in {"again", "pool", "compose"} => cached'.doc = "named"
  <2>1. CASE p.pc = "recheck"
    <3> DEFINE q == [p EXCEPT !.pc = IF Learnt(r) THEN "again" ELSE "pool"]
    <3>1. call' = [call EXCEPT ![c] = q]
      BY <1>2, <2>1 DEF Answered, GoesOn
    <3>2. q \in UseState /\ q.ready = p.ready /\ q.answer = p.answer
      BY <1>1 DEF UseState, Users
    <3> HIDE DEF q
    <3>3. ToldWell(q)
      BY <1>1, <3>2 DEF CallFits, ToldWell
    <3> QED BY <1>1, <1>5, <3>1, <3>2, <3>3
  <2>2. CASE p.pc # "recheck"
    <3> DEFINE s == IF Errs(r) /\ cached # Blank THEN cached ELSE r
    <3>1. call' = Given(c, s) /\ s \in Stored
      BY <1>1, <1>2, <2>2 DEF Answered
    <3>2. p.ready >= 0 => s = r /\ Landed(s) /\ s.doc = "named" /\ ~Unavailable(s)
      BY <1>1, <1>5 DEF Landed, Unavailable
    <3> HIDE DEF s
    <3>3. PICK q \in UseState :
             /\ Given(c, s) = [call EXCEPT ![c] = q]
             /\ q.ready = p.ready
             /\ \/ q.answer \in {p.answer, "complete", "judged", "composed"}
                \/ q.answer = "unavailable" /\ Unavailable(s)
                \/ q.answer = "lacking" /\ ~Landed(s)
                \/ q.answer \in {"retry", "refused"} /\ (Shapes => s.doc # "named")
                \/ q.answer = "unpooled" /\ s.doc # "named"
      <4>1. p.pc \in Users \ {"recheck"} /\ SettingsTypes
        BY <1>1, <2>2 DEF SettingsInv
      <4> HIDE DEF p
      <4> QED BY <3>1, <4>1, GivenEffect DEF p
    <3>4. p.ready >= 0 => ToldWell(q)
      BY <1>1, <3>2, <3>3 DEF CallFits, ToldWell
    <3> QED BY <1>1, <1>5, <3>1, <3>3, <3>4
  <2> QED BY <2>1, <2>2
<1>8. call' \in [Call -> UseState] /\ call'[c] = q /\ \A d \in Call \ {c} : call'[d] = call[d]
  BY <1>1, <1>7
<1>9. ASSUME NEW d \in Call PROVE CallFits(call[d])'
  <2>1. CallFits(call[d]) /\ call[d].ready \in -1..Settled
    BY <1>1 DEF SettingsInv, UseState
  <2>2. CASE d = c
    <3>1. q.ready <= platform.done /\ (p.ready < 0 => ToldWell(q))
      BY <1>1, <1>7, SettingsBounds DEF CallFits, ToldWell, Settled
    <3>2. ToldWell(q)
      BY <1>1, <1>7, <3>1, SettingsBounds DEF Settled
    <3> QED BY <1>1, <1>4, <1>7, <1>8, <2>2, <3>1, <3>2 DEF CallFits, Rechecked, ToldWell
  <2>3. CASE d # c
    <3>1. call'[d] = call[d]
      BY <1>8, <2>3
    <3>2. call[d].ready >= 0 /\ call[d].pc \in {"again", "pool", "compose"} => cached'.doc = "named"
      <4> SUFFICES ASSUME call[d].ready >= 0, call[d].pc \in {"again", "pool", "compose"}
                   PROVE  cached'.doc = "named"
        OBVIOUS
      <4>1. cached.doc = "named" /\ r.doc \in {"named", "error"}
        BY <1>1, <2>1 DEF CallFits, Rechecked
      <4> QED BY <1>2, <4>1 DEF Errs
    <3> QED BY <1>1, <1>4, <2>1, <3>1, <3>2 DEF CallFits, Rechecked, ToldWell
  <2> QED BY <2>2, <2>3
<1>10. OwnReads'
  BY <1>4 DEF OwnReads
<1> QED BY <1>1, <1>3, <1>4, <1>6, <1>8, <1>9, <1>10 DEF SettingsInv, SettingsTypes, Landed

-----------------------------------------------------------------------------
(* The platform, and time *)

LEMMA Changes ==
    ASSUME SettingsInv, Change
    PROVE  SettingsInv'
<1>1. /\ platform \in Platform /\ resolve \in Resolve /\ call \in [Call -> UseState]
      /\ platform.done \in -1..Settled /\ UNCHANGED <<cached, age>>
      /\ platform.done >= 0 <=> Landed(platform)
  BY DEF SettingsInv, SettingsTypes, Platform, Change
<1>2. PICK f \in {"doc", "api", "control"}, v \in {"absent", "unnamed", "named", "no", "yes"} :
         LET p == [platform EXCEPT ![f] = v] IN
         /\ v # platform[f]
         /\ v \in IF f = "doc" THEN {"absent", "unnamed", "named"} ELSE {"no", "yes"}
         /\ p.control = "yes" => p.api = "yes"
         /\ platform' = [p EXCEPT !.done = IF Landed(p) THEN IF @ < 0 THEN 0 ELSE @ ELSE -1]
         /\ call' = [c \in Call |-> IF Landed(p) THEN call[c] ELSE [call[c] EXCEPT !.ready = -1]]
         /\ resolve' = IF resolve.by = NoCall THEN resolve ELSE [resolve EXCEPT !.saw[f] = @ \cup {v}]
  BY Zenon DEF Change
<1>3. /\ v \in IF f = "doc" THEN {"absent", "unnamed", "named"} ELSE {"no", "yes"}
      /\ resolve' = IF resolve.by = NoCall THEN resolve ELSE [resolve EXCEPT !.saw[f] = @ \cup {v}]
  BY <1>2
<1> DEFINE p == [platform EXCEPT ![f] = v]
<1>4. p \in Platform /\ p.done = platform.done
  BY <1>1, <1>3 DEF Platform
<1>5. /\ platform' = [p EXCEPT !.done = IF Landed(p) THEN IF @ < 0 THEN 0 ELSE @ ELSE -1]
      /\ call' = [c \in Call |-> IF Landed(p) THEN call[c] ELSE [call[c] EXCEPT !.ready = -1]]
  BY <1>2
<1> HIDE DEF p
<1>6. /\ platform' \in Platform
      /\ platform'.done = IF Landed(p) THEN IF platform.done < 0 THEN 0 ELSE platform.done ELSE -1
      /\ platform'.done >= 0 <=> Landed(platform')
  BY <1>1, <1>4, <1>5, SettingsBounds DEF Platform, Landed, Settled
<1>7. /\ resolve' \in Resolve /\ resolve'.by = resolve.by /\ resolve'.at = resolve.at
      /\ resolve'.read = resolve.read /\ resolve'.ticks = resolve.ticks
  BY <1>1, <1>3 DEF Resolve, Source, Value
<1>8. /\ call' \in [Call -> UseState]
      /\ \A c \in Call : /\ call'[c].ready = (IF Landed(p) THEN call[c].ready ELSE -1)
                         /\ call'[c].pc = call[c].pc /\ call'[c].answer = call[c].answer
  <2>1. ASSUME NEW c \in Call
        PROVE  /\ [call[c] EXCEPT !.ready = -1] \in UseState
               /\ [call[c] EXCEPT !.ready = -1].ready = -1
               /\ [call[c] EXCEPT !.ready = -1].pc = call[c].pc
               /\ [call[c] EXCEPT !.ready = -1].answer = call[c].answer
    BY <1>1, SettingsBounds DEF UseState, Settled
  <2> QED BY <1>1, <1>5, <2>1
<1>9. ASSUME NEW c \in Call PROVE CallFits(call[c])'
  <2>1. CallFits(call[c]) /\ call[c].ready \in -1..Settled
    BY <1>1 DEF SettingsInv, UseState
  <2>2. call'[c].ready <= platform'.done
    BY <1>1, <1>6, <1>8, <2>1, SettingsBounds DEF CallFits, Settled
  <2>3. ToldWell(call'[c])
    BY <1>8, <2>1, SettingsBounds DEF CallFits, ToldWell, Settled
  <2> QED BY <1>1, <1>7, <1>8, <2>1, <2>2, <2>3 DEF CallFits, Rechecked, ToldWell
<1>10. OwnReads'
  <2>1. resolve.by \in Call \cup {NoCall}
    BY <1>1 DEF Resolve
  <2> QED BY <1>7, <1>8, <2>1 DEF SettingsInv, OwnReads, ReadLanded
<1>11. LagsShortly'
  <2>1. age \in 0..TTL /\ resolve.ticks \in 0..MaxRead
    BY DEF SettingsInv, SettingsTypes, Resolve
  <2>2. platform'.done >= 0 => platform'.done = 0 \/ platform'.done = platform.done
    BY <1>6
  <2>3. Lags(resolve') <=> Lags(resolve)
    BY <1>7 DEF Lags
  <2> QED BY <1>1, <1>7, <2>1, <2>2, <2>3, SettingsBounds DEF SettingsInv, LagsShortly
<1> QED BY <1>1, <1>6, <1>7, <1>8, <1>9, <1>10, <1>11 DEF SettingsInv, SettingsTypes

LEMMA NodeMoved ==
    ASSUME SettingsInv, NodeMoves
    PROVE  SettingsInv'
<1>1. /\ platform \in Platform /\ platform' = [platform EXCEPT !.node = ~@]
      /\ UNCHANGED <<cached, age, resolve, call>>
  BY DEF SettingsInv, SettingsTypes, NodeMoves
<1>2. /\ platform' \in Platform /\ platform'.done = platform.done
      /\ Landed(platform') = Landed(platform)
  BY <1>1 DEF Platform, Landed
<1>3. \A c \in Call : CallFits(call[c])'
  BY <1>1, <1>2 DEF SettingsInv, CallFits, Rechecked, ToldWell
<1> QED BY <1>1, <1>2, <1>3 DEF SettingsInv, SettingsTypes, OwnReads, ReadLanded, LagsShortly

LEMMA Ticks ==
    ASSUME SettingsInv, Tick
    PROVE  SettingsInv'
<1>1. /\ platform \in Platform /\ platform.done \in -1..Settled /\ resolve \in Resolve /\ age \in 0..TTL
      /\ resolve.ticks \in 0..MaxRead /\ UNCHANGED <<cached, call>> /\ call \in [Call -> UseState]
      /\ resolve.by # NoCall => resolve.ticks < MaxRead
  BY DEF SettingsInv, SettingsTypes, Tick, Platform, Resolve
<1>2. /\ platform' \in Platform /\ Landed(platform') = Landed(platform)
      /\ platform'.done = IF platform.done \in 0..(Settled - 1) THEN platform.done + 1 ELSE platform.done
  BY <1>1, SettingsBounds DEF Tick, Platform, Landed, Settled
<1>3. /\ resolve' \in Resolve /\ resolve'.by = resolve.by /\ resolve'.at = resolve.at
      /\ resolve'.read = resolve.read
      /\ resolve'.ticks = IF resolve.by # NoCall THEN resolve.ticks + 1 ELSE resolve.ticks
  <2> DEFINE t == IF resolve.by # NoCall THEN resolve.ticks + 1 ELSE resolve.ticks
  <2>1. resolve' = [resolve EXCEPT !.ticks = t]
    BY <1>1 DEF Tick, Resolve
  <2>2. t \in 0..MaxRead
    BY <1>1, SettingsBounds
  <2> HIDE DEF t
  <2>3. resolve' \in Resolve /\ resolve'.by = resolve.by /\ resolve'.at = resolve.at
        /\ resolve'.read = resolve.read /\ resolve'.ticks = t
    BY <1>1, <2>1, <2>2 DEF Resolve
  <2> QED BY <2>3 DEF t
<1>4. age' \in 0..TTL /\ age' = IF cached # Blank /\ age < TTL THEN age + 1 ELSE age
  BY <1>1, SettingsBounds DEF Tick
<1>5. platform'.done >= 0 <=> platform.done >= 0
  BY <1>1, <1>2, SettingsBounds DEF Settled
<1>6. LagsShortly'
  <2> SUFFICES ASSUME platform'.done >= 0 PROVE LagsShortly'
    BY DEF LagsShortly
  <2>1. platform.done >= 0 /\ platform'.done <= platform.done + 1 /\ platform'.done \in Int /\ platform.done \in Int
    BY <1>1, <1>2, <1>5, SettingsBounds DEF Settled
  <2>2. ASSUME cached # Blank, ~Landed(cached)
        PROVE  platform'.done <= age' + MaxRead \/ age' = TTL
    BY <1>1, <1>4, <2>1, <2>2, SettingsBounds DEF SettingsInv, LagsShortly
  <2>3. ASSUME resolve.by # NoCall, Lags(resolve)
        PROVE  platform'.done <= resolve'.ticks
    BY <1>1, <1>3, <2>1, <2>3, SettingsBounds DEF SettingsInv, LagsShortly
  <2> QED BY <1>1, <1>3, <2>2, <2>3 DEF LagsShortly, Lags
<1>7. ASSUME NEW c \in Call PROVE CallFits(call[c])'
  <2>1. CallFits(call[c]) /\ call[c].ready \in -1..Settled
    BY <1>1 DEF SettingsInv, UseState
  <2>2. call[c].ready <= platform'.done
    BY <1>1, <1>2, <2>1, SettingsBounds DEF CallFits, Settled
  <2> QED BY <1>1, <1>3, <2>1, <2>2 DEF CallFits, Rechecked, ToldWell
<1>8. OwnReads'
  BY <1>1, <1>3 DEF SettingsInv, OwnReads, ReadLanded
<1> QED BY <1>1, <1>2, <1>3, <1>4, <1>5, <1>6, <1>7, <1>8 DEF SettingsInv, SettingsTypes

LEMMA SettingsKept ==
    ASSUME Shapes
    PROVE  SettingsInv /\ [SettingsNext]_settingsVars => SettingsInv'
<1> SUFFICES ASSUME SettingsInv, [SettingsNext]_settingsVars PROVE SettingsInv'
  OBVIOUS
<1>1. ASSUME NEW c \in Call, Calls(c) PROVE SettingsInv'
  BY <1>1, Begins, UsesCached, ResolveStarts, ReadsGo, Stores DEF Calls
<1>2. CASE UNCHANGED settingsVars
  <2>1. UNCHANGED <<platform, cached, age, resolve, call>>
    BY <1>2 DEF settingsVars
  <2>2. \A c \in Call : CallFits(call[c])'
    BY <2>1 DEF SettingsInv, CallFits, Rechecked, ToldWell
  <2> QED BY <2>1, <2>2 DEF SettingsInv, SettingsTypes, OwnReads, ReadLanded, LagsShortly, Landed
<1> QED BY <1>1, <1>2, Changes, NodeMoved, Ticks DEF SettingsNext

(* A load begun once the platform is complete is not refused for what was
   cached before, for any TTLs, lengths of a resolve and number of calls, where
   the pool's instance shapes are registered (settings, settingsForLoad,
   recheckDiscovery). *)
THEOREM LoadsSeeTheLanded ==
    ASSUME Shapes
    PROVE  SettingsSpec => []LandedIsServed
<1>1. SettingsInv => LandedIsServed
  BY DEF SettingsInv, CallFits, ToldWell, LandedIsServed
<1> QED BY <1>1, SettingsStart, SettingsKept, PTL DEF SettingsSpec

(* No list misses what has been there for a resolve and the short time
   incomplete settings stand, under the same assumption. *)
THEOREM ListsSeeTheSettled ==
    ASSUME Shapes
    PROVE  SettingsSpec => []ListsFollow
<1>1. SettingsInv => ListsFollow
  BY DEF SettingsInv, CallFits, ToldWell, ListsFollow, Settled
<1> QED BY <1>1, SettingsStart, SettingsKept, PTL DEF SettingsSpec

-----------------------------------------------------------------------------
(* What a list says *)

(* What a phase says of the cloud and of a runtime that died is so, for any
   sizes, zones, answers cut anywhere, and any reads that fail, on every
   behaviour of the parts (launchFacts and capacity; pull and load). *)
THEOREM ListsSayWhatIs == MCSpec => []SaysWhatIs
<1>1. MCInit => PhaseInv /\ LaunchInv
  BY PhaseStarts, LaunchStarts DEF MCInit
<1>2. PhaseInv /\ LaunchInv /\ [MCNext]_mcVars => (PhaseInv /\ LaunchInv)'
  <2> SUFFICES ASSUME PhaseInv, LaunchInv, [MCNext]_mcVars PROVE PhaseInv' /\ LaunchInv'
    OBVIOUS
  <2>1. [PhaseNext]_phaseVars /\ [LaunchNext]_launchVars
    BY DEF MCNext, Loading, Showing, Launching, mcVars
  <2> QED BY <2>1, PhaseKept, LaunchKept
<1>3. PhaseInv /\ LaunchInv => SaysWhatIs
  BY CrashesNamed, RefusalsTrue DEF SaysWhatIs
<1> QED BY <1>1, <1>2, <1>3, PTL DEF MCSpec

(* The phase a list shows moves forward while the cluster does: no step of
   Karpenter, the scheduler, the kubelet or KServe that takes a serve on makes
   it show an earlier one, whatever refusals, crashes, evictions and expired
   Events came before (schedule, download, pull, load, Route). *)
THEOREM PhasesMoveForward == MCSpec => MovesForward
<1> DEFINE Shows == Reached = Coming(object, pod, All)
<1>1. MCInit => PhaseInv
  BY PhaseStarts DEF MCInit
<1>2. [MCNext]_mcVars => [PhaseNext]_phaseVars
  BY DEF MCNext, Loading, Showing, Launching, mcVars
<1>3. PhaseInv => Shows
  BY ReachedComes
<1>4. PhaseInv /\ Shows /\ Shows' => [Progress => Reached' >= Reached]_phaseVars
  <2> SUFFICES ASSUME PhaseInv, Shows, Shows', Progress PROVE Reached' >= Reached
    OBVIOUS
  <2>1. Coming(object, pod, All)' >= Coming(object, pod, All)
    BY ComesForward
  <2> QED BY <2>1
<1> HIDE DEF Shows
<1> QED BY <1>1, <1>2, <1>3, <1>4, PhaseKept, PTL DEF MCSpec, MovesForward
=============================================================================
