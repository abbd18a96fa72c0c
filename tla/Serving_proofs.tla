---------------------------- MODULE Serving_proofs ----------------------------
(***************************************************************************)
(* Proofs about Serving: its types, for any number of calls, jobs and      *)
(* presets; and for calls that follow one another without a fault, that a  *)
(* ModelConfig left behind names an object that serves (NoDangling).       *)
(***************************************************************************)
EXTENDS MCServing, WellFoundedInduction, TLAPS

Up(p) == obj[p].state = "up"

(* Where a call of each kind can be, and where it has something left to do. *)
Stages ==
    [none |-> {"idle"},
     load |-> {"look", "write", "startjob"},
     unload |-> {"delete", "check", "endjob", "await", "remove"},
     read |-> {"index", "item", "look", "write"},
     reconcile |-> {"index", "item", "look", "write"}]

Fits(q) ==
    /\ q.pc \in Stages[q.op]
    /\ q.pc \notin {"idle", "endjob", "await", "remove"} => q.todo # {}

HasWork == \A a \in Actor : Fits(act[a])

IndInv == TypeOK /\ HasWork

(* One call at a time: there is one load job at most.  A ModelConfig, and the
   object an active job is to wire, serve, unless an unload is under way that
   will end the job and then remove the ModelConfig. *)
Serial(c) ==
    /\ act[Loop] = Idle /\ faults = 0
    /\ \A i, j \in JobId : Jobs!Active(i) /\ Jobs!Active(j) => i = j
    /\ At(c, "check") => ~Up(First(act[c].todo))
    /\ At(c, "await") => \A id \in JobId : Jobs!Active(id) => id = act[c].job
    /\ At(c, "remove") => \A id \in JobId : ~Jobs!Active(id)
    /\ act[c].op # "unload" =>
          /\ \A p \in act[c].todo : Up(p)
          /\ mc # NoPreset => Up(mc)
          /\ \A id \in JobId : Jobs!Active(id) => Up(job[id].ref)

InTurn(c) == part = "serial" => Serial(c)
-----------------------------------------------------------------------------
(* Every set of presets has a first one: what the code finds at the head of a
   list sorted by name. *)
LEMMA FirstIsIn ==
    ASSUME NEW S \in SUBSET Preset, S # {}
    PROVE  First(S) \in S
<1> DEFINE R == {ss \in Nat \X Nat : ss[1] < ss[2]}
<1>1. IsWellFoundedOn(R, Nat)
  BY NatLessThanWellFounded DEF OpToRel
<1>2. PICK p \in S : \A q \in S : ~ (<<q, p>> \in R)
  <2> HIDE DEF R
  <2> QED BY <1>1, WFMin, PresetAssumption
<1>3. \A q \in S : p <= q
  <2> TAKE q \in S
  <2>1. p \in Nat /\ q \in Nat
    BY PresetAssumption
  <2>2. ~ (q < p)
    BY <1>2, <2>1
  <2> QED BY <2>1, <2>2
<1> QED BY <1>3 DEF First

(* One actor moves, to a place that fits it. *)
LEMMA ActMoves ==
    ASSUME IndInv, NEW a \in Actor, NEW q \in ActorState, Fits(q),
           act' = [act EXCEPT ![a] = q]
    PROVE  act' \in [Actor -> ActorState] /\ HasWork'
<1>1. act \in [Actor -> ActorState] /\ \A b \in Actor : Fits(act[b])
  BY DEF IndInv, TypeOK, HasWork
<1>2. act' \in [Actor -> ActorState] /\ act'[a] = q /\ \A b \in Actor \ {a} : act'[b] = act[b]
  BY <1>1
<1> QED BY <1>1, <1>2 DEF HasWork, Fits

(* It ends its call, or goes on to another step of it. *)
LEMMA ActFinishes ==
    ASSUME IndInv, NEW a \in Actor, Finish(a)
    PROVE  act' \in [Actor -> ActorState] /\ HasWork'
<1>1. Idle \in ActorState /\ Fits(Idle)
  BY DEF Idle, ActorState, Fits, Stages
<1> QED BY <1>1, ActMoves DEF Finish

LEMMA ActGoes ==
    ASSUME IndInv, NEW a \in Actor, NEW pc \in Stages[act[a].op],
           Goto(a, pc),
           pc \in {"endjob", "await", "remove"} \/ act[a].pc \notin {"idle", "endjob", "await", "remove"}
    PROVE  act' \in [Actor -> ActorState] /\ HasWork'
<1> DEFINE q == [act[a] EXCEPT !.pc = pc]
<1>1. act \in [Actor -> ActorState] /\ act[a] \in ActorState /\ Fits(act[a])
  BY DEF IndInv, TypeOK, HasWork
<1>2. q \in ActorState /\ Fits(q)
  BY <1>1 DEF ActorState, Fits, Stages
<1>3. act' = [act EXCEPT ![a] = q]
  BY <1>1 DEF Goto
<1> HIDE DEF q
<1> QED BY <1>2, <1>3, ActMoves

LEMMA ActWired ==
    ASSUME IndInv, NEW a \in Actor, Wired(a), act[a].pc \in {"look", "write", "item"}
    PROVE  act' \in [Actor -> ActorState] /\ HasWork'
<1> DEFINE q == act[a]
           rest == q.todo \ {First(q.todo)}
           to == IF q.op = "load" THEN [q EXCEPT !.pc = "startjob"]
                 ELSE IF rest = {} THEN Idle
                 ELSE [q EXCEPT !.pc = "item", !.todo = rest]
<1>1. q \in ActorState /\ Fits(q)
  BY DEF IndInv, TypeOK, HasWork
<1>2. to \in ActorState
  BY <1>1 DEF ActorState, Idle
<1>3. Fits(to)
  BY <1>1 DEF ActorState, Fits, Stages, Idle
<1>4. act' = [act EXCEPT ![a] = to]
  BY DEF Wired
<1> HIDE DEF to
<1> QED BY <1>2, <1>3, <1>4, ActMoves

LEMMA ActLists ==
    ASSUME IndInv, NEW a \in Actor, NEW op \in {"read", "reconcile"}, NEW S \in SUBSET Preset,
           Lists(a, op, S)
    PROVE  act' \in [Actor -> ActorState] /\ HasWork'
<1> DEFINE to == IF S = {} THEN Idle ELSE [Idle EXCEPT !.op = op, !.pc = "index", !.todo = S]
<1>1. to \in ActorState /\ Fits(to)
  <2>1. CASE S = {}
    BY <2>1 DEF ActorState, Fits, Stages, Idle
  <2>2. CASE S # {}
    <3>1. to = [op |-> op, pc |-> "index", todo |-> S, gone |-> {}, job |-> 0]
      BY <2>2 DEF Idle
    <3>2. "index" \in Stages[op]
      BY DEF Stages
    <3>3. [op |-> op, pc |-> "index", todo |-> S, gone |-> {}, job |-> 0] \in ActorState
      BY DEF ActorState
    <3> HIDE DEF to
    <3> QED BY <2>2, <3>1, <3>2, <3>3 DEF Fits
  <2> QED BY <2>1, <2>2
<1>2. act' = [act EXCEPT ![a] = to]
  BY DEF Lists
<1> HIDE DEF to
<1> QED BY <1>1, <1>2, ActMoves

(* The object of a preset changes. *)
LEMMA ObjectsTyped ==
    ASSUME TypeOK, NEW p \in Preset, NEW o \in Object, o.state = "none" => ~o.ready,
           obj' = [obj EXCEPT ![p] = o]
    PROVE  obj' \in [Preset -> Object] /\ \A s \in Preset : obj'[s].state = "none" => ~obj'[s].ready
BY DEF TypeOK
-----------------------------------------------------------------------------
(* Types *)

LEMMA ObjStays ==
    ASSUME TypeOK, UNCHANGED obj
    PROVE  obj' \in [Preset -> Object] /\ \A s \in Preset : obj'[s].state = "none" => ~obj'[s].ready
BY DEF TypeOK

LEMMA TableStays ==
    ASSUME TypeOK, UNCHANGED Table
    PROVE  /\ phase' \in [JobId -> Jobs!Phases] /\ asked' \subseteq JobId
           /\ job' \in [JobId -> [ref: Preset, pc: {"waiting", "ready", "look", "write", "over"}]]
BY DEF TypeOK, Table

LEMMA BoundsStay ==
    ASSUME TypeOK, UNCHANGED Bounds
    PROVE  calls' \in 0..MaxCalls /\ faults' \in 0..MaxFaults
BY DEF TypeOK, Bounds

LEMMA OneMore ==
    ASSUME TypeOK, calls < MaxCalls, calls' = calls + 1, UNCHANGED faults
    PROVE  calls' \in 0..MaxCalls /\ faults' \in 0..MaxFaults
BY BoundsAssumption DEF TypeOK

LEMMA OneFault ==
    ASSUME TypeOK, Faulty, UNCHANGED calls
    PROVE  calls' \in 0..MaxCalls /\ faults' \in 0..MaxFaults
BY BoundsAssumption DEF TypeOK, Faulty

(* A job runs on, or ends. *)
LEMMA JobMoves ==
    ASSUME TypeOK, NEW id \in JobId, NEW pc \in {"waiting", "ready", "look", "write", "over"},
           job' = [job EXCEPT ![id].pc = pc], NEW ph \in Jobs!Phases,
           phase' \in {phase, [phase EXCEPT ![id] = ph]}, asked' \subseteq JobId
    PROVE  /\ phase' \in [JobId -> Jobs!Phases] /\ asked' \subseteq JobId
           /\ job' \in [JobId -> [ref: Preset, pc: {"waiting", "ready", "look", "write", "over"}]]
<1>1. phase' \in [JobId -> Jobs!Phases]
  BY DEF TypeOK
<1>2. job' \in [JobId -> [ref: Preset, pc: {"waiting", "ready", "look", "write", "over"}]]
  BY DEF TypeOK
<1> QED BY <1>1, <1>2
(* What each step of the model leaves typed. *)
LEMMA CallStep ==
    ASSUME IndInv, NEW c \in Call, Load(c) \/ Unload(c) \/ Unwire(c) \/ UnloadFails(c) \/ Read(c)
    PROVE  IndInv'
<1> USE DEF IndInv
<1>0. /\ c \in Actor /\ act[c] \in ActorState /\ Fits(act[c])
      /\ Idle \in ActorState /\ Fits(Idle)
  BY DEF TypeOK, HasWork, Actor, Idle, ActorState, Fits, Stages
<1>1. ASSUME NEW p \in Preset, LoadServe(c, p) PROVE IndInv'
  <2>1. mc' = mc /\ portal' = portal /\ UNCHANGED Table
    BY <1>1 DEF LoadServe
  <2>2. calls' \in 0..MaxCalls /\ faults' \in 0..MaxFaults
    BY <1>1, OneMore DEF LoadServe, Starts
  <2>3. CASE obj[p] = None
    <3> DEFINE q == [Idle EXCEPT !.op = "load", !.pc = "look", !.todo = {p}]
               o == [state |-> "up", ready |-> FALSE]
    <3>1. q \in ActorState /\ Fits(q)
      BY DEF Idle, ActorState, Fits, Stages
    <3>2. o \in Object
      BY DEF Object
    <3>3. act' = [act EXCEPT ![c] = q] /\ obj' = [obj EXCEPT ![p] = o] /\ o.state # "none"
      BY <1>1, <2>3 DEF LoadServe
    <3> HIDE DEF q, o
    <3>4. act' \in [Actor -> ActorState] /\ HasWork'
      BY <1>0, <3>1, <3>3, ActMoves
    <3>5. obj' \in [Preset -> Object] /\ \A s \in Preset : obj'[s].state = "none" => ~obj'[s].ready
      BY <3>2, <3>3, ObjectsTyped
    <3> QED BY <2>1, <2>2, <3>4, <3>5, TableStays DEF TypeOK
  <2>4. CASE obj[p] # None
    BY <1>1, <2>1, <2>2, <2>4, TableStays DEF LoadServe, TypeOK, HasWork
  <2> QED BY <2>3, <2>4
<1>2. CASE LoadStartJob(c)
  <2>1. UNCHANGED <<World, Bounds>> /\ Finish(c) /\ At(c, "startjob")
    BY <1>2 DEF LoadStartJob
  <2>2. act' \in [Actor -> ActorState] /\ HasWork'
    BY <1>0, <2>1, ActFinishes
  <2>3. /\ phase' \in [JobId -> Jobs!Phases] /\ asked' \subseteq JobId
        /\ job' \in [JobId -> [ref: Preset, pc: {"waiting", "ready", "look", "write", "over"}]]
    <3>1. CASE UNCHANGED Table
      BY <3>1, TableStays
    <3>2. ASSUME NEW id \in JobId, Jobs!Start("load", id, {}),
                 job' = [job EXCEPT ![id] = [ref |-> First(act[c].todo), pc |-> "waiting"]]
          PROVE  <2>3!:
      <4>1. First(act[c].todo) \in Preset
        <5>1. act[c].todo \in SUBSET Preset /\ act[c].todo # {}
          BY <1>0, <2>1 DEF ActorState, Fits, At
        <5> QED BY <5>1, FirstIsIn
      <4>2. job' \in [JobId -> [ref: Preset, pc: {"waiting", "ready", "look", "write", "over"}]]
        BY <3>2, <4>1 DEF TypeOK
      <4>3. phase' \in [JobId -> Jobs!Phases] /\ asked' \subseteq JobId
        BY <3>2 DEF TypeOK, Jobs!Start, Jobs!Forgotten, Jobs!Phases
      <4> QED BY <4>2, <4>3
    <3> QED BY <1>2, <3>1, <3>2 DEF LoadStartJob
  <2> QED BY <2>1, <2>2, <2>3, BoundsStay DEF TypeOK, World
<1>3. ASSUME NEW names \in {{p} : p \in Preset} \cup {Preset}, UnloadFind(c, names) PROVE IndInv'
  <2> DEFINE found == {p \in names : obj[p] # None}
             q == [Idle EXCEPT !.op = "unload", !.pc = "delete", !.todo = found, !.gone = found]
  <2>1. found \in SUBSET Preset
    OBVIOUS
  <2>2. CASE found = {}
    BY <1>3, <2>2, OneMore, TableStays DEF UnloadFind, Starts, TypeOK, World, HasWork
  <2>3. CASE found # {}
    <3>1. act' = [act EXCEPT ![c] = q]
      BY <1>3, <2>3 DEF UnloadFind
    <3> HIDE DEF found
    <3>2. q \in ActorState /\ Fits(q)
      BY <2>1, <2>3 DEF Idle, ActorState, Fits, Stages
    <3> HIDE DEF q
    <3>3. act' \in [Actor -> ActorState] /\ HasWork'
      BY <1>0, <3>1, <3>2, ActMoves
    <3> QED BY <1>3, <3>3, OneMore, TableStays DEF UnloadFind, Starts, TypeOK, World
  <2> QED BY <2>2, <2>3
<1>4. CASE UnloadDelete(c)
  <2> DEFINE p == First(act[c].todo)
             o == [obj[p] EXCEPT !.state = IF @ = "none" THEN @ ELSE "stopping"]
  <2>1. p \in Preset
    <3>1. act[c].todo \in SUBSET Preset /\ act[c].todo # {}
      BY <1>0, <1>4 DEF ActorState, Fits, At, UnloadDelete
    <3> QED BY <3>1, FirstIsIn
  <2> HIDE DEF p
  <2>2. o \in Object /\ (o.state = "none" => ~o.ready)
    BY <2>1 DEF TypeOK, Object
  <2>3. obj' = [obj EXCEPT ![p] = o]
    BY <1>4, <2>1 DEF UnloadDelete, p, TypeOK
  <2> HIDE DEF o
  <2>4. obj' \in [Preset -> Object] /\ \A s \in Preset : obj'[s].state = "none" => ~obj'[s].ready
    BY <2>1, <2>2, <2>3, ObjectsTyped
  <2>5. act' \in [Actor -> ActorState] /\ HasWork'
    <3>1. act[c].op = "unload"
      BY <1>0, <1>4 DEF UnloadDelete, At, Fits, Stages, ActorState
    <3>2. "check" \in Stages[act[c].op] /\ act[c].pc = "delete" /\ Goto(c, "check")
      BY <1>4, <3>1 DEF Stages, UnloadDelete, At
    <3> QED BY <1>0, <3>2, ActGoes
  <2> QED BY <1>4, <2>4, <2>5, TableStays, BoundsStay DEF UnloadDelete, TypeOK
<1>5. CASE UnloadCheck(c)
  <2> DEFINE q == act[c]
             p == First(q.todo)
             next == [q EXCEPT !.todo = @ \ {p}, !.pc = IF q.todo = {p} THEN "endjob" ELSE "delete"]
             to == IF obj[p].state = "up" THEN Idle ELSE next
  <2>1. q.todo \in SUBSET Preset /\ q.todo # {} /\ q.op = "unload" /\ At(c, "check")
    BY <1>0, <1>5 DEF ActorState, Fits, At, UnloadCheck, Stages
  <2>2. p \in q.todo
    BY <2>1, FirstIsIn
  <2> HIDE DEF p
  <2>3. next \in ActorState /\ Fits(next)
    <3> DEFINE pc == IF q.todo = {p} THEN "endjob" ELSE "delete"
               rest == q.todo \ {p}
    <3>1. pc \in {"endjob", "delete"} /\ rest \in SUBSET Preset /\ next = [q EXCEPT !.todo = rest, !.pc = pc]
      BY <2>1
    <3> HIDE DEF pc, rest
    <3>2. next \in ActorState
      BY <1>0, <2>1, <3>1 DEF ActorState
    <3>3. next.pc = pc /\ next.todo = rest /\ next.op = "unload"
      BY <1>0, <2>1, <3>1 DEF ActorState
    <3>4. pc = "delete" => rest # {}
      BY <2>1, <2>2 DEF pc, rest
    <3> HIDE DEF next
    <3> QED BY <3>1, <3>2, <3>3, <3>4 DEF Fits, Stages
  <2>4. act' = [act EXCEPT ![c] = to]
    BY <1>5 DEF UnloadCheck, p
  <2> HIDE DEF next
  <2>5. to \in ActorState /\ Fits(to)
    BY <1>0, <2>3
  <2> HIDE DEF to
  <2>6. act' \in [Actor -> ActorState] /\ HasWork'
    BY <1>0, <2>4, <2>5, ActMoves
  <2> QED BY <1>5, <2>6, TableStays, BoundsStay, ObjStays DEF UnloadCheck, TypeOK, World
<1>6. CASE UnloadEndJob(c)
  <2>1. act[c].op = "unload" /\ "remove" \in Stages[act[c].op]
    BY <1>0, <1>6 DEF UnloadEndJob, At, Fits, Stages, ActorState
  <2>2. ASSUME NEW id \in JobId, Jobs!Ask(id), act' = [act EXCEPT ![c].pc = "await", ![c].job = id]
        PROVE  /\ act' \in [Actor -> ActorState] /\ HasWork'
               /\ phase' = phase /\ asked' \subseteq JobId
    <3> DEFINE q == [act[c] EXCEPT !.pc = "await", !.job = id]
    <3>2. q \in ActorState /\ Fits(q)
      <4>1. q \in ActorState
        BY <1>0 DEF ActorState
      <4>2. q.pc = "await" /\ q.op = "unload"
        BY <1>0, <2>1 DEF ActorState
      <4> QED BY <4>1, <4>2 DEF Fits, Stages
    <3>4. act' = [act EXCEPT ![c] = q]
      BY <2>2, <1>0 DEF TypeOK
    <3> HIDE DEF q
    <3>3. act' \in [Actor -> ActorState] /\ HasWork'
      BY <1>0, <3>2, <3>4, ActMoves
    <3> QED BY <2>2, <3>3 DEF Jobs!Ask, TypeOK
  <2>3. ASSUME Goto(c, "remove"), UNCHANGED <<phase, asked>>
        PROVE  /\ act' \in [Actor -> ActorState] /\ HasWork'
               /\ phase' = phase /\ asked' \subseteq JobId
    BY <1>0, <2>1, <2>3, ActGoes DEF TypeOK
  <2>4. /\ act' \in [Actor -> ActorState] /\ HasWork'
        /\ phase' = phase /\ asked' \subseteq JobId
    BY <1>6, <2>2, <2>3 DEF UnloadEndJob
  <2> QED BY <1>6, <2>4, BoundsStay, ObjStays DEF UnloadEndJob, TypeOK, World
<1>7. CASE UnloadAwait(c)
  <2>1. act[c].op = "unload" /\ "remove" \in Stages[act[c].op]
    BY <1>0, <1>7 DEF UnloadAwait, At, Fits, Stages, ActorState
  <2>2. act' \in [Actor -> ActorState] /\ HasWork'
    BY <1>0, <1>7, <2>1, ActGoes DEF UnloadAwait
  <2> QED BY <1>7, <2>2, TableStays, BoundsStay, ObjStays DEF UnloadAwait, TypeOK, World
<1>8. CASE UnloadRemove(c)
  BY <1>0, <1>8, ActFinishes, TableStays, BoundsStay, ObjStays DEF UnloadRemove, TypeOK
<1>9. CASE UnloadFails(c)
  BY <1>0, <1>9, ActFinishes, TableStays, OneFault, ObjStays DEF UnloadFails, TypeOK, World
<1>10. CASE Unwire(c)
  BY <1>0, <1>10, TableStays, OneMore, ObjStays DEF Unwire, Starts, TypeOK, HasWork
<1>11. CASE Read(c)
  <2> DEFINE S == {p \in Preset : obj[p].state = "up"}
  <2>1. S \in SUBSET Preset /\ Lists(c, "read", S)
    BY <1>11 DEF Read
  <2> HIDE DEF S
  <2>2. act' \in [Actor -> ActorState] /\ HasWork'
    BY <1>0, <2>1, ActLists
  <2> QED BY <2>1, <2>2, TableStays, BoundsStay, ObjStays DEF Lists, TypeOK, World
<1> QED BY <1>1, <1>2, <1>3, <1>4, <1>5, <1>6, <1>7, <1>8, <1>9, <1>10, <1>11 DEF Load, Unload
LEMMA ActorStep ==
    ASSUME IndInv, NEW a \in Actor, Index(a) \/ Item(a) \/ Wire(a) \/ WireFails(a)
    PROVE  IndInv'
<1> USE DEF IndInv
<1>0. act[a] \in ActorState /\ Fits(act[a]) /\ Idle \in ActorState /\ Fits(Idle)
  BY DEF TypeOK, HasWork, Idle, ActorState, Fits, Stages
<1>1. CASE Index(a)
  <2> DEFINE q == act[a]
             unwired == IF mc # NoPreset THEN {} ELSE {p \in q.todo : ~Foreign(p)}
             to == IF unwired = {} THEN Idle ELSE [q EXCEPT !.pc = "item", !.todo = unwired]
  <2>1. act' = [act EXCEPT ![a] = to] /\ At(a, "index")
    BY <1>1 DEF Index
  <2>2. unwired \in SUBSET Preset
    BY <1>0 DEF ActorState
  <2> HIDE DEF unwired
  <2>3. q.op \in {"read", "reconcile"}
    BY <1>0, <2>1 DEF At, Fits, Stages, ActorState
  <2>4. to \in ActorState
    BY <1>0, <2>2, ZenonT(40) DEF ActorState
  <2>5. Fits(to)
    BY <1>0, <2>2, <2>3 DEF ActorState, Fits, Stages, Idle
  <2> HIDE DEF to
  <2>6. act' \in [Actor -> ActorState] /\ HasWork'
    BY <2>1, <2>4, <2>5, ActMoves
  <2> QED BY <1>1, <2>6, TableStays, BoundsStay, ObjStays DEF Index, TypeOK, World
<1>2. CASE Item(a)
  <2>1. act[a].op \in {"read", "reconcile"} /\ act[a].pc = "item"
    BY <1>0, <1>2 DEF Item, At, Fits, Stages, ActorState
  <2>2. "look" \in Stages[act[a].op]
    BY <2>1 DEF Stages
  <2>3. Wired(a) \/ Goto(a, "look")
    BY <1>2 DEF Item
  <2>4. act' \in [Actor -> ActorState] /\ HasWork'
    BY <1>0, <2>1, <2>2, <2>3, ActWired, ActGoes
  <2> QED BY <1>2, <2>4, TableStays, BoundsStay, ObjStays DEF Item, TypeOK, World
<1>3. CASE WireLook(a)
  <2>1. act[a].op \in {"load", "read", "reconcile"} /\ act[a].pc = "look"
    BY <1>0, <1>3 DEF WireLook, At, Fits, Stages, ActorState
  <2>2. "write" \in Stages[act[a].op]
    BY <2>1 DEF Stages
  <2>3. Wired(a) \/ Goto(a, "write")
    BY <1>3 DEF WireLook
  <2>4. act' \in [Actor -> ActorState] /\ HasWork'
    BY <1>0, <2>1, <2>2, <2>3, ActWired, ActGoes
  <2> QED BY <1>3, <2>4, TableStays, BoundsStay, ObjStays DEF WireLook, TypeOK, World
<1>4. CASE WireWrite(a)
  <2>1. act[a].todo \in SUBSET Preset /\ act[a].todo # {} /\ act[a].pc = "write"
    BY <1>0, <1>4 DEF WireWrite, At, Fits, ActorState
  <2>2. mc' \in Preset
    BY <1>4, <2>1, FirstIsIn DEF WireWrite
  <2>3. act' \in [Actor -> ActorState] /\ HasWork'
    BY <1>4, <2>1, ActWired DEF WireWrite
  <2> QED BY <1>4, <2>2, <2>3, TableStays, BoundsStay, ObjStays DEF WireWrite, TypeOK
<1>5. CASE WireFails(a)
  <2>1. act' \in [Actor -> ActorState] /\ HasWork'
    BY <1>5, ActWired DEF WireFails, At
  <2> QED BY <1>5, <2>1, TableStays, OneFault, ObjStays DEF WireFails, TypeOK, World
<1> QED BY <1>1, <1>2, <1>3, <1>4, <1>5 DEF Wire

LEMMA LoadJobStep ==
    ASSUME IndInv, NEW id \in JobId, LoadJob(id)
    PROVE  IndInv'
<1> USE DEF IndInv
<1> DEFINE Typed == /\ phase' \in [JobId -> Jobs!Phases] /\ asked' \subseteq JobId
                    /\ job' \in [JobId -> [ref: Preset, pc: {"waiting", "ready", "look", "write", "over"}]]
<1>1. UNCHANGED <<obj, portal, act, Bounds>>
  BY DEF LoadJob, JobBegin, JobPoll, JobGivesUp, JobStops, JobCheck, JobLook, JobWrite, World
<1>2. ASSUME NEW p \in {"succeeded", "failed", "cancelled"}, JobEnd(id, p) PROVE Typed
  <2>1. /\ p \in Jobs!Phases
        /\ phase' = [phase EXCEPT ![id] = p] /\ asked' = asked
        /\ job' = [job EXCEPT ![id].pc = "over"]
    BY <1>2 DEF JobEnd, Jobs!End, Jobs!Phases, Jobs!Terminal
  <2> QED BY <2>1, JobMoves DEF TypeOK
<1>3. ASSUME NEW pc \in {"waiting", "ready", "look", "write", "over"}, JobGoto(id, pc), UNCHANGED <<phase, asked>>
      PROVE  Typed
  <2>1. "gone" \in Jobs!Phases
    BY DEF Jobs!Phases
  <2> QED BY <1>3, <2>1, JobMoves DEF JobGoto, TypeOK
<1>4. Typed
  <2>1. CASE JobBegin(id)
    BY <2>1 DEF JobBegin, Jobs!Begin, TypeOK, Jobs!Phases
  <2>2. CASE JobPoll(id)
    BY <2>2, <1>2, <1>3 DEF JobPoll
  <2>3. CASE JobGivesUp(id)
    BY <2>3, <1>2 DEF JobGivesUp
  <2>4. CASE JobStops(id)
    BY <2>4, <1>2 DEF JobStops
  <2>5. CASE JobCheck(id)
    BY <2>5, <1>3 DEF JobCheck
  <2>6. CASE JobLook(id)
    BY <2>6, <1>2, <1>3 DEF JobLook
  <2>7. CASE JobWrite(id)
    BY <2>7, <1>2 DEF JobWrite
  <2> QED BY <2>1, <2>2, <2>3, <2>4, <2>5, <2>6, <2>7 DEF LoadJob
<1>5. mc' \in Preset \cup {NoPreset}
  BY DEF LoadJob, JobBegin, JobPoll, JobGivesUp, JobStops, JobCheck, JobLook, JobWrite, World, TypeOK
<1>6. act' \in [Actor -> ActorState] /\ HasWork'
  BY <1>1 DEF TypeOK, HasWork
<1> QED BY <1>1, <1>4, <1>5, <1>6, BoundsStay, ObjStays DEF TypeOK

LEMMA ControllerStep ==
    ASSUME IndInv, NEW p \in Preset, Controller(p)
    PROVE  IndInv'
<1> USE DEF IndInv
<1>1. UNCHANGED <<mc, portal, Table, act, Bounds>>
  BY DEF Controller, ControllerReady, ControllerNotReady, ControllerGone
<1>2. PICK o \in Object : obj' = [obj EXCEPT ![p] = o] /\ (o.state = "none" => ~o.ready)
  <2>1. obj[p] \in Object
    BY DEF TypeOK
  <2>2. CASE ControllerReady(p)
    <3> DEFINE o == [obj[p] EXCEPT !.ready = TRUE]
    <3>1. o \in Object /\ o.state = "up" /\ obj' = [obj EXCEPT ![p] = o]
      BY <2>1, <2>2 DEF ControllerReady, TypeOK, Object
    <3> QED BY <3>1
  <2>3. CASE ControllerNotReady(p)
    <3> DEFINE o == [obj[p] EXCEPT !.ready = FALSE]
    <3>1. o \in Object /\ ~o.ready /\ obj' = [obj EXCEPT ![p] = o]
      BY <2>1, <2>3 DEF ControllerNotReady, TypeOK, Object
    <3> QED BY <3>1
  <2>4. CASE ControllerGone(p)
    <3>1. None \in Object /\ ~None.ready /\ obj' = [obj EXCEPT ![p] = None]
      BY <2>4 DEF ControllerGone, None, Object
    <3> QED BY <3>1
  <2> QED BY <2>2, <2>3, <2>4 DEF Controller
<1>3. act' \in [Actor -> ActorState] /\ HasWork'
  BY <1>1 DEF TypeOK, HasWork
<1> QED BY <1>1, <1>2, <1>3, ObjectsTyped, TableStays, BoundsStay DEF TypeOK

LEMMA RestartStep ==
    ASSUME IndInv, Restart
    PROVE  IndInv'
<1> USE DEF IndInv
<1>1. phase' \in [JobId -> Jobs!Phases]
  BY DEF Restart, TypeOK, Jobs!Phases
<1>2. job' \in [JobId -> [ref: Preset, pc: {"waiting", "ready", "look", "write", "over"}]]
  <2>1. ASSUME NEW id \in JobId
        PROVE  [job[id] EXCEPT !.pc = "over"] \in [ref: Preset, pc: {"waiting", "ready", "look", "write", "over"}]
    BY DEF TypeOK
  <2> QED BY <2>1 DEF Restart
<1>3. act' \in [Actor -> ActorState] /\ HasWork'
  <2>1. Idle \in ActorState /\ Fits(Idle)
    BY DEF Idle, ActorState, Fits, Stages
  <2>2. act' \in [Actor -> ActorState] /\ \A a \in Actor : act'[a] = Idle
    BY <2>1 DEF Restart
  <2> QED BY <2>1, <2>2 DEF HasWork, Fits
<1> QED BY <1>1, <1>2, <1>3, OneFault, ObjStays DEF Restart, World, TypeOK

LEMMA TypesAtInit == ASSUME Init PROVE IndInv
<1>1. Idle \in ActorState /\ Fits(Idle) /\ None \in Object /\ ~None.ready
  BY DEF Idle, ActorState, Fits, Stages, None, Object
<1>2. TypeOK
  BY <1>1, BoundsAssumption DEF Init, TypeOK, Jobs!Phases
<1>3. HasWork
  BY <1>1 DEF Init, HasWork
<1> QED BY <1>2, <1>3 DEF IndInv

LEMMA TypesKept == ASSUME IndInv, [Next]_vars PROVE IndInv'
<1>1. ASSUME UNCHANGED vars PROVE IndInv'
  BY <1>1 DEF vars, IndInv, TypeOK, HasWork, Fits
<1>2. CASE Reconcile
  <2> DEFINE S == {p \in Preset : obj[p].state = "up" /\ obj[p].ready}
  <2>1. S \in SUBSET Preset /\ Lists(Loop, "reconcile", S) /\ Loop \in Actor
    BY <1>2 DEF Reconcile, Actor
  <2> HIDE DEF S
  <2>2. act' \in [Actor -> ActorState] /\ HasWork'
    BY <2>1, ActLists
  <2> QED BY <2>1, <2>2, TableStays, BoundsStay, ObjStays DEF Lists, TypeOK, World, IndInv
<1>3. CASE PortalUnwires
  BY <1>3, TableStays, BoundsStay, ObjStays DEF PortalUnwires, TypeOK, IndInv, HasWork
<1> QED BY <1>1, <1>2, <1>3, CallStep, ActorStep, LoadJobStep, ControllerStep, RestartStep DEF Next

(* The types, for any presets, calls and jobs, whatever fails and restarts; and
   what a call has left is never empty where the code takes its first. *)
THEOREM TypeCorrect == Spec => []TypeOK
<1>1. Init => IndInv
  BY TypesAtInit
<1>2. IndInv /\ [Next]_vars => IndInv'
  BY TypesKept
<1>3. IndInv => TypeOK
  BY DEF IndInv
<1> QED BY <1>1, <1>2, <1>3, PTL DEF Spec
-----------------------------------------------------------------------------
(* Calls that follow one another *)

(* What a step of the request c may do: only c moves, and the reconciler is at
   rest. *)
LEMMA Alone ==
    ASSUME NEW c, Call = {c}, IndInv, part = "serial", Serial(c), MCNext
    PROVE  /\ part' = part /\ act'[Loop] = Idle /\ faults' = 0
           /\ \/ Load(c) \/ Unload(c) \/ Unwire(c) \/ Read(c) \/ Index(c) \/ Item(c) \/ Wire(c)
              \/ \E id \in JobId : LoadJob(id)
              \/ \E p \in Preset : Controller(p)
              \/ PortalUnwires
              \/ UNCHANGED <<obj, mc, portal, phase, asked, job, act>>
<1>1. faults = 0 /\ act[Loop] = Idle /\ Actor = {c, Loop}
  BY DEF Serial, Actor
<1>2. UNCHANGED part /\ Room'
  BY DEF MCNext, Within
<1>3. act'[Loop] = Idle /\ faults' = 0
  BY <1>2 DEF Room
<1>4. ~Restart /\ ~UnloadFails(c) /\ ~WireFails(c) /\ ~WireFails(Loop)
  BY <1>1, <1>3 DEF Restart, UnloadFails, WireFails, Faulty
<1>5. ~Index(Loop) /\ ~Item(Loop) /\ ~Wire(Loop)
  BY <1>1 DEF Index, Item, Wire, WireLook, WireWrite, At, Idle
<1>6. Reconcile => UNCHANGED <<obj, mc, portal, phase, asked, job, act>>
  <2> SUFFICES ASSUME Reconcile PROVE UNCHANGED <<obj, mc, portal, phase, asked, job, act>>
    OBVIOUS
  <2>1. act' = [act EXCEPT ![Loop] = act'[Loop]] /\ act \in [Actor -> ActorState]
    BY <1>1 DEF Reconcile, Lists, IndInv, TypeOK, Actor
  <2>2. act' = act
    BY <2>1, <1>1, <1>3
  <2> QED BY <2>2 DEF Reconcile, Lists, World, Table
<1>7. Load(c) \/ Unload(c) \/ Unwire(c) \/ Read(c) \/ Index(c) \/ Item(c) \/ Wire(c)
        \/ (\E id \in JobId : LoadJob(id)) \/ (\E p \in Preset : Controller(p))
        \/ PortalUnwires \/ Reconcile
  BY <1>1, <1>4, <1>5 DEF MCNext, Within
<1> QED BY <1>2, <1>3, <1>6, <1>7
(* Who is where, of a call that is all there is. *)
LEMMA Where ==
    ASSUME IndInv, NEW c \in Call
    PROVE  /\ act \in [Actor -> ActorState] /\ c \in Actor /\ c # Loop
           /\ act[c].todo \in SUBSET Preset
           /\ act[c].pc = "idle" => act[c].op = "none"
           /\ act[c].pc = "startjob" => act[c].op = "load"
           /\ act[c].pc \in {"delete", "check", "endjob", "await", "remove"} <=> act[c].op = "unload"
           /\ act[c].pc \in {"index", "item"} => act[c].op \in {"read", "reconcile"}
           /\ act[c].pc \in {"look", "write"} => act[c].op \in {"load", "read", "reconcile"}
           /\ act[c].pc \notin {"idle", "endjob", "await", "remove"} =>
                 act[c].todo # {} /\ First(act[c].todo) \in act[c].todo
<1>1. act \in [Actor -> ActorState] /\ c \in Actor /\ c # Loop /\ Fits(act[c]) /\ act[c] \in ActorState
  BY LoopAssumption DEF IndInv, TypeOK, HasWork, Actor
<1>2. act[c].todo \in SUBSET Preset
  BY <1>1 DEF ActorState
<1>3. act[c].todo # {} => First(act[c].todo) \in act[c].todo
  BY <1>2, FirstIsIn
<1> QED BY <1>1, <1>2, <1>3 DEF ActorState, Fits, Stages

(* A wiring that is over leaves its objects up. *)
LEMMA WiredInTurn ==
    ASSUME NEW c \in Call, IndInv, Serial(c), Wired(c), act[c].pc \in {"look", "write", "item"}
    PROVE  /\ act'[c].op # "unload" /\ act'[c].pc \notin {"check", "await", "remove"}
           /\ act'[c].todo \subseteq act[c].todo
<1> DEFINE q == act[c]
           rest == q.todo \ {First(q.todo)}
           to == IF q.op = "load" THEN [q EXCEPT !.pc = "startjob"]
                 ELSE IF rest = {} THEN Idle
                 ELSE [q EXCEPT !.pc = "item", !.todo = rest]
<1>1. act'[c] = to
  BY Where DEF Wired
<1>2. q \in ActorState /\ q.op # "unload"
  BY Where DEF IndInv, TypeOK
<1> QED BY <1>1, <1>2 DEF Idle, ActorState

LEMMA CallInTurn ==
    ASSUME NEW c, Call = {c}, IndInv, Serial(c), act'[Loop] = Idle, faults' = 0,
           Load(c) \/ Unload(c) \/ Unwire(c) \/ Read(c)
    PROVE  Serial(c)'
<1>0. c \in Call
  OBVIOUS
<1> USE Where, <1>0
<1>1. ASSUME NEW p \in Preset, LoadServe(c, p) PROVE Serial(c)'
  <2>1. mc' = mc /\ UNCHANGED Table
    BY <1>1 DEF LoadServe
  <2>2. CASE obj[p] = None
    <3>1. act'[c] = [Idle EXCEPT !.op = "load", !.pc = "look", !.todo = {p}]
      BY <1>1, <2>2 DEF LoadServe
    <3>2. act'[c].op = "load" /\ act'[c].pc = "look" /\ act'[c].todo = {p}
      BY <3>1 DEF Idle
    <3>3. Up(p)' /\ \A r \in Preset : Up(r) => Up(r)'
      BY <1>1, <2>2 DEF LoadServe, Up, IndInv, TypeOK
    <3>4. act[c].op = "none"
      BY <1>1 DEF LoadServe, Starts, At
    <3>5. mc \in Preset \cup {NoPreset} /\ \A id \in JobId : job[id].ref \in Preset
      BY DEF IndInv, TypeOK
    <3> QED BY <2>1, <3>2, <3>3, <3>4, <3>5 DEF Serial, At, Table, Jobs!Active
  <2>3. CASE obj[p] # None
    BY <1>1, <2>1, <2>3 DEF LoadServe, Serial, At, Table, Jobs!Active, Up
  <2> QED BY <2>2, <2>3
<1>2. CASE LoadStartJob(c)
  <2>1. UNCHANGED World /\ act'[c] = Idle /\ At(c, "startjob")
    BY <1>2 DEF LoadStartJob, Finish
  <2>2. act'[c].op = "none" /\ act'[c].pc = "idle" /\ act'[c].todo = {}
    BY <2>1 DEF Idle
  <2>3. act[c].op = "load" /\ Up(First(act[c].todo))
    BY <2>1 DEF At, Serial
  <2>4. CASE UNCHANGED Table
    BY <2>1, <2>2, <2>3, <2>4 DEF Serial, At, Table, World, Jobs!Active, Up
  <2>5. ASSUME NEW id \in JobId, Jobs!Start("load", id, {}),
               job' = [job EXCEPT ![id] = [ref |-> First(act[c].todo), pc |-> "waiting"]]
        PROVE  Serial(c)'
    <3>1. \A i \in JobId : ~Jobs!Active(i)
      BY <2>5 DEF Jobs!Start
    <3>2. \A i \in JobId : Jobs!Active(i)' => i = id
      BY <2>5, <3>1 DEF Jobs!Start, Jobs!Forgotten, Jobs!Active, IndInv, TypeOK
    <3>3. job'[id].ref = First(act[c].todo)
      BY <2>5 DEF IndInv, TypeOK
    <3> QED BY <2>1, <2>2, <2>3, <3>2, <3>3 DEF Serial, At, World, Up
  <2> QED BY <1>2, <2>4, <2>5 DEF LoadStartJob
<1>3. ASSUME NEW names \in {{p} : p \in Preset} \cup {Preset}, UnloadFind(c, names) PROVE Serial(c)'
  <2> DEFINE found == {p \in names : obj[p] # None}
  <2>1. UNCHANGED <<World, Table>> /\ act[c].op = "none"
    BY <1>3 DEF UnloadFind, Starts, At
  <2>2. CASE found = {}
    BY <1>3, <2>1, <2>2 DEF UnloadFind, Serial, At, Table, World, Jobs!Active, Up
  <2>3. CASE found # {}
    <3>1. act'[c] = [Idle EXCEPT !.op = "unload", !.pc = "delete", !.todo = found, !.gone = found]
      BY <1>3, <2>3 DEF UnloadFind
    <3>2. act'[c].op = "unload" /\ act'[c].pc = "delete"
      BY <3>1 DEF Idle
    <3> QED BY <2>1, <3>2 DEF Serial, At, Table, World, Jobs!Active
  <2> QED BY <2>2, <2>3
<1>4. CASE UnloadDelete(c)
  <2> DEFINE p == First(act[c].todo)
  <2>1. UNCHANGED Table /\ act'[c] = [act[c] EXCEPT !.pc = "check"] /\ act[c].op = "unload"
    BY <1>4 DEF UnloadDelete, Goto, At
  <2>2. act'[c].op = "unload" /\ act'[c].pc = "check" /\ act'[c].todo = act[c].todo
    BY <2>1 DEF IndInv, TypeOK, ActorState
  <2>3. p \in Preset /\ obj'[p].state # "up"
    <3>1. p \in Preset
      BY <1>4 DEF UnloadDelete, At
    <3>2. obj'[p].state = IF obj[p].state = "none" THEN obj[p].state ELSE "stopping"
      BY <1>4, <3>1 DEF UnloadDelete, IndInv, TypeOK, Object
    <3> QED BY <3>1, <3>2
  <2> QED BY <2>1, <2>2, <2>3 DEF Serial, At, Table, Jobs!Active, Up
<1>5. CASE UnloadCheck(c)
  <2> DEFINE q == act[c]
             p == First(q.todo)
             pc == IF q.todo = {p} THEN "endjob" ELSE "delete"
  <2>1. obj[p].state # "up" /\ q.op = "unload" /\ UNCHANGED <<World, Table>>
    BY <1>5 DEF Serial, Up, UnloadCheck, At
  <2>2. act'[c] = [q EXCEPT !.todo = @ \ {p}, !.pc = pc]
    BY <1>5, <2>1 DEF UnloadCheck
  <2>3. act'[c].op = "unload" /\ act'[c].pc \in {"endjob", "delete"}
    BY <2>1, <2>2 DEF IndInv, TypeOK, ActorState
  <2> QED BY <2>1, <2>3 DEF Serial, At, Table, World, Jobs!Active
<1>6. CASE UnloadEndJob(c)
  <2>1. act[c].op = "unload" /\ UNCHANGED <<World, job>>
    BY <1>6 DEF UnloadEndJob, At
  <2>2. ASSUME NEW id \in JobId, Jobs!Active(id), Jobs!Ask(id),
               act' = [act EXCEPT ![c].pc = "await", ![c].job = id]
        PROVE  Serial(c)'
    <3>1. act'[c].op = "unload" /\ act'[c].pc = "await" /\ act'[c].job = id /\ phase' = phase
      BY <2>1, <2>2 DEF IndInv, TypeOK, ActorState, Jobs!Ask
    <3> QED BY <2>1, <2>2, <3>1 DEF Serial, At, World, Jobs!Active
  <2>3. ASSUME \A id \in JobId : ~Jobs!Active(id), Goto(c, "remove"), UNCHANGED <<phase, asked>>
        PROVE  Serial(c)'
    <3>1. act'[c].op = "unload" /\ act'[c].pc = "remove"
      BY <2>1, <2>3 DEF IndInv, TypeOK, ActorState, Goto
    <3> QED BY <2>1, <2>3, <3>1 DEF Serial, At, World, Jobs!Active
  <2> QED BY <1>6, <2>2, <2>3 DEF UnloadEndJob
<1>7. CASE UnloadAwait(c)
  <2>1. act[c].op = "unload" /\ UNCHANGED <<World, Table>>
    BY <1>7 DEF UnloadAwait, At
  <2>2. act'[c].op = "unload" /\ act'[c].pc = "remove"
    BY <1>7, <2>1 DEF IndInv, TypeOK, ActorState, Goto, UnloadAwait
  <2>3. \A id \in JobId : ~Jobs!Active(id)
    BY <1>7 DEF Serial, UnloadAwait
  <2> QED BY <2>1, <2>2, <2>3 DEF Serial, At, World, Table, Jobs!Active
<1>8. CASE UnloadRemove(c)
  <2>1. act'[c].op = "none" /\ act'[c].pc = "idle" /\ act'[c].todo = {} /\ mc' = NoPreset /\ UNCHANGED <<obj, Table>>
    BY <1>8 DEF UnloadRemove, Finish, Idle
  <2>2. \A id \in JobId : ~Jobs!Active(id)
    BY <1>8 DEF Serial, UnloadRemove
  <2> QED BY <2>1, <2>2 DEF Serial, At, Table, Jobs!Active
<1>9. CASE Unwire(c)
  BY <1>9 DEF Unwire, Starts, Serial, At, Table, Jobs!Active, Up
<1>10. CASE Read(c)
  <2> DEFINE S == {p \in Preset : obj[p].state = "up"}
  <2>1. UNCHANGED <<World, Table>> /\ act[c].op = "none"
    BY <1>10 DEF Read, Lists, At
  <2>2. act'[c] = IF S = {} THEN Idle ELSE [Idle EXCEPT !.op = "read", !.pc = "index", !.todo = S]
    BY <1>10 DEF Read, Lists
  <2>3. act'[c].op \in {"none", "read"} /\ act'[c].pc \in {"idle", "index"} /\ act'[c].todo \subseteq S
    BY <2>2 DEF Idle
  <2> QED BY <2>1, <2>3 DEF Serial, At, World, Table, Jobs!Active, Up
<1> QED BY <1>1, <1>2, <1>3, <1>4, <1>5, <1>6, <1>7, <1>8, <1>9, <1>10 DEF Load, Unload
LEMMA WiringInTurn ==
    ASSUME NEW c, Call = {c}, IndInv, Serial(c), act'[Loop] = Idle, faults' = 0,
           Index(c) \/ Item(c) \/ Wire(c)
    PROVE  Serial(c)'
<1>0. c \in Call
  OBVIOUS
<1> USE Where, <1>0
<1>1. ASSUME Wired(c), act[c].pc \in {"look", "write", "item"}, UNCHANGED <<obj, Table>>,
             mc' = mc \/ mc' \in act[c].todo
      PROVE  Serial(c)'
  <2>1. /\ act'[c].op # "unload" /\ act'[c].pc \notin {"check", "await", "remove"} /\ act[c].op # "unload"
        /\ act'[c].todo \subseteq act[c].todo
    BY <1>1, WiredInTurn
  <2> QED BY <1>1, <2>1 DEF Serial, At, Table, Jobs!Active, Up
<1>2. ASSUME NEW pc \in {"look", "write"}, Goto(c, pc), act[c].op # "unload", UNCHANGED <<World, Table>>
      PROVE  Serial(c)'
  <2>1. act'[c].op = act[c].op /\ act'[c].pc = pc /\ act'[c].todo = act[c].todo
    BY <1>2 DEF Goto, IndInv, TypeOK, ActorState
  <2> QED BY <1>2, <2>1 DEF Serial, At, World, Table, Jobs!Active, Up
<1>3. CASE Index(c)
  <2> DEFINE q == act[c]
             unwired == IF mc # NoPreset THEN {} ELSE {p \in q.todo : ~Foreign(p)}
  <2>1. UNCHANGED <<World, Table>> /\ q.op # "unload" /\ unwired \subseteq q.todo
    BY <1>3 DEF Index, At
  <2>2. act'[c] = IF unwired = {} THEN Idle ELSE [q EXCEPT !.pc = "item", !.todo = unwired]
    BY <1>3 DEF Index
  <2> HIDE DEF unwired
  <2>3. /\ act'[c].op \in {"none", q.op} /\ act'[c].pc \in {"idle", "item"}
        /\ act'[c].todo \subseteq q.todo
    BY <2>1, <2>2 DEF Idle, IndInv, TypeOK, ActorState
  <2> QED BY <2>1, <2>3 DEF Serial, At, World, Table, Jobs!Active, Up
<1>4. CASE Item(c)
  BY <1>1, <1>2, <1>4 DEF Item, At, World
<1>5. CASE WireLook(c)
  BY <1>1, <1>2, <1>5 DEF WireLook, At, World
<1>6. CASE WireWrite(c)
  <2> QED BY <1>1, <1>6 DEF WireWrite, At
<1> QED BY <1>3, <1>4, <1>5, <1>6 DEF Wire
(* A job only ends, or wires the object it was started for. *)
LEMMA JobInTurn ==
    ASSUME NEW c, Call = {c}, IndInv, Serial(c), act'[Loop] = Idle, faults' = 0,
           NEW id \in JobId, LoadJob(id)
    PROVE  Serial(c)'
<1>1. UNCHANGED <<obj, portal, act>>
  BY DEF LoadJob, JobBegin, JobPoll, JobGivesUp, JobStops, JobCheck, JobLook, JobWrite, World
<1>2. \A i \in JobId : Jobs!Active(i)' => Jobs!Active(i)
  <2>1. \A i \in JobId \ {id} : phase'[i] = phase[i]
    BY DEF LoadJob, JobBegin, JobPoll, JobGivesUp, JobStops, JobCheck, JobLook, JobWrite, JobEnd,
           Jobs!Begin, Jobs!End, IndInv, TypeOK
  <2>2. Jobs!Active(id)
    BY DEF LoadJob, JobBegin, JobPoll, JobGivesUp, JobStops, JobCheck, JobLook, JobWrite, JobAt,
           Jobs!Begin, Jobs!Active
  <2> QED BY <2>1, <2>2 DEF Jobs!Active
<1>3. \A i \in JobId : job'[i].ref = job[i].ref
  <2>1. job' = job \/ \E pc \in {"waiting", "ready", "look", "write", "over"} : job' = [job EXCEPT ![id].pc = pc]
    BY DEF LoadJob, JobBegin, JobPoll, JobGivesUp, JobStops, JobCheck, JobLook, JobWrite, JobEnd, JobGoto
  <2> QED BY <2>1 DEF IndInv, TypeOK
<1>4. mc' = mc \/ (mc' = job[id].ref /\ Jobs!Active(id))
  BY DEF LoadJob, JobBegin, JobPoll, JobGivesUp, JobStops, JobCheck, JobLook, JobWrite, World, JobAt, Jobs!Active
<1> QED BY <1>1, <1>2, <1>3, <1>4 DEF Serial, At, Up

(* The controller takes away only what is stopping. *)
LEMMA ControllerInTurn ==
    ASSUME NEW c, Call = {c}, IndInv, Serial(c), act'[Loop] = Idle, faults' = 0,
           NEW p \in Preset, Controller(p)
    PROVE  Serial(c)'
<1>1. UNCHANGED <<mc, portal, Table, act>>
  BY DEF Controller, ControllerReady, ControllerNotReady, ControllerGone
<1>2. \A r \in Preset : Up(r)' <=> Up(r)
  BY DEF Controller, ControllerReady, ControllerNotReady, ControllerGone, Up, IndInv, TypeOK, Object, None
<1>3. /\ mc \in Preset \cup {NoPreset} /\ \A id \in JobId : job[id].ref \in Preset
      /\ At(c, "check") => First(act[c].todo) \in Preset
      /\ act[c].todo \subseteq Preset
  BY Where DEF IndInv, TypeOK, At
<1> QED BY <1>1, <1>2, <1>3 DEF Serial, At, Table, Jobs!Active

LEMMA TurnKept ==
    ASSUME NEW c, Call = {c}, IndInv, InTurn(c), [MCNext]_mcVars
    PROVE  InTurn(c)'
<1>1. CASE UNCHANGED mcVars
  BY <1>1 DEF mcVars, vars, InTurn, Serial, At, Up, Jobs!Active
<1>2. CASE MCNext /\ part = "serial"
  <2>1. Serial(c)
    BY <1>2 DEF InTurn
  <2>2. part' = part /\ act'[Loop] = Idle /\ faults' = 0
    BY <1>2, <2>1, Alone
  <2>3. UNCHANGED <<obj, mc, portal, phase, asked, job, act>> => Serial(c)'
    BY <2>1, <2>2 DEF Serial, At, Up, Jobs!Active
  <2>4. PortalUnwires => Serial(c)'
    BY <2>1, <2>2 DEF PortalUnwires, Table, Serial, At, Up, Jobs!Active
  <2>5. Serial(c)'
    BY <1>2, <2>1, <2>2, <2>3, <2>4, Alone, CallInTurn, WiringInTurn, JobInTurn, ControllerInTurn
  <2> QED BY <2>5 DEF InTurn
<1>3. CASE MCNext /\ part # "serial"
  BY <1>3 DEF MCNext, Within, InTurn
<1> QED BY <1>1, <1>2, <1>3

LEMMA TurnSteps == ASSUME [MCNext]_mcVars PROVE [Next]_vars
BY DEF MCNext, Within, mcVars, vars, Next, Actor

LEMMA TurnAtInit ==
    ASSUME NEW c, Call = {c}, MCInit
    PROVE  InTurn(c)
<1>1. act[c] = Idle /\ act[Loop] = Idle /\ faults = 0 /\ mc = NoPreset
      /\ \A id \in JobId : ~Jobs!Active(id)
  BY DEF MCInit, Init, Jobs!Active, Actor
<1> QED BY <1>1 DEF InTurn, Serial, At, Idle

(* The ModelConfig goes with the endpoint (Service.Unload): for calls that follow
   one another without a fault, whatever the presets, jobs and bounds, a
   ModelConfig that is left names an object that is up.  It rests on endLoadJob
   before Remove: an unload that removes has no load job left to wire behind it. *)
THEOREM NoDanglingHolds ==
    ASSUME NEW c, Call = {c}
    PROVE  MCSpec => []NoDanglingInTurn
<1>1. MCInit => IndInv /\ InTurn(c)
  BY TypesAtInit, TurnAtInit DEF MCInit
<1>2. (IndInv /\ InTurn(c)) /\ [MCNext]_mcVars => (IndInv /\ InTurn(c))'
  BY TypesKept, TurnKept, TurnSteps
<1>3. IndInv /\ InTurn(c) => NoDanglingInTurn
  <2> SUFFICES ASSUME IndInv, Serial(c), Quiet PROVE mc = NoPreset \/ Up(mc)
    BY DEF NoDanglingInTurn, NoDangling, InTurn, Up
  <2>1. act[c].op # "unload"
    BY DEF Quiet, Actor, Idle
  <2> QED BY <2>1 DEF Serial
<1> QED BY <1>1, <1>2, <1>3, PTL DEF MCSpec
=============================================================================
