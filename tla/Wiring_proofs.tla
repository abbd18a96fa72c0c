---------------------------- MODULE Wiring_proofs ----------------------------
(* Theorems about Wiring, for any instances, backends, models and names, any
   number of calls under way, and people, Flux, Agents and failing requests
   beside them; and about the calls of one instance that overlap and fail, and
   calls that follow one another (the parts of MCWiring). *)
EXTENDS MCWiring, FiniteSetTheorems, TLAPS

Pcs == {"find", "existing", "check", "refs", "delete", "dropsecret", "secret", "write"}

(* A call under way. *)
Request ==
    [pc: Pcs, op: {"ensure", "remove"}, inst: Instance, b: Backend, m: Model,
     ep: Endpoint, scope: Scope, name: Name, old: Config \cup {NoConfig},
     oldName: Name \cup {NoName}, legacy: BOOLEAN, existing: Config \cup {NoConfig}]

(* Where an Ensure has read what bears the name it plans to write. *)
Planned == {"check", "refs", "delete", "dropsecret", "secret", "write"}

(* A ModelConfig is no newer than the last resourceVersion given out. *)
Versioned == \A n \in Name : mc[n] # NoConfig => mc[n].rv <= rv

(* A resourceVersion names one content: what an Ensure has read is what bears
   the name, as long as that has the version it read. *)
ReadStands(q) ==
    q.existing # NoConfig =>
        /\ q.existing.managed
        /\ q.existing.creator \in {q.inst, NoInstance}
        /\ q.existing.rv <= rv
        /\ mc[q.name] # NoConfig /\ mc[q.name].rv = q.existing.rv => mc[q.name] = q.existing

PlansStand == \A c \in Call : call[c].pc \in Planned => ReadStands(call[c])

IndInv == TypeOK /\ Versioned /\ PlansStand

-----------------------------------------------------------------------------
(* What a step does to a call *)

LEMMA CallStates ==
    /\ CallState = {Idle} \cup Request
    /\ Idle.pc = "idle"
    /\ \A q \in Request : q.pc \in Pcs /\ q # Idle
    /\ \A q \in CallState : q.pc # "idle" => q \in Request
  BY DEF CallState, Request, Pcs, Idle

LEMMA RequestFields ==
    ASSUME NEW q \in Request
    PROVE  q.name \in Name /\ q.inst \in Instance /\ q.existing \in Config \cup {NoConfig}
  BY DEF Request

LEMMA GotoEffect ==
    ASSUME call \in [Call -> CallState], NEW c \in Call, call[c].pc # "idle",
           NEW pc \in Pcs, Goto(c, pc)
    PROVE  /\ call' \in [Call -> CallState]
           /\ call[c] \in Request /\ call'[c] \in Request /\ call'[c].pc = pc
           /\ call'[c].name = call[c].name /\ call'[c].inst = call[c].inst
           /\ call'[c].existing = call[c].existing
           /\ \A d \in Call : d # c => call'[d] = call[d]
<1>1. call[c] \in Request
  BY CallStates
<1>2. [call[c] EXCEPT !.pc = pc] \in Request
  BY <1>1 DEF Request
<1>3. call' = [call EXCEPT ![c] = [call[c] EXCEPT !.pc = pc]]
  BY DEF Goto
<1>4. call'[c] = [call[c] EXCEPT !.pc = pc] /\ \A d \in Call : d # c => call'[d] = call[d]
  BY <1>3
<1>5. call' \in [Call -> CallState]
  BY <1>2, <1>3, CallStates
<1>6. QED
  BY <1>1, <1>2, <1>4, <1>5 DEF Request

LEMMA FinishEffect ==
    ASSUME call \in [Call -> CallState], NEW c \in Call, Finish(c)
    PROVE  /\ call' \in [Call -> CallState]
           /\ call'[c] = Idle
           /\ \A d \in Call : d # c => call'[d] = call[d]
  BY CallStates DEF Finish

LEMMA SetEffect ==
    ASSUME call \in [Call -> CallState], NEW c \in Call, NEW q \in Request,
           call' = [call EXCEPT ![c] = q]
    PROVE  /\ call' \in [Call -> CallState]
           /\ call'[c] = q
           /\ \A d \in Call : d # c => call'[d] = call[d]
  BY CallStates

(* What find returns. *)
LEMMA FindTypes ==
    ASSUME TypeOK, NEW b \in Backend, NEW m \in Model, NEW f \in Find(b, m)
    PROVE  /\ f[1] \in Name /\ f[2] \in BOOLEAN
           /\ mc[f[1]] \in Config \cup {NoConfig} /\ Legacy[f[1]] \in Config \cup {NoConfig}
<1>1. \A objs, bb, mm : Match(objs, bb, mm) \subseteq Name
  BY DEF Match
<1>2. f \in Name \X BOOLEAN
  BY <1>1 DEF Find
<1>3. QED
  BY <1>2, LegacyAssumption DEF TypeOK

-----------------------------------------------------------------------------
(* A call moves on in one of these ways *)

Unplanned(q) == q.pc \notin Planned

KeepsPlan(p, q) ==
    p.pc \in Planned /\ q.name = p.name /\ q.inst = p.inst /\ q.existing = p.existing

JustRead(q) ==
    q.existing = mc[q.name] /\ (mc[q.name] # NoConfig =>
        mc[q.name].managed /\ mc[q.name].creator \in {q.inst, NoInstance})

Advances(c) ==
    \/ call'[c] = call[c]
    \/ Unplanned(call'[c])
    \/ KeepsPlan(call[c], call'[c])
    \/ call'[c].existing = NoConfig
    \/ JustRead(call'[c]) /\ UNCHANGED <<mc, rv>>

(* ... and the API server gives every write a new resourceVersion. *)
Written(n) == mc'[n] \in Config /\ mc'[n].rv = rv + 1 /\ rv' = rv + 1

Stored ==
    /\ rv' \in {rv, rv + 1}
    /\ \A n \in Name : mc'[n] = mc[n] \/ mc'[n] = NoConfig \/ Written(n)

Sound == TypeOK' /\ Stored /\ \A c \in Call : Advances(c)

LEMMA SoundPreserves ==
    ASSUME IndInv, Sound
    PROVE  IndInv'
<1> USE DEF IndInv, Sound
<1>1. rv \in Nat /\ rv' \in Nat /\ rv <= rv'
  BY DEF TypeOK, Stored
<1>2. \A n \in Name : mc[n] \in Config \cup {NoConfig}
  BY DEF TypeOK
<1>3. Versioned'
  <2> SUFFICES ASSUME NEW n \in Name, mc'[n] # NoConfig PROVE mc'[n].rv <= rv'
    BY DEF Versioned
  <2>1. CASE mc'[n] = mc[n]
    <3>1. mc[n] \in Config /\ mc[n].rv <= rv
      BY <1>2, <2>1 DEF Versioned
    <3>2. mc[n].rv \in Nat
      BY <3>1 DEF Config
    <3> QED BY <1>1, <2>1, <3>1, <3>2
  <2>2. CASE Written(n)
    BY <1>1, <2>2 DEF Written
  <2> QED BY <2>1, <2>2 DEF Stored
<1>4. ASSUME NEW c \in Call, call'[c].pc \in Planned
      PROVE  ReadStands(call[c])'
  <2>1. call'[c] \in Request
    BY <1>4, CallStates DEF TypeOK, Planned
  <2>2. call'[c].name \in Name /\ call'[c].existing \in Config \cup {NoConfig}
    BY <2>1, RequestFields
  <2>3. CASE call'[c].existing = NoConfig
    BY <2>3 DEF ReadStands
  <2>4. ASSUME ReadStands(call[c]), KeepsPlan(call[c], call'[c]), call'[c].existing # NoConfig
        PROVE  ReadStands(call[c])'
    <3> DEFINE n == call'[c].name
               e == call'[c].existing
    <3>1. /\ e.managed /\ e.creator \in {call'[c].inst, NoInstance} /\ e.rv <= rv
          /\ mc[n] # NoConfig /\ mc[n].rv = e.rv => mc[n] = e
      BY <2>4 DEF ReadStands, KeepsPlan
    <3>2. e \in Config /\ e.rv \in Nat
      BY <2>2, <2>4 DEF Config
    <3>3. mc'[n] = mc[n] \/ mc'[n] = NoConfig \/ (mc'[n].rv = rv + 1)
      BY <2>2 DEF Stored, Written
    <3>4. mc'[n] # NoConfig /\ mc'[n].rv = e.rv => mc'[n] = e
      BY <3>1, <3>2, <3>3, <1>1
    <3>5. QED
      BY <3>1, <3>2, <3>4, <1>1 DEF ReadStands
  <2>5. CASE JustRead(call'[c]) /\ UNCHANGED <<mc, rv>>
    BY <2>2, <2>5, <1>2 DEF JustRead, ReadStands, Versioned
  <2>6. CASE KeepsPlan(call[c], call'[c])
    BY <2>3, <2>4, <2>6 DEF PlansStand, KeepsPlan
  <2>7. CASE call'[c] = call[c]
    BY <1>4, <2>3, <2>4, <2>7 DEF PlansStand, KeepsPlan
  <2>8. QED
    BY <1>4, <2>3, <2>5, <2>6, <2>7 DEF Advances, Unplanned
<1>5. QED
  BY <1>3, <1>4 DEF PlansStand

-----------------------------------------------------------------------------
(* Every step is sound *)

LEMMA InitInv == Init => IndInv
<1> SUFFICES ASSUME Init PROVE IndInv
  OBVIOUS
<1>1. mc \in [Name -> Config \cup {NoConfig}] /\ \A n \in Name : mc[n] # NoConfig => mc[n].rv = 0
  BY SeedsAssumption DEF Init
<1>2. TypeOK
  BY <1>1, CallStates DEF Init, TypeOK
<1>3. Versioned
  BY <1>1 DEF Init, Versioned
<1>4. PlansStand
  BY CallStates DEF Init, PlansStand, Planned
<1>5. QED
  BY <1>2, <1>3, <1>4 DEF IndInv

(* Where nothing is written and one call moves on, that call decides. *)
LEMMA OneMoves ==
    ASSUME TypeOK, NEW c \in Call, UNCHANGED <<mc, rv>>,
           secret' \in [Name -> {"none", "ours"}], UNCHANGED <<listed, refs>>,
           call' \in [Call -> CallState], \A d \in Call : d # c => call'[d] = call[d],
           Advances(c)
    PROVE  Sound
<1>1. TypeOK'
  BY DEF TypeOK
<1>2. Stored
  BY DEF Stored, TypeOK
<1>3. \A d \in Call : Advances(d)
  BY DEF Advances
<1>4. QED
  BY <1>1, <1>2, <1>3 DEF Sound

LEMMA FinishSound ==
    ASSUME TypeOK, NEW c \in Call, Finish(c), UNCHANGED Store
    PROVE  Sound
<1>1. Unplanned(call'[c])
  BY FinishEffect, CallStates DEF TypeOK, Unplanned, Planned
<1>2. QED
  BY <1>1, FinishEffect, OneMoves DEF TypeOK, Store, Advances

(* A call that has planned keeps its plan, one that has yet to plan stays so. *)
LEMMA GotoSound ==
    ASSUME TypeOK, NEW c \in Call, call[c].pc # "idle", NEW pc \in Pcs, Goto(c, pc),
           pc \in Planned => call[c].pc \in Planned \/ call[c].existing = NoConfig,
           secret' \in [Name -> {"none", "ours"}], UNCHANGED <<mc, rv, listed, refs>>
    PROVE  Sound
<1>1. /\ call' \in [Call -> CallState]
      /\ call'[c].pc = pc /\ call'[c].name = call[c].name /\ call'[c].inst = call[c].inst
      /\ call'[c].existing = call[c].existing
      /\ \A d \in Call : d # c => call'[d] = call[d]
  BY GotoEffect DEF TypeOK
<1>2. Advances(c)
  BY <1>1 DEF Advances, Unplanned, KeepsPlan
<1>3. QED
  BY <1>1, <1>2, OneMoves

LEMMA StartSound ==
    ASSUME TypeOK, NEW c \in Call, NEW i \in Instance, NEW b \in Backend, NEW m \in Model,
           NEW ep \in Endpoint, EnsureStart(c, i, b, m, ep)
    PROVE  Sound
<1> DEFINE base == IF ep.name = NoName THEN Derived[m] ELSE ep.name
           taken == mc[base] # NoConfig /\ OwnedByOtherBackend(mc[base], b)
           q == [pc |-> "find", op |-> "ensure", inst |-> i, b |-> b, m |-> m, ep |-> ep,
                 scope |-> "CreatedHere", name |-> IF taken THEN Suffix[base, b] ELSE base,
                 old |-> NoConfig, oldName |-> NoName, legacy |-> FALSE, existing |-> NoConfig]
<1>1. base \in Name
  <2>1. ep.name \in Served \cup {NoName}
    BY DEF Endpoint
  <2>2. Served \subseteq Name /\ Derived[m] \in Name
    BY NamesAssumption
  <2> QED BY <2>1, <2>2
<1>2. Suffix[base, b] \in Name
  <2>1. Suffix \in [Name \X Backend -> Name]
    BY NamesAssumption
  <2>2. <<base, b>> \in Name \X Backend
    BY <1>1
  <2> HIDE DEF base
  <2> QED BY <2>1, <2>2
<1>3. q \in Request
  BY <1>1, <1>2 DEF Request, Pcs, Scope
<1>4. call' = [call EXCEPT ![c] = q]
  BY DEF EnsureStart
<1>5. /\ call' \in [Call -> CallState]
      /\ call'[c] = q
      /\ \A d \in Call : d # c => call'[d] = call[d]
  BY <1>3, <1>4, SetEffect DEF TypeOK
<1>9. q.pc = "find"
  OBVIOUS
<1>6. Unplanned(call'[c])
  BY <1>5, <1>9 DEF Unplanned, Planned
<1>7. UNCHANGED <<mc, secret, listed, refs, rv>>
  BY DEF EnsureStart, Store
<1>8. QED
  BY <1>5, <1>6, <1>7, OneMoves DEF TypeOK, Advances

LEMMA EnsureFindSound ==
    ASSUME TypeOK, NEW c \in Call, EnsureFind(c)
    PROVE  Sound
<1> DEFINE q == call[c]
           Replaces(n) == q.ep.name # NoName /\ n # q.name /\ CreatedHere(mc[n], q.inst)
           Found(n, legacy) ==
               [q EXCEPT !.pc = "existing",
                         !.old = IF legacy THEN Legacy[n] ELSE mc[n],
                         !.legacy = legacy,
                         !.oldName = IF ~legacy /\ Replaces(n) THEN n ELSE NoName,
                         !.name = IF ~legacy /\ Replaces(n) THEN q.name ELSE n]
<1>1. q \in Request /\ UNCHANGED <<mc, secret, listed, refs, rv>>
  BY CallStates DEF EnsureFind, At, TypeOK, Store
<1>2. CASE Goto(c, "existing")
  BY <1>1, <1>2, GotoSound, CallStates DEF TypeOK, EnsureFind, At, Pcs, Planned
<1>3. ASSUME NEW f \in Find(q.b, q.m), call' = [call EXCEPT ![c] = Found(f[1], f[2])]
      PROVE  Sound
  <2>1. /\ f[1] \in Name /\ f[2] \in BOOLEAN
        /\ mc[f[1]] \in Config \cup {NoConfig} /\ Legacy[f[1]] \in Config \cup {NoConfig}
    BY <1>1, FindTypes DEF Request
  <2>2. Found(f[1], f[2]) \in Request
    BY <1>1, <2>1, ZenonT(40) DEF Request, Pcs
  <2>3. /\ call' \in [Call -> CallState]
        /\ call'[c] = Found(f[1], f[2])
        /\ \A d \in Call : d # c => call'[d] = call[d]
    BY <1>3, <2>2, SetEffect DEF TypeOK
  <2>4. call'[c].pc = "existing"
    BY <1>1, <2>3 DEF Request
  <2>5. Unplanned(call'[c])
    BY <2>4 DEF Unplanned, Planned
  <2>6. QED
    BY <1>1, <2>3, <2>5, OneMoves DEF TypeOK, Advances
<1>4. QED
  BY <1>2, <1>3 DEF EnsureFind

LEMMA EnsureExistingSound ==
    ASSUME TypeOK, NEW c \in Call, EnsureExisting(c)
    PROVE  Sound
<1> DEFINE q == call[c]
           obj == mc[q.name]
           read == [q EXCEPT !.pc = "check", !.existing = obj]
<1>1. q \in Request /\ UNCHANGED <<mc, secret, listed, refs, rv>>
  BY CallStates DEF EnsureExisting, At, TypeOK, Store
<1>2. obj \in Config \cup {NoConfig}
  BY <1>1 DEF Request, TypeOK
<1>3. CASE Finish(c)
  BY <1>1, <1>3, FinishSound DEF Store
<1>4. ASSUME obj = NoConfig \/ (obj.managed /\ obj.creator \in {q.inst, NoInstance}),
             call' = [call EXCEPT ![c] = read]
      PROVE  Sound
  <2>1. read \in Request
    BY <1>1, <1>2 DEF Request, Pcs
  <2>2. /\ call' \in [Call -> CallState]
        /\ call'[c] = read
        /\ \A d \in Call : d # c => call'[d] = call[d]
    BY <1>4, <2>1, SetEffect DEF TypeOK
  <2>3. read.existing = obj /\ read.name = q.name /\ read.inst = q.inst
    BY <1>1 DEF Request
  <2>4. JustRead(call'[c])
    BY <1>4, <2>2, <2>3 DEF JustRead
  <2>5. QED
    BY <1>1, <2>2, <2>4, OneMoves DEF TypeOK, Advances
<1>5. \/ Finish(c)
      \/ /\ obj = NoConfig \/ (obj.managed /\ obj.creator \in {q.inst, NoInstance})
         /\ call' = [call EXCEPT ![c] = read]
  BY DEF EnsureExisting
<1>6. QED
  BY <1>3, <1>4, <1>5

LEMMA EnsureCheckSound ==
    ASSUME TypeOK, NEW c \in Call, EnsureCheck(c)
    PROVE  Sound
<1>1. call[c].pc = "check" /\ UNCHANGED <<mc, secret, listed, refs, rv>> /\ UNCHANGED Store
  BY DEF EnsureCheck, At, Store
<1>2. Finish(c) \/ Goto(c, "delete") \/ Goto(c, "secret")
  BY DEF EnsureCheck
<1>3. CASE Finish(c)
  BY <1>1, <1>3, FinishSound
<1>4. CASE Goto(c, "delete")
  BY <1>1, <1>4, GotoSound DEF TypeOK, Pcs, Planned
<1>5. CASE Goto(c, "secret")
  BY <1>1, <1>5, GotoSound DEF TypeOK, Pcs, Planned
<1>6. QED
  BY <1>2, <1>3, <1>4, <1>5

LEMMA DeleteSound ==
    ASSUME TypeOK, NEW c \in Call, DeleteConfig(c)
    PROVE  Sound
<1>1. /\ call[c].pc = "delete" /\ Goto(c, "dropsecret")
      /\ mc' = [mc EXCEPT ![call[c].oldName] = NoConfig]
      /\ UNCHANGED <<secret, listed, refs, rv>>
  BY DEF DeleteConfig, At
<1>2. /\ call' \in [Call -> CallState]
      /\ call'[c].name = call[c].name /\ call'[c].inst = call[c].inst
      /\ call'[c].existing = call[c].existing
      /\ \A d \in Call : d # c => call'[d] = call[d]
  BY <1>1, GotoEffect DEF TypeOK, Pcs
<1>3. /\ mc' \in [Name -> Config \cup {NoConfig}]
      /\ \A n \in Name : mc'[n] = mc[n] \/ mc'[n] = NoConfig
  BY <1>1 DEF TypeOK
<1>4. TypeOK'
  BY <1>1, <1>2, <1>3 DEF TypeOK
<1>5. Stored
  BY <1>1, <1>3 DEF Stored, TypeOK
<1>6. \A d \in Call : Advances(d)
  BY <1>1, <1>2 DEF Advances, KeepsPlan, Planned
<1>7. QED
  BY <1>4, <1>5, <1>6 DEF Sound

LEMMA SecretTypes ==
    ASSUME TypeOK
    PROVE  \A n : SecretDropped(n) \in [Name -> {"none", "ours"}]
  BY DEF TypeOK, SecretDropped

LEMMA DropSecretSound ==
    ASSUME TypeOK, NEW c \in Call, DropSecret(c)
    PROVE  Sound
<1>1. /\ call[c].pc = "dropsecret" /\ UNCHANGED <<mc, listed, refs, rv>>
      /\ secret' \in [Name -> {"none", "ours"}]
  BY SecretTypes DEF DropSecret, At
<1>2. Finish(c) \/ Goto(c, "secret")
  BY DEF DropSecret
<1>3. CASE Finish(c)
  <2>1. Unplanned(call'[c])
    BY <1>3, FinishEffect, CallStates DEF TypeOK, Unplanned, Planned
  <2>2. QED
    BY <1>1, <1>3, <2>1, FinishEffect, OneMoves DEF TypeOK, Advances
<1>4. CASE Goto(c, "secret")
  BY <1>1, <1>4, GotoSound DEF Pcs, Planned
<1>5. QED
  BY <1>2, <1>3, <1>4

LEMMA EnsureSecretSound ==
    ASSUME TypeOK, NEW c \in Call, EnsureSecret(c)
    PROVE  Sound
<1>1. call[c].pc = "secret" /\ Goto(c, "write") /\ UNCHANGED <<mc, listed, refs, rv>>
  BY DEF EnsureSecret, At
<1>2. [secret EXCEPT ![call[c].name] = IF @ = "none" THEN "ours" ELSE @] \in [Name -> {"none", "ours"}]
  BY DEF TypeOK
<1>3. secret' \in [Name -> {"none", "ours"}]
  BY <1>2, SecretTypes DEF EnsureSecret, TypeOK
<1>4. QED
  BY <1>1, <1>3, GotoSound DEF Pcs, Planned

(* An accepted write gives its name the next resourceVersion. *)
LEMMA DesiredTypes ==
    ASSUME TypeOK, NEW q \in Request
    PROVE  Desired(q) \in Config /\ Desired(q).rv = rv + 1
           /\ Desired(q).creator = IF q.existing = NoConfig THEN q.inst ELSE q.existing.creator
<1>1. q.existing # NoConfig => q.existing \in Config
  BY DEF Request
<1>2. /\ q.inst \in Instance /\ q.b \in Backend /\ q.m \in Model /\ q.ep.key \in BOOLEAN
  BY DEF Request, Endpoint
<1>3. rv + 1 \in Nat
  BY DEF TypeOK
<1>4. QED
  BY <1>1, <1>2, <1>3 DEF Desired, Config

LEMMA EnsureWriteSound ==
    ASSUME TypeOK, NEW c \in Call, EnsureWrite(c)
    PROVE  Sound
<1> DEFINE q == call[c]
<1>1. q \in Request /\ Finish(c) /\ UNCHANGED <<secret, listed, refs>>
  BY CallStates DEF EnsureWrite, At, TypeOK
<1>2. /\ call' \in [Call -> CallState]
      /\ Unplanned(call'[c])
      /\ \A d \in Call : d # c => call'[d] = call[d]
  BY <1>1, FinishEffect, CallStates DEF TypeOK, Unplanned, Planned
<1>3. \A d \in Call : Advances(d)
  BY <1>2 DEF Advances
<1>4. CASE mc' = [mc EXCEPT ![q.name] = Desired(q)] /\ rv' = rv + 1
  <2>1. Desired(q) \in Config /\ Desired(q).rv = rv + 1
    BY <1>1, DesiredTypes
  <2>2. \A n \in Name : mc'[n] = IF n = q.name THEN Desired(q) ELSE mc[n]
    BY <1>4 DEF TypeOK
  <2>3. mc' \in [Name -> Config \cup {NoConfig}]
    BY <1>4, <2>1 DEF TypeOK
  <2>4. TypeOK'
    BY <1>1, <1>2, <1>4, <2>3 DEF TypeOK
  <2>5. Stored
    BY <1>4, <2>1, <2>2 DEF Stored, Written
  <2>6. QED
    BY <1>3, <2>4, <2>5 DEF Sound
<1>5. CASE UNCHANGED <<mc, rv>>
  BY <1>1, <1>2, <1>5, OneMoves DEF TypeOK, Advances
<1>6. QED
  BY <1>4, <1>5 DEF EnsureWrite

LEMMA RemoveFindSound ==
    ASSUME TypeOK, NEW c \in Call, NEW i \in Instance, NEW b \in Backend, NEW m \in Model,
           NEW s \in Scope, RemoveFind(c, i, b, m, s)
    PROVE  Sound
<1> DEFINE ask(f) ==
             [pc |-> "check", op |-> "remove", inst |-> i, b |-> b, m |-> m,
              ep |-> [name |-> NoName, key |-> FALSE], scope |-> s, name |-> f[1],
              old |-> IF f[2] THEN Legacy[f[1]] ELSE mc[f[1]], oldName |-> f[1],
              legacy |-> f[2], existing |-> NoConfig]
<1>1. UNCHANGED <<mc, secret, listed, refs, rv>>
  BY DEF RemoveFind, Store
<1>2. CASE UNCHANGED call
  BY <1>1, <1>2, OneMoves DEF TypeOK, Advances
<1>3. ASSUME NEW f \in Find(b, m), call' = [call EXCEPT ![c] = ask(f)]
      PROVE  Sound
  <2>1. /\ f[1] \in Name /\ f[2] \in BOOLEAN
        /\ mc[f[1]] \in Config \cup {NoConfig} /\ Legacy[f[1]] \in Config \cup {NoConfig}
    BY FindTypes
  <2>2. ask(f) \in Request /\ ask(f).existing = NoConfig
    BY <2>1 DEF Request, Pcs, Endpoint
  <2>3. /\ call' \in [Call -> CallState]
        /\ call'[c] = ask(f)
        /\ \A d \in Call : d # c => call'[d] = call[d]
    BY <1>3, <2>2, SetEffect DEF TypeOK
  <2>4. Advances(c)
    BY <2>2, <2>3 DEF Advances
  <2>5. QED
    BY <1>1, <2>3, <2>4, OneMoves DEF TypeOK
<1>4. QED
  BY <1>2, <1>3 DEF RemoveFind

LEMMA RemoveCheckSound ==
    ASSUME TypeOK, NEW c \in Call, RemoveCheck(c)
    PROVE  Sound
<1>1. call[c].pc = "check" /\ UNCHANGED <<mc, secret, listed, refs, rv>> /\ UNCHANGED Store
  BY DEF RemoveCheck, At, Store
<1>2. Finish(c) \/ Goto(c, "delete") \/ Goto(c, "refs")
  BY DEF RemoveCheck
<1>3. CASE Finish(c)
  BY <1>1, <1>3, FinishSound
<1>4. CASE Goto(c, "delete")
  BY <1>1, <1>4, GotoSound DEF TypeOK, Pcs, Planned
<1>5. CASE Goto(c, "refs")
  BY <1>1, <1>5, GotoSound DEF TypeOK, Pcs, Planned
<1>6. QED
  BY <1>2, <1>3, <1>4, <1>5

LEMMA RemoveRefsSound ==
    ASSUME TypeOK, NEW c \in Call, RemoveRefs(c)
    PROVE  Sound
<1>1. call[c].pc = "refs" /\ UNCHANGED <<mc, secret, listed, refs, rv>> /\ UNCHANGED Store
  BY DEF RemoveRefs, At, Store
<1>2. CASE Finish(c)
  BY <1>1, <1>2, FinishSound
<1>3. CASE Goto(c, "delete")
  BY <1>1, <1>3, GotoSound DEF TypeOK, Pcs, Planned
<1>4. QED
  BY <1>2, <1>3 DEF RemoveRefs

(* People, Flux and Agents move no call; what they write is a new version. *)
LEMMA OthersSound ==
    ASSUME TypeOK, Others
    PROVE  Sound
<1>1. UNCHANGED call
  BY DEF Others, PeopleCreate, PeopleDelete, FluxApply, FluxLeave, AgentRefers
<1>2. \A c \in Call : Advances(c)
  BY <1>1 DEF Advances
<1>3. ASSUME NEW n \in Name, NEW m \in Model, PeopleCreate(n, m)
      PROVE  TypeOK' /\ Stored
  <2> DEFINE o == [managed |-> FALSE, creator |-> NoInstance, backend |-> NoBackend,
                   model |-> m, flux |-> FALSE, key |-> FALSE, rv |-> rv + 1]
  <2>1. o \in Config /\ o.rv = rv + 1
    BY DEF TypeOK, Config
  <2>2. mc' = [mc EXCEPT ![n] = o] /\ rv' = rv + 1 /\ UNCHANGED <<secret, listed, refs>>
    BY <1>3 DEF PeopleCreate
  <2>3. mc' \in [Name -> Config \cup {NoConfig}] /\ rv' \in Nat
    BY <2>1, <2>2 DEF TypeOK
  <2>4. \A k \in Name : mc'[k] = IF k = n THEN o ELSE mc[k]
    BY <2>2 DEF TypeOK
  <2>5. QED
    BY <1>1, <2>1, <2>2, <2>3, <2>4 DEF TypeOK, Stored, Written
<1>4. ASSUME NEW n \in Name, FluxApply(n)
      PROVE  TypeOK' /\ Stored
  <2> DEFINE o == [mc[n] EXCEPT !.flux = TRUE, !.rv = rv + 1]
  <2>1. mc[n] \in Config
    BY <1>4 DEF FluxApply, TypeOK
  <2>2. o \in Config /\ o.rv = rv + 1
    <3>1. rv + 1 \in Nat
      BY DEF TypeOK
    <3>2. QED
      BY <2>1, <3>1 DEF Config
  <2>3. mc' = [mc EXCEPT ![n] = o] /\ rv' = rv + 1 /\ listed' = listed \cup {n} /\ UNCHANGED <<secret, refs>>
    <3>1. mc' = [mc EXCEPT ![n] = [mc[n] EXCEPT !.flux = TRUE, !.rv = rv + 1]]
      BY <1>4, Zenon DEF FluxApply
    <3>2. QED
      BY <1>4, <3>1 DEF FluxApply
  <2>4. mc' \in [Name -> Config \cup {NoConfig}] /\ rv' \in Nat /\ listed' \subseteq Name
    BY <2>2, <2>3 DEF TypeOK
  <2>5. \A k \in Name : mc'[k] = IF k = n THEN o ELSE mc[k]
    BY <2>3 DEF TypeOK
  <2>6. QED
    BY <1>1, <2>2, <2>3, <2>4, <2>5 DEF TypeOK, Stored, Written
<1>5. ASSUME NEW n \in Name, PeopleDelete(n) \/ FluxLeave(n) \/ AgentRefers(n)
      PROVE  TypeOK' /\ Stored
  BY <1>1, <1>5 DEF PeopleDelete, FluxLeave, AgentRefers, TypeOK, Stored
<1>6. QED
  BY <1>2, <1>3, <1>4, <1>5 DEF Others, Sound

-----------------------------------------------------------------------------
LEMMA StepSound ==
    ASSUME TypeOK, [Next]_vars
    PROVE  Sound
<1>1. CASE UNCHANGED vars
  BY <1>1 DEF vars, Sound, TypeOK, Stored, Advances
<1>2. CASE Others
  BY <1>2, OthersSound
<1>3. ASSUME NEW c \in Call, Ensure(c)
      PROVE  Sound
  BY <1>3, StartSound, EnsureFindSound, EnsureExistingSound, EnsureCheckSound,
     EnsureSecretSound, EnsureWriteSound DEF Ensure
<1>4. ASSUME NEW c \in Call, Remove(c)
      PROVE  Sound
  BY <1>4, RemoveFindSound, RemoveCheckSound, RemoveRefsSound DEF Remove
<1>5. ASSUME NEW c \in Call, RemoveObj(c)
      PROVE  Sound
  BY <1>5, DeleteSound, DropSecretSound DEF RemoveObj
<1>6. ASSUME NEW c \in Call, Fail(c)
      PROVE  Sound
  BY <1>6, FinishSound DEF Fail
<1>7. QED
  BY <1>1, <1>2, <1>3, <1>4, <1>5, <1>6 DEF Next

(* A resourceVersion names one content: as long as what bears the name has the
   version an Ensure read, it is what the Ensure read, and its own to write. *)
THEOREM PlansHold == Spec => []IndInv
<1>1. IndInv /\ [Next]_vars => IndInv'
  BY StepSound, SoundPreserves DEF IndInv
<1>2. QED
  BY InitInv, <1>1, PTL DEF Spec

(* Types. *)
THEOREM TypeCorrect == Spec => []TypeOK
  BY PlansHold, PTL DEF IndInv

(* Only an accepted write of an Ensure puts one content in the place of
   another in the name of a call. *)
LEMMA RewrittenByWrite ==
    ASSUME IndInv, [Next]_vars, NEW c \in Call, NEW n \in Name, By(c), Rewritten(n)
    PROVE  /\ EnsureWrite(c) /\ Accepted(call[c]) /\ n = call[c].name
           /\ mc' = [mc EXCEPT ![n] = Desired(call[c])]
<1>1. mc \in [Name -> Config \cup {NoConfig}] /\ call \in [Call -> CallState]
  BY DEF IndInv, TypeOK
<1>2. PICK d \in Call : Ensure(d) \/ Remove(d) \/ RemoveObj(d) \/ Fail(d)
  BY DEF Next, vars, By, Others, PeopleCreate, PeopleDelete, FluxApply, FluxLeave, AgentRefers
<1>3. ~DeleteConfig(d)
  BY <1>1 DEF DeleteConfig, Rewritten
<1>4. EnsureWrite(d)
  BY <1>2, <1>3 DEF Ensure, EnsureStart, EnsureFind, EnsureExisting, EnsureCheck, EnsureSecret,
     Remove, RemoveFind, RemoveCheck, RemoveRefs, RemoveObj, DropSecret, Fail, Store, Rewritten
<1>5. d = c
  BY <1>1, <1>4 DEF EnsureWrite, Finish, By
<1>6. Accepted(call[c]) /\ mc' = [mc EXCEPT ![call[c].name] = Desired(call[c])]
  BY <1>4, <1>5 DEF EnsureWrite, Rewritten
<1>7. n = call[c].name
  BY <1>1, <1>6 DEF Rewritten
<1>8. QED
  BY <1>4, <1>5, <1>6, <1>7

(* Whatever is deleted, re-created, applied or adopted between the reads of an
   Ensure and its Update, by however many instances and calls, the Update
   lands on a managed ModelConfig its instance created or nobody claims, and
   leaves its creator as it is. *)
THEOREM UpdatesOnlyOwn == Spec => WritesOnlyOwn
<1>1. ASSUME IndInv, [Next]_vars, NEW c \in Call, NEW n \in Name, By(c), Rewritten(n)
      PROVE  /\ mc[n].managed
             /\ mc[n].creator \in {call[c].inst, NoInstance}
             /\ mc'[n].creator = mc[n].creator
  <2> DEFINE q == call[c]
  <2>1. /\ EnsureWrite(c) /\ Accepted(q) /\ n = q.name
        /\ mc' = [mc EXCEPT ![n] = Desired(q)]
    BY <1>1, RewrittenByWrite
  <2>2. q \in Request /\ q.pc = "write"
    BY <1>1, <2>1, CallStates DEF EnsureWrite, At, IndInv, TypeOK
  <2>3. ReadStands(q)
    BY <1>1, <2>2 DEF IndInv, PlansStand, Planned
  <2>4. mc[n] # NoConfig
    BY <1>1 DEF Rewritten
  <2>5. q.existing # NoConfig /\ mc[n] = q.existing
    BY <2>1, <2>3, <2>4 DEF Accepted, ReadStands
  <2>6. mc'[n] = Desired(q)
    BY <1>1, <2>1 DEF IndInv, TypeOK
  <2>7. Desired(q).creator = q.existing.creator
    BY <1>1, <2>2, <2>5, DesiredTypes DEF IndInv
  <2>8. QED
    BY <2>3, <2>5, <2>6, <2>7 DEF ReadStands
<1>2. IndInv /\ [Next]_vars =>
        [\A c \in Call, n \in Name : By(c) /\ Rewritten(n) =>
          /\ mc[n].managed
          /\ mc[n].creator \in {call[c].inst, NoInstance}
          /\ mc'[n].creator = mc[n].creator]_vars
  BY <1>1
<1>3. QED
  BY PlansHold, <1>2, PTL DEF Spec, WritesOnlyOwn
-----------------------------------------------------------------------------
(* The calls of one instance *)

(* A call is aimed at a ModelConfig it may delete by name, as it read it. *)
Aimed(q) == q.pc \in {"existing", "check", "refs", "delete"} /\ q.oldName # NoName

(* What bears that name now is managed, its instance's or as unclaimed as it
   was, and under Flux only if it was; and where the delete is decided, it is in
   scope. *)
InAim(q) ==
    /\ mc[q.oldName] # NoConfig =>
          /\ mc[q.oldName].managed
          /\ mc[q.oldName].creator \in {q.inst, q.old.creator}
          /\ mc[q.oldName].flux => q.old.flux
    /\ q.old # NoConfig /\ q.old.managed
    /\ q.op = "ensure" => q.old.creator = q.inst
    /\ q.op = "remove" => q.name = q.oldName /\ ~q.legacy
    /\ q.pc \in {"refs", "delete"} => ~Applying(q.old, q.oldName, FALSE)
    /\ q.pc = "refs" => q.scope = "Unclaimed" /\ q.old.creator = NoInstance
    /\ q.pc = "delete" =>
          \/ q.old.creator = q.inst
          \/ q.old.creator = NoInstance /\ q.scope = "Unclaimed" /\ q.oldName \notin refs

AimStands ==
    \A c \in Call :
        /\ Aimed(call[c]) => InAim(call[c])
        /\ call[c].pc = "find" => call[c].oldName = NoName

ScopeInv == part = "scope" => AimStands

(* What a call writes: another content of the creator's, or a new ModelConfig. *)
Tame(n) ==
    \/ mc'[n] \in {mc[n], NoConfig}
    \/ /\ mc'[n] # NoConfig /\ mc'[n].managed
       /\ \/ mc[n] # NoConfig /\ mc'[n].creator = mc[n].creator /\ mc'[n].flux = mc[n].flux
          \/ mc'[n].creator \in Instance /\ ~mc'[n].flux

(* A set of at most one element has one. *)
LEMMA AtMostOne ==
    ASSUME NEW T, IsFiniteSet(T), NEW S \in SUBSET T, Cardinality(S) <= 1,
           NEW i \in S, NEW j \in S
    PROVE  i = j
<1>1. IsFiniteSet(S) /\ IsFiniteSet({i, j})
  BY FS_Subset
<1>2. Cardinality({i, j}) <= Cardinality(S)
  BY <1>1, FS_Subset
<1>3. i # j => Cardinality({i, j}) = 2
  <2>1. Cardinality({i}) = 1 /\ IsFiniteSet({i})
    BY FS_Singleton
  <2>2. j \notin {i} => Cardinality({i} \cup {j}) = Cardinality({i}) + 1
    BY <2>1, FS_AddElement
  <2>3. {i} \cup {j} = {i, j}
    OBVIOUS
  <2> QED BY <2>1, <2>2, <2>3
<1>4. Cardinality(S) \in Nat /\ Cardinality({i, j}) \in Nat
  BY <1>1, FS_CardinalityType
<1> QED BY <1>2, <1>3, <1>4

LEMMA WriteIsTame ==
    ASSUME IndInv, NEW c \in Call, EnsureWrite(c), NEW n \in Name
    PROVE  Tame(n)
<1> DEFINE q == call[c]
<1>1. q \in Request /\ q.pc = "write"
  BY CallStates DEF EnsureWrite, At, IndInv, TypeOK
<1>2. ReadStands(q)
  BY <1>1 DEF IndInv, PlansStand, Planned
<1>3. CASE Accepted(q) /\ mc' = [mc EXCEPT ![q.name] = Desired(q)] /\ n = q.name
  <2>1. mc'[n] = Desired(q) /\ Desired(q) \in Config /\ Desired(q).managed
    BY <1>1, <1>3, DesiredTypes DEF IndInv, TypeOK, Desired
  <2>2. CASE q.existing = NoConfig
    <3>1. Desired(q).creator = q.inst /\ ~Desired(q).flux /\ q.inst \in Instance
      BY <1>1, <2>2 DEF Desired, Request
    <3> QED BY <2>1, <3>1, NullsAssumption DEF Tame
  <2>3. CASE q.existing # NoConfig
    <3>1. mc[n] = q.existing
      BY <1>2, <1>3, <2>3 DEF ReadStands, Accepted
    <3>2. Desired(q).creator = mc[n].creator /\ Desired(q).flux = mc[n].flux
      BY <2>3, <3>1 DEF Desired
    <3> QED BY <2>1, <2>3, <3>1, <3>2, NullsAssumption DEF Tame
  <2> QED BY <2>2, <2>3
<1>4. CASE mc'[n] = mc[n]
  BY <1>4 DEF Tame
<1> QED BY <1>1, <1>3, <1>4 DEF EnsureWrite, IndInv, TypeOK

LEMMA StepIsTame ==
    ASSUME IndInv, NEW c \in Call, Fail(c) \/ Ensure(c) \/ Remove(c) \/ RemoveObj(c)
    PROVE  /\ \A n \in Name : Tame(n)
           /\ UNCHANGED <<listed, refs>>
           /\ \A d \in Call : d # c => call'[d] = call[d]
<1>1. UNCHANGED <<listed, refs>>
  BY DEF Ensure, EnsureStart, EnsureFind, EnsureExisting, EnsureCheck, EnsureSecret,
     EnsureWrite, Remove, RemoveFind, RemoveCheck, RemoveRefs, RemoveObj, DeleteConfig, DropSecret,
     Fail, Store
<1>3. \A d \in Call : d # c => call'[d] = call[d]
  <2>1. \/ UNCHANGED call
        \/ \E q : call' = [call EXCEPT ![c] = q]
    <3>1. ASSUME Ensure(c) PROVE <2>1
      BY <3>1 DEF Ensure, EnsureStart, EnsureFind, EnsureExisting, EnsureCheck, EnsureSecret,
         EnsureWrite, Finish, Goto
    <3>2. ASSUME Remove(c) PROVE <2>1
      BY <3>2 DEF Remove, RemoveFind, RemoveCheck, RemoveRefs, Finish, Goto
    <3>3. ASSUME RemoveObj(c) \/ Fail(c) PROVE <2>1
      BY <3>3 DEF RemoveObj, DeleteConfig, DropSecret, Fail, Finish, Goto
    <3> QED BY <3>1, <3>2, <3>3
  <2> QED BY <2>1 DEF IndInv, TypeOK
<1>2. ASSUME NEW n \in Name PROVE Tame(n)
  <2>1. CASE EnsureWrite(c)
    BY <2>1, WriteIsTame
  <2>2. CASE DeleteConfig(c)
    BY <2>2 DEF DeleteConfig, Tame, IndInv, TypeOK
  <2>3. CASE UNCHANGED mc
    BY <2>3 DEF Tame
  <2> QED BY <2>1, <2>2, <2>3 DEF Ensure, EnsureStart, EnsureFind, EnsureExisting, EnsureCheck,
     EnsureSecret, Remove, RemoveFind, RemoveCheck, RemoveRefs, RemoveObj, DropSecret, Fail, Store
<1> QED BY <1>1, <1>2, <1>3

(* What another call writes leaves an aim as it is. *)
LEMMA AimKept ==
    ASSUME IsFiniteSet(Instance), IndInv, IndInv', NEW d \in Call, Aimed(call[d]), InAim(call[d]),
           call'[d] = call[d], UNCHANGED <<listed, refs>>, \A n \in Name : Tame(n),
           (Cardinality(Involved \cap Instance) <= 1)'
    PROVE  InAim(call[d])'
<1> PICK q \in Request : q = call[d]
  BY CallStates DEF Aimed, IndInv, TypeOK
<1> DEFINE n == q.oldName
<1>1. n \in Name /\ q.inst \in Instance
  BY DEF Aimed, Request
<1>2. ASSUME mc'[n] # NoConfig
      PROVE  mc'[n].managed /\ mc'[n].creator \in {q.inst, q.old.creator} /\ (mc'[n].flux => q.old.flux)
  <2>1. CASE mc'[n].creator \in Instance /\ ~mc'[n].flux /\ mc'[n].managed
    <3>1. mc'[n].creator \in (Involved \cap Instance)'
      BY <1>1, <1>2, <2>1 DEF Involved
    <3>2. q.inst \in (Involved \cap Instance)'
      <4>1. call'[d] = q /\ q # Idle
        BY CallStates
      <4> QED BY <1>1, <4>1 DEF Involved, Busy
    <3>3. mc'[n].creator = q.inst
      <4> DEFINE S == (Involved \cap Instance)'
      <4>1. S \in SUBSET Instance /\ Cardinality(S) <= 1
        OBVIOUS
      <4> HIDE DEF S
      <4>2. mc'[n].creator \in S /\ q.inst \in S
        BY <3>1, <3>2 DEF S
      <4> QED BY <4>1, <4>2, AtMostOne
    <3> QED BY <2>1, <3>3
  <2>2. CASE mc[n] # NoConfig /\ mc'[n].managed /\ mc'[n].creator = mc[n].creator /\ mc'[n].flux = mc[n].flux
    BY <2>2 DEF InAim
  <2>3. CASE mc'[n] = mc[n]
    BY <1>2, <2>3 DEF InAim
  <2> QED BY <1>1, <1>2, <2>1, <2>2, <2>3 DEF Tame
<1>3. InAim(q)'
  BY <1>2 DEF InAim, Applying
<1> QED BY <1>3 DEF InAim, Applying
(* What find returns is managed, and where there are no ModelConfigs of the
   older group, it is one in use. *)
LEMMA FindManaged ==
    ASSUME TypeOK, \A n \in Name : Legacy[n] = NoConfig,
           NEW b \in Backend, NEW m \in Model, NEW f \in Find(b, m)
    PROVE  f[2] = FALSE /\ f[1] \in Name /\ mc[f[1]] \in Config /\ mc[f[1]].managed
<1>1. \A n \in Match(mc, b, m) : n \in Name /\ mc[n] # NoConfig /\ mc[n].managed
  BY DEF Match
<1>2. Match(LegacyGitOps, b, m) = {}
  BY DEF Match, LegacyGitOps
<1>3. f \in Match(mc, b, m) \X {FALSE}
  BY <1>2 DEF Find
<1> QED BY <1>1, <1>3 DEF TypeOK

(* The call that moves takes aim at what it reads, and keeps its aim on its way
   to the delete. *)
LEMMA AimTaken ==
    ASSUME IndInv, \A n \in Name : Legacy[n] = NoConfig, NEW c \in Call,
           Aimed(call[c]) => InAim(call[c]), call[c].pc = "find" => call[c].oldName = NoName,
           Fail(c) \/ Ensure(c) \/ Remove(c) \/ RemoveObj(c),
           Aimed(call'[c])
    PROVE  InAim(call[c])'
<1> DEFINE q == call[c]
           r == call'[c]
<1>0. call \in [Call -> CallState] /\ (q.pc # "idle" => q \in Request)
  BY CallStates DEF IndInv, TypeOK
<1>1. ASSUME Aimed(q), q \in Request, NEW pc \in {"check", "refs", "delete"},
             r.pc = pc, r.oldName = q.oldName, r.old = q.old, r.inst = q.inst, r.op = q.op,
             r.scope = q.scope, r.legacy = q.legacy, r.op = "remove" => r.name = q.name,
             UNCHANGED <<mc, listed, refs>>,
             pc \in {"refs", "delete"} => ~Applying(q.old, q.oldName, FALSE),
             pc = "refs" => q.scope = "Unclaimed" /\ q.old.creator = NoInstance,
             pc = "delete" =>
                \/ q.old.creator = q.inst
                \/ q.old.creator = NoInstance /\ q.scope = "Unclaimed" /\ q.oldName \notin refs
      PROVE  InAim(call[c])'
  <2>1. InAim(q)
    BY <1>1
  <2> QED BY <1>1, <2>1 DEF InAim, Applying
<1>2. ASSUME Finish(c) PROVE FALSE
  BY <1>0, <1>2, FinishEffect, CallStates DEF Aimed
<1>3. ASSUME NEW pc \in {"check", "refs", "delete"}, Goto(c, pc), q.pc \in {"check", "refs"}
      PROVE  /\ Aimed(q) /\ q \in Request /\ r.pc = pc /\ r.oldName = q.oldName /\ r.old = q.old
             /\ r.inst = q.inst /\ r.op = q.op /\ r.scope = q.scope /\ r.legacy = q.legacy
             /\ r.name = q.name
  <2>1. q \in Request
    BY <1>0, <1>3
  <2>2. r = [q EXCEPT !.pc = pc]
    BY <1>0, <1>3 DEF Goto
  <2>3. /\ r.pc = pc /\ r.oldName = q.oldName /\ r.old = q.old
        /\ r.inst = q.inst /\ r.op = q.op /\ r.scope = q.scope /\ r.legacy = q.legacy
        /\ r.name = q.name
    BY <2>1, <2>2 DEF Request
  <2> QED BY <1>3, <2>1, <2>3 DEF Aimed
<1>4. ASSUME NEW i \in Instance, NEW b \in Backend, NEW m \in Model, NEW ep \in Endpoint,
             EnsureStart(c, i, b, m, ep)
      PROVE  FALSE
  <2>1. r.pc = "find"
    BY <1>0, <1>4 DEF EnsureStart
  <2> QED BY <2>1 DEF Aimed
<1>5. CASE EnsureFind(c)
  <2> DEFINE Replaces(n) == q.ep.name # NoName /\ n # q.name /\ CreatedHere(mc[n], q.inst)
             Found(n, legacy) ==
                 [q EXCEPT !.pc = "existing",
                           !.old = IF legacy THEN Legacy[n] ELSE mc[n],
                           !.legacy = legacy,
                           !.oldName = IF ~legacy /\ Replaces(n) THEN n ELSE NoName,
                           !.name = IF ~legacy /\ Replaces(n) THEN q.name ELSE n]
  <2>1. q.pc = "find" /\ q.op = "ensure" /\ q \in Request /\ q.oldName = NoName /\ UNCHANGED <<mc, listed, refs>>
    BY <1>0, <1>5 DEF EnsureFind, At, Store
  <2>2. ASSUME Goto(c, "existing") PROVE FALSE
    <3>1. r = [q EXCEPT !.pc = "existing"]
      BY <1>0, <2>2 DEF Goto
    <3>2. r.oldName = NoName
      BY <2>1, <3>1 DEF Request
    <3> QED BY <3>2 DEF Aimed
  <2>3. PICK f \in Find(q.b, q.m) : call' = [call EXCEPT ![c] = Found(f[1], f[2])]
    BY <1>5, <2>2 DEF EnsureFind
  <2>4. f[2] = FALSE /\ f[1] \in Name /\ mc[f[1]] \in Config /\ mc[f[1]].managed
    <3>1. q.b \in Backend /\ q.m \in Model
      BY <2>1 DEF Request
    <3> QED BY <3>1, FindManaged DEF IndInv
  <2> DEFINE n == f[1]
  <2>5. r = Found(n, FALSE)
    BY <1>0, <2>3, <2>4
  <2>6. /\ r.pc = "existing" /\ r.op = "ensure" /\ r.inst = q.inst
        /\ r.old = mc[n] /\ r.oldName = IF Replaces(n) THEN n ELSE NoName
    BY <2>1, <2>5 DEF Request
  <2>7. Replaces(n) /\ r.oldName = n
    BY <2>6 DEF Aimed
  <2>8. mc[n].creator = q.inst
    BY <2>7 DEF CreatedHere
  <2>9. mc[n] # NoConfig
    BY <2>4, NullsAssumption
  <2> HIDE DEF q, r, n, Found, Replaces
  <2>10. mc' = mc /\ mc[n].managed
    BY <2>1, <2>4 DEF n
  <2> QED BY <2>6, <2>7, <2>8, <2>9, <2>10 DEF InAim, r
<1>6. CASE EnsureExisting(c)
  <2>1. q.pc = "existing" /\ q \in Request /\ UNCHANGED <<mc, listed, refs>>
    BY <1>0, <1>6 DEF EnsureExisting, At, Store
  <2>2. r = [q EXCEPT !.pc = "check", !.existing = mc[q.name]]
    BY <1>0, <1>2, <1>6 DEF EnsureExisting
  <2>3. /\ r.pc = "check" /\ r.oldName = q.oldName /\ r.old = q.old
        /\ r.inst = q.inst /\ r.op = q.op /\ r.scope = q.scope /\ r.legacy = q.legacy
        /\ r.name = q.name
    BY <2>1, <2>2 DEF Request
  <2> QED BY <1>1, <2>1, <2>3 DEF Aimed
<1>7. CASE EnsureCheck(c)
  <2>1. q.pc = "check" /\ q.op = "ensure" /\ UNCHANGED <<mc, listed, refs>>
    BY <1>7 DEF EnsureCheck, At, Store
  <2>2. ~ Goto(c, "secret")
    <3> SUFFICES ASSUME Goto(c, "secret") PROVE FALSE
      OBVIOUS
    <3>1. r.pc = "secret"
      BY <1>0, <2>1, GotoEffect DEF Pcs
    <3> QED BY <3>1 DEF Aimed
  <2>3. Goto(c, "delete") /\ q.oldName # NoName /\ ~Applying(q.old, q.oldName, FALSE)
    BY <1>2, <1>7, <2>2 DEF EnsureCheck
  <2>4. q.old.creator = q.inst
    BY <2>1, <2>3 DEF InAim, Aimed
  <2>5. /\ Aimed(q) /\ q \in Request /\ r.pc = "delete" /\ r.oldName = q.oldName /\ r.old = q.old
        /\ r.inst = q.inst /\ r.op = q.op /\ r.scope = q.scope /\ r.legacy = q.legacy
        /\ r.name = q.name
    BY <1>3, <2>1, <2>3
  <2> QED BY <1>1, <2>1, <2>3, <2>4, <2>5
<1>8. ASSUME NEW i \in Instance, NEW b \in Backend, NEW m \in Model, NEW s \in Scope,
             RemoveFind(c, i, b, m, s)
      PROVE  InAim(call[c])'
  <2> DEFINE ask(f) ==
             [pc |-> "check", op |-> "remove", inst |-> i, b |-> b, m |-> m,
              ep |-> [name |-> NoName, key |-> FALSE], scope |-> s, name |-> f[1],
              old |-> IF f[2] THEN Legacy[f[1]] ELSE mc[f[1]], oldName |-> f[1],
              legacy |-> f[2], existing |-> NoConfig]
  <2>1. q.pc = "idle" /\ UNCHANGED <<mc, listed, refs>>
    BY <1>8 DEF RemoveFind, At, Store
  <2>2. call' # call
    BY <2>1 DEF Aimed
  <2>3. PICK f \in Find(b, m) : call' = [call EXCEPT ![c] = ask(f)]
    BY <1>8, <2>2 DEF RemoveFind
  <2>4. f[2] = FALSE /\ f[1] \in Name /\ mc[f[1]] \in Config /\ mc[f[1]].managed
    BY FindManaged DEF IndInv
  <2> DEFINE n == f[1]
  <2>5. r = ask(f)
    BY <1>0, <2>3
  <2>6. /\ r.pc = "check" /\ r.op = "remove" /\ r.inst = i /\ r.old = mc[n] /\ r.oldName = n
        /\ r.name = n /\ ~r.legacy
    BY <2>4, <2>5
  <2>7. mc[n] # NoConfig /\ mc' = mc /\ mc[n].managed
    BY <2>1, <2>4, NullsAssumption
  <2> HIDE DEF q, r, n, ask
  <2> QED BY <2>6, <2>7 DEF InAim, r
<1>9. CASE RemoveCheck(c)
  <2>1. q.pc = "check" /\ q.op = "remove" /\ UNCHANGED <<mc, listed, refs>>
    BY <1>9 DEF RemoveCheck, At, Store
  <2>2. PICK pc \in {"refs", "delete"} :
          /\ Goto(c, pc) /\ ~Applying(q.old, q.name, q.legacy)
          /\ pc = "delete" => CreatedHere(q.old, q.inst)
          /\ pc = "refs" => q.scope = "Unclaimed" /\ q.old.creator = NoInstance
    BY <1>2, <1>9 DEF RemoveCheck
  <2>3. /\ Aimed(q) /\ q \in Request /\ r.pc = pc /\ r.oldName = q.oldName /\ r.old = q.old
        /\ r.inst = q.inst /\ r.op = q.op /\ r.scope = q.scope /\ r.legacy = q.legacy
        /\ r.name = q.name
    BY <1>3, <2>1, <2>2
  <2>4. q.name = q.oldName /\ ~q.legacy
    BY <2>1, <2>3 DEF InAim
  <2>5. ~Applying(q.old, q.oldName, FALSE)
    BY <2>2, <2>4 DEF Applying
  <2> HIDE DEF r
  <2> QED BY <1>1, <2>1, <2>2, <2>3, <2>5 DEF CreatedHere
<1>10. CASE RemoveRefs(c)
  <2>1. q.pc = "refs" /\ UNCHANGED <<mc, listed, refs>>
    BY <1>10 DEF RemoveRefs, At, Store
  <2>2. Goto(c, "delete") /\ q.name \notin refs
    BY <1>2, <1>10 DEF RemoveRefs
  <2>3. /\ Aimed(q) /\ q \in Request /\ r.pc = "delete" /\ r.oldName = q.oldName /\ r.old = q.old
        /\ r.inst = q.inst /\ r.op = q.op /\ r.scope = q.scope /\ r.legacy = q.legacy
        /\ r.name = q.name
    BY <1>3, <2>1, <2>2
  <2>4. /\ q.op = "remove" => q.name = q.oldName
        /\ q.op = "ensure" => q.old.creator = q.inst
        /\ q.old.creator = NoInstance /\ q.scope = "Unclaimed" /\ ~Applying(q.old, q.oldName, FALSE)
    BY <2>1, <2>3 DEF InAim
  <2>5. q.op \in {"ensure", "remove"}
    BY <2>3 DEF Request
  <2> HIDE DEF r
  <2> QED BY <1>1, <2>1, <2>2, <2>3, <2>4, <2>5
<1>11. ASSUME EnsureSecret(c) \/ EnsureWrite(c) \/ DeleteConfig(c) \/ DropSecret(c) PROVE FALSE
  <2>1. \/ q.pc = "secret" /\ Goto(c, "write")
        \/ q.pc = "dropsecret" /\ Goto(c, "secret")
        \/ q.pc = "delete" /\ Goto(c, "dropsecret")
    BY <1>2, <1>11 DEF EnsureSecret, EnsureWrite, DeleteConfig, DropSecret, At
  <2>2. r.pc \in {"write", "secret", "dropsecret"}
    BY <1>0, <2>1, GotoEffect DEF Pcs
  <2> QED BY <2>2 DEF Aimed
<1> QED BY <1>2, <1>4, <1>5, <1>6, <1>7, <1>8, <1>9, <1>10, <1>11
        DEF Ensure, Remove, RemoveObj, Fail

(* A call that has yet to find has nothing older to delete. *)
LEMMA FindFresh ==
    ASSUME IndInv, NEW c \in Call, Ensure(c) \/ Remove(c) \/ RemoveObj(c) \/ Fail(c),
           call'[c].pc = "find", call[c].pc = "find" => call[c].oldName = NoName
    PROVE  call'[c].oldName = NoName
<1>0. call \in [Call -> CallState] /\ (call[c].pc # "idle" => call[c] \in Request)
  BY CallStates DEF IndInv, TypeOK
<1>1. ~Finish(c) /\ \A pc \in Pcs \ {"find"} : call[c].pc # "idle" => ~Goto(c, pc)
  BY <1>0, FinishEffect, GotoEffect, CallStates
<1>2. ASSUME NEW i \in Instance, NEW b \in Backend, NEW m \in Model, NEW ep \in Endpoint,
             EnsureStart(c, i, b, m, ep)
      PROVE  call'[c].oldName = NoName
  BY <1>0, <1>2 DEF EnsureStart
<1>3. ~EnsureFind(c)
  <2> SUFFICES ASSUME EnsureFind(c) PROVE FALSE
    OBVIOUS
  <2> DEFINE q == call[c]
             Replaces(n) == q.ep.name # NoName /\ n # q.name /\ CreatedHere(mc[n], q.inst)
             Found(n, legacy) ==
                 [q EXCEPT !.pc = "existing",
                           !.old = IF legacy THEN Legacy[n] ELSE mc[n],
                           !.legacy = legacy,
                           !.oldName = IF ~legacy /\ Replaces(n) THEN n ELSE NoName,
                           !.name = IF ~legacy /\ Replaces(n) THEN q.name ELSE n]
  <2>1. q \in Request /\ q.pc = "find"
    BY <1>0 DEF EnsureFind, At
  <2>2. ~Goto(c, "existing")
    BY <1>1, <2>1 DEF Pcs
  <2>3. PICK f \in Find(q.b, q.m) : call' = [call EXCEPT ![c] = Found(f[1], f[2])]
    BY <2>2 DEF EnsureFind
  <2>4. Found(f[1], f[2]).pc = "existing"
    BY <2>1 DEF Request
  <2> QED BY <1>0, <2>3, <2>4
<1>4. ~EnsureExisting(c)
  BY <1>0, <1>1 DEF EnsureExisting, At, Request
<1>5. ~EnsureCheck(c) /\ ~EnsureSecret(c) /\ ~EnsureWrite(c) /\ ~RemoveObj(c) /\ ~RemoveCheck(c)
      /\ ~RemoveRefs(c) /\ ~Fail(c)
  BY <1>1 DEF EnsureCheck, EnsureSecret, EnsureWrite, RemoveObj, DeleteConfig, DropSecret,
     RemoveCheck, RemoveRefs, Fail, At, Pcs
<1>6. ASSUME NEW i \in Instance, NEW b \in Backend, NEW m \in Model, NEW s \in Scope, RemoveFind(c, i, b, m, s)
      PROVE  FALSE
  BY <1>0, <1>6 DEF RemoveFind, At
<1> QED BY <1>2, <1>3, <1>4, <1>5, <1>6 DEF Ensure, Remove
LEMMA StepsWithin == ASSUME [MCNext]_mcVars PROVE [Next]_vars
BY DEF MCNext, Within, mcVars, vars, Next

(* In the part of one instance only its calls act. *)
LEMMA OnlyCalls ==
    ASSUME MCNext, part = "scope"
    PROVE  /\ part' = part
           /\ (Cardinality(Involved \cap Instance) <= 1)'
           /\ \E c \in Call : Fail(c) \/ Ensure(c) \/ Remove(c) \/ RemoveObj(c)
<1>1. part' = part /\ Room'
  BY DEF MCNext, Within
<1>2. (Cardinality(Involved \cap Instance) <= 1)'
  BY <1>1 DEF Room
<1>3. \E c \in Call : Fail(c) \/ Ensure(c) \/ Remove(c) \/ RemoveObj(c)
  BY DEF MCNext, Within
<1> QED BY <1>1, <1>2, <1>3

LEMMA AimsKept ==
    ASSUME IsFiniteSet(Instance), \A n \in Name : Legacy[n] = NoConfig,
           IndInv, IndInv', ScopeInv, [MCNext]_mcVars
    PROVE  ScopeInv'
<1>1. CASE UNCHANGED mcVars
  BY <1>1 DEF mcVars, vars, ScopeInv, AimStands, Aimed, InAim, Applying
<1>2. CASE MCNext /\ part = "scope"
  <2>1. PICK c \in Call : Fail(c) \/ Ensure(c) \/ Remove(c) \/ RemoveObj(c)
    BY <1>2, OnlyCalls
  <2>2. (Cardinality(Involved \cap Instance) <= 1)'
    BY <1>2, OnlyCalls
  <2>3. /\ \A n \in Name : Tame(n)
        /\ UNCHANGED <<listed, refs>>
        /\ \A d \in Call : d # c => call'[d] = call[d]
    BY <2>1, StepIsTame
  <2>4. AimStands
    BY <1>2 DEF ScopeInv
  <2>5. ASSUME NEW d \in Call, Aimed(call'[d]) PROVE InAim(call[d])'
    <3>1. CASE d = c
      BY <2>1, <2>4, <2>5, <3>1, AimTaken DEF AimStands
    <3>2. CASE d # c
      <4>1. call'[d] = call[d] /\ Aimed(call[d]) /\ InAim(call[d])
        BY <2>3, <2>4, <2>5, <3>2 DEF AimStands
      <4> QED BY <2>2, <2>3, <4>1, AimKept
    <3> QED BY <3>1, <3>2
  <2>6. ASSUME NEW d \in Call, call'[d].pc = "find" PROVE call'[d].oldName = NoName
    <3>1. CASE d = c
      BY <2>1, <2>4, <2>6, <3>1, FindFresh DEF AimStands
    <3>2. CASE d # c
      BY <2>3, <2>4, <2>6, <3>2 DEF AimStands
    <3> QED BY <3>1, <3>2
  <2>7. \A d \in Call : Aimed(call[d])' => InAim(call[d])'
    BY <2>5 DEF Aimed
  <2> QED BY <2>6, <2>7 DEF ScopeInv, AimStands
<1>3. CASE MCNext /\ part # "scope"
  BY <1>3 DEF MCNext, Within, ScopeInv
<1> QED BY <1>1, <1>2, <1>3

LEMMA DeleteInScope ==
    ASSUME IndInv, ScopeInv, MCNext, part = "scope"
    PROVE  InScope
<1> SUFFICES ASSUME NEW c \in Call, NEW n \in Name, By(c), Gone(n)
             PROVE  /\ mc[n].managed
                    /\ ~Applying(mc[n], n, FALSE)
                    /\ \/ mc[n].creator = call[c].inst
                       \/ /\ mc[n].creator = NoInstance
                          /\ call[c].scope = "Unclaimed"
                          /\ n \notin refs
  BY DEF InScope
<1>1. PICK d \in Call : Fail(d) \/ Ensure(d) \/ Remove(d) \/ RemoveObj(d)
  BY OnlyCalls
<1>2. d = c
  BY <1>1, StepIsTame DEF By
<1>3. ~EnsureWrite(d)
  <2> SUFFICES ASSUME EnsureWrite(d) PROVE FALSE
    OBVIOUS
  <2>1. Desired(call[d]) \in Config
    BY CallStates, DesiredTypes DEF EnsureWrite, At, IndInv, TypeOK
  <2> QED BY <2>1, NullsAssumption DEF EnsureWrite, Gone, IndInv, TypeOK
<1>4. DeleteConfig(c)
  BY <1>1, <1>2, <1>3 DEF Ensure, EnsureStart, EnsureFind, EnsureExisting, EnsureCheck, EnsureSecret,
     Remove, RemoveFind, RemoveCheck, RemoveRefs, RemoveObj, DropSecret, Fail, Store, Gone
<1>5. n = call[c].oldName /\ call[c].pc = "delete"
  BY <1>4 DEF DeleteConfig, At, Gone, IndInv, TypeOK
<1>6. n # NoName
  BY NullsAssumption
<1>7. InAim(call[c])
  BY <1>5, <1>6 DEF ScopeInv, AimStands, Aimed
<1>8. mc[n] # NoConfig
  BY DEF Gone
<1> QED BY <1>5, <1>7, <1>8 DEF InAim, Applying

(* Nothing is deleted out of scope by the overlapping and failing calls of one
   instance, however many (removeObj deletes by name what an earlier read
   decided): what bears the name by then was created by this instance, or is as
   unclaimed, unreferenced and free of Flux as it was when that was decided.  It
   is said of a cluster with no ModelConfig left in the kagent.dev group. *)
THEOREM DeletesStayInScope ==
    ASSUME IsFiniteSet(Instance), \A n \in Name : Legacy[n] = NoConfig
    PROVE  MCSpec => DeletesInScope
<1>1. MCInit => IndInv /\ ScopeInv
  <2> SUFFICES ASSUME MCInit PROVE IndInv /\ ScopeInv
    OBVIOUS
  <2>1. Init /\ \A c \in Call : call[c] = Idle
    BY DEF MCInit, Init
  <2>2. \A c \in Call : ~Aimed(call[c]) /\ call[c].pc # "find"
    BY <2>1, CallStates DEF Aimed
  <2> QED BY <2>1, <2>2, InitInv DEF ScopeInv, AimStands
<1>2. IndInv /\ [MCNext]_mcVars => IndInv'
  BY StepsWithin, StepSound, SoundPreserves DEF IndInv
<1>3. IndInv /\ IndInv' /\ ScopeInv /\ [MCNext]_mcVars => ScopeInv'
  BY AimsKept
<1>4. IndInv /\ ScopeInv /\ [MCNext]_mcVars => [part = "scope" => InScope]_mcVars
  BY DeleteInScope
<1> QED BY <1>1, <1>2, <1>3, <1>4, PTL DEF MCSpec, DeletesInScope
-----------------------------------------------------------------------------
(* Calls that follow one another *)

(* Two ModelConfigs a find could take for one (backend, model). *)
Alike(o1, o2) ==
    /\ o1.model = o2.model
    /\ o1.backend = o2.backend \/ NoBackend \in {o1.backend, o2.backend}

Unique ==
    \A n1, n2 \in Name :
        n1 # n2 /\ mc[n1] # NoConfig /\ mc[n2] # NoConfig => ~Alike(mc[n1], mc[n2])

AllManaged == \A n \in Name : mc[n] # NoConfig => mc[n].managed

(* The ModelConfigs of (b, m) are among those of S. *)
OnlyIn(b, m, S) ==
    \A n \in Name : mc[n] # NoConfig /\ mc[n].model = m /\ BackendMatches(mc[n], b) => n \in S

(* What a call knows once it has looked: an Ensure, every ModelConfig of its
   (backend, model) and what bears the name it plans to write. *)
Knows(q) ==
    /\ q.pc = "find" => q.oldName = NoName
    /\ q.pc \in {"delete", "dropsecret"} \/ q.op = "remove" => q.oldName # NoName
    /\ q.pc = "refs" => q.op = "remove"
    /\ q.pc \in {"secret", "write"} => q.op = "ensure"
    /\ q.pc = "dropsecret" => mc[q.oldName] = NoConfig
    /\ q.op = "ensure" /\ q.pc # "find" =>
          /\ q.oldName # q.name
          /\ q.pc # "existing" => q.existing = mc[q.name]
          /\ OnlyIn(q.b, q.m, IF q.pc \in {"existing", "check", "delete"}
                              THEN {q.name, q.oldName} ELSE {q.name})
          /\ q.pc = "write" => (secret[q.name] = "ours" <=> q.ep.key)

(* The placeholder Secret of n fits, unless a call is at work on it. *)
Touches(q, n) ==
    \/ q.pc = "dropsecret" /\ n = q.oldName
    \/ q.pc = "write" /\ n = q.name

SecretFits(n) == secret[n] = "ours" <=> mc[n] # NoConfig /\ mc[n].key

OneAtATime == \A c, d \in Call : call[c] # Idle /\ call[d] # Idle => c = d

Turns ==
    /\ Unique /\ AllManaged /\ OneAtATime
    /\ \A c \in Call : call[c] # Idle => Knows(call[c])
    /\ \A n \in Name : (\A c \in Call : call[c] # Idle => ~Touches(call[c], n)) => SecretFits(n)

SerialInv == part = "serial" => Turns

LEMMA TurnsFrom ==
    ASSUME OneAtATime', NEW c \in Call, Unique', AllManaged',
           \A d \in Call \ {c} : call'[d] = Idle,
           call'[c] # Idle => Knows(call[c])',
           \A n \in Name : (call'[c] = Idle \/ ~Touches(call'[c], n)) => SecretFits(n)'
    PROVE  Turns'
<1>1. \A d \in Call : call'[d] # Idle => Knows(call[d])'
  OBVIOUS
<1>2. ASSUME NEW n \in Name, \A d \in Call : call'[d] # Idle => ~Touches(call'[d], n)
      PROVE  SecretFits(n)'
  BY <1>2
<1> QED BY <1>1, <1>2 DEF Turns, Touches

(* A step that leaves the store as it is, by a call at work on no Secret. *)
LEMMA ReadTurn ==
    ASSUME Turns, OneAtATime', NEW c \in Call, UNCHANGED <<mc, secret>>,
           \A d \in Call \ {c} : call[d] = Idle /\ call'[d] = Idle,
           call[c] # Idle => call[c].pc \notin {"dropsecret", "write"},
           call'[c] # Idle => Knows(call[c])'
    PROVE  Turns'
<1>1. Unique' /\ AllManaged'
  BY DEF Turns, Unique, AllManaged
<1>2. \A n \in Name : SecretFits(n)
  BY DEF Turns, Touches
<1>3. \A n \in Name : SecretFits(n)'
  BY <1>2 DEF SecretFits
<1> QED BY <1>1, <1>3, TurnsFrom

(* Where one call is under way, the others are idle before and after. *)
LEMMA Solo ==
    ASSUME IndInv, OneAtATime, OneAtATime', NEW c \in Call,
           Ensure(c) \/ Remove(c) \/ RemoveObj(c)
    PROVE  \/ UNCHANGED <<mc, secret, listed, refs, rv, call>>
           \/ \A d \in Call \ {c} : call[d] = Idle /\ call'[d] = Idle
<1>1. \A d \in Call \ {c} : call'[d] = call[d]
  BY StepIsTame
<1>2. call \in [Call -> CallState]
  BY DEF IndInv, TypeOK
<1>3. CASE call[c] # Idle \/ call'[c] # Idle
  BY <1>1, <1>3 DEF OneAtATime
<1>4. CASE call[c] = Idle /\ call'[c] = Idle
  <2>1. ASSUME NEW i \in Instance, NEW b \in Backend, NEW m \in Model, NEW ep \in Endpoint,
               EnsureStart(c, i, b, m, ep)
        PROVE  FALSE
    <3>1. call'[c].pc = "find"
      BY <1>2, <2>1 DEF EnsureStart
    <3> QED BY <1>4, <3>1, CallStates
  <2>2. ASSUME NEW i \in Instance, NEW b \in Backend, NEW m \in Model, NEW s \in Scope,
               RemoveFind(c, i, b, m, s)
        PROVE  UNCHANGED <<mc, secret, listed, refs, rv, call>>
    <3>1. CASE UNCHANGED call
      BY <2>2, <3>1 DEF RemoveFind, Store
    <3>2. CASE \E f \in Find(b, m) : call' = [call EXCEPT ![c] =
             [pc |-> "check", op |-> "remove", inst |-> i, b |-> b, m |-> m,
              ep |-> [name |-> NoName, key |-> FALSE], scope |-> s, name |-> f[1],
              old |-> IF f[2] THEN Legacy[f[1]] ELSE mc[f[1]], oldName |-> f[1],
              legacy |-> f[2], existing |-> NoConfig]]
      <4>1. call'[c].pc = "check"
        BY <1>2, <3>2
      <4> QED BY <1>4, <4>1, CallStates
    <3> QED BY <2>2, <3>1, <3>2 DEF RemoveFind
  <2>3. call[c].pc = "idle"
    BY <1>4, CallStates
  <2> QED BY <2>1, <2>2, <2>3 DEF Ensure, Remove, RemoveObj, EnsureFind, EnsureExisting, EnsureCheck,
        EnsureSecret, EnsureWrite, RemoveCheck, RemoveRefs, DeleteConfig, DropSecret, At
<1> QED BY <1>3, <1>4

(* A call goes on from what it read. *)
LEMMA GotoFields ==
    ASSUME call \in [Call -> CallState], NEW c \in Call, NEW q \in Request, q = call[c],
           NEW pc \in Pcs, Goto(c, pc)
    PROVE  \E r \in Request :
              /\ r = call'[c] /\ r.pc = pc /\ r.op = q.op /\ r.b = q.b /\ r.m = q.m /\ r.ep = q.ep
              /\ r.name = q.name /\ r.oldName = q.oldName /\ r.existing = q.existing
<1> DEFINE r == [q EXCEPT !.pc = pc]
<1>1. r \in Request
  BY DEF Request
<1>2. r = call'[c]
  BY DEF Goto
<1>3. /\ r.pc = pc /\ r.op = q.op /\ r.b = q.b /\ r.m = q.m /\ r.ep = q.ep
      /\ r.name = q.name /\ r.oldName = q.oldName /\ r.existing = q.existing
  BY DEF Request
<1> QED BY <1>1, <1>2, <1>3

LEMMA StartTurn ==
    ASSUME IndInv, Turns, OneAtATime', NEW c \in Call,
           \A d \in Call \ {c} : call[d] = Idle /\ call'[d] = Idle,
           NEW i \in Instance, NEW b \in Backend, NEW m \in Model, NEW ep \in Endpoint,
           EnsureStart(c, i, b, m, ep)
    PROVE  Turns'
<1>1. call \in [Call -> CallState] /\ call[c].pc = "idle" /\ UNCHANGED <<mc, secret>>
  BY DEF IndInv, TypeOK, EnsureStart, At, Store
<1>2. call'[c].pc = "find" /\ call'[c].op = "ensure" /\ call'[c].oldName = NoName
  BY <1>1 DEF EnsureStart
<1>3. Knows(call[c])'
  BY <1>2 DEF Knows
<1> QED BY <1>1, <1>3, ReadTurn

LEMMA FindTurn ==
    ASSUME IndInv, Turns, OneAtATime', NEW c \in Call,
           \A d \in Call \ {c} : call[d] = Idle /\ call'[d] = Idle, EnsureFind(c)
    PROVE  Turns'
<1>0. call \in [Call -> CallState] /\ call[c].pc = "find" /\ UNCHANGED <<mc, secret>>
  BY DEF IndInv, TypeOK, EnsureFind, At, Store
<1> PICK q \in Request : q = call[c]
  BY <1>0, CallStates
<1> DEFINE Replaces(n) == q.ep.name # NoName /\ n # q.name /\ CreatedHere(mc[n], q.inst)
           Found(n, legacy) ==
               [q EXCEPT !.pc = "existing",
                         !.old = IF legacy THEN Legacy[n] ELSE mc[n],
                         !.legacy = legacy,
                         !.oldName = IF ~legacy /\ Replaces(n) THEN n ELSE NoName,
                         !.name = IF ~legacy /\ Replaces(n) THEN q.name ELSE n]
           annotated == {n \in Name : mc[n] # NoConfig /\ mc[n].managed
                                        /\ BackendMatches(mc[n], q.b) /\ mc[n].model = q.m}
<1>1. q.pc = "find" /\ q.op = "ensure" /\ q.oldName = NoName /\ q.name \in Name
  BY <1>0, CallStates, RequestFields DEF EnsureFind, Turns, Knows
<1>2. annotated # {} => Match(mc, q.b, q.m) = annotated
  BY DEF Match
<1>3. \A n1, n2 \in annotated : n1 = n2
  BY DEF Turns, Unique, Alike, BackendMatches
<1>4. \A n \in Name : mc[n] # NoConfig /\ mc[n].model = q.m /\ BackendMatches(mc[n], q.b) => n \in annotated
  BY DEF Turns, AllManaged
<1> HIDE DEF annotated
<1>5. CASE Find(q.b, q.m) = {} /\ Goto(c, "existing")
  <2>1. annotated = {}
    <3> SUFFICES ASSUME NEW n \in annotated PROVE FALSE
      OBVIOUS
    <3>1. <<n, FALSE>> \in Find(q.b, q.m)
      BY <1>2 DEF Find
    <3> QED BY <1>5, <3>1
  <2>2. PICK r \in Request : /\ r = call'[c] /\ r.pc = "existing" /\ r.op = q.op /\ r.b = q.b /\ r.m = q.m /\ r.ep = q.ep
              /\ r.name = q.name /\ r.oldName = q.oldName /\ r.existing = q.existing
    BY <1>0, <1>5, GotoFields DEF Pcs
  <2>3. Knows(r)'
    BY <1>0, <1>1, <1>4, <2>1, <2>2, NullsAssumption DEF Knows, OnlyIn
  <2>4. Knows(call[c])'
    BY <2>2, <2>3 DEF Knows, OnlyIn
  <2> QED BY <1>0, <2>4, ReadTurn
<1>6. ASSUME NEW f \in Find(q.b, q.m), call' = [call EXCEPT ![c] = Found(f[1], f[2])]
      PROVE  Turns'
  <2> PICK r : r = call'[c]
    OBVIOUS
  <2> DEFINE n == f[1]
  <2>1. r = Found(n, f[2])
    BY <1>0, <1>6
  <2>2. n \in Name /\ f[2] \in BOOLEAN
    BY FindTypes DEF IndInv, Request
  <2>3. /\ r.pc = "existing" /\ r.op = "ensure" /\ r.b = q.b /\ r.m = q.m
        /\ r.oldName = (IF ~f[2] /\ Replaces(n) THEN n ELSE NoName)
        /\ r.name = (IF ~f[2] /\ Replaces(n) THEN q.name ELSE n)
    BY <1>1, <2>1 DEF Request
  <2>4. r.oldName # r.name /\ n \in {r.name, r.oldName}
    BY <1>1, <2>2, <2>3, NullsAssumption
  <2>5. \A k \in annotated : k = n
    <3> SUFFICES ASSUME annotated # {} PROVE n \in annotated
      BY <1>3
    <3> QED BY <1>2 DEF Find
  <2> HIDE DEF Found, Replaces, n
  <2>6. Knows(r)'
    BY <1>0, <1>4, <2>3, <2>4, <2>5 DEF Knows, OnlyIn
  <2>7. Knows(call[c])'
    BY <2>6 DEF Knows, OnlyIn
  <2> QED BY <1>0, <2>7, ReadTurn
<1> QED BY <1>5, <1>6 DEF EnsureFind

LEMMA ExistingTurn ==
    ASSUME IndInv, Turns, OneAtATime', NEW c \in Call,
           \A d \in Call \ {c} : call[d] = Idle /\ call'[d] = Idle, EnsureExisting(c)
    PROVE  Turns'
<1>0. call \in [Call -> CallState] /\ call[c].pc = "existing" /\ UNCHANGED <<mc, secret>>
  BY DEF IndInv, TypeOK, EnsureExisting, At, Store
<1> PICK q \in Request : q = call[c]
  BY <1>0, CallStates
<1>1. q.pc = "existing" /\ q.op \in {"ensure", "remove"} /\ Knows(q)
  BY <1>0, CallStates DEF Turns, Request
<1>2. CASE call'[c] = Idle
  BY <1>0, <1>2, ReadTurn
<1>3. CASE call'[c] # Idle
  <2> PICK r : r = call'[c]
    OBVIOUS
  <2>1. r = [q EXCEPT !.pc = "check", !.existing = mc[q.name]]
    BY <1>0, <1>3, FinishEffect DEF EnsureExisting
  <2>2. /\ r.pc = "check" /\ r.op = q.op /\ r.b = q.b /\ r.m = q.m /\ r.name = q.name
        /\ r.oldName = q.oldName /\ r.existing = mc[q.name]
    BY <2>1 DEF Request
  <2>3. Knows(r)'
    BY <1>0, <1>1, <2>2 DEF Knows, OnlyIn
  <2>4. Knows(call[c])'
    BY <2>3 DEF Knows, OnlyIn
  <2> QED BY <1>0, <2>4, ReadTurn
<1> QED BY <1>2, <1>3

LEMMA CheckTurn ==
    ASSUME IndInv, Turns, OneAtATime', NEW c \in Call,
           \A d \in Call \ {c} : call[d] = Idle /\ call'[d] = Idle,
           EnsureCheck(c) \/ RemoveCheck(c) \/ RemoveRefs(c)
    PROVE  Turns'
<1>0. call \in [Call -> CallState] /\ call[c].pc \in {"check", "refs"} /\ UNCHANGED <<mc, secret>>
  BY DEF IndInv, TypeOK, EnsureCheck, RemoveCheck, RemoveRefs, At, Store
<1> PICK q \in Request : q = call[c]
  BY <1>0, CallStates
<1>1. q.pc \in {"check", "refs"} /\ q.op \in {"ensure", "remove"} /\ Knows(q)
  BY <1>0, CallStates DEF Turns, Request
<1>2. CASE Finish(c)
  BY <1>0, <1>2, FinishEffect, ReadTurn
<1>3. ASSUME NEW pc \in {"refs", "delete", "secret"}, Goto(c, pc),
             pc = "delete" => q.oldName # NoName,
             pc = "secret" => q.pc = "check" /\ q.oldName = NoName,
             pc = "refs" => q.op = "remove",
             pc = "delete" => q.op = "remove" \/ q.pc = "check"
      PROVE  Turns'
  <2>1. PICK r \in Request : /\ r = call'[c] /\ r.pc = pc /\ r.op = q.op /\ r.b = q.b /\ r.m = q.m /\ r.ep = q.ep
              /\ r.name = q.name /\ r.oldName = q.oldName /\ r.existing = q.existing
    BY <1>0, <1>3, GotoFields DEF Pcs
  <2>2. Knows(r)'
    <3>1. CASE r.op = "remove"
      BY <1>1, <1>3, <2>1, <3>1 DEF Knows
    <3>2. CASE r.op = "ensure" /\ q.pc = "check"
      <4>1. /\ r.oldName # r.name /\ r.existing = mc[r.name]
            /\ OnlyIn(r.b, r.m, {r.name, r.oldName})
        BY <1>1, <2>1, <3>2 DEF Knows
      <4>2. CASE pc = "secret"
        <5>1. OnlyIn(r.b, r.m, {r.name})
          BY <1>3, <2>1, <4>1, <4>2, NullsAssumption DEF OnlyIn
        <5> QED BY <1>0, <2>1, <3>2, <4>1, <4>2, <5>1 DEF Knows, OnlyIn
      <4>3. CASE pc = "delete"
        <5>1. r.oldName # NoName
          BY <1>3, <2>1, <4>3
        <5> QED BY <1>0, <2>1, <3>2, <4>1, <4>3, <5>1 DEF Knows, OnlyIn
      <4> QED BY <1>3, <2>1, <3>2, <4>2, <4>3
    <3>3. r.op = "ensure" => q.pc = "check"
      BY <1>1, <1>3, <2>1
    <3> QED BY <1>1, <2>1, <3>1, <3>2, <3>3
  <2>3. Knows(call[c])'
    BY <2>1, <2>2 DEF Knows, OnlyIn
  <2> QED BY <1>0, <2>3, ReadTurn
<1>4. \/ Finish(c)
      \/ q.pc = "check" /\ Goto(c, IF q.oldName # NoName THEN "delete" ELSE "secret")
      \/ q.op = "remove" /\ Goto(c, "refs")
      \/ q.op = "remove" /\ Goto(c, "delete") /\ q.oldName # NoName
  <2>1. q.op = "remove" => q.oldName # NoName
    BY <1>1 DEF Knows
  <2>2. q.pc = "refs" => q.op = "remove"
    BY <1>1 DEF Knows
  <2> QED BY <2>1, <2>2, <1>0 DEF EnsureCheck, RemoveCheck, RemoveRefs, At
<1> QED BY <1>2, <1>3, <1>4

(* A delete leaves the call's own ModelConfig, if any, the only one. *)
LEMMA DeleteTurn ==
    ASSUME IndInv, Turns, OneAtATime', NEW c \in Call,
           \A d \in Call \ {c} : call[d] = Idle /\ call'[d] = Idle, DeleteConfig(c)
    PROVE  Turns'
<1>0. /\ call \in [Call -> CallState] /\ call[c].pc = "delete" /\ UNCHANGED secret
      /\ mc \in [Name -> Config \cup {NoConfig}] /\ Goto(c, "dropsecret")
  BY DEF IndInv, TypeOK, DeleteConfig, At
<1> PICK q \in Request : q = call[c]
  BY <1>0, CallStates
<1>1. /\ q.pc = "delete" /\ q.op \in {"ensure", "remove"} /\ Knows(q)
      /\ q.oldName \in Name /\ q.name \in Name
  BY <1>0, CallStates DEF Turns, Request, Knows
<1>2. mc' = [mc EXCEPT ![q.oldName] = NoConfig]
  BY DEF DeleteConfig
<1>3. mc'[q.oldName] = NoConfig /\ \A n \in Name : n # q.oldName => mc'[n] = mc[n]
  BY <1>0, <1>1, <1>2
<1>4. PICK r \in Request : /\ r = call'[c] /\ r.pc = "dropsecret" /\ r.op = q.op /\ r.b = q.b
              /\ r.m = q.m /\ r.ep = q.ep
              /\ r.name = q.name /\ r.oldName = q.oldName /\ r.existing = q.existing
  BY <1>0, GotoFields DEF Pcs
<1>5. Unique' /\ AllManaged'
  BY <1>3 DEF Turns, Unique, AllManaged
<1>6. Knows(call[c])'
  <2>1. CASE q.op = "remove"
    BY <1>1, <1>3, <1>4, <2>1, NullsAssumption DEF Knows
  <2>2. CASE q.op = "ensure"
    <3>1. q.oldName # q.name /\ q.existing = mc'[q.name]
      BY <1>1, <1>3, <2>2 DEF Knows
    <3>2. \A n \in Name : mc'[n] # NoConfig /\ mc'[n].model = q.m /\ BackendMatches(mc'[n], q.b) => n = q.name
      BY <1>1, <1>3, <2>2 DEF Knows, OnlyIn
    <3> QED BY <1>1, <1>3, <1>4, <2>2, <3>1, <3>2, NullsAssumption DEF Knows, OnlyIn
  <2> QED BY <1>1, <2>1, <2>2
<1>7. ASSUME NEW n \in Name, ~Touches(call'[c], n) PROVE SecretFits(n)'
  <2>1. n # q.oldName
    BY <1>4, <1>7 DEF Touches
  <2>2. \A d \in Call : call[d] # Idle => ~Touches(call[d], n)
    BY <1>1 DEF Touches
  <2>3. SecretFits(n)
    BY <2>2 DEF Turns
  <2> QED BY <1>0, <1>3, <2>1, <2>3 DEF SecretFits
<1>8. call'[c] # Idle
  BY <1>4, CallStates
<1> QED BY <1>5, <1>6, <1>7, <1>8, TurnsFrom

LEMMA DropSecretTurn ==
    ASSUME IndInv, Turns, OneAtATime', NEW c \in Call,
           \A d \in Call \ {c} : call[d] = Idle /\ call'[d] = Idle, DropSecret(c)
    PROVE  Turns'
<1>0. /\ call \in [Call -> CallState] /\ call[c].pc = "dropsecret" /\ UNCHANGED mc
      /\ secret \in [Name -> {"none", "ours"}]
  BY DEF IndInv, TypeOK, DropSecret, At
<1> PICK q \in Request : q = call[c]
  BY <1>0, CallStates
<1>1. /\ q.pc = "dropsecret" /\ q.op \in {"ensure", "remove"} /\ Knows(q)
      /\ q.oldName \in Name /\ q.name \in Name
  BY <1>0, CallStates DEF Turns, Request, Knows
<1>2. secret'[q.oldName] = "none" /\ \A n \in Name : n # q.oldName => secret'[n] = secret[n]
  BY <1>0, <1>1 DEF DropSecret, SecretDropped
<1>3. mc[q.oldName] = NoConfig
  BY <1>1 DEF Knows
<1>4. \A n \in Name : SecretFits(n)'
  <2> SUFFICES ASSUME NEW n \in Name, n # q.oldName PROVE SecretFits(n)'
    BY <1>0, <1>2, <1>3 DEF SecretFits
  <2>1. \A d \in Call : call[d] # Idle => ~Touches(call[d], n)
    BY <1>1 DEF Touches
  <2>2. SecretFits(n)
    BY <2>1 DEF Turns
  <2> QED BY <1>0, <1>2, <2>2 DEF SecretFits
<1>5. Unique' /\ AllManaged'
  BY <1>0 DEF Turns, Unique, AllManaged
<1>6. CASE q.op = "remove"
  <2>1. call'[c] = Idle
    BY <1>0, <1>6, FinishEffect DEF DropSecret
  <2> QED BY <1>4, <1>5, <2>1, TurnsFrom
<1>7. CASE q.op = "ensure"
  <2>0. Goto(c, "secret")
    BY <1>7 DEF DropSecret
  <2>1. PICK r \in Request : /\ r = call'[c] /\ r.pc = "secret" /\ r.op = q.op /\ r.b = q.b
              /\ r.m = q.m /\ r.ep = q.ep
              /\ r.name = q.name /\ r.oldName = q.oldName /\ r.existing = q.existing
    BY <1>0, <2>0, GotoFields DEF Pcs
  <2>2. /\ q.oldName # q.name /\ q.existing = mc[q.name] /\ OnlyIn(q.b, q.m, {q.name})
    BY <1>1, <1>7 DEF Knows
  <2>3. Knows(call[c])'
    BY <1>0, <1>7, <2>1, <2>2 DEF Knows, OnlyIn
  <2> QED BY <1>4, <1>5, <2>3, TurnsFrom
<1> QED BY <1>1, <1>6, <1>7

LEMMA EnsureSecretTurn ==
    ASSUME IndInv, Turns, OneAtATime', NEW c \in Call,
           \A d \in Call \ {c} : call[d] = Idle /\ call'[d] = Idle, EnsureSecret(c)
    PROVE  Turns'
<1>0. /\ call \in [Call -> CallState] /\ call[c].pc = "secret" /\ UNCHANGED mc
      /\ secret \in [Name -> {"none", "ours"}] /\ Goto(c, "write")
  BY DEF IndInv, TypeOK, EnsureSecret, At
<1> PICK q \in Request : q = call[c]
  BY <1>0, CallStates
<1>1. /\ q.pc = "secret" /\ q.op \in {"ensure", "remove"} /\ Knows(q)
      /\ q.name \in Name /\ q.ep.key \in BOOLEAN
  BY <1>0, CallStates DEF Turns, Request, Endpoint
<1>2. \A n \in Name : SecretFits(n)
  BY <1>1 DEF Turns, Touches
<1>3. secret' = IF q.ep.key THEN [secret EXCEPT ![q.name] = IF @ = "none" THEN "ours" ELSE @]
                ELSE IF q.existing # NoConfig THEN SecretDropped(q.name)
                ELSE secret
  BY DEF EnsureSecret
<1>4. \A n \in Name : n # q.name => secret'[n] = secret[n]
  BY <1>0, <1>1, <1>3 DEF SecretDropped
<1>5. PICK r \in Request : /\ r = call'[c] /\ r.pc = "write" /\ r.op = q.op /\ r.b = q.b
              /\ r.m = q.m /\ r.ep = q.ep
              /\ r.name = q.name /\ r.oldName = q.oldName /\ r.existing = q.existing
  BY <1>0, GotoFields DEF Pcs
<1>6. Knows(call[c])'
  <2>1. CASE q.op = "remove"
    BY <1>1, <1>5, <2>1 DEF Knows
  <2>2. CASE q.op = "ensure"
    <3>1. q.oldName # q.name /\ q.existing = mc[q.name] /\ OnlyIn(q.b, q.m, {q.name})
      BY <1>1, <2>2 DEF Knows
    <3>2. secret'[q.name] = "ours" <=> q.ep.key
      <4>1. CASE q.ep.key
        BY <1>0, <1>1, <1>3, <4>1
      <4>2. CASE ~q.ep.key /\ q.existing # NoConfig
        BY <1>0, <1>1, <1>3, <4>2 DEF SecretDropped
      <4>3. CASE ~q.ep.key /\ q.existing = NoConfig
        BY <1>1, <1>2, <1>3, <3>1, <4>3 DEF SecretFits
      <4> QED BY <4>1, <4>2, <4>3
    <3> QED BY <1>0, <1>5, <2>2, <3>1, <3>2 DEF Knows, OnlyIn
  <2> QED BY <1>1, <2>1, <2>2
<1>7. \A n \in Name : ~Touches(call'[c], n) => SecretFits(n)'
  BY <1>0, <1>2, <1>4, <1>5 DEF Touches, SecretFits
<1>8. Unique' /\ AllManaged'
  BY <1>0 DEF Turns, Unique, AllManaged
<1>9. call'[c] # Idle
  BY <1>5, CallStates
<1> QED BY <1>6, <1>7, <1>8, <1>9, TurnsFrom

(* The write finds what the plan read, and adds the only ModelConfig of its
   (backend, model). *)
LEMMA EnsureWriteTurn ==
    ASSUME IndInv, Turns, OneAtATime', NEW c \in Call,
           \A d \in Call \ {c} : call[d] = Idle /\ call'[d] = Idle, EnsureWrite(c)
    PROVE  Turns'
<1>0. /\ call \in [Call -> CallState] /\ call[c].pc = "write" /\ UNCHANGED secret
      /\ mc \in [Name -> Config \cup {NoConfig}] /\ call'[c] = Idle
  BY FinishEffect DEF IndInv, TypeOK, EnsureWrite, At
<1> PICK q \in Request : q = call[c]
  BY <1>0, CallStates
<1>1. /\ q.pc = "write" /\ q.op = "ensure" /\ Knows(q) /\ q.name \in Name /\ q.b \in Backend
  <2>1. q.pc = "write" /\ q.name \in Name /\ q.b \in Backend
    BY <1>0 DEF Request
  <2>2. call[c] # Idle
    BY CallStates
  <2>3. Knows(q)
    BY <2>2 DEF Turns
  <2> QED BY <2>1, <2>3 DEF Knows
<1>2. /\ q.existing = mc[q.name] /\ OnlyIn(q.b, q.m, {q.name})
      /\ secret[q.name] = "ours" <=> q.ep.key
  BY <1>1 DEF Knows
<1>3. Accepted(q)
  BY <1>2 DEF Accepted
<1>4. PICK o : o = Desired(q)
  OBVIOUS
<1>5. /\ o.managed /\ o.backend = q.b /\ o.model = q.m /\ o.key = q.ep.key
  BY <1>4 DEF Desired
<1>6. o # NoConfig
  BY <1>4, DesiredTypes, NullsAssumption, <1>0, CallStates DEF IndInv, TypeOK
<1>7. mc'[q.name] = o /\ \A n \in Name : n # q.name => mc'[n] = mc[n]
  BY <1>0, <1>1, <1>3, <1>4 DEF EnsureWrite
<1>8. AllManaged'
  BY <1>5, <1>7 DEF Turns, AllManaged
<1>9. \A n \in Name : n # q.name /\ mc[n] # NoConfig => ~Alike(mc[n], o) /\ ~Alike(o, mc[n])
  BY <1>1, <1>2, <1>5, NullsAssumption DEF OnlyIn, BackendMatches, Alike
<1>10. Unique'
  BY <1>7, <1>9 DEF Turns, Unique
<1>11. \A n \in Name : SecretFits(n)'
  <2> SUFFICES ASSUME NEW n \in Name, n # q.name PROVE SecretFits(n)'
    BY <1>0, <1>2, <1>5, <1>6, <1>7 DEF SecretFits
  <2>1. \A d \in Call : call[d] # Idle => ~Touches(call[d], n)
    BY <1>1 DEF Touches
  <2>2. SecretFits(n)
    BY <2>1 DEF Turns
  <2> QED BY <1>0, <1>7, <2>2 DEF SecretFits
<1> QED BY <1>0, <1>8, <1>10, <1>11, TurnsFrom

LEMMA RemoveFindTurn ==
    ASSUME IndInv, Turns, OneAtATime', NEW c \in Call,
           \A d \in Call \ {c} : call[d] = Idle /\ call'[d] = Idle,
           NEW i \in Instance, NEW b \in Backend, NEW m \in Model, NEW s \in Scope,
           RemoveFind(c, i, b, m, s)
    PROVE  Turns'
<1>0. /\ call \in [Call -> CallState] /\ call[c].pc = "idle" /\ UNCHANGED <<mc, secret>>
  BY DEF IndInv, TypeOK, RemoveFind, At, Store
<1>1. CASE UNCHANGED call
  BY <1>0, <1>1, CallStates, ReadTurn DEF Turns, Knows, OnlyIn
<1>2. ASSUME NEW f \in Find(b, m), call' = [call EXCEPT ![c] =
             [pc |-> "check", op |-> "remove", inst |-> i, b |-> b, m |-> m,
              ep |-> [name |-> NoName, key |-> FALSE], scope |-> s, name |-> f[1],
              old |-> IF f[2] THEN Legacy[f[1]] ELSE mc[f[1]], oldName |-> f[1],
              legacy |-> f[2], existing |-> NoConfig]]
      PROVE  Turns'
  <2>1. call'[c].pc = "check" /\ call'[c].op = "remove" /\ call'[c].oldName = f[1]
    BY <1>0, <1>2
  <2>2. f[1] # NoName
    BY FindTypes, NullsAssumption DEF IndInv
  <2>3. Knows(call[c])'
    BY <2>1, <2>2 DEF Knows
  <2> QED BY <1>0, <2>3, ReadTurn
<1> QED BY <1>1, <1>2 DEF RemoveFind

LEMMA TurnsKept ==
    ASSUME IndInv, Turns, OneAtATime', NEW c \in Call, Ensure(c) \/ Remove(c) \/ RemoveObj(c)
    PROVE  Turns'
<1>1. CASE UNCHANGED <<mc, secret, listed, refs, rv, call>>
  BY <1>1 DEF Turns, Unique, AllManaged, OneAtATime, Knows, OnlyIn, Touches, SecretFits
<1>2. CASE \A d \in Call \ {c} : call[d] = Idle /\ call'[d] = Idle
  <2>1. ASSUME Ensure(c) PROVE Turns'
    BY <1>2, <2>1, StartTurn, FindTurn, ExistingTurn, CheckTurn, EnsureSecretTurn, EnsureWriteTurn
    DEF Ensure
  <2>2. ASSUME Remove(c) PROVE Turns'
    BY <1>2, <2>2, RemoveFindTurn, CheckTurn DEF Remove
  <2>3. ASSUME RemoveObj(c) PROVE Turns'
    BY <1>2, <2>3, DeleteTurn, DropSecretTurn DEF RemoveObj
  <2> QED BY <2>1, <2>2, <2>3
<1> QED BY <1>1, <1>2, Solo DEF Turns

LEMMA TurnsStart == ASSUME MCInit PROVE SerialInv
<1> SUFFICES ASSUME part = "serial" PROVE Turns
  BY DEF SerialInv
<1>1. mc \in Older({"b1"}) \cup Older({NoBackend}) /\ mc \in [Name -> Config \cup {NoConfig}]
  BY SeedsAssumption DEF MCInit, Init, Seeded, Unlabelled
<1>2. \A n \in Name : mc[n] # NoConfig => n = Plain /\ mc[n].managed
  BY <1>1 DEF Older, Nothing, With, Object
<1>3. /\ secret = [n \in Name |-> IF mc[n] = NoConfig \/ ~mc[n].key THEN "none" ELSE "ours"]
      /\ call = [c \in Call |-> Idle]
  BY DEF MCInit, Init
<1>4. \A n \in Name : SecretFits(n)
  BY <1>3 DEF SecretFits
<1>5. Unique /\ AllManaged
  BY <1>2 DEF Unique, AllManaged
<1> QED BY <1>3, <1>4, <1>5 DEF Turns, OneAtATime

LEMMA SerialKept ==
    ASSUME IsFiniteSet(Call), Concurrent = 1, IndInv, SerialInv, [MCNext]_mcVars
    PROVE  SerialInv'
<1>1. CASE UNCHANGED mcVars
  BY <1>1 DEF mcVars, vars, SerialInv, Turns, Unique, AllManaged, OneAtATime, Knows, OnlyIn,
     Touches, SecretFits
<1>2. CASE MCNext /\ part = "serial"
  <2>1. Room' /\ part' = part
    BY <1>2 DEF MCNext, Within
  <2>2. (Cardinality(Busy) <= 1)'
    BY <1>2, <2>1 DEF Room
  <2>3. OneAtATime'
    <3>1. Cardinality({c \in Call : call'[c] # Idle}) <= 1
      BY <2>2 DEF Busy
    <3>2. {c \in Call : call'[c] # Idle} \in SUBSET Call
      OBVIOUS
    <3> QED BY <3>1, <3>2, AtMostOne DEF OneAtATime
  <2>4. PICK c \in Call : Ensure(c) \/ Remove(c) \/ RemoveObj(c)
    BY <1>2 DEF MCNext, Within
  <2> QED BY <1>2, <2>3, <2>4, TurnsKept DEF SerialInv
<1>3. CASE MCNext /\ part # "serial"
  BY <1>3 DEF MCNext, Within, SerialInv
<1> QED BY <1>1, <1>2, <1>3

LEMMA TurnsShow == ASSUME IndInv, SerialInv PROVE OneConfigWithItsSecret
<1> SUFFICES ASSUME part = "serial" PROVE OneConfigPerModel /\ SecretFollowsConfig
  BY DEF OneConfigWithItsSecret
<1>1. Turns
  BY DEF SerialInv
<1>2. OneConfigPerModel
  BY <1>1 DEF Turns, Unique, Alike, OneConfigPerModel
<1>3. SecretFollowsConfig
  BY <1>1 DEF Turns, AllManaged, SecretFits, SecretFollowsConfig, Quiet
<1> QED BY <1>2, <1>3

(* Calls that follow one another, however names are chosen, taken and given
   up, leave one ModelConfig per (backend, model), and a placeholder Secret
   exactly where one is read (Ensure, Remove and removeObj, from any older
   ModelConfig at the derived name). *)
THEOREM TurnsLeaveOneConfig ==
    ASSUME IsFiniteSet(Call), Concurrent = 1
    PROVE  MCSpec => []OneConfigWithItsSecret
<1>1. MCInit => IndInv /\ SerialInv
  BY InitInv, TurnsStart DEF MCInit
<1>2. IndInv /\ [MCNext]_mcVars => IndInv'
  BY StepsWithin, StepSound, SoundPreserves DEF IndInv
<1>3. IndInv /\ SerialInv /\ [MCNext]_mcVars => SerialInv'
  BY SerialKept
<1>4. IndInv /\ SerialInv => OneConfigWithItsSecret
  BY TurnsShow
<1> QED BY <1>1, <1>2, <1>3, <1>4, PTL DEF MCSpec
=============================================================================
