------------------------------ MODULE Settings ------------------------------
(***************************************************************************)
(* The settings of the kserve backend (config.go): one cache, shared by    *)
(* every caller, of what the platform says of its serving layer.  The      *)
(* platform installs in steps: a discovery document, later the GPU pool    *)
(* in it, the LLMInferenceService API, the control plane.  A resolve reads *)
(* them one by one, with the credentials of the call that needed it, while *)
(* other calls wait; a load uses the settings several times.               *)
(*                                                                         *)
(* The pool scales from zero or has one node, which only tolerating        *)
(* predictors reach; the LLM endpoint document stays.  Ages are in ticks   *)
(* and stop at their bound.                                                *)
(***************************************************************************)
EXTENDS Integers, FiniteSets

CONSTANTS
    Call, NoCall,
    Local,       \* the backend serves its own cluster
    SAReads,     \* the ServiceAccount may read (no downstream OAuth)
    Shapes,      \* the pool's instance shapes are registered
    TTL, ShortTTL,
    MaxRead,     \* ticks one resolve takes
    MaxChanges, MaxFailures

ASSUME SettingsBounds ==
    /\ {TTL, ShortTTL, MaxRead, MaxChanges, MaxFailures} \subseteq Nat
    /\ 0 < ShortTTL /\ ShortTTL < TTL /\ NoCall \notin Call

VARIABLES
    platform,  \* what the cluster says: document, LLM endpoint, API, control plane, node
    cached,    \* the cached settings; Blank when there are none
    age,       \* since they were read
    resolve,   \* the resolve in progress: whose, how far, what it read
    call,      \* per call: where it is and what it was told
    used      \* bounds: changes of the platform, faults

settingsVars == <<platform, cached, age, resolve, call, used>>

Blank == [doc |-> "error", endpoint |-> "none", api |-> "error", control |-> "no"]
Source == {"doc", "endpoint", "api", "control"}
NoResolve == [by |-> NoCall, at |-> "doc", read |-> Blank, saw |-> [f \in Source |-> {}], ticks |-> 0]

Errs(s) == s.doc = "error" \/ s.api = "error" \/ s.control = "error"

(* controlPlaneAbsent, servingUnavailable, poolUnnamed, discoveryPending *)
Absent(s) == ~Errs(s) /\ (s.api = "no" \/ s.control = "no")
Unavailable(s) == s.api # "yes" \/ s.control # "yes"
Unnamed(s) == s.doc = "unnamed" /\ Shapes
Pending(s) == s.doc = "absent" \/ Unnamed(s)

(* Nothing of the serving slice is missing. *)
Landed(s) == s.doc = "named" /\ s.api = "yes" /\ s.control = "yes"

-----------------------------------------------------------------------------
(* Mutant: settings resolved without the control plane stand as long as
   complete ones. *)
MutFresh(s) == s # Blank /\ age < (IF Pending(s) THEN ShortTTL ELSE TTL)

(* fresh *)
Fresh(s) == s # Blank /\ age < (IF Pending(s) \/ Absent(s) THEN ShortTTL ELSE TTL)

(* Mutant: every use of the settings takes what the cache holds. *)
MutStands(use) == Fresh(cached)

(* settings, settingsForLoad, recheckDiscovery: when a use of the settings
   is answered from the cache. *)
Stands(use) ==
    CASE use = "first" -> Fresh(cached) /\ ~Absent(cached)
      [] use = "recheck" -> cached # Blank /\ ~Pending(cached)
      [] OTHER -> Fresh(cached)

(* A list reports what the settings lack: the API, the control plane, the
   document or its pool (Info).  A load is refused without a control plane,
   then judged on the nodes, rechecked, judged on the pool, composed. *)
Told(c, pc, what) ==
    [call EXCEPT ![c] = [pc |-> pc, answer |-> what, node |-> FALSE, ready |-> call[c].ready,
                         cred |-> IF pc = "idle" THEN "none" ELSE call[c].cred]]
GoesOn(c, pc) == [call EXCEPT ![c].pc = pc]

(* discoveryMissing: whether a refusal says to retry. *)
Missing(s) == Unnamed(s) \/ s.doc \in {"absent", "error"}

Given(c, s) ==
    LET pc == call[c].pc IN
    CASE pc = "list" -> Told(c, "idle", IF Landed(s) THEN "complete" ELSE "lacking")
      [] pc = "first" -> IF Unavailable(s) THEN Told(c, "idle", "unavailable") ELSE GoesOn(c, "nodes")
      [] pc \in {"nodes", "again"} ->
           IF platform.node /\ s.doc = "named" THEN Told(c, "compose", "judged")
           ELSE [call EXCEPT ![c].pc = IF pc = "nodes" THEN "recheck" ELSE "pool", ![c].node = platform.node]
      [] pc = "pool" -> IF s.doc = "named" /\ (Shapes \/ ~call[c].node) THEN Told(c, "compose", "judged")
                        ELSE Told(c, "idle", IF Missing(s) THEN "retry" ELSE "refused")
      [] pc = "compose" -> Told(c, "idle", IF s.doc = "named" THEN "composed" ELSE "unpooled")

-----------------------------------------------------------------------------
(* Calls *)

Users == {"list", "first", "nodes", "again", "recheck", "pool", "compose"}

(* The clients a resolve tries: the caller's, then the configured one. *)
Answers(c) ==
    \/ call[c].cred = "good"
    \/ SAReads /\ (Local \/ call[c].cred = "none")

Begin(c) ==
    /\ call[c].pc = "idle"
    /\ \E kind \in {"list", "first"}, cred \in {"good", "dead"} \cup (IF SAReads THEN {"none"} ELSE {}) :
         call' = [call EXCEPT ![c] = [pc |-> kind, cred |-> cred, node |-> FALSE, answer |-> "none",
                                      ready |-> platform.done]]
    /\ UNCHANGED <<platform, cached, age, resolve, used>>

UseCached(c) ==
    /\ call[c].pc \in Users /\ resolve.by = NoCall /\ Stands(call[c].pc)
    /\ call' = IF call[c].pc = "recheck" THEN GoesOn(c, "pool") ELSE Given(c, cached)
    /\ UNCHANGED <<platform, cached, age, resolve, used>>

StartResolve(c) ==
    /\ call[c].pc \in Users /\ resolve.by = NoCall /\ ~Stands(call[c].pc)
    /\ resolve' = [NoResolve EXCEPT !.by = c, !.saw = [f \in Source |-> {platform[f]}]]
    /\ UNCHANGED <<platform, cached, age, call, used>>

(* One read: the first client that answers decides; a fault fails them all. *)
Got(c, from, v) ==
    /\ resolve.by = c /\ resolve.at = from /\ UNCHANGED <<platform, cached, age>>
    /\ resolve' = [resolve EXCEPT !.read[from] = v, !.at =
                     CASE from = "doc" -> "endpoint"
                       [] from = "endpoint" -> "api"
                       [] from = "api" /\ v = "yes" -> "control"
                       [] OTHER -> "store"]

OneFailure == used.faults < MaxFailures /\ used' = [used EXCEPT !.faults = @ + 1]
Fails(c) == call' = [call EXCEPT ![c].ready = -1]

Read(c, from) ==
    \/ Answers(c) /\ Got(c, from, platform[from]) /\ UNCHANGED <<call, used>>
    \/ Got(c, from, "error") /\ Fails(c) /\ IF Answers(c) THEN OneFailure ELSE UNCHANGED used

ReadDoc(c) == Read(c, "doc")

(* readLLMEndpoint: with the backend's own client, and only where it serves
   its own cluster; what it cannot read is as if there were none. *)
ReadEndpoint(c) ==
    /\ UNCHANGED call
    /\ \/ Got(c, "endpoint", IF Local THEN platform.endpoint ELSE "none") /\ UNCHANGED used
       \/ Local /\ Got(c, "endpoint", "none") /\ OneFailure

ReadApi(c) == Read(c, "api")

ReadControl(c) == Read(c, "control")

(* refresh: only a resolve that read everything replaces the cache; one that
   did not leaves the last good settings, if there are any.  A recheck is told
   whether it learnt more. *)
Learnt(s) == ~Errs(s) /\ s.doc # "absent" /\ (cached.doc \in {"absent", "error"} \/ ~Unnamed(s))

Answered(c, s) ==
    IF call[c].pc = "recheck" THEN GoesOn(c, IF Learnt(s) THEN "again" ELSE "pool")
    ELSE Given(c, IF Errs(s) /\ cached # Blank THEN cached ELSE s)

Done(c) == resolve.by = c /\ resolve.at = "store"

Store(c) ==
    /\ Done(c) /\ resolve' = NoResolve
    /\ IF Errs(resolve.read) THEN UNCHANGED <<cached, age>> ELSE cached' = resolve.read /\ age' = 0
    /\ call' = Answered(c, resolve.read) /\ UNCHANGED <<platform, used>>

Calls(c) ==
    \/ Begin(c) \/ UseCached(c) \/ StartResolve(c)
    \/ ReadDoc(c) \/ ReadEndpoint(c) \/ ReadApi(c) \/ ReadControl(c) \/ Store(c)

-----------------------------------------------------------------------------
(* The platform, and time *)

(* One part of the serving slice lands or goes; done counts the ticks since
   all of it is there. *)
Change ==
    /\ used.changes < MaxChanges /\ used' = [used EXCEPT !.changes = @ + 1]
    /\ \E f \in {"doc", "api", "control"}, v \in {"absent", "unnamed", "named", "no", "yes"} :
         LET p == [platform EXCEPT ![f] = v] IN
         /\ v # platform[f]
         /\ v \in IF f = "doc" THEN {"absent", "unnamed", "named"} ELSE {"no", "yes"}
         /\ p.control = "yes" => p.api = "yes"
         /\ platform' = [p EXCEPT !.done = IF Landed(p) THEN IF @ < 0 THEN 0 ELSE @ ELSE -1]
         /\ call' = [c \in Call |-> IF Landed(p) THEN call[c] ELSE [call[c] EXCEPT !.ready = -1]]
         /\ resolve' = IF resolve.by = NoCall THEN resolve ELSE [resolve EXCEPT !.saw[f] = @ \cup {v}]
    /\ UNCHANGED <<cached, age>>

NodeMoves ==
    /\ used.changes < MaxChanges /\ used' = [used EXCEPT !.changes = @ + 1]
    /\ platform' = [platform EXCEPT !.node = ~@]
    /\ UNCHANGED <<cached, age, resolve, call>>

Tick ==
    /\ resolve.by # NoCall => resolve.ticks < MaxRead
    /\ age' = IF cached # Blank /\ age < TTL THEN age + 1 ELSE age
    /\ platform' = [platform EXCEPT !.done = IF @ \in 0..(ShortTTL + MaxRead - 1) THEN @ + 1 ELSE @]
    /\ resolve' = [resolve EXCEPT !.ticks = IF resolve.by # NoCall THEN @ + 1 ELSE @]
    /\ UNCHANGED <<cached, call, used>>

SettingsInit ==
    /\ \E doc \in {"absent", "unnamed", "named"}, api, control \in {"no", "yes"} :
          /\ control = "yes" => api = "yes"
          /\ platform = [doc |-> doc, endpoint |-> "one", api |-> api, control |-> control, node |-> FALSE,
                         done |-> IF doc = "named" /\ control = "yes" THEN 0 ELSE -1]
    /\ cached = Blank /\ age = 0 /\ resolve = NoResolve
    /\ call = [c \in Call |-> [pc |-> "idle", cred |-> "none", node |-> FALSE, answer |-> "none",
                              ready |-> -1]]
    /\ used = [changes |-> 0, faults |-> 0]

SettingsNext == (\E c \in Call : Calls(c)) \/ Change \/ NodeMoves \/ Tick

SettingsSpec == SettingsInit /\ [][SettingsNext]_settingsVars

-----------------------------------------------------------------------------
(* Properties *)

SettingsTypeOK ==
    /\ cached \in [doc : {"absent", "unnamed", "named", "error"}, endpoint : {"none", "one"},
                   api : {"no", "yes", "error"}, control : {"no", "yes", "error"}]
    /\ age \in 0..TTL /\ resolve.by \in Call \cup {NoCall} /\ resolve.at \in Source \cup {"store"}
    /\ \A c \in Call : call[c].pc \in Users \cup {"idle"}

(* A load begun once the platform is complete, by a caller whose reads are
   answered, is not refused for what was cached before: the control plane, the
   document and its pool are looked at again first. *)
LandedIsServed ==
    \A c \in Call : call[c].ready >= 0 =>
        call[c].answer \notin {"unavailable", "refused", "retry", "unpooled"}

(* A list is not told that the document, its pool, the API or the control plane
   is missing once all of them have been there for a resolve and the short time
   that settings lacking one stand: what lacks only the control plane is read
   again as soon as what lacks the document. *)
ListsFollow ==
    \A c \in Call : call[c].ready = ShortTTL + MaxRead => call[c].answer # "lacking"

(* config.go:65, 330-334: a resolve error is never cached, also not that of
   the LLM endpoint document. *)
EndpointKept ==
    [][cached' # cached /\ Local => cached'.endpoint \in resolve.saw.endpoint]_settingsVars

(* backend.go:636-637: the object is composed with the settings the fit was
   judged on. *)
ComposedAsJudged == \A c \in Call : call[c].answer # "unpooled"

=============================================================================
