------------------------------ MODULE CacheIndex ------------------------------
(***************************************************************************)
(* internal/backend/kserve/index.go: the ConfigMap that remembers which    *)
(* repository filled which cache directory, and the driver's copy of it.   *)
(*                                                                         *)
(* Lists record the objects they found, unloads forget what is in no       *)
(* cache, deletes forget the directory they removed.  Every API request is *)
(* one step; the ConfigMap's resourceVersion is abstracted to whether it   *)
(* was written since a call read it.                                       *)
(***************************************************************************)
EXTENDS Naturals, FiniteSets

CONSTANTS
    Dir,            \* cache directories: the names of the serving objects
    Repo,           \* Hugging Face repositories
    Volume,         \* cache claims with the volume bound to them
    Caller,         \* calls of the driver under way at a time
    MaxIndexEvents, \* bound on what people and the cluster do
    MaxIndexFaults, \* bound on the requests that fail
    NoRepo,         \* the URI of an object that is not hf://
    None            \* no object, no cache, no entry, no ConfigMap, no copy

ASSUME IndexBounds == MaxIndexEvents \in Nat /\ MaxIndexFaults \in Nat

VARIABLES
    object,  \* object[d]: the model URI of the LLMInferenceService named d
    cache,   \* the cache of this moment
    stored,  \* the ConfigMap's entries
    copy,    \* cacheIndex: the driver's copy and whether it is within its TTL
    call,    \* call[c]
    events, faults

indexVars == <<object, cache, stored, copy, call, events, faults>>

Entry == [model: Repo, volume: Volume]
Entries == [Dir -> Entry \cup {None}]
Empty == [d \in Dir |-> None]

ASSUME NoneAssumption == None \notin Entries

(* want: the entries a list records, by their repository until the cache is
   located; drop: the directories to forget; read: what the last Get found;
   current: nobody has written the ConfigMap since. *)
CallState ==
    [pc: {"idle", "locate", "look", "looked", "get", "write"},
     kind: {"record", "unload", "forget"},
     want: [Dir -> Repo \cup Entry \cup {None}],
     drop: SUBSET Dir,
     read: Entries \cup {None},
     current: BOOLEAN,
     tries: 0..3]

IdleCall == [pc |-> "idle", kind |-> "forget", want |-> Empty, drop |-> {},
         read |-> None, current |-> FALSE, tries |-> 0]

IndexTypeOK ==
    /\ object \in [Dir -> Repo \cup {NoRepo, None}]
    /\ cache \in Volume \cup {None}
    /\ stored \in Entries \cup {None}
    /\ copy \in [entries: Entries \cup {None}, fresh: BOOLEAN]
    /\ call \in [Caller -> CallState]
    /\ events \in 0..MaxIndexEvents
    /\ faults \in 0..MaxIndexFaults

-----------------------------------------------------------------------------
Become(c, s) == call' = [call EXCEPT ![c] = s]
Content(m) == IF m = None THEN Empty ELSE m
Copied(m) == copy' = [entries |-> m, fresh |-> TRUE]

RequestFails == faults < MaxIndexFaults /\ faults' = faults + 1

(* indexEntryFor: only hf:// objects stand for a record. *)
Recordable == [d \in Dir |-> IF object[d] \in Repo THEN object[d] ELSE None]

(* What a call goes on with once it has read the index: a list writes when
   an entry is missing or says something else; an unload goes on with the
   entries of the objects it deleted. *)
Decided(q, entries) ==
    LET dirty == \E d \in Dir : q.want[d] # None /\ q.want[d] # entries[d]
        known == {d \in q.drop : entries[d] # None}
    IN IF q.kind = "record" /\ dirty THEN [q EXCEPT !.pc = "get", !.read = None]
       ELSE IF q.kind = "unload" /\ known # {}
            THEN [q EXCEPT !.pc = "locate", !.drop = known, !.read = entries]
       ELSE IdleCall

(* The entries bound to no cache of this moment. *)
Stale(q) == {d \in q.drop : cache = None \/ q.read[d].volume # cache}

-----------------------------------------------------------------------------
(* The calls *)

(* listServed ends with recordServed over the objects it listed. *)
List(c) ==
    /\ call[c].pc = "idle"
    /\ Recordable # Empty
    /\ Become(c, [IdleCall EXCEPT !.pc = "locate", !.kind = "record", !.want = Recordable])
    /\ UNCHANGED <<object, cache, stored, copy, events, faults>>

Bound(want) ==
    [d \in Dir |-> IF want[d] = None THEN None ELSE [model |-> want[d], volume |-> cache]]

(* recordServed locates the cache before it reads the index: none, missing or
   unbound records nothing.  forgetStale locates it after. *)
Locate(c) ==
    LET q == call[c] IN
    /\ q.pc = "locate"
    /\ \/ /\ q.kind = "record" /\ cache = None
          /\ Become(c, IdleCall) /\ UNCHANGED faults
       \/ /\ q.kind = "record" /\ cache # None
          /\ Become(c, [q EXCEPT !.pc = "look", !.want = Bound(@)])
          /\ UNCHANGED faults
       \/ /\ q.kind = "unload"
          /\ Become(c, IF Stale(q) = {} THEN IdleCall
                       ELSE [q EXCEPT !.pc = "get", !.drop = Stale(q), !.read = None])
          /\ UNCHANGED faults
       \/ RequestFails /\ Become(c, IdleCall)
    /\ UNCHANGED <<object, cache, stored, copy, events>>

(* Mutant: a copy is good forever. *)
MutUsable(k) == k.entries # None

Usable(k) == k.fresh

(* readIndex: the copy within its TTL, else a Get; one that fails leaves the
   copy there is. *)
Look(c) ==
    LET q == call[c] IN
    /\ q.pc = "look"
    /\ \/ /\ Usable(copy)
          /\ Become(c, Decided(q, Content(copy.entries))) /\ UNCHANGED faults
       \/ /\ ~Usable(copy)
          /\ Become(c, [q EXCEPT !.pc = "looked", !.read = stored]) /\ UNCHANGED faults
       \/ /\ ~Usable(copy) /\ RequestFails
          /\ Become(c, Decided(q, Content(copy.entries)))
    /\ UNCHANGED <<object, cache, stored, copy, events>>

(* What the Get found becomes the copy, whatever was copied meanwhile. *)
Looked(c) ==
    LET q == call[c] IN
    /\ q.pc = "looked"
    /\ Copied(Content(q.read))
    /\ Become(c, Decided(q, Content(q.read)))
    /\ UNCHANGED <<object, cache, stored, events, faults>>

(* updateIndex reads the ConfigMap; when the change changes nothing, or there
   is no ConfigMap and nothing to put in one, the copy is all it sets. *)
Changed(q, entries) ==
    [d \in Dir |-> IF d \in q.drop THEN None
                   ELSE IF q.want[d] # None THEN q.want[d] ELSE entries[d]]

Get(c) ==
    LET q == call[c]
        old == Content(stored)
        new == Changed(q, old) IN
    /\ q.pc = "get"
    /\ \/ /\ new = old
          /\ Copied(old) /\ Become(c, IdleCall)
          /\ UNCHANGED faults
       \/ /\ new # old
          /\ Become(c, [q EXCEPT !.pc = "write", !.read = stored, !.current = TRUE,
                                 !.tries = @ + 1])
          /\ UNCHANGED <<copy, faults>>
       \/ RequestFails /\ Become(c, IdleCall) /\ UNCHANGED copy
    /\ UNCHANGED <<object, cache, stored, events>>

(* The ConfigMap is written: every other call's read is behind now. *)
Writes(c, m) ==
    /\ stored' = m
    /\ call' = [x \in Caller |-> IF x = c THEN IdleCall
                               ELSE IF call[x].pc = "write" THEN [call[x] EXCEPT !.current = FALSE]
                               ELSE call[x]]

(* Conflict, AlreadyExists: read again, three times at most. *)
Retry(c) ==
    Become(c, IF call[c].tries < 3 THEN [call[c] EXCEPT !.pc = "get", !.read = None, !.current = FALSE]
              ELSE IdleCall)

(* Mutant: updates without the resourceVersion it read. *)
MutWrite(c) ==
    LET q == call[c]
        new == Changed(q, Content(q.read)) IN
    /\ q.pc = "write"
    /\ Writes(c, IF new = Empty THEN None ELSE new)
    /\ Copied(new)
    /\ UNCHANGED <<object, cache, events, faults>>

(* Create where there was none, Delete with the last entry, else Update: the
   last two with the resourceVersion read.  A delete of what is gone already
   is none, an update of it fails. *)
Write(c) ==
    LET q == call[c]
        new == Changed(q, Content(q.read))
        create == q.read = None
        gone == stored = None IN
    /\ q.pc = "write"
    /\ \/ /\ IF create THEN gone ELSE q.current \/ (gone /\ new = Empty)
          /\ Writes(c, IF new = Empty THEN None ELSE new)
          /\ Copied(new)
          /\ UNCHANGED faults
       \/ /\ ~gone /\ (create \/ ~q.current)
          /\ Retry(c)
          /\ UNCHANGED <<stored, copy, faults>>
       \/ /\ gone /\ ~create /\ new # Empty
          /\ Become(c, IdleCall)
          /\ UNCHANGED <<stored, copy, faults>>
       \/ RequestFails /\ Become(c, IdleCall) /\ UNCHANGED <<stored, copy>>
    /\ UNCHANGED <<object, cache, events>>

CallStep(c) == List(c) \/ Locate(c) \/ Look(c) \/ Looked(c) \/ Get(c) \/ Write(c)

-----------------------------------------------------------------------------
(* What people and the cluster do *)

Happens == events < MaxIndexEvents /\ events' = events + 1

(* An object is created: by a load, by the portal, by hand. *)
Serve(d, uri) ==
    /\ Happens
    /\ object[d] = None
    /\ object' = [object EXCEPT ![d] = uri]
    /\ UNCHANGED <<cache, stored, copy, call, faults>>

(* An unload deletes the object and then forgets what is in no cache; an
   object deleted by hand is forgotten by nobody. *)
UnloadObject(c, d) ==
    /\ Happens
    /\ object[d] # None /\ call[c].pc = "idle"
    /\ object' = [object EXCEPT ![d] = None]
    /\ \/ Become(c, [IdleCall EXCEPT !.pc = "look", !.kind = "unload", !.drop = {d}])
       \/ UNCHANGED call
    /\ UNCHANGED <<cache, stored, copy, faults>>

(* Delete has removed the directory of a model that is not served. *)
RemoveDir(c, d) ==
    /\ Happens
    /\ object[d] = None /\ call[c].pc = "idle"
    /\ Become(c, [IdleCall EXCEPT !.pc = "get", !.drop = {d}])
    /\ UNCHANGED <<object, cache, stored, copy, faults>>

(* The claim is deleted, or bound to another volume. *)
CacheMoves(v) ==
    /\ Happens
    /\ cache # v
    /\ cache' = v
    /\ UNCHANGED <<object, stored, copy, call, faults>>

(* Somebody deletes the ConfigMap. *)
Wiped ==
    /\ Happens
    /\ stored # None
    /\ stored' = None
    /\ call' = [x \in Caller |-> IF call[x].pc = "write" THEN [call[x] EXCEPT !.current = FALSE]
                               ELSE call[x]]
    /\ UNCHANGED <<object, cache, copy, faults>>

(* The inventory TTL of the copy passes. *)
Expires ==
    /\ copy.fresh
    /\ copy' = [copy EXCEPT !.fresh = FALSE]
    /\ UNCHANGED <<object, cache, stored, call, events, faults>>

-----------------------------------------------------------------------------
IndexInit ==
    /\ object = [d \in Dir |-> None]
    /\ cache \in Volume
    /\ stored = None
    /\ copy = [entries |-> None, fresh |-> FALSE]
    /\ call = [c \in Caller |-> IdleCall]
    /\ events = 0 /\ faults = 0

IndexNext ==
    \/ \E c \in Caller : CallStep(c)
    \/ \E d \in Dir, uri \in Repo \cup {NoRepo} : Serve(d, uri)
    \/ \E c \in Caller, d \in Dir : UnloadObject(c, d)
    \/ \E c \in Caller, d \in Dir : RemoveDir(c, d)
    \/ \E v \in Volume \cup {None} : CacheMoves(v)
    \/ Wiped
    \/ Expires

(* Lists go on (the reconciler lists every minute), requests return, the TTL
   passes. *)
IndexFairness == WF_indexVars(Expires) /\ \A c \in Caller : WF_indexVars(CallStep(c))

IndexSpec == IndexInit /\ [][IndexNext]_indexVars /\ IndexFairness

-----------------------------------------------------------------------------
(* The directories a call writes about. *)
Concerns(q) == q.drop \cup {d \in Dir : q.want[d] # None}

WritesNow(c) == call[c].pc = "write" /\ call'[c].pc = "idle" /\ stored' # stored

(* A call changes the entries of the directories it is about and no others:
   lists, unloads and deletes that overlap, and a ConfigMap created or deleted
   between the read and the write, lose nobody's record (index.go:307-361,
   the retried read-modify-write and the precondition of the last Delete). *)
OthersEntriesStay ==
    [][\A c \in Caller : WritesNow(c) =>
          \A d \in Dir \ Concerns(call[c]) : Content(stored')[d] = Content(stored)[d]]_indexVars

(* What stays served from a cache that stays is recorded in the end, with its
   repository and its volume, and remains so, whatever was written,
   lost, wiped or read too early on the way, as long as lists go on
   (index.go:180-240 compares with a copy that may be behind). *)
ServedGetsRecorded ==
    <>[](cache # None =>
            \A d \in Dir : object[d] \in Repo =>
                Content(stored)[d] = [model |-> object[d], volume |-> cache])

(* An unload keeps the record of a directory that is in the cache of this
   moment (index.go:264-268, "An entry bound to the cache of this moment
   stays"). *)
LiveRecordStays ==
    [][\A c \in Caller, d \in Dir :
          WritesNow(c) /\ call[c].kind = "unload" /\ d \in call[c].drop /\ stored # None
             => stored[d] = None \/ stored[d].volume # cache]_indexVars
==============================================================================
