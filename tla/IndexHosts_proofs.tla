-------------------------- MODULE IndexHosts_proofs --------------------------
(* Theorems about the index of the cache and the models of the host drivers,
   which share no state.  CacheIndex: any directories, repositories, volumes
   and calls under way, and whatever people, the cluster and failing requests
   do beside them.  HostModels: any hosts, models, aliases and calls, beside
   the loop, restarts, agents and people. *)
EXTENDS CacheIndex, HostModels, FiniteSetTheorems, WellFoundedInduction, TLAPS

-----------------------------------------------------------------------------
(* CacheIndex *)

(* What a call wants recorded is bound to a volume before it reads the index. *)
Wants(q) ==
    IF q.pc = "locate" /\ q.kind = "record" THEN q.want \in [Dir -> Repo \cup {None}]
    ELSE q.want \in Entries

(* A call about to write with a resourceVersion that is current has read what
   is stored; it reads three times at most. *)
Reads(q) ==
    /\ q.pc = "write" /\ q.current => q.read = stored
    /\ q.pc # "write" => q.tries < 3

CallsHold == \A c \in Caller : Wants(call[c]) /\ Reads(call[c])

IndInv == IndexTypeOK /\ CallsHold

Good(q) == q \in CallState /\ Wants(q) /\ Reads(q)

LEMMA InvGood ==
    ASSUME IndInv
    PROVE  \A c \in Caller : Good(call[c])
  BY DEF IndInv, IndexTypeOK, CallsHold, Good

LEMMA EmptyIsEntries == Empty \in Entries
  BY DEF Empty, Entries

LEMMA IdleIsGood == Good(IdleCall)
  BY EmptyIsEntries DEF Good, IdleCall, CallState, Wants, Reads, Entries

(* A step that moves one call and leaves the ConfigMap keeps every call sound. *)
LEMMA BecomeKeeps ==
    ASSUME IndInv, NEW c \in Caller, NEW s, Good(s), Become(c, s), stored' = stored
    PROVE  call' \in [Caller -> CallState] /\ CallsHold'
<1>1. call \in [Caller -> CallState]
  BY DEF IndInv, IndexTypeOK
<1>2. call' = [call EXCEPT ![c] = s] /\ s \in CallState
  BY DEF Become, Good
<1>3. call' \in [Caller -> CallState] /\ \A x \in Caller : call'[x] = IF x = c THEN s ELSE call[x]
  BY <1>1, <1>2
<1>4. \A x \in Caller : Wants(call'[x]) /\ Reads(call'[x])
  BY <1>3, InvGood DEF Good
<1>5. CallsHold'
  BY <1>4 DEF CallsHold, Wants, Reads
<1>6. QED
  BY <1>3, <1>5

-----------------------------------------------------------------------------
(* What the steps of a call make of it *)

LEMMA ContentTypes ==
    /\ \A m \in Entries \cup {None} : Content(m) \in Entries
  BY EmptyIsEntries DEF Content

LEMMA DecidedIsGood ==
    ASSUME NEW q, Good(q), q.pc \in {"look", "looked"}, NEW entries \in Entries
    PROVE  Good(Decided(q, entries))
<1> DEFINE known == {d \in q.drop : entries[d] # None}
<1>1. q \in CallState /\ q.want \in Entries
  BY DEF Good, Wants
<1>2. ASSUME q.kind = "record"
      PROVE  Good([q EXCEPT !.pc = "get", !.read = None])
  BY <1>1, <1>2 DEF Good, Wants, Reads, CallState
<1>3. ASSUME q.kind = "unload"
      PROVE  Good([q EXCEPT !.pc = "locate", !.drop = known, !.read = entries])
  BY <1>1, <1>3 DEF Good, Wants, Reads, CallState
<1>4. QED
  BY <1>2, <1>3, IdleIsGood DEF Decided

LEMMA BoundTypes ==
    ASSUME cache \in Volume, NEW want \in [Dir -> Repo \cup {None}]
    PROVE  Bound(want) \in Entries
  BY DEF Bound, Entries, Entry

LEMMA ChangedTypes ==
    ASSUME NEW q, q.want \in Entries, NEW entries \in Entries
    PROVE  Changed(q, entries) \in Entries
  BY DEF Changed, Entries

LEMMA RecordableTypes ==
    ASSUME IndexTypeOK
    PROVE  Recordable \in [Dir -> Repo \cup {None}]
  BY DEF IndexTypeOK, Recordable

(* The calls that begin. *)
LEMMA StartsAreGood ==
    /\ \A want \in [Dir -> Repo \cup {None}] :
          Good([IdleCall EXCEPT !.pc = "locate", !.kind = "record", !.want = want])
    /\ \A d \in Dir : /\ Good([IdleCall EXCEPT !.pc = "look", !.kind = "unload", !.drop = {d}])
                     /\ Good([IdleCall EXCEPT !.pc = "get", !.drop = {d}])
<1> USE DEF Good, Wants, Reads
<1>1. /\ IdleCall \in CallState /\ IdleCall.want \in Entries /\ IdleCall.tries = 0
  BY IdleIsGood DEF IdleCall
<1>2. ASSUME NEW want \in [Dir -> Repo \cup {None}]
      PROVE  Good([IdleCall EXCEPT !.pc = "locate", !.kind = "record", !.want = want])
  <2> DEFINE s == [IdleCall EXCEPT !.pc = "locate", !.kind = "record", !.want = want]
  <2>1. s \in CallState
    BY <1>1 DEF CallState
  <2>2. s.pc = "locate" /\ s.kind = "record" /\ s.want = want /\ s.tries = 0
    BY <1>1 DEF CallState
  <2>3. QED
    BY <2>1, <2>2
<1>3. ASSUME NEW d \in Dir
      PROVE  /\ Good([IdleCall EXCEPT !.pc = "look", !.kind = "unload", !.drop = {d}])
             /\ Good([IdleCall EXCEPT !.pc = "get", !.drop = {d}])
  <2>1. ASSUME NEW s \in CallState, s.pc \in {"look", "get"}, s.want = IdleCall.want, s.tries = 0
        PROVE  Good(s)
    BY <1>1, <2>1
  <2>2. {d} \subseteq Dir
    OBVIOUS
  <2>3. /\ [IdleCall EXCEPT !.pc = "look", !.kind = "unload", !.drop = {d}] \in CallState
        /\ [IdleCall EXCEPT !.pc = "get", !.drop = {d}] \in CallState
    BY <1>1, <2>2 DEF CallState
  <2>4. QED
    BY <1>1, <2>1, <2>3 DEF CallState
<1>4. QED
  BY <1>2, <1>3

(* What a step needs to be sound, beside its calls. *)
RestTyped ==
        /\ object' \in [Dir -> Repo \cup {NoRepo, None}]
        /\ cache' \in Volume \cup {None}
        /\ stored' \in Entries \cup {None}
        /\ copy' \in [entries: Entries \cup {None}, fresh: BOOLEAN]
        /\ events' \in 0..MaxIndexEvents
        /\ faults' \in 0..MaxIndexFaults

LEMMA StepOf ==
    ASSUME IndInv, NEW c \in Caller, NEW s, Good(s), Become(c, s), stored' = stored, RestTyped
    PROVE  IndInv'
  BY BecomeKeeps DEF IndInv, IndexTypeOK, RestTyped

LEMMA SameTypes ==
    ASSUME IndexTypeOK
    PROVE  /\ object' = object => object' \in [Dir -> Repo \cup {NoRepo, None}]
           /\ cache' = cache => cache' \in Volume \cup {None}
           /\ stored' = stored => stored' \in Entries \cup {None}
           /\ copy' = copy => copy' \in [entries: Entries \cup {None}, fresh: BOOLEAN]
           /\ events' = events => events' \in 0..MaxIndexEvents
           /\ faults' = faults \/ RequestFails => faults' \in 0..MaxIndexFaults
           /\ Happens => events' \in 0..MaxIndexEvents
           /\ \A m \in Entries \cup {None} : Copied(m) => copy' \in [entries: Entries \cup {None}, fresh: BOOLEAN]
<1>1. /\ events \in 0..MaxIndexEvents /\ faults \in 0..MaxIndexFaults
      /\ MaxIndexEvents \in Nat /\ MaxIndexFaults \in Nat
  BY IndexBounds DEF IndexTypeOK
<1>2. faults' = faults \/ RequestFails => faults' \in 0..MaxIndexFaults
  BY <1>1 DEF RequestFails
<1>3. (events' = events => events' \in 0..MaxIndexEvents) /\ (Happens => events' \in 0..MaxIndexEvents)
  BY <1>1 DEF Happens
<1>4. \A m \in Entries \cup {None} : Copied(m) => copy' \in [entries: Entries \cup {None}, fresh: BOOLEAN]
  BY DEF Copied
<1>5. QED
  BY <1>2, <1>3, <1>4 DEF IndexTypeOK

LEMMA ListStep ==
    ASSUME IndInv, NEW c \in Caller, List(c)
    PROVE  IndInv'
<1>1. Good([IdleCall EXCEPT !.pc = "locate", !.kind = "record", !.want = Recordable])
  BY RecordableTypes, StartsAreGood DEF IndInv
<1>2. RestTyped /\ stored' = stored
  BY SameTypes DEF List, RestTyped, IndInv
<1>3. QED
  BY <1>1, <1>2, StepOf DEF List

LEMMA LocateStep ==
    ASSUME IndInv, NEW c \in Caller, Locate(c)
    PROVE  IndInv'
<1> DEFINE q == call[c]
<1>1. Good(q) /\ q.pc = "locate"
  BY InvGood DEF Locate
<1>2. RestTyped /\ stored' = stored
  BY SameTypes DEF Locate, RestTyped, IndInv
<1>3. CASE Become(c, IdleCall)
  BY <1>2, <1>3, IdleIsGood, StepOf
<1>4. CASE /\ q.kind = "record" /\ cache # None
           /\ Become(c, [q EXCEPT !.pc = "look", !.want = Bound(@)])
  <2>1. Bound(q.want) \in Entries
    BY <1>1, <1>4, BoundTypes DEF Good, Wants, IndInv, IndexTypeOK
  <2>2. Bound(q.want) \in [Dir -> Repo \cup Entry \cup {None}]
    BY <2>1 DEF Entries
  <2>3. Good([q EXCEPT !.pc = "look", !.want = Bound(@)])
    BY <1>1, <2>1, <2>2 DEF Good, Wants, Reads, CallState
  <2>4. QED
    BY <1>2, <1>4, <2>3, StepOf
<1>5. CASE /\ q.kind = "unload"
           /\ Become(c, [q EXCEPT !.pc = "get", !.drop = Stale(q), !.read = None])
  <2>1. Stale(q) \subseteq Dir /\ q.want \in Entries
    BY <1>1, <1>5 DEF Stale, Good, CallState, Wants
  <2>2. Good([q EXCEPT !.pc = "get", !.drop = Stale(q), !.read = None])
    BY <1>1, <1>5, <2>1 DEF Good, Wants, Reads, CallState
  <2>3. QED
    BY <1>2, <1>5, <2>2, StepOf
<1>6. QED
  BY <1>3, <1>4, <1>5 DEF Locate

LEMMA LookStep ==
    ASSUME IndInv, NEW c \in Caller, Look(c)
    PROVE  IndInv'
<1> DEFINE q == call[c]
<1>1. Good(q) /\ q.pc = "look"
  BY InvGood DEF Look
<1>2. RestTyped /\ stored' = stored
  BY SameTypes DEF Look, RestTyped, IndInv
<1>3. Content(copy.entries) \in Entries
  BY ContentTypes DEF IndInv, IndexTypeOK
<1>4. CASE Become(c, Decided(q, Content(copy.entries)))
  BY <1>1, <1>2, <1>3, <1>4, DecidedIsGood, StepOf
<1>5. CASE Become(c, [q EXCEPT !.pc = "looked", !.read = stored])
  <2>1. stored \in Entries \cup {None}
    BY DEF IndInv, IndexTypeOK
  <2>2. Good([q EXCEPT !.pc = "looked", !.read = stored])
    BY <1>1, <2>1 DEF Good, Wants, Reads, CallState
  <2>3. QED
    BY <1>2, <1>5, <2>2, StepOf
<1>6. QED
  BY <1>4, <1>5 DEF Look

LEMMA LookedStep ==
    ASSUME IndInv, NEW c \in Caller, Looked(c)
    PROVE  IndInv'
<1> DEFINE q == call[c]
<1>1. Good(q) /\ q.pc = "looked"
  BY InvGood DEF Looked
<1>2. Content(q.read) \in Entries
  BY <1>1, ContentTypes DEF Good, CallState
<1>3. RestTyped /\ stored' = stored
  BY <1>2, SameTypes DEF Looked, RestTyped, IndInv
<1>4. QED
  BY <1>1, <1>2, <1>3, DecidedIsGood, StepOf DEF Looked

LEMMA GetStep ==
    ASSUME IndInv, NEW c \in Caller, Get(c)
    PROVE  IndInv'
<1> DEFINE q == call[c]
           old == Content(stored)
           toWrite == [q EXCEPT !.pc = "write", !.read = stored, !.current = TRUE, !.tries = @ + 1]
<1>1. Good(q) /\ q.pc = "get"
  BY InvGood DEF Get
<1>2. stored \in Entries \cup {None} /\ old \in Entries
  BY ContentTypes DEF IndInv, IndexTypeOK
<1>3. RestTyped /\ stored' = stored
  BY <1>2, SameTypes DEF Get, RestTyped, IndInv
<1>4. CASE Become(c, IdleCall)
  BY <1>3, <1>4, IdleIsGood, StepOf
<1>5. CASE Become(c, toWrite)
  <2>1. q \in CallState /\ q.tries \in 0..2
    BY <1>1 DEF Good, Reads, CallState
  <2>2. q.tries + 1 \in 0..3
    BY <2>1
  <2>3. toWrite \in CallState
    BY <1>2, <2>1, <2>2 DEF CallState
  <2>4. toWrite.pc = "write" /\ toWrite.read = stored /\ toWrite.want = q.want
    BY <2>1 DEF CallState
  <2>5. Good(toWrite)
    BY <1>1, <2>3, <2>4 DEF Good, Wants, Reads
  <2>6. QED
    BY <1>3, <1>5, <2>5, StepOf
<1>6. QED
  BY <1>4, <1>5 DEF Get

(* A write of the ConfigMap leaves no other call a current resourceVersion. *)
Behind(q) == IF q.pc = "write" THEN [q EXCEPT !.current = FALSE] ELSE q

LEMMA BehindIsGood ==
    ASSUME IndInv, NEW c \in Caller
    PROVE  /\ Behind(call[c]) \in CallState
           /\ Wants(Behind(call[c]))
           /\ Behind(call[c]).pc # "write" => Behind(call[c]).tries < 3
           /\ ~(Behind(call[c]).pc = "write" /\ Behind(call[c]).current)
  BY InvGood DEF Good, Behind, Wants, Reads, CallState

LEMMA WritesKeeps ==
    ASSUME IndInv, NEW c \in Caller, NEW m \in Entries \cup {None}, Writes(c, m), RestTyped
    PROVE  IndInv'
<1>1. call' = [x \in Caller |-> IF x = c THEN IdleCall ELSE Behind(call[x])]
  BY DEF Writes, Behind
<1>2. \A x \in Caller : call'[x] \in CallState
  BY <1>1, BehindIsGood, IdleIsGood DEF Good
<1>3. ASSUME NEW x \in Caller
      PROVE  /\ Wants(call'[x])
             /\ call'[x].pc = "write" /\ call'[x].current => call'[x].read = stored'
             /\ call'[x].pc # "write" => call'[x].tries < 3
  <2>1. CASE x = c
    <3>1. call'[x] = IdleCall
      BY <1>1, <2>1
    <3>2. Wants(IdleCall) /\ IdleCall.pc = "idle" /\ IdleCall.tries = 0
      BY IdleIsGood DEF Good, IdleCall
    <3>3. QED
      BY <3>1, <3>2
  <2>2. CASE x # c
    BY <1>1, <2>2, BehindIsGood
  <2>3. QED
    BY <2>1, <2>2
<1>4. call' \in [Caller -> CallState]
  BY <1>1, <1>2
<1>5. CallsHold'
  BY <1>3 DEF CallsHold, Wants, Reads
<1>6. QED
  BY <1>4, <1>5 DEF IndInv, IndexTypeOK, RestTyped

LEMMA WriteStep ==
    ASSUME IndInv, NEW c \in Caller, Write(c)
    PROVE  IndInv'
<1> DEFINE q == call[c]
           new == Changed(q, Content(q.read))
           put == IF new = Empty THEN None ELSE new
<1>1. Good(q) /\ q.pc = "write"
  BY InvGood DEF Write
<1>2. new \in Entries
  BY <1>1, ContentTypes, ChangedTypes DEF Good, Wants, CallState
<1>3. UNCHANGED <<object, cache, events>>
  BY DEF Write
<1>4. CASE Writes(c, put) /\ Copied(new) /\ UNCHANGED faults
  <2>1. put \in Entries \cup {None} /\ stored' = put
    BY <1>2, <1>4 DEF Writes
  <2>2. RestTyped
    BY <1>2, <1>3, <1>4, <2>1, SameTypes DEF IndInv, RestTyped
  <2>3. QED
    BY <1>4, <2>1, <2>2, WritesKeeps
<1>5. CASE /\ Become(c, IdleCall) \/ Retry(c)
           /\ UNCHANGED faults \/ RequestFails
           /\ UNCHANGED <<stored, copy>>
  <2>1. RestTyped
    BY <1>3, <1>5, SameTypes DEF IndInv, RestTyped
  <2>2. CASE Become(c, IdleCall)
    BY <1>5, <2>1, <2>2, IdleIsGood, StepOf
  <2>3. CASE /\ q.tries < 3
             /\ Become(c, [q EXCEPT !.pc = "get", !.read = None, !.current = FALSE])
    <3>1. Good([q EXCEPT !.pc = "get", !.read = None, !.current = FALSE])
      BY <1>1, <2>3 DEF Good, Wants, Reads, CallState
    <3>2. QED
      BY <1>5, <2>1, <2>3, <3>1, StepOf
  <2>4. QED
    BY <1>5, <2>2, <2>3 DEF Retry
<1>6. \/ Writes(c, put) /\ Copied(new) /\ UNCHANGED faults
      \/ /\ Become(c, IdleCall) \/ Retry(c)
         /\ UNCHANGED faults \/ RequestFails
         /\ UNCHANGED <<stored, copy>>
  BY DEF Write
<1>7. QED
  BY <1>4, <1>5, <1>6

-----------------------------------------------------------------------------
(* People and the cluster *)

LEMMA EventStep ==
    ASSUME IndInv, UNCHANGED call, stored' = stored, RestTyped
    PROVE  IndInv'
<1>1. CallsHold'
  BY DEF IndInv, CallsHold, Wants, Reads
<1>2. QED
  BY <1>1 DEF IndInv, IndexTypeOK, RestTyped

LEMMA ServeStep ==
    ASSUME IndInv, NEW d \in Dir, NEW uri \in Repo \cup {NoRepo}, Serve(d, uri)
    PROVE  IndInv'
<1>1. object' \in [Dir -> Repo \cup {NoRepo, None}]
  BY DEF Serve, IndInv, IndexTypeOK
<1>2. RestTyped
  BY <1>1, SameTypes DEF Serve, IndInv, RestTyped
<1>3. QED
  BY <1>2, EventStep DEF Serve

LEMMA UnloadStep ==
    ASSUME IndInv, NEW c \in Caller, NEW d \in Dir, UnloadObject(c, d)
    PROVE  IndInv'
<1>1. object' \in [Dir -> Repo \cup {NoRepo, None}]
  BY DEF UnloadObject, IndInv, IndexTypeOK
<1>2. RestTyped /\ stored' = stored
  BY <1>1, SameTypes DEF UnloadObject, IndInv, RestTyped
<1>3. QED
  BY <1>2, EventStep, StartsAreGood, StepOf DEF UnloadObject

LEMMA RemoveStep ==
    ASSUME IndInv, NEW c \in Caller, NEW d \in Dir, RemoveDir(c, d)
    PROVE  IndInv'
<1>1. RestTyped /\ stored' = stored
  BY SameTypes DEF RemoveDir, IndInv, RestTyped
<1>2. QED
  BY <1>1, StartsAreGood, StepOf DEF RemoveDir

LEMMA MovesStep ==
    ASSUME IndInv, NEW v \in Volume \cup {None}, CacheMoves(v)
    PROVE  IndInv'
<1>1. RestTyped /\ stored' = stored /\ UNCHANGED call
  BY SameTypes DEF CacheMoves, IndInv, RestTyped
<1>2. QED
  BY <1>1, EventStep

LEMMA ExpiresStep ==
    ASSUME IndInv, Expires
    PROVE  IndInv'
<1>1. copy' \in [entries: Entries \cup {None}, fresh: BOOLEAN]
  BY DEF Expires, IndInv, IndexTypeOK
<1>2. RestTyped /\ stored' = stored /\ UNCHANGED call
  BY <1>1, SameTypes DEF Expires, IndInv, RestTyped
<1>3. QED
  BY <1>2, EventStep

LEMMA WipedStep ==
    ASSUME IndInv, Wiped
    PROVE  IndInv'
<1>1. call' = [x \in Caller |-> Behind(call[x])] /\ stored' = None
  BY DEF Wiped, Behind
<1>2. RestTyped
  BY <1>1, SameTypes DEF Wiped, IndInv, RestTyped
<1>3. CallsHold' /\ call' \in [Caller -> CallState]
  BY <1>1, BehindIsGood DEF CallsHold, Wants, Reads
<1>4. QED
  BY <1>2, <1>3 DEF IndInv, IndexTypeOK, RestTyped

LEMMA InitHolds == IndexInit => IndInv
<1> SUFFICES ASSUME IndexInit PROVE IndInv
  OBVIOUS
<1>1. \A c \in Caller : call[c] = IdleCall
  BY DEF IndexInit
<1>2. CallsHold
  BY <1>1, IdleIsGood DEF CallsHold, Good
<1>3. call \in [Caller -> CallState]
  BY IdleIsGood DEF IndexInit, Good
<1>4. IndexTypeOK
  BY <1>3, IndexBounds DEF IndexInit, IndexTypeOK
<1>5. QED
  BY <1>2, <1>4 DEF IndInv

LEMMA NextStep ==
    ASSUME IndInv, [IndexNext]_indexVars
    PROVE  IndInv'
<1>1. CASE UNCHANGED indexVars
  BY <1>1 DEF indexVars, IndInv, IndexTypeOK, CallsHold, Wants, Reads
<1>2. ASSUME NEW c \in Caller, CallStep(c)
      PROVE  IndInv'
  BY <1>2, ListStep, LocateStep, LookStep, LookedStep, GetStep, WriteStep DEF CallStep
<1>3. QED
  BY <1>1, <1>2, ServeStep, UnloadStep, RemoveStep, MovesStep, WipedStep, ExpiresStep DEF IndexNext

-----------------------------------------------------------------------------
(* A call whose resourceVersion is current has read what is stored. *)
LEMMA Inductive == IndexSpec => []IndInv
  BY InitHolds, NextStep, PTL DEF IndexSpec

(* Types. *)
THEOREM TypeCorrect == IndexSpec => []IndexTypeOK
  BY Inductive, PTL DEF IndInv

(* Only its own write ends a call with another ConfigMap. *)
LEMMA WrittenByCall ==
    ASSUME IndInv, [IndexNext]_indexVars, NEW c \in Caller, WritesNow(c)
    PROVE  Write(c)
<1>1. call \in [Caller -> CallState]
  BY DEF IndInv, IndexTypeOK
<1>2. PICK d \in Caller : CallStep(d)
  <2>1. ~Wiped
    BY <1>1 DEF Wiped, WritesNow, CallState
  <2>2. QED
    BY <2>1 DEF IndexNext, indexVars, WritesNow, Serve, UnloadObject, RemoveDir, CacheMoves, Expires
<1>3. Write(d)
  BY <1>2 DEF CallStep, List, Locate, Look, Looked, Get, WritesNow
<1>4. d = c
  BY <1>1, <1>3 DEF Write, Writes, Retry, Become, WritesNow, CallState
<1>5. QED
  BY <1>3, <1>4

(* Whatever calls overlap, and whoever wipes the ConfigMap between the read and
   the write of a call, the write loses nobody else's record: the retried
   read-modify-write of updateIndex and the precondition of its Delete. *)
THEOREM RecordsStay == IndexSpec => OthersEntriesStay
<1>1. ASSUME IndInv, [IndexNext]_indexVars, NEW c \in Caller, WritesNow(c),
             NEW d \in Dir \ Concerns(call[c])
      PROVE  Content(stored')[d] = Content(stored)[d]
  <2> DEFINE q == call[c]
             new == Changed(q, Content(q.read))
             put == IF new = Empty THEN None ELSE new
  <2>1. Write(c)
    BY <1>1, WrittenByCall
  <2>2. Good(q) /\ q.pc = "write" /\ stored' # stored
    BY <1>1, InvGood DEF WritesNow
  <2>3. /\ stored' = put
        /\ IF q.read = None THEN stored = None ELSE q.current \/ (stored = None /\ new = Empty)
    BY <2>1, <2>2 DEF Write, Writes
  <2>4. stored = q.read
    BY <2>2, <2>3 DEF Good, Reads
  <2>5. Content(q.read) \in Entries
    BY <2>2, ContentTypes DEF Good, CallState
  <2>6. new \in Entries
    BY <2>2, <2>5, ChangedTypes DEF Good, Wants
  <2>7. Content(put) = new
    BY <2>6, NoneAssumption DEF Content
  <2>8. d \in Dir /\ d \notin q.drop /\ q.want[d] = None
    BY <1>1 DEF Concerns
  <2>9. new[d] = Content(q.read)[d]
    BY <2>8 DEF Changed
  <2>10. QED
    BY <2>3, <2>4, <2>7, <2>9
<1>2. IndInv /\ [IndexNext]_indexVars =>
        [\A c \in Caller : WritesNow(c) =>
          \A d \in Dir \ Concerns(call[c]) : Content(stored')[d] = Content(stored)[d]]_indexVars
  BY <1>1
<1>3. QED
  BY Inductive, <1>2, PTL DEF IndexSpec, OthersEntriesStay

-----------------------------------------------------------------------------
(* HostModels: what an unload saw, and what is there when it answers *)

Op == {"none", "load", "unload", "delete", "wire", "refresh"}
Pc == {"idle", "resolve", "go", "send", "wire", "ensure", "evict", "ok", "remove", "list", "item"}
Listed == Ref \X (Window \cup {0})
Work == Host \cup Instance \cup Listed

ActState == [op: Op, pc: Pc, ref: Ref \cup {""}, host: Host \cup {0}, key: Ref \cup {""},
             hits: SUBSET Host, todo: SUBSET Work, seen: SUBSET Instance]

(* A call that is past its resolve is on a host, about a model of a name; the
   loop is on its list. *)
Placed(q) ==
    /\ q.pc = "resolve" => q.todo \subseteq Host /\ q.ref \in Ref
    /\ q.pc \in {"go", "send", "wire", "ensure", "remove"} => q.host \in Host /\ q.key \in Ref
    /\ q.pc \in {"evict", "ok", "item"} => q.host \in Host
    /\ q.pc = "evict" => q.todo \subseteq Instance
    /\ q.op = "refresh" => q.pc \in {"list", "item", "wire", "ensure"} /\ q.todo \subseteq Listed

(* What an unload has seen and what of it is left to evict. *)
Evicts(q, n, held) ==
    /\ \A i \in q.seen : i.id <= n
    /\ q.pc = "evict" => q.seen \cap held[q.host] \subseteq q.todo
    /\ q.pc = "ok" => q.seen \cap held[q.host] = {}

HostWorld ==
    /\ driver \in [Host -> Driver] /\ window \in Window
    /\ library \in [Host -> SUBSET Key]
    /\ resident \in [Host -> SUBSET Instance]
    /\ config \in [Host -> [Ref -> Config]]
    /\ bounds \in [calls: Nat, events: Nat, faults: Nat, loads: 0..MaxLoads]
    /\ \A h \in Host : \A i \in resident[h] : i.id <= bounds.loads

(* An instance gets an id of its own, so what comes after the unload's list is
   none of what it saw. *)
HostInv ==
    /\ HostWorld
    /\ act \in [Actor -> ActState]
    /\ \A a \in Actor : Placed(act[a]) /\ Evicts(act[a], bounds.loads, resident)

LEMMA FirstHost ==
    ASSUME NEW S \in SUBSET Host, S # {}
    PROVE  Min(S) \in S
<1> DEFINE R == {ss \in Nat \X Nat : ss[1] < ss[2]}
<1>0. Host \subseteq Nat
  BY HostOrder, FS_CardinalityType
<1>1. IsWellFoundedOn(R, Nat)
  BY NatLessThanWellFounded DEF OpToRel
<1>2. PICK p \in S : \A q \in S : ~ (<<q, p>> \in R)
  <2> HIDE DEF R
  <2> QED BY <1>0, <1>1, WFMin
<1>3. \A q \in S : p <= q
  <2> TAKE q \in S
  <2>1. p \in Nat /\ q \in Nat
    BY <1>0
  <2>2. ~ (q < p)
    BY <1>2, <2>1
  <2> QED BY <2>1, <2>2
<1> QED BY <1>3 DEF Min

LEMMA OnlyHost ==
    ASSUME NEW S \in SUBSET Host, Cardinality(S) = 1
    PROVE  Min(S) \in Host
<1>1. IsFiniteSet(S)
  BY HostOrder, FS_Subset
<1>2. S # {}
  BY FS_EmptySet
<1> QED BY <1>2, FirstHost

LEMMA CanonicalType == \A r \in Ref : Canonical(r) \in Key /\ Canonical(r) \in Ref
  BY AliasNames DEF Canonical, Ref

LEMMA IdleActor == Idle \in ActState /\ Placed(Idle) /\ \A n, held : Evicts(Idle, n, held)
  BY DEF Idle, ActState, Op, Pc, Placed, Evicts

LEMMA ActorType ==
    ASSUME HostInv, NEW a \in Actor
    PROVE  /\ act[a] \in ActState /\ Placed(act[a]) /\ Evicts(act[a], bounds.loads, resident)
           /\ bounds.loads \in Nat
  BY HostBounds DEF HostInv, HostWorld

(* Instances go, or come with an id that is new. *)
Fresh == bounds.loads <= bounds'.loads
         /\ \A h \in Host : \A i \in resident'[h] : i \in resident[h] \/ i.id > bounds.loads

LEMMA EvictsStands ==
    ASSUME HostInv, HostWorld', Fresh, NEW b \in Actor
    PROVE  Evicts(act[b], bounds'.loads, resident')
<1> DEFINE s == act[b]
<1>0. bounds.loads \in Nat /\ bounds'.loads \in Nat
  BY HostBounds DEF HostInv, HostWorld
<1>1. s \in ActState /\ Placed(s) /\ Evicts(s, bounds.loads, resident)
  BY ActorType
<1> HIDE DEF s
<1>2. \A i \in s.seen : i.id \in Nat
  <2>1. s.seen \subseteq Instance
    BY <1>1 DEF ActState
  <2>2. \A i \in Instance : i.id \in Nat
    BY DEF Instance
  <2> QED BY <2>1, <2>2
<1>3. \A i \in s.seen : i.id <= bounds'.loads
  BY <1>0, <1>1, <1>2 DEF Evicts, Fresh
<1>4. s.host \in Host => s.seen \cap resident'[s.host] \subseteq s.seen \cap resident[s.host]
  BY <1>0, <1>1, <1>2 DEF Evicts, Fresh
<1>5. s.pc \in {"evict", "ok"} => s.host \in Host
  BY <1>1 DEF Placed
<1>6. Evicts(s, bounds'.loads, resident')
  BY <1>1, <1>3, <1>4, <1>5 DEF Evicts
<1> QED BY <1>6 DEF s

(* One actor moves. *)
LEMMA ActorMoves ==
    ASSUME HostInv, HostWorld', Fresh, NEW a \in Actor, NEW q \in ActState,
           act' = [act EXCEPT ![a] = q], Placed(q), Evicts(q, bounds'.loads, resident')
    PROVE  HostInv'
<1>1. act \in [Actor -> ActState]
  BY DEF HostInv
<1>2. act' \in [Actor -> ActState] /\ act'[a] = q /\ \A b \in Actor \ {a} : act'[b] = act[b]
  BY <1>1
<1>3. \A b \in Actor : Placed(act'[b])
  BY <1>2 DEF HostInv
<1>4. ASSUME NEW b \in Actor PROVE Evicts(act'[b], bounds'.loads, resident')
  <2>1. b # a => Evicts(act[b], bounds'.loads, resident')
    BY EvictsStands
  <2> QED BY <1>2, <2>1
<1>5. (\A b \in Actor : Placed(act[b]) /\ Evicts(act[b], bounds.loads, resident))'
  BY <1>3, <1>4 DEF Placed, Evicts
<1> QED BY <1>2, <1>5 DEF HostInv

(* The world moves, and no actor does. *)
LEMMA WorldMoves ==
    ASSUME HostInv, HostWorld', Fresh, act' = act
    PROVE  HostInv'
<1>1. \A b \in Actor : Evicts(act[b], bounds'.loads, resident')
  BY EvictsStands
<1>2. (\A b \in Actor : Placed(act[b]) /\ Evicts(act[b], bounds.loads, resident))'
  BY <1>1 DEF HostInv, Placed, Evicts
<1> QED BY <1>2 DEF HostInv

(* One actor moves, on a cluster whose instances stay. *)
LEMMA ActorOnly ==
    ASSUME HostInv, HostWorld', resident' = resident, bounds'.loads = bounds.loads,
           NEW a \in Actor, NEW q \in ActState, act' = [act EXCEPT ![a] = q],
           Placed(q), q.seen \in {{}, act[a].seen}, q.pc \notin {"evict", "ok"}
    PROVE  HostInv'
<1>1. bounds.loads \in Nat /\ Evicts(act[a], bounds.loads, resident)
  BY ActorType
<1>2. Evicts(q, bounds'.loads, resident') /\ Fresh
  BY <1>1 DEF Evicts, Fresh
<1> QED BY <1>2, ActorMoves

LEMMA GoesTo ==
    ASSUME HostInv, HostWorld', resident' = resident, bounds'.loads = bounds.loads,
           NEW a \in Actor, NEW pc \in Pc \ {"evict", "ok"}, Goto(a, pc),
           Placed([act[a] EXCEPT !.pc = pc])
    PROVE  HostInv'
<1> DEFINE q == [act[a] EXCEPT !.pc = pc]
<1>1. act' = [act EXCEPT ![a] = q]
  BY DEF Goto
<1>2. q \in ActState /\ q.seen = act[a].seen /\ q.pc = pc
  BY ActorType DEF ActState
<1> HIDE DEF q
<1>3. Placed(q)
  BY DEF q
<1> QED BY <1>1, <1>2, <1>3, ActorOnly

LEMMA Finishes ==
    ASSUME HostInv, HostWorld', Fresh, NEW a \in Actor, Finish(a)
    PROVE  HostInv'
  BY IdleActor, ActorMoves DEF Finish

LEMMA Spends ==
    ASSUME HostInv, NEW what \in {"calls", "events", "faults"}, NEW n, Spend(what, n)
    PROVE  /\ bounds' \in [calls: Nat, events: Nat, faults: Nat, loads: 0..MaxLoads]
           /\ bounds'.loads = bounds.loads
  BY DEF HostInv, HostWorld, Spend

LEMMA SameWorld ==
    ASSUME HostInv, Keep, library' \in [Host -> SUBSET Key], resident' = resident,
           config' \in [Host -> [Ref -> Config]],
           bounds' \in [calls: Nat, events: Nat, faults: Nat, loads: 0..MaxLoads],
           bounds'.loads = bounds.loads
    PROVE  HostWorld' /\ Fresh
  BY HostBounds DEF HostInv, HostWorld, Keep, Fresh

LEMMA StillWorld ==
    ASSUME HostInv, Keep, UNCHANGED <<library, resident, config>>,
           \/ UNCHANGED bounds
           \/ \E what \in {"calls", "events", "faults"}, n \in Nat : Spend(what, n)
    PROVE  HostWorld' /\ Fresh /\ bounds'.loads = bounds.loads /\ resident' = resident
<1>1. /\ bounds' \in [calls: Nat, events: Nat, faults: Nat, loads: 0..MaxLoads]
      /\ bounds'.loads = bounds.loads
  BY Spends DEF HostInv, HostWorld
<1> QED BY <1>1, SameWorld DEF HostInv, HostWorld

(* A host loads a model, or some of its instances go. *)
LEMMA OneMore ==
    ASSUME HostInv, NEW h \in Host, NEW k \in Key, Spend("loads", MaxLoads),
           resident' = [resident EXCEPT ![h] = @ \cup {[key |-> k, id |-> bounds.loads + 1]}],
           Keep, UNCHANGED <<library, config>>
    PROVE  HostWorld' /\ Fresh
<1> DEFINE new == [key |-> k, id |-> bounds.loads + 1]
<1>1. /\ resident \in [Host -> SUBSET Instance] /\ bounds.loads \in Nat
      /\ \A g \in Host : \A i \in resident[g] : i.id <= bounds.loads /\ i.id \in Nat
  BY HostBounds DEF HostInv, HostWorld, Instance
<1>2. /\ bounds' \in [calls: Nat, events: Nat, faults: Nat, loads: 0..MaxLoads]
      /\ bounds'.loads = bounds.loads + 1 /\ bounds.loads + 1 \in 1..MaxLoads
  BY HostBounds DEF HostInv, HostWorld, Spend
<1>3. new \in Instance /\ new.id = bounds.loads + 1
  BY <1>2 DEF Instance
<1> HIDE DEF new
<1>4. resident' = [resident EXCEPT ![h] = @ \cup {new}]
  BY DEF new
<1>5. /\ resident' \in [Host -> SUBSET Instance]
      /\ \A g \in Host : \A i \in resident'[g] : i \in resident[g] \/ i = new
  BY <1>1, <1>3, <1>4
<1>6. Fresh /\ \A g \in Host : \A i \in resident'[g] : i.id <= bounds'.loads
  BY <1>1, <1>2, <1>3, <1>5 DEF Fresh
<1> QED BY <1>2, <1>5, <1>6 DEF HostInv, HostWorld, Keep

LEMMA SomeLess ==
    ASSUME HostInv, NEW h \in Host, NEW S, resident' = [resident EXCEPT ![h] = @ \ S], Keep,
           library' \in [Host -> SUBSET Key], UNCHANGED config,
           bounds' \in [calls: Nat, events: Nat, faults: Nat, loads: 0..MaxLoads],
           bounds'.loads = bounds.loads
    PROVE  HostWorld' /\ Fresh /\ resident'[h] = resident[h] \ S
<1>1. resident \in [Host -> SUBSET Instance] /\ bounds.loads \in Nat
  BY HostBounds DEF HostInv, HostWorld
<1>2. /\ resident' \in [Host -> SUBSET Instance] /\ resident'[h] = resident[h] \ S
      /\ \A g \in Host : resident'[g] \subseteq resident[g]
  BY <1>1
<1>3. Fresh /\ \A g \in Host : \A i \in resident'[g] : i.id <= bounds'.loads
  BY <1>1, <1>2 DEF HostInv, HostWorld, Fresh
<1> QED BY <1>2, <1>3 DEF HostInv, HostWorld, Keep

-----------------------------------------------------------------------------
(* Every step keeps it *)

LEMMA BeginMoves ==
    ASSUME HostInv, NEW c \in Call, NEW op \in {"load", "unload", "delete", "wire"}, Begin(c, op)
    PROVE  HostInv'
<1>1. c \in Actor
  BY DEF Actor
<1>2. PICK r \in Ref, h \in Host \cup {0} :
         act' = [act EXCEPT ![c] = [Idle EXCEPT !.op = op, !.pc = "resolve", !.ref = r,
                                                !.todo = IF h = 0 THEN Host ELSE {h}]]
  BY DEF Begin
<1> DEFINE q == [Idle EXCEPT !.op = op, !.pc = "resolve", !.ref = r,
                             !.todo = IF h = 0 THEN Host ELSE {h}]
<1>3. q \in ActState /\ Placed(q) /\ q.seen = {} /\ q.pc = "resolve"
  BY DEF Idle, ActState, Op, Pc, Placed, Work
<1>4. HostWorld' /\ resident' = resident /\ bounds'.loads = bounds.loads
  BY StillWorld, HostBounds DEF Begin
<1> HIDE DEF q
<1>5. act' = [act EXCEPT ![c] = q]
  BY <1>2 DEF q
<1> QED BY <1>1, <1>3, <1>4, <1>5, ActorOnly

LEMMA ResolveMoves ==
    ASSUME HostInv, NEW c \in Call, Resolve(c)
    PROVE  HostInv'
<1> DEFINE s == act[c]  h == Min(s.todo)
<1>1. c \in Actor
  BY DEF Actor
<1>2. s \in ActState /\ Placed(s) /\ s.pc = "resolve" /\ s.todo \subseteq Host
  BY <1>1, ActorType DEF Resolve, Placed
<1>3. h \in Host
  BY <1>2, FirstHost DEF Resolve
<1>4. PICK hits \in {s.hits, s.hits \cup {h}} :
         act' = [act EXCEPT ![c] = [s EXCEPT !.todo = @ \ {h}, !.hits = hits]]
  <2>0. act \in [Actor -> ActState] /\ s.hits = s.hits \cup {} /\ [s EXCEPT !.hits = s.hits] = s
    BY <1>2 DEF HostInv, ActState
  <2>1. CASE act' = [act EXCEPT ![c].todo = @ \ {h}, ![c].hits = @ \cup IF Holds(h, s.ref) THEN {h} ELSE {}]
    BY <1>1, <2>0, <2>1
  <2>2. CASE act' = [act EXCEPT ![c].todo = @ \ {h}]
    <3>1. [s EXCEPT !.todo = @ \ {h}] = [s EXCEPT !.todo = @ \ {h}, !.hits = s.hits]
      BY <1>2 DEF ActState
    <3> QED BY <1>1, <2>2, <3>1
  <2> QED BY <2>1, <2>2 DEF Resolve
<1> DEFINE q == [s EXCEPT !.todo = @ \ {h}, !.hits = hits]
<1>5. q \in ActState /\ Placed(q) /\ q.seen = s.seen /\ q.pc = "resolve"
  BY <1>2, <1>3 DEF ActState, Placed
<1>6. HostWorld' /\ resident' = resident /\ bounds'.loads = bounds.loads
  BY StillWorld, HostBounds DEF Resolve
<1> HIDE DEF q
<1>7. act' = [act EXCEPT ![c] = q]
  BY <1>4 DEF q
<1> QED BY <1>1, <1>5, <1>6, <1>7, ActorOnly

LEMMA ResolvedMoves ==
    ASSUME HostInv, NEW c \in Call, Resolved(c)
    PROVE  HostInv'
<1> DEFINE s == act[c]  h == Min(s.hits)
<1>1. c \in Actor /\ s \in ActState /\ Placed(s) /\ s.pc = "resolve" /\ s.ref \in Ref /\ s.op # "refresh"
  BY ActorType DEF Resolved, Placed, Actor
<1>2. HostWorld' /\ Fresh /\ resident' = resident /\ bounds'.loads = bounds.loads
  BY StillWorld DEF Resolved
<1>3. CASE Cardinality(s.hits) # 1
  BY <1>1, <1>2, <1>3, Finishes DEF Resolved
<1>4. CASE Cardinality(s.hits) = 1
  <2>1. h \in Host
    BY <1>1, <1>4, OnlyHost DEF ActState
  <2> DEFINE q == [s EXCEPT !.pc = "go", !.host = h, !.key = Canonical(s.ref), !.hits = {}]
  <2>2. q \in ActState /\ Placed(q) /\ q.seen = s.seen /\ q.pc = "go"
    BY <1>1, <2>1, CanonicalType DEF ActState, Placed, Pc
  <2>3. act' = [act EXCEPT ![c] = q]
    BY <1>4 DEF Resolved
  <2> HIDE DEF q
  <2> QED BY <1>1, <1>2, <2>2, <2>3, ActorOnly
<1> QED BY <1>3, <1>4

LEMMA LoadMoves ==
    ASSUME HostInv, NEW c \in Call, Load(c)
    PROVE  HostInv'
<1> DEFINE s == act[c]
<1>1. c \in Actor /\ s \in ActState /\ Placed(s) /\ s.host \in Host /\ s.key \in Ref /\ s.op = "load"
  BY ActorType DEF Load, LoadLook, LoadSend, At, Placed, Actor
<1>2. ASSUME NEW pc \in {"wire", "send"} PROVE Placed([s EXCEPT !.pc = pc])
  BY <1>1 DEF Placed, ActState
<1>3. CASE LoadLook(c)
  <2>1. HostWorld' /\ resident' = resident /\ bounds'.loads = bounds.loads
    BY <1>3, StillWorld DEF LoadLook
  <2> QED BY <1>1, <1>2, <1>3, <2>1, GoesTo DEF LoadLook, Pc
<1>4. CASE LoadSend(c) /\ UNCHANGED <<resident, bounds>>
  <2>1. HostWorld' /\ Fresh /\ resident' = resident /\ bounds'.loads = bounds.loads
    BY <1>4, StillWorld DEF LoadSend
  <2>2. Goto(c, "wire") \/ Finish(c)
    BY <1>4 DEF LoadSend
  <2> QED BY <1>1, <1>2, <2>1, <2>2, GoesTo, Finishes DEF Pc
<1>5. CASE LoadSend(c) /\ ~UNCHANGED <<resident, bounds>>
  <2>1. /\ s.key \in library[s.host] /\ Keep /\ UNCHANGED <<library, config>>
        /\ Spend("loads", MaxLoads)
        /\ resident' = [resident EXCEPT ![s.host] = @ \cup {[key |-> s.key, id |-> bounds.loads + 1]}]
        /\ Goto(c, "wire") \/ Finish(c)
    BY <1>5 DEF LoadSend
  <2>2. s.key \in Key
    BY <1>1, <2>1 DEF HostInv, HostWorld
  <2>3. HostWorld' /\ Fresh
    BY <1>1, <2>1, <2>2, OneMore
  <2>4. CASE Finish(c)
    BY <1>1, <2>3, <2>4, Finishes
  <2>5. CASE Goto(c, "wire")
    <3> DEFINE q == [s EXCEPT !.pc = "wire"]
    <3>1. q \in ActState /\ Placed(q) /\ q.seen = s.seen /\ q.pc = "wire"
      BY <1>1, <1>2 DEF ActState, Pc
    <3>2. Evicts(s, bounds'.loads, resident')
      BY <1>1, <2>3, EvictsStands
    <3>3. act' = [act EXCEPT ![c] = q]
      BY <2>5 DEF Goto
    <3> HIDE DEF q
    <3>4. Evicts(q, bounds'.loads, resident')
      BY <3>1, <3>2 DEF Evicts
    <3> QED BY <1>1, <2>3, <3>1, <3>3, <3>4, ActorMoves
  <2> QED BY <2>1, <2>4, <2>5
<1> QED BY <1>3, <1>4, <1>5 DEF Load

LEMMA WireMoves ==
    ASSUME HostInv, NEW a \in Actor, WireLook(a) \/ WireEnsure(a) \/ (a \in Call /\ Wire(a))
    PROVE  HostInv'
<1> DEFINE s == act[a]
<1>1. s \in ActState /\ Placed(s)
  BY ActorType
<1>2. CASE WireLook(a)
  <2>1. HostWorld' /\ resident' = resident /\ bounds'.loads = bounds.loads
    BY <1>2, StillWorld, HostBounds DEF WireLook
  <2>2. CASE Goto(a, "ensure")
    <3>1. Placed([s EXCEPT !.pc = "ensure"])
      BY <1>1, <1>2 DEF WireLook, Placed, ActState
    <3> QED BY <2>1, <2>2, <3>1, GoesTo DEF Pc
  <2>3. CASE act' = [act EXCEPT ![a].pc = "ensure", ![a].key = IF Holds(s.host, @) THEN Canonical(@) ELSE @]
    <3> DEFINE key == IF Holds(s.host, s.key) THEN Canonical(s.key) ELSE s.key
               q == [s EXCEPT !.pc = "ensure", !.key = key]
    <3>0. s.key \in Ref /\ s.host \in Host
      BY <1>1, <1>2 DEF WireLook, Placed
    <3>1. key \in Ref
      BY <3>0, CanonicalType
    <3>2. act' = [act EXCEPT ![a] = q]
      BY <2>3 DEF HostInv
    <3> HIDE DEF key
    <3>3. q \in ActState /\ Placed(q) /\ q.seen = s.seen /\ q.pc = "ensure"
      BY <1>1, <1>2, <3>0, <3>1 DEF WireLook, ActState, Placed, Pc
    <3> HIDE DEF q
    <3> QED BY <2>1, <3>2, <3>3, ActorOnly
  <2> QED BY <1>2, <2>2, <2>3 DEF WireLook
<1>3. CASE WireEnsure(a)
  <2>0. s.host \in Host /\ s.key \in Ref
    BY <1>1, <1>3 DEF WireEnsure, Placed
  <2>1. config' \in [Host -> [Ref -> Config]]
    <3> DEFINE new == [by |-> "here", window |-> EndpointWindow(s.host), flux |-> FALSE]
    <3>1. new \in Config /\ config \in [Host -> [Ref -> Config]]
      BY DEF HostInv, HostWorld, Config, EndpointWindow
    <3>2. config' \in {config, [config EXCEPT ![s.host][s.key] = new]}
      BY <1>3 DEF WireEnsure
    <3> HIDE DEF new
    <3> QED BY <2>0, <3>1, <3>2
  <2>2. HostWorld' /\ resident' = resident /\ bounds'.loads = bounds.loads
    <3>1. /\ bounds' \in [calls: Nat, events: Nat, faults: Nat, loads: 0..MaxLoads]
          /\ bounds'.loads = bounds.loads
      BY <1>3, Spends, HostBounds DEF WireEnsure, HostInv, HostWorld
    <3> QED BY <1>3, <2>1, <3>1, SameWorld DEF WireEnsure, HostInv, HostWorld
  <2> DEFINE q == IF a = Loop THEN [s EXCEPT !.pc = "item", !.key = ""] ELSE Idle
  <2>3. q \in ActState /\ Placed(q) /\ q.seen \in {{}, s.seen} /\ q.pc \notin {"evict", "ok"}
    <3>1. CASE a = Loop
      <4>1. q \in ActState /\ q.pc = "item" /\ q.seen = s.seen /\ q.host = s.host /\ q.todo = s.todo /\ q.op = s.op
        BY <1>1, <3>1 DEF ActState, Pc
      <4> HIDE DEF q
      <4> QED BY <1>1, <2>0, <4>1 DEF Placed
    <3>2. CASE a # Loop
      BY <3>2, IdleActor DEF Idle
    <3> QED BY <3>1, <3>2
  <2>4. act' = [act EXCEPT ![a] = q]
    BY <1>3 DEF WireEnsure
  <2> HIDE DEF q
  <2> QED BY <2>2, <2>3, <2>4, ActorOnly
<1>4. CASE a \in Call /\ Wire(a)
  <2>1. HostWorld' /\ resident' = resident /\ bounds'.loads = bounds.loads
    BY <1>4, StillWorld DEF Wire
  <2>2. Placed([s EXCEPT !.pc = "wire"])
    BY <1>1, <1>4 DEF Wire, At, Placed, ActState
  <2> QED BY <1>4, <2>1, <2>2, GoesTo DEF Wire, Pc
<1> QED BY <1>2, <1>3, <1>4

LEMMA PullMoves ==
    ASSUME HostInv, NEW c \in Call, PullWires(c)
    PROVE  HostInv'
<1>1. PICK h \in Host, r \in Ref :
         /\ library' = [library EXCEPT ![h] = @ \cup {Canonical(r)}]
         /\ act' = [act EXCEPT ![c] = [Idle EXCEPT !.op = "wire", !.pc = "wire", !.host = h, !.key = r]]
  BY DEF PullWires
<1> DEFINE q == [Idle EXCEPT !.op = "wire", !.pc = "wire", !.host = h, !.key = r]
<1>2. q \in ActState /\ Placed(q) /\ q.seen = {} /\ q.pc = "wire"
  BY DEF Idle, ActState, Op, Pc, Placed
<1>3. HostWorld' /\ resident' = resident /\ bounds'.loads = bounds.loads
  <2>1. library' \in [Host -> SUBSET Key]
    BY <1>1, CanonicalType DEF HostInv, HostWorld
  <2>2. resident' = resident /\ config' = config /\ Spend("calls", MaxCalls) /\ Keep
    BY DEF PullWires
  <2> QED BY <2>1, <2>2, Spends, SameWorld DEF HostInv, HostWorld
<1> HIDE DEF q
<1>4. act' = [act EXCEPT ![c] = q] /\ c \in Actor
  BY <1>1 DEF q, Actor
<1> QED BY <1>2, <1>3, <1>4, ActorOnly

(* The instances an unload evicts are those it saw, less the evicted. *)
LEMMA UnloadMoves ==
    ASSUME HostInv, NEW c \in Call, Unload(c)
    PROVE  HostInv'
<1> DEFINE s == act[c]
<1>1. /\ c \in Actor /\ s \in ActState /\ Placed(s) /\ Evicts(s, bounds.loads, resident)
      /\ act \in [Actor -> ActState] /\ resident \in [Host -> SUBSET Instance]
      /\ bounds.loads \in Nat
  BY ActorType DEF Actor, HostInv, HostWorld
<1>2. \A h \in Host : \A k : /\ InstancesOf(h, k) \subseteq resident[h]
                         /\ InstancesOf(h, k) \subseteq Instance
                         /\ \A i \in InstancesOf(h, k) : i.id <= bounds.loads
  BY <1>1 DEF InstancesOf, HostInv, HostWorld
<1>3. CASE UnloadModel(c)
  <2>1. CASE Finish(c) /\ UNCHANGED resident
    BY <1>1, <1>3, <2>1, StillWorld, Finishes DEF UnloadModel
  <2>2. CASE ~(Finish(c) /\ UNCHANGED resident)
    <3> DEFINE seen == InstancesOf(s.host, s.key)
               q == [s EXCEPT !.pc = "ok", !.seen = seen]
    <3>1. s.host \in Host /\ s.op = "unload"
      BY <1>1, <1>3 DEF UnloadModel, At, Placed
    <3>2. resident' = [resident EXCEPT ![s.host] = @ \ seen] /\ act' = [act EXCEPT ![c] = q]
      BY <1>1, <1>3, <2>2 DEF UnloadModel
    <3>3. seen \in SUBSET Instance /\ \A i \in seen : i.id <= bounds.loads
      BY <1>2, <3>1
    <3> HIDE DEF seen
    <3>4. HostWorld' /\ Fresh /\ resident'[s.host] = resident[s.host] \ seen /\ bounds' = bounds
      BY <1>3, <3>1, <3>2, SomeLess DEF UnloadModel, HostInv, HostWorld
    <3>5. q \in ActState /\ Placed(q) /\ q.seen = seen /\ q.pc = "ok" /\ q.host = s.host
      BY <1>1, <3>1, <3>3 DEF ActState, Placed, Pc
    <3> HIDE DEF q
    <3>6. Evicts(q, bounds'.loads, resident')
      BY <3>3, <3>4, <3>5 DEF Evicts
    <3> QED BY <1>1, <3>2, <3>4, <3>5, <3>6, ActorMoves
  <2> QED BY <2>1, <2>2
<1>4. CASE UnloadLook(c)
  <2> DEFINE seen == InstancesOf(s.host, s.key)
             q == [s EXCEPT !.pc = "evict", !.seen = seen, !.todo = seen]
  <2>1. s.host \in Host /\ s.op = "unload"
    BY <1>1, <1>4 DEF UnloadLook, At, Placed
  <2>2. act' = [act EXCEPT ![c] = q]
    BY <1>1, <1>4 DEF UnloadLook
  <2>3. seen \in SUBSET Instance /\ \A i \in seen : i.id <= bounds.loads
    BY <1>2, <2>1
  <2> HIDE DEF seen
  <2>4. HostWorld' /\ Fresh /\ resident' = resident /\ bounds' = bounds
    BY <1>4, StillWorld DEF UnloadLook
  <2>5. q \in ActState /\ Placed(q) /\ q.seen = seen /\ q.todo = seen /\ q.pc = "evict"
    BY <1>1, <2>1, <2>3 DEF ActState, Placed, Pc, Work
  <2> HIDE DEF q
  <2>6. Evicts(q, bounds'.loads, resident')
    BY <2>3, <2>4, <2>5 DEF Evicts
  <2> QED BY <1>1, <2>2, <2>4, <2>5, <2>6, ActorMoves
<1>5. CASE UnloadEach(c)
  <2>1. PICK i \in s.todo : /\ resident' = [resident EXCEPT ![s.host] = @ \ {i}]
                            /\ act' = [act EXCEPT ![c].todo = @ \ {i}]
    BY <1>5 DEF UnloadEach
  <2> DEFINE q == [s EXCEPT !.todo = @ \ {i}]
  <2>2. s.host \in Host /\ s.op = "unload" /\ s.pc = "evict" /\ s.todo \subseteq Instance
    BY <1>1, <1>5 DEF UnloadEach, At, Placed
  <2>3. HostWorld' /\ Fresh /\ resident'[s.host] = resident[s.host] \ {i} /\ bounds' = bounds
    BY <1>5, <2>1, <2>2, SomeLess DEF UnloadEach, HostInv, HostWorld
  <2>4. q \in ActState /\ Placed(q) /\ q.seen = s.seen /\ q.todo = s.todo \ {i} /\ q.pc = "evict" /\ q.host = s.host
    BY <1>1, <2>2 DEF ActState, Placed
  <2>5. act' = [act EXCEPT ![c] = q]
    BY <1>1, <2>1
  <2> HIDE DEF q
  <2>6. Evicts(q, bounds'.loads, resident')
    BY <1>1, <2>2, <2>3, <2>4 DEF Evicts
  <2> QED BY <1>1, <2>3, <2>4, <2>5, <2>6, ActorMoves
<1>6. CASE UnloadFails(c)
  BY <1>1, <1>6, HostBounds, StillWorld, Finishes DEF UnloadFails, ReadFails, Keep
<1>7. CASE UnloadDone(c)
  <2> DEFINE q == [s EXCEPT !.pc = "ok"]
  <2>1. s.host \in Host /\ s.op = "unload" /\ s.pc = "evict" /\ s.todo = {}
    BY <1>1, <1>7 DEF UnloadDone, At, Placed
  <2>2. HostWorld' /\ Fresh /\ resident' = resident /\ bounds' = bounds
    BY <1>7, StillWorld DEF UnloadDone
  <2>3. q \in ActState /\ Placed(q) /\ q.seen = s.seen /\ q.pc = "ok" /\ q.host = s.host
    BY <1>1, <2>1 DEF ActState, Placed, Pc
  <2>4. act' = [act EXCEPT ![c] = q]
    BY <1>7 DEF UnloadDone, Goto
  <2> HIDE DEF q
  <2>5. Evicts(q, bounds'.loads, resident')
    BY <1>1, <2>1, <2>2, <2>3 DEF Evicts
  <2> QED BY <1>1, <2>2, <2>3, <2>4, <2>5, ActorMoves
<1>8. CASE Answer(c)
  BY <1>1, <1>8, StillWorld, Finishes DEF Answer
<1> QED BY <1>3, <1>4, <1>5, <1>6, <1>7, <1>8 DEF Unload

LEMMA DeleteMoves ==
    ASSUME HostInv, NEW c \in Call, Delete(c)
    PROVE  HostInv'
<1> DEFINE s == act[c]
<1>1. c \in Actor /\ s \in ActState /\ Placed(s) /\ s.host \in Host /\ s.key \in Ref /\ s.op = "delete"
  BY ActorType DEF Delete, DeleteUnwire, DeleteModel, At, Placed, Actor
<1>2. CASE DeleteUnwire(c)
  <2>1. config' \in [Host -> [Ref -> Config]]
    <3>1. NoConfig \in Config /\ config \in [Host -> [Ref -> Config]]
      BY DEF HostInv, HostWorld, NoConfig, Config
    <3>2. config' = config \/ config' = [config EXCEPT ![s.host][s.key] = NoConfig]
      BY <1>2 DEF DeleteUnwire
    <3> QED BY <1>1, <3>1, <3>2
  <2>2. HostWorld' /\ Fresh /\ resident' = resident /\ bounds'.loads = bounds.loads
    BY <1>2, <2>1, SameWorld DEF DeleteUnwire, HostInv, HostWorld
  <2>3. Placed([s EXCEPT !.pc = "remove"])
    BY <1>1 DEF Placed, ActState
  <2>4. Finish(c) \/ Goto(c, "remove")
    BY <1>2 DEF DeleteUnwire
  <2> QED BY <1>1, <2>2, <2>3, <2>4, Finishes, GoesTo DEF Pc
<1>3. CASE DeleteModel(c)
  <2>1. library' \in [Host -> SUBSET Key]
    BY <1>3 DEF DeleteModel, HostInv, HostWorld
  <2>2. HostWorld' /\ Fresh
    BY <1>1, <1>3, <2>1, SomeLess DEF DeleteModel, HostInv, HostWorld
  <2> QED BY <1>1, <1>3, <2>2, Finishes DEF DeleteModel
<1> QED BY <1>2, <1>3 DEF Delete

LEMMA RefreshMoves ==
    ASSUME HostInv, RefreshPass \/ RefreshList \/ RefreshItem \/ RefreshFails
    PROVE  HostInv'
<1> DEFINE s == act[Loop]
<1>1. Loop \in Actor /\ s \in ActState /\ Placed(s) /\ act \in [Actor -> ActState]
  BY ActorType DEF Actor, HostInv
<1>2. CASE RefreshPass
  <2> DEFINE q == [Idle EXCEPT !.op = "refresh", !.pc = "list", !.hits = Host]
  <2>1. q \in ActState /\ Placed(q) /\ q.seen = {} /\ q.pc = "list"
    BY DEF Idle, ActState, Op, Pc, Placed
  <2>2. act' = [act EXCEPT ![Loop] = q]
    BY <1>2 DEF RefreshPass
  <2> HIDE DEF q
  <2> QED BY <1>1, <1>2, <2>1, <2>2, StillWorld, ActorOnly DEF RefreshPass
<1>3. CASE RefreshList
  <2>0. HostWorld' /\ Fresh /\ resident' = resident /\ bounds'.loads = bounds.loads
    BY <1>3, StillWorld DEF RefreshList
  <2>1. CASE s.hits = {}
    BY <1>1, <1>3, <2>0, <2>1, Finishes DEF RefreshList
  <2>2. CASE s.hits # {}
    <3> DEFINE h == Min(s.hits)
               todo == {<<r, config[h][r].window>> : r \in {n \in Ref : config[h][n].by = "here" /\ ~config[h][n].flux}}
               q == [s EXCEPT !.pc = "item", !.host = h, !.hits = @ \ {h}, !.todo = todo]
    <3>1. h \in Host
      BY <1>1, <2>2, FirstHost DEF ActState
    <3>2. todo \subseteq Listed
      BY <3>1 DEF HostInv, HostWorld, Config, Listed
    <3>3. act' = [act EXCEPT ![Loop] = q]
      BY <1>3, <2>2 DEF RefreshList
    <3> HIDE DEF h, todo
    <3>4. s.op = "refresh"
      BY <1>3 DEF RefreshList, At
    <3>5. q \in ActState /\ Placed(q) /\ q.seen = s.seen /\ q.pc = "item"
      BY <1>1, <3>1, <3>2, <3>4 DEF ActState, Placed, Pc, Work
    <3> HIDE DEF q
    <3> QED BY <1>1, <2>0, <3>3, <3>5, ActorOnly
  <2> QED BY <2>1, <2>2
<1>4. CASE RefreshItem
  <2>0. HostWorld' /\ Fresh /\ resident' = resident /\ bounds'.loads = bounds.loads
    BY <1>4, StillWorld DEF RefreshItem
  <2>1. s.op = "refresh" /\ s.pc = "item" /\ s.host \in Host /\ s.todo \subseteq Listed
    BY <1>1, <1>4 DEF RefreshItem, At, Placed
  <2>2. CASE s.todo = {}
    <3>1. Placed([s EXCEPT !.pc = "list"])
      BY <1>1, <2>1 DEF Placed, ActState
    <3> QED BY <1>1, <1>4, <2>0, <2>2, <3>1, GoesTo DEF RefreshItem, Pc
  <2>3. CASE s.todo # {}
    <3>0. \A item \in s.todo : Canonical(item[1]) \in Ref
      BY <2>1, CanonicalType DEF Listed
    <3>1. PICK item \in s.todo, pc \in {"wire", "item"}, key \in Ref \cup {""} :
             /\ act' = [act EXCEPT ![Loop].todo = @ \ {item}, ![Loop].pc = pc, ![Loop].key = key]
             /\ pc = "wire" => key \in Ref
      BY <1>4, <2>3, <3>0 DEF RefreshItem
    <3> DEFINE q == [s EXCEPT !.todo = @ \ {item}, !.pc = pc, !.key = key]
    <3>3. q \in ActState /\ Placed(q) /\ q.seen = s.seen /\ q.pc \notin {"evict", "ok"}
      BY <1>1, <2>1, <3>1 DEF ActState, Placed, Pc
    <3>4. act' = [act EXCEPT ![Loop] = q]
      BY <1>1, <3>1
    <3> HIDE DEF q
    <3> QED BY <1>1, <2>0, <3>3, <3>4, ActorOnly
  <2> QED BY <2>2, <2>3
<1>5. CASE RefreshFails
  <2>0. HostWorld' /\ resident' = resident /\ bounds'.loads = bounds.loads
    BY <1>5, HostBounds, StillWorld DEF RefreshFails
  <2>1. PICK q \in ActState : /\ act' = [act EXCEPT ![Loop] = q]
                             /\ Placed(q) /\ q.seen = s.seen /\ q.pc \notin {"evict", "ok"}
    <3>1. CASE /\ At(Loop, "refresh", "list") /\ s.hits # {}
               /\ act' = [act EXCEPT ![Loop].hits = @ \ {Min(s.hits)}]
      <4> DEFINE q == [s EXCEPT !.hits = @ \ {Min(s.hits)}]
      <4>1. q \in ActState /\ Placed(q) /\ q.seen = s.seen /\ q.pc = "list"
        BY <1>1, <3>1 DEF ActState, Placed, Pc, At
      <4>2. act' = [act EXCEPT ![Loop] = q]
        BY <1>1, <3>1
      <4> HIDE DEF q
      <4> QED BY <4>1, <4>2
    <3>2. CASE At(Loop, "refresh", "item") /\ act' = [act EXCEPT ![Loop].pc = "list", ![Loop].todo = {}]
      <4> DEFINE q == [s EXCEPT !.pc = "list", !.todo = {}]
      <4>1. q \in ActState /\ Placed(q) /\ q.seen = s.seen /\ q.pc = "list"
        BY <1>1, <3>2 DEF ActState, Placed, Pc, At
      <4>2. act' = [act EXCEPT ![Loop] = q]
        BY <1>1, <3>2
      <4> HIDE DEF q
      <4> QED BY <4>1, <4>2
    <3>3. ASSUME At(Loop, "refresh", "item"), NEW item \in s.todo,
                 act' = [act EXCEPT ![Loop].todo = @ \ {item}]
          PROVE  \E q \in ActState : /\ act' = [act EXCEPT ![Loop] = q]
                                     /\ Placed(q) /\ q.seen = s.seen /\ q.pc \notin {"evict", "ok"}
      <4> DEFINE q == [s EXCEPT !.todo = @ \ {item}]
      <4>1. q \in ActState /\ Placed(q) /\ q.seen = s.seen /\ q.pc = "item"
        BY <1>1, <3>3 DEF ActState, Placed, Pc, At
      <4>2. act' = [act EXCEPT ![Loop] = q]
        BY <1>1, <3>3
      <4> HIDE DEF q
      <4> QED BY <4>1, <4>2
    <3> QED BY <1>5, <3>1, <3>2, <3>3 DEF RefreshFails
  <2> QED BY <1>1, <2>0, <2>1, ActorOnly
<1> QED BY <1>2, <1>3, <1>4, <1>5

LEMMA RestartMoves ==
    ASSUME HostInv, Restart
    PROVE  HostInv'
<1>1. bounds' \in [calls: Nat, events: Nat, faults: Nat, loads: 0..MaxLoads] /\ bounds'.loads = bounds.loads
  BY Spends DEF Restart
<1>2. HostWorld'
  BY <1>1 DEF Restart, HostInv, HostWorld
<1>3. act' \in [Actor -> ActState] /\ \A a \in Actor : act'[a] = Idle
  BY IdleActor DEF Restart
<1>4. (\A a \in Actor : Placed(act[a]) /\ Evicts(act[a], bounds.loads, resident))'
  BY <1>3, IdleActor DEF Placed, Evicts
<1> QED BY <1>2, <1>3, <1>4 DEF HostInv

LEMMA HostMoves ==
    ASSUME HostInv, NEW h \in Host, OnDemand(h) \/ Evict(h) \/ PeopleWire(h) \/ FluxTakes(h)
    PROVE  HostInv'
<1>1. CASE OnDemand(h)
  <2>1. PICK k \in library[h] :
          resident' = [resident EXCEPT ![h] = @ \cup {[key |-> k, id |-> bounds.loads + 1]}]
    BY <1>1 DEF OnDemand
  <2>2. k \in Key
    BY <2>1 DEF HostInv, HostWorld
  <2>3. HostWorld' /\ Fresh
    BY <1>1, <2>1, <2>2, OneMore DEF OnDemand
  <2> QED BY <1>1, <2>3, WorldMoves DEF OnDemand
<1>2. CASE Evict(h)
  <2>1. PICK i \in resident[h] : resident' = [resident EXCEPT ![h] = @ \ {i}]
    BY <1>2 DEF Evict
  <2>2. bounds' \in [calls: Nat, events: Nat, faults: Nat, loads: 0..MaxLoads] /\ bounds'.loads = bounds.loads
    BY <1>2, Spends DEF Evict
  <2>3. HostWorld' /\ Fresh
    BY <1>2, <2>1, <2>2, SomeLess DEF Evict, HostInv, HostWorld
  <2> QED BY <1>2, <2>3, WorldMoves DEF Evict
<1>3. CASE PeopleWire(h)
  <2>1. PICK k \in Key : config' = [config EXCEPT ![h][k].by = "other"]
    BY <1>3 DEF PeopleWire
  <2>2. config' \in [Host -> [Ref -> Config]]
    <3>1. k \in Ref /\ config \in [Host -> [Ref -> Config]] /\ config[h][k] \in Config
      BY DEF HostInv, HostWorld, Ref
    <3> DEFINE new == [config[h][k] EXCEPT !.by = "other"]
    <3>2. new \in Config
      BY <3>1 DEF Config
    <3>3. config' = [config EXCEPT ![h][k] = new]
      BY <2>1
    <3> HIDE DEF new
    <3> QED BY <3>1, <3>2, <3>3
  <2>3. bounds' \in [calls: Nat, events: Nat, faults: Nat, loads: 0..MaxLoads] /\ bounds'.loads = bounds.loads
    BY <1>3, Spends DEF PeopleWire
  <2>4. HostWorld' /\ Fresh
    BY <1>3, <2>2, <2>3, SameWorld DEF PeopleWire, HostInv, HostWorld
  <2> QED BY <1>3, <2>4, WorldMoves DEF PeopleWire
<1>4. CASE FluxTakes(h)
  <2>1. PICK r \in Ref : config' = [config EXCEPT ![h][r].flux = TRUE]
    BY <1>4 DEF FluxTakes
  <2>2. config' \in [Host -> [Ref -> Config]]
    <3>1. config \in [Host -> [Ref -> Config]] /\ config[h][r] \in Config
      BY DEF HostInv, HostWorld
    <3> DEFINE new == [config[h][r] EXCEPT !.flux = TRUE]
    <3>2. new \in Config
      BY <3>1 DEF Config
    <3>3. config' = [config EXCEPT ![h][r] = new]
      BY <2>1
    <3> HIDE DEF new
    <3> QED BY <3>1, <3>2, <3>3
  <2>3. HostWorld' /\ Fresh
    BY <1>4, <2>2, SameWorld DEF FluxTakes, HostInv, HostWorld
  <2> QED BY <1>4, <2>3, WorldMoves DEF FluxTakes
<1> QED BY <1>1, <1>2, <1>3, <1>4

LEMMA HostInvKept ==
    HostInv /\ [HostNext]_hostVars => HostInv'
<1> SUFFICES ASSUME HostInv, [HostNext]_hostVars PROVE HostInv'
  OBVIOUS
<1>1. CASE UNCHANGED hostVars
  <2>1. UNCHANGED <<driver, library, resident, window, config, act, bounds>>
    BY <1>1 DEF hostVars
  <2>2. HostWorld' /\ Fresh /\ act' = act
    BY <2>1, HostBounds DEF HostInv, HostWorld, Fresh
  <2> QED BY <2>2, WorldMoves
<1>2. ASSUME NEW c \in Call, NEW op \in {"load", "unload", "delete", "wire"}, Begin(c, op) PROVE HostInv'
  BY <1>2, BeginMoves
<1>3. ASSUME NEW c \in Call,
             \/ Resolve(c) \/ Resolved(c) \/ Load(c) \/ Unload(c) \/ Delete(c) \/ Wire(c)
             \/ PullWires(c) \/ WireLook(c) \/ WireEnsure(c)
      PROVE HostInv'
  BY <1>3, ResolveMoves, ResolvedMoves, LoadMoves, UnloadMoves, DeleteMoves, WireMoves, PullMoves DEF Actor
<1>4. CASE Refresh \/ RefreshFails
  BY <1>4, RefreshMoves, WireMoves DEF Refresh, Actor
<1>5. CASE Restart
  BY <1>5, RestartMoves
<1>6. ASSUME NEW h \in Host, OnDemand(h) \/ Evict(h) \/ PeopleWire(h) \/ FluxTakes(h) PROVE HostInv'
  BY <1>6, HostMoves
<1> QED BY <1>1, <1>2, <1>3, <1>4, <1>5, <1>6 DEF HostNext

LEMMA HostStarts == HostInit => HostInv
<1> SUFFICES ASSUME HostInit PROVE HostInv
  OBVIOUS
<1>1. HostWorld
  BY HostBounds DEF HostInit, HostWorld, NoConfig, Config, Window
<1>2. act \in [Actor -> ActState] /\ \A a \in Actor : act[a] = Idle
  BY IdleActor DEF HostInit
<1> QED BY <1>1, <1>2, IdleActor DEF HostInv

(* An unload that answered has evicted every instance it was told of, for any
   hosts, any number of calls, of loads on demand, of evictions and restarts
   beside it (Unload of the host drivers). *)
THEOREM UnloadsEvict == HostSpec => []UnloadEvicts
<1>1. HostInv => UnloadEvicts
  BY DEF HostInv, UnloadEvicts, Evicts, Actor
<1> QED BY <1>1, HostStarts, HostInvKept, PTL DEF HostSpec
==============================================================================
