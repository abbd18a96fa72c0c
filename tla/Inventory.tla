------------------------------ MODULE Inventory ------------------------------
(***************************************************************************)
(* internal/backend/kserve: the cached scans of the nodes' model caches    *)
(* (inventory.go) and the gate in front of them (scangate.go).             *)
(*                                                                         *)
(* What a cache directory holds is the number of changes made to it so     *)
(* far; what a scan shows is the number it found.  Every critical section  *)
(* of inventory.mu is one step; the scan itself runs outside it, reads the *)
(* directory at one moment and may fail at any.                            *)
(***************************************************************************)
EXTENDS Integers, FiniteSets

CONSTANTS
    Node,       \* nodes with a cache ("" for shared storage is one of them)
    Reader,     \* calls that read the inventory
    Refresher,  \* background goroutines of refresh; bounds how many there are
    TTL,        \* InventoryTTL, in clock ticks
    Strict,     \* whether ChangeIsSeen is also about changes announced in a scan
    MaxTime,    \* bound on the clock
    MaxChanges, \* bound on the changes of a directory
    NoSnap      \* no scan cached

ASSUME InventoryBounds == TTL \in Nat /\ MaxTime \in Nat /\ MaxChanges \in Nat
ASSUME InventoryActors == Reader \cap Refresher = {}
ASSUME StrictAssumption == Strict \in BOOLEAN

VARIABLES
    disk,     \* disk[n]: how often the cache of n has changed
    snaps,    \* snaps[n]: inventory.snaps
    inflight, \* inventory.inflight: the nodes with a scan under way
    actor,    \* actor[a]: where a call or a goroutine is
    change,   \* calls that have changed a cache and not yet said so
    told,     \* told[n]: the last change readers have been promised to see
    now

vars == <<disk, snaps, inflight, actor, change, told, now>>

Actor == Reader \cup Refresher

Unknown == -1
Shown == 0..MaxChanges \cup {Unknown}

Snapshot == [shows: Shown, at: 0..MaxTime, err: BOOLEAN]

(* What a call was answered: what it shows, and whether it is a scan younger
   than the TTL that succeeded. *)
Answer == [node: Node, shows: Shown, good: BOOLEAN]

ActorState ==
    [pc: {"idle", "fresh", "defer", "last", "start", "wait", "scan", "scanned"},
     node: Node,
     ttl: {0, TTL},    \* 0: the forced scan of a launch under way
     must: 0..MaxChanges,  \* told[node] when the call began
     saw: 0..MaxChanges,   \* what its scan found
     got: Answer]          \* what the last call was answered

ChangeState == [node: Node, version: 0..MaxChanges, pc: {"made", "rescan"}]

-----------------------------------------------------------------------------
At(a, pc) == actor[a].pc = pc
Goto(a, pc) == actor' = [actor EXCEPT ![a].pc = pc]

(* a's call is answered; nobody waits for what a goroutine finds. *)
Answered(a, shows, good) ==
    [actor[a] EXCEPT
        !.pc = "idle", !.ttl = TTL, !.must = 0, !.saw = 0,
        !.got = IF a \in Reader THEN [node |-> actor[a].node, shows |-> shows, good |-> good]
                ELSE @]

(* A snapshot younger than the caller's ttl. *)
Fresh(n, ttl) == snaps[n] # NoSnap /\ now - snaps[n].at < ttl

(* The caller is answered with the cached scan. *)
FromCache(a) ==
    LET s == snaps[actor[a].node]
    IN actor' = [actor EXCEPT ![a] = Answered(a, s.shows, ~s.err)]

(* A call that starts; what the one before was answered is forgotten, the
   other readers' answers remain to compare with. *)
Start(q, pc, n, ttl) ==
    [q EXCEPT !.pc = pc, !.node = n, !.ttl = ttl, !.must = told[n],
              !.got = [node |-> n, shows |-> Unknown, good |-> FALSE]]

-----------------------------------------------------------------------------
(* snapshot *)

(* Mutant: does not look for a scan under way. *)
MutSnapshotStart(a) ==
    LET n == actor[a].node IN
    /\ At(a, "start")
    /\ \/ /\ Fresh(n, actor[a].ttl)
          /\ FromCache(a)
          /\ UNCHANGED inflight
       \/ /\ ~Fresh(n, actor[a].ttl)
          /\ inflight' = inflight \cup {n}
          /\ Goto(a, "scan")
    /\ UNCHANGED <<disk, snaps, change, told, now>>

(* The cached scan, the channel of the one under way, or a scan of its own. *)
SnapshotStart(a) ==
    LET n == actor[a].node IN
    /\ At(a, "start")
    /\ \/ /\ Fresh(n, actor[a].ttl)
          /\ FromCache(a)
          /\ UNCHANGED inflight
       \/ /\ ~Fresh(n, actor[a].ttl) /\ n \in inflight
          /\ Goto(a, "wait")
          /\ UNCHANGED inflight
       \/ /\ ~Fresh(n, actor[a].ttl) /\ n \notin inflight
          /\ inflight' = inflight \cup {n}
          /\ Goto(a, "scan")
    /\ UNCHANGED <<disk, snaps, change, told, now>>

(* The scan's process reads the directory. *)
ScanLook(a) ==
    /\ At(a, "scan")
    /\ actor' = [actor EXCEPT ![a].pc = "scanned", ![a].saw = disk[actor[a].node]]
    /\ UNCHANGED <<disk, snaps, inflight, change, told, now>>

(* The scan is stored and its channel closed: whoever waits starts over. *)
Store(a, snap) ==
    LET n == actor[a].node
        After(b) ==
            IF b = a THEN Answered(a, snap.shows, ~snap.err)
            ELSE IF At(b, "wait") /\ actor[b].node = n THEN [actor[b] EXCEPT !.pc = "start"]
            ELSE actor[b]
    IN /\ snaps' = [snaps EXCEPT ![n] = snap]
       /\ inflight' = inflight \ {n}
       /\ actor' = [b \in Actor |-> After(b)]
       /\ UNCHANGED <<disk, change, told, now>>

ScanEnd(a) ==
    /\ At(a, "scanned")
    /\ Store(a, [shows |-> actor[a].saw, at |-> now, err |-> FALSE])

(* Whatever fails, the entries and the time of the last scan stay; without
   one the failure itself is cached. *)
ScanFailed(prev) ==
    IF prev = NoSnap THEN [shows |-> Unknown, at |-> now, err |-> TRUE]
    ELSE [prev EXCEPT !.err = TRUE]

ScanFails(a) ==
    /\ actor[a].pc \in {"scan", "scanned"}
    /\ Store(a, ScanFailed(snaps[actor[a].node]))

(* The caller's context ends while it waits for somebody else's scan. *)
GiveUp(a) ==
    /\ At(a, "wait")
    /\ actor' = [actor EXCEPT ![a] = Answered(a, Unknown, FALSE)]
    /\ UNCHANGED <<disk, snaps, inflight, change, told, now>>

(* refresh: nothing when a scan is under way, else a goroutine that takes a
   snapshot of its own.  What the others are at is theirs. *)
Refreshed(n, as) ==
    IF n \in inflight THEN {as}
    ELSE {[as EXCEPT ![r] = Start(@, "start", n, TTL)] :
            r \in {r \in Refresher : as[r].pc = "idle"}}

-----------------------------------------------------------------------------
(* The calls that read *)

(* cacheSnapshotFor; the nodes' view asks snapshot itself, and a launch under
   way has a scan forced. *)
Read(a, n) ==
    /\ a \in Reader /\ At(a, "idle")
    /\ \E q \in {Start(actor[a], "fresh", n, TTL), Start(actor[a], "start", n, TTL),
                 Start(actor[a], "start", n, 0)} :
            actor' = [actor EXCEPT ![a] = q]
    /\ UNCHANGED <<disk, snaps, inflight, change, told, now>>

(* A fresh scan answers; else a scan is awaited, deferred to the background
   under a short deadline, or not allowed. *)
LookFresh(a) ==
    /\ At(a, "fresh")
    /\ IF Fresh(actor[a].node, TTL) THEN FromCache(a)
       ELSE \E pc \in {"start", "defer", "last"} : Goto(a, pc)
    /\ UNCHANGED <<disk, snaps, inflight, change, told, now>>

Defer(a) ==
    /\ At(a, "defer")
    /\ actor' \in Refreshed(actor[a].node, [actor EXCEPT ![a].pc = "last"])
    /\ UNCHANGED <<disk, snaps, inflight, change, told, now>>

(* The last scan whatever its age, marked Pending. *)
LastScan(a) ==
    LET s == snaps[actor[a].node] IN
    /\ At(a, "last")
    /\ actor' = [actor EXCEPT ![a] =
                    Answered(a, IF s = NoSnap THEN Unknown ELSE s.shows, FALSE)]
    /\ UNCHANGED <<disk, snaps, inflight, change, told, now>>

-----------------------------------------------------------------------------
(* The calls that change a cache: a download that ends, a cancelled one, a
   delete; an unload says so too, and scans again. *)

Changes(n) ==
    /\ disk[n] < MaxChanges
    /\ disk' = [disk EXCEPT ![n] = @ + 1]

Change(n) ==
    /\ Changes(n)
    /\ change' = change \cup {[node |-> n, version |-> disk[n] + 1, pc |-> "made"]}
    /\ UNCHANGED <<snaps, inflight, actor, told, now>>

(* A model that is served fills its directory without a word. *)
OtherChange(n) ==
    /\ Changes(n)
    /\ UNCHANGED <<snaps, inflight, actor, change, told, now>>

Told(c) ==
    told' = [told EXCEPT ![c.node] =
                IF c.version > @ /\ (Strict \/ c.node \notin inflight) THEN c.version ELSE @]

Went(c) ==
    \E next \in {{}, {[c EXCEPT !.pc = "rescan"]}} : change' = (change \ {c}) \cup next

(* Mutant: a delete leaves the cached scans. *)
MutInvalidate(c) ==
    /\ c.pc = "made"
    /\ UNCHANGED snaps
    /\ Told(c) /\ Went(c)
    /\ UNCHANGED <<disk, inflight, actor, now>>

(* invalidate drops the scans of every node; a scan under way is not told. *)
Invalidate(c) ==
    /\ c.pc = "made"
    /\ snaps' = [n \in Node |-> NoSnap]
    /\ Told(c) /\ Went(c)
    /\ UNCHANGED <<disk, inflight, actor, now>>

(* refreshInventory's scan in the background. *)
Rescan(c) ==
    /\ c.pc = "rescan"
    /\ actor' \in Refreshed(c.node, actor)
    /\ change' = change \ {c}
    /\ UNCHANGED <<disk, snaps, inflight, told, now>>

-----------------------------------------------------------------------------
Tick ==
    /\ now < MaxTime
    /\ now' = now + 1
    /\ UNCHANGED <<disk, snaps, inflight, actor, change, told>>

Init ==
    /\ disk = [n \in Node |-> 0]
    /\ snaps = [n \in Node |-> NoSnap]
    /\ inflight = {}
    /\ \E n \in Node : actor = [a \in Actor |->
          [pc |-> "idle", node |-> n, ttl |-> TTL, must |-> 0, saw |-> 0,
           got |-> [node |-> n, shows |-> Unknown, good |-> FALSE]]]
    /\ change = {}
    /\ told = [n \in Node |-> 0]
    /\ now = 0

Scan(a) == ScanLook(a) \/ ScanEnd(a) \/ ScanFails(a)
Call(a) == LookFresh(a) \/ Defer(a) \/ LastScan(a) \/ SnapshotStart(a) \/ Scan(a)

Next ==
    \/ \E a \in Actor : Call(a) \/ GiveUp(a) \/ (\E n \in Node : Read(a, n))
    \/ \E n \in Node : Change(n) \/ OtherChange(n)
    \/ \E c \in change : Invalidate(c) \/ Rescan(c)
    \/ Tick

Spec == Init /\ [][Next]_vars

(* Calls and goroutines go on, and a scan has a budget: it ends or fails. *)
FairSpec == Spec /\ \A a \in Actor : WF_vars(Call(a))

-----------------------------------------------------------------------------
(* Properties *)

TypeOK ==
    /\ disk \in [Node -> 0..MaxChanges]
    /\ snaps \in [Node -> Snapshot \cup {NoSnap}]
    /\ inflight \subseteq Node
    /\ actor \in [Actor -> ActorState]
    /\ change \subseteq ChangeState
    /\ told \in [Node -> 0..MaxChanges]
    /\ now \in 0..MaxTime

Scanning(a, n) == actor[a].pc \in {"scan", "scanned"} /\ actor[a].node = n

(* inflight "de-duplicates concurrent scans of one node": however readers,
   background refreshes, failures and invalidations interleave, a node never
   has two scan pods of this process at a time. *)
OneScanPerNode ==
    \A n \in Node : \A a, b \in Actor : Scanning(a, n) /\ Scanning(b, n) => a = b

(* What callers are shown never goes back in time: who is answered later is
   shown no older cache than anybody answered before, through failed scans,
   deferred ones and invalidations. *)
NeverGoesBack ==
    [][\A a, b \in Reader :
         LET before == actor[b].got
             after == actor'[a].got
         IN /\ actor[a].pc # "idle" /\ actor'[a].pc = "idle"
            /\ before.node = after.node
            /\ after.shows # Unknown
            => after.shows >= before.shows]_vars

(* invalidate "drops cached scans so the next read rescans": a read that
   starts after a change was announced, and is answered with a good scan, is
   shown the change.  It holds for changes announced while the node is not
   being scanned; Strict asks it of all of them. *)
ChangeIsSeen ==
    [][\A a \in Reader :
         /\ actor[a].pc # "idle" /\ actor'[a].pc = "idle" /\ actor'[a].got.good
         => actor'[a].got.shows >= actor[a].must]_vars

=============================================================================
