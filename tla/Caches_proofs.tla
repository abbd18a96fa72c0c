---------------------------- MODULE Caches_proofs ----------------------------
(***************************************************************************)
(* Theorems about the caches of the models: what their scans say           *)
(* (Inventory), for any nodes, readers and background goroutines, any TTL  *)
(* and any number of changes; and which claim a node's pods mount and what *)
(* it holds (NodeClaims), for any nodes, placements and bounds, however    *)
(* pulls, loads and deletes overlap.  The two components share no variable. *)
(***************************************************************************)
EXTENDS Inventory, NodeClaims, TLAPS

-----------------------------------------------------------------------------
(* The scans *)

(* A node that is being scanned is in flight. *)
ScansInFlight == \A n \in Node, a \in Actor : Scanning(a, n) => n \in inflight

(* Nothing shown is newer than the disk; what is cached is no older than what
   anybody was answered, and what a scan has seen no older than both. *)
AnswersLag ==
    \A a \in Actor : actor[a].got.shows <= disk[actor[a].got.node]

SnapsLead ==
    \A n \in Node : snaps[n] # NoSnap =>
        /\ snaps[n].shows <= disk[n]
        /\ \/ snaps[n].shows = Unknown
           \/ \A a \in Actor : actor[a].got.node = n => actor[a].got.shows <= snaps[n].shows

ScansLead ==
    \A n \in Node, a \in Actor : At(a, "scanned") /\ actor[a].node = n =>
        /\ actor[a].saw <= disk[n]
        /\ snaps[n] # NoSnap => snaps[n].shows <= actor[a].saw
        /\ \A b \in Actor : actor[b].got.node = n => actor[b].got.shows <= actor[a].saw

IndInv == TypeOK /\ OneScanPerNode /\ ScansInFlight /\ AnswersLag /\ SnapsLead /\ ScansLead

-----------------------------------------------------------------------------
(* What the operators return. *)

LEMMA AnsweredFacts ==
    ASSUME actor \in [Actor -> ActorState], NEW a \in Actor,
           NEW shows \in Shown, NEW good \in BOOLEAN
    PROVE  /\ Answered(a, shows, good) \in ActorState
           /\ Answered(a, shows, good).pc = "idle"
           /\ \/ Answered(a, shows, good).got = actor[a].got /\ a \notin Reader
              \/ Answered(a, shows, good).got = [node |-> actor[a].node, shows |-> shows, good |-> good]
<1> DEFINE got == IF a \in Reader THEN [node |-> actor[a].node, shows |-> shows, good |-> good]
                  ELSE actor[a].got
           ans == [actor[a] EXCEPT !.pc = "idle", !.ttl = TTL, !.must = 0, !.saw = 0, !.got = got]
<1>1. actor[a] \in ActorState
  OBVIOUS
<1>2. got \in Answer
  BY <1>1 DEF Answer, ActorState
<1>3. Answered(a, shows, good) = ans
  BY DEF Answered
<1>4. 0 \in 0..MaxChanges
  BY InventoryBounds
<1>5. ans \in ActorState /\ ans.pc = "idle" /\ ans.got = got
  BY <1>1, <1>2, <1>4 DEF ActorState
<1>6. QED
  BY <1>3, <1>5

LEMMA StartFacts ==
    ASSUME told \in [Node -> 0..MaxChanges], NEW q \in ActorState,
           NEW pc \in {"fresh", "start"}, NEW n \in Node, NEW ttl \in {0, TTL}
    PROVE  /\ Start(q, pc, n, ttl) \in ActorState
           /\ Start(q, pc, n, ttl).pc = pc
           /\ Start(q, pc, n, ttl).got = [node |-> n, shows |-> Unknown, good |-> FALSE]
           /\ Start(q, pc, n, ttl).got.shows = Unknown
<1> DEFINE got == [node |-> n, shows |-> Unknown, good |-> FALSE]
<1>1. got \in Answer
  BY DEF Answer, Shown
<1>2. told[n] \in 0..MaxChanges
  OBVIOUS
<1>3. QED
  BY <1>1, <1>2 DEF Start, ActorState

LEMMA PcFacts ==
    ASSUME NEW q \in ActorState,
           NEW pc \in {"start", "defer", "last", "wait", "scan", "scanned"}
    PROVE  /\ [q EXCEPT !.pc = pc] \in ActorState
           /\ [q EXCEPT !.pc = pc].pc = pc
           /\ [q EXCEPT !.pc = pc].node = q.node
           /\ [q EXCEPT !.pc = pc].saw = q.saw
           /\ [q EXCEPT !.pc = pc].got = q.got
  BY DEF ActorState

-----------------------------------------------------------------------------
(* A reader's call is answered in this step. *)
Comes(b) == b \in Reader /\ actor[b].pc # "idle" /\ actor'[b].pc = "idle"

(* A step that begins no scan, and answers nothing or what is cached. *)
Harmless ==
    /\ UNCHANGED <<disk, snaps, inflight>>
    /\ actor' \in [Actor -> ActorState]
    /\ \A b \in Actor :
        /\ actor'[b].pc \in {"scan", "scanned"} =>
               /\ actor'[b].pc = actor[b].pc
               /\ actor'[b].node = actor[b].node
               /\ actor'[b].saw = actor[b].saw
        /\ \/ actor'[b].got = actor[b].got /\ ~Comes(b)
           \/ actor'[b].got.shows = Unknown
           \/ \E n \in Node : /\ snaps[n] # NoSnap
                              /\ actor'[b].got.node = n
                              /\ actor'[b].got.shows = snaps[n].shows

(* Who is answered is shown no less than anybody was before, or nothing. *)
InOrder ==
    \A a \in Actor : Comes(a) =>
        \/ actor'[a].got.shows = Unknown
        \/ \A b \in Actor : actor[b].got.node = actor'[a].got.node
                             => actor[b].got.shows <= actor'[a].got.shows

Scans == OneScanPerNode /\ ScansInFlight
Order == AnswersLag /\ SnapsLead /\ ScansLead

LEMMA Integral ==
    ASSUME TypeOK
    PROVE  /\ \A n \in Node : disk[n] \in 0..MaxChanges
           /\ \A n \in Node : snaps[n] # NoSnap => snaps[n].shows \in Shown /\ snaps[n].err \in BOOLEAN
           /\ \A a \in Actor :
                 /\ actor[a] \in ActorState
                 /\ actor[a].node \in Node
                 /\ actor[a].saw \in 0..MaxChanges
                 /\ actor[a].got.shows \in Shown
                 /\ actor[a].got.node \in Node
  BY DEF TypeOK, ActorState, Answer, Snapshot

LEMMA HarmlessStep ==
    ASSUME IndInv, Harmless
    PROVE  Scans' /\ Order' /\ InOrder
<1>1. Scans'
  BY DEF Harmless, IndInv, Scans, OneScanPerNode, ScansInFlight, Scanning
<1> USE InventoryBounds DEF Shown, Unknown
<1>2. AnswersLag'
  <2> SUFFICES ASSUME NEW b \in Actor
               PROVE  actor'[b].got.shows <= disk[actor'[b].got.node]
    BY DEF Harmless, AnswersLag
  <2>1. actor'[b].got.node \in Node
    BY DEF Harmless, ActorState, Answer
  <2>2. disk[actor'[b].got.node] \in 0..MaxChanges
    BY <2>1, Integral DEF IndInv
  <2> QED
    BY <2>1, <2>2, Integral DEF Harmless, IndInv, AnswersLag, SnapsLead
<1>3. SnapsLead'
  <2> SUFFICES ASSUME NEW n \in Node, snaps[n] # NoSnap, snaps[n].shows # Unknown,
                      NEW b \in Actor, actor'[b].got.node = n
               PROVE  actor'[b].got.shows <= snaps[n].shows
    BY DEF Harmless, IndInv, SnapsLead
  <2> QED
    BY Integral DEF Harmless, IndInv, SnapsLead
<1>4. ScansLead'
  <2> SUFFICES ASSUME NEW n \in Node, NEW a \in Actor,
                      actor[a].pc = "scanned", actor[a].node = n,
                      NEW b \in Actor, actor'[b].got.node = n
               PROVE  actor'[b].got.shows <= actor[a].saw
    BY DEF Harmless, IndInv, ScansLead, At
  <2> QED
    BY Integral DEF Harmless, IndInv, ScansLead, At
<1>5. InOrder
  BY Integral DEF Harmless, IndInv, SnapsLead, InOrder
<1>6. QED
  BY <1>1, <1>2, <1>3, <1>4, <1>5 DEF Order

-----------------------------------------------------------------------------
(* The steps that are harmless: the calls that read what is cached, wait, give
   up, start, or send a goroutine to scan. *)

LEMMA StoodStill ==
    ASSUME TypeOK, NEW n \in Node, snaps[n] # NoSnap
    PROVE  snaps[n].shows \in Shown /\ (~snaps[n].err) \in BOOLEAN
  BY Integral

(* An actor is answered nothing, or the cached scan. *)
LEMMA AnsweredIsHarmless ==
    ASSUME TypeOK, NEW a \in Actor, NEW shows \in Shown, NEW good \in BOOLEAN,
           shows = Unknown \/ (snaps[actor[a].node] # NoSnap /\ shows = snaps[actor[a].node].shows),
           actor' = [actor EXCEPT ![a] = Answered(a, shows, good)],
           UNCHANGED <<disk, snaps, inflight>>
    PROVE  Harmless
<1>1. actor \in [Actor -> ActorState]
  BY DEF TypeOK
<1> DEFINE ans == Answered(a, shows, good)
<1>2. /\ ans \in ActorState
      /\ ans.pc = "idle"
      /\ \/ ans.got = actor[a].got /\ a \notin Reader
         \/ ans.got = [node |-> actor[a].node, shows |-> shows, good |-> good]
  BY <1>1, AnsweredFacts
<1>3. actor[a].node \in Node
  BY Integral
<1> HIDE DEF ans
<1>4. actor' = [actor EXCEPT ![a] = ans]
  BY DEF ans
<1> QED
  BY <1>1, <1>2, <1>3, <1>4 DEF Harmless, Comes

(* An actor goes on, and not to scan. *)
LEMMA MoveIsHarmless ==
    ASSUME TypeOK, NEW a \in Actor, NEW q \in ActorState,
           q.pc \notin {"idle", "scan", "scanned"},
           q.got = actor[a].got \/ q.got.shows = Unknown,
           actor' = [actor EXCEPT ![a] = q],
           UNCHANGED <<disk, snaps, inflight>>
    PROVE  Harmless
  BY DEF Harmless, TypeOK, Comes

LEMMA ReadStep ==
    ASSUME IndInv, NEW a \in Actor, NEW n \in Node, Read(a, n)
    PROVE  Harmless
<1>1. PICK q \in {Start(actor[a], "fresh", n, TTL), Start(actor[a], "start", n, TTL),
                  Start(actor[a], "start", n, 0)} :
          actor' = [actor EXCEPT ![a] = q]
  BY DEF Read
<1>2. TypeOK /\ actor[a] \in ActorState /\ told \in [Node -> 0..MaxChanges]
  BY Integral DEF IndInv, TypeOK
<1>3. q \in ActorState /\ q.pc \notin {"idle", "scan", "scanned"} /\ q.got.shows = Unknown
  <2>1. CASE q = Start(actor[a], "fresh", n, TTL)
    BY <1>2, <2>1, StartFacts
  <2>2. CASE q = Start(actor[a], "start", n, TTL)
    BY <1>2, <2>2, StartFacts
  <2>3. CASE q = Start(actor[a], "start", n, 0)
    BY <1>2, <2>3, StartFacts
  <2> QED
    BY <2>1, <2>2, <2>3
<1> QED
  BY <1>1, <1>2, <1>3, MoveIsHarmless DEF Read

LEMMA FromCacheStep ==
    ASSUME IndInv, NEW a \in Actor, NEW ttl, Fresh(actor[a].node, ttl), FromCache(a),
           UNCHANGED <<disk, snaps, inflight>>
    PROVE  Harmless
<1>1. TypeOK /\ actor[a].node \in Node /\ snaps[actor[a].node] # NoSnap
  BY Integral DEF IndInv, Fresh
<1>2. snaps[actor[a].node].shows \in Shown /\ (~snaps[actor[a].node].err) \in BOOLEAN
  BY <1>1, StoodStill
<1> QED
  BY <1>1, <1>2, AnsweredIsHarmless DEF FromCache

LEMMA GotoStep ==
    ASSUME IndInv, NEW a \in Actor, NEW pc \in {"start", "defer", "last", "wait"}, Goto(a, pc),
           UNCHANGED <<disk, snaps, inflight>>
    PROVE  Harmless
<1>1. TypeOK /\ actor[a] \in ActorState
  BY Integral DEF IndInv
<1> DEFINE q == [actor[a] EXCEPT !.pc = pc]
<1>2. q \in ActorState /\ q.pc \notin {"idle", "scan", "scanned"} /\ q.got = actor[a].got
  BY <1>1 DEF ActorState
<1>3. actor' = [actor EXCEPT ![a] = q]
  BY DEF Goto
<1> QED
  BY <1>1, <1>2, <1>3, MoveIsHarmless

LEMMA LookFreshStep ==
    ASSUME IndInv, NEW a \in Actor, LookFresh(a)
    PROVE  Harmless
<1>1. CASE Fresh(actor[a].node, TTL)
  BY <1>1, FromCacheStep DEF LookFresh
<1>2. CASE ~Fresh(actor[a].node, TTL)
  <2>1. PICK pc \in {"start", "defer", "last"} : Goto(a, pc)
    BY <1>2 DEF LookFresh
  <2> QED
    BY <2>1, GotoStep DEF LookFresh
<1> QED
  BY <1>1, <1>2

LEMMA RefreshedIsHarmless ==
    ASSUME IndInv, NEW n \in Node, NEW as \in [Actor -> ActorState],
           \A b \in Actor : /\ as[b].pc \notin {"idle", "scan", "scanned"} \/ as[b] = actor[b]
                            /\ as[b].got = actor[b].got \/ as[b].got.shows = Unknown,
           actor' \in Refreshed(n, as),
           UNCHANGED <<disk, snaps, inflight>>
    PROVE  Harmless
<1>1. CASE n \in inflight
  BY <1>1 DEF Refreshed, Harmless, Comes
<1>2. CASE n \notin inflight
  <2>1. PICK r \in Refresher : as[r].pc = "idle" /\ actor' = [as EXCEPT ![r] = Start(@, "start", n, TTL)]
    BY <1>2 DEF Refreshed
  <2> DEFINE q == Start(as[r], "start", n, TTL)
  <2>2. r \in Actor /\ as[r] \in ActorState /\ told \in [Node -> 0..MaxChanges]
    BY DEF Actor, IndInv, TypeOK
  <2>3. q \in ActorState /\ q.pc = "start" /\ q.got.shows = Unknown
    BY <2>2, StartFacts
  <2>4. actor' = [as EXCEPT ![r] = q]
    BY <2>1
  <2> HIDE DEF q
  <2> QED
    BY <2>2, <2>3, <2>4 DEF Harmless, Comes
<1> QED
  BY <1>1, <1>2

LEMMA DeferStep ==
    ASSUME IndInv, NEW a \in Actor, Defer(a)
    PROVE  Harmless
<1> DEFINE as == [actor EXCEPT ![a].pc = "last"]
<1>1. actor \in [Actor -> ActorState] /\ actor[a].node \in Node
  BY Integral DEF IndInv, TypeOK
<1>2. /\ as \in [Actor -> ActorState]
      /\ \A b \in Actor : as[b].got = actor[b].got
      /\ \A b \in Actor : as[b].pc \notin {"idle", "scan", "scanned"} \/ as[b] = actor[b]
  BY <1>1 DEF ActorState
<1>3. actor' \in Refreshed(actor[a].node, as)
  BY DEF Defer
<1> HIDE DEF as
<1> QED
  BY <1>1, <1>2, <1>3, RefreshedIsHarmless DEF Defer

LEMMA LastStep ==
    ASSUME IndInv, NEW a \in Actor, LastScan(a)
    PROVE  Harmless
<1> DEFINE s == snaps[actor[a].node]
           shows == IF s = NoSnap THEN Unknown ELSE s.shows
<1>1. TypeOK /\ actor[a].node \in Node
  BY Integral DEF IndInv
<1>2. shows \in Shown /\ (shows = Unknown \/ (s # NoSnap /\ shows = s.shows))
  BY <1>1, Integral DEF Shown
<1>3. actor' = [actor EXCEPT ![a] = Answered(a, shows, FALSE)]
  BY DEF LastScan
<1> HIDE DEF shows
<1> QED
  BY <1>1, <1>2, <1>3, AnsweredIsHarmless DEF LastScan

LEMMA GiveUpStep ==
    ASSUME IndInv, NEW a \in Actor, GiveUp(a)
    PROVE  Harmless
  BY AnsweredIsHarmless DEF GiveUp, IndInv, Shown

LEMMA RescanStep ==
    ASSUME IndInv, NEW c \in change, Rescan(c)
    PROVE  Harmless
  BY RefreshedIsHarmless DEF Rescan, IndInv, TypeOK, ChangeState

LEMMA RescanTypes ==
    ASSUME TypeOK, NEW c \in change, Rescan(c)
    PROVE  change' \subseteq ChangeState
  BY DEF Rescan, TypeOK

(* snapshot: the cached scan and the wait are harmless, a new scan is not. *)
LEMMA SnapshotStartStep ==
    ASSUME IndInv, NEW a \in Actor, SnapshotStart(a)
    PROVE  /\ actor' \in [Actor -> ActorState]
           /\ inflight' \subseteq Node
           /\ Scans' /\ Order' /\ InOrder
<1> DEFINE n == actor[a].node
<1>0. TypeOK /\ n \in Node /\ actor[a] \in ActorState /\ inflight \subseteq Node
  BY Integral DEF IndInv, TypeOK
<1>1. CASE Fresh(n, actor[a].ttl)
  <2>1. Harmless
    BY <1>1, FromCacheStep DEF SnapshotStart
  <2> QED
    BY <1>0, <2>1, HarmlessStep DEF Harmless
<1>2. CASE ~Fresh(n, actor[a].ttl) /\ n \in inflight
  <2>1. Harmless
    BY <1>2, GotoStep DEF SnapshotStart
  <2> QED
    BY <1>0, <2>1, HarmlessStep DEF Harmless
<1>3. CASE ~Fresh(n, actor[a].ttl) /\ n \notin inflight
  <2> DEFINE q == [actor[a] EXCEPT !.pc = "scan"]
  <2>1. /\ inflight' = inflight \cup {n}
        /\ actor' = [actor EXCEPT ![a] = q]
        /\ UNCHANGED <<disk, snaps>>
    BY <1>3 DEF SnapshotStart, Goto
  <2>2. /\ q \in ActorState /\ q.pc = "scan" /\ q.node = n
        /\ q.saw = actor[a].saw /\ q.got = actor[a].got
    BY <1>0 DEF ActorState
  <2>3. actor \in [Actor -> ActorState]
    BY <1>0 DEF TypeOK
  <2> HIDE DEF q, n
  <2>4. actor' \in [Actor -> ActorState] /\ inflight' \subseteq Node
    BY <1>0, <2>1, <2>2, <2>3
  <2>5. Scans'
    BY <1>0, <1>3, <2>1, <2>2, <2>3 DEF IndInv, Scans, OneScanPerNode, ScansInFlight, Scanning
  <2>6. \A b \in Actor : actor'[b].got = actor[b].got
    BY <2>1, <2>2, <2>3
  <2>7. \A b \in Actor : actor'[b].pc = "scanned" => actor'[b] = actor[b]
    BY <2>1, <2>2, <2>3
  <2>8. Order'
    BY <2>1, <2>6, <2>7 DEF IndInv, Order, AnswersLag, SnapsLead, ScansLead, At
  <2>9. InOrder
    BY <2>1, <2>2, <2>3 DEF InOrder, Comes
  <2> QED
    BY <2>4, <2>5, <2>8, <2>9
<1> QED
  BY <1>1, <1>2, <1>3

LEMMA ScanLookStep ==
    ASSUME IndInv, NEW a \in Actor, ScanLook(a)
    PROVE  actor' \in [Actor -> ActorState] /\ Scans' /\ Order' /\ InOrder
<1> DEFINE n == actor[a].node
           q == [actor[a] EXCEPT !.pc = "scanned", !.saw = disk[n]]
<1>1. TypeOK /\ n \in Node /\ actor[a] \in ActorState /\ actor \in [Actor -> ActorState]
  BY Integral DEF IndInv, TypeOK
<1>2. disk[n] \in 0..MaxChanges
  BY <1>1, Integral
<1>3. /\ q \in ActorState /\ q.pc = "scanned" /\ q.node = n
      /\ q.saw = disk[n] /\ q.got = actor[a].got
  BY <1>1, <1>2 DEF ActorState
<1>4. actor' = [actor EXCEPT ![a] = q] /\ actor[a].pc = "scan" /\ UNCHANGED <<disk, snaps, inflight>>
  BY <1>1 DEF ScanLook, At
<1> HIDE DEF q, n
<1>5. actor' \in [Actor -> ActorState]
  BY <1>1, <1>3, <1>4
<1>6. Scans'
  BY <1>1, <1>3, <1>4 DEF n, IndInv, Scans, OneScanPerNode, ScansInFlight, Scanning
<1>7. /\ \A b \in Actor : actor'[b].got = actor[b].got
      /\ \A b \in Actor \ {a} : actor'[b] = actor[b]
      /\ actor'[a] = q
  BY <1>1, <1>3, <1>4
<1>8. AnswersLag' /\ SnapsLead'
  BY <1>4, <1>7 DEF IndInv, AnswersLag, SnapsLead
<1>9. ScansLead'
  <2>1. /\ snaps[n] # NoSnap => snaps[n].shows <= disk[n]
        /\ \A b \in Actor : actor[b].got.node = n => actor[b].got.shows <= disk[n]
        /\ disk[n] <= disk[n]
    BY <1>1, <1>2 DEF IndInv, AnswersLag, SnapsLead
  <2> QED
    BY <1>3, <1>4, <1>7, <2>1 DEF IndInv, ScansLead, At
<1>10. InOrder
  BY <1>3, <1>7 DEF InOrder, Comes
<1> QED
  BY <1>5, <1>6, <1>8, <1>9, <1>10 DEF Order

(* What a scan that ends stores: no newer than the disk, no older than any
   answer. *)
LEMMA StoreStep ==
    ASSUME IndInv, NEW a \in Actor, actor[a].pc \in {"scan", "scanned"},
           NEW shot \in Snapshot, Store(a, shot),
           shot.shows <= disk[actor[a].node],
           \/ shot.shows = Unknown
           \/ \A b \in Actor : actor[b].got.node = actor[a].node => actor[b].got.shows <= shot.shows
    PROVE  /\ snaps' \in [Node -> Snapshot \cup {NoSnap}]
           /\ inflight' \subseteq Node
           /\ actor' \in [Actor -> ActorState]
           /\ Scans' /\ Order' /\ InOrder
<1> DEFINE n == actor[a].node
           ans == Answered(a, shot.shows, ~shot.err)
<1>1. /\ TypeOK /\ n \in Node
      /\ actor \in [Actor -> ActorState]
      /\ snaps \in [Node -> Snapshot \cup {NoSnap}]
      /\ inflight \subseteq Node
  BY Integral DEF IndInv, TypeOK
<1>2. shot.shows \in Shown /\ (~shot.err) \in BOOLEAN
  BY DEF Snapshot
<1>3. /\ ans \in ActorState /\ ans.pc = "idle"
      /\ \/ ans.got = actor[a].got /\ a \notin Reader
         \/ ans.got.node = n /\ ans.got.shows = shot.shows
  <2> DEFINE good == ~shot.err
             shows == shot.shows
  <2> HIDE DEF good, shows
  <2>1. /\ Answered(a, shows, good) \in ActorState
        /\ Answered(a, shows, good).pc = "idle"
        /\ \/ Answered(a, shows, good).got = actor[a].got /\ a \notin Reader
           \/ Answered(a, shows, good).got = [node |-> n, shows |-> shows, good |-> good]
    BY <1>1, <1>2, AnsweredFacts DEF good, shows
  <2>2. ans = Answered(a, shows, good)
    BY DEF good, shows
  <2> QED
    BY <2>1, <2>2 DEF shows
<1>4. /\ snaps' = [snaps EXCEPT ![n] = shot]
      /\ inflight' = inflight \ {n}
      /\ UNCHANGED disk
  BY DEF Store
<1>5. /\ actor'[a] = ans
      /\ \A b \in Actor \ {a} :
             \/ actor'[b] = actor[b]
             \/ actor'[b] = [actor[b] EXCEPT !.pc = "start"] /\ actor[b].pc = "wait"
      /\ actor' = [b \in Actor |-> actor'[b]]
  BY DEF Store, At
<1> HIDE DEF ans, n
<1>6. \A b \in Actor \ {a} :
          /\ actor'[b] \in ActorState
          /\ actor'[b].got = actor[b].got
          /\ actor'[b] = actor[b] \/ actor'[b].pc = "start"
  BY <1>1, <1>5 DEF ActorState
<1>7. actor' \in [Actor -> ActorState]
  BY <1>3, <1>5, <1>6
<1>8. Scans'
  BY <1>1, <1>3, <1>4, <1>5, <1>6 DEF n, IndInv, Scans, OneScanPerNode, ScansInFlight, Scanning
<1>9. \A b \in Actor : \/ actor'[b].got = actor[b].got /\ ~Comes(b)
                       \/ actor'[b].got.node = n /\ actor'[b].got.shows = shot.shows /\ b = a
  BY <1>3, <1>5, <1>6 DEF Comes
<1>10. \A b \in Actor : actor'[b].pc = "scanned" => actor'[b] = actor[b] /\ actor[b].node # n
  BY <1>1, <1>3, <1>5, <1>6 DEF n, IndInv, OneScanPerNode, Scanning, ActorState
<1>11. AnswersLag'
  BY <1>4, <1>9 DEF n, IndInv, AnswersLag
<1>12. SnapsLead'
  <2> USE InventoryBounds DEF Shown, Unknown
  <2>1. shot.shows = Unknown \/ shot.shows <= shot.shows
    BY <1>2
  <2>2. ASSUME NEW m \in Node, m # n, snaps[m] # NoSnap
        PROVE  /\ snaps[m].shows <= disk[m]
               /\ \/ snaps[m].shows = Unknown
                  \/ \A b \in Actor : actor'[b].got.node = m => actor'[b].got.shows <= snaps[m].shows
    BY <1>9, <2>2 DEF IndInv, SnapsLead
  <2>3. /\ shot.shows <= disk[n]
        /\ \/ shot.shows = Unknown
           \/ \A b \in Actor : actor'[b].got.node = n => actor'[b].got.shows <= shot.shows
    BY <1>9, <2>1 DEF n
  <2> QED
    BY <1>1, <1>4, <2>2, <2>3 DEF SnapsLead
<1>13. ScansLead'
  BY <1>1, <1>4, <1>9, <1>10 DEF IndInv, ScansLead, At
<1>14. InOrder
  BY <1>9 DEF n, InOrder
<1> QED
  BY <1>1, <1>4, <1>7, <1>8, <1>11, <1>12, <1>13, <1>14 DEF Order

LEMMA ScanEndStep ==
    ASSUME IndInv, NEW a \in Actor, ScanEnd(a)
    PROVE  /\ snaps' \in [Node -> Snapshot \cup {NoSnap}]
           /\ inflight' \subseteq Node
           /\ actor' \in [Actor -> ActorState]
           /\ Scans' /\ Order' /\ InOrder
<1> DEFINE shot == [shows |-> actor[a].saw, at |-> now, err |-> FALSE]
<1>1. TypeOK /\ actor[a].node \in Node /\ actor[a].saw \in 0..MaxChanges
  BY Integral DEF IndInv
<1>2. shot \in Snapshot /\ shot.shows = actor[a].saw
  BY <1>1 DEF TypeOK, Snapshot, Shown
<1>3. actor[a].pc = "scanned" /\ Store(a, shot)
  BY DEF ScanEnd, At
<1>4. /\ actor[a].saw <= disk[actor[a].node]
      /\ \A b \in Actor : actor[b].got.node = actor[a].node => actor[b].got.shows <= actor[a].saw
  BY <1>1, <1>3 DEF IndInv, ScansLead, At
<1> HIDE DEF shot
<1> QED
  BY <1>2, <1>3, <1>4, StoreStep

LEMMA ScanFailsStep ==
    ASSUME IndInv, NEW a \in Actor, ScanFails(a)
    PROVE  /\ snaps' \in [Node -> Snapshot \cup {NoSnap}]
           /\ inflight' \subseteq Node
           /\ actor' \in [Actor -> ActorState]
           /\ Scans' /\ Order' /\ InOrder
<1> DEFINE n == actor[a].node
           shot == ScanFailed(snaps[n])
<1>1. TypeOK /\ n \in Node /\ disk[n] \in 0..MaxChanges
  BY Integral DEF IndInv
<1>2. actor[a].pc \in {"scan", "scanned"} /\ Store(a, shot)
  BY DEF ScanFails
<1>3. CASE snaps[n] = NoSnap
  <2>1. shot = [shows |-> Unknown, at |-> now, err |-> TRUE]
    BY <1>3 DEF ScanFailed
  <2>2. shot \in Snapshot /\ shot.shows = Unknown /\ shot.shows <= disk[n]
    BY <1>1, <2>1, InventoryBounds DEF TypeOK, Snapshot, Shown, Unknown
  <2> QED
    BY <1>2, <2>2, StoreStep
<1>4. CASE snaps[n] # NoSnap
  <2>1. shot = [snaps[n] EXCEPT !.err = TRUE] /\ snaps[n] \in Snapshot
    BY <1>1, <1>4 DEF ScanFailed, TypeOK
  <2>2. shot \in Snapshot /\ shot.shows = snaps[n].shows
    BY <2>1 DEF Snapshot
  <2>3. /\ snaps[n].shows <= disk[n]
        /\ \/ snaps[n].shows = Unknown
           \/ \A b \in Actor : actor[b].got.node = n => actor[b].got.shows <= snaps[n].shows
    BY <1>1, <1>4 DEF IndInv, SnapsLead
  <2> QED
    BY <1>2, <2>2, <2>3, StoreStep
<1> QED
  BY <1>3, <1>4

-----------------------------------------------------------------------------
(* Every step keeps the invariant and answers in order. *)

LEMMA InitHolds ==
    ASSUME Init
    PROVE  IndInv
<1> USE InventoryBounds DEF Init
<1>1. TypeOK
  BY DEF TypeOK, ActorState, Answer, Shown
<1>2. OneScanPerNode /\ ScansInFlight /\ SnapsLead /\ ScansLead
  BY DEF OneScanPerNode, ScansInFlight, SnapsLead, ScansLead, Scanning, At
<1>3. AnswersLag
  BY DEF AnswersLag, Unknown
<1> QED
  BY <1>1, <1>2, <1>3 DEF IndInv

(* A directory that changes is ahead of everything seen of it. *)
LEMMA ChangesStep ==
    ASSUME IndInv, NEW n \in Node, Changes(n), UNCHANGED <<snaps, inflight, actor>>
    PROVE  disk' \in [Node -> 0..MaxChanges] /\ Scans' /\ Order' /\ InOrder
<1> USE InventoryBounds
<1>1. TypeOK /\ disk \in [Node -> 0..MaxChanges] /\ disk[n] + 1 \in 0..MaxChanges
  BY Integral DEF IndInv, TypeOK, Changes
<1>2. disk' = [disk EXCEPT ![n] = disk[n] + 1]
  BY DEF Changes
<1>3. \A m \in Node : disk'[m] \in 0..MaxChanges /\ disk[m] <= disk'[m]
  BY <1>1, <1>2
<1>4. AnswersLag'
  BY <1>1, <1>3, Integral DEF IndInv, AnswersLag, Shown, Unknown
<1>5. SnapsLead'
  BY <1>1, <1>3, Integral DEF IndInv, SnapsLead, Shown, Unknown
<1>6. ScansLead'
  BY <1>1, <1>3, Integral DEF IndInv, ScansLead, At
<1>7. Scans' /\ InOrder
  BY DEF IndInv, Scans, OneScanPerNode, ScansInFlight, Scanning, InOrder, Comes
<1> QED
  BY <1>1, <1>2, <1>4, <1>5, <1>6, <1>7 DEF Order

LEMMA InvalidateStep ==
    ASSUME IndInv, NEW c \in change, Invalidate(c)
    PROVE  /\ snaps' \in [Node -> Snapshot \cup {NoSnap}]
           /\ change' \subseteq ChangeState
           /\ told' \in [Node -> 0..MaxChanges]
           /\ Scans' /\ Order' /\ InOrder
<1>1. c \in ChangeState /\ c.node \in Node /\ c.version \in 0..MaxChanges
  BY DEF IndInv, TypeOK, ChangeState
<1>2. snaps' = [n \in Node |-> NoSnap] /\ UNCHANGED <<disk, inflight, actor>>
  BY DEF Invalidate
<1>3. told' \in [Node -> 0..MaxChanges]
  BY <1>1 DEF Invalidate, Told, IndInv, TypeOK
<1>4. change' \subseteq ChangeState
  <2>1. [c EXCEPT !.pc = "rescan"] \in ChangeState
    BY <1>1 DEF ChangeState
  <2> QED
    BY <2>1 DEF Invalidate, Went, IndInv, TypeOK
<1>5. Scans' /\ Order' /\ InOrder
  BY <1>2 DEF IndInv, Scans, OneScanPerNode, ScansInFlight, Scanning, Order, AnswersLag,
              SnapsLead, ScansLead, At, InOrder, Comes
<1> QED
  BY <1>2, <1>3, <1>4, <1>5

(* A harmless step that leaves the clock and the promises alone. *)
LEMMA HarmlessKeeps ==
    ASSUME IndInv, Harmless, change' \subseteq ChangeState, UNCHANGED <<told, now>>
    PROVE  IndInv' /\ InOrder
  BY HarmlessStep DEF IndInv, Harmless, TypeOK, Scans, Order

LEMMA NextStep ==
    ASSUME IndInv, [Next]_vars
    PROVE  IndInv' /\ InOrder
<1> SUFFICES (TypeOK /\ Scans /\ Order)' /\ InOrder
  BY DEF IndInv, Scans, Order
<1>1. ASSUME NEW a \in Actor, LookFresh(a) \/ Defer(a) \/ LastScan(a) \/ GiveUp(a)
      PROVE  (TypeOK /\ Scans /\ Order)' /\ InOrder
  <2>1. Harmless
    BY <1>1, LookFreshStep, DeferStep, LastStep, GiveUpStep
  <2>2. UNCHANGED <<change, told, now>>
    BY <1>1 DEF LookFresh, Defer, LastScan, GiveUp
  <2> QED
    BY <2>1, <2>2, HarmlessKeeps DEF IndInv, TypeOK, Scans, Order
<1>2. ASSUME NEW a \in Actor, NEW n \in Node, Read(a, n)
      PROVE  (TypeOK /\ Scans /\ Order)' /\ InOrder
  <2>1. Harmless
    BY <1>2, ReadStep
  <2>2. UNCHANGED <<change, told, now>>
    BY <1>2 DEF Read
  <2> QED
    BY <2>1, <2>2, HarmlessKeeps DEF IndInv, TypeOK, Scans, Order
<1>3. ASSUME NEW a \in Actor, SnapshotStart(a)
      PROVE  (TypeOK /\ Scans /\ Order)' /\ InOrder
  BY <1>3, SnapshotStartStep DEF SnapshotStart, IndInv, TypeOK
<1>4. ASSUME NEW a \in Actor, ScanLook(a)
      PROVE  (TypeOK /\ Scans /\ Order)' /\ InOrder
  BY <1>4, ScanLookStep DEF ScanLook, IndInv, TypeOK
<1>5. ASSUME NEW a \in Actor, ScanEnd(a)
      PROVE  (TypeOK /\ Scans /\ Order)' /\ InOrder
  BY <1>5, ScanEndStep DEF ScanEnd, Store, IndInv, TypeOK
<1>6. ASSUME NEW a \in Actor, ScanFails(a)
      PROVE  (TypeOK /\ Scans /\ Order)' /\ InOrder
  BY <1>6, ScanFailsStep DEF ScanFails, Store, IndInv, TypeOK
<1>7. ASSUME NEW n \in Node, Change(n)
      PROVE  (TypeOK /\ Scans /\ Order)' /\ InOrder
  <2>1. [node |-> n, version |-> disk[n] + 1, pc |-> "made"] \in ChangeState
    BY <1>7, InventoryBounds, Integral DEF Change, Changes, IndInv, TypeOK, ChangeState
  <2> QED
    BY <1>7, <2>1, ChangesStep DEF Change, IndInv, TypeOK
<1>8. ASSUME NEW n \in Node, OtherChange(n)
      PROVE  (TypeOK /\ Scans /\ Order)' /\ InOrder
  BY <1>8, ChangesStep DEF OtherChange, IndInv, TypeOK
<1>9. ASSUME NEW c \in change, Invalidate(c)
      PROVE  (TypeOK /\ Scans /\ Order)' /\ InOrder
  BY <1>9, InvalidateStep DEF Invalidate, IndInv, TypeOK
<1>10. ASSUME NEW c \in change, Rescan(c)
       PROVE  (TypeOK /\ Scans /\ Order)' /\ InOrder
  <2>1. Harmless /\ change' \subseteq ChangeState /\ UNCHANGED <<told, now>>
    BY <1>10, RescanStep, RescanTypes DEF Rescan, IndInv
  <2> QED
    BY <2>1, HarmlessKeeps DEF IndInv, Scans, Order
<1>11. CASE Tick \/ UNCHANGED vars
  <2>1. UNCHANGED <<disk, snaps, inflight, actor, change, told>> /\ now' \in 0..MaxTime
    BY <1>11, InventoryBounds DEF Tick, vars, IndInv, TypeOK
  <2>2. TypeOK'
    BY <2>1 DEF IndInv, TypeOK
  <2>3. (Scans /\ Order)' /\ InOrder
    BY <2>1 DEF IndInv, Scans, OneScanPerNode, ScansInFlight, Scanning, Order, AnswersLag,
                SnapsLead, ScansLead, At, InOrder, Comes
  <2> QED
    BY <2>2, <2>3
<1>12. QED
  BY <1>1, <1>2, <1>3, <1>4, <1>5, <1>6, <1>7, <1>8, <1>9, <1>10, <1>11 DEF Next, Call, Scan

-----------------------------------------------------------------------------
LEMMA Inductive == Spec => []IndInv
<1>1. Init => IndInv
  BY InitHolds
<1>2. IndInv /\ [Next]_vars => IndInv'
  BY NextStep
<1> QED
  BY <1>1, <1>2, PTL DEF Spec

(* The variables keep their types: what inventory holds, what the calls are at. *)
THEOREM TypeCorrect == Spec => []TypeOK
<1>1. IndInv => TypeOK
  BY DEF IndInv
<1> QED
  BY <1>1, Inductive, PTL

(* A node never has two scans of this process at a time: inventory.inflight
   de-duplicates them through failures, refreshes and invalidations. *)
THEOREM ScansDeduplicated == Spec => []OneScanPerNode
<1>1. IndInv => OneScanPerNode
  BY DEF IndInv
<1> QED
  BY <1>1, Inductive, PTL

(* Whoever is answered later is shown no older cache than anybody answered
   before: inventory.snaps never falls behind what it has shown. *)
THEOREM AnswersNeverGoBack == Spec => NeverGoesBack
<1> DEFINE Step ==
        \A a, b \in Reader :
            LET before == actor[b].got
                after == actor'[a].got
            IN /\ actor[a].pc # "idle" /\ actor'[a].pc = "idle"
               /\ before.node = after.node
               /\ after.shows # Unknown
               => after.shows >= before.shows
<1>1. IndInv /\ [Next]_vars => Step
  <2> SUFFICES ASSUME IndInv, [Next]_vars,
                      NEW a \in Reader, NEW b \in Reader,
                      actor[a].pc # "idle", actor'[a].pc = "idle",
                      actor[b].got.node = actor'[a].got.node,
                      actor'[a].got.shows # Unknown
               PROVE  actor'[a].got.shows >= actor[b].got.shows
    OBVIOUS
  <2>1. InOrder /\ TypeOK /\ TypeOK'
    BY NextStep DEF IndInv
  <2>2. a \in Actor /\ b \in Actor /\ Comes(a)
    BY DEF Actor, Comes
  <2>3. actor[b].got.shows <= actor'[a].got.shows
    BY <2>1, <2>2 DEF InOrder
  <2>4. actor[b].got.shows \in Int /\ actor'[a].got.shows \in Int
    BY <2>1, <2>2, InventoryBounds DEF TypeOK, ActorState, Answer, Shown, Unknown
  <2> QED
    BY <2>3, <2>4
<1>2. QED
  BY <1>1, Inductive, PTL DEF Spec, NeverGoesBack

-----------------------------------------------------------------------------
(* What was announced is on the disk, in every good snapshot and in what every
   scan under way has read: where only changes announced outside a scan count,
   a scan that began before the announcement is none of them. *)
Promised ==
    /\ \A n \in Node : told[n] <= disk[n]
    /\ \A c \in change : c.version <= disk[c.node]
    /\ \A n \in Node : snaps[n] # NoSnap /\ ~snaps[n].err => told[n] <= snaps[n].shows
    /\ \A a \in Actor : At(a, "scanned") => told[actor[a].node] <= actor[a].saw
    /\ \A a \in Actor : actor[a].must <= told[actor[a].node]

(* What a step does to an actor: it asks for what is promised now, or as
   before; it sees what is on the disk; it is answered well with a good
   snapshot or with its own scan. *)
Faithful(b) ==
    /\ \/ actor'[b].must = actor[b].must /\ actor'[b].node = actor[b].node
       \/ actor'[b].must = 0 /\ actor'[b].node \in Node
       \/ actor'[b].must = told[actor'[b].node] /\ actor'[b].node \in Node
    /\ actor'[b].pc = "scanned" =>
        \/ actor[b].pc = "scanned" /\ actor'[b].saw = actor[b].saw /\ actor'[b].node = actor[b].node
        \/ actor'[b].saw = disk[actor'[b].node] /\ actor'[b].node \in Node
    /\ Comes(b) /\ actor'[b].got.good =>
        \/ /\ snaps[actor[b].node] # NoSnap /\ ~snaps[actor[b].node].err
           /\ actor'[b].got.shows = snaps[actor[b].node].shows
        \/ actor[b].pc = "scanned" /\ actor'[b].got.shows = actor[b].saw

(* A call that is answered well sees what it must. *)
Sees ==
    \A a \in Actor : Comes(a) /\ actor'[a].got.good => actor'[a].got.shows >= actor[a].must

LEMMA FaithfulSees ==
    ASSUME IndInv, Promised, \A b \in Actor : Faithful(b)
    PROVE  Sees
<1> SUFFICES ASSUME NEW a \in Actor, Comes(a), actor'[a].got.good
             PROVE  actor'[a].got.shows >= actor[a].must
  BY DEF Sees
<1>1. /\ actor[a].must \in Int /\ told[actor[a].node] \in Int /\ actor[a].saw \in Int
      /\ actor[a].node \in Node
  BY InventoryBounds DEF IndInv, TypeOK, ActorState
<1>2. snaps[actor[a].node] # NoSnap => snaps[actor[a].node].shows \in Int
  BY <1>1, Integral, InventoryBounds DEF IndInv, Shown, Unknown
<1> QED
  BY <1>1, <1>2 DEF Promised, Faithful, At

LEMMA UnmovedFaithful ==
    ASSUME NEW b \in Actor, actor'[b] = actor[b]
    PROVE  Faithful(b)
  BY DEF Faithful, Comes

(* One actor moves. *)
LEMMA OneFaithful ==
    ASSUME TypeOK, NEW a \in Actor, NEW q, actor' = [actor EXCEPT ![a] = q],
           actor'[a] = q => Faithful(a)
    PROVE  \A b \in Actor : Faithful(b)
<1>1. actor'[a] = q /\ \A b \in Actor \ {a} : actor'[b] = actor[b]
  BY DEF TypeOK
<1> QED
  BY <1>1, UnmovedFaithful

LEMMA AnsweredWell ==
    ASSUME actor \in [Actor -> ActorState], NEW a \in Actor, NEW shows \in Shown, NEW good \in BOOLEAN
    PROVE  /\ Answered(a, shows, good).must = 0
           /\ Answered(a, shows, good).pc = "idle"
           /\ Answered(a, shows, good).node = actor[a].node
           /\ a \in Reader => /\ Answered(a, shows, good).got.shows = shows
                              /\ Answered(a, shows, good).got.good = good
<1> DEFINE got == IF a \in Reader THEN [node |-> actor[a].node, shows |-> shows, good |-> good]
                  ELSE actor[a].got
           ans == [actor[a] EXCEPT !.pc = "idle", !.ttl = TTL, !.must = 0, !.saw = 0, !.got = got]
<1>1. actor[a] \in ActorState
  OBVIOUS
<1>2. Answered(a, shows, good) = ans
  BY DEF Answered
<1>3. ans.must = 0 /\ ans.pc = "idle" /\ ans.node = actor[a].node /\ ans.got = got
  BY <1>1 DEF ActorState
<1> QED
  BY <1>2, <1>3

LEMMA AnsweredFaithful ==
    ASSUME TypeOK, NEW a \in Actor, NEW shows \in Shown, NEW good \in BOOLEAN,
           actor'[a] = Answered(a, shows, good),
           good => \/ /\ snaps[actor[a].node] # NoSnap /\ ~snaps[actor[a].node].err
                      /\ shows = snaps[actor[a].node].shows
                   \/ actor[a].pc = "scanned" /\ shows = actor[a].saw
    PROVE  Faithful(a)
<1>1. actor[a].node \in Node /\ actor \in [Actor -> ActorState]
  BY Integral DEF TypeOK
<1>2. /\ actor'[a].must = 0 /\ actor'[a].pc = "idle" /\ actor'[a].node = actor[a].node
      /\ a \in Reader => actor'[a].got.shows = shows /\ actor'[a].got.good = good
  BY <1>1, AnsweredWell
<1> QED
  BY <1>1, <1>2 DEF Faithful, Comes

LEMMA GotoFaithful ==
    ASSUME TypeOK, NEW a \in Actor, NEW pc \in {"start", "defer", "last", "wait", "scan"},
           Goto(a, pc)
    PROVE  \A b \in Actor : Faithful(b)
<1> DEFINE q == [actor[a] EXCEPT !.pc = pc]
<1>1. actor[a] \in ActorState
  BY Integral
<1>2. q.pc = pc /\ q.must = actor[a].must /\ q.node = actor[a].node
  BY <1>1 DEF ActorState
<1>3. actor' = [actor EXCEPT ![a] = q]
  BY DEF Goto
<1>4. actor'[a] = q => Faithful(a)
  BY <1>2 DEF Faithful, Comes
<1> HIDE DEF q
<1> QED
  BY <1>3, <1>4, OneFaithful

LEMMA StartFaithful ==
    ASSUME TypeOK, NEW a \in Actor, NEW pc \in {"fresh", "start"}, NEW n \in Node, NEW ttl \in {0, TTL},
           actor'[a] = Start(actor[a], pc, n, ttl)
    PROVE  Faithful(a)
<1> DEFINE got == [node |-> n, shows |-> Unknown, good |-> FALSE]
           q == [actor[a] EXCEPT !.pc = pc, !.node = n, !.ttl = ttl, !.must = told[n], !.got = got]
<1>1. actor[a] \in ActorState
  BY Integral
<1>2. q.pc = pc /\ q.node = n /\ q.must = told[n]
  BY <1>1 DEF ActorState
<1>3. actor'[a] = q
  BY DEF Start
<1> QED
  BY <1>2, <1>3 DEF Faithful, Comes

LEMMA FromCacheFaithful ==
    ASSUME TypeOK, NEW a \in Actor, snaps[actor[a].node] # NoSnap, FromCache(a)
    PROVE  \A b \in Actor : Faithful(b)
<1> DEFINE s == snaps[actor[a].node]
           good == ~s.err
           q == Answered(a, s.shows, good)
<1>1. s.shows \in Shown /\ good \in BOOLEAN
  BY Integral
<1>2. actor' = [actor EXCEPT ![a] = q]
  BY DEF FromCache
<1>3. actor'[a] = q => Faithful(a)
  <2>1. ASSUME NEW g \in BOOLEAN, g => ~s.err, actor'[a] = Answered(a, s.shows, g)
        PROVE  Faithful(a)
    BY <1>1, <2>1, AnsweredFaithful
  <2> QED
    BY <1>1, <2>1
<1> HIDE DEF q
<1> QED
  BY <1>2, <1>3, OneFaithful

(* A call that is answered with what may be old. *)
LEMMA BadlyFaithful ==
    ASSUME TypeOK, NEW a \in Actor, NEW shows \in Shown,
           actor' = [actor EXCEPT ![a] = Answered(a, shows, FALSE)]
    PROVE  \A b \in Actor : Faithful(b)
<1>1. actor'[a] = Answered(a, shows, FALSE) => Faithful(a)
  BY AnsweredFaithful
<1> QED
  BY <1>1, OneFaithful

LEMMA RefreshedFaithful ==
    ASSUME TypeOK, NEW n \in Node, NEW as \in [Actor -> ActorState],
           \A b \in Actor : as[b] = actor[b] \/ (as[b].pc = "last" /\ as[b].must = actor[b].must
                                                 /\ as[b].node = actor[b].node),
           \A b \in Actor : as[b].pc = "idle" => as[b] = actor[b],
           actor' \in Refreshed(n, as)
    PROVE  \A b \in Actor : Faithful(b)
<1> SUFFICES ASSUME NEW b \in Actor PROVE Faithful(b)
  OBVIOUS
<1>1. ASSUME actor'[b] = as[b]
      PROVE  Faithful(b)
  <2>1. CASE as[b] = actor[b]
    BY <1>1, <2>1, UnmovedFaithful
  <2>2. CASE as[b].pc = "last" /\ as[b].must = actor[b].must /\ as[b].node = actor[b].node
    BY <1>1, <2>2 DEF Faithful, Comes
  <2> QED
    BY <2>1, <2>2
<1>2. CASE actor' = as
  BY <1>1, <1>2
<1>3. ASSUME NEW r \in Refresher, as[r].pc = "idle",
             actor' = [as EXCEPT ![r] = Start(as[r], "start", n, TTL)]
      PROVE  Faithful(b)
  <2>1. r \in Actor /\ as[r] = actor[r]
    BY <1>3 DEF Actor
  <2>2. CASE b = r
    <3>1. actor'[b] = Start(actor[b], "start", n, TTL)
      BY <1>3, <2>1, <2>2
    <3> QED
      BY <3>1, StartFaithful
  <2>3. CASE b # r
    BY <1>1, <1>3, <2>3
  <2> QED
    BY <2>2, <2>3
<1> QED
  BY <1>2, <1>3 DEF Refreshed

LEMMA CallsFaithful ==
    ASSUME TypeOK, NEW a \in Actor,
           LookFresh(a) \/ Defer(a) \/ LastScan(a) \/ GiveUp(a) \/ SnapshotStart(a)
             \/ \E n \in Node : Read(a, n)
    PROVE  \A b \in Actor : Faithful(b)
<1>1. CASE LookFresh(a)
  BY <1>1, FromCacheFaithful, GotoFaithful DEF LookFresh, Fresh
<1>2. CASE SnapshotStart(a)
  BY <1>2, FromCacheFaithful, GotoFaithful DEF SnapshotStart, Fresh
<1>3. CASE LastScan(a)
  <2>1. (IF snaps[actor[a].node] = NoSnap THEN Unknown ELSE snaps[actor[a].node].shows) \in Shown
    BY Integral DEF Shown
  <2> QED
    BY <1>3, <2>1, BadlyFaithful DEF LastScan
<1>4. CASE GiveUp(a)
  BY <1>4, BadlyFaithful DEF GiveUp, Shown
<1>5. CASE Defer(a)
  <2> DEFINE as == [actor EXCEPT ![a].pc = "last"]
             q == [actor[a] EXCEPT !.pc = "last"]
  <2>1. /\ q \in ActorState /\ q.pc = "last" /\ q.must = actor[a].must /\ q.node = actor[a].node
    BY Integral DEF ActorState
  <2>2. as \in [Actor -> ActorState] /\ as[a] = q /\ \A b \in Actor \ {a} : as[b] = actor[b]
    BY <2>1 DEF TypeOK
  <2>3. actor' \in Refreshed(actor[a].node, as) /\ actor[a].node \in Node
    BY <1>5, Integral DEF Defer
  <2> HIDE DEF as, q
  <2> QED
    BY <2>1, <2>2, <2>3, RefreshedFaithful, ZenonT(40)
<1>6. ASSUME NEW n \in Node, Read(a, n)
      PROVE  \A b \in Actor : Faithful(b)
  <2>1. PICK pc \in {"fresh", "start"}, ttl \in {0, TTL} :
            actor' = [actor EXCEPT ![a] = Start(actor[a], pc, n, ttl)]
    BY <1>6 DEF Read
  <2>2. actor'[a] = Start(actor[a], pc, n, ttl) => Faithful(a)
    BY StartFaithful
  <2> QED
    BY <2>1, <2>2, OneFaithful
<1> QED
  BY <1>1, <1>2, <1>3, <1>4, <1>5, <1>6

LEMMA LookFaithful ==
    ASSUME TypeOK, NEW a \in Actor, ScanLook(a)
    PROVE  \A b \in Actor : Faithful(b)
<1> DEFINE q == [actor[a] EXCEPT !.pc = "scanned", !.saw = disk[actor[a].node]]
<1>1. /\ q.pc = "scanned" /\ q.must = actor[a].must /\ q.node = actor[a].node
      /\ q.saw = disk[actor[a].node] /\ actor[a].node \in Node
  BY Integral DEF ActorState
<1>2. actor' = [actor EXCEPT ![a] = q]
  BY DEF ScanLook, TypeOK
<1>3. actor'[a] = q => Faithful(a)
  BY <1>1 DEF Faithful, Comes
<1> HIDE DEF q
<1> QED
  BY <1>2, <1>3, OneFaithful

LEMMA StoreFaithful ==
    ASSUME TypeOK, NEW a \in Actor, NEW shot \in Snapshot, Store(a, shot),
           shot.err \/ (actor[a].pc = "scanned" /\ shot.shows = actor[a].saw)
    PROVE  \A b \in Actor : Faithful(b)
<1> SUFFICES ASSUME NEW b \in Actor PROVE Faithful(b)
  OBVIOUS
<1>1. CASE b = a
  <2>1. ASSUME NEW good \in BOOLEAN, good = ~shot.err, actor'[a] = Answered(a, shot.shows, good)
        PROVE  Faithful(a)
    BY <2>1, AnsweredFaithful DEF Snapshot
  <2>2. actor'[a] = Answered(a, shot.shows, ~shot.err)
    BY DEF Store
  <2>3. (~shot.err) \in BOOLEAN
    OBVIOUS
  <2> QED
    BY <1>1, <2>1, <2>2, <2>3
<1>2. CASE b # a
  <2>1. actor'[b] = [actor[b] EXCEPT !.pc = "start"] \/ actor'[b] = actor[b]
    BY <1>2 DEF Store
  <2>2. [actor[b] EXCEPT !.pc = "start"].pc = "start"
        /\ [actor[b] EXCEPT !.pc = "start"].must = actor[b].must
        /\ [actor[b] EXCEPT !.pc = "start"].node = actor[b].node
    BY Integral DEF ActorState
  <2> QED
    BY <2>1, <2>2, UnmovedFaithful DEF Faithful, Comes
<1> QED
  BY <1>1, <1>2

LEMMA PromisedKept ==
    ASSUME IndInv, IndInv', Promised, \A b \in Actor : Faithful(b), told' = told,
           \A n \in Node : disk[n] <= disk'[n],
           \A c \in change' : c.version <= disk'[c.node],
           \A n \in Node : snaps'[n] # NoSnap /\ ~snaps'[n].err =>
                \/ snaps[n] # NoSnap /\ ~snaps[n].err /\ snaps'[n].shows = snaps[n].shows
                \/ told[n] <= snaps'[n].shows
    PROVE  Promised'
<1>1. \A n \in Node : told[n] \in Nat /\ disk[n] \in Nat /\ disk'[n] \in Nat
  BY InventoryBounds DEF IndInv, TypeOK
<1>2. \A n \in Node : told'[n] <= disk'[n]
  BY <1>1 DEF Promised
<1>3. \A n \in Node : snaps'[n] # NoSnap /\ ~snaps'[n].err => told'[n] <= snaps'[n].shows
  BY DEF Promised
<1>4. ASSUME NEW a \in Actor, actor'[a].pc = "scanned"
      PROVE  told'[actor'[a].node] <= actor'[a].saw
  BY <1>1, <1>4 DEF Promised, Faithful, At
<1>5. ASSUME NEW a \in Actor
      PROVE  actor'[a].must <= told'[actor'[a].node]
  <2>1. actor[a].node \in Node /\ told[actor[a].node] \in Nat
    BY <1>1, Integral DEF IndInv
  <2>2. \A n \in Node : told[n] <= told[n] /\ 0 <= told[n]
    BY <1>1
  <2> QED
    BY <2>1, <2>2 DEF Promised, Faithful
<1> QED
  BY <1>2, <1>3, <1>4, <1>5 DEF Promised, At

LEMMA PromisedInvalidate ==
    ASSUME IndInv, Promised, ~Strict, NEW c \in change, Invalidate(c)
    PROVE  Promised'
<1>1. c \in ChangeState /\ c.node \in Node /\ c.version \in Nat
  BY InventoryBounds DEF IndInv, TypeOK, ChangeState
<1>2. \A n \in Node : told[n] \in Nat /\ disk[n] \in Nat
  BY InventoryBounds DEF IndInv, TypeOK
<1>3. UNCHANGED <<disk, actor>> /\ snaps' = [n \in Node |-> NoSnap] /\ Told(c) /\ Went(c)
  BY DEF Invalidate
<1>4. \A n \in Node : \/ told'[n] = told[n]
                      \/ /\ n = c.node /\ n \notin inflight
                         /\ told'[n] = c.version /\ told[n] < c.version
  BY <1>1, <1>3 DEF Told, IndInv, TypeOK
<1>5. \A n \in Node : told[n] <= told'[n] /\ told'[n] <= disk[n]
  BY <1>1, <1>2, <1>4 DEF Promised
<1>6. \A d \in change' : d.version <= disk'[d.node]
  <2>1. [c EXCEPT !.pc = "rescan"].version = c.version /\ [c EXCEPT !.pc = "rescan"].node = c.node
    BY <1>1 DEF ChangeState
  <2> QED
    BY <1>3, <2>1 DEF Went, Promised
<1>7. ASSUME NEW a \in Actor, actor[a].pc = "scanned"
      PROVE  told'[actor[a].node] <= actor[a].saw
  <2>1. actor[a].node \in Node /\ actor[a].node \in inflight
    BY <1>7, Integral DEF IndInv, ScansInFlight, Scanning
  <2> QED
    BY <1>4, <1>7, <2>1 DEF Promised, At
<1>8. ASSUME NEW a \in Actor
      PROVE  actor[a].must <= told'[actor[a].node]
  <2>1. /\ actor[a].node \in Node /\ actor[a].must \in Nat
        /\ told[actor[a].node] \in Nat /\ told'[actor[a].node] \in Nat
    BY <1>1, <1>2, <1>4, Integral, InventoryBounds DEF IndInv, ActorState
  <2> QED
    BY <1>5, <2>1 DEF Promised
<1> QED
  BY <1>3, <1>5, <1>6, <1>7, <1>8 DEF Promised, At

LEMMA PromisedStep ==
    ASSUME IndInv, Promised, ~Strict, [Next]_vars
    PROVE  Promised' /\ Sees
<1>1. IndInv' /\ TypeOK
  BY NextStep DEF IndInv
<1>2. \A n \in Node : disk[n] \in Nat /\ disk[n] <= disk[n]
  BY <1>1, InventoryBounds DEF TypeOK
<1>3. \A c \in change : c \in ChangeState /\ c.node \in Node
  BY <1>1 DEF TypeOK, ChangeState
<1>4. ASSUME NEW a \in Actor,
             LookFresh(a) \/ Defer(a) \/ LastScan(a) \/ GiveUp(a) \/ SnapshotStart(a)
               \/ \E n \in Node : Read(a, n)
      PROVE  Promised' /\ Sees
  <2>1. UNCHANGED <<disk, snaps, change, told>>
    BY <1>4 DEF LookFresh, Defer, LastScan, GiveUp, SnapshotStart, Read
  <2> QED
    BY <1>1, <1>2, <1>4, <2>1, CallsFaithful, PromisedKept, FaithfulSees DEF Promised
<1>5. ASSUME NEW a \in Actor, ScanLook(a)
      PROVE  Promised' /\ Sees
  <2>1. UNCHANGED <<disk, snaps, change, told>>
    BY <1>5 DEF ScanLook
  <2> QED
    BY <1>1, <1>2, <1>5, <2>1, LookFaithful, PromisedKept, FaithfulSees DEF Promised
<1>6. ASSUME NEW a \in Actor, NEW shot \in Snapshot, Store(a, shot),
             shot.err \/ (actor[a].pc = "scanned" /\ shot.shows = actor[a].saw)
      PROVE  Promised' /\ Sees
  <2>1. UNCHANGED <<disk, change, told>> /\ snaps' = [snaps EXCEPT ![actor[a].node] = shot]
    BY <1>6 DEF Store
  <2>2. \A n \in Node : snaps'[n] = IF n = actor[a].node THEN shot ELSE snaps[n]
    BY <1>1, <2>1 DEF TypeOK
  <2>3. \A n \in Node : snaps'[n] # NoSnap /\ ~snaps'[n].err =>
            \/ snaps[n] # NoSnap /\ ~snaps[n].err /\ snaps'[n].shows = snaps[n].shows
            \/ told[n] <= snaps'[n].shows
    BY <1>6, <2>2 DEF Promised, At
  <2>4. \A b \in Actor : Faithful(b)
    BY <1>1, <1>6, StoreFaithful
  <2> QED
    BY <1>1, <1>2, <2>1, <2>3, <2>4, PromisedKept, FaithfulSees DEF Promised
<1>7. ASSUME NEW a \in Actor, ScanEnd(a) \/ ScanFails(a)
      PROVE  Promised' /\ Sees
  <2>1. actor[a].node \in Node /\ actor[a].saw \in Shown /\ now \in 0..MaxTime
    BY <1>1, Integral DEF TypeOK, Shown
  <2>2. CASE ScanEnd(a)
    <3> DEFINE shot == [shows |-> actor[a].saw, at |-> now, err |-> FALSE]
    <3>1. shot \in Snapshot /\ shot.shows = actor[a].saw
      BY <2>1 DEF Snapshot
    <3>2. Store(a, shot) /\ actor[a].pc = "scanned"
      BY <2>2 DEF ScanEnd, At
    <3> HIDE DEF shot
    <3> QED
      BY <1>6, <3>1, <3>2
  <2>3. CASE ScanFails(a)
    <3> DEFINE shot == ScanFailed(snaps[actor[a].node])
    <3>1. snaps[actor[a].node] \in Snapshot \cup {NoSnap}
      BY <1>1, <2>1 DEF TypeOK
    <3>2. shot \in Snapshot /\ shot.err
      BY <2>1, <3>1 DEF ScanFailed, Snapshot, Shown
    <3>3. Store(a, shot)
      BY <2>3 DEF ScanFails
    <3> HIDE DEF shot
    <3> QED
      BY <1>6, <3>2, <3>3
  <2> QED
    BY <1>7, <2>2, <2>3
<1>8. ASSUME NEW n \in Node, Change(n) \/ OtherChange(n)
      PROVE  Promised' /\ Sees
  <2>1. UNCHANGED <<snaps, actor, told>> /\ disk' = [disk EXCEPT ![n] = disk[n] + 1]
    BY <1>8 DEF Change, OtherChange, Changes
  <2>2. \A m \in Node : disk'[m] = IF m = n THEN disk[n] + 1 ELSE disk[m]
    BY <1>1, <2>1 DEF TypeOK
  <2>3. \A m \in Node : disk[m] <= disk'[m] /\ disk'[m] \in Nat
    BY <1>2, <2>2
  <2>4. ASSUME NEW c \in change
        PROVE  c.version <= disk'[c.node]
    <3>1. c.version \in Nat /\ c.node \in Node
      BY <1>3, InventoryBounds DEF ChangeState
    <3> QED
      BY <1>2, <2>3, <3>1 DEF Promised
  <2>5. \A c \in change' : c.version <= disk'[c.node]
    BY <1>2, <1>8, <2>2, <2>4 DEF Change, OtherChange
  <2>6. \A b \in Actor : Faithful(b)
    BY <2>1, UnmovedFaithful
  <2> QED
    BY <1>1, <2>1, <2>3, <2>5, <2>6, PromisedKept, FaithfulSees
<1>9. ASSUME NEW c \in change, Invalidate(c)
      PROVE  Promised' /\ Sees
  BY <1>9, PromisedInvalidate DEF Invalidate, Sees, Comes
<1>10. ASSUME NEW c \in change, Rescan(c)
       PROVE  Promised' /\ Sees
  <2>1. UNCHANGED <<disk, snaps, told>> /\ change' \subseteq change /\ actor' \in Refreshed(c.node, actor)
    BY <1>10 DEF Rescan
  <2>2. \A b \in Actor : Faithful(b)
    BY <1>1, <1>3, <2>1, RefreshedFaithful DEF TypeOK
  <2> QED
    BY <1>1, <1>2, <2>1, <2>2, PromisedKept, FaithfulSees DEF Promised
<1>11. CASE Tick \/ UNCHANGED vars
  <2>1. UNCHANGED <<disk, snaps, actor, change, told>>
    BY <1>11 DEF Tick, vars
  <2> QED
    BY <2>1 DEF Promised, At, Sees, Comes
<1>12. QED
  BY <1>4, <1>5, <1>7, <1>8, <1>9, <1>10, <1>11 DEF Next, Call, Scan

(* A read that starts after a change was announced, and is answered with a good
   scan, is shown the change: where only the changes announced while the node
   is not being scanned count, for invalidate does not reach a scan under way. *)
THEOREM ChangesAreSeen ==
    ASSUME ~Strict
    PROVE  Spec => ChangeIsSeen
<1> DEFINE Step ==
        \A a \in Reader :
            /\ actor[a].pc # "idle" /\ actor'[a].pc = "idle" /\ actor'[a].got.good
            => actor'[a].got.shows >= actor[a].must
<1>1. Init => Promised
  <2> SUFFICES ASSUME Init PROVE Promised
    OBVIOUS
  <2>1. \A a \in Actor : actor[a].pc = "idle" /\ actor[a].must = 0 /\ actor[a].node \in Node
    BY DEF Init
  <2> QED
    BY <2>1 DEF Init, Promised, At
<1>2. IndInv /\ Promised /\ [Next]_vars => Promised' /\ Step
  BY PromisedStep DEF Sees, Comes, Actor
<1>3. QED
  BY <1>1, <1>2, Inductive, PTL DEF Spec, ChangeIsSeen

-----------------------------------------------------------------------------
(* The claims *)

Loads == {"one", "copies", "split"}
Claim == CacheNode \cup {Base}
ClaimState == [there : BOOLEAN, bound : BOOLEAN, reach : SUBSET CacheNode, each : BOOLEAN, class : BOOLEAN]

CallState ==
    [op : Loads \cup {"none", "pull", "delete"}, nodes : Seq(Claim),
     at : {"idle", "locate", "caches", "plan", "look", "job", "done", "remove", "tell"},
     base : ClaimState, own : SUBSET CacheNode, todo : SUBSET Claim, lacks : SUBSET Claim,
     unknown : SUBSET Claim, claim : Claim, raced : BOOLEAN]

Gone(n) == n \in spent.removed

(* A claim on its way out has been removed. *)
OwnTyped ==
    /\ own \in [CacheNode -> {"none", "there", "going"}]
    /\ \A n \in CacheNode : own[n] = "going" => Gone(n)

ClaimsTyped ==
    /\ base \in ClaimState
    /\ OwnTyped
    /\ weights \subseteq Claim
    /\ snap \in [Claim -> {"none", "yes", "no"}]
    /\ call \in [Request -> CallState]
    /\ spent \in [calls : Nat, late : Nat, removed : SUBSET CacheNode]

(* Only a bound claim has a reach. *)
Sound(b) == (b.reach # {} => b.bound) /\ (b.bound => b.there)

Holds(n) == ClaimOn(Here, n) \in weights \/ Gone(n)
Telling == \E d \in Request : call[d].at = "tell"

(* A scan that found the model stands for one that would find it now, until a
   delete has told of itself. *)
ScansHold == \A n \in Claim : snap[n] = "yes" => base.bound /\ (Holds(n) \/ Telling)

(* What a call has read of a bound claim stays true. *)
ReadStands(q) == IF q.base.bound THEN q.base = base ELSE q.base.reach = {}

(* Where a call can be. *)
Staged(q) ==
    /\ q.op = "none" <=> q.at = "idle"
    /\ q.op \in Loads =>
         /\ <<q.op, q.nodes>> \in Placements
         /\ q.at \in {"locate", "caches", "plan", "look"}
         /\ q.at = "look" => \A n \in ToSet(q.nodes) : MayServe(q, n)
    /\ q.op = "pull" =>
         /\ q.at \in {"locate", "caches", "plan", "look", "job", "done"}
         /\ q.at \in {"look", "job", "done"} => Len(q.nodes) = 1
    /\ q.op = "delete" => q.at \notin {"job", "done"}

(* What a call has made of the scans it was answered, and of its Job. *)
Saw(q) ==
    /\ q.op \in {"split", "pull"} /\ q.at = "look" =>
         \A n \in ToSet(q.nodes) : \/ n \in q.todo \cup q.lacks \cup q.unknown
                                   \/ q.base.bound /\ (q.raced \/ Holds(n))
    /\ q.op = "pull" /\ q.at = "job" => q.claim = ClaimOn(q, Head(q.nodes))
    /\ q.op = "pull" /\ q.at = "done" => base.bound /\ (q.raced \/ Holds(Head(q.nodes)))

(* A call that no delete has raced sees none under way. *)
Knows(q) == q.op \notin {"none", "delete"} /\ ~q.raced => ~Removing

CallOK(q) == ReadStands(q) /\ Staged(q) /\ Saw(q) /\ Knows(q)

ServedState ==
    [kind : Loads, nodes : SUBSET CacheNode, pods : SUBSET (CacheNode \X Claim),
     located : BOOLEAN, unknown : SUBSET Claim, raced : BOOLEAN]

(* The pods of a model whose claim was bound name the claims of their nodes. *)
ServedStands ==
    served # NoModel =>
        /\ served \in ServedState /\ served.pods # {}
        /\ ~served.raced => ~Removing
        /\ served.located =>
             /\ base.bound
             /\ \A n \in served.nodes : MayServe(Here, n)
             /\ \A p \in served.pods : p[1] \in served.nodes /\ p[2] = ClaimOn(Here, p[1])

World == Sound(base) /\ ScansHold /\ ServedStands /\ SplitHasWeights

ClaimsInv == ClaimsTyped /\ World /\ \A c \in Request : CallOK(call[c])

-----------------------------------------------------------------------------
(* The claim of a node is its own, or the cache claim; which one is read off
   the cache claim alone. *)
LEMMA OneOfTwo ==
    ASSUME NEW l, NEW n PROVE ClaimOn(l, n) \in {n, Base}
  BY DEF ClaimOn

LEMMA SameBase ==
    ASSUME NEW l, NEW m, l.base = m.base, NEW n
    PROVE  ClaimOn(l, n) = ClaimOn(m, n) /\ MayServe(l, n) = MayServe(m, n)
  BY DEF ClaimOn, MayServe, PerNode, Pinned

(* New scans tell the truth. *)
ScansTrue ==
    /\ snap' \in [Claim -> {"none", "yes", "no"}]
    /\ \A n \in Claim : snap'[n] = "yes" => snap[n] = "yes" \/ (base.bound /\ Holds(n))

LEMMA OwnStays ==
    ASSUME ClaimsTyped, UNCHANGED own, spent.removed \subseteq spent'.removed
    PROVE  OwnTyped'
  BY DEF ClaimsTyped, OwnTyped, Gone

LEMMA NoNewScans ==
    ASSUME ClaimsTyped, snap' \in {snap, NoScans} PROVE ScansTrue
  BY DEF ClaimsTyped, ScansTrue, NoScans, Claim

(* Steps that take the model from no claim but one that went. *)
Benign ==
    /\ base' \in ClaimState /\ Sound(base') /\ (base.bound => base' = base)
    /\ OwnTyped'
    /\ weights' \subseteq Claim /\ weights \ weights' \subseteq spent'.removed
    /\ spent' \in [calls : Nat, late : Nat, removed : SUBSET CacheNode]
    /\ spent.removed \subseteq spent'.removed
    /\ ScansTrue

LEMMA HoldsOn ==
    ASSUME ClaimsTyped, Benign, base.bound, NEW n, Holds(n)
    PROVE  Holds(n)' /\ ClaimOn(Here, n)' = ClaimOn(Here, n)
<1>1. ClaimOn(Here, n)' = ClaimOn(Here, n)
  BY DEF Benign, Here, ClaimOn, PerNode, Pinned
<1>2. CASE ClaimOn(Here, n) \in weights'
  BY <1>1, <1>2 DEF Holds
<1>3. CASE ClaimOn(Here, n) \notin weights' /\ ClaimOn(Here, n) \in weights
  <2>1. ClaimOn(Here, n) \in spent'.removed /\ ClaimOn(Here, n) \in CacheNode
    BY <1>3 DEF Benign
  <2>2. ClaimOn(Here, n) = n
    BY <2>1, OneOfTwo, ClaimBounds
  <2>3. QED
    BY <1>1, <2>1, <2>2 DEF Holds, Gone
<1>4. CASE Gone(n)
  BY <1>1, <1>4 DEF Holds, Gone, Benign
<1>5. QED
  BY <1>2, <1>3, <1>4 DEF Holds

(* Such a step keeps what a call knows that does not move in it. *)
LEMMA OthersStand ==
    ASSUME ClaimsInv, Benign, Removing' => Removing,
           NEW q \in CallState, CallOK(q)
    PROVE  CallOK(q)'
<1>1. ReadStands(q)'
  BY DEF CallOK, ReadStands, Benign
<1>2. Staged(q)'
  BY DEF CallOK, Staged, MayServe, Pinned
<1>3. Saw(q)'
  <2>1. ASSUME base.bound, NEW n, Holds(n) PROVE Holds(n)'
    BY <2>1, HoldsOn DEF ClaimsInv
  <2>2. q.base.bound => base.bound
    BY DEF CallOK, ReadStands
  <2>3. base.bound => base'.bound
    BY DEF Benign
  <2>4. ClaimOn(q, Head(q.nodes))' = ClaimOn(q, Head(q.nodes))
    BY DEF ClaimOn, PerNode, Pinned
  <2>5. QED
    BY <2>1, <2>2, <2>3, <2>4 DEF CallOK, Saw
<1>4. Knows(q)'
  BY DEF CallOK, Knows
<1>5. QED
  BY <1>1, <1>2, <1>3, <1>4 DEF CallOK

(* And what the model served names. *)
LEMMA ServedOn ==
    ASSUME ClaimsInv, Benign, Removing' => Removing, served' = served \/ served' = NoModel
    PROVE  ServedStands' /\ SplitHasWeights'
<1> SUFFICES ASSUME served' = served, served # NoModel
             PROVE  ServedStands' /\ SplitHasWeights'
  BY DEF ServedStands, SplitHasWeights
<1>1. ServedStands'
  <2>1. base.bound => base' = base
    BY DEF Benign
  <2>2. base.bound => \A n : ClaimOn(Here, n)' = ClaimOn(Here, n) /\ MayServe(Here, n)' = MayServe(Here, n)
    BY <2>1 DEF Here, ClaimOn, MayServe, PerNode, Pinned
  <2>3. QED
    BY <2>1, <2>2 DEF ServedStands, ClaimsInv, World
<1>2. SplitHasWeights'
  <2> SUFFICES ASSUME served.kind = "split", served.located, base'.each, base'.reach # {}, ~served.raced,
                      NEW p \in served.pods
               PROVE  p[2] \in weights' \/ p[1] \in served.unknown \/ p[1] \in spent'.removed
    BY DEF SplitHasWeights
  <2>1. base.bound /\ base' = base /\ p[2] = ClaimOn(Here, p[1])
    BY DEF ClaimsInv, World, ServedStands, Benign
  <2>2. p[2] \in weights \/ p[1] \in served.unknown \/ p[1] \in spent.removed
    BY <2>1 DEF ClaimsInv, World, SplitHasWeights
  <2>3. Holds(p[1]) => Holds(p[1])' /\ ClaimOn(Here, p[1])' = ClaimOn(Here, p[1])
    BY <2>1, HoldsOn DEF ClaimsInv
  <2>4. QED
    BY <2>1, <2>2, <2>3 DEF Holds, Gone
<1>3. QED
  BY <1>1, <1>2

LEMMA ScansOn ==
    ASSUME ClaimsInv, Benign, Telling => Telling' \/ snap' = NoScans
    PROVE  ScansHold'
<1>1. CASE snap' = NoScans
  BY <1>1 DEF NoScans, ScansHold, Claim
<1>2. CASE Telling => Telling'
  <2> SUFFICES ASSUME NEW n \in Claim, snap'[n] = "yes"
               PROVE  base'.bound /\ (Holds(n)' \/ Telling')
    BY DEF ScansHold
  <2>1. base.bound /\ (Holds(n) \/ Telling)
    BY DEF ClaimsInv, World, ScansHold, Benign, ScansTrue
  <2>2. QED
    BY <1>2, <2>1, HoldsOn DEF Benign, ClaimsInv
<1>3. QED
  BY <1>1, <1>2

(* A step of one call, with nothing served anew. *)
LEMMA MoveOne ==
    ASSUME ClaimsInv, Benign, NEW c \in Request, NEW q \in CallState,
           call' = [call EXCEPT ![c] = q], CallOK(q)',
           q.at \in {"remove", "tell"} => call[c].at \in {"remove", "tell"},
           call[c].at = "tell" => q.at = "tell" \/ snap' = NoScans,
           served' \in {served, NoModel}
    PROVE  ClaimsInv'
<1>1. Removing' => Removing
  BY DEF Removing, ClaimsInv, ClaimsTyped
<1>2. Telling => Telling' \/ snap' = NoScans
  BY DEF Telling, ClaimsInv, ClaimsTyped
<1>3. call' \in [Request -> CallState] /\ call'[c] = q /\ \A d \in Request \ {c} : call'[d] = call[d]
  BY DEF ClaimsInv, ClaimsTyped
<1>4. \A d \in Request : CallOK(call[d]) /\ call[d] \in CallState
  BY DEF ClaimsInv, ClaimsTyped
<1>5. \A d \in Request \ {c} : CallOK(call[d])'
  <2> SUFFICES ASSUME NEW d \in Request \ {c} PROVE CallOK(call[d])'
    OBVIOUS
  <2>1. ASSUME NEW f \in CallState, CallOK(f) PROVE CallOK(f)'
    BY <1>1, <2>1, OthersStand
  <2>2. PICK f \in CallState : f = call[d] /\ f = call'[d] /\ CallOK(f)
    BY <1>3, <1>4
  <2>3. CallOK(f)'
    BY <2>1, <2>2
  <2>4. QED
    BY <2>2, <2>3 DEF CallOK, ReadStands, Staged, Saw, Knows, MayServe, Pinned, ClaimOn, PerNode
<1>6. \A d \in Request : CallOK(call[d])'
  <2>1. CallOK(call[c])'
    BY <1>3 DEF CallOK, ReadStands, Staged, Saw, Knows, MayServe, Pinned, ClaimOn, PerNode
  <2>2. QED
    BY <1>5, <2>1
<1>8. World' /\ ClaimsTyped'
  BY <1>1, <1>2, <1>3, ServedOn, ScansOn DEF World, ClaimsTyped, Benign, ScansTrue
<1>9. QED
  BY <1>6, <1>8 DEF ClaimsInv

-----------------------------------------------------------------------------
(* The steps of a call before it changes anything *)

LEMMA Inherit ==
    ASSUME ClaimsInv, NEW c \in Request
    PROVE  call[c] \in CallState /\ CallOK(call[c])
  BY DEF ClaimsInv, ClaimsTyped

(* A step of a call that changes no claim, and scans truly. *)
LEMMA StepAside ==
    ASSUME ClaimsInv, NEW c \in Request, NEW q \in CallState,
           call' = [call EXCEPT ![c] = q], CallOK(q),
           q.at \in {"remove", "tell"} => call[c].at \in {"remove", "tell"},
           call[c].at = "tell" => q.at = "tell",
           UNCHANGED <<base, weights, served>>, ScansTrue,
           spent' \in [calls : Nat, late : Nat, removed : {spent.removed}],
           OwnTyped'
    PROVE  ClaimsInv'
<1>1. Benign
  BY DEF Benign, ClaimsInv, ClaimsTyped, World
<1>2. Removing' => Removing
  BY DEF Removing, ClaimsInv, ClaimsTyped
<1>3. CallOK(q)'
  BY <1>1, <1>2, OthersStand
<1>4. QED
  BY <1>1, <1>3, MoveOne

LEMMA IdleOK == Idle \in CallState /\ CallOK(Idle)
<1>1. <<>> \in Seq(Claim)
  OBVIOUS
<1>2. QED
  BY <1>1 DEF Idle, CallState, ClaimState, Claim, Loads, CallOK, ReadStands, Staged, Saw, Knows

LEMMA StayAside ==
    ASSUME ClaimsTyped, UNCHANGED snap PROVE ScansTrue
  BY NoNewScans

LEMMA EndsStep ==
    ASSUME ClaimsInv, NEW c \in Request, CallEnds(c), call[c].at # "tell",
           UNCHANGED <<base, own, weights, snap, served, spent>>
    PROVE  ClaimsInv'
  BY IdleOK, StepAside, StayAside, OwnStays DEF CallEnds, Idle, Loads, ClaimsInv, ClaimsTyped

LEMMA SeqClaim ==
    ASSUME NEW s \in Seq(CacheNode) PROVE s \in Seq(Claim)
  BY DEF Claim

LEMMA BeginStep ==
    ASSUME ClaimsInv, NEW c \in Request, Begin(c) PROVE ClaimsInv'
<1> DEFINE q(op, nodes) == [Idle EXCEPT !.op = op, !.nodes = nodes, !.at = "locate", !.raced = Removing]
<1>1. PICK op \in {"pull", "one", "copies", "split", "delete"},
           nodes \in {p[2] : p \in Placements} \cup {<<n>> : n \in CacheNode} \cup {<<>>} :
         /\ CASE op = "pull" -> Len(nodes) <= 1 /\ \A d \in Request : call[d].op # "pull"
              [] op = "delete" -> nodes = <<>>
              [] OTHER -> <<op, nodes>> \in Placements
         /\ call' = [call EXCEPT ![c] = q(op, nodes)]
  BY DEF Begin
<1>2. nodes \in Seq(Claim)
  <2>1. \A p \in Placements : p[2] \in Seq(CacheNode)
    BY ClaimBounds
  <2>2. \A n \in CacheNode : <<n>> \in Seq(CacheNode)
    OBVIOUS
  <2>3. <<>> \in Seq(CacheNode)
    OBVIOUS
  <2>4. nodes \in Seq(CacheNode)
    BY <2>1, <2>2, <2>3
  <2>5. QED
    BY <2>4, SeqClaim
<1>3. q(op, nodes) \in CallState
  BY <1>2, IdleOK DEF CallState, Loads, Removing
<1>4. op \in Loads => <<op, nodes>> \in Placements
  BY <1>1 DEF Loads
<1>5. CallOK(q(op, nodes))
  BY <1>4 DEF Idle, CallOK, ReadStands, Staged, Saw, Knows, Removing, Loads
<1>6. QED
  <2>1. spent' \in [calls : Nat, late : Nat, removed : {spent.removed}]
    BY DEF Begin, ClaimsInv, ClaimsTyped
  <2>2. q(op, nodes).at = "locate" /\ q(op, nodes).op = op /\ call[c].at # "tell"
    BY DEF Idle, Begin
  <2>3. OwnTyped'
    BY OwnStays DEF Begin, ClaimsInv, ClaimsTyped
  <2> HIDE DEF q
  <2>4. QED
    BY <1>1, <1>3, <1>4, <1>5, <2>1, <2>2, <2>3, StepAside, StayAside DEF Begin, ClaimsInv

LEMMA LocateClaimStep ==
    ASSUME ClaimsInv, NEW c \in Request, LocateClaim(c) PROVE ClaimsInv'
<1> DEFINE q == [call[c] EXCEPT !.base = base, !.at = IF PerNode([base |-> base]) THEN "caches" ELSE "plan"]
<1>1. q \in CallState
  <2>1. call[c] \in CallState /\ base \in ClaimState
    BY DEF ClaimsInv, ClaimsTyped
  <2>2. QED
    BY <2>1 DEF CallState
<1>2. CallOK(q)
  BY DEF ClaimsInv, ClaimsTyped, CallState, CallOK, ReadStands, Staged, Saw, Knows, LocateClaim, World, Sound,
         ServedStands
<1>3. q.at \notin {"remove", "tell"} /\ q.op = call[c].op
  BY DEF CallState, ClaimsInv, ClaimsTyped
<1>4. call' = [call EXCEPT ![c] = q]
  BY DEF LocateClaim, ClaimsInv, ClaimsTyped
<1> HIDE DEF q
<1>5. QED
  BY <1>1, <1>2, <1>3, <1>4, Inherit, StepAside, StayAside, OwnStays DEF LocateClaim, ClaimsInv, ClaimsTyped

LEMMA LocateCachesStep ==
    ASSUME ClaimsInv, NEW c \in Request, LocateCaches(c) PROVE ClaimsInv'
<1> DEFINE q == [call[c] EXCEPT !.own = Here.own, !.at = "plan"]
<1>1. q \in CallState
  <2>1. call[c] \in CallState /\ Here.own \subseteq CacheNode
    BY DEF ClaimsInv, ClaimsTyped, Here
  <2>2. QED
    BY <2>1 DEF CallState
<1>2. CallOK(q)
  BY DEF ClaimsInv, ClaimsTyped, CallState, CallOK, ReadStands, Staged, Saw, Knows, LocateCaches
<1>3. QED
  BY <1>1, <1>2, Inherit, StepAside, StayAside DEF LocateCaches, CallState, ClaimsInv, ClaimsTyped

LEMMA PlanStep ==
    ASSUME ClaimsInv, NEW c \in Request, Plan(c) PROVE ClaimsInv'
<1> DEFINE l == call[c]
<1>1. l \in CallState /\ CallOK(l)
  BY Inherit
<1>2. /\ l.at = "plan" /\ UNCHANGED <<base, weights, snap, served>>
      /\ ScansTrue
      /\ spent' \in [calls : Nat, late : Nat, removed : {spent.removed}]
      /\ OwnTyped'
  BY StayAside, OwnStays DEF Plan, ClaimsInv, ClaimsTyped
<1>3. CASE CallEnds(c)
  BY <1>3, EndsStep DEF Plan
<1>4. ASSUME l.op = "split", \A n \in ToSet(l.nodes) : MayServe(l, n),
             call' = [call EXCEPT ![c].todo = ToSet(l.nodes), ![c].at = "look"]
      PROVE  ClaimsInv'
  <2> DEFINE q == [l EXCEPT !.todo = ToSet(l.nodes), !.at = "look"]
  <2>1. call' = [call EXCEPT ![c] = q]
    BY <1>4
  <2>2. ToSet(l.nodes) \subseteq Claim
    BY <1>1 DEF ToSet, CallState
  <2>3. q \in CallState
    BY <1>1, <2>2 DEF CallState
  <2>4. CallOK(q)
    BY <1>1, <1>2, <1>4 DEF CallState, CallOK, ReadStands, Staged, Saw, Knows, MayServe, Pinned, Loads
  <2>5. q.op = l.op /\ q.at = "look"
    BY <1>1 DEF CallState
  <2> HIDE DEF q, l
  <2>6. QED
    BY <1>1, <1>2, <2>1, <2>3, <2>4, <2>5, StepAside DEF l
<1>5. ASSUME l.op \in {"one", "copies"}, \A n \in ToSet(l.nodes) : MayServe(l, n), Goes(c, "look")
      PROVE  ClaimsInv'
  <2> DEFINE q == [l EXCEPT !.at = "look"]
  <2>1. call' = [call EXCEPT ![c] = q]
    BY <1>5 DEF Goes
  <2>2. q \in CallState
    BY <1>1 DEF CallState
  <2>3. CallOK(q)
    BY <1>1, <1>2, <1>5 DEF CallState, CallOK, ReadStands, Staged, Saw, Knows, MayServe, Pinned, Loads
  <2>4. q.op = l.op /\ q.at = "look"
    BY <1>1 DEF CallState
  <2> HIDE DEF q, l
  <2>5. QED
    BY <1>1, <1>2, <2>1, <2>2, <2>3, <2>4, StepAside DEF l
<1>6. ASSUME l.op = "pull",
             NEW n \in IF l.nodes # <<>> THEN {Head(l.nodes)} ELSE IF l.base.reach # {} THEN Preferred(l) ELSE {Anywhere},
             call' = [call EXCEPT ![c].nodes = <<n>>, ![c].todo = {n}, ![c].at = "look"]
      PROVE  ClaimsInv'
  <2> DEFINE q == [l EXCEPT !.nodes = <<n>>, !.todo = {n}, !.at = "look"]
  <2>1. call' = [call EXCEPT ![c] = q]
    BY <1>6
  <2>2. n \in Claim
    <3>1. l.nodes \in Seq(Claim) /\ l.base \in ClaimState
      BY <1>1 DEF CallState
    <3>2. l.nodes # <<>> => Head(l.nodes) \in Claim
      BY <3>1
    <3>3. QED
      BY <3>1, <3>2 DEF Claim, Preferred, Anywhere, ClaimState
  <2>3. <<n>> \in Seq(Claim) /\ Len(<<n>>) = 1 /\ ToSet(<<n>>) = {n}
    BY <2>2 DEF ToSet
  <2>4. q \in CallState
    BY <1>1, <2>2, <2>3 DEF CallState
  <2>5. CallOK(q)
    BY <1>1, <1>2, <1>6, <2>3 DEF CallState, CallOK, ReadStands, Staged, Saw, Knows, Loads
  <2>6. q.op = l.op /\ q.at = "look"
    BY <1>1 DEF CallState
  <2> HIDE DEF q, l
  <2>7. QED
    BY <1>1, <1>2, <2>1, <2>4, <2>5, <2>6, StepAside DEF l
<1>7. ASSUME l.op = "delete", NEW todo \in SUBSET Claim,
             call' = [call EXCEPT ![c].todo = todo, ![c].at = "look"]
      PROVE  ClaimsInv'
  <2> DEFINE q == [l EXCEPT !.todo = todo, !.at = "look"]
  <2>1. call' = [call EXCEPT ![c] = q]
    BY <1>7
  <2>2. q \in CallState
    BY <1>1 DEF CallState
  <2>3. CallOK(q)
    BY <1>1, <1>2, <1>7 DEF CallState, CallOK, ReadStands, Staged, Saw, Knows, Loads
  <2>4. q.op = l.op /\ q.at = "look"
    BY <1>1 DEF CallState
  <2> HIDE DEF q, l
  <2>5. QED
    BY <1>1, <1>2, <2>1, <2>2, <2>3, <2>4, StepAside DEF l
<1>8. (IF l.base.there THEN IF l.base.reach = {} THEN {Anywhere} ELSE l.base.reach \cup l.own ELSE {}) \in SUBSET Claim
  BY <1>1 DEF CallState, ClaimState, Claim, Anywhere
<1>9. QED
  BY <1>3, <1>4, <1>5, <1>6, <1>7, <1>8 DEF Plan

-----------------------------------------------------------------------------
(* What a call makes of a scan *)

(* A standing scan that found the model under the name of n's scan. *)
LEMMA YesHolds ==
    ASSUME ClaimsInv, NEW l \in CallState, CallOK(l), l.op \in {"split", "pull"}, l.base.bound,
           NEW n \in Claim, snap[Scanned(l, n)] = "yes" \/ Holds(Scanned(l, n))
    PROVE  l.raced \/ Holds(n)
<1>1. l.base = base /\ base.bound
  BY DEF CallOK, ReadStands
<1>2. Telling => l.raced
  BY DEF CallOK, Knows, Telling, Removing
<1>3. Scanned(l, n) \in Claim
  BY DEF Scanned, Anywhere, Claim
<1>4. Holds(Scanned(l, n)) \/ l.raced
  BY <1>2, <1>3 DEF ClaimsInv, World, ScansHold
<1>5. Holds(Scanned(l, n)) => Holds(n)
  <2>1. CASE Scanned(l, n) = n
    BY <2>1
  <2>2. CASE l.base.reach = {} /\ Scanned(l, n) = Base
    <3>1. ClaimOn(Here, n) = ClaimOn(Here, Base)
      BY <1>1, <2>2 DEF ClaimOn, PerNode, Pinned, Here
    <3>2. ~Gone(Base)
      BY ClaimBounds DEF ClaimsInv, ClaimsTyped, Gone
    <3>3. QED
      BY <2>2, <3>1, <3>2 DEF Holds
  <2>3. QED
    BY <2>1, <2>2 DEF Scanned, Anywhere
<1>6. QED
  BY <1>4, <1>5

LEMMA SeenStep ==
    ASSUME ClaimsInv, NEW c \in Request, call[c].at = "look", NEW n \in call[c].todo,
           NEW what \in {"yes", "no", "unknown"}, Seen(c, n, what),
           what = "yes" => call[c].base.bound /\ (snap[Scanned(call[c], n)] = "yes" \/ Holds(Scanned(call[c], n))),
           ScansTrue, UNCHANGED <<base, own, weights, served>>,
           spent' \in [calls : Nat, late : Nat, removed : {spent.removed}]
    PROVE  ClaimsInv'
<1> DEFINE l == call[c]
           q == [l EXCEPT !.todo = @ \ {n}, !.lacks = IF what = "no" THEN @ \cup {n} ELSE @,
                          !.unknown = IF what = "unknown" THEN @ \cup {n} ELSE @]
<1>1. l \in CallState /\ CallOK(l)
  BY Inherit
<1>2. call' = [call EXCEPT ![c] = q]
  BY DEF Seen
<1>3. n \in Claim
  BY <1>1 DEF CallState
<1>4. q \in CallState
  BY <1>1, <1>3 DEF CallState
<1>5. /\ q.op = l.op /\ q.at = "look" /\ q.base = l.base /\ q.nodes = l.nodes /\ q.raced = l.raced
      /\ \A m : m \in l.todo \cup l.lacks \cup l.unknown /\ m \notin q.todo \cup q.lacks \cup q.unknown
                => m = n /\ what = "yes"
  BY <1>1 DEF CallState
<1> HIDE DEF q
<1>6. Saw(q)
  <2> SUFFICES ASSUME l.op \in {"split", "pull"}, NEW m \in ToSet(l.nodes),
                      m \notin q.todo \cup q.lacks \cup q.unknown
               PROVE  l.base.bound /\ (l.raced \/ Holds(m))
    BY <1>5 DEF Saw
  <2>1. CASE m \notin l.todo \cup l.lacks \cup l.unknown
    BY <1>1, <2>1 DEF CallOK, Saw
  <2>2. CASE m = n /\ what = "yes"
    BY <1>1, <1>3, <2>2, YesHolds
  <2>3. QED
    BY <1>5, <2>1, <2>2
<1>7. CallOK(q)
  BY <1>1, <1>5, <1>6 DEF CallOK, ReadStands, Staged, Knows, MayServe, Pinned
<1> HIDE DEF l
<1>8. QED
  BY <1>1, <1>2, <1>4, <1>5, <1>7, StepAside, OwnStays DEF l, ClaimsInv, ClaimsTyped

LEMMA LookStep ==
    ASSUME ClaimsInv, NEW c \in Request, Look(c) PROVE ClaimsInv'
<1> DEFINE l == call[c]
<1>1. PICK n \in l.todo :
         LET at == Scanned(l, n) IN
         \/ ~(l.base.there /\ l.base.bound) /\ Seen(c, n, "unknown") /\ UNCHANGED <<snap, spent>>
         \/ l.base.bound /\ ~HasCacheOn(l, n) /\ Seen(c, n, "no") /\ UNCHANGED <<snap, spent>>
         \/ /\ l.base.bound /\ HasCacheOn(l, n) /\ snap[at] # "none"
            /\ Seen(c, n, snap[at]) /\ UNCHANGED <<snap, spent>>
         \/ /\ l.base.bound /\ HasCacheOn(l, n) /\ snap[at] = "none"
            /\ snap' = [snap EXCEPT ![at] = IF ClaimOn(Here, at) \in weights THEN "yes" ELSE "no"]
            /\ Seen(c, n, snap'[at]) /\ UNCHANGED spent
         \/ /\ l.base.bound /\ HasCacheOn(l, n) /\ snap[at] = "none" /\ spent.late < MaxLate
            /\ spent' = [spent EXCEPT !.late = @ + 1] /\ Seen(c, n, "unknown") /\ UNCHANGED snap
  BY DEF Look
<1>2. /\ l.at = "look" /\ UNCHANGED <<base, own, weights, served>>
      /\ spent' \in [calls : Nat, late : Nat, removed : {spent.removed}]
  BY <1>1 DEF Look, ClaimsInv, ClaimsTyped
<1>3. Scanned(l, n) \in Claim /\ (l.base.bound => base.bound)
  BY Inherit DEF Scanned, Anywhere, Claim, CallState, CallOK, ReadStands
<1>4. CASE UNCHANGED snap /\ Seen(c, n, "unknown")
  BY <1>2, <1>4, SeenStep, StayAside DEF ClaimsInv
<1>5. CASE UNCHANGED snap /\ Seen(c, n, "no")
  BY <1>2, <1>5, SeenStep, StayAside DEF ClaimsInv
<1>6. CASE l.base.bound /\ snap[Scanned(l, n)] # "none" /\ Seen(c, n, snap[Scanned(l, n)]) /\ UNCHANGED snap
  <2>1. snap[Scanned(l, n)] \in {"yes", "no", "unknown"}
    BY <1>3, <1>6 DEF ClaimsInv, ClaimsTyped
  <2>2. QED
    BY <1>2, <1>6, <2>1, SeenStep, StayAside DEF ClaimsInv
<1>7. ASSUME l.base.bound, Seen(c, n, snap'[Scanned(l, n)]),
             snap' = [snap EXCEPT ![Scanned(l, n)] = IF ClaimOn(Here, Scanned(l, n)) \in weights THEN "yes" ELSE "no"]
      PROVE  ClaimsInv'
  <2>1. snap'[Scanned(l, n)] = IF ClaimOn(Here, Scanned(l, n)) \in weights THEN "yes" ELSE "no"
    BY <1>3, <1>7 DEF ClaimsInv, ClaimsTyped
  <2>2. ScansTrue
    BY <1>3, <1>7 DEF ScansTrue, ClaimsInv, ClaimsTyped, Holds
  <2>3. snap'[Scanned(l, n)] = "yes" => Holds(Scanned(l, n))
    BY <2>1 DEF Holds
  <2>4. QED
    BY <1>2, <1>7, <2>1, <2>2, <2>3, SeenStep
<1>8. QED
  BY <1>1, <1>4, <1>5, <1>6, <1>7

-----------------------------------------------------------------------------
(* The steps of a pull, and those that end a call *)

LEMMA EnsureClaimStep ==
    ASSUME ClaimsInv, NEW c \in Request, EnsureClaim(c) PROVE ClaimsInv'
<1> DEFINE l == call[c]
           n == Head(l.nodes)
           cached == l.lacks \cup l.unknown = {}
           q == [l EXCEPT !.claim = ClaimOn(l, n), !.at = IF cached THEN "done" ELSE "job"]
<1>1. /\ l \in CallState /\ CallOK(l) /\ l.at = "look" /\ l.op = "pull" /\ l.todo = {}
      /\ UNCHANGED <<base, weights, snap, served, spent>>
  BY Inherit DEF EnsureClaim, SawCache
<1>2. CASE CallEnds(c) /\ UNCHANGED own
  BY <1>1, <1>2, EndsStep
<1>3. CASE /\ own' = IF HasCacheOn(l, n) \/ own[n] # "none" THEN own ELSE [own EXCEPT ![n] = "there"]
           /\ call' = [call EXCEPT ![c].claim = ClaimOn(l, n), ![c].at = IF cached THEN "done" ELSE "job"]
  <2>1. call' = [call EXCEPT ![c] = q]
    BY <1>3
  <2>2. Len(l.nodes) = 1 /\ l.nodes \in Seq(Claim)
    BY <1>1 DEF CallOK, Staged, CallState
  <2>3. n \in Claim /\ n \in ToSet(l.nodes)
    BY <2>2 DEF ToSet
  <2>4. ClaimOn(l, n) \in Claim
    BY <2>3, OneOfTwo DEF Claim
  <2>5. q \in CallState
    BY <1>1, <2>4 DEF CallState
  <2>6. /\ q.op = "pull" /\ q.at \in {"done", "job"} /\ (q.at = "done" => cached) /\ q.base = l.base
        /\ q.nodes = l.nodes /\ q.raced = l.raced /\ q.claim = ClaimOn(l, n)
    BY <1>1 DEF CallState
  <2> HIDE DEF q
  <2>7. q.at = "done" => base.bound /\ (q.raced \/ Holds(n))
    <3> SUFFICES ASSUME q.at = "done" PROVE base.bound /\ (q.raced \/ Holds(n))
      OBVIOUS
    <3>1. l.base.bound /\ (l.raced \/ Holds(n))
      BY <1>1, <2>3, <2>6 DEF CallOK, Saw
    <3>2. QED
      BY <1>1, <2>6, <3>1 DEF CallOK, ReadStands
  <2>8. ClaimOn(q, n) = ClaimOn(l, n)
    BY <2>6, SameBase
  <2>9. CallOK(q)
    BY <1>1, <2>2, <2>6, <2>7, <2>8 DEF CallOK, ReadStands, Staged, Saw, Knows, Loads
  <2>10. OwnTyped'
    BY <1>1, <1>3 DEF ClaimsInv, ClaimsTyped, OwnTyped, Gone
  <2> HIDE DEF l, n, cached
  <2>11. QED
    BY <1>1, <2>1, <2>5, <2>6, <2>9, <2>10, StepAside, StayAside DEF l, ClaimsInv, ClaimsTyped, Loads
<1>4. QED
  BY <1>2, <1>3 DEF EnsureClaim

(* The first consumer of a claim binds it where it runs. *)
LEMMA BindSound ==
    ASSUME ClaimsInv, NEW n \in CacheNode, NEW claim, Mounts(n, claim), Bind(n, claim)
    PROVE  /\ base' \in ClaimState /\ Sound(base') /\ (base.bound => base' = base)
           /\ claim = Base => base'.bound /\ (base'.reach # {} => n \in base'.reach)
<1>1. base \in ClaimState /\ Sound(base)
  BY DEF ClaimsInv, ClaimsTyped, World
<1>2. CASE claim # Base \/ base.bound
  BY <1>1, <1>2 DEF Bind, Mounts
<1>3. CASE claim = Base /\ ~base.bound
  <2>1. PICK reach \in {{}, {n}} : base' = [base EXCEPT !.bound = TRUE, !.reach = reach]
    BY <1>3 DEF Bind
  <2>2. base.there /\ reach \subseteq CacheNode
    BY <1>3 DEF Mounts
  <2>3. base' \in ClaimState
    BY <1>1, <2>1, <2>2 DEF ClaimState
  <2>4. base'.bound /\ base'.there /\ base'.reach = reach
    BY <1>1, <2>1, <2>2 DEF ClaimState
  <2>5. QED
    BY <1>3, <2>3, <2>4 DEF Sound
<1>4. QED
  BY <1>2, <1>3

LEMMA JobFillsStep ==
    ASSUME ClaimsInv, NEW c \in Request, JobFills(c) PROVE ClaimsInv'
<1>0. PICK l \in CallState : l = call[c] /\ CallOK(l)
  BY Inherit
<1> PICK h : h = Head(l.nodes)
  OBVIOUS
<1> DEFINE q == [l EXCEPT !.at = "done"]
<1>1. /\ l.at = "job" /\ l.op = "pull"
      /\ call' = [call EXCEPT ![c] = q] /\ weights' = weights \cup {l.claim}
      /\ UNCHANGED <<own, snap, served, spent>>
  BY <1>0 DEF JobFills, In, Goes
<1>2. PICK n \in IF h = Anywhere THEN CacheNode ELSE {h} : Mounts(n, l.claim) /\ Bind(n, l.claim)
  BY <1>0 DEF JobFills
<1>3. Len(l.nodes) = 1 /\ l.nodes \in Seq(Claim) /\ l.claim \in Claim /\ l.claim = ClaimOn(l, h)
  BY <1>0, <1>1 DEF CallOK, Staged, CallState, Saw
<1>4. h \in Claim
  BY <1>0, <1>3
<1>5. n \in CacheNode /\ (h # Base => n = h)
  BY <1>4 DEF Claim, Anywhere
<1>6. /\ base' \in ClaimState /\ Sound(base') /\ (base.bound => base' = base)
      /\ l.claim = Base => base'.bound /\ (base'.reach # {} => n \in base'.reach)
  BY <1>2, <1>5, BindSound
<1>7. Benign
  BY <1>1, <1>3, <1>6, StayAside, OwnStays DEF Benign, ClaimsInv, ClaimsTyped
<1>8. base'.bound /\ ClaimOn(Here, h)' = l.claim
  <2>1. CASE l.base.bound
    <3>1. l.base = base /\ base' = base
      BY <1>0, <1>6, <2>1 DEF CallOK, ReadStands
    <3>2. ClaimOn(Here, h)' = ClaimOn(l, h)
      BY <3>1 DEF ClaimOn, PerNode, Pinned, Here
    <3>3. QED
      BY <1>3, <2>1, <3>1, <3>2
  <2>2. CASE ~l.base.bound
    <3>1. l.claim = Base
      BY <1>3, <2>2 DEF ClaimOn, PerNode, Pinned
    <3>2. ClaimOn(Here, h)' = Base
      BY <1>5, <1>6, <3>1 DEF ClaimOn, PerNode, Pinned, Here, Anywhere
    <3>3. QED
      BY <1>6, <3>1, <3>2
  <2>3. QED
    BY <2>1, <2>2
<1>9. Holds(h)'
  BY <1>1, <1>8 DEF Holds
<1>10. q \in CallState /\ q.op = "pull" /\ q.at = "done" /\ q.base = l.base /\ q.nodes = l.nodes /\ q.raced = l.raced
  BY <1>1 DEF CallState
<1>11. Removing' => Removing
  BY <1>1, <1>10 DEF Removing, ClaimsInv, ClaimsTyped
<1> HIDE DEF q
<1>12. CallOK(l)'
  BY <1>0, <1>1, <1>7, <1>11, OthersStand
<1>13. CallOK(q)'
  BY <1>3, <1>8, <1>9, <1>10, <1>12, <1>1, <1>0 DEF CallOK, ReadStands, Staged, Saw, Knows, Loads
<1>14. QED
  BY <1>0, <1>1, <1>7, <1>10, <1>13, MoveOne DEF Loads

LEMMA PullEndsStep ==
    ASSUME ClaimsInv, NEW c \in Request, PullEnds(c) \/ Tell(c) PROVE ClaimsInv'
<1>1. /\ call' = [call EXCEPT ![c] = Idle] /\ UNCHANGED <<base, own, weights, served, spent>>
      /\ snap' \in {snap, NoScans} /\ (call[c].at = "tell" => snap' = NoScans)
  BY DEF PullEnds, Tell, CallEnds, In
<1>2. ScansTrue
  BY <1>1, NoNewScans DEF ClaimsInv
<1>3. Benign
  BY <1>1, <1>2, OwnStays DEF Benign, ClaimsInv, ClaimsTyped, World
<1>4. Removing' => Removing
  BY <1>1 DEF Removing, ClaimsInv, ClaimsTyped, Idle
<1>5. CallOK(Idle)'
  BY <1>1, <1>3, <1>4, IdleOK, OthersStand DEF ClaimsInv
<1>6. QED
  BY <1>1, <1>3, <1>5, IdleOK, MoveOne DEF Idle, Loads

-----------------------------------------------------------------------------
(* What a load leaves *)

(* What the other calls know does not depend on what is served. *)
LEMMA LoadEnds ==
    ASSUME ClaimsInv, NEW c \in Request, call[c].op \in Loads, CallEnds(c),
           UNCHANGED <<base, own, weights, snap, spent>>, ServedStands', SplitHasWeights'
    PROVE  ClaimsInv'
<1>1. Benign
  BY StayAside, OwnStays DEF Benign, ClaimsInv, ClaimsTyped, World
<1>2. call' \in [Request -> CallState] /\ call'[c] = Idle /\ \A d \in Request \ {c} : call'[d] = call[d]
  BY IdleOK DEF ClaimsInv, ClaimsTyped, CallEnds
<1>3. (Removing' => Removing) /\ (Telling => Telling')
  <2>1. call[c].at # "tell"
    BY Inherit DEF CallOK, Staged
  <2>2. QED
    BY <1>2, <2>1 DEF Removing, Telling, Idle, ClaimsInv, ClaimsTyped
<1>4. CallOK(Idle)'
  BY <1>1, <1>3, IdleOK, OthersStand DEF Idle, Loads
<1>5. ASSUME NEW d \in Request \ {c} PROVE CallOK(call[d])'
  <2>1. PICK f \in CallState : f = call[d] /\ f = call'[d] /\ CallOK(f)
    BY <1>2, Inherit
  <2>2. CallOK(f)'
    BY <1>1, <1>3, <2>1, OthersStand
  <2>3. QED
    BY <2>1, <2>2 DEF CallOK, ReadStands, Staged, Saw, Knows, MayServe, Pinned, ClaimOn, PerNode
<1>6. CallOK(call[c])'
  BY <1>2, <1>4 DEF CallOK, ReadStands, Staged, Saw, Knows, MayServe, Pinned, ClaimOn, PerNode
<1>8. World' /\ ClaimsTyped'
  BY <1>1, <1>2, <1>3, ScansOn DEF World, ClaimsTyped, Benign, ScansTrue
<1>9. QED
  BY <1>5, <1>6, <1>8 DEF ClaimsInv

LEMMA Elements ==
    ASSUME NEW S, NEW s \in Seq(S)
    PROVE  ToSet(s) = {s[i] : i \in 1..Len(s)} /\ ToSet(s) \subseteq S
<1>1. DOMAIN s = 1..Len(s) /\ \A i \in 1..Len(s) : s[i] \in S
  OBVIOUS
<1>2. QED
  BY <1>1 DEF ToSet

LEMMA PlacedNodes ==
    ASSUME NEW l \in CallState, <<l.op, l.nodes>> \in Placements
    PROVE  /\ l.nodes \in Seq(CacheNode) /\ Len(l.nodes) >= 1 /\ (l.op = "one" => Len(l.nodes) = 1)
           /\ ToSet(l.nodes) \subseteq CacheNode /\ ToSet(l.nodes) # {}
<1>1. l.nodes \in Seq(CacheNode) /\ l.nodes # <<>> /\ (l.op = "one" => Len(l.nodes) = 1)
  BY ClaimBounds
<1>2. Len(l.nodes) \in Nat /\ Len(l.nodes) >= 1
  BY <1>1
<1>3. ToSet(l.nodes) = {l.nodes[i] : i \in 1..Len(l.nodes)} /\ ToSet(l.nodes) \subseteq CacheNode
  BY <1>1, Elements
<1>4. l.nodes[1] \in ToSet(l.nodes)
  BY <1>2, <1>3
<1>5. QED
  BY <1>1, <1>2, <1>3, <1>4

(* Every pod of a load that was not refused names the claim of its node. *)
LEMMA PodsName ==
    ASSUME ClaimsInv, NEW c \in Request, call[c].op \in Loads, ~Refused(c),
           NEW p \in Pods(call[c], call[c].op, call[c].nodes)
    PROVE  /\ p \in CacheNode \X Claim
           /\ p[1] \in ToSet(call[c].nodes) /\ p[2] = ClaimOn(call[c], p[1])
<1> DEFINE l == call[c]
           j(i) == IF l.op = "split" /\ i > 1 THEN 2 ELSE 1
<1>1. l \in CallState /\ <<l.op, l.nodes>> \in Placements
  BY Inherit DEF CallOK, Staged
<1>2. l.nodes \in Seq(CacheNode) /\ Len(l.nodes) \in Nat /\ (l.op = "one" => Len(l.nodes) = 1)
  BY <1>1, PlacedNodes
<1>3. PICK i \in 1..Len(l.nodes) : p = <<l.nodes[i], ClaimOn(l, l.nodes[j(i)])>>
  BY <1>2 DEF Pods
<1>4. l.nodes[i] \in CacheNode /\ l.nodes[i] \in ToSet(l.nodes) /\ l.nodes[1] \in ToSet(l.nodes)
  BY <1>2, <1>3 DEF ToSet
<1>5. ClaimOn(l, l.nodes[j(i)]) = ClaimOn(l, l.nodes[i])
  <2>1. CASE j(i) = i
    BY <2>1
  <2>2. CASE l.op = "copies"
    BY <1>4, <2>2 DEF Refused, SameClaim
  <2>3. CASE l.op = "split" /\ i > 1
    <3>1. Tail(l.nodes) \in Seq(CacheNode) /\ Len(Tail(l.nodes)) = Len(l.nodes) - 1
      BY <1>2, <2>3
    <3>2. \A k \in 1..Len(Tail(l.nodes)) : Tail(l.nodes)[k] = l.nodes[k + 1]
      BY <1>2, <2>3
    <3>3. ToSet(Tail(l.nodes)) = {Tail(l.nodes)[m] : m \in 1..Len(Tail(l.nodes))}
      BY <3>1, Elements
    <3>4. \A k \in 2..Len(l.nodes) : l.nodes[k] \in ToSet(Tail(l.nodes))
      <4> TAKE k \in 2..Len(l.nodes)
      <4>1. k - 1 \in 1..Len(Tail(l.nodes)) /\ k = (k - 1) + 1
        BY <1>2, <3>1
      <4>2. l.nodes[k] = Tail(l.nodes)[k - 1]
        BY <3>2, <4>1
      <4>3. QED
        BY <4>1, <4>2, <3>3
    <3>5. l.nodes[2] \in ToSet(Tail(l.nodes)) /\ l.nodes[i] \in ToSet(Tail(l.nodes))
      BY <1>2, <1>3, <2>3, <3>4
    <3>6. QED
      BY <2>3, <3>5 DEF Refused, SameClaim
  <2>4. QED
    BY <1>2, <1>3, <2>1, <2>2, <2>3 DEF Loads
<1>6. ClaimOn(l, l.nodes[i]) \in Claim
  BY <1>4, OneOfTwo DEF Claim
<1>7. QED
  BY <1>3, <1>4, <1>5, <1>6

LEMMA ServeStep ==
    ASSUME ClaimsInv, NEW c \in Request, Serve(c) PROVE ClaimsInv'
<1> DEFINE l == call[c]
<1>1. /\ l \in CallState /\ CallOK(l) /\ l.op \in Loads /\ l.at = "look" /\ l.todo = {} /\ ~Refused(c)
      /\ served' = [kind |-> l.op, nodes |-> ToSet(l.nodes), pods |-> Pods(l, l.op, l.nodes),
                    located |-> l.base.bound, unknown |-> l.unknown, raced |-> l.raced]
      /\ UNCHANGED <<base, own, weights, snap, spent>> /\ CallEnds(c)
  BY Inherit DEF Serve, Asked, SawCache, Loads
<1>2. PICK k \in CallState : k = l
  BY <1>1
<1>3. /\ ToSet(k.nodes) \subseteq CacheNode /\ k.nodes \in Seq(CacheNode) /\ Len(k.nodes) >= 1
  BY <1>1, <1>2, PlacedNodes DEF CallOK, Staged
<1>4. \A p \in served'.pods : p \in CacheNode \X Claim /\ p[1] \in ToSet(k.nodes) /\ p[2] = ClaimOn(k, p[1])
  BY <1>1, <1>2, PodsName
<1>5. served'.pods # {}
  <2>1. 1 \in DOMAIN k.nodes
    BY <1>3
  <2>2. QED
    BY <1>1, <1>2, <2>1 DEF Pods
<1>6. Removing' => Removing
  BY <1>1 DEF Removing, ClaimsInv, ClaimsTyped, CallEnds, Idle
<1>7. ~k.raced => ~Removing
  BY <1>1, <1>2 DEF CallOK, Knows, Loads
<1>8. k.base.bound => base = k.base /\ \A n : ClaimOn(Here, n)' = ClaimOn(k, n) /\ MayServe(Here, n)' = MayServe(k, n)
  BY <1>1, <1>2 DEF CallOK, ReadStands, ClaimOn, MayServe, PerNode, Pinned, Here
<1>9. \A n \in ToSet(k.nodes) : MayServe(k, n)
  BY <1>1, <1>2 DEF CallOK, Staged
<1>10. ServedStands'
  <2>1. served' \in ServedState
    <3>1. served'.pods \subseteq CacheNode \X Claim
      BY <1>4
    <3>2. k.op \in Loads /\ k.base.bound \in BOOLEAN /\ k.unknown \subseteq Claim /\ k.raced \in BOOLEAN
      BY <1>1, <1>2 DEF CallState, ClaimState
    <3>3. QED
      BY <1>1, <1>2, <1>3, <3>1, <3>2 DEF ServedState
  <2>2. QED
    BY <1>1, <1>2, <1>4, <1>5, <1>6, <1>7, <1>8, <1>9, <2>1 DEF ServedStands
<1>11. SplitHasWeights'
  <2> SUFFICES ASSUME k.op = "split", k.base.bound, base'.each, base'.reach # {}, ~k.raced,
                      NEW p \in served'.pods
               PROVE  p[2] \in weights' \/ p[1] \in k.unknown \/ p[1] \in spent'.removed
    BY <1>1, <1>2 DEF SplitHasWeights
  <2>1. PerNode(k)
    BY <1>1, <1>8 DEF PerNode, Pinned, ClaimsInv, World, Sound
  <2>2. k.lacks = {}
    BY <1>1, <1>2, <2>1 DEF Refused
  <2>3. p[1] \in k.unknown \/ Holds(p[1])
    BY <1>1, <1>2, <1>4, <2>2 DEF CallOK, Saw
  <2>4. ClaimOn(Here, p[1]) = p[2]
    BY <1>4, <1>8 DEF ClaimOn, PerNode, Pinned, Here
  <2>5. QED
    BY <1>1, <2>3, <2>4 DEF Holds, Gone
<1>12. QED
  BY <1>1, <1>10, <1>11, LoadEnds

LEMMA AddCopiesStep ==
    ASSUME ClaimsInv, NEW c \in Request, AddCopies(c) PROVE ClaimsInv'
<1> DEFINE l == call[c]
           more == served.nodes \cup ToSet(l.nodes)
           p0 == CHOOSE p \in served.pods : TRUE
<1>1. /\ l \in CallState /\ CallOK(l) /\ l.op \in Loads /\ l.at = "look"
      /\ served # NoModel /\ served.kind = "copies" /\ SameClaim(l, more)
      /\ served' = [served EXCEPT !.nodes = more, !.pods = {<<n, p0[2]>> : n \in more},
                                  !.located = @ /\ l.base.bound]
      /\ UNCHANGED <<base, own, weights, snap, spent>> /\ CallEnds(c)
  BY Inherit DEF AddCopies, Asked, SawCache, Loads
<1>2. served \in ServedState /\ served.pods # {} /\ (~served.raced => ~Removing)
  BY <1>1 DEF ClaimsInv, World, ServedStands
<1>3. p0 \in served.pods /\ p0 \in CacheNode \X Claim
  BY <1>2 DEF ServedState
<1>4. ToSet(l.nodes) \subseteq CacheNode /\ ToSet(l.nodes) # {}
  BY <1>1, PlacedNodes DEF CallOK, Staged
<1>5. more \subseteq CacheNode /\ more # {}
  BY <1>2, <1>4 DEF ServedState
<1>6. /\ served' \in ServedState /\ served'.pods # {} /\ served'.kind = "copies"
      /\ served'.nodes = more /\ served'.pods = {<<n, p0[2]>> : n \in more}
      /\ served'.raced = served.raced /\ (served'.located => served.located /\ l.base.bound)
  <2> HIDE DEF p0, more
  <2>1. p0[2] \in Claim
    BY <1>3
  <2>2. {<<n, p0[2]>> : n \in more} \subseteq CacheNode \X Claim
    BY <1>5, <2>1
  <2>3. {<<n, p0[2]>> : n \in more} # {}
    BY <1>5
  <2>4. QED
    BY <1>1, <1>2, <1>5, <2>2, <2>3 DEF ServedState
<1>7. Removing' => Removing
  BY <1>1 DEF Removing, ClaimsInv, ClaimsTyped, CallEnds, Idle
<1>8. ASSUME served.located, l.base.bound
      PROVE  /\ base'.bound /\ \A n \in more : MayServe(Here, n)'
             /\ \A n \in more : ClaimOn(Here, n)' = p0[2]
  <2>1. l.base.bound /\ base = l.base
    BY <1>1, <1>8 DEF CallOK, ReadStands
  <2>2. \A n : /\ ClaimOn(Here, n)' = ClaimOn(l, n) /\ MayServe(Here, n)' = MayServe(l, n)
               /\ ClaimOn(Here, n) = ClaimOn(l, n) /\ MayServe(Here, n) = MayServe(l, n)
    BY <1>1, <2>1 DEF ClaimOn, MayServe, PerNode, Pinned, Here
  <2>3. /\ \A n \in served.nodes : MayServe(Here, n)
        /\ p0[1] \in served.nodes /\ p0[2] = ClaimOn(Here, p0[1])
    BY <1>1, <1>3, <1>8 DEF ClaimsInv, World, ServedStands
  <2>4. \A n \in ToSet(l.nodes) : MayServe(l, n)
    BY <1>1 DEF CallOK, Staged
  <2>5. \A n \in more : ClaimOn(l, n) = ClaimOn(l, p0[1])
    BY <1>1, <2>3 DEF SameClaim
  <2> HIDE DEF p0, l
  <2>6. QED
    BY <1>1, <2>1, <2>2, <2>3, <2>4, <2>5
<1> HIDE DEF p0, more
<1>9. ServedStands'
  BY <1>1, <1>2, <1>6, <1>7, <1>8 DEF ServedStands
<1>10. SplitHasWeights'
  BY <1>6 DEF SplitHasWeights
<1>11. QED
  BY <1>1, <1>9, <1>10, LoadEnds

LEMMA ServeEndsStep ==
    ASSUME ClaimsInv, NEW c \in Request, ServeEnds(c) \/ JobFails(c) \/ RemoveFails(c) PROVE ClaimsInv'
  BY EndsStep DEF ServeEnds, Asked, SawCache, JobFails, RemoveFails, In

-----------------------------------------------------------------------------
(* A delete *)

(* Marked raced, a call is sure of less. *)
LEMMA RacedOK ==
    ASSUME ClaimsInv, served = NoModel, served' = NoModel, UNCHANGED <<base, own, weights, spent>>,
           NEW q \in CallState, CallOK(q), NEW r \in CallState,
           r = [q EXCEPT !.raced = @ \/ q.at # "idle"]
    PROVE  CallOK(r)'
<1>1. /\ r.op = q.op /\ r.nodes = q.nodes /\ r.at = q.at /\ r.base = q.base /\ r.todo = q.todo
      /\ r.lacks = q.lacks /\ r.unknown = q.unknown /\ r.claim = q.claim
      /\ (q.at # "idle" => r.raced) /\ (q.raced => r.raced)
  BY DEF CallState
<1>2. \A n : Holds(n)' = Holds(n) /\ ClaimOn(r, n) = ClaimOn(q, n) /\ MayServe(r, n) = MayServe(q, n)
  BY <1>1 DEF Holds, Gone, ClaimOn, MayServe, PerNode, Pinned, Here
<1>3. ReadStands(r)' /\ Staged(r)'
  BY <1>1, <1>2 DEF CallOK, ReadStands, Staged, MayServe, Pinned
<1>4. Saw(r)'
  BY <1>1, <1>2 DEF CallOK, Saw, ClaimOn, PerNode, Pinned
<1>5. Knows(r)'
  BY <1>1 DEF CallOK, Knows, Staged
<1>6. QED
  BY <1>3, <1>4, <1>5 DEF CallOK

LEMMA DeleteChecksStep ==
    ASSUME ClaimsInv, NEW c \in Request, DeleteChecks(c) PROVE ClaimsInv'
<1> DEFINE l == call[c]
           at == (IF l.base.reach = {} THEN {Anywhere} ELSE l.base.reach \cup l.own) \ (l.lacks \cup l.unknown)
<1>1. /\ l \in CallState /\ CallOK(l) /\ l.at = "look" /\ l.op = "delete"
      /\ UNCHANGED <<base, own, weights, snap, served, spent>>
  BY Inherit DEF DeleteChecks, SawCache
<1>2. CASE CallEnds(c)
  BY <1>1, <1>2, EndsStep
<1>3. ASSUME served = NoModel, NEW n \in at,
             call' = [d \in Request |-> IF d = c THEN [l EXCEPT !.at = "remove", !.nodes = <<n>>]
                                       ELSE [call[d] EXCEPT !.raced = @ \/ call[d].at # "idle"]]
      PROVE  ClaimsInv'
  <2>1. n \in Claim
    BY <1>1 DEF CallState, ClaimState, Claim, Anywhere
  <2>2. <<n>> \in Seq(Claim)
    BY <2>1
  <2>3. PICK q \in CallState : q = [l EXCEPT !.at = "remove", !.nodes = <<n>>]
    BY <1>1, <2>2 DEF CallState
  <2>4. q.at = "remove" /\ q.op = "delete" /\ q.base = l.base
    BY <1>1, <2>3 DEF CallState
  <2>5. call'[c] = q /\ CallOK(q)'
    BY <1>1, <1>3, <2>3, <2>4 DEF CallOK, ReadStands, Staged, Saw, Knows, Loads
  <2>6. ASSUME NEW d \in Request \ {c} PROVE CallOK(call[d])' /\ call'[d] \in CallState /\ call'[d].op = call[d].op
                                              /\ call'[d].at = call[d].at
    <3>1. PICK e \in CallState : e = call[d] /\ CallOK(e)
      BY Inherit
    <3>2. PICK r \in CallState : r = [e EXCEPT !.raced = @ \/ e.at # "idle"]
      BY <3>1 DEF CallState
    <3>3. CallOK(r)'
      BY <1>1, <1>3, <3>1, <3>2, RacedOK
    <3>4. call'[d] = r /\ r.op = e.op /\ r.at = e.at
      BY <1>3, <3>1, <3>2 DEF CallState
    <3>5. QED
      BY <3>1, <3>3, <3>4 DEF CallOK, ReadStands, Staged, Saw, Knows, MayServe, Pinned, ClaimOn, PerNode
  <2>7. CallOK(call[c])'
    BY <2>5 DEF CallOK, ReadStands, Staged, Saw, Knows, MayServe, Pinned, ClaimOn, PerNode
  <2>8. call' \in [Request -> CallState]
    BY <1>3, <2>5, <2>6
  <2>10. Telling => Telling'
    BY <1>1, <2>6 DEF Telling
  <2>11. Benign
    BY <1>1, StayAside, OwnStays DEF Benign, ClaimsInv, ClaimsTyped, World
  <2>12. World' /\ ClaimsTyped'
    BY <1>1, <1>3, <2>8, <2>10, <2>11, ScansOn
    DEF World, ClaimsTyped, Benign, ScansTrue, ServedStands, SplitHasWeights
  <2>13. QED
    BY <2>6, <2>7, <2>12 DEF ClaimsInv
<1>4. QED
  BY <1>1, <1>2, <1>3 DEF DeleteChecks

LEMMA RemoveDirStep ==
    ASSUME ClaimsInv, NEW c \in Request, RemoveDir(c) PROVE ClaimsInv'
<1>1. PICK q \in CallState : q = [call[c] EXCEPT !.at = "tell"]
  BY Inherit DEF CallState
<1>2. /\ call[c] \in CallState /\ CallOK(call[c]) /\ call[c].at = "remove" /\ call[c].op = "delete"
      /\ call' = [call EXCEPT ![c] = q] /\ weights' \subseteq weights
      /\ UNCHANGED <<base, own, snap, served, spent>>
  BY <1>1, Inherit DEF RemoveDir, Goes, CallOK, Staged, Loads, CallState
<1>3. q.at = "tell" /\ q.op = "delete" /\ q.base = call[c].base
  BY <1>1, <1>2 DEF CallState
<1>4. call' \in [Request -> CallState] /\ call'[c] = q /\ \A d \in Request \ {c} : call'[d] = call[d]
  BY <1>2 DEF ClaimsInv, ClaimsTyped
<1>5. Removing /\ Telling'
  BY <1>2, <1>3, <1>4 DEF Removing, Telling
<1>6. CallOK(call[c])'
  BY <1>2, <1>3, <1>4 DEF CallOK, ReadStands, Staged, Saw, Knows, Loads
<1>7. ASSUME NEW d \in Request \ {c} PROVE CallOK(call[d])'
  <2>1. PICK e \in CallState : e = call[d] /\ e = call'[d] /\ CallOK(e)
    BY <1>4, Inherit
  <2>2. e.op \notin {"none", "delete"} => e.raced
    BY <1>5, <2>1 DEF CallOK, Knows
  <2>3. CallOK(e)'
    BY <1>2, <2>1, <2>2 DEF CallOK, ReadStands, Staged, Saw, Knows, MayServe, Pinned, ClaimOn, PerNode
  <2>4. QED
    BY <2>1, <2>3 DEF CallOK, ReadStands, Staged, Saw, Knows, MayServe, Pinned, ClaimOn, PerNode
<1>9. served # NoModel => served.raced
  BY <1>5 DEF ClaimsInv, World, ServedStands
<1>10. ServedStands' /\ SplitHasWeights'
  BY <1>2, <1>9 DEF ClaimsInv, World, ServedStands, SplitHasWeights, MayServe, ClaimOn, PerNode, Pinned, Here
<1>11. ScansHold'
  BY <1>2, <1>5 DEF ScansHold, ClaimsInv, World
<1>12. QED
  BY <1>2, <1>4, <1>6, <1>7, <1>10, <1>11, OwnStays DEF ClaimsInv, ClaimsTyped, World

-----------------------------------------------------------------------------
(* The steps around the calls *)

LEMMA AroundStep ==
    ASSUME ClaimsInv, Benign, UNCHANGED call, served' \in {served, NoModel} PROVE ClaimsInv'
<1>1. (Removing' => Removing) /\ (Telling => Telling')
  BY DEF Removing, Telling
<1>2. ASSUME NEW d \in Request PROVE CallOK(call[d])'
  <2>1. PICK e \in CallState : e = call[d] /\ CallOK(e)
    BY Inherit
  <2>2. CallOK(e)'
    BY <1>1, <2>1, OthersStand
  <2>3. QED
    BY <2>1, <2>2 DEF CallOK, ReadStands, Staged, Saw, Knows, MayServe, Pinned, ClaimOn, PerNode
<1>4. World' /\ ClaimsTyped'
  BY <1>1, ServedOn, ScansOn DEF World, ClaimsInv, ClaimsTyped, Benign, ScansTrue
<1>5. QED
  BY <1>2, <1>4 DEF ClaimsInv

LEMMA PodStartsStep ==
    ASSUME ClaimsInv, PodStarts PROVE ClaimsInv'
<1>1. served \in ServedState
  BY DEF PodStarts, ClaimsInv, World, ServedStands
<1>2. PICK p \in served.pods : /\ Mounts(p[1], p[2]) /\ Bind(p[1], p[2])
                              /\ weights' = weights \cup {p[2]}
  BY DEF PodStarts
<1>3. p[1] \in CacheNode /\ p[2] \in Claim
  BY <1>1 DEF ServedState
<1>4. base' \in ClaimState /\ Sound(base') /\ (base.bound => base' = base)
  BY <1>2, <1>3, BindSound
<1>5. Benign
  BY <1>2, <1>3, <1>4, StayAside, OwnStays DEF Benign, PodStarts, ClaimsInv, ClaimsTyped
<1>6. QED
  BY <1>5, AroundStep DEF PodStarts

LEMMA ClaimGoesStep ==
    ASSUME ClaimsInv, RemoveClaim \/ ClaimGoes \/ ScansAge \/ Stop PROVE ClaimsInv'
<1>1. UNCHANGED <<base, call>> /\ served' \in {served, NoModel} /\ snap' \in {snap, NoScans}
  BY DEF RemoveClaim, ClaimGoes, ScansAge, Stop
<1>2. /\ spent' \in [calls : Nat, late : Nat, removed : SUBSET CacheNode]
      /\ spent.removed \subseteq spent'.removed
  BY DEF RemoveClaim, ClaimGoes, ScansAge, Stop, ClaimsInv, ClaimsTyped
<1>3. weights' \subseteq Claim /\ weights \ weights' \subseteq spent'.removed
  BY DEF RemoveClaim, ClaimGoes, ScansAge, Stop, ClaimsInv, ClaimsTyped, OwnTyped, Gone
<1>4. OwnTyped'
  BY DEF RemoveClaim, ClaimGoes, ScansAge, Stop, ClaimsInv, ClaimsTyped, OwnTyped, Gone
<1>5. Benign
  BY <1>1, <1>2, <1>3, <1>4, NoNewScans DEF Benign, ClaimsInv, ClaimsTyped, World
<1>6. QED
  BY <1>1, <1>5, AroundStep

-----------------------------------------------------------------------------
LEMMA ClaimsStep ==
    ASSUME ClaimsInv, [ClaimNext]_claimVars PROVE ClaimsInv'
<1>1. ASSUME NEW c \in Request, Steps(c) PROVE ClaimsInv'
  BY <1>1, BeginStep, LocateClaimStep, LocateCachesStep, PlanStep, LookStep, EnsureClaimStep, JobFillsStep,
     ServeEndsStep, PullEndsStep, ServeStep, AddCopiesStep, DeleteChecksStep, RemoveDirStep DEF Steps
<1>2. CASE UNCHANGED claimVars
  BY <1>2, StayAside, AroundStep DEF claimVars, Benign, ClaimsInv, ClaimsTyped, OwnTyped, Gone, World
<1>3. QED
  BY <1>1, <1>2, PodStartsStep, ClaimGoesStep DEF ClaimNext

LEMMA ClaimsStart == ClaimInit => ClaimsInv
<1> SUFFICES ASSUME ClaimInit PROVE ClaimsInv
  OBVIOUS
<1>1. /\ base \in ClaimState /\ Sound(base) /\ snap = NoScans /\ served = NoModel
      /\ call = [c \in Request |-> Idle] /\ spent = [calls |-> 0, late |-> 0, removed |-> {}]
  BY ClaimBounds DEF ClaimInit, ClaimState, Sound
<1>2. OwnTyped /\ weights \subseteq Claim
  <2>1. (CHOOSE n \in CacheNode \ Home : TRUE) \in CacheNode
    BY ClaimBounds
  <2>2. PICK earlier \in {{}, {CHOOSE n \in CacheNode \ Home : TRUE}} :
          /\ own = [n \in CacheNode |-> IF n \in earlier THEN "there" ELSE "none"]
          /\ weights = earlier \cup IF base.bound THEN {Base} ELSE {}
    BY DEF ClaimInit
  <2>3. QED
    BY <2>1, <2>2 DEF OwnTyped, Claim
<1>3. ClaimsTyped
  BY <1>1, <1>2, IdleOK DEF ClaimsTyped, NoScans, Claim
<1>4. World
  BY <1>1 DEF World, ScansHold, NoScans, Claim, ServedStands, SplitHasWeights
<1>5. \A c \in Request : CallOK(call[c])
  BY <1>1, IdleOK
<1>6. QED
  BY <1>3, <1>4, <1>5 DEF ClaimsInv

LEMMA ClaimsHold == ClaimSpec => []ClaimsInv
  BY ClaimsStart, ClaimsStep, PTL DEF ClaimSpec

-----------------------------------------------------------------------------
(* cacheClaimAnnotations, judgeSplit, judgeCopies, addCopies: a model placed
   once its cache claim was bound never names another node's claim. *)
THEOREM PodsReachTheirClaims == ClaimSpec => []MountsReach
<1>1. ClaimsInv => MountsReach
  <2> SUFFICES ASSUME ClaimsInv, served # NoModel, served.located, NEW p \in served.pods
               PROVE  p[2] = p[1] \/ (p[2] = Base /\ (base.reach = {} \/ p[1] \in base.reach))
    BY DEF MountsReach
  <2>1. /\ base.bound /\ base.there /\ p[1] \in CacheNode
        /\ MayServe(Here, p[1]) /\ p[2] = ClaimOn(Here, p[1])
    BY DEF ClaimsInv, World, ServedStands, ServedState, Sound
  <2>2. QED
    BY <2>1, ClaimBounds DEF ClaimOn, MayServe, PerNode, Pinned, Here, Anywhere
<1>2. QED
  BY <1>1, ClaimsHold, PTL

(* placement.go, judgeSplit: a split is served only with the weights in the
   claim of every node that could be asked, and nothing takes them but a delete
   that was under way and claims removed by hand. *)
THEOREM SplitsHaveWeights == ClaimSpec => []SplitHasWeights
<1>1. ClaimsInv => SplitHasWeights
  BY DEF ClaimsInv, World
<1>2. QED
  BY <1>1, ClaimsHold, PTL

(* Pull: a pull for a node that ends well has left the model where the node's
   pods look for it, also when it found the model cached. *)
THEOREM PullsLand == ClaimSpec => []PulledThere
<1>1. ClaimsInv => PulledThere
  <2> SUFFICES ASSUME ClaimsInv, NEW c \in Request, In(c, "pull", "done"), ~call[c].raced
               PROVE  ClaimOn(Here, Head(call[c].nodes)) \in weights \/ Head(call[c].nodes) \in spent.removed
    BY DEF PulledThere
  <2>1. Saw(call[c])
    BY DEF ClaimsInv, CallOK
  <2>2. QED
    BY <2>1 DEF Saw, In, Holds, Gone
<1>2. QED
  BY <1>1, ClaimsHold, PTL
=============================================================================
