------------------------------- MODULE Launch -------------------------------
(***************************************************************************)
(* internal/backend/kserve/launch.go: what a list says of a node Karpenter *)
(* could not launch - the sizes and zones refused and for what, whose      *)
(* constraint the zone is, what would launch - read off a claim and events *)
(* that come and go.  Each refusal holds the cloud's answer of its moment, *)
(* or only its start; several stand while the cloud changes.  The pool     *)
(* stays as it is.                                                         *)
(***************************************************************************)
EXTENDS Naturals, FiniteSets

CONSTANTS
    Size, Zone, NoZone, Unread,
    MaxLaunches, \* bound on the claims nominated, for the pod or for others
    MaxMoves     \* bound on the changes of the cloud

ASSUME LaunchBounds == {MaxLaunches, MaxMoves} \subseteq Nat

(* A NodePool's requirements and the zones of its node class; what the cloud
   has, the sizes beyond the account's quota, and what it refuses for another
   reason. *)
PoolSpec == [types: (SUBSET Size) \ {{}}, zones: SUBSET Zone, class: (SUBSET Zone) \ {{}}]
Cloud == [has: SUBSET (Size \X Zone), quota: SUBSET Size, other: SUBSET (Size \X Zone)]

(* A fleet error: for lack of capacity it names the size, the zone and the
   zones to choose instead; for the quota, or another code, nothing. *)
FleetError == [code: {"InsufficientInstanceCapacity", "VcpuLimitExceeded", "Other"},
               sizes: SUBSET Size, zones: SUBSET Zone, offered: SUBSET Zone]

(* A refusal: what Karpenter's message holds of the answer and whether that is
   not all, and after how many of the pod's claims; when is the cloud that
   answered, which only the property looks at. *)
Refusal == [said: SUBSET FleetError, cut: BOOLEAN, at: Nat, when: Cloud]

VARIABLES
    cloud, pool,
    launches,  \* the claims nominated for the pod so far
    others,    \* those of other pods refused
    claimed,   \* the last of the pod's claims stands
    own,       \* its refusal, when it has one
    warned,    \* the refusal events on claims of the pool
    look,      \* the claim as the list under way has read it
    moves

launchVars == <<cloud, pool, launches, others, claimed, own, warned, look, moves>>

LaunchTypeOK ==
    /\ cloud \in Cloud /\ pool \in PoolSpec
    /\ launches \in 0..MaxLaunches /\ others \in 0..MaxLaunches /\ moves \in 0..MaxMoves
    /\ claimed \in BOOLEAN /\ own \subseteq Refusal /\ warned \subseteq Refusal
    /\ look.claim \in 0..launches /\ look.own \subseteq Refusal

-----------------------------------------------------------------------------
(* Karpenter: a claim is resolved from the pool and its class; a fleet that
   launches nothing was refused every size in every zone. *)
Tried == IF pool.zones # {} THEN pool.zones ELSE pool.class
Requested == pool.types \X Tried

Launches(in, sz) == sz \in in.has \ in.other /\ sz[1] \notin in.quota

Shortage(s, z) ==
    [code |-> "InsufficientInstanceCapacity", sizes |-> {s}, zones |-> {z},
     offered |-> Zone \ {z}]
NamesNothing(code) == [code |-> code, sizes |-> {}, zones |-> {}, offered |-> {}]
Quota == NamesNothing("VcpuLimitExceeded")
Other == NamesNothing("Other")

FleetAnswer(in) ==
    {Shortage(sz[1], sz[2]) : sz \in Requested \ (in.has \cup in.other)}
    \cup {Quota : sz \in Requested \cap (in.has \ in.other)}
    \cup {Other : sz \in Requested \cap in.other}

(* How a claim is refused now, as far as the message goes: all of the answer,
   or one of its errors. *)
Refusing(said) == [said |-> said, cut |-> said # FleetAnswer(cloud), at |-> launches, when |-> cloud]
Denials ==
    IF \E sz \in Requested : Launches(cloud, sz) THEN {}
    ELSE {Refusing(said) : said \in {FleetAnswer(cloud)} \cup {{e} : e \in FleetAnswer(cloud)}}

CreateClaim ==
    /\ ~claimed /\ launches + others < MaxLaunches
    /\ claimed' = TRUE /\ own' = {} /\ launches' = launches + 1
    /\ UNCHANGED <<cloud, pool, others, warned, look, moves>>

LaunchFails ==
    /\ claimed /\ own = {} /\ \E r \in Denials : own' = {r}
    /\ UNCHANGED <<cloud, pool, launches, others, claimed, warned, look, moves>>

(* Karpenter publishes a refusal in an event before it deletes the claim. *)
DeleteClaim ==
    /\ claimed /\ own # {} /\ claimed' = FALSE
    /\ warned' = warned \cup own /\ own' = {}
    /\ UNCHANGED <<cloud, pool, launches, others, look, moves>>

(* A claim for another pod of the pool. *)
OtherRefused ==
    /\ launches + others < MaxLaunches /\ others' = others + 1
    /\ \E r \in Denials : warned' = warned \cup {r}
    /\ UNCHANGED <<cloud, pool, launches, claimed, own, look, moves>>

(* Events go an hour after they happened. *)
EventsGo ==
    warned # {} /\ warned' = {} /\ UNCHANGED <<cloud, pool, launches, others, claimed, own, look, moves>>

(* Capacity, quota or another cause comes or goes, for what the pool asks for;
   before a refusal that is another initial state. *)
Flip(S, x) == IF x \in S THEN S \ {x} ELSE S \cup {x}
CloudMoves ==
    /\ moves < MaxMoves /\ moves' = moves + 1 /\ own \cup warned # {}
    /\ \/ \E sz \in Requested : cloud' = [cloud EXCEPT !.has = Flip(@, sz)]
       \/ \E sz \in Requested : cloud' = [cloud EXCEPT !.other = Flip(@, sz)]
       \/ \E s \in pool.types : cloud' = [cloud EXCEPT !.quota = Flip(@, s)]
    /\ UNCHANGED <<pool, launches, others, claimed, own, warned, look>>

-----------------------------------------------------------------------------
(* launchFacts reads the claim first: which it is, and its refusal; nothing
   when it is gone or cannot be read. *)
NotLooked == [claim |-> 0, own |-> {}]

ReadClaim ==
    /\ claimed /\ look = NotLooked /\ look' = [claim |-> launches, own |-> own]
    /\ UNCHANGED <<cloud, pool, launches, others, claimed, own, warned, moves>>
Forget ==
    look # NotLooked /\ look' = NotLooked
    /\ UNCHANGED <<cloud, pool, launches, others, claimed, own, warned, moves>>

(* Then the events, the pool's requirements, its class's zones when neither
   they nor the claim name one, and the cache claim; each may fail.  The cache
   claim's volume lies in a zone, or nothing pins. *)
LaunchReads == [events: BOOLEAN, pool: BOOLEAN, class: BOOLEAN, cache: Zone \cup {NoZone, Unread}]

(* refusals: the events newer than the claim, every one when it is gone or was
   not read, and the claim's own. *)
standing(how) == {r \in warned : how.events /\ r.at >= look.claim} \cup look.own

(* What the list then has: the refusals, the fleet errors they quote, and what
   the claim asked for - its own account while it stands, else the pool's, and
   its class's for the zones. *)
launchFacts(how) ==
    [refusals |-> standing(how),
     errors |-> UNION {r.said : r \in standing(how)},
     asked |-> IF look.claim > 0 \/ how.pool THEN pool.types ELSE {},
     allowed |-> IF look.claim > 0 \/ (how.pool /\ pool.zones = {} /\ how.class) THEN Tried ELSE {},
     pool |-> how.pool,
     cache |-> how.cache]

short(f) == UNION {e.sizes : e \in f.errors}
QuotaStands(f) == \E e \in f.errors : e.code = "VcpuLimitExceeded"
OtherStands(f) == \E e \in f.errors : e.code = "Other"

(* Nothing is told when no refusal carries the capacity or the quota wording. *)
Tells(f) == short(f) # {} \/ QuotaStands(f)

(* capacity: the pool's zones when it pins them; every zone the claim was
   allowed when it pins none; the claim's when the pool was not read. *)
Unpinned(f) == f.pool /\ pool.zones = {}
EveryZone(f) == Unpinned(f) /\ f.allowed # {}
refusedSizes(f) == IF Tells(f) THEN f.asked \cup short(f) ELSE {}
requestedZones(f) ==
    (UNION {e.zones : e \in f.errors}) \cup
    (IF ~Tells(f) THEN {} ELSE IF f.pool /\ pool.zones # {} THEN pool.zones ELSE f.allowed)

(* The sizes the capacity wording names were refused for it; the rest are the
   quota's while it stands, else the other error's, else capacity's too. *)
capacitySizes(f) ==
    IF QuotaStands(f) \/ OtherStands(f) THEN refusedSizes(f) \cap short(f) ELSE refusedSizes(f)
quotaSizes(f) == IF QuotaStands(f) THEN refusedSizes(f) \ short(f) ELSE {}
otherSizes(f) == IF OtherStands(f) /\ ~QuotaStands(f) THEN refusedSizes(f) \ short(f) ELSE {}

(* Mutant: the zones named instead, refused or not. *)
MutAvailableZones(f) == UNION {e.offered : e \in f.errors}

(* The zones named instead, but for those a refusal names or the claim asked. *)
availableZones(f) == (UNION {e.offered : e \in f.errors}) \ requestedZones(f)

(* pinnedByCache: the volume lies in a requested zone, and the pool pins. *)
pinnedByCache(f) == f.cache \in requestedZones(f) /\ ~Unpinned(f)

(* wayOut: no zone is left when the pool allowed every one refused. *)
wayOut(f) ==
    (IF capacitySizes(f) # {} /\ ~Unpinned(f) THEN {"zone"} ELSE {})
    \cup (IF capacitySizes(f) # {} /\ pinnedByCache(f) THEN {"unpin"} ELSE {})
    \cup (IF QuotaStands(f) THEN {"quota"} ELSE {})
    \cup (IF Tells(f) /\ EveryZone(f) /\ ~QuotaStands(f) THEN {"sizes"} ELSE {})

-----------------------------------------------------------------------------
LaunchInit ==
    /\ cloud \in Cloud /\ pool \in PoolSpec
    /\ launches = 0 /\ others = 0 /\ moves = 0
    /\ claimed = FALSE /\ own = {} /\ warned = {} /\ look = NotLooked

LaunchNext ==
    \/ CreateClaim \/ LaunchFails \/ DeleteClaim \/ OtherRefused \/ EventsGo \/ CloudMoves
    \/ ReadClaim \/ Forget

-----------------------------------------------------------------------------
(* A refusal that is whole, or lost no quota or other error to the cut. *)
Telling(r) == r.cut => r.when.quota = {} /\ r.when.other = {}

(* What the step says of the cloud is so, also when the claim is gone, the
   answers cut and several of them stand, of a cloud that changed between
   them: a size it calls short was short, and launched nowhere it names; what
   it lays on the quota or on another error was refused for that; a zone it
   offers is none that was just refused when it read where the claim was tried
   or one answer names every zone; and a way out is one (launch.go:332-358,
   :409-424, wayOut). *)
RefusalIsTrue ==
    warned \cup look.own # {} =>
    \A how \in LaunchReads :
      LET f == launchFacts(how) IN
      (\A r \in f.refusals : Telling(r)) =>
        /\ \A s \in capacitySizes(f) :
              /\ \E r \in f.refusals, z \in Tried : <<s, z>> \notin r.when.has
              /\ \A r \in f.refusals, z \in requestedZones(f) : ~Launches(r.when, <<s, z>>)
        /\ \A r \in f.refusals :
              /\ Quota \in r.said /\ r.when.other = {} => quotaSizes(f) \subseteq r.when.quota
              /\ Other \in r.said => otherSizes(f) \X Tried \subseteq r.when.other
        /\ \/ f.pool /\ (pool.zones # {} \/ EveryZone(f))
           \/ \E r \in f.refusals : ~r.cut /\ r.when.quota = {} /\ r.when.other = {}
           => availableZones(f) \cap Tried = {}
        /\ wayOut(f) \cap {"zone", "unpin"} # {} /\ f.pool => pool.zones # {}
        /\ "quota" \in wayOut(f) => \E r \in f.refusals : r.when.quota # {}
==============================================================================
