---------------------------- MODULE BackendTools ----------------------------
(***************************************************************************)
(* add_backend and remove_backend (internal/api), the Store they write     *)
(* documents with and the part of internal/service that unwires a backend, *)
(* beside wire_model and unwire_model, on the documents and the set of     *)
(* backends of module Registry.                                            *)
(*                                                                         *)
(* A model has at most one ModelConfig on a backend; what matters of it is *)
(* who may remove it.                                                      *)
(***************************************************************************)
EXTENDS Registry

CONSTANTS
    Client,    \* calls of tools under way
    Model,     \* models of the backends
    Wired,     \* kinds of ModelConfigs there are at the start
    Outside,   \* whether documents are also written by others than the tools
    MaxWires   \* bound: wire_model calls

(* What a ModelConfig of a backend can be: created by this instance, by
   another, by nobody known (no instance label), the same written before the
   backend label existed, or applied by Flux from git. *)
Kinds == {"none", "here", "other", "unclaimed", "old", "git"}

ASSUME ToolsAssumption == Wired \subseteq Kinds /\ Outside \in BOOLEAN /\ MaxWires \in Nat

VARIABLES
    mc,     \* mc[n][m]: the ModelConfig of model m on backend n
    tool,   \* tool[c]: where a call is
    wires   \* how many wire_model calls have been

vars == <<registryVars, mc, tool, wires>>

Idle == [op |-> "none", pc |-> "idle", name |-> NoDoc, content |-> NoDoc,
         rv |-> 0, todo |-> {}]

Tool ==
    [op: {"none", "add", "remove", "wire"},
     pc: {"idle", "create", "update", "wait", "plan", "list", "each", "delete", "ensure"},
     name: Name \cup {NoDoc},
     content: Content \cup {NoDoc},  \* what add_backend writes
     rv: 0..MaxWrites,               \* of the document it read, or wrote
     todo: SUBSET Model]             \* the models still to unwire, or to wire

At(c, op, pc) == tool[c].op = op /\ tool[c].pc = pc
Goto(c, pc) == tool' = [tool EXCEPT ![c].pc = pc]
Finish(c) == tool' = [tool EXCEPT ![c] = Idle]

(* Service.Has and its source; the tools refuse static names. *)
Has(n) == backends[n] # NoDoc
Starts(c, n) == tool[c] = Idle /\ backends[n] # FromFlags

Documents == UNCHANGED registryVars
ModelConfigs == UNCHANGED <<mc, wires>>

-----------------------------------------------------------------------------
(* add_backend *)

(* Only what passes the schema is written; Apply reads the document first. *)
AddGet(c, n, content) ==
    /\ Starts(c, n)
    /\ content \in Valid
    /\ tool' = [tool EXCEPT ![c] = [Idle EXCEPT
                   !.op = "add", !.name = n, !.content = content, !.rv = rv[n],
                   !.pc = IF doc[n] = NoDoc THEN "create" ELSE "update"]]
    /\ Documents /\ ModelConfigs

(* Create fails on a document that appeared, Update on one that went or
   changed. *)
AddApply(c) ==
    LET q == tool[c]
        n == q.name
        fresh == IF q.pc = "create" THEN doc[n] = NoDoc ELSE doc[n] # NoDoc /\ rv[n] = q.rv
    IN /\ At(c, "add", "create") \/ At(c, "add", "update")
       /\ IF fresh
          THEN /\ Store(n, q.content)
               /\ tool' = [tool EXCEPT ![c].pc = "wait", ![c].rv = rv'[n]]
               /\ UNCHANGED <<view, faults>>
          ELSE Finish(c) /\ Documents
       /\ ModelConfigs

(* WaitFor: registered, or the deadline passed. *)
AddWait(c) ==
    /\ At(c, "add", "wait")
    /\ Finish(c)
    /\ Documents /\ ModelConfigs

-----------------------------------------------------------------------------
(* remove_backend *)

(* Store.Get refuses a document that is absent or fails the schema. *)
RemoveGet(c, n) ==
    /\ Starts(c, n)
    /\ doc[n] \in Valid
    /\ tool' = [tool EXCEPT ![c] = [Idle EXCEPT !.op = "remove", !.pc = "plan", !.name = n]]
    /\ Documents /\ ModelConfigs

(* Mutant: only what Flux applies refuses the removal. *)
MutRemovePlan(c) ==
    LET blocking == {m \in Model : mc[tool[c].name][m] = "git"} IN
    /\ At(c, "remove", "plan")
    /\ IF blocking # {} THEN Finish(c) ELSE Goto(c, "list")
    /\ Documents /\ ModelConfigs

(* PlanBackendRemoval: refused while a ModelConfig would be left that nobody
   else deletes. *)
RemovePlan(c) ==
    LET blocking == {m \in Model : mc[tool[c].name][m] \in {"unclaimed", "git"}} IN
    /\ At(c, "remove", "plan")
    /\ IF blocking # {} THEN Finish(c) ELSE Goto(c, "list")
    /\ Documents /\ ModelConfigs

(* UnwireBackend lists once more; one without the backend label is no one's. *)
RemoveList(c) ==
    LET listed == {m \in Model : mc[tool[c].name][m] \notin {"none", "old"}} IN
    /\ At(c, "remove", "list")
    /\ tool' = [tool EXCEPT ![c].pc = IF listed = {} THEN "delete" ELSE "each",
                            ![c].todo = listed]
    /\ Documents /\ ModelConfigs

(* Remove: goes if created here, is left if somebody's, and fails the removal
   if Flux applies it. *)
RemoveEach(c) ==
    LET q == tool[c]
        n == q.name
    IN /\ At(c, "remove", "each")
       /\ \E m \in q.todo :
            /\ mc' = [mc EXCEPT ![n][m] = IF @ = "here" THEN "none" ELSE @]
            /\ tool' = [tool EXCEPT ![c] =
                  IF mc[n][m] = "git" THEN Idle
                  ELSE [q EXCEPT !.todo = @ \ {m},
                                 !.pc = IF q.todo = {m} THEN "delete" ELSE "each"]]
       /\ Documents /\ UNCHANGED wires

(* Store.Remove deletes whatever document there is by now. *)
RemoveDelete(c) ==
    LET n == tool[c].name IN
    /\ At(c, "remove", "delete")
    /\ IF doc[n] # NoDoc
       THEN Store(n, NoDoc) /\ Goto(c, "wait") /\ UNCHANGED <<view, faults>>
       ELSE Finish(c) /\ Documents
    /\ ModelConfigs

RemoveWait(c) ==
    /\ At(c, "remove", "wait")
    /\ Finish(c)
    /\ Documents /\ ModelConfigs

(* A request of the removal fails: what it removed stays removed. *)
RemoveFails(c) ==
    /\ tool[c].op = "remove" /\ tool[c].pc \in {"plan", "list", "each", "delete"}
    /\ Finish(c)
    /\ Documents /\ ModelConfigs

-----------------------------------------------------------------------------
(* wire_model and unwire_model *)

(* The backend is looked up when the call starts. *)
WireStart(c, n, m) ==
    /\ tool[c] = Idle /\ Has(n)
    /\ wires < MaxWires /\ wires' = wires + 1
    /\ tool' = [tool EXCEPT ![c] =
                  [Idle EXCEPT !.op = "wire", !.pc = "ensure", !.name = n, !.todo = {m}]]
    /\ Documents /\ UNCHANGED mc

(* Ensure creates one, adopts one of nobody, refuses somebody else's. *)
WireEnsure(c) ==
    LET n == tool[c].name IN
    /\ At(c, "wire", "ensure")
    /\ mc' = [mc EXCEPT ![n] = [m \in Model |->
                IF m \notin tool[c].todo THEN @[m]
                ELSE CASE @[m] = "none" -> "here" [] @[m] = "old" -> "unclaimed" [] OTHER -> @[m]]]
    /\ Finish(c)
    /\ Documents /\ UNCHANGED wires

(* Unwire: registered or not, one created here or by nobody known. *)
Unwire(c, n, m) ==
    /\ tool[c] = Idle
    /\ mc[n][m] \in {"here", "unclaimed", "old"}
    /\ mc' = [mc EXCEPT ![n][m] = "none"]
    /\ Documents /\ UNCHANGED <<tool, wires>>

-----------------------------------------------------------------------------
Others(n) ==
    /\ Outside
    /\ (\E content \in Content : Write(n, content)) \/ Delete(n)
    /\ UNCHANGED tool /\ ModelConfigs

Informer(n) ==
    /\ Relist(n) \/ Deliver(n)
    /\ UNCHANGED tool /\ ModelConfigs

(* Calls under way are lost with the process. *)
ProcessRestart ==
    /\ Restart
    /\ tool' = [c \in Client |-> Idle]
    /\ ModelConfigs

Init ==
    /\ RegistryInit
    /\ mc \in [Name -> [Model -> Wired \cup {"none"}]]
    /\ tool = [c \in Client |-> Idle]
    /\ wires = 0

Add(c) == (\E n \in Name, content \in Content : AddGet(c, n, content)) \/ AddApply(c) \/ AddWait(c)

Remove(c) ==
    \/ \E n \in Name : RemoveGet(c, n)
    \/ RemovePlan(c) \/ RemoveList(c) \/ RemoveEach(c) \/ RemoveDelete(c) \/ RemoveWait(c)
    \/ RemoveFails(c)

Wire(c) ==
    \/ \E n \in Name, m \in Model : WireStart(c, n, m) \/ Unwire(c, n, m)
    \/ WireEnsure(c)

Next ==
    \/ \E n \in Name : Others(n) \/ Informer(n)
    \/ ProcessRestart
    \/ \E c \in Client : Add(c) \/ Remove(c) \/ Wire(c)

Spec == Init /\ [][Next]_vars

-----------------------------------------------------------------------------
(* Properties *)

TypeOK ==
    /\ RegistryTypeOK
    /\ mc \in [Name -> [Model -> Kinds]]
    /\ tool \in [Client -> Tool]
    /\ wires \in 0..MaxWires

(* README.md: remove_backend refuses while a ModelConfig of the backend would
   be left pointing at nothing, and takes its own along.  What is left when
   the document goes is another instance's. *)
RemovalLeavesNothing ==
    [][\A c \in Client :
         LET n == tool[c].name IN
         At(c, "remove", "delete") /\ tool'[c].pc = "wait" =>
             \A m \in Model : mc[n][m] \in {"none", "other"}]_vars

(* docs/backends.md: add_backend "waits for the watch to deliver it
   (registered: true)".  When it answers registered, the backend is the one of
   the document it wrote, unless that was written over. *)
AddAnswersWithItsWrite ==
    [][\A c \in Client :
         LET q == tool[c] IN
         /\ At(c, "add", "wait") /\ tool'[c] = Idle /\ faults' = faults
         /\ Has(q.name) /\ rv[q.name] = q.rv
         => backends[q.name] = q.content]_vars
=============================================================================
