------------------------------ MODULE Registry ------------------------------
(***************************************************************************)
(* The runtime backend registry: backend documents (ConfigMaps), the       *)
(* informer that delivers their changes to internal/registry, and the set  *)
(* of backends of internal/service.                                        *)
(*                                                                         *)
(* A ConfigMap stands for one backend name (load refuses any other).  What *)
(* it holds is a member of Content; whether load accepts it - schema, name *)
(* and build - is fixed by the content and the process's flags.  Anybody   *)
(* writes documents: the tools of BackendTools, kubectl, cluster-manager.  *)
(***************************************************************************)
EXTENDS Integers, Sequences

CONSTANTS
    Name,       \* names of backends, each the one of a ConfigMap
    Static,     \* those --backends configures
    Content,    \* what a document may hold
    Valid,      \* what passes the schema
    Builds,     \* what the builder accepts of that
    NoDoc,      \* no document, or nothing made of one
    FromFlags,  \* a backend built from --backends
    MaxWrites,  \* bound: writes and deletes of documents
    MaxFaults   \* bound: restarts of the process

ASSUME NamesAssumption == Static \subseteq Name
ASSUME ContentAssumption ==
    /\ Builds \subseteq Valid /\ Valid \subseteq Content
    /\ NoDoc \notin Content /\ FromFlags \notin Content /\ NoDoc # FromFlags
ASSUME RegistryBounds == MaxWrites \in Nat /\ MaxFaults \in Nat

VARIABLES
    doc,      \* doc[n]: what the ConfigMap of n holds
    rv,       \* rv[n]: its resourceVersion, the number of the write
    events,   \* events[n]: what the informer has still to deliver of it
    backends, \* backends[n]: what the backend registered as n was built from
    problems, \* problems[n]: the content the ConfigMap was reported for
    names,    \* Registry.names: the ConfigMaps that registered a backend
    writes, faults  \* how many of each have been

docs == <<doc, rv, events, writes>>
view == <<backends, problems, names>>
registryVars == <<docs, view, faults>>

-----------------------------------------------------------------------------
(* Documents *)

Store(n, c) ==
    /\ writes < MaxWrites
    /\ writes' = writes + 1
    /\ doc' = [doc EXCEPT ![n] = c]
    /\ rv' = [rv EXCEPT ![n] = writes + 1]
    /\ events' = [events EXCEPT ![n] = Append(@, c)]

Write(n, c) ==
    /\ Store(n, c)
    /\ UNCHANGED <<view, faults>>

Delete(n) ==
    /\ doc[n] # NoDoc
    /\ Store(n, NoDoc)
    /\ UNCHANGED <<view, faults>>

(* The watch breaks: the list that follows shows only what there is now. *)
Relist(n) ==
    /\ Len(events[n]) > 1
    /\ events' = [events EXCEPT ![n] = <<doc[n]>>]
    /\ UNCHANGED <<doc, rv, writes, view, faults>>

-----------------------------------------------------------------------------
(* Service *)

(* Mutant: registers, and leaves the report to a later step. *)
MutRegisterDocument(n, c) ==
    /\ backends' = [backends EXCEPT ![n] = c]
    /\ problems' = problems

(* RegisterDocument succeeds: registered and no longer reported. *)
RegisterDocument(n, c) ==
    /\ backends' = [backends EXCEPT ![n] = c]
    /\ problems' = [problems EXCEPT ![n] = NoDoc]

(* Mutant: keeps the last good backend beside the report. *)
MutDeregisterDocument(registered, n, problem) ==
    /\ problems' = [problems EXCEPT ![n] = problem]
    /\ backends' = [backends EXCEPT ![n] =
                      IF registered /\ problem = NoDoc /\ @ # FromFlags THEN NoDoc ELSE @]

(* DeregisterDocument: no longer registered, and the report, in one step.
   registered says whether the caller knows of a backend to drop. *)
DeregisterDocument(registered, n, problem) ==
    /\ problems' = [problems EXCEPT ![n] = problem]
    /\ backends' = [backends EXCEPT ![n] = IF registered /\ @ # FromFlags THEN NoDoc ELSE @]

-----------------------------------------------------------------------------
(* Registry *)

ForgetLocked(n, problem) ==
    /\ names' = names \ {n}
    /\ DeregisterDocument(n \in names, n, problem)

(* upsert: load, RegisterDocument; what either refuses is reported. *)
Upsert(n, c) ==
    IF c \in Builds /\ backends[n] # FromFlags
    THEN /\ RegisterDocument(n, c)
         /\ names' = names \cup {n}
    ELSE ForgetLocked(n, c)

(* The handlers run one after the other, each event of a ConfigMap in order. *)
Deliver(n) ==
    /\ events[n] # <<>>
    /\ events' = [events EXCEPT ![n] = Tail(@)]
    /\ IF Head(events[n]) = NoDoc THEN ForgetLocked(n, NoDoc) ELSE Upsert(n, Head(events[n]))
    /\ UNCHANGED <<doc, rv, writes, faults>>

-----------------------------------------------------------------------------
(* A process starts with the static backends; its informer's first list
   delivers every document there is. *)
Fresh == [n \in Name |-> IF n \in Static THEN FromFlags ELSE NoDoc]
Listed == [n \in Name |-> IF doc[n] = NoDoc THEN <<>> ELSE <<doc[n]>>]

Restart ==
    /\ faults < MaxFaults /\ faults' = faults + 1
    /\ backends' = Fresh
    /\ problems' = [n \in Name |-> NoDoc]
    /\ names' = {}
    /\ events' = Listed
    /\ UNCHANGED <<doc, rv, writes>>

RegistryInit ==
    /\ doc \in [Name -> Content \cup {NoDoc}]
    /\ rv = [n \in Name |-> 0]
    /\ events = Listed
    /\ backends = Fresh
    /\ problems = [n \in Name |-> NoDoc]
    /\ names = {}
    /\ writes = 0 /\ faults = 0

RegistryNext ==
    \/ \E n \in Name :
        \/ \E c \in Content : Write(n, c)
        \/ Delete(n) \/ Relist(n) \/ Deliver(n)
    \/ Restart

RegistrySafety == RegistryInit /\ [][RegistryNext]_registryVars

(* The informer retries its watch for ever. *)
RegistrySpec == RegistrySafety /\ \A n \in Name : WF_registryVars(Deliver(n))

-----------------------------------------------------------------------------
(* Properties *)

RegistryTypeOK ==
    /\ doc \in [Name -> Content \cup {NoDoc}]
    /\ rv \in [Name -> 0..MaxWrites]
    /\ events \in [Name -> Seq(Content \cup {NoDoc})]
    /\ backends \in [Name -> Builds \cup {NoDoc, FromFlags}]
    /\ problems \in [Name -> Content \cup {NoDoc}]
    /\ names \subseteq Name
    /\ writes \in 0..MaxWrites /\ faults \in 0..MaxFaults

(* Service.Backends: no reader finds a backend of a document registered and
   that document reported (model-manager#101). *)
NeverBoth ==
    \A n \in Name : backends[n] \in Content => problems[n] = NoDoc

(* What load makes of a content. *)
Registers(n, c) == c \in Builds /\ n \notin Static

(* docs/backends.md: "what serves is always what the ConfigMap holds, never
   the last good document beside the report".  Once the informer has
   delivered all there is of a ConfigMap, the service holds what it holds. *)
InStep ==
    \A n \in Name : events[n] = <<>> =>
        /\ n \notin Static => backends[n] = IF Registers(n, doc[n]) THEN doc[n] ELSE NoDoc
        /\ problems[n] = IF Registers(n, doc[n]) THEN NoDoc ELSE doc[n]

(* A static backend is neither replaced nor dropped, whatever document bears
   its name, and no other is taken for static. *)
StaticStays == \A n \in Name : backends[n] = FromFlags <=> n \in Static

(* Registry.names and the service agree on what documents registered, so that
   a document that goes takes its backend along. *)
NamesAgree == \A n \in Name : n \in names <=> backends[n] \in Content

(* A document written is loaded or reported in the end, one deleted is
   neither. *)
Converges ==
    \A n \in Name : \A c \in Content \cup {NoDoc} :
        <>[](doc[n] = c) =>
            <>[](IF Registers(n, c) THEN backends[n] = c
                 ELSE problems[n] = c /\ backends[n] \notin Content)
=============================================================================
