------------------------- MODULE BackendTools_proofs -------------------------
(***************************************************************************)
(* Proofs about the registry, and about add_backend and remove_backend,    *)
(* for any clients, models, names, contents and bounds.  Whatever is       *)
(* written, however the watch breaks and whenever the process restarts,    *)
(* the service and the documents delivered agree (RegistryCorrect); with   *)
(* the tools running, the two still follow module Registry                 *)
(* (ToolsImplementRegistry), so everything proved there holds of them.     *)
(*                                                                         *)
(* InStep alone is not inductive: an event delivered settles a ConfigMap   *)
(* only because the last event holds what the document holds (LastIsDoc),  *)
(* and it drops the backend only because Registry.names knows it           *)
(* (NamesAgree).                                                           *)
(***************************************************************************)
EXTENDS BackendTools, SequenceTheorems, TLAPS

-----------------------------------------------------------------------------
(* The registry *)

(* The informer has still to deliver the present content of a document, if
   anything of it. *)
LastIsDoc ==
    \A n \in Name : events[n] # <<>> => events[n][Len(events[n])] = doc[n]

RegistryInv ==
    RegistryTypeOK /\ NeverBoth /\ InStep /\ StaticStays /\ NamesAgree /\ LastIsDoc

(* What is delivered next, and what is left then. *)
LEMMA HeadTail ==
    ASSUME NEW S, NEW s \in Seq(S), s # <<>>
    PROVE  /\ Head(s) \in S /\ Tail(s) \in Seq(S)
           /\ Tail(s) = <<>> => Head(s) = s[Len(s)]
           /\ Tail(s) # <<>> => Tail(s)[Len(Tail(s))] = s[Len(s)]
<1>1. Len(s) \in Nat /\ Len(s) > 0 /\ Head(s) = s[1] /\ Head(s) \in S
  OBVIOUS
<1>2. Tail(s) \in Seq(S) /\ Len(Tail(s)) = Len(s) - 1
  OBVIOUS
<1>3. \A i \in 1..Len(Tail(s)) : Tail(s)[i] = s[i + 1]
  OBVIOUS
<1>4. Tail(s) = <<>> <=> Len(Tail(s)) = 0
  BY <1>2, EmptySeq
<1>5. QED
  BY <1>1, <1>2, <1>3, <1>4

(* A sequence with an element appended ends with it. *)
LEMMA AppendEnds ==
    ASSUME NEW S, NEW s \in Seq(S), NEW e \in S
    PROVE  /\ Append(s, e) \in Seq(S) /\ Append(s, e) # <<>>
           /\ Append(s, e)[Len(Append(s, e))] = e
           /\ <<e>> \in Seq(S) /\ <<e>> # <<>> /\ <<e>>[Len(<<e>>)] = e
<1>1. Append(s, e) \in Seq(S) /\ Len(Append(s, e)) = Len(s) + 1 /\ Len(s) \in Nat
  OBVIOUS
<1>2. Append(s, e)[Len(s) + 1] = e
  OBVIOUS
<1>3. Append(s, e) # <<>>
  BY <1>1, EmptySeq
<1>4. <<e>> \in Seq(S) /\ Len(<<e>>) = 1 /\ <<e>>[1] = e
  OBVIOUS
<1>5. <<e>> # <<>>
  BY <1>4, EmptySeq
<1>6. QED
  BY <1>1, <1>2, <1>3, <1>4, <1>5

(* A document written or deleted keeps the invariant: its event comes last. *)
LEMMA StoreInv ==
    ASSUME RegistryInv, NEW n \in Name, NEW c \in Content \cup {NoDoc},
           Store(n, c), UNCHANGED <<view, faults>>
    PROVE  RegistryInv'
<1> USE DEF RegistryInv
<1>1. /\ Append(events[n], c) \in Seq(Content \cup {NoDoc})
      /\ Append(events[n], c) # <<>>
      /\ Append(events[n], c)[Len(Append(events[n], c))] = c
  <2>1. events[n] \in Seq(Content \cup {NoDoc})
    BY DEF RegistryTypeOK
  <2>2. QED
    BY <2>1, c \in Content \cup {NoDoc}, AppendEnds
<1>2. RegistryTypeOK'
  <2>1. writes + 1 \in 0..MaxWrites /\ writes' = writes + 1
    BY RegistryBounds DEF RegistryTypeOK, Store
  <2>2. doc' \in [Name -> Content \cup {NoDoc}] /\ rv' \in [Name -> 0..MaxWrites]
    BY <2>1 DEF RegistryTypeOK, Store
  <2>3. events' \in [Name -> Seq(Content \cup {NoDoc})]
    BY <1>1 DEF RegistryTypeOK, Store
  <2>4. QED
    BY <2>1, <2>2, <2>3 DEF RegistryTypeOK, view
<1>3. NeverBoth' /\ StaticStays' /\ NamesAgree'
  BY DEF NeverBoth, StaticStays, NamesAgree, Store, view
<1>4. InStep'
  <2>1. events'[n] # <<>> /\ \A m \in Name \ {n} : events'[m] = events[m] /\ doc'[m] = doc[m]
    BY <1>1 DEF RegistryTypeOK, Store
  <2>2. QED
    BY <2>1 DEF InStep, Registers, Store, view
<1>5. LastIsDoc'
  BY <1>1 DEF LastIsDoc, RegistryTypeOK, Store
<1>6. QED
  BY <1>2, <1>3, <1>4, <1>5

(* A relist keeps the last event. *)
LEMMA RelistInv ==
    ASSUME RegistryInv, NEW n \in Name, Relist(n)
    PROVE  RegistryInv'
<1> USE DEF RegistryInv
<1>1. <<doc[n]>> \in Seq(Content \cup {NoDoc}) /\ <<doc[n]>> # <<>>
      /\ <<doc[n]>>[Len(<<doc[n]>>)] = doc[n]
  BY AppendEnds, EmptySeq DEF RegistryTypeOK
<1>2. RegistryTypeOK'
  BY <1>1 DEF RegistryTypeOK, Relist, view
<1>3. NeverBoth' /\ StaticStays' /\ NamesAgree'
  BY DEF NeverBoth, StaticStays, NamesAgree, Relist, view
<1>4. InStep'
  <2>1. events'[n] # <<>> /\ \A m \in Name \ {n} : events'[m] = events[m]
    BY <1>1 DEF RegistryTypeOK, Relist
  <2>2. QED
    BY <2>1 DEF InStep, Registers, Relist, view
<1>5. LastIsDoc'
  BY <1>1 DEF LastIsDoc, RegistryTypeOK, Relist
<1>6. QED
  BY <1>2, <1>3, <1>4, <1>5

(* What the handler makes of an event: the backend, the report and what the
   registry remembers of the ConfigMap, whatever was there before. *)
LEMMA Handled ==
    ASSUME RegistryInv, NEW n \in Name, Deliver(n), NEW h, h = Head(events[n])
    PROVE  /\ h \in Content \cup {NoDoc}
           /\ backends' = [backends EXCEPT ![n] = IF n \in Static THEN FromFlags
                              ELSE IF Registers(n, h) THEN h ELSE NoDoc]
           /\ problems' = [problems EXCEPT ![n] = IF Registers(n, h) THEN NoDoc ELSE h]
           /\ names' = IF Registers(n, h) THEN names \cup {n} ELSE names \ {n}
<1> USE ContentAssumption DEF RegistryInv
<1>1. h \in Content \cup {NoDoc}
  BY HeadTail DEF RegistryTypeOK, Deliver
<1>2. backends[n] = FromFlags <=> n \in Static
  BY DEF StaticStays
<1>3. n \notin Static /\ n \notin names => backends[n] = NoDoc
  BY <1>2 DEF NamesAgree, RegistryTypeOK
<1>4. n \in names => n \notin Static
  BY <1>2 DEF NamesAgree
<1>5. CASE Registers(n, h)
  <2>1. h \in Builds /\ h # NoDoc /\ backends[n] # FromFlags /\ n \notin Static
    BY <1>2, <1>5 DEF Registers
  <2>2. RegisterDocument(n, h) /\ names' = names \cup {n}
    BY <2>1 DEF Deliver, Upsert
  <2>3. QED
    BY <1>1, <1>5, <2>1, <2>2 DEF RegisterDocument
<1>6. CASE ~Registers(n, h)
  <2>1. ForgetLocked(n, h)
    BY <1>2, <1>6 DEF Deliver, Upsert, Registers
  <2>2. names' = names \ {n} /\ problems' = [problems EXCEPT ![n] = h]
        /\ backends' = [backends EXCEPT ![n] = IF n \in names /\ @ # FromFlags THEN NoDoc ELSE @]
    BY <2>1 DEF ForgetLocked, DeregisterDocument
  <2>3. (IF n \in names /\ backends[n] # FromFlags THEN NoDoc ELSE backends[n])
           = IF n \in Static THEN FromFlags ELSE NoDoc
    BY <1>2, <1>3, <1>4
  <2>4. QED
    BY <1>1, <1>6, <2>2, <2>3
<1>7. QED
  BY <1>5, <1>6

(* An event delivered keeps the invariant. *)
LEMMA DeliverInv ==
    ASSUME RegistryInv, NEW n \in Name, Deliver(n)
    PROVE  RegistryInv'
<1> USE ContentAssumption DEF RegistryInv
<1> DEFINE h == Head(events[n])
<1>1. /\ events[n] \in Seq(Content \cup {NoDoc}) /\ events[n] # <<>>
      /\ events' = [events EXCEPT ![n] = Tail(events[n])]
      /\ UNCHANGED <<doc, rv, writes, faults>>
  BY DEF RegistryTypeOK, Deliver
<1>2. /\ Tail(events[n]) \in Seq(Content \cup {NoDoc})
      /\ Tail(events[n]) = <<>> => h = doc[n]
      /\ Tail(events[n]) # <<>> => Tail(events[n])[Len(Tail(events[n]))] = doc[n]
  BY <1>1, HeadTail DEF LastIsDoc
<1>3. /\ h \in Content \cup {NoDoc}
      /\ backends' = [backends EXCEPT ![n] = IF n \in Static THEN FromFlags
                         ELSE IF Registers(n, h) THEN h ELSE NoDoc]
      /\ problems' = [problems EXCEPT ![n] = IF Registers(n, h) THEN NoDoc ELSE h]
      /\ names' = IF Registers(n, h) THEN names \cup {n} ELSE names \ {n}
  BY Handled
<1> HIDE DEF h
<1>4. RegistryTypeOK'
  BY <1>1, <1>2, <1>3 DEF RegistryTypeOK, Registers
<1>5. NeverBoth' /\ StaticStays' /\ NamesAgree'
  BY <1>3 DEF NeverBoth, StaticStays, NamesAgree, RegistryTypeOK, Registers
<1>6. InStep'
  BY <1>1, <1>2, <1>3 DEF InStep, Registers, RegistryTypeOK
<1>7. LastIsDoc'
  BY <1>1, <1>2 DEF LastIsDoc, RegistryTypeOK
<1>8. QED
  BY <1>4, <1>5, <1>6, <1>7

(* A process that starts knows the static backends and has every document
   still to hear of: the invariant holds of any documents. *)
LEMMA FreshInv ==
    ASSUME doc' \in [Name -> Content \cup {NoDoc}], rv' \in [Name -> 0..MaxWrites],
           writes' \in 0..MaxWrites, faults' \in 0..MaxFaults,
           backends' = Fresh, problems' = [n \in Name |-> NoDoc], names' = {},
           events' = [n \in Name |-> IF doc'[n] = NoDoc THEN <<>> ELSE <<doc'[n]>>]
    PROVE  RegistryInv'
<1> USE ContentAssumption, NamesAssumption DEF Fresh
<1>1. \A n \in Name : /\ events'[n] \in Seq(Content \cup {NoDoc})
                      /\ events'[n] = <<>> => doc'[n] = NoDoc
                      /\ events'[n] # <<>> => events'[n][Len(events'[n])] = doc'[n]
  BY AppendEnds, EmptySeq
<1>2. RegistryTypeOK'
  BY <1>1 DEF RegistryTypeOK
<1>3. NeverBoth' /\ StaticStays' /\ NamesAgree'
  BY DEF NeverBoth, StaticStays, NamesAgree
<1>4. InStep'
  BY <1>1 DEF InStep, Registers
<1>5. LastIsDoc'
  BY <1>1 DEF LastIsDoc
<1>6. QED
  BY <1>2, <1>3, <1>4, <1>5 DEF RegistryInv

(* The invariant is inductive. *)
LEMMA NextInv ==
    ASSUME RegistryInv, [RegistryNext]_registryVars
    PROVE  RegistryInv'
<1>1. ASSUME NEW n \in Name, NEW c \in Content, Write(n, c) PROVE RegistryInv'
  BY <1>1, StoreInv DEF Write
<1>2. ASSUME NEW n \in Name, Delete(n) PROVE RegistryInv'
  BY <1>2, StoreInv DEF Delete
<1>3. ASSUME NEW n \in Name, Relist(n) PROVE RegistryInv'
  BY <1>3, RelistInv
<1>4. ASSUME NEW n \in Name, Deliver(n) PROVE RegistryInv'
  BY <1>4, DeliverInv
<1>5. CASE Restart
  <2>1. /\ doc' = doc /\ rv' = rv /\ writes' = writes /\ faults' \in 0..MaxFaults
        /\ RegistryTypeOK
    BY <1>5, RegistryBounds DEF Restart, RegistryInv, RegistryTypeOK
  <2>2. events' = [n \in Name |-> IF doc'[n] = NoDoc THEN <<>> ELSE <<doc'[n]>>]
    BY <1>5, <2>1 DEF Restart, Listed
  <2>3. QED
    BY <1>5, <2>1, <2>2, FreshInv DEF Restart, RegistryTypeOK
<1>6. CASE UNCHANGED registryVars
  BY <1>6 DEF RegistryInv, RegistryTypeOK, NeverBoth, InStep, StaticStays, NamesAgree, LastIsDoc,
              Registers, registryVars, docs, view
<1>7. QED
  BY <1>1, <1>2, <1>3, <1>4, <1>5, <1>6 DEF RegistryNext

(* The invariant holds at the start: the documents there are, undelivered. *)
LEMMA InitInv ==
    ASSUME RegistryInit
    PROVE  RegistryInv
<1> USE ContentAssumption, NamesAssumption, RegistryBounds DEF RegistryInit, Fresh, Listed
<1>1. \A n \in Name : /\ events[n] \in Seq(Content \cup {NoDoc})
                      /\ events[n] = <<>> => doc[n] = NoDoc
                      /\ events[n] # <<>> => events[n][Len(events[n])] = doc[n]
  BY AppendEnds, EmptySeq
<1>2. RegistryTypeOK
  BY <1>1 DEF RegistryTypeOK
<1>3. NeverBoth /\ StaticStays /\ NamesAgree
  BY DEF NeverBoth, StaticStays, NamesAgree
<1>4. InStep
  BY <1>1 DEF InStep, Registers
<1>5. LastIsDoc
  BY <1>1 DEF LastIsDoc
<1>6. QED
  BY <1>2, <1>3, <1>4, <1>5 DEF RegistryInv

(* The registry keeps its invariant, whatever is written to the documents. *)
THEOREM RegistryCorrect == RegistrySafety => []RegistryInv
<1>1. RegistryInit => RegistryInv
  BY InitInv
<1>2. RegistryInv /\ [RegistryNext]_registryVars => RegistryInv'
  BY NextInv
<1>3. QED
  BY <1>1, <1>2, PTL DEF RegistrySafety

(* No reader of the service ever finds a document's backend registered and
   the document reported. *)
THEOREM NeverBothHolds == RegistrySafety => []NeverBoth
<1>1. RegistryInv => NeverBoth
  BY DEF RegistryInv
<1>2. QED
  BY <1>1, RegistryCorrect, PTL

(* Once a document's events are delivered, the service holds what it holds. *)
THEOREM InStepHolds == RegistrySafety => []InStep
<1>1. RegistryInv => InStep
  BY DEF RegistryInv
<1>2. QED
  BY <1>1, RegistryCorrect, PTL

(* The backends of --backends stay, whatever document bears their name. *)
THEOREM StaticStaysHolds == RegistrySafety => []StaticStays
<1>1. RegistryInv => StaticStays
  BY DEF RegistryInv
<1>2. QED
  BY <1>1, RegistryCorrect, PTL

-----------------------------------------------------------------------------
(* The tools *)

(* The tools' part of TypeOK; a call under way is about a backend, and what
   add_backend writes is a content. *)
ToolsInv ==
    /\ mc \in [Name -> [Model -> Kinds]]
    /\ tool \in [Client -> Tool]
    /\ wires \in 0..MaxWires
    /\ \A c \in Client :
        /\ tool[c].op # "none" => tool[c].name \in Name
        /\ At(c, "add", "create") \/ At(c, "add", "update") => tool[c].content \in Content

(* Of documents and backends, a step of the tools is one of the registry. *)
LEMMA ToolsStep ==
    ASSUME ToolsInv, Next
    PROVE  RegistryNext \/ UNCHANGED registryVars
<1> USE ContentAssumption
<1>1. ASSUME NEW n \in Name, Others(n) PROVE RegistryNext
  BY <1>1 DEF Others, RegistryNext
<1>2. ASSUME NEW n \in Name, Informer(n) PROVE RegistryNext
  BY <1>2 DEF Informer, RegistryNext
<1>3. CASE ProcessRestart
  BY <1>3 DEF ProcessRestart, RegistryNext
<1>4. ASSUME NEW c \in Client, Add(c) PROVE RegistryNext \/ UNCHANGED registryVars
  <2>1. ASSUME NEW n \in Name, NEW content \in Content, AddGet(c, n, content)
        PROVE  UNCHANGED registryVars
    BY <2>1 DEF AddGet, Documents
  <2>2. CASE AddApply(c)
    <3>1. tool[c].name \in Name /\ tool[c].content \in Content
      BY <2>2 DEF AddApply, ToolsInv, At
    <3>2. CASE Store(tool[c].name, tool[c].content) /\ UNCHANGED <<view, faults>>
      BY <3>1, <3>2 DEF RegistryNext, Write
    <3>3. CASE Documents
      BY <3>3 DEF Documents
    <3>4. QED
      BY <2>2, <3>2, <3>3 DEF AddApply
  <2>3. CASE AddWait(c)
    BY <2>3 DEF AddWait, Documents
  <2>4. QED
    BY <1>4, <2>1, <2>2, <2>3 DEF Add
<1>5. ASSUME NEW c \in Client, Remove(c) PROVE RegistryNext \/ UNCHANGED registryVars
  <2>1. CASE RemoveDelete(c)
    <3>1. tool[c].name \in Name
      BY <2>1 DEF RemoveDelete, ToolsInv, At
    <3>2. CASE doc[tool[c].name] # NoDoc
      BY <2>1, <3>1, <3>2 DEF RemoveDelete, RegistryNext, Delete
    <3>3. CASE doc[tool[c].name] = NoDoc
      BY <2>1, <3>3 DEF RemoveDelete, Documents
    <3>4. QED
      BY <3>2, <3>3
  <2>2. CASE ~RemoveDelete(c)
    BY <1>5, <2>2 DEF Remove, RemoveGet, RemovePlan, RemoveList, RemoveEach, RemoveWait,
                      RemoveFails, Documents
  <2>3. QED
    BY <2>1, <2>2
<1>6. ASSUME NEW c \in Client, Wire(c) PROVE UNCHANGED registryVars
  BY <1>6 DEF Wire, WireStart, WireEnsure, Unwire, Documents
<1>7. QED
  BY <1>1, <1>2, <1>3, <1>4, <1>5, <1>6 DEF Next

(* Calls that start, go on and finish are calls on a backend. *)
LEMMA AddInv ==
    ASSUME ToolsInv, RegistryTypeOK, RegistryTypeOK', NEW c \in Client, Add(c)
    PROVE  ToolsInv'
<1> USE ContentAssumption DEF ToolsInv, ModelConfigs
<1>1. ASSUME NEW n \in Name, NEW content \in Content, AddGet(c, n, content) PROVE ToolsInv'
  <2>1. rv[n] \in 0..MaxWrites
    BY DEF RegistryTypeOK
  <2>2. Idle \in Tool
    BY RegistryBounds DEF Idle, Tool
  <2> DEFINE q == [Idle EXCEPT !.op = "add", !.name = n, !.content = content, !.rv = rv[n],
                               !.pc = IF doc[n] = NoDoc THEN "create" ELSE "update"]
  <2>3. q \in Tool /\ q.name = n /\ q.content = content
    BY <2>1, <2>2 DEF Tool
  <2>4. tool' = [tool EXCEPT ![c] = q]
    BY <1>1 DEF AddGet
  <2>5. UNCHANGED <<mc, wires>>
    BY <1>1 DEF AddGet
  <2> HIDE DEF q
  <2>6. QED
    BY <2>3, <2>4, <2>5 DEF At
<1>2. CASE AddApply(c)
  <2>1. tool[c] \in Tool /\ tool[c].name \in Name /\ rv'[tool[c].name] \in 0..MaxWrites
    BY <1>2 DEF AddApply, At, RegistryTypeOK
  <2>2. [tool[c] EXCEPT !.pc = "wait", !.rv = rv'[tool[c].name]] \in Tool
    BY <2>1 DEF Tool
  <2>3. Idle \in Tool /\ Idle.op = "none"
    BY RegistryBounds DEF Idle, Tool
  <2>4. tool' = [tool EXCEPT ![c] = [tool[c] EXCEPT !.pc = "wait", !.rv = rv'[tool[c].name]]]
        \/ tool' = [tool EXCEPT ![c] = Idle]
    BY <1>2 DEF AddApply, Finish
  <2>5. UNCHANGED <<mc, wires>>
    BY <1>2 DEF AddApply
  <2>6. CASE tool' = [tool EXCEPT ![c] = Idle]
    BY <2>3, <2>5, <2>6 DEF At
  <2> DEFINE q == [tool[c] EXCEPT !.pc = "wait", !.rv = rv'[tool[c].name]]
  <2>7. q.pc = "wait" /\ q.name = tool[c].name
    BY <2>1 DEF Tool
  <2>8. CASE tool' = [tool EXCEPT ![c] = q]
    <3> HIDE DEF q
    <3>1. q \in Tool
      BY <2>2 DEF q
    <3>2. QED
      BY <2>1, <2>5, <2>7, <2>8, <3>1 DEF At
  <2>9. QED
    BY <2>4, <2>6, <2>8
<1>3. CASE AddWait(c)
  <2>1. Idle \in Tool /\ Idle.op = "none"
    BY RegistryBounds DEF Idle, Tool
  <2>2. QED
    BY <1>3, <2>1 DEF AddWait, Finish, At
<1>4. QED
  BY <1>1, <1>2, <1>3 DEF Add

(* The same of remove_backend, which takes ModelConfigs away. *)
LEMMA RemoveInv ==
    ASSUME ToolsInv, NEW c \in Client, Remove(c)
    PROVE  ToolsInv'
<1> USE ContentAssumption DEF ToolsInv, ModelConfigs
<1>1. Idle \in Tool /\ Idle.op = "none"
  BY RegistryBounds DEF Idle, Tool
<1>2. tool[c] \in Tool
  OBVIOUS
<1>3. ASSUME NEW n \in Name, RemoveGet(c, n) PROVE ToolsInv'
  <2> DEFINE q == [Idle EXCEPT !.op = "remove", !.pc = "plan", !.name = n]
  <2>1. q \in Tool /\ q.op = "remove" /\ q.name = n
    BY <1>1 DEF Tool
  <2>2. tool' = [tool EXCEPT ![c] = q] /\ UNCHANGED <<mc, wires>>
    BY <1>3 DEF RemoveGet
  <2> HIDE DEF q
  <2>3. QED
    BY <2>1, <2>2 DEF At
<1>4. ASSUME tool[c].op = "remove", NEW pc \in {"list", "each", "delete", "wait"},
             NEW todo \in SUBSET Model,
             tool' = [tool EXCEPT ![c] = [tool[c] EXCEPT !.pc = pc, !.todo = todo]],
             mc' \in [Name -> [Model -> Kinds]], wires' = wires
      PROVE  ToolsInv'
  <2>1. [tool[c] EXCEPT !.pc = pc, !.todo = todo] \in Tool
    BY <1>2 DEF Tool
  <2>2. QED
    BY <1>2, <1>4, <2>1 DEF At, Tool
<1>5. ASSUME tool' = [tool EXCEPT ![c] = Idle], mc' \in [Name -> [Model -> Kinds]], wires' = wires
      PROVE  ToolsInv'
  BY <1>1, <1>5 DEF At
<1>6. tool[c].todo \in SUBSET Model
      /\ \A pc : [tool EXCEPT ![c].pc = pc]
                    = [tool EXCEPT ![c] = [tool[c] EXCEPT !.pc = pc, !.todo = tool[c].todo]]
  BY <1>2 DEF Tool
<1>7. CASE RemovePlan(c)
  BY <1>4, <1>5, <1>6, <1>7 DEF RemovePlan, Finish, Goto, At
<1>8. CASE RemoveList(c)
  <2> DEFINE listed == {m \in Model : mc[tool[c].name][m] \notin {"none", "old"}}
             pc == IF listed = {} THEN "delete" ELSE "each"
  <2>1. tool' = [tool EXCEPT ![c] = [tool[c] EXCEPT !.pc = pc, !.todo = listed]]
    BY <1>8 DEF RemoveList
  <2>2. pc \in {"list", "each", "delete", "wait"} /\ listed \in SUBSET Model
    OBVIOUS
  <2>3. tool[c].op = "remove" /\ mc' = mc /\ wires' = wires
    BY <1>8 DEF RemoveList, At
  <2>4. QED
    BY <1>4, <2>1, <2>2, <2>3
<1>9. CASE RemoveEach(c)
  <2>1. PICK m \in tool[c].todo :
          /\ mc' = [mc EXCEPT ![tool[c].name][m] = IF @ = "here" THEN "none" ELSE @]
          /\ tool' = [tool EXCEPT ![c] =
                IF mc[tool[c].name][m] = "git" THEN Idle
                ELSE [tool[c] EXCEPT !.todo = @ \ {m},
                             !.pc = IF tool[c].todo = {m} THEN "delete" ELSE "each"]]
    BY <1>9 DEF RemoveEach
  <2>2. wires' = wires /\ tool[c].op = "remove" /\ tool[c].name \in Name /\ m \in Model
    BY <1>6, <1>9 DEF RemoveEach, At
  <2>3. mc' \in [Name -> [Model -> Kinds]]
    <3> DEFINE n == tool[c].name
               k == IF mc[n][m] = "here" THEN "none" ELSE mc[n][m]
    <3>1. k \in Kinds
      BY <2>2 DEF Kinds
    <3>2. mc' = [mc EXCEPT ![n] = [mc[n] EXCEPT ![m] = k]]
      BY <2>1, <2>2
    <3> HIDE DEF k, n
    <3>3. [mc[n] EXCEPT ![m] = k] \in [Model -> Kinds]
      BY <2>2, <3>1 DEF n
    <3>4. QED
      BY <3>2, <3>3
  <2> DEFINE pc == IF tool[c].todo = {m} THEN "delete" ELSE "each"
             todo == tool[c].todo \ {m}
  <2>4. pc \in {"list", "each", "delete", "wait"} /\ todo \in SUBSET Model
    BY <1>6
  <2>5. [tool[c] EXCEPT !.todo = @ \ {m}, !.pc = pc] = [tool[c] EXCEPT !.pc = pc, !.todo = todo]
    BY <1>2 DEF Tool
  <2>6. CASE mc[tool[c].name][m] = "git"
    BY <1>5, <2>1, <2>2, <2>6, <2>3
  <2>7. CASE mc[tool[c].name][m] # "git"
    <3>1. tool' = [tool EXCEPT ![c] = [tool[c] EXCEPT !.pc = pc, !.todo = todo]]
      BY <2>1, <2>5, <2>7
    <3>2. QED
      BY <1>4, <2>2, <2>4, <2>3, <3>1
  <2>8. QED
    BY <2>6, <2>7
<1>10. CASE RemoveDelete(c)
  BY <1>4, <1>5, <1>6, <1>10 DEF RemoveDelete, Finish, Goto, At
<1>11. CASE RemoveWait(c)
  BY <1>5, <1>11 DEF RemoveWait, Finish
<1>12. CASE RemoveFails(c)
  BY <1>5, <1>12 DEF RemoveFails, Finish
<1>13. QED
  BY <1>3, <1>7, <1>8, <1>9, <1>10, <1>11, <1>12 DEF Remove

(* The same of wire_model and unwire_model. *)
LEMMA WireInv ==
    ASSUME ToolsInv, NEW c \in Client, Wire(c)
    PROVE  ToolsInv'
<1> USE ContentAssumption DEF ToolsInv
<1>1. Idle \in Tool /\ Idle.op = "none"
  BY RegistryBounds DEF Idle, Tool
<1>2. ASSUME NEW n \in Name, NEW m \in Model, WireStart(c, n, m) PROVE ToolsInv'
  <2> DEFINE q == [Idle EXCEPT !.op = "wire", !.pc = "ensure", !.name = n, !.todo = {m}]
  <2>1. q \in Tool /\ q.op = "wire" /\ q.name = n
    BY <1>1 DEF Tool
  <2>2. tool' = [tool EXCEPT ![c] = q] /\ mc' = mc
    BY <1>2 DEF WireStart
  <2>3. wires' \in 0..MaxWires
    BY <1>2, ToolsAssumption DEF WireStart
  <2> HIDE DEF q
  <2>4. QED
    BY <2>1, <2>2, <2>3 DEF At
<1>3. ASSUME NEW n \in Name, NEW m \in Model, Unwire(c, n, m) PROVE ToolsInv'
  <2>1. mc' \in [Name -> [Model -> Kinds]]
    <3>1. [mc[n] EXCEPT ![m] = "none"] \in [Model -> Kinds]
      BY DEF Kinds
    <3>2. mc' = [mc EXCEPT ![n] = [mc[n] EXCEPT ![m] = "none"]]
      BY <1>3 DEF Unwire
    <3>3. QED
      BY <3>1, <3>2
  <2>2. UNCHANGED <<tool, wires>>
    BY <1>3 DEF Unwire
  <2>3. QED
    BY <2>1, <2>2 DEF At
<1>4. CASE WireEnsure(c)
  <2> DEFINE n == tool[c].name
             after == [m \in Model |->
                IF m \notin tool[c].todo THEN mc[n][m]
                ELSE CASE mc[n][m] = "none" -> "here" [] mc[n][m] = "old" -> "unclaimed"
                       [] OTHER -> mc[n][m]]
  <2>1. n \in Name
    BY <1>4 DEF WireEnsure, At
  <2>2. mc' = [mc EXCEPT ![n] = after]
    BY <1>4 DEF WireEnsure
  <2>3. after \in [Model -> Kinds]
    BY <2>1 DEF Kinds
  <2> HIDE DEF after, n
  <2>4. mc' \in [Name -> [Model -> Kinds]]
    BY <2>1, <2>2, <2>3
  <2>5. tool' = [tool EXCEPT ![c] = Idle] /\ wires' = wires
    BY <1>4 DEF WireEnsure, Finish
  <2>6. QED
    BY <1>1, <2>4, <2>5 DEF At
<1>5. QED
  BY <1>2, <1>3, <1>4 DEF Wire

(* Every step keeps the tools' invariant. *)
LEMMA ToolsNextInv ==
    ASSUME ToolsInv, RegistryTypeOK, RegistryTypeOK', [Next]_vars
    PROVE  ToolsInv'
<1>1. CASE UNCHANGED vars
  BY <1>1 DEF vars, ToolsInv, At
<1>2. ASSUME NEW n \in Name, Others(n) \/ Informer(n) PROVE ToolsInv'
  BY <1>2 DEF Others, Informer, ModelConfigs, ToolsInv, At
<1>3. CASE ProcessRestart
  <2>1. Idle \in Tool /\ Idle.op = "none"
    BY RegistryBounds, ContentAssumption DEF Idle, Tool
  <2>2. QED
    BY <1>3, <2>1 DEF ProcessRestart, ModelConfigs, ToolsInv, At
<1>4. ASSUME NEW c \in Client, Add(c) \/ Remove(c) \/ Wire(c) PROVE ToolsInv'
  BY <1>4, AddInv, RemoveInv, WireInv
<1>5. QED
  BY <1>1, <1>2, <1>3, <1>4 DEF Next

(* The invariant of the registry and of the tools holds throughout. *)
LEMMA ToolsCorrect == Spec => [](RegistryInv /\ ToolsInv)
<1>1. Init => RegistryInv /\ ToolsInv
  <2>1. Idle \in Tool /\ Idle.op = "none"
    BY RegistryBounds, ContentAssumption DEF Idle, Tool
  <2>2. Init => ToolsInv
    <3>1. Wired \cup {"none"} \subseteq Kinds
      BY ToolsAssumption DEF Kinds
    <3>2. [Model -> Wired \cup {"none"}] \subseteq [Model -> Kinds]
      BY <3>1
    <3>3. Init => mc \in [Name -> [Model -> Kinds]]
      BY <3>2 DEF Init
    <3>4. QED
      BY <2>1, <3>3, ToolsAssumption DEF Init, ToolsInv, At
  <2>3. QED
    BY <2>2, InitInv DEF Init
<1>2. ASSUME RegistryInv, ToolsInv, [Next]_vars PROVE (RegistryInv /\ ToolsInv)'
  <2>1. [RegistryNext]_registryVars
    BY <1>2, ToolsStep DEF vars
  <2>2. RegistryInv'
    BY <1>2, <2>1, NextInv
  <2>3. RegistryTypeOK /\ RegistryTypeOK'
    BY <1>2, <2>2 DEF RegistryInv
  <2>4. QED
    BY <1>2, <2>2, <2>3, ToolsNextInv
<1>3. QED
  BY <1>1, <1>2, PTL DEF Spec

(* Every state is type correct. *)
THEOREM ToolsTypeCorrect == Spec => []TypeOK
<1>1. RegistryInv /\ ToolsInv => TypeOK
  BY DEF RegistryInv, ToolsInv, TypeOK
<1>2. QED
  BY <1>1, ToolsCorrect, PTL

(* add_backend and remove_backend act on the documents alone: with them the
   registry is still the one of module Registry, and what is proved of that
   holds here. *)
THEOREM ToolsImplementRegistry == Spec => RegistrySafety
<1>1. Init => RegistryInit
  BY DEF Init
<1>2. ToolsInv /\ [Next]_vars => [RegistryNext]_registryVars
  BY ToolsStep DEF vars
<1>3. QED
  BY <1>1, <1>2, ToolsCorrect, PTL DEF Spec, RegistrySafety

-----------------------------------------------------------------------------
(* remove_backend *)

(* What a removal has checked of the ModelConfigs of its backend, by where it
   is, and what it still has to remove. *)
Kept(q, configs) ==
    q.op = "remove" =>
      \A m \in Model :
        /\ q.pc \in {"list", "each", "delete"} => configs[q.name][m] \in {"none", "here", "other"}
        /\ q.pc = "each" /\ configs[q.name][m] = "here" => m \in q.todo
        /\ q.pc = "delete" => configs[q.name][m] # "here"

RemovalInv ==
    /\ \A n \in Name, m \in Model : mc[n][m] # "old"
    /\ \A c \in Client : tool[c].op = "wire" => MaxWires > 0
    /\ \A c \in Client : Kept(tool[c], mc)

(* No wire_model runs beside a removal: calls come one at a time, or there is
   none of it. *)
Apart == (\A c, d \in Client : c = d) \/ MaxWires = 0

(* ModelConfigs that go take nothing from what a removal has checked. *)
LEMMA FewerKept ==
    ASSUME ToolsInv, RemovalInv, NEW c \in Client, NEW q,
           tool' = [tool EXCEPT ![c] = q],
           mc' \in [Name -> [Model -> Kinds]],
           \A n \in Name, m \in Model : mc'[n][m] \in {mc[n][m], "none"},
           q.op = "wire" => MaxWires > 0, Kept(q, mc')
    PROVE  RemovalInv'
<1>1. \A n \in Name, m \in Model : mc'[n][m] # "old"
  BY DEF RemovalInv
<1>2. ASSUME NEW d \in Client PROVE (tool'[d].op = "wire" => MaxWires > 0) /\ Kept(tool'[d], mc')
  <2>1. CASE d = c
    <3>1. tool'[d] = q
      BY <2>1 DEF ToolsInv
    <3> QED BY <3>1
  <2>2. CASE d # c
    <3>1. tool'[d] = tool[d] /\ (tool[d].op = "wire" => MaxWires > 0) /\ Kept(tool[d], mc)
      BY <2>2 DEF ToolsInv, RemovalInv
    <3>2. tool[d].op = "remove" => tool[d].name \in Name
      BY DEF ToolsInv
    <3> QED BY <3>1, <3>2 DEF Kept
  <2> QED BY <2>1, <2>2
<1> QED BY <1>1, <1>2 DEF RemovalInv

LEMMA RemovalInvKept ==
    ASSUME Apart, ToolsInv, ToolsInv', RemovalInv, [Next]_vars
    PROVE  RemovalInv'
<1>0. /\ mc \in [Name -> [Model -> Kinds]] /\ mc' \in [Name -> [Model -> Kinds]]
      /\ tool \in [Client -> Tool]
      /\ Idle.op = "none"
  BY DEF ToolsInv, Idle
<1>1. CASE mc' = mc /\ tool' = tool
  BY <1>1 DEF RemovalInv, Kept
<1>2. CASE UNCHANGED vars \/ \E n \in Name : Others(n) \/ Informer(n)
  <2>1. mc' = mc /\ tool' = tool
    BY <1>2 DEF vars, Others, Informer, ModelConfigs
  <2> QED BY <1>1, <2>1
<1>3. CASE ProcessRestart
  <2>1. mc' = mc /\ tool' = [c \in Client |-> Idle]
    BY <1>3 DEF ProcessRestart, ModelConfigs
  <2> QED BY <1>0, <2>1 DEF RemovalInv, Kept
<1>4. ASSUME NEW c \in Client, NEW q, tool' = [tool EXCEPT ![c] = q], q.op \in {"none", "add"},
             mc' = mc
      PROVE  RemovalInv'
  BY <1>0, <1>4, FewerKept DEF Kept
<1>5. ASSUME NEW c \in Client, Add(c) PROVE RemovalInv'
  <2>1. \E q : tool' = [tool EXCEPT ![c] = q] /\ q.op \in {"none", "add"} /\ mc' = mc
    <3>1. CASE \E n \in Name, content \in Content : AddGet(c, n, content)
      <4>1. PICK n \in Name, content \in Content : AddGet(c, n, content)
        BY <3>1
      <4> DEFINE q == [Idle EXCEPT !.op = "add", !.name = n, !.content = content, !.rv = rv[n],
                                   !.pc = IF doc[n] = NoDoc THEN "create" ELSE "update"]
      <4>2. tool' = [tool EXCEPT ![c] = q] /\ mc' = mc
        BY <4>1 DEF AddGet, ModelConfigs
      <4>3. q.op = "add"
        BY DEF Idle
      <4> HIDE DEF q
      <4> QED BY <4>2, <4>3
    <3>2. CASE AddApply(c)
      <4>1. tool[c].op = "add" /\ mc' = mc
        BY <3>2 DEF AddApply, At, ModelConfigs
      <4>2. CASE tool' = [tool EXCEPT ![c] = Idle]
        BY <1>0, <4>1, <4>2
      <4>3. CASE tool' = [tool EXCEPT ![c].pc = "wait", ![c].rv = rv'[tool[c].name]]
        <5> DEFINE q == [tool[c] EXCEPT !.pc = "wait", !.rv = rv'[tool[c].name]]
        <5>1. tool' = [tool EXCEPT ![c] = q]
          BY <1>0, <4>3
        <5>2. q.op = "add"
          BY <1>0, <4>1 DEF Tool
        <5> HIDE DEF q
        <5> QED BY <4>1, <5>1, <5>2
      <4> QED BY <3>2, <4>2, <4>3 DEF AddApply, Finish
    <3>3. CASE AddWait(c)
      BY <1>0, <3>3 DEF AddWait, Finish, ModelConfigs
    <3> QED BY <1>5, <3>1, <3>2, <3>3 DEF Add
  <2> QED BY <1>4, <2>1
<1>6. ASSUME NEW c \in Client, Remove(c) PROVE RemovalInv'
  <2>0. /\ tool[c] \in Tool /\ tool[c].todo \subseteq Model
        /\ tool[c].op = "remove" => tool[c].name \in Name
        /\ Kept(tool[c], mc)
    BY <1>0 DEF ToolsInv, RemovalInv, Tool
  <2>1. ASSUME NEW q, tool' = [tool EXCEPT ![c] = q], mc' = mc, q.op = "remove", Kept(q, mc)
        PROVE  RemovalInv'
    BY <1>0, <2>1, FewerKept
  <2>2. ASSUME tool' = [tool EXCEPT ![c] = Idle], mc' = mc PROVE RemovalInv'
    BY <1>0, <1>4, <2>2
  <2>3. CASE \E n \in Name : RemoveGet(c, n)
    <3>1. PICK n \in Name : RemoveGet(c, n)
      BY <2>3
    <3> DEFINE q == [Idle EXCEPT !.op = "remove", !.pc = "plan", !.name = n]
    <3>2. tool' = [tool EXCEPT ![c] = q] /\ mc' = mc
      BY <3>1 DEF RemoveGet, ModelConfigs
    <3>3. q.op = "remove" /\ q.pc = "plan"
      BY DEF Idle
    <3> HIDE DEF q
    <3>4. Kept(q, mc)
      BY <3>3 DEF Kept
    <3> QED BY <2>1, <3>2, <3>3, <3>4
  <2>4. CASE RemovePlan(c) /\ tool' # [tool EXCEPT ![c] = Idle]
    <3> DEFINE q == [tool[c] EXCEPT !.pc = "list"]
    <3>1. /\ tool[c].op = "remove" /\ mc' = mc /\ tool' = [tool EXCEPT ![c] = q]
          /\ \A m \in Model : mc[tool[c].name][m] \notin {"unclaimed", "git"}
      BY <1>0, <2>4 DEF RemovePlan, ModelConfigs, At, Finish, Goto
    <3>2. q.op = "remove" /\ q.pc = "list" /\ q.name = tool[c].name
      BY <2>0, <3>1 DEF Tool
    <3> HIDE DEF q
    <3>3. \A m \in Model : mc[q.name][m] \in {"none", "here", "other"}
      BY <1>0, <2>0, <3>1, <3>2 DEF RemovalInv, Kinds
    <3>4. Kept(q, mc)
      BY <3>2, <3>3 DEF Kept
    <3> QED BY <2>1, <3>1, <3>2, <3>4
  <2>5. CASE RemoveList(c)
    <3> DEFINE listed == {m \in Model : mc[tool[c].name][m] \notin {"none", "old"}}
               q == [tool[c] EXCEPT !.pc = IF listed = {} THEN "delete" ELSE "each", !.todo = listed]
    <3>1. /\ tool[c].op = "remove" /\ tool[c].pc = "list" /\ mc' = mc /\ tool' = [tool EXCEPT ![c] = q]
      BY <1>0, <2>5 DEF RemoveList, ModelConfigs, At
    <3>2. /\ q.op = "remove" /\ q.name = tool[c].name /\ q.todo = listed
          /\ q.pc = IF listed = {} THEN "delete" ELSE "each"
      BY <2>0, <3>1 DEF Tool
    <3>3. \A m \in Model : /\ mc[q.name][m] \in {"none", "here", "other"}
                           /\ mc[q.name][m] = "here" => m \in listed
      BY <2>0, <3>1, <3>2 DEF Kept
    <3> HIDE DEF q
    <3>4. Kept(q, mc)
      BY <3>2, <3>3 DEF Kept
    <3> QED BY <2>1, <3>1, <3>2, <3>4
  <2>6. CASE RemoveEach(c)
    <3>. PICK n : n = tool[c].name
      OBVIOUS
    <3>1. PICK m \in tool[c].todo :
            /\ mc' = [mc EXCEPT ![n][m] = IF @ = "here" THEN "none" ELSE @]
            /\ tool' = [tool EXCEPT ![c] =
                  IF mc[n][m] = "git" THEN Idle
                  ELSE [tool[c] EXCEPT !.todo = @ \ {m},
                               !.pc = IF tool[c].todo = {m} THEN "delete" ELSE "each"]]
      BY <2>6 DEF RemoveEach
    <3>0. tool[c].op = "remove" /\ tool[c].pc = "each"
      BY <2>6 DEF RemoveEach, At
    <3>2. tool[c].op = "remove" /\ tool[c].pc = "each" /\ n \in Name /\ m \in Model
      BY <2>0, <3>0, <3>1
    <3>3. /\ mc'[n][m] = IF mc[n][m] = "here" THEN "none" ELSE mc[n][m]
          /\ \A k \in Name, l \in Model : k # n \/ l # m => mc'[k][l] = mc[k][l]
      BY <1>0, <3>1, <3>2
    <3>4. \A k \in Name, l \in Model : mc'[k][l] \in {mc[k][l], "none"}
      BY <3>3
    <3>5. \A l \in Model : /\ mc[n][l] \in {"none", "here", "other"}
                           /\ mc[n][l] = "here" => l \in tool[c].todo
      BY <2>0, <3>1, <3>2 DEF Kept
    <3> DEFINE q == [tool[c] EXCEPT !.todo = @ \ {m},
                                    !.pc = IF tool[c].todo = {m} THEN "delete" ELSE "each"]
    <3>6. tool' = [tool EXCEPT ![c] = q]
      BY <3>1, <3>2, <3>5
    <3>7. /\ q.op = "remove" /\ q.name = n /\ q.todo = tool[c].todo \ {m}
          /\ q.pc = IF tool[c].todo = {m} THEN "delete" ELSE "each"
      BY <2>0, <3>1, <3>2 DEF Tool
    <3> HIDE DEF q
    <3>8. \A l \in Model : /\ mc'[n][l] \in {"none", "here", "other"}
                           /\ mc'[n][l] = "here" => l \in tool[c].todo \ {m}
      BY <3>2, <3>3, <3>5
    <3>9. Kept(q, mc')
      BY <3>7, <3>8 DEF Kept
    <3> QED BY <1>0, <3>4, <3>6, <3>7, <3>9, FewerKept
  <2>7. CASE RemoveDelete(c) /\ tool' # [tool EXCEPT ![c] = Idle]
    <3> DEFINE q == [tool[c] EXCEPT !.pc = "wait"]
    <3>1. tool[c].op = "remove" /\ mc' = mc /\ tool' = [tool EXCEPT ![c] = q]
      BY <1>0, <2>7 DEF RemoveDelete, ModelConfigs, At, Finish, Goto
    <3>2. q.op = "remove" /\ q.pc = "wait"
      BY <2>0, <3>1 DEF Tool
    <3> HIDE DEF q
    <3>3. Kept(q, mc)
      BY <3>2 DEF Kept
    <3> QED BY <2>1, <3>1, <3>2, <3>3
  <2>8. CASE RemoveWait(c) \/ RemoveFails(c)
    BY <2>2, <2>8 DEF RemoveWait, RemoveFails, Finish, ModelConfigs
  <2>9. CASE (RemovePlan(c) \/ RemoveDelete(c)) /\ tool' = [tool EXCEPT ![c] = Idle]
    BY <2>2, <2>9 DEF RemovePlan, RemoveDelete, ModelConfigs
  <2> QED BY <1>6, <2>3, <2>4, <2>5, <2>6, <2>7, <2>8, <2>9 DEF Remove
<1>7. ASSUME NEW c \in Client, Wire(c) PROVE RemovalInv'
  <2>1. CASE \E n \in Name, m \in Model : WireStart(c, n, m)
    <3>1. PICK n \in Name, m \in Model : WireStart(c, n, m)
      BY <2>1
    <3> DEFINE q == [Idle EXCEPT !.op = "wire", !.pc = "ensure", !.name = n, !.todo = {m}]
    <3>2. tool' = [tool EXCEPT ![c] = q] /\ mc' = mc
      BY <3>1 DEF WireStart
    <3>3. MaxWires > 0
      <4>1. wires \in 0..MaxWires /\ wires < MaxWires
        BY <3>1 DEF WireStart, ToolsInv
      <4> QED BY <4>1, ToolsAssumption
    <3>4. q.op = "wire"
      BY DEF Idle
    <3> HIDE DEF q
    <3> QED BY <1>0, <3>2, <3>3, <3>4, FewerKept DEF Kept
  <2>2. CASE \E n \in Name, m \in Model : Unwire(c, n, m)
    <3>1. PICK n \in Name, m \in Model : Unwire(c, n, m)
      BY <2>2
    <3>2. tool' = tool /\ mc' = [mc EXCEPT ![n][m] = "none"] /\ tool[c] = Idle
      BY <3>1 DEF Unwire
    <3>3. \A k \in Name, l \in Model : mc'[k][l] \in {mc[k][l], "none"}
      BY <1>0, <3>2
    <3>4. tool' = [tool EXCEPT ![c] = Idle]
      BY <1>0, <3>2
    <3> QED BY <1>0, <3>3, <3>4, FewerKept DEF Kept
  <2>3. CASE WireEnsure(c)
    <3>1. tool[c].op = "wire" /\ tool' = [tool EXCEPT ![c] = Idle]
      BY <2>3 DEF WireEnsure, At, Finish
    <3>2. \A d \in Client : d = c
      BY <3>1, ToolsAssumption DEF RemovalInv, Apart
    <3>3. \A d \in Client : tool'[d] = Idle
      BY <1>0, <3>1, <3>2
    <3>4. \A n \in Name, m \in Model : mc'[n][m] # "old"
      <4>1. PICK n \in Name : mc' = [mc EXCEPT ![n] = [m \in Model |->
                IF m \notin tool[c].todo THEN mc[n][m]
                ELSE CASE mc[n][m] = "none" -> "here" [] mc[n][m] = "old" -> "unclaimed"
                       [] OTHER -> mc[n][m]]]
        <5>1. tool[c].name \in Name
          BY <3>1 DEF ToolsInv
        <5> QED BY <2>3, <5>1 DEF WireEnsure
      <4>2. \A k \in Name, l \in Model : mc'[k][l] \in {mc[k][l], "here", "unclaimed"}
        BY <1>0, <4>1
      <4> QED BY <4>2 DEF RemovalInv
    <3> QED BY <1>0, <3>3, <3>4 DEF RemovalInv, Kept
  <2> QED BY <1>7, <2>1, <2>2, <2>3 DEF Wire
<1> QED BY <1>2, <1>3, <1>5, <1>6, <1>7 DEF Next

(* A document goes only when no ModelConfig of this instance, of nobody or of
   Flux is left on its backend, for any number of models, other writers of
   documents, restarts and requests that fail (PlanBackendRemoval,
   UnwireBackend, Store.Remove), where no wire_model runs beside the removal
   and every ModelConfig has the label of its backend. *)
THEOREM RemovalsLeaveNothing ==
    ASSUME Apart, "old" \notin Wired
    PROVE  Spec => RemovalLeavesNothing
<1>1. Init => RemovalInv
  <2> SUFFICES ASSUME Init PROVE RemovalInv
    OBVIOUS
  <2>1. mc \in [Name -> [Model -> Wired \cup {"none"}]] /\ tool = [c \in Client |-> Idle]
    BY DEF Init
  <2> QED BY <2>1 DEF RemovalInv, Kept, Idle
<1>2. ToolsInv /\ ToolsInv' /\ RemovalInv /\ [Next]_vars => RemovalInv'
  BY RemovalInvKept
<1>3. ToolsInv /\ RemovalInv =>
        [\A c \in Client :
           LET n == tool[c].name IN
           At(c, "remove", "delete") /\ tool'[c].pc = "wait" =>
               \A m \in Model : mc[n][m] \in {"none", "other"}]_vars
  BY DEF RemovalInv, Kept, At
<1> QED BY <1>1, <1>2, <1>3, ToolsCorrect, PTL DEF Spec, RemovalLeavesNothing
=============================================================================
