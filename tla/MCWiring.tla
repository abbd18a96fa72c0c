------------------------------ MODULE MCWiring ------------------------------
(* Small instances of Wiring: names as short strings, one or two instances,
   backends and models, and namespaces to start from. *)
EXTENDS Wiring, TLC

(* The derived names of the models, and the name a backend may choose. *)
Plain == "m"
Chosen == "s"
SuffixOf == [p \in Name \X Backend |->
                IF p[1] = Plain /\ p[2] = "b2" THEN "m-b2" ELSE p[1]]
OneName == [m \in Model |-> Plain]

Object(managed, i, b, m, flux, key) ==
    [managed |-> managed, creator |-> i, backend |-> b, model |-> m,
     flux |-> flux, key |-> key, rv |-> 0]

Nothing == [n \in Name |-> NoConfig]
With(n, o) == [Nothing EXCEPT ![n] = o]

NoLegacy == Nothing

Empty == {Nothing}

(* What may bear the derived name: nothing, or a ModelConfig of somebody
   else, of this instance, unclaimed, or applied by Flux. *)
Occupied ==
    {Nothing} \cup
    {With(Plain, Object(mg, i, "b1", "q", f, k)) :
        mg \in BOOLEAN, i \in Instance \cup {NoInstance}, f \in BOOLEAN, k \in BOOLEAN}

(* An older managed ModelConfig at the derived name: of a backend, or from
   before the backend label. *)
Older(labels) ==
    {Nothing} \cup
    {With(Plain, Object(TRUE, i, b, "q", FALSE, k)) :
        i \in Instance \cup {NoInstance}, b \in labels, k \in BOOLEAN}
Unlabelled == Older({NoBackend})
Namespaces == Occupied \cup Unlabelled

(* How many calls of the last part overlap. *)
CONSTANT Concurrent

(* What one behaviour is about: two instances with people, Flux and Agents
   beside them ("writes"), the overlapping and failing calls of one instance
   ("scope"), or calls over two backends, one after the other when Concurrent
   is 1 ("serial"). *)
VARIABLE part

mcVars == <<part, vars>>

Seeded == [writes |-> Older({"b1"}), scope |-> Occupied, serial |-> Older({"b1"}) \cup Unlabelled]

MCInit ==
    /\ Init
    /\ part \in DOMAIN Seeded /\ mc \in Seeded[part]

Busy == {c \in Call : call[c] # Idle}
Involved ==
    {call[c].inst : c \in Busy} \cup {mc[n].creator : n \in {x \in Name : mc[x] # NoConfig}}

(* No write starts past the second one in the first two parts. *)
Writable == part = "serial" \/ rv < 2

OneBackend == \A c \in Busy : call[c].b = "b1"
OnlyPlain == \A n \in Name \ {Plain} : mc[n] = NoConfig

Room ==
    CASE part = "writes" -> OneBackend /\ OnlyPlain /\ \A c \in Busy : call[c].ep = [name |-> NoName, key |-> FALSE]
      [] part = "scope" -> OneBackend /\ Cardinality(Involved \cap Instance) <= 1
      [] part = "serial" -> Cardinality(Busy) <= Concurrent

Begun == \E c \in Call : call[c] = Idle /\ call'[c] # Idle /\ call'[c].op = "ensure"

Within(A) == UNCHANGED part /\ A /\ Room'

MCNext ==
    \/ part = "writes" /\ Within(Others /\ (rv' = rv \/ Writable))
    \/ \E c \in Call :
        \/ part = "scope" /\ Within(Fail(c))
        \/ Within(Ensure(c) /\ (Begun => Writable))
        \/ Within(Remove(c)) \/ Within(RemoveObj(c))

MCSpec == MCInit /\ [][MCNext]_mcVars

(* Nothing is deleted out of scope (InScope) by the overlapping calls of one
   instance: whoever else writes may change an object between the read that
   decides and the delete by name (OnlyCreatorDeletes). *)
DeletesInScope == [][part = "scope" => InScope]_mcVars

(* Called one after the other, however names are chosen, taken and given up:
   one ModelConfig per (backend, model), and a placeholder Secret exactly
   where one is read. *)
OneConfigWithItsSecret == part = "serial" => OneConfigPerModel /\ SecretFollowsConfig

InstanceSymmetry == Permutations(Instance) \cup Permutations(Call)
=============================================================================
