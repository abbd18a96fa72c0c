------------------------------ MODULE MCCommit ------------------------------
(***************************************************************************)
(* Instances of GitopsCommit: two Kustomizations in two repositories.      *)
(***************************************************************************)
EXTENDS GitopsCommit, TLC

CONSTANTS k1, k2, r1, r2

Kust(cluster, prune, repo) ==
    [there |-> TRUE, cluster |-> cluster, moves |-> {}, source |-> TRUE, seals |-> TRUE,
     prune |-> prune, repo |-> repo]
Labels(serving, config) == [o \in Object |-> IF o = "serving" THEN serving ELSE config]
NoRelease == [there |-> FALSE, cluster |-> "own", by |-> None]

World(at, ka, kb, hr, ns) ==
    [at |-> at, ks |-> (k1 :> ka @@ k2 :> kb), hr |-> hr, ns |-> ns, reach |-> Repo]

(* The model is served on the own cluster: one part, in the directory of
   the serving namespace. *)
Own(prune) ==
    World("own", Kust("own", prune, r1), Kust("own", FALSE, r2), NoRelease, Labels(k1, k2))

(* On a remote cluster: two parts, in one or two repositories. *)
Remote(prune, repo) ==
    World("remote", Kust("remote", prune, r1), Kust("own", FALSE, repo), NoRelease, Labels(k1, k2))

(* The namespace was made by a release, applied through k1, or through the
   same kubeconfig Secret as k1's. *)
Released(w) == [w EXCEPT !.ns["serving"] = "release",
                         !.hr = [there |-> TRUE, cluster |-> w.at, by |-> k1]]

Odd ==
    LET own == Own(TRUE)
        remote == Remote(TRUE, r2)
    IN  {[own EXCEPT !.ks[k1].moves = {"config"}], [own EXCEPT !.ks[k1].source = FALSE],
         [own EXCEPT !.ks[k1].seals = FALSE], [own EXCEPT !.reach = {r2}],
         [remote EXCEPT !.reach = {r1}], [remote EXCEPT !.ks[k1].cluster = "own"],
         [Released(remote) EXCEPT !.ks[k2].cluster = "remote", !.ns["config"] = None],
         [Released(own) EXCEPT !.hr.there = FALSE], [own EXCEPT !.ns["serving"] = None]}

Usual ==
    {Own(TRUE), Remote(TRUE, r1), Remote(TRUE, r2), Released(Own(FALSE)),
     Released(Remote(FALSE, r2))}

(* MaxWrites writes in the usual worlds, one in the odd ones. *)
Nothing == [k \in Kustomization |-> {}]
MCInit == \/ \E w \in Usual : CommitInitFor(w, Nothing, 0)
          \/ \E w \in Odd : CommitInitFor(w, Nothing, MaxWrites - 1)
MCSpec == MCInit /\ [][CommitNext]_commitVars

(* A person has written the ModelConfig in another file that k1 builds. *)
WrittenInit == CommitInitFor(Own(TRUE), [Nothing EXCEPT ![k1] = {"config"}], 0)
WrittenSpec == WrittenInit /\ [][CommitNext]_commitVars
=============================================================================
