---------------------------- MODULE MCRepositories ----------------------------
(***************************************************************************)
(* Names of up to three characters, and one repository whose content is    *)
(* varied: every project that the detectors recognise, and each with one   *)
(* thing about it changed.                                                 *)
(***************************************************************************)
EXTENDS Repositories, TLC

Chars   == {"a", "-", "_"}
MCNames == UNION {[1..k -> Chars] : k \in 1..3}
MCSite  == <<"a", "a">>

Bare == [manifest |-> "absent", script |-> "other", vite |-> FALSE, config |-> "absent",
         foreign |-> FALSE, typed |-> FALSE, express |-> FALSE, entry |-> FALSE,
         npm |-> TRUE, lock |-> "absent", migrates |-> FALSE]
Vite == [Bare EXCEPT !.manifest = "ok", !.script = "full", !.vite = TRUE,
                     !.config = "ok", !.entry = TRUE, !.lock = "ok"]
Node == [Bare EXCEPT !.manifest = "ok", !.express = TRUE, !.entry = TRUE, !.lock = "ok"]

Around(k) == {j \in Package : Cardinality({f \in DOMAIN k : j[f] # k[f]}) <= 1}
NearVite  == Around(Vite)
NearNode  == Around(Node)

Layout(docker, root, front, back, f, b) ==
    [dockerfile |-> docker, root |-> root,
     dirs |-> [d \in Services |-> IF d = "frontend" THEN front ELSE back],
     pkg  |-> [d \in Services |-> IF d = "frontend" THEN f ELSE b]]

SingleRepos == {Layout(docker, root, "absent", "absent", Bare, Bare) :
                    docker \in File, root \in {Bare} \cup NearVite \cup NearNode}
PairRepos   == {Layout("absent", Bare, "ok", "ok", f, Node) : f \in NearVite}
          \cup {Layout("absent", Bare, "ok", "ok", Vite, b) : b \in NearNode}
          \cup {Layout(docker, root, front, back, Vite, Node) :
                    docker \in File, root \in {Bare, Vite, Node},
                    front \in File, back \in File}

Varied     == <<"a">>
Plain      == Layout("ok", Bare, "absent", "absent", Bare, Bare)
MCContents == [n \in MCNames |->
                 IF n = Varied THEN SingleRepos \cup PairRepos ELSE {Plain}]
=============================================================================
