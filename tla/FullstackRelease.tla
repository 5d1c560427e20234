--------------------------- MODULE FullstackRelease ---------------------------
(***************************************************************************)
(* The releases of one full-stack project: a frontend and a backend, each  *)
(* an image and a container, on a Docker network of the release.  deploy,  *)
(* redeploy, rollback, restart and delete build, start, check, switch and  *)
(* remove the pair piece by piece, and any piece may fail.                 *)
(*                                                                         *)
(* deployMu is mu; restart and delete do not take it.  Ports, environment  *)
(* files, managed databases and the steps inside a synchronization of the  *)
(* proxy are in ReleaseLifecycle and DatabaseLifecycle.                    *)
(***************************************************************************)
EXTENDS Integers, FiniteSets

CONSTANTS
    Procs,        \* concurrent requests
    Main,         \* the goroutine of main(): the synchronization at startup
    None,         \* no record, no route
    MaxPrevious,  \* JSONHistoryStore.maxPrevious
    MaxReleases,  \* bound on the release stamps handed out
    MaxFaults,    \* bound on the failing commands and file operations
    MaxCrashes    \* bound on the crashes of the service

ASSUME ConstantsAssumption ==
    /\ Main \notin Procs /\ None \notin Procs
    /\ MaxPrevious \in Nat /\ MaxReleases \in Nat
    /\ MaxFaults \in Nat /\ MaxCrashes \in Nat

VARIABLES
    store,       \* the project's record in deployments.json, or None
    history,     \* its retained versions
    containers,  \* Docker containers that exist, running or not
    networks,    \* the releases whose Docker network exists
    images,      \* Docker images that exist
    route,       \* the record Caddy serves, or None
    mu,          \* deployMu: the process that holds it, or None
    pc,          \* next step of each process
    req,         \* local variables of each process
    clock,       \* the latest release stamp
    faults, crashes

docker == <<containers, networks, images>>
bounds == <<faults, crashes>>
vars   == <<store, history, docker, route, mu, pc, req, clock, bounds>>

(***************************************************************************)
(* rel is the release stamp in the names of the network and of the two     *)
(* containers, img the one in the tags of the two images: they differ      *)
(* after a rollback.  at orders the history, as in ReleaseLifecycle.       *)
(***************************************************************************)
Frontend == "frontend"
Backend  == "backend"
Services == {Frontend, Backend}

Record    == [rel : Nat, img : Nat]
Version   == [img : Nat, at : Nat]
Container == [rel : Nat, img : Nat, svc : Services, up : BOOLEAN]
Image     == [img : Nat, svc : Services]

\* No record is not a record.
ASSUME NoneAssumption == None \notin Record

Kinds   == {"deploy", "redeploy", "rollback", "restart", "delete"}
Threads == Procs \cup {Main}

Releasing == {"lock", "build_frontend", "build_backend", "network", "start_backend",
              "start_frontend", "verify", "save", "restore", "record"}
Cleaning  == {"rm_frontend", "rm_backend", "rm_network", "rm_images"}
Deleting  == {"list", "rm_versions", "clear", "rm_record"}
Steps     == {"idle", "sync", "restart_backend", "restart_frontend"}
                 \cup Releasing \cup Cleaning \cup Deleting

NoRequest == [kind |-> "none", old |-> None, cand |-> None, seen |-> {},
              target |-> None, failed |-> FALSE, restoring |-> FALSE]

Request == [kind : Kinds \cup {"none", "boot"}, old : Record \cup {None},
            cand : Record \cup {None}, seen : SUBSET Version,
            target : Record \cup {None}, failed : BOOLEAN, restoring : BOOLEAN]

Pair(r)      == [rel : {r.rel}, img : {r.img}, svc : Services, up : {TRUE}]
ImagePair(i) == [img : {i}, svc : Services]

\* The service starts with the project live, or with nothing.
Init ==
    /\ store \in {None, [rel |-> 0, img |-> 0]}
    /\ history = {}
    /\ containers = IF store = None THEN {} ELSE Pair(store)
    /\ networks = {c.rel : c \in containers}
    /\ images = IF store = None THEN {} ELSE ImagePair(0)
    /\ route = store
    /\ mu = None
    /\ pc = [t \in Threads |-> IF t = Main THEN "sync" ELSE "idle"]
    /\ req = [t \in Threads |-> IF t = Main THEN [NoRequest EXCEPT !.kind = "boot"]
                                            ELSE NoRequest]
    /\ clock = 0 /\ faults = 0 /\ crashes = 0

-----------------------------------------------------------------------------
(***************************************************************************)
(* Shared pieces.                                                          *)
(***************************************************************************)
Fault   == faults < MaxFaults /\ faults' = faults + 1 /\ UNCHANGED crashes
NoFault == UNCHANGED bounds

Goto(t, s)   == pc' = [pc EXCEPT ![t] = s]
Go(t, s)     == Goto(t, s) /\ UNCHANGED <<req, mu>>
Become(t, s, r) == Goto(t, s) /\ req' = [req EXCEPT ![t] = r] /\ UNCHANGED mu

\* The handler returns; its deferred Unlock runs.
Finish(t) ==
    /\ Goto(t, "idle")
    /\ req' = [req EXCEPT ![t] = NoRequest]
    /\ mu' = IF mu = t THEN None ELSE mu

Of(rel, svc)  == {c \in containers : c.rel = rel /\ c.svc = svc}
InUse(i)      == \E c \in containers : c.img = i.img /\ c.svc = i.svc

\* docker image rm refuses an image that a container, running or not, was
\* created from.
Removable(S)  == {i \in S \cap images : ~InUse(i)}

Newest(V)     == CHOOSE v \in V : \A w \in V : w.at <= v.at
Newer(V, v)   == {w \in V : w.at > v.at}
Retained(V)   == {v \in V : Cardinality(Newer(V, v)) < MaxPrevious}

\* cleanupFullstackRelease of r.
Clean(p, r) == Become(p, "rm_frontend", [req[p] EXCEPT !.target = r, !.failed = FALSE])

\* Mutant: a failed rollback removes the images of its candidate.
CandidateImages(p) == req[p].kind # "delete" /\ req[p].target = req[p].cand

\* The images of a candidate are its own, except after a rollback.
OwnImages(p) == req[p].kind \in {"deploy", "redeploy"} /\ req[p].target = req[p].cand

-----------------------------------------------------------------------------
(***************************************************************************)
(* Requests arrive; the record is read before any lock.                    *)
(***************************************************************************)
Begin(p, kind, first) ==
    /\ pc[Main] = "idle" /\ pc[p] = "idle"
    /\ (store = None) = (kind = "deploy")
    /\ Become(p, first, [NoRequest EXCEPT !.kind = kind, !.old = store])
    /\ UNCHANGED <<store, history, docker, route, clock, bounds>>

deployHandler(p)              == Begin(p, "deploy", "lock")
redeployHandler(p)            == Begin(p, "redeploy", "lock")
rollbackDeploymentHandler(p)  == Begin(p, "rollback", "lock")
restartDeploymentHandler(p)   == Begin(p, "restart", "restart_backend")
deleteDeploymentHandler(p)    == Begin(p, "delete", "list")

-----------------------------------------------------------------------------
(***************************************************************************)
(* A release: both images, the network, both containers, both checks.      *)
(***************************************************************************)
\* Under the lock: the environment, the checkout, its commit and the plan are
\* looked at, and a failure ends the request before anything is built.
Refused(p) ==
    /\ pc[p] = "lock" /\ mu = None
    /\ Finish(p)
    /\ UNCHANGED <<store, history, docker, route, clock, bounds>>

Accepted(p, img, first) ==
    /\ pc[p] = "lock" /\ mu = None /\ clock < MaxReleases
    /\ mu' = p /\ clock' = clock + 1
    /\ req' = [req EXCEPT ![p].seen = history, ![p].cand = [rel |-> clock', img |-> img]]
    /\ Goto(p, first)
    /\ UNCHANGED <<store, history, docker, route, bounds>>

LockBuild(p) ==
    req[p].kind \in {"deploy", "redeploy"} /\ Accepted(p, clock + 1, "build_frontend")

\* rollbackFullstackLocked needs a version both images of which exist.
LockRollback(p) ==
    /\ req[p].kind = "rollback"
    /\ history # {} /\ ImagePair(Newest(history).img) \subseteq images
    /\ Accepted(p, Newest(history).img, "network")

\* A failed build removes the images built so far; the error is ignored.  The
\* image may be built and its identity not be read.
Build(p, svc, step, next) == LET i == [img |-> req[p].cand.img, svc |-> svc] IN
    /\ pc[p] = step
    /\ \/ images' = images \cup {i} /\ Go(p, next) /\ NoFault
       \/ images' = images \ ImagePair(i.img) /\ Finish(p) /\ NoFault
       \/ \E j \in (images \cup {i}) \cap ImagePair(i.img) :
            images' = (images \ ImagePair(i.img)) \cup {j} /\ Finish(p) /\ Fault
    /\ UNCHANGED <<store, history, containers, networks, route, clock>>

BuildFrontend(p) == Build(p, Frontend, "build_frontend", "build_backend")
BuildBackend(p)  == Build(p, Backend, "build_backend", "network")

\* resolveDatabaseRuntime and the migration may fail, before the network.
CreateNetwork(p) ==
    /\ pc[p] = "network"
    /\ \/ networks' = networks \cup {req[p].cand.rel} /\ Go(p, "start_backend")
       \/ Clean(p, req[p].cand) /\ UNCHANGED networks
    /\ UNCHANGED <<store, history, containers, images, route, clock, bounds>>

\* No port, or docker run fails, which may leave a stopped container.
Start(p, svc, step, next) ==
    LET c == [rel |-> req[p].cand.rel, img |-> req[p].cand.img, svc |-> svc, up |-> TRUE] IN
    /\ pc[p] = step
    /\ \/ containers' = containers \cup {c} /\ Go(p, next)
       \/ /\ containers' \in {containers, containers \cup {[c EXCEPT !.up = FALSE]}}
          /\ Clean(p, req[p].cand)
    /\ UNCHANGED <<store, history, networks, images, route, clock, bounds>>

StartBackend(p)  == Start(p, Backend, "start_backend", "start_frontend")
StartFrontend(p) == Start(p, Frontend, "start_frontend", "verify")

Verify(p) ==
    /\ pc[p] = "verify"
    /\ Go(p, "save") \/ Clean(p, req[p].cand)
    /\ UNCHANGED <<store, history, docker, route, clock, bounds>>

\* Commit of the environment and store.Save; what Commit wrote is put back.
Save(p) ==
    /\ pc[p] = "save"
    /\ \/ store' = req[p].cand /\ Go(p, "sync") /\ NoFault
       \/ Fault /\ Clean(p, req[p].cand) /\ UNCHANGED store
    /\ UNCHANGED <<history, docker, route, clock>>

\* Mutant: the old pair is retired although Caddy still serves it.
RetireAnyway(t, ok) ==
    IF req[t].kind \in {"boot", "delete"} THEN Finish(t)
    ELSE IF req[t].restoring THEN Clean(t, req[t].cand)
    ELSE IF req[t].kind # "deploy" THEN Go(t, "record")
    ELSE IF ok THEN Finish(t) ELSE Go(t, "restore")

\* Mutant: a first deployment records and retires what it replaced.
FirstRetires(t, ok) ==
    IF req[t].kind \in {"boot", "delete"} THEN Finish(t)
    ELSE IF req[t].restoring THEN Clean(t, req[t].cand)
    ELSE Go(t, IF ok THEN "record" ELSE "restore")

AfterSync(t, ok) ==
    IF req[t].kind \in {"boot", "delete"} THEN Finish(t)
    ELSE IF req[t].restoring THEN Clean(t, req[t].cand)
    ELSE IF ~ok THEN Go(t, "restore")
    ELSE IF req[t].kind = "deploy" THEN Finish(t) ELSE Go(t, "record")

Sync(t) ==
    /\ pc[t] = "sync"
    /\ \/ route' = store /\ NoFault /\ AfterSync(t, TRUE)
       \/ Fault /\ UNCHANGED route /\ AfterSync(t, FALSE)
    /\ UNCHANGED <<store, history, docker, clock>>

\* The switch failed: the old record is saved, or that of a first deployment
\* deleted, and the proxy synchronized again if that worked.
Restore(p) ==
    /\ pc[p] = "restore"
    /\ \/ /\ req[p].kind = "deploy" => store # None
          /\ store' = req[p].old /\ NoFault
          /\ Become(p, "sync", [req[p] EXCEPT !.restoring = TRUE])
       \/ /\ \/ req[p].kind = "deploy" /\ store = None /\ NoFault
             \/ Fault
          /\ Clean(p, req[p].cand) /\ UNCHANGED store
    /\ UNCHANGED <<history, docker, route, clock>>

\* Push drops an older entry of the same frontend image; Set puts the current
\* version in place of the newest.  Both images of a version that falls off the
\* end are removed, the candidate's kept.
Extended(p) ==
    {[img |-> req[p].old.img, at |-> req[p].cand.rel]} \cup
    IF req[p].kind = "rollback"
    THEN req[p].seen \ {Newest(req[p].seen)}
    ELSE {v \in history : v.img # req[p].old.img}

Images(V) == UNION {ImagePair(v.img) : v \in V}

RecordHistory(p) ==
    LET kept == Retained(Extended(p))
        gone == Removable(Images(Extended(p) \ kept) \ ImagePair(req[p].cand.img)) IN
    /\ pc[p] = "record"
    /\ \/ history' = kept /\ images' = images \ gone /\ NoFault
       \/ \E i \in gone : history' = kept /\ images' = images \ (gone \ {i}) /\ Fault
       \/ UNCHANGED <<history, images>> /\ Fault
    /\ Clean(p, req[p].old)
    /\ UNCHANGED <<store, containers, networks, route, clock>>

-----------------------------------------------------------------------------
(***************************************************************************)
(* cleanupFullstackRelease: both containers, the network, both images if   *)
(* asked to.  It goes on after an error and joins the errors, which only a *)
(* deletion looks at.                                                      *)
(***************************************************************************)
Failing(p, next) == Become(p, next, [req[p] EXCEPT !.failed = TRUE])

RemoveContainer(p, svc, step, next) ==
    /\ pc[p] = step
    /\ \/ containers' = containers \ Of(req[p].target.rel, svc) /\ Go(p, next) /\ NoFault
       \/ Fault /\ UNCHANGED containers /\ Failing(p, next)
    /\ UNCHANGED <<store, history, networks, images, route, clock>>

\* Mutant: the cleanup stops at the first error.
StopAtError(p) ==
    /\ pc[p] = "rm_backend"
    /\ IF req[p].failed THEN UNCHANGED containers /\ Finish(p)
       ELSE /\ containers' = containers \ Of(req[p].target.rel, Backend)
            /\ Go(p, "rm_network")
    /\ NoFault
    /\ UNCHANGED <<store, history, networks, images, route, clock>>

RemoveFrontend(p) == RemoveContainer(p, Frontend, "rm_frontend", "rm_backend")
RemoveBackend(p)  == RemoveContainer(p, Backend, "rm_backend", "rm_network")

\* Mutant: a deletion goes on whatever the cleanup could not remove.
CleanedAnyway(p, ok) ==
    IF OwnImages(p) THEN Go(p, "rm_images")
    ELSE IF req[p].kind = "delete" THEN Go(p, "rm_versions") ELSE Finish(p)

AfterNetwork(p, ok) ==
    IF OwnImages(p) THEN Go(p, "rm_images")
    ELSE IF req[p].kind = "delete" /\ ok /\ ~req[p].failed
         THEN Go(p, "rm_versions")
         ELSE Finish(p)

\* docker network rm refuses a network with running containers on it.
RemoveNetwork(p) == LET rel == req[p].target.rel
                        busy == \E c \in containers : c.rel = rel /\ c.up IN
    /\ pc[p] = "rm_network"
    /\ \/ ~busy /\ networks' = networks \ {rel} /\ NoFault /\ AfterNetwork(p, TRUE)
       \/ busy /\ rel \in networks /\ NoFault /\ UNCHANGED networks /\ AfterNetwork(p, FALSE)
       \/ Fault /\ UNCHANGED networks /\ AfterNetwork(p, FALSE)
    /\ UNCHANGED <<store, history, containers, images, route, clock>>

\* docker image rm of both images of the target; also the active images of a
\* deletion, whose errors are logged.
RemoveImages(p) == LET gone == Removable(ImagePair(req[p].target.img)) IN
    /\ pc[p] = "rm_images"
    /\ \/ images' = images \ gone /\ NoFault
       \/ \E i \in gone : images' = images \ (gone \ {i}) /\ Fault
    /\ IF req[p].kind = "delete" THEN Go(p, "rm_record") ELSE Finish(p)
    /\ UNCHANGED <<store, history, containers, networks, route, clock>>

-----------------------------------------------------------------------------
(***************************************************************************)
(* deleteFullstackProject, and the restart of the pair.                    *)
(***************************************************************************)
ListVersions(p) ==
    /\ pc[p] = "list"
    /\ \/ /\ NoFault
          /\ Become(p, "rm_frontend", [req[p] EXCEPT !.seen = history, !.target = req[p].old])
       \/ Fault /\ Finish(p)
    /\ UNCHANGED <<store, history, docker, route, clock>>

\* The source directory, a failure of which ends the deletion, then the images of
\* the history that are not active, a failure of which is logged.
RemoveVersions(p) ==
    LET gone == Removable(Images(req[p].seen) \ ImagePair(req[p].old.img)) IN
    /\ pc[p] = "rm_versions"
    /\ \/ images' = images \ gone /\ Go(p, "clear") /\ NoFault
       \/ \E i \in gone : images' = images \ (gone \ {i}) /\ Go(p, "clear") /\ Fault
       \/ Fault /\ Finish(p) /\ UNCHANGED images
    /\ UNCHANGED <<store, history, containers, networks, route, clock>>

ClearHistory(p) ==
    /\ pc[p] = "clear"
    /\ \/ history' = {} /\ NoFault
       \/ Fault /\ UNCHANGED history
    /\ Go(p, "rm_images")
    /\ UNCHANGED <<store, docker, route, clock>>

\* The attachment, the environment file and the record; each failure ends it.
DeleteRecord(p) ==
    /\ pc[p] = "rm_record"
    /\ \/ store # None /\ store' = None /\ Go(p, "sync") /\ NoFault
       \/ store = None /\ Finish(p) /\ NoFault /\ UNCHANGED store
       \/ Fault /\ Finish(p) /\ UNCHANGED store
    /\ UNCHANGED <<history, docker, route, clock>>

\* restartDeploymentContainers looks at both containers, then restarts the
\* backend and the frontend; one that does not come up ends the request.
Restart(p, svc, step, done) ==
    LET c == Of(req[p].old.rel, svc) IN
    /\ pc[p] = step
    /\ IF \A s \in Services : Of(req[p].old.rel, s) # {}
       THEN \/ containers' = (containers \ c) \cup {[d EXCEPT !.up = TRUE] : d \in c} /\ done /\ NoFault
            \/ containers' = (containers \ c) \cup {[d EXCEPT !.up = FALSE] : d \in c} /\ Finish(p) /\ Fault
       ELSE Finish(p) /\ NoFault /\ UNCHANGED containers
    /\ UNCHANGED <<store, history, networks, images, route, clock>>

RestartBackend(p)  == Restart(p, Backend, "restart_backend", Go(p, "restart_frontend"))
RestartFrontend(p) == Restart(p, Frontend, "restart_frontend", Finish(p))

-----------------------------------------------------------------------------
\* The service dies and is started again; Docker, Caddy and the files stay.
Crash ==
    /\ crashes < MaxCrashes
    /\ crashes' = crashes + 1
    /\ mu' = None
    /\ pc' = [t \in Threads |-> IF t = Main THEN "sync" ELSE "idle"]
    /\ req' = [t \in Threads |-> IF t = Main THEN [NoRequest EXCEPT !.kind = "boot"]
                                             ELSE NoRequest]
    /\ UNCHANGED <<store, history, docker, route, clock, faults>>

Arrival(p) ==
    \/ deployHandler(p) \/ redeployHandler(p) \/ rollbackDeploymentHandler(p)
    \/ restartDeploymentHandler(p) \/ deleteDeploymentHandler(p)

Release(p) ==
    \/ Refused(p) \/ LockBuild(p) \/ LockRollback(p) \/ BuildFrontend(p) \/ BuildBackend(p)
    \/ CreateNetwork(p) \/ StartBackend(p) \/ StartFrontend(p) \/ Verify(p)
    \/ Save(p) \/ Restore(p) \/ RecordHistory(p)

Cleanup(p) ==
    RemoveFrontend(p) \/ RemoveBackend(p) \/ RemoveNetwork(p) \/ RemoveImages(p)

Other(p) ==
    \/ ListVersions(p) \/ RemoveVersions(p) \/ ClearHistory(p) \/ DeleteRecord(p)
    \/ RestartBackend(p) \/ RestartFrontend(p)

Next ==
    \/ \E p \in Procs : Arrival(p) \/ Release(p) \/ Cleanup(p) \/ Other(p)
    \/ \E t \in Threads : Sync(t)
    \/ Crash

Spec == Init /\ [][Next]_vars

-----------------------------------------------------------------------------
(***************************************************************************)
(* Properties.                                                             *)
(***************************************************************************)
\* Every variable has its type, a request at a step has the record and the
\* candidate that the step works with, and cleans up one of the two.
RequestOK(p) ==
    /\ pc[p] \in Releasing \ {"lock"} => req[p].cand \in Record
    /\ pc[p] \in Deleting \cup {"restart_backend", "restart_frontend", "record"}
           => req[p].old \in Record
    /\ pc[p] \in Cleaning => req[p].target \in {req[p].old, req[p].cand} \cap Record

TypeOK ==
    /\ store \in Record \cup {None} /\ route \in Record \cup {None}
    /\ history \subseteq Version
    /\ containers \subseteq Container /\ networks \subseteq Nat /\ images \subseteq Image
    /\ mu \in Procs \cup {None}
    /\ pc \in [Threads -> Steps]
    /\ req \in [Threads -> Request]
    /\ clock \in Nat /\ faults \in Nat /\ crashes \in Nat
    /\ \A p \in Procs : RequestOK(p)
    /\ pc[Main] \in {"idle", "sync"}

AllIdle == \A t \in Threads : pc[t] = "idle"

\* "A failure in either service removes only candidate resources" (architecture.md:337):
\* unless both the switch and its undoing failed, a release takes away no container
\* and no network of a pair that Caddy serves or the record names.
Needed == {r.rel : r \in {store, route} \ {None}}

OnlyUnused == [][\A p \in Procs :
    req[p].kind # "delete" /\ faults' <= 1 =>
        /\ \A c \in containers \ containers' : c.up => c.rel \notin Needed
              \/ \E d \in containers' : d.rel = c.rel /\ d.svc = c.svc
        /\ (networks \ networks') \cap Needed = {}]_vars

\* No release, and no clean-up after a failed one, removes an image of a version
\* that the history offers for a rollback, or of the recorded release, unless both
\* the switch and its undoing failed (rollback.go:428, fullstack_lifecycle.go:612).
ImagesKept == [][\A p \in Procs :
    pc[p] # "idle" /\ req[p].kind # "delete" /\ faults' <= 1 =>
        \A i \in images \ images' :
            /\ i.img \notin {v.img : v \in history'}
            /\ store # None => i.img # store.img]_vars

\* A failure or a crash leaves behind at most one release, however far the pair
\* had been built, started or removed, and a failure at most one container: the
\* removal goes on after an error.
StrayReleases == ({c.rel : c \in containers} \cup networks)
                     \ (IF store = None THEN {} ELSE {store.rel})
StrayImages   == {i.img : i \in {j \in images : ~InUse(j)}}
                     \ ({v.img : v \in history} \cup
                         (IF store = None THEN {} ELSE {store.img}) \cup StrayReleases)

StraysBounded == AllIdle =>
    /\ Cardinality(StrayReleases) + Cardinality(StrayImages) <= faults + crashes
    /\ crashes = 0 => Cardinality({c \in containers : c.rel \in StrayReleases}) <= faults

\* A record is deleted only when no container and no network of its release is
\* left, so that whatever fails a deletion can be asked for again; and when
\* nothing ever failed, nothing at all is left (fullstack_delete.go:42).
DeletionComplete == [][\A p \in Procs :
    DeleteRecord(p) /\ store' # store =>
        /\ store.rel \notin {c.rel : c \in containers} \cup networks
        /\ faults + crashes = 0 =>
               containers = {} /\ networks = {} /\ images = {} /\ history = {}]_vars
=============================================================================
