--------------------------- MODULE ReleaseLifecycle ---------------------------
(***************************************************************************)
(* The release lifecycle of single-service deployments: deploy, redeploy   *)
(* (by the administrator or by a GitHub webhook), rollback, restart and    *)
(* delete, as the HTTP handlers of MiniDeploy run them, concurrently, over *)
(* Docker, Caddy, the JSON metadata, the history and the environment files.*)
(*                                                                         *)
(* A request is a process.  A step of it is what the handler does between  *)
(* two points where another request, or a crash of the service, may get in *)
(* between and be noticed.  deployMu is the mutex mu; the delete and       *)
(* restart handlers do not take it, and the deploy handler synchronizes    *)
(* the proxy after releasing it.                                           *)
(*                                                                         *)
(* Databases (MiniBase attachments) and two-container projects are left to *)
(* other modules: a record here has no attachment and one container.       *)
(***************************************************************************)
EXTENDS Integers, FiniteSets

CONSTANTS
    Apps,         \* application names
    Procs,        \* concurrent requests
    Main,         \* the goroutine of main(): the synchronization at startup
    Ports,        \* host ports from minDeployPort to maxDeployPort
    Envs,         \* contents of an environment file, up to its variable names
    EmptyEnv,     \* the content of an absent file
    Keep,         \* a request that supplies no environment
    None,         \* no record, no route
    Operations,   \* the kinds of requests clients send
    Deployed,     \* applications that are live in the initial state
    MaxPrevious,  \* JSONHistoryStore.maxPrevious
    MaxReleases,  \* bound on the version stamps handed out
    MaxFaults,    \* bound on the failing commands and file operations
    MaxCrashes    \* bound on the crashes of the service

Kinds == {"deploy", "redeploy", "webhook", "rollback", "restart", "delete"}

ASSUME ConstantsAssumption ==
    /\ Main \notin Procs /\ None \notin Procs \cup Apps
    /\ Ports \subseteq Nat \ {0}
    /\ EmptyEnv \in Envs /\ Keep \notin Envs
    /\ Operations \subseteq Kinds
    /\ Deployed \subseteq Apps
    /\ MaxPrevious \in Nat /\ MaxReleases \in Nat
    /\ MaxFaults \in Nat /\ MaxCrashes \in Nat

VARIABLES
    store,       \* deployments.json: application -> record or None
    history,     \* deployment-history.json: application -> retained versions
    envFile,     \* secrets/<app>.env: application -> content
    containers,  \* Docker containers that exist, running or not
    images,      \* Docker images that exist
    routeFile,   \* the Caddy route files: application -> record routed to
    routes,      \* the configuration Caddy serves, same shape
    mu,          \* deployMu: the process that holds it, or None
    pc,          \* next step of each process
    req,         \* local variables of each process
    clock,       \* the latest version stamp (time.Now().UnixNano())
    faults,      \* failures so far
    crashes,     \* crashes so far
    verified     \* history variable: releases that passed the health checks

files  == <<store, history, envFile>>
docker == <<containers, images>>
caddy  == <<routeFile, routes>>
vars   == <<store, history, envFile, containers, images, routeFile, routes,
            mu, pc, req, clock, faults, crashes, verified>>

(***************************************************************************)
(* A record is what deployments.json keeps of a live release.  name is the *)
(* version stamp in the container's name, 0 for the fixed name             *)
(* minideploy-<app> of a first deployment; img is the one in its image's   *)
(* tag.  The history keeps the image and, for the order of the list, the   *)
(* stamp of the release that displaced it: the newest version has the      *)
(* largest.                                                                *)
(***************************************************************************)
Record    == [name : Nat, img : Nat, port : Ports, env : Envs]
Version   == [img : Nat, at : Nat]
Container == [app : Apps, name : Nat, img : Nat, port : Ports, up : BOOLEAN]
Routes    == [Apps -> Record \cup {None}]

ASSUME NoneAssumption == None \notin Record \cup Nat

Threads == Procs \cup {Main}

Releasing  == {"lock", "build", "start", "verify", "commit", "save",
               "env_rollback", "cleanup"}
Switching  == {"record", "retire", "restore"}
Syncing    == {"list", "write", "reload"}
Restarting == {"stop", "up"}
Deleting   == {"rm_container", "rm_images", "clear", "rm_image", "rm_env",
               "rm_record"}
Steps == {"idle"} \cup Releasing \cup Switching \cup Syncing
                  \cup Restarting \cup Deleting

\* Steps taken between deployMu.Lock() and the deferred Unlock().
Locked == (Releasing \ {"lock"}) \cup Switching

NoRoutes == [a \in Apps |-> None]

NoRequest == [kind |-> "none", app |-> None, ask |-> Keep, old |-> None,
              name |-> 0, img |-> 0, cand |-> None, prevEnv |-> EmptyEnv,
              seen |-> {}, snap |-> NoRoutes, restoring |-> FALSE]

Request == [kind : Kinds \cup {"none", "boot"}, app : Apps \cup {None},
            ask : Envs \cup {Keep}, old : Record \cup {None},
            name : Nat, img : Nat, cand : Record \cup {None}, prevEnv : Envs,
            seen : SUBSET Version, snap : Routes, restoring : BOOLEAN]

FirstRecord(port) == [name |-> 0, img |-> 1, port |-> port, env |-> EmptyEnv]

(***************************************************************************)
(* The service starts with the applications of Deployed live from an       *)
(* earlier run, each first deployed and never redeployed.                  *)
(***************************************************************************)
Init ==
    /\ \E port \in [Deployed -> Ports] :
         /\ \A a, b \in Deployed : port[a] = port[b] => a = b
         /\ store = [a \in Apps |->
                       IF a \in Deployed THEN FirstRecord(port[a]) ELSE None]
         /\ containers = {[app |-> a, name |-> 0, img |-> 1,
                           port |-> port[a], up |-> TRUE] : a \in Deployed}
    /\ images = Deployed \X {1}
    /\ verified = Deployed \X {0} \X {1}
    /\ history = [a \in Apps |-> {}]
    /\ envFile = [a \in Apps |-> EmptyEnv]
    /\ routeFile = store /\ routes = store
    /\ mu = None
    /\ pc = [t \in Threads |-> IF t = Main THEN "list" ELSE "idle"]
    /\ req = [t \in Threads |->
                IF t = Main THEN [NoRequest EXCEPT !.kind = "boot"]
                            ELSE NoRequest]
    /\ clock = 1 /\ faults = 0 /\ crashes = 0

-----------------------------------------------------------------------------
(***************************************************************************)
(* Shared pieces.                                                          *)
(***************************************************************************)
\* A command or a file operation fails, within the bound MaxFaults.
Fault   == faults < MaxFaults /\ faults' = faults + 1
NoFault == UNCHANGED faults

Goto(t, s) == pc' = [pc EXCEPT ![t] = s]

\* Mutant: an early return without the Unlock.
FinishLocked(t) ==
    /\ pc' = [pc EXCEPT ![t] = "idle"]
    /\ req' = [req EXCEPT ![t] = NoRequest]
    /\ UNCHANGED mu

\* The handler returns; the deferred Unlock runs if deployMu is held.
Finish(t) ==
    /\ pc' = [pc EXCEPT ![t] = "idle"]
    /\ req' = [req EXCEPT ![t] = NoRequest]
    /\ mu' = IF mu = t THEN None ELSE mu

\* containerExists, for the container named by a record.
Named(a, name) == {c \in containers : c.app = a /\ c.name = name}
Exists(a, r)   == Named(a, r.name) # {}

\* docker image rm refuses an image that a container still uses.
Removable(a, imgs, cs) ==
    {i \in {a} \X imgs : \A c \in cs : <<c.app, c.img>> # i}

\* findAvailablePort: a port is taken while a running container binds it.
FreePorts     == {q \in Ports : \A c \in containers : c.up => c.port # q}
FirstFree(q)  == q \in FreePorts /\ \A r \in FreePorts : q <= r

Redeploys == {"redeploy", "webhook"}
Cutovers  == Redeploys \cup {"rollback"}
Releases  == Cutovers \cup {"deploy"}

\* The environment the candidate runs with: runtimeEnvironmentChange.effective.
Effective(p) == IF req[p].ask = Keep THEN req[p].prevEnv ELSE req[p].ask

\* The retained versions, newest first, cut at maxPrevious.
Newer(H, e)  == {f \in H : f.at > e.at}
Retained(H)  == {e \in H : Cardinality(Newer(H, e)) < MaxPrevious}

-----------------------------------------------------------------------------
(***************************************************************************)
(* Requests arrive.  Every handler reads the record of its application     *)
(* from the store first, before any lock, and works on that copy.          *)
(***************************************************************************)
Begin(p, kind, a, ask, first) ==
    /\ pc[Main] = "idle" /\ pc[p] = "idle"
    /\ kind \in Operations
    /\ Goto(p, first)
    /\ req' = [req EXCEPT ![p] = [NoRequest EXCEPT !.kind = kind, !.app = a,
                                     !.ask = ask, !.old = store[a]]]
    /\ UNCHANGED <<files, docker, caddy, mu, clock, faults, crashes, verified>>

\* deploymentIdentifierExists has answered that the name is free.
deployHandler(p) == \E a \in Apps, e \in Envs :
    store[a] = None /\ Begin(p, "deploy", a, e, "lock")

\* The administrator may supply an environment; omitting it keeps the file.
redeployHandler(p) == \E a \in Apps, e \in Envs \cup {Keep} :
    store[a] # None /\ Begin(p, "redeploy", a, e, "lock")

\* The 202 answer is sent before the goroutine redeploys the listed record.
githubWebhookHandler(p) == \E a \in Apps :
    store[a] # None /\ Begin(p, "webhook", a, Keep, "lock")

rollbackDeploymentHandler(p) == \E a \in Apps :
    store[a] # None /\ Begin(p, "rollback", a, Keep, "lock")

restartDeploymentHandler(p) == \E a \in Apps :
    store[a] # None /\ Begin(p, "restart", a, Keep, "stop")

deleteDeploymentHandler(p) == \E a \in Apps :
    store[a] # None /\ Begin(p, "delete", a, Keep, "rm_container")

-----------------------------------------------------------------------------
(***************************************************************************)
(* deployMu.Lock() and what is read and checked right under it.            *)
(***************************************************************************)
\* deployRepository: no check that the application is still absent.
LockDeploy(p) == LET a == req[p].app IN
    /\ pc[p] = "lock" /\ req[p].kind = "deploy" /\ mu = None
    /\ mu' = p
    /\ Goto(p, "build")
    /\ req' = [req EXCEPT ![p].prevEnv = envFile[a]]
    /\ UNCHANGED <<files, docker, caddy, clock, faults, crashes, verified>>

\* safeRedeploy: the record is not read again.  Without a replacement the
\* names it lists must be those of the environment file.
LockRedeploy(p) == LET a == req[p].app IN
    /\ pc[p] = "lock" /\ req[p].kind \in Redeploys /\ mu = None
    /\ IF req[p].ask = Keep /\ req[p].old.env # envFile[a]
       THEN Finish(p)
       ELSE /\ mu' = p
            /\ Goto(p, "build")
            /\ req' = [req EXCEPT ![p].prevEnv = envFile[a]]
    /\ UNCHANGED <<files, docker, caddy, clock, faults, crashes, verified>>

\* rollbackDeployment refuses when the environment disagrees with the record,
\* when no version is retained, or when the newest version's image is gone.
\* The last disjunct is the bound on version stamps.
RollbackRefused(a, r) ==
    \/ r.env # envFile[a]
    \/ history[a] = {}
    \/ \E v \in history[a] : Newer(history[a], v) = {} /\ <<a, v.img>> \notin images
    \/ clock = MaxReleases

LockRollback(p) == LET a == req[p].app IN
    /\ pc[p] = "lock" /\ req[p].kind = "rollback" /\ mu = None
    /\ IF RollbackRefused(a, req[p].old)
       THEN Finish(p) /\ UNCHANGED clock
       ELSE \E v \in history[a] :
              /\ Newer(history[a], v) = {}
              /\ clock' = clock + 1
              /\ mu' = p
              /\ Goto(p, "start")
              /\ req' = [req EXCEPT ![p] =
                           [@ EXCEPT !.prevEnv = envFile[a], !.img = v.img,
                              !.name = clock + 1, !.seen = history[a]]]
    /\ UNCHANGED <<files, docker, caddy, faults, crashes, verified>>

-----------------------------------------------------------------------------
(***************************************************************************)
(* Candidate: clone and build, docker run on the first free port, startup  *)
(* and HTTP checks.                                                        *)
(***************************************************************************)
\* The commit may not clone or build: nothing has been created then.
Build(p) == LET a == req[p].app IN
    /\ pc[p] = "build"
    /\ \/ /\ clock < MaxReleases
          /\ clock' = clock + 1
          /\ images' = images \cup {<<a, clock + 1>>}
          /\ Goto(p, "start")
          /\ req' = [req EXCEPT ![p] =
                       [@ EXCEPT !.img = clock + 1,
                          !.name = IF req[p].kind = "deploy" THEN 0 ELSE clock + 1]]
          /\ UNCHANGED mu
       \/ Finish(p) /\ UNCHANGED <<clock, images>>
    /\ UNCHANGED <<files, containers, caddy, faults, crashes, verified>>

Candidate(p, q, up) == [app |-> req[p].app, name |-> req[p].name,
                        img |-> req[p].img, port |-> q, up |-> up]

\* Mutant: the candidate's record is not kept.
StartForgotten(p) ==
    /\ pc[p] = "start"
    /\ \E q \in Ports : FirstFree(q) /\ containers' = containers \cup {Candidate(p, q, TRUE)}
    /\ Goto(p, "verify")
    /\ UNCHANGED <<files, images, caddy, mu, req, clock, faults, crashes, verified>>

StartOK(p) == LET a == req[p].app IN
    /\ pc[p] = "start"
    /\ Named(a, req[p].name) = {}
    /\ \E q \in Ports :
         /\ FirstFree(q)
         /\ containers' = containers \cup {Candidate(p, q, TRUE)}
         /\ req' = [req EXCEPT ![p].cand =
                      [name |-> req[p].name, img |-> req[p].img, port |-> q,
                       env |-> Effective(p)]]
    /\ Goto(p, "verify")
    /\ UNCHANGED <<files, images, caddy, mu, clock, faults, crashes, verified>>

\* No port is free, the name is taken, or docker run fails.  docker run may
\* leave a container it created and could not start.  safeRedeploy removes the
\* new image; deployRepository leaves it, and a rollback keeps the old one.
StartFailed(p) == LET a == req[p].app IN
    /\ pc[p] = "start"
    /\ \/ (FreePorts = {} \/ Named(a, req[p].name) # {})
            /\ NoFault /\ UNCHANGED containers
       \/ Fault /\ UNCHANGED containers
       \/ /\ Fault /\ Named(a, req[p].name) = {}
          /\ \E q \in Ports :
               FirstFree(q) /\ containers' = containers \cup {Candidate(p, q, FALSE)}
    /\ images' = IF req[p].kind \in Redeploys
                 THEN images \ Removable(a, {req[p].img}, containers')
                 ELSE images
    /\ Finish(p)
    /\ UNCHANGED <<files, caddy, clock, crashes, verified>>

\* Mutant: a failing health check is only logged.
HealthIgnored(p) ==
    /\ pc[p] = "verify"
    /\ Goto(p, IF req[p].kind = "rollback" THEN "save" ELSE "commit")
    /\ UNCHANGED <<files, docker, caddy, mu, req, clock, faults, crashes, verified>>

\* verifyContainerStartup and verifyHTTPHealthPath.
Healthy(p) ==
    /\ pc[p] = "verify"
    /\ verified' = verified \cup {<<req[p].app, req[p].name, req[p].img>>}
    /\ Goto(p, IF req[p].kind = "rollback" THEN "save" ELSE "commit")
    /\ UNCHANGED <<files, docker, caddy, mu, req, clock, faults, crashes>>

Unhealthy(p) ==
    /\ pc[p] = "verify"
    /\ Goto(p, "cleanup")
    /\ UNCHANGED <<files, docker, caddy, mu, req, clock, faults, crashes, verified>>

\* Mutant: a failed rollback removes the retained image like a failed build's.
CleanupAlways(p) == LET rest == containers \ Named(req[p].app, req[p].name) IN
    /\ pc[p] = "cleanup"
    /\ containers' = rest
    /\ images' = images \ Removable(req[p].app, {req[p].img}, rest)
    /\ Finish(p) /\ NoFault
    /\ UNCHANGED <<files, caddy, clock, crashes, verified>>

\* Mutant: cleanupCandidate(false).
CleanupKeepsImage(p) ==
    /\ pc[p] = "cleanup"
    /\ containers' = containers \ Named(req[p].app, req[p].name)
    /\ Finish(p) /\ NoFault
    /\ UNCHANGED <<files, images, caddy, clock, crashes, verified>>

\* docker rm -f of the candidate and, except after a rollback, docker image rm
\* of its image; the errors are ignored.
Cleanup(p) == LET a == req[p].app
                  rest == containers \ Named(a, req[p].name)
                  gone == IF req[p].kind = "rollback" THEN {}
                          ELSE Removable(a, {req[p].img}, rest) IN
    /\ pc[p] = "cleanup"
    /\ \/ NoFault /\ containers' = rest /\ images' = images \ gone
       \/ Fault /\ containers' = rest /\ UNCHANGED images
       \/ Fault /\ UNCHANGED docker
    /\ Finish(p)
    /\ UNCHANGED <<files, caddy, clock, crashes, verified>>

-----------------------------------------------------------------------------
(***************************************************************************)
(* Promotion: the environment file, then the record, then the proxy.       *)
(***************************************************************************)
\* runtimeEnvironmentChange.Commit writes only a supplied environment.
CommitEnvironment(p) == LET a == req[p].app IN
    /\ pc[p] = "commit"
    /\ \/ /\ envFile' = IF req[p].ask = Keep THEN envFile
                        ELSE [envFile EXCEPT ![a] = req[p].ask]
          /\ Goto(p, "save") /\ NoFault
       \/ req[p].ask # Keep /\ Fault /\ Goto(p, "cleanup") /\ UNCHANGED envFile
    /\ UNCHANGED <<store, history, docker, caddy, mu, req, clock, crashes, verified>>

\* Mutant: every release unlocks once its record is saved.
SaveUnlocks(p) ==
    /\ pc[p] = "save"
    /\ store' = [store EXCEPT ![req[p].app] = req[p].cand]
    /\ mu' = None
    /\ Goto(p, "list") /\ NoFault
    /\ UNCHANGED <<history, envFile, docker, caddy, req, clock, crashes, verified>>

\* store.Save of the candidate.  A first deployment returns from
\* deployRepository here, releasing deployMu before the proxy is synchronized.
SaveRecord(p) == LET a == req[p].app IN
    /\ pc[p] = "save"
    /\ \/ /\ store' = [store EXCEPT ![a] = req[p].cand]
          /\ mu' = IF req[p].kind = "deploy" THEN None ELSE mu
          /\ Goto(p, "list") /\ NoFault
       \/ Fault /\ Goto(p, "env_rollback") /\ UNCHANGED <<store, mu>>
    /\ UNCHANGED <<history, envFile, docker, caddy, req, clock, crashes, verified>>

\* Mutant: the environment that Commit wrote stays.
EnvironmentStays(p) ==
    /\ pc[p] = "env_rollback"
    /\ Goto(p, "cleanup") /\ NoFault
    /\ UNCHANGED <<files, docker, caddy, mu, req, clock, crashes, verified>>

\* runtimeEnvironmentChange.Rollback writes only what Commit replaced.
RollbackEnvironment(p) == LET a == req[p].app IN
    /\ pc[p] = "env_rollback"
    /\ \/ /\ envFile' = IF req[p].ask = Keep THEN envFile
                        ELSE [envFile EXCEPT ![a] = req[p].prevEnv]
          /\ NoFault
       \/ req[p].ask # Keep /\ Fault /\ UNCHANGED envFile
    /\ Goto(p, "cleanup")
    /\ UNCHANGED <<store, history, docker, caddy, mu, req, clock, crashes, verified>>

(***************************************************************************)
(* syncProxyRoutes: list the records, write the route files, reload Caddy. *)
(* It holds no lock of its own.  Nothing is undone when it fails; the      *)
(* handlers of deploy and delete report the failure and return, main()     *)
(* logs it and serves.                                                     *)
(***************************************************************************)
\* Mutant: a failed cutover is only logged.
CutoverAssumed(t, ok) ==
    IF req[t].kind \in Cutovers
    THEN Goto(t, IF req[t].restoring THEN "env_rollback" ELSE "record")
         /\ UNCHANGED <<req, mu>>
    ELSE Finish(t)

\* Mutant: a failed cutover goes straight to the cleanup.
RecordStays(t, ok) ==
    IF req[t].kind \in Cutovers
    THEN Goto(t, IF ok THEN "record" ELSE "env_rollback") /\ UNCHANGED <<req, mu>>
    ELSE Finish(t)

AfterSync(t, ok) ==
    IF req[t].kind \in Cutovers
    THEN /\ Goto(t, IF req[t].restoring THEN "env_rollback"
                    ELSE IF ok THEN "record" ELSE "restore")
         /\ UNCHANGED <<req, mu>>
    ELSE Finish(t)

SyncList(t) ==
    /\ pc[t] = "list"
    /\ \/ /\ req' = [req EXCEPT ![t].snap = store]
          /\ Goto(t, "write") /\ NoFault /\ UNCHANGED mu
       \/ Fault /\ AfterSync(t, FALSE)
    /\ UNCHANGED <<files, docker, caddy, clock, crashes, verified>>

\* Two files, each replaced by a rename: a failure may come after the first.
SyncWrite(t) ==
    /\ pc[t] = "write"
    /\ \/ /\ routeFile' = req[t].snap
          /\ Goto(t, "reload") /\ NoFault /\ UNCHANGED <<req, mu>>
       \/ /\ routeFile' \in {routeFile, req[t].snap}
          /\ Fault /\ AfterSync(t, FALSE)
    /\ UNCHANGED <<files, docker, routes, clock, crashes, verified>>

\* caddy reload reads the files as they are now, and keeps what it serves
\* when it fails.
SyncReload(t) ==
    /\ pc[t] = "reload"
    /\ \/ routes' = routeFile /\ NoFault /\ AfterSync(t, TRUE)
       \/ UNCHANGED routes /\ Fault /\ AfterSync(t, FALSE)
    /\ UNCHANGED <<files, docker, routeFile, clock, crashes, verified>>

\* The cutover failed: store.Save of the record read when the request began,
\* then a second synchronization whose errors are only logged.
RestoreRecord(p) == LET a == req[p].app IN
    /\ pc[p] = "restore"
    /\ \/ /\ store' = [store EXCEPT ![a] = req[p].old]
          /\ req' = [req EXCEPT ![p].restoring = TRUE]
          /\ Goto(p, "list") /\ NoFault
       \/ Fault /\ Goto(p, "env_rollback") /\ UNCHANGED <<store, req>>
    /\ UNCHANGED <<history, envFile, docker, caddy, mu, clock, crashes, verified>>

(***************************************************************************)
(* After the cutover: the displaced version goes to the front of the       *)
(* history, images that fall off its end are removed, and the displaced    *)
(* container is retired.  Failures are only logged.                        *)
(***************************************************************************)
\* Push drops older entries with the same image; the Set of a rollback puts
\* the current version in place of the newest entry of the list it read.
Displaced(p) == [img |-> req[p].old.img, at |-> req[p].name]

\* Mutant: Push keeps the older entry with the same image.
ExtendedTwice(p) ==
    {Displaced(p)} \cup
    IF req[p].kind = "rollback"
    THEN {v \in req[p].seen : Newer(req[p].seen, v) # {}}
    ELSE history[req[p].app]

Extended(p) ==
    {Displaced(p)} \cup
    IF req[p].kind = "rollback"
    THEN {v \in req[p].seen : Newer(req[p].seen, v) # {}}
    ELSE {v \in history[req[p].app] : v.img # req[p].old.img}

RecordHistory(p) == LET a == req[p].app
                        kept == Retained(Extended(p))
                        pruned == {v.img : v \in Extended(p) \ kept} \ {req[p].img}
                        gone == Removable(a, pruned, containers) IN
    /\ pc[p] = "record"
    /\ \/ history' = [history EXCEPT ![a] = kept] /\ images' = images \ gone /\ NoFault
       \/ history' = [history EXCEPT ![a] = kept] /\ UNCHANGED images /\ gone # {} /\ Fault
       \/ UNCHANGED <<history, images>> /\ Fault
    /\ Goto(p, "retire")
    /\ UNCHANGED <<store, envFile, containers, caddy, mu, req, clock, crashes, verified>>

RetireOld(p) == LET a == req[p].app IN
    /\ pc[p] = "retire"
    /\ \/ containers' = containers \ Named(a, req[p].old.name) /\ NoFault
       \/ Exists(a, req[p].old) /\ Fault /\ UNCHANGED containers
    /\ Finish(p)
    /\ UNCHANGED <<files, images, caddy, clock, crashes, verified>>

-----------------------------------------------------------------------------
(***************************************************************************)
(* docker restart stops the container, which frees its port, and starts it *)
(* again.  The restart handler takes no lock.                              *)
(***************************************************************************)
RestartStop(p) == LET a == req[p].app
                      r == req[p].old IN
    /\ pc[p] = "stop"
    /\ \/ /\ Exists(a, r) /\ NoFault
          /\ containers' = {IF c \in Named(a, r.name) THEN [c EXCEPT !.up = FALSE]
                            ELSE c : c \in containers}
          /\ Goto(p, "up") /\ UNCHANGED <<req, mu>>
       \/ (IF Exists(a, r) THEN Fault ELSE NoFault) /\ Finish(p) /\ UNCHANGED containers
    /\ UNCHANGED <<files, images, caddy, clock, crashes, verified>>

\* It stays down when docker fails or when another container took its port.
RestartUp(p) == LET a == req[p].app
                    r == req[p].old IN
    /\ pc[p] = "up"
    /\ \/ /\ containers' = {IF c \in Named(a, r.name) /\ c.port \in FreePorts
                            THEN [c EXCEPT !.up = TRUE] ELSE c : c \in containers}
          /\ NoFault
       \/ Fault /\ UNCHANGED containers
    /\ Finish(p)
    /\ UNCHANGED <<files, images, caddy, clock, crashes, verified>>

-----------------------------------------------------------------------------
(***************************************************************************)
(* The delete handler takes no lock either.  Failing to remove the         *)
(* container, the source, the environment or the record ends the request;  *)
(* failing to remove images or the history is logged.                      *)
(***************************************************************************)
\* Mutant: the container is stopped and stays.
ContainerStopped(p) == LET held == Named(req[p].app, req[p].old.name) IN
    /\ pc[p] = "rm_container"
    /\ containers' = (containers \ held) \cup {[c EXCEPT !.up = FALSE] : c \in held}
    /\ Goto(p, "rm_images") /\ NoFault
    /\ UNCHANGED <<files, images, caddy, mu, req, clock, crashes, verified>>

\* containerExists answers no when docker inspect fails: the deletion then goes
\* on and leaves the container.  A failing docker rm ends it, and so does a
\* failure to remove the source after the container.
DeleteContainer(p) == LET a == req[p].app
                          rest == containers \ Named(a, req[p].old.name) IN
    /\ pc[p] = "rm_container"
    /\ \/ containers' = rest /\ Goto(p, "rm_images") /\ NoFault /\ UNCHANGED <<req, mu>>
       \/ /\ Exists(a, req[p].old) /\ UNCHANGED containers
          /\ Goto(p, "rm_images") /\ Fault /\ UNCHANGED <<req, mu>>
       \/ Exists(a, req[p].old) /\ UNCHANGED containers /\ Fault /\ Finish(p)
       \/ containers' = rest /\ Fault /\ Finish(p)
    /\ UNCHANGED <<files, images, caddy, clock, crashes, verified>>

\* Mutant: the history is listed after it was cleared.
HistoryImagesMissed(p) ==
    /\ pc[p] = "rm_images"
    /\ Goto(p, "clear") /\ NoFault
    /\ UNCHANGED <<files, docker, caddy, mu, req, clock, crashes, verified>>

\* Listing the history may fail, and so may any of the removals.
DeleteHistoryImages(p) == LET a == req[p].app
                              old == {v.img : v \in history[a]} \ {req[p].old.img}
                              gone == Removable(a, old, containers) IN
    /\ pc[p] = "rm_images"
    /\ \/ images' = images \ gone /\ NoFault
       \/ gone # {} /\ Fault /\ \E some \in SUBSET gone : images' = images \ some
    /\ Goto(p, "clear")
    /\ UNCHANGED <<files, containers, caddy, mu, req, clock, crashes, verified>>

DeleteHistory(p) == LET a == req[p].app IN
    /\ pc[p] = "clear"
    /\ \/ history' = [history EXCEPT ![a] = {}] /\ NoFault
       \/ Fault /\ UNCHANGED history
    /\ Goto(p, "rm_image")
    /\ UNCHANGED <<store, envFile, docker, caddy, mu, req, clock, crashes, verified>>

DeleteImage(p) == LET a == req[p].app IN
    /\ pc[p] = "rm_image"
    /\ \/ images' = images \ Removable(a, {req[p].old.img}, containers) /\ NoFault
       \/ Fault /\ UNCHANGED images
    /\ Goto(p, "rm_env")
    /\ UNCHANGED <<files, containers, caddy, mu, req, clock, crashes, verified>>

\* Mutant: the environment file is kept.
EnvironmentKept(p) ==
    /\ pc[p] = "rm_env"
    /\ Goto(p, "rm_record") /\ NoFault
    /\ UNCHANGED <<files, docker, caddy, mu, req, clock, crashes, verified>>

DeleteEnvironment(p) == LET a == req[p].app IN
    /\ pc[p] = "rm_env"
    /\ \/ /\ envFile' = [envFile EXCEPT ![a] = EmptyEnv]
          /\ Goto(p, "rm_record") /\ NoFault /\ UNCHANGED <<req, mu>>
       \/ Fault /\ Finish(p) /\ UNCHANGED envFile
    /\ UNCHANGED <<store, history, docker, caddy, clock, crashes, verified>>

\* store.Delete answers ErrDeploymentNotFound when another delete was faster.
DeleteRecord(p) == LET a == req[p].app IN
    /\ pc[p] = "rm_record"
    /\ \/ /\ store[a] # None
          /\ store' = [store EXCEPT ![a] = None]
          /\ Goto(p, "list") /\ NoFault /\ UNCHANGED <<req, mu>>
       \/ store[a] = None /\ NoFault /\ Finish(p) /\ UNCHANGED store
       \/ Fault /\ Finish(p) /\ UNCHANGED store
    /\ UNCHANGED <<history, envFile, docker, caddy, clock, crashes, verified>>

-----------------------------------------------------------------------------
(***************************************************************************)
(* The service dies and systemd starts it again: requests and deployMu are *)
(* lost; the files, the containers and Caddy live on.  main() synchronizes *)
(* the proxy before it listens.                                            *)
(***************************************************************************)
\* Mutant: main() listens without synchronizing the proxy.
CrashUnrepaired ==
    /\ crashes < MaxCrashes
    /\ crashes' = crashes + 1
    /\ mu' = None
    /\ pc' = [t \in Threads |-> "idle"]
    /\ req' = [t \in Threads |-> NoRequest]
    /\ UNCHANGED <<files, docker, caddy, clock, faults, verified>>

Crash ==
    /\ crashes < MaxCrashes
    /\ crashes' = crashes + 1
    /\ mu' = None
    /\ pc' = [t \in Threads |-> IF t = Main THEN "list" ELSE "idle"]
    /\ req' = [t \in Threads |-> IF t = Main THEN [NoRequest EXCEPT !.kind = "boot"]
                                             ELSE NoRequest]
    /\ UNCHANGED <<files, docker, caddy, clock, faults, verified>>

Arrival(p) ==
    \/ deployHandler(p)             \/ redeployHandler(p)
    \/ githubWebhookHandler(p)      \/ rollbackDeploymentHandler(p)
    \/ restartDeploymentHandler(p)  \/ deleteDeploymentHandler(p)

Lock(p) == LockDeploy(p) \/ LockRedeploy(p) \/ LockRollback(p)

Sync(t) == SyncList(t) \/ SyncWrite(t) \/ SyncReload(t)

Work(p) ==
    \/ Build(p)              \/ StartOK(p)          \/ StartFailed(p)
    \/ Healthy(p)            \/ Unhealthy(p)        \/ Cleanup(p)
    \/ CommitEnvironment(p)  \/ SaveRecord(p)       \/ RollbackEnvironment(p)
    \/ RestoreRecord(p)      \/ RecordHistory(p)    \/ RetireOld(p)
    \/ RestartStop(p)        \/ RestartUp(p)
    \/ DeleteContainer(p)    \/ DeleteHistoryImages(p) \/ DeleteHistory(p)
    \/ DeleteImage(p)        \/ DeleteEnvironment(p)   \/ DeleteRecord(p)

Next ==
    \/ \E p \in Procs : Arrival(p) \/ Lock(p) \/ Work(p)
    \/ \E t \in Threads : Sync(t)
    \/ Crash

Spec == Init /\ [][Next]_vars

(***************************************************************************)
(* A handler that has begun keeps running.  sync.Mutex is starvation free: *)
(* a waiter gets deployMu if it becomes free again and again.              *)
(***************************************************************************)
Fairness ==
    /\ \A p \in Procs : SF_vars(Lock(p)) /\ WF_vars(Work(p))
    /\ \A t \in Threads : WF_vars(Sync(t))

FairSpec == Spec /\ Fairness

-----------------------------------------------------------------------------
(***************************************************************************)
(* Properties.                                                             *)
(***************************************************************************)
\* Every variable has its type, and a process at a step has the locals that the
\* way there computes: a request of the right kind, an application, for all but
\* a first deployment the record it read, and from the health checks on the
\* candidate.  main() only ever synchronizes.
Working(p)      == pc[p] # "idle"
HasCandidate(p) ==
    \/ pc[p] \in Switching \cup (Releasing \ {"lock", "build", "start"})
    \/ pc[p] \in Syncing /\ req[p].kind \in Releases

RequestOK(p) ==
    /\ pc[p] \in Releasing  => req[p].kind \in Releases
    /\ pc[p] \in Switching  => req[p].kind \in Cutovers
    /\ pc[p] \in Syncing    => req[p].kind \in Releases \cup {"delete"}
    /\ pc[p] \in Restarting => req[p].kind = "restart"
    /\ pc[p] \in Deleting   => req[p].kind = "delete"
    /\ Working(p) => req[p].app \in Apps
    /\ Working(p) /\ req[p].kind # "deploy" => req[p].old \in Record
    /\ HasCandidate(p) => /\ req[p].cand \in Record
                          /\ req[p].cand.name = req[p].name
                          /\ req[p].cand.img = req[p].img

MainOK == pc[Main] \in {"idle"} \cup Syncing /\ req[Main].kind \in {"none", "boot"}

TypeOK ==
    /\ store \in Routes /\ routeFile \in Routes /\ routes \in Routes
    /\ history \in [Apps -> SUBSET Version]
    /\ envFile \in [Apps -> Envs]
    /\ containers \subseteq Container
    /\ images \subseteq Apps \X Nat
    /\ verified \subseteq Apps \X Nat \X Nat
    /\ mu \in Procs \cup {None}
    /\ pc \in [Threads -> Steps]
    /\ req \in [Threads -> Request]
    /\ clock \in Nat /\ faults \in Nat /\ crashes \in Nat
    /\ \A p \in Procs : RequestOK(p)
    /\ MainOK

AllIdle == \A t \in Threads : pc[t] = "idle"
Quiet(a) == \A p \in Procs : req[p].app # a

\* A process between deployMu.Lock() and Unlock() is the one that holds it
\* (deploy.go:65, deploy.go:569, rollback.go:85), and a held mutex always has
\* such a process: no early return leaves it locked.
InCriticalSection(p) ==
    \/ pc[p] \in Locked
    \/ pc[p] \in {"list", "write", "reload"} /\ req[p].kind \in Cutovers

MutexHeld == \A p \in Procs : InCriticalSection(p) <=> mu = p

\* Whatever the interleaving, the failures and the crashes, no record, no route
\* file, no configuration of Caddy and no snapshot a synchronization is about to
\* write names a release that has not passed the startup and the HTTP checks;
\* nor does a record that a request is about to save or to put back.
HasPassed(a, r) == <<a, r.name, r.img>> \in verified
Passed(R) == \A a \in Apps : R[a] # None => HasPassed(a, R[a])

Promoted(p) ==
    /\ pc[p] \in {"commit", "save"} => HasPassed(req[p].app, req[p].cand)
    /\ Working(p) /\ req[p].kind # "deploy" => HasPassed(req[p].app, req[p].old)

OnlyVerifiedRouted ==
    /\ Passed(store) /\ Passed(routeFile) /\ Passed(routes)
    /\ \A t \in Threads : Passed(req[t].snap)
    /\ \A p \in Procs : Promoted(p)

\* Caddy never sends an application's traffic to a container that has been
\* removed: the old one is retired only after the cutover (deploy.go:1023), the
\* candidate only after the old route is back (deploy.go:952-974).
Leads(r, a) == \E c \in Named(a, r.name) : c.port = r.port

RouteLive == \A a \in Apps : routes[a] # None => Leads(routes[a], a)

\* The record of deployments.json names a container and an image that exist,
\* so that a restart of the service, which routes by it, finds the release.
RecordLive == \A a \in Apps : store[a] # None =>
                 Leads(store[a], a) /\ <<a, store[a].img>> \in images

\* A candidate starts on a spare port (architecture.md:386), and Caddy sends
\* "generated application hostnames to their loopback Docker ports"
\* (architecture.md:175): no hostname leads to another application's container.
\* The probe only asks whether anything listens on a port (docker.go:338).  What
\* is under deployMu keeps what is routed running; a deletion, which removes the
\* container long before the route, and a docker restart take no lock, and
\* while one of them is under way a release may be given the port.
NoCrossRouting == \A a \in Apps : routes[a] # None =>
    \A c \in containers : c.up /\ c.port = routes[a].port => c.app = a

\* At rest, with no command having failed, Caddy serves exactly what the
\* records say, after crashes as well: the synchronization at startup repairs
\* whatever the crash left half done (main.go:15).
RoutesFollowStore == AllIdle /\ faults = 0 => routes = store

\* The versions that the history offers for rollback can be started: pruning
\* and cleanup never remove an image that is still listed (rollback.go:428).
HistoryRestorable == \A a \in Apps : Quiet(a) =>
    \A v \in history[a] : <<a, v.img>> \in images

\* At most maxPrevious versions are retained, and no image twice (history.go:148).
HistoryBounded == \A a \in Apps :
    /\ Cardinality(history[a]) <= MaxPrevious
    /\ \A v, w \in history[a] : v.img = w.img => v = w

\* With no request at work on an application, and the service never having
\* crashed between the two writes, its record lists the variables of its
\* environment file: otherwise every redeploy without a replacement and every
\* rollback would be refused (runtime_environment.go:129).
EnvironmentMatches == crashes = 0 => \A a \in Apps :
    Quiet(a) /\ store[a] # None => store[a].env = envFile[a]

\* A failure or a crash leaves behind at most one container and one image that
\* no record and no history entry names: cleanup is never skipped as a whole.
Stray == {c \in containers : store[c.app] = None \/ store[c.app].name # c.name}
StrayImages == {i \in images : ~ \/ store[i[1]] # None /\ store[i[1]].img = i[2]
                                 \/ \E v \in history[i[1]] : v.img = i[2]}
LeaksBounded == AllIdle =>
    /\ Cardinality(Stray) <= faults + crashes
    /\ Cardinality(StrayImages) <= faults + crashes

\* A redeployment or rollback that ends in its cleanup, in a service that has not
\* crashed, has put the record it displaced back, and Caddy serves it: "the secure
\* file changes only after health succeeds and is restored if metadata or proxy
\* cutover fails" (architecture.md:629), for the record and the route as well.
FailureKeepsPrevious == [][\A p \in Procs :
    crashes = 0 /\ Cleanup(p) /\ req[p].kind \in Cutovers =>
        /\ store'[req[p].app] = req[p].old
        /\ routes'[req[p].app] = req[p].old
        /\ envFile'[req[p].app] = req[p].old.env]_vars

\* The answer to a failed redeployment, "redeployment failed; previous version
\* kept running" (handlers.go:272): when the cleanup of the candidate ends the
\* request, Caddy routes the application to a container that exists.
VersionKeptRunning == [][\A p \in Procs :
    Cleanup(p) /\ req[p].kind \in Cutovers =>
        LET a == req[p].app IN
        routes'[a] # None => \E c \in containers' :
                                c.app = a /\ c.name = routes'[a].name]_vars

\* Nothing having failed, an application without a record, deleted or never
\* deployed, has no route, no history, no environment file, no container and no
\* image, whatever was built, given up, pruned and rolled back to before: a
\* deletion leaves nothing to the next application of that name (handlers.go:741).
DeletionComplete == faults = 0 /\ crashes = 0 =>
    \A a \in Apps : Quiet(a) /\ store[a] = None =>
        /\ routes[a] = None /\ history[a] = {} /\ envFile[a] = EmptyEnv
        /\ \A c \in containers : c.app # a
        /\ \A i \in images : i[1] # a

\* First deployments and deletions included, a failure or a crash leaves behind at
\* most one container that no record names.  A deletion passes a container by that
\* docker inspect failed to look at (docker.go:308, handlers.go:822) and removes the
\* record; a first deployment that fails may leave a container under the name that
\* the next one wants.  Neither goes on to cost another container.
ContainersAccounted == AllIdle => Cardinality(Stray) <= faults + crashes

\* The record outlives what it describes: a deletion that failed or was cut short
\* can be asked for again, because the record goes only when the environment file
\* is gone, and the container it names too unless a command failed, whose damage
\* ContainersAccounted bounds (handlers.go:822-964).
DeletionOrder == [][\A a \in Apps :
    store[a] # None /\ store'[a] = None =>
        /\ envFile[a] = EmptyEnv
        /\ faults = 0 => Named(a, store[a].name) = {}]_vars

\* Every request that has begun comes to its end: none waits for deployMu for
\* ever, and no failure path returns with the mutex held.
RequestsEnd == \A p \in Procs : Working(p) ~> ~Working(p)

\* While an application is redeployed and rolled back, its visitors always reach a
\* checked release that runs, and only one that they do not reach is withdrawn:
\* the lifecycle implements ZeroDowntime (deploy.go:1023).
RunningReleases(a) == {c.name : c \in {d \in containers : d.app = a /\ d.up}}
CheckedReleases(a) == {v[2] : v \in {w \in verified : w[1] = a}}

Visitors == INSTANCE ZeroDowntime WITH
    Releases <- Nat,
    running  <- [a \in Apps |-> RunningReleases(a)],
    checked  <- [a \in Apps |-> CheckedReleases(a)],
    served   <- [a \in Apps |-> IF routes[a] = None THEN None ELSE routes[a].name]

NoDowntime == Visitors!Spec
=============================================================================
