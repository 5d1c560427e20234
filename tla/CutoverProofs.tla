----------------------------- MODULE CutoverProofs -----------------------------
(***************************************************************************)
(* What ReleaseLifecycle guarantees of redeployments, webhooks and         *)
(* rollbacks: for any number of them at once as long as no command fails,  *)
(* and for one at a time through one failure; with any number of crashes.  *)
(* Then what all kinds of requests, one at a time, do to the history, and  *)
(* what failures, crashes and deletions leave behind.                      *)
(*                                                                         *)
(* Under deployMu one request at most is past its Lock, so that the        *)
(* invariant speaks of the files, Docker and Caddy (World) and of what a   *)
(* request has achieved by the step it is at (Progress); those that wait   *)
(* know only that the record they read is older than any candidate.        *)
(***************************************************************************)
EXTENDS ReleaseLifecycleProofs, FiniteSetTheorems

USE DEF Kinds, Redeploys, Cutovers, Releases, Releasing, Switching, Syncing,
        Restarting, Deleting, Steps, Threads

\* A second failure may hit the undoing of the first, and a request that waited
\* undoes its failure with a record that is no longer the live one.
Undisturbed == faults = 0 \/ (Serial /\ faults <= 1)

-----------------------------------------------------------------------------
\* A record is live when, of the containers C, the one it describes runs.
RunsIn(C, a, r) == \E c \in C :
    /\ c.app = a /\ c.name = r.name /\ c.img = r.img /\ c.port = r.port
    /\ c.up

Runs(a, r) == RunsIn(containers, a, r)

AllRunIn(C, R) == \A a \in Apps : R[a] # None => RunsIn(C, a, R[a])

\* Nothing has a stamp that the clock has not given out.
Stamped(R) == \A a \in Apps : R[a] # None => R[a].name <= clock /\ R[a].img <= clock

Stamps ==
    /\ Stamped(store) /\ Stamped(routes) /\ Stamped(routeFile)
    /\ \A c \in containers : c.name <= clock
    /\ \A v \in verified : v[2] <= clock
    /\ \A a \in Apps : \A v \in history[a] : v.img <= clock

\* Container names are unique, a port has one running container, and the image
\* of a container exists.
Distinct ==
    /\ \A c, d \in containers : c.app = d.app /\ c.name = d.name => c = d
    /\ \A c, d \in containers : c.up /\ d.up /\ c.port = d.port => c = d
    /\ \A c \in containers : <<c.app, c.img>> \in images

AllRun == \A R \in {store, routes, routeFile} : AllRunIn(containers, R)

\* An application that is served keeps a record.
Recorded == \A a \in Apps : routes[a] # None => store[a] # None

World == Stamps /\ Distinct /\ AllRun /\ Recorded

-----------------------------------------------------------------------------
Building  == {"start", "verify", "commit", "save", "env_rollback", "cleanup"}
Numbered  == Building \cup {"record", "retire", "restore"} \cup Syncing

Absent(R, a, name) == R[a] # None => R[a].name # name

\* Any request: its kind, and that what it read is from the past.
Known(p) == Working(p) =>
    /\ req[p].kind \in Cutovers
    /\ req[p].old.name <= clock /\ req[p].old.img <= clock
    /\ \A v \in req[p].seen : v.img <= clock

\* The candidate has a stamp of its own.
Numbers(p) ==
    /\ pc[p] \in Numbered =>
         /\ req[p].old.name < req[p].name
         /\ req[p].name <= clock /\ req[p].img <= clock
    /\ pc[p] = "start" => <<req[p].app, req[p].img>> \in images
    /\ pc[p] \in {"start", "verify"} =>
         \A v \in verified : v[1] = req[p].app => v[2] # req[p].name

\* Until its record is saved, and again after it was undone, no one knows it.
Hidden(p) == pc[p] \in Building =>
    /\ Absent(store, req[p].app, req[p].name)
    /\ Absent(routes, req[p].app, req[p].name)
    /\ Absent(routeFile, req[p].app, req[p].name)

\* It runs from its start on; it is recorded from Save on, and routed to and
\* written to the route files when the old one is retired.
Advanced(p) == LET a == req[p].app IN
    /\ pc[p] \in {"verify", "commit", "save"} => Runs(a, req[p].cand)
    /\ pc[p] \in Syncing \cup {"restore"} =>
         store[a] = IF req[p].restoring THEN req[p].old ELSE req[p].cand
    /\ pc[p] \in {"record", "retire"} =>
         store[a] = req[p].cand /\ routes[a] = req[p].cand /\ routeFile[a] = req[p].cand

\* Undoing means that something failed, and the records to put back is live.
Undoing(p) ==
    /\ pc[p] \in {"restore", "env_rollback"} => faults # 0
    /\ pc[p] \in Syncing /\ req[p].restoring => faults # 0
    /\ pc[p] \notin Syncing \cup {"env_rollback", "cleanup"} => ~req[p].restoring

Previous(p) == LET a == req[p].app IN
    Serial /\ Working(p) =>
        /\ Runs(a, req[p].old)
        /\ pc[p] \in Building \cup {"lock", "build"} => store[a] = req[p].old

\* The synchronization under way writes what is recorded; it is main()'s before
\* any request.
Synchronizing(t) ==
    /\ pc[t] \in {"write", "reload"} => req[t].snap = store
    /\ pc[t] = "reload" => routeFile = store

Booting == pc[Main] # "idle" => \A p \in Procs : pc[p] = "idle"

Progress(p) == Known(p) /\ Numbers(p) /\ Hidden(p) /\ Advanced(p) /\ Undoing(p) /\ Previous(p)

\* Outside a switch, Caddy serves what is recorded, but for what a crash or a
\* failing synchronization at startup may have left.
Settled ==
    /\ crashes = 0 \/ (faults = 0 /\ pc[Main] = "idle")
    /\ \A p \in Procs : pc[p] \notin Syncing \cup {"restore"}
    => routes = store

\* The environment file: untouched up to Commit, the candidate's from then on,
\* and what the record lists unless the request is between the two.
Environment(p) == LET a == req[p].app IN
    /\ pc[p] \in {"build", "start", "verify", "commit"} => envFile[a] = req[p].prevEnv
    /\ pc[p] \in {"save", "env_rollback", "record", "retire", "restore"} \cup Syncing
           => envFile[a] = Effective(p)
    /\ HasCandidate(p) => req[p].cand.env = Effective(p)
    /\ req[p].kind = "rollback" => req[p].ask = Keep
    /\ Serial /\ crashes = 0 /\ pc[p] \notin {"idle", "lock"} => req[p].prevEnv = req[p].old.env

Ahead(p) == pc[p] \in {"save", "env_rollback"} \/ (pc[p] \in Syncing /\ req[p].restoring)

RecordMatches == crashes = 0 => \A a \in Apps :
    store[a] # None /\ (\A p \in Procs : req[p].app = a => ~Ahead(p))
        => store[a].env = envFile[a]

CutInv ==
    /\ World /\ Booting /\ Settled /\ RecordMatches
    /\ \A p \in Procs : Progress(p) /\ Environment(p)
    /\ \A t \in Threads : Synchronizing(t)

CutOK == Undisturbed => CutInv

-----------------------------------------------------------------------------
(***************************************************************************)
(* The step of a request: under the lock it is the only one.               *)
(***************************************************************************)
Waiting(q) == pc[q] \in {"idle", "lock"}

CutStep(p) ==
    \/ LockRedeploy(p)  \/ LockRollback(p)  \/ Build(p)  \/ StartOK(p)  \/ StartFailed(p)
    \/ Healthy(p)  \/ Unhealthy(p)  \/ Cleanup(p)  \/ CommitEnvironment(p)  \/ SaveRecord(p)
    \/ RollbackEnvironment(p)  \/ RestoreRecord(p)  \/ RecordHistory(p)  \/ RetireOld(p)

LEMMA CutSteps ==
    ASSUME TypeOK, CutInv, NEW p \in Procs, Lock(p) \/ Work(p)
    PROVE  CutStep(p) /\ Working(p) /\ req[p].kind \in Cutovers
<1>1. Working(p)
  BY DEF Lock, Work, Working, LockDeploy, LockRedeploy, LockRollback, Build, StartOK, StartFailed, Healthy, Unhealthy, Cleanup, CommitEnvironment, SaveRecord, RollbackEnvironment, RestoreRecord, RecordHistory, RetireOld, RestartStop, RestartUp, DeleteContainer, DeleteHistoryImages, DeleteHistory, DeleteImage, DeleteEnvironment, DeleteRecord
<1>2. req[p].kind \in Cutovers /\ RequestOK(p)
  BY <1>1 DEF CutInv, Progress, Known, TypeOK
<1>3. pc[p] \notin Restarting \cup Deleting
  BY <1>2 DEF RequestOK
<1>4. ~LockDeploy(p)
  BY <1>2 DEF LockDeploy
<1>5. ~(RestartStop(p) \/ RestartUp(p))
  BY <1>3 DEF RestartStop, RestartUp
<1>6. ~(DeleteContainer(p) \/ DeleteHistoryImages(p) \/ DeleteHistory(p))
  BY <1>3 DEF DeleteContainer, DeleteHistoryImages, DeleteHistory
<1>7. ~(DeleteImage(p) \/ DeleteEnvironment(p) \/ DeleteRecord(p))
  BY <1>3 DEF DeleteImage, DeleteEnvironment, DeleteRecord
<1>8. CutStep(p)
  BY <1>4, <1>5, <1>6, <1>7 DEF Lock, Work, CutStep
<1> QED BY <1>1, <1>2, <1>8

LEMMA Alone ==
    ASSUME TypeOK, MutexHeld, CutInv, NEW p \in Procs, Working(p), mu \in {None, p}
    PROVE  /\ \A q \in Procs \ {p} : Waiting(q)
           /\ pc[Main] = "idle"
<1>1. ASSUME NEW q \in Procs \ {p} PROVE Waiting(q)
  <2>1. ~InCriticalSection(q)
    BY ConstantsAssumption DEF MutexHeld
  <2>2. pc[q] \in Steps /\ RequestOK(q) /\ (Working(q) => req[q].kind \in Cutovers)
    BY DEF TypeOK, CutInv, Progress, Known
  <2> QED BY <2>1, <2>2 DEF InCriticalSection, Locked, RequestOK, Working, Waiting
<1>2. pc[Main] = "idle"
  BY DEF CutInv, Booting, Working
<1> QED BY <1>1, <1>2

LEMMA Holder ==
    ASSUME TypeOK, MutexHeld, CutInv, NEW p \in Procs,
           CutStep(p) \/ (Sync(p) /\ req[p].kind \in Cutovers)
    PROVE  Working(p) /\ mu \in {None, p}
<1>1. Working(p) /\ (mu = None \/ pc[p] \in Locked \/ pc[p] \in Syncing)
  BY DEF CutStep, LockRedeploy, LockRollback, Build, StartOK, StartFailed, Healthy, Unhealthy, Cleanup, CommitEnvironment, SaveRecord, RollbackEnvironment, RestoreRecord, RecordHistory, RetireOld, Sync, SyncList, SyncWrite, SyncReload, Working, Locked
<1>2. req[p].kind \in Cutovers
  BY <1>1 DEF CutInv, Progress, Known
<1> QED BY <1>1, <1>2 DEF MutexHeld, InCriticalSection

-----------------------------------------------------------------------------
(***************************************************************************)
(* What a step of a request changes.                                       *)
(***************************************************************************)
\* An image that a container of the next state uses is kept.
ImagesUsed == \A c \in containers' : <<c.app, c.img>> \in images => <<c.app, c.img>> \in images'

\* Removable spares the images in use.
LEMMA Spares ==
    ASSUME NEW a, NEW I, NEW C, images' = images \ Removable(a, I, C), containers' \subseteq C
    PROVE  ImagesUsed
BY DEF Removable, ImagesUsed

LEMMA CutEffects ==
    ASSUME TypeOK, CutInv, NEW p \in Procs, CutStep(p)
    PROVE  /\ UNCHANGED <<routeFile, routes, crashes>>
           /\ clock' \in {clock, clock + 1}
           /\ faults' \in {faults, faults + 1}
           /\ \/ store' = store
              \/ pc[p] = "save" /\ store' = [store EXCEPT ![req[p].app] = req[p].cand]
              \/ pc[p] = "restore" /\ store' = [store EXCEPT ![req[p].app] = req[p].old]
           /\ \/ verified' = verified
              \/ pc[p] = "verify" /\ verified' = verified \cup {<<req[p].app, req[p].name, req[p].img>>}
           /\ \/ history' = history
              \/ pc[p] = "record" /\ history' = [history EXCEPT ![req[p].app] = Retained(Extended(p))]
<1> USE DEF CutStep, LockRedeploy, LockRollback, Build, StartOK, StartFailed, Healthy, Unhealthy, Cleanup, CommitEnvironment, SaveRecord, RollbackEnvironment, RestoreRecord, RecordHistory, RetireOld, Fault, NoFault, caddy, docker, files
<1>1. UNCHANGED <<routeFile, routes, crashes>>
  OBVIOUS
<1>2. clock' \in {clock, clock + 1} /\ faults' \in {faults, faults + 1}
  OBVIOUS
<1>3. \/ store' = store
      \/ pc[p] = "save" /\ store' = [store EXCEPT ![req[p].app] = req[p].cand]
      \/ pc[p] = "restore" /\ store' = [store EXCEPT ![req[p].app] = req[p].old]
  OBVIOUS
<1>4. \/ verified' = verified
      \/ pc[p] = "verify" /\ verified' = verified \cup {<<req[p].app, req[p].name, req[p].img>>}
  OBVIOUS
<1>5. \/ history' = history
      \/ pc[p] = "record" /\ history' = [history EXCEPT ![req[p].app] = Retained(Extended(p))]
  OBVIOUS
<1> HIDE DEF CutStep, LockRedeploy, LockRollback, Build, StartOK, StartFailed, Healthy, Unhealthy, Cleanup, CommitEnvironment, SaveRecord, RollbackEnvironment, RestoreRecord, RecordHistory, RetireOld, Fault, NoFault, caddy, docker, files
<1> QED BY <1>1, <1>2, <1>3, <1>4, <1>5

LEMMA DockerEffects ==
    ASSUME TypeOK, CutInv, NEW p \in Procs, CutStep(p)
    PROVE  /\ \/ containers' = containers
              \/ /\ pc[p] = "start" /\ Named(req[p].app, req[p].name) = {}
                 /\ \E q \in Ports, up \in BOOLEAN :
                      FirstFree(q) /\ containers' = containers \cup {Candidate(p, q, up)}
              \/ pc[p] = "cleanup" /\ containers' = containers \ Named(req[p].app, req[p].name)
              \/ pc[p] = "retire" /\ containers' = containers \ Named(req[p].app, req[p].old.name)
           /\ ImagesUsed
<1> DEFINE a == req[p].app
<1>1. CASE StartFailed(p)
  <2>1. \/ containers' = containers
        \/ /\ pc[p] = "start" /\ Named(req[p].app, req[p].name) = {}
           /\ \E q \in Ports, up \in BOOLEAN :
                FirstFree(q) /\ containers' = containers \cup {Candidate(p, q, up)}
    BY <1>1 DEF StartFailed
  <2>2. images' = images \/ images' = images \ Removable(a, {req[p].img}, containers')
    BY <1>1 DEF StartFailed
  <2>3. ImagesUsed
    BY <2>2, Spares DEF ImagesUsed
  <2> QED BY <2>1, <2>3
<1>2. CASE Cleanup(p)
  <2> DEFINE rest == containers \ Named(a, req[p].name)
  <2>1. pc[p] = "cleanup" /\ containers' \in {containers, rest}
    BY <1>2 DEF Cleanup, docker
  <2>2. \/ images' = images
        \/ images' = images \ {}
        \/ images' = images \ Removable(a, {req[p].img}, rest) /\ containers' = rest
    BY <1>2 DEF Cleanup, docker
  <2>3. ImagesUsed
    BY <2>2, Spares DEF ImagesUsed
  <2> QED BY <2>1, <2>3
<1>3. CASE RecordHistory(p)
  <2>1. PICK I : images' = images \/ images' = images \ Removable(a, I, containers)
    BY <1>3 DEF RecordHistory
  <2>2. containers' = containers
    BY <1>3 DEF RecordHistory
  <2> QED BY <2>1, <2>2, Spares DEF ImagesUsed
<1>4. CASE StartOK(p)
  BY <1>4 DEF StartOK, ImagesUsed
<1>5. CASE RetireOld(p)
  BY <1>5 DEF RetireOld, ImagesUsed
<1>6. CASE Build(p)
  BY <1>6 DEF Build, ImagesUsed
<1>7. CASE ~(StartFailed(p) \/ Cleanup(p) \/ RecordHistory(p) \/ StartOK(p) \/ RetireOld(p) \/ Build(p))
  <2>1. UNCHANGED <<containers, images>>
    BY <1>7 DEF CutStep, LockRedeploy, LockRollback, Healthy, Unhealthy, CommitEnvironment, SaveRecord, RollbackEnvironment, RestoreRecord, docker
  <2> QED BY <2>1 DEF ImagesUsed
<1> QED BY <1>1, <1>2, <1>3, <1>4, <1>5, <1>6, <1>7

-----------------------------------------------------------------------------
(***************************************************************************)
(* A step of a request preserves what is said of the world.                *)
(***************************************************************************)
\* Under the lock, and with one failure at most.
Chosen(p) ==
    /\ TypeOK /\ MutexHeld /\ CutInv /\ Undisturbed'
    /\ CutStep(p) /\ Working(p) /\ req[p].app \in Apps
    /\ req[p].old \in Record /\ req[p] \in Request
    /\ Progress(p) /\ Environment(p) /\ RequestOK(p)
    /\ req[p].kind \in Cutovers

LEMMA Choice ==
    ASSUME TypeOK, MutexHeld, CutInv, Undisturbed', NEW p \in Procs, Lock(p) \/ Work(p)
    PROVE  Chosen(p)
<1>1. CutStep(p) /\ Working(p) /\ req[p].kind \in Cutovers
  BY CutSteps
<1>2. RequestOK(p) /\ req[p] \in Request
  BY DEF TypeOK
<1> QED
  BY <1>1, <1>2 DEF Chosen, CutInv, RequestOK

\* Undoing a failure means to be alone.
LEMMA UndoneAlone ==
    ASSUME NEW p \in Procs, Chosen(p), faults # 0
    PROVE  Serial /\ faults' = faults /\ faults = 1
BY CutEffects DEF Chosen, Undisturbed, TypeOK, Serial

LEMMA StampsStep == ASSUME NEW p \in Procs, Chosen(p) PROVE Stamps'
<1> DEFINE a == req[p].app
<1>0. TypeOK /\ Stamps /\ clock \in Nat /\ clock' \in {clock, clock + 1}
  BY CutEffects DEF Chosen, CutInv, World, TypeOK
<1>1. Stamped(routes)' /\ Stamped(routeFile)'
  BY <1>0, CutEffects DEF Chosen, Stamps, Stamped, TypeOK, Routes, Record
<1>2. Stamped(store)'
  <2>1. pc[p] = "save" => req[p].cand \in Record /\ req[p].cand.name <= clock /\ req[p].cand.img <= clock
    BY DEF Chosen, RequestOK, HasCandidate, Progress, Numbers, Numbered, Building
  <2>2. req[p].old \in Record /\ req[p].old.name <= clock /\ req[p].old.img <= clock
    BY DEF Chosen, Progress, Known
  <2> QED
    BY <1>0, <2>1, <2>2, CutEffects DEF Chosen, Stamps, Stamped, TypeOK, Routes, Record
<1>3. \A c \in containers' : c.name <= clock'
  <2>1. pc[p] = "start" => req[p].name <= clock /\ req[p].name \in Nat
    BY DEF Chosen, Progress, Numbers, Numbered, Building, Request
  <2> QED
    BY <1>0, <2>1, DockerEffects DEF Chosen, Stamps, Candidate, TypeOK, Container
<1>4. \A v \in verified' : v[2] <= clock'
  <2>1. pc[p] = "verify" => req[p].name <= clock /\ req[p].name \in Nat
    BY DEF Chosen, Progress, Numbers, Numbered, Building, Request
  <2> QED
    BY <1>0, <2>1, CutEffects DEF Chosen, Stamps, TypeOK
<1>5. \A b \in Apps : \A v \in history'[b] : v.img <= clock'
  <2>1. \A v \in Extended(p) : v \in Version /\ v.img <= clock
    BY <1>0 DEF Extended, Displaced, Chosen, Progress, Known, Stamps, TypeOK, Request, Version, Record
  <2>2. Retained(Extended(p)) \subseteq Extended(p)
    BY DEF Retained
  <2>3. \A b \in Apps : \A v \in history'[b] : v \in history[b] \/ v \in Extended(p)
    BY <1>0, <2>2, CutEffects DEF Chosen, TypeOK
  <2> QED
    BY <1>0, <2>1, <2>3 DEF Stamps, TypeOK, Version
<1> QED
  BY <1>1, <1>2, <1>3, <1>4, <1>5 DEF Stamps

LEMMA DistinctStep == ASSUME NEW p \in Procs, Chosen(p) PROVE Distinct'
<1> DEFINE a == req[p].app
<1>0. TypeOK /\ Distinct /\ ImagesUsed /\ a \in Apps
  BY DockerEffects DEF Chosen, CutInv, World
<1>1. CASE containers' \subseteq containers
  BY <1>0, <1>1 DEF Distinct, ImagesUsed
<1>2. ASSUME NEW q \in Ports, NEW up \in BOOLEAN, pc[p] = "start", FirstFree(q),
             Named(a, req[p].name) = {}, containers' = containers \cup {Candidate(p, q, up)}
      PROVE  Distinct'
  <2>1. \A c \in containers : c.app = a => c.name # req[p].name
    BY <1>2 DEF Named
  <2>2. \A c \in containers : c.up => c.port # q
    BY <1>2 DEF FirstFree, FreePorts
  <2>3. <<a, req[p].img>> \in images
    BY <1>2 DEF Chosen, Progress, Numbers
  <2> QED
    BY <1>0, <1>2, <2>1, <2>2, <2>3 DEF Distinct, ImagesUsed, Candidate
<1> QED
  BY <1>1, <1>2, DockerEffects DEF Chosen

LEMMA RunStep == ASSUME NEW p \in Procs, Chosen(p) PROVE AllRun'
<1> DEFINE a == req[p].app
<1>0. TypeOK /\ AllRun /\ a \in Apps
  BY DEF Chosen, CutInv, World
<1>1. \A R \in {routes, routeFile, store'} : AllRunIn(containers, R)
  <2>1. pc[p] = "save" => Runs(a, req[p].cand)
    BY DEF Chosen, Progress, Advanced
  <2>2. pc[p] = "restore" => Runs(a, req[p].old)
    <3>1. pc[p] = "restore" => Serial
      BY UndoneAlone DEF Chosen, Progress, Undoing
    <3> QED BY <3>1 DEF Chosen, Progress, Previous
  <2>3. AllRunIn(containers, store')
    BY <1>0, <2>1, <2>2, CutEffects DEF Chosen, AllRun, AllRunIn, Runs, TypeOK, Routes
  <2> QED BY <1>0, <2>3 DEF AllRun
<1>2. \A R \in {routes, routeFile, store'} : AllRunIn(containers', R)
  <2>1. CASE containers \subseteq containers'
    BY <1>1, <2>1 DEF AllRunIn, RunsIn
  <2>2. CASE pc[p] = "cleanup" /\ containers' = containers \ Named(a, req[p].name)
    <3>1. store' = store
      BY <2>2, CutEffects DEF Chosen
    <3>2. \A R \in {routes, routeFile, store'} : Absent(R, a, req[p].name)
      BY <2>2, <3>1 DEF Chosen, Progress, Hidden, Building
    <3> QED
      BY <1>1, <2>2, <3>2 DEF AllRunIn, RunsIn, Named, Absent
  <2>3. CASE pc[p] = "retire" /\ containers' = containers \ Named(a, req[p].old.name)
    <3>1. store' = store
      BY <2>3, CutEffects DEF Chosen
    <3>2. req[p].cand \in Record /\ req[p].cand.name = req[p].name /\ req[p].old.name < req[p].name
      BY <2>3 DEF Chosen, Progress, Numbers, Numbered, RequestOK, HasCandidate
    <3>3. \A R \in {routes, routeFile, store'} : R[a] = req[p].cand
      BY <2>3, <3>1 DEF Chosen, Progress, Advanced
    <3>4. req[p].cand.name # req[p].old.name
      BY <3>2 DEF Chosen, Record
    <3> QED
      BY <1>1, <2>3, <3>3, <3>4 DEF AllRunIn, RunsIn, Named
  <2> QED
    BY <2>1, <2>2, <2>3, DockerEffects DEF Chosen
<1> QED
  BY <1>2, CutEffects DEF Chosen, AllRun

LEMMA WorldStep == ASSUME NEW p \in Procs, Chosen(p) PROVE World'
<1>1. req[p].old # None /\ (pc[p] = "save" => req[p].cand # None)
  BY NoneAssumption DEF Chosen, RequestOK, HasCandidate
<1>2. Recorded'
  BY <1>1, CutEffects DEF Chosen, CutInv, World, Recorded, TypeOK, Routes
<1> QED BY <1>2, StampsStep, DistinctStep, RunStep DEF World

-----------------------------------------------------------------------------
(***************************************************************************)
(* A step of a request preserves what is said of the requests.  Those that *)
(* wait for the lock only see the clock advance.                           *)
(***************************************************************************)
LEMMA Bystanders ==
    ASSUME NEW p \in Procs, Chosen(p)
    PROVE  /\ \A q \in Procs \ {p} : Progress(q)' /\ Environment(q)' /\ Waiting(q)'
           /\ \A t \in Threads \ {p} : Synchronizing(t)'
           /\ pc'[Main] = "idle"
<1>1. (\A q \in Procs \ {p} : Waiting(q)) /\ pc[Main] = "idle"
  BY Holder, Alone DEF Chosen
<1>2. Others(p)
  <2>1. Lock(p) \/ Work(p)
    BY DEF Chosen, CutStep, Lock, Work
  <2> QED BY <2>1, WorkOthers DEF Chosen
<1>3. clock \in Nat /\ clock' \in {clock, clock + 1}
  BY CutEffects DEF Chosen, TypeOK
<1>4. ASSUME NEW q \in Procs \ {p} PROVE Progress(q)' /\ Environment(q)' /\ Waiting(q)'
  <2>1. pc'[q] = pc[q] /\ req'[q] = req[q] /\ Waiting(q) /\ Progress(q) /\ Environment(q) /\ ~Serial
    BY <1>1, <1>2 DEF Others, Chosen, CutInv, Serial
  <2>2. req[q] \in Request /\ (Working(q) => req[q].old \in Record /\ req[q].kind # "deploy")
    BY <2>1 DEF Chosen, TypeOK, RequestOK, Progress, Known
  <2>3. Known(q)'
    BY <1>3, <2>1, <2>2 DEF Progress, Known, Working, Record, Request, Version
  <2>4. Numbers(q)' /\ Hidden(q)' /\ Advanced(q)' /\ Undoing(q)' /\ Previous(q)'
    BY <2>1 DEF Waiting, Progress, Numbers, Numbered, Building, Hidden, Advanced, Undoing, Previous, Serial
  <2>5. Environment(q)'
    BY <2>1 DEF Waiting, Environment, HasCandidate
  <2> QED BY <2>1, <2>3, <2>4, <2>5 DEF Progress, Waiting
<1>5. ASSUME NEW t \in Threads \ {p} PROVE Synchronizing(t)'
  BY <1>1, <1>2 DEF Others, Synchronizing, Waiting
<1>6. pc'[Main] = "idle"
  BY <1>1, <1>2, ConstantsAssumption DEF Others
<1> QED BY <1>4, <1>5, <1>6

\* A request that has returned has nothing to say.
LEMMA Returned ==
    ASSUME NEW p \in Procs, TypeOK, Finish(p)
    PROVE  Progress(p)' /\ Environment(p)' /\ Synchronizing(p)'
<1>1. pc'[p] = "idle" /\ req'[p] = NoRequest
  BY FinishOthers, TypeParts
<1>2. ~NoRequest.restoring /\ NoRequest.kind = "none"
  BY DEF NoRequest
<1> QED
  BY <1>1, <1>2 DEF Progress, Environment, Synchronizing, Known, Numbers, Numbered, Building,
       Hidden, Advanced, Undoing, Previous, HasCandidate, Working

\* A container that runs keeps running until the request that displaces it, or
\* that gives it up, returns.
LEMMA KeepsRunning ==
    ASSUME NEW p \in Procs, Chosen(p), ~Finish(p), NEW r, Runs(req[p].app, r)
    PROVE  RunsIn(containers', req[p].app, r)
<1>1. pc[p] \notin {"cleanup", "retire"}
  BY DEF Chosen, CutStep, LockRedeploy, LockRollback, Build, StartOK, StartFailed, Healthy, Unhealthy, Cleanup, CommitEnvironment, SaveRecord, RollbackEnvironment, RestoreRecord, RecordHistory, RetireOld
<1>2. containers \subseteq containers'
  BY <1>1, DockerEffects DEF Chosen
<1> QED BY <1>2 DEF Runs, RunsIn

\* No record has the next stamp.
LEMMA FreshAbsent ==
    ASSUME TypeOK, Stamps, NEW a \in Apps
    PROVE  /\ Absent(store, a, clock + 1) /\ Absent(routes, a, clock + 1)
           /\ Absent(routeFile, a, clock + 1)
<1>1. ASSUME NEW R \in Routes, Stamped(R) PROVE Absent(R, a, clock + 1)
  <2>1. R[a] # None => R[a].name \in Nat /\ R[a].name <= clock
    BY <1>1 DEF Routes, Record, Stamped
  <2> QED BY <2>1 DEF Absent, TypeOK
<1> QED BY <1>1 DEF TypeOK, Stamps

LEMMA LockStep ==
    ASSUME NEW p \in Procs, Chosen(p), ~Finish(p), LockRedeploy(p) \/ LockRollback(p)
    PROVE  Progress(p)' /\ Environment(p)'
<1> DEFINE a == req[p].app
<1>1. /\ pc[p] = "lock" /\ pc'[p] \in {"build", "start"}
      /\ UNCHANGED <<store, envFile, containers, images, routeFile, routes, faults, crashes, verified>>
      /\ \/ pc'[p] = "build" /\ req' = [req EXCEPT ![p].prevEnv = envFile[a]] /\ clock' = clock
            /\ ~(req[p].ask = Keep /\ req[p].old.env # envFile[a])
         \/ \E v \in history[a] :
              /\ pc'[p] = "start" /\ Newer(history[a], v) = {} /\ clock' = clock + 1
              /\ ~RollbackRefused(a, req[p].old)
              /\ req[p].kind = "rollback"
              /\ req' = [req EXCEPT ![p] =
                           [@ EXCEPT !.prevEnv = envFile[a], !.img = v.img,
                              !.name = clock + 1, !.seen = history[a]]]
  <2>1. pc \in [Threads -> Steps]
    BY DEF Chosen, TypeOK
  <2> QED BY <2>1 DEF LockRedeploy, LockRollback, Goto, files, docker, caddy
<1>2. /\ Stamps /\ TypeOK /\ clock \in Nat /\ history[a] \in SUBSET Version /\ req[p] \in Request
      /\ Progress(p) /\ Environment(p) /\ a \in Apps /\ req[p].old \in Record /\ Working(p)
  BY DEF Chosen, CutInv, World, TypeOK
<1>3. ~req[p].restoring
  BY <1>1, <1>2 DEF Progress, Undoing
<1>4. CASE Serial /\ crashes = 0 => envFile[a] = req[p].old.env
  <2>1. CASE pc'[p] = "build"
    <3>1. /\ req'[p].kind = req[p].kind /\ req'[p].app = a /\ req'[p].old = req[p].old
          /\ req'[p].seen = req[p].seen /\ req'[p].restoring = req[p].restoring
          /\ req'[p].prevEnv = envFile[a] /\ req'[p].ask = req[p].ask /\ clock' = clock
      BY <1>1, <1>2, <2>1 DEF TypeOK, Request
    <3>2. Progress(p)'
      BY <1>1, <1>2, <1>3, <2>1, <3>1 DEF Progress, Known, Working, Numbers, Numbered, Building, Hidden, Advanced, Undoing, Previous, Runs
    <3>3. Environment(p)'
      BY <1>1, <1>2, <1>4, <2>1, <3>1 DEF Environment, HasCandidate
    <3> QED BY <3>2, <3>3
  <2>2. CASE pc'[p] = "start"
    <3>1. PICK v \in history[a] :
              /\ Newer(history[a], v) = {} /\ clock' = clock + 1
              /\ ~RollbackRefused(a, req[p].old)
              /\ req' = [req EXCEPT ![p] =
                           [@ EXCEPT !.prevEnv = envFile[a], !.img = v.img,
                              !.name = clock + 1, !.seen = history[a]]]
      BY <1>1, <2>2
    <3>0. clock' = clock + 1 /\ images' = images /\ verified' = verified
      BY <1>1, <3>1
    <3>2. /\ req'[p].kind = req[p].kind /\ req'[p].app = a /\ req'[p].old = req[p].old
          /\ req'[p].seen = history[a] /\ req'[p].restoring = req[p].restoring
          /\ req'[p].prevEnv = envFile[a] /\ req'[p].ask = req[p].ask
          /\ req'[p].img = v.img /\ req'[p].name = clock + 1
      BY <1>2, <3>1 DEF TypeOK, Request
    <3>3. <<a, v.img>> \in images /\ v.img <= clock /\ v.img \in Nat
      BY <1>2, <3>1 DEF RollbackRefused, Stamps, Version
    <3>4. Known(p)'
      BY <1>2, <3>1, <3>2 DEF Progress, Known, Stamps, Record, Version
    <3>5. Numbers(p)'
      <4>1. req[p].old.name \in Nat /\ req[p].old.name <= clock
        BY <1>2 DEF Progress, Known, Record
      <4>2. \A w \in verified : w[2] # clock + 1
        BY <1>2 DEF TypeOK, Stamps
      <4> QED
        BY <1>2, <2>2, <3>0, <3>2, <3>3, <4>1, <4>2 DEF Numbers
    <3>6. Hidden(p)'
      <4>1. /\ Absent(store, a, clock + 1) /\ Absent(routes, a, clock + 1)
            /\ Absent(routeFile, a, clock + 1)
        BY <1>2, FreshAbsent
      <4> QED BY <1>1, <3>2, <4>1 DEF Hidden, Absent
    <3>7. Advanced(p)' /\ Undoing(p)' /\ Previous(p)'
      BY <1>1, <1>2, <1>3, <2>2, <3>2 DEF Progress, Advanced, Undoing, Previous, Building, Runs
    <3>8. Environment(p)'
      BY <1>1, <1>2, <1>4, <2>2, <3>2 DEF Environment, HasCandidate
    <3> QED BY <3>4, <3>5, <3>6, <3>7, <3>8 DEF Progress
  <2> QED BY <1>1, <2>1, <2>2
<1>5. Serial /\ crashes = 0 => envFile[a] = req[p].old.env
  <2>1. Serial => store[a] = req[p].old
    BY <1>1, <1>2 DEF Progress, Previous
  <2>2. Serial => \A q \in Procs : ~Ahead(q)
    BY <1>1 DEF Serial, Ahead
  <2>3. req[p].old # None
    BY <1>2, NoneAssumption
  <2> QED BY <2>1, <2>2, <2>3, <1>2 DEF Chosen, CutInv, RecordMatches
<1> QED BY <1>4, <1>5

LEMMA BuildStep ==
    ASSUME NEW p \in Procs, Chosen(p), ~Finish(p), Build(p)
    PROVE  Progress(p)' /\ Environment(p)'
<1> DEFINE a == req[p].app
<1>1. /\ pc[p] = "build" /\ pc'[p] = "start"
      /\ UNCHANGED <<store, envFile, containers, routeFile, routes, faults, crashes, verified>>
      /\ clock' = clock + 1 /\ images' = images \cup {<<a, clock + 1>>}
      /\ req' = [req EXCEPT ![p] =
                   [@ EXCEPT !.img = clock + 1,
                      !.name = IF req[p].kind = "deploy" THEN 0 ELSE clock + 1]]
  BY DEF Build, Goto, files, caddy, Chosen, TypeOK
<1>2. /\ Stamps /\ TypeOK /\ clock \in Nat /\ req[p] \in Request
      /\ Progress(p) /\ Environment(p) /\ a \in Apps /\ req[p].old \in Record /\ Working(p)
      /\ req[p].kind \in Cutovers
  BY DEF Chosen, CutInv, World, TypeOK
<1>3. /\ req'[p].kind = req[p].kind /\ req'[p].app = a /\ req'[p].old = req[p].old
      /\ req'[p].seen = req[p].seen /\ req'[p].restoring = req[p].restoring
      /\ req'[p].prevEnv = req[p].prevEnv /\ req'[p].ask = req[p].ask
      /\ req'[p].img = clock + 1 /\ req'[p].name = clock + 1
  BY <1>1, <1>2 DEF TypeOK, Request
<1>4. Known(p)'
  BY <1>1, <1>2, <1>3 DEF Progress, Known, Record, Version, Request
<1>5. Numbers(p)'
  <2>1. req[p].old.name \in Nat /\ req[p].old.name <= clock
    BY <1>2 DEF Progress, Known, Record
  <2>2. \A w \in verified : w[2] # clock + 1
    BY <1>2 DEF TypeOK, Stamps
  <2> QED
    BY <1>1, <1>2, <1>3, <2>1, <2>2 DEF Numbers
<1>6. Hidden(p)'
  <2>1. /\ Absent(store, a, clock + 1) /\ Absent(routes, a, clock + 1)
        /\ Absent(routeFile, a, clock + 1)
    BY <1>2, FreshAbsent
  <2> QED BY <1>1, <1>3, <2>1 DEF Hidden, Absent
<1>7. Advanced(p)' /\ Undoing(p)' /\ Previous(p)'
  BY <1>1, <1>2, <1>3 DEF Progress, Advanced, Undoing, Previous, Building, Runs
<1>8. Environment(p)'
  BY <1>1, <1>2, <1>3 DEF Environment, HasCandidate
<1> QED BY <1>4, <1>5, <1>6, <1>7, <1>8 DEF Progress

LEMMA CandidateStep ==
    ASSUME NEW p \in Procs, Chosen(p), StartOK(p)
    PROVE  Progress(p)' /\ Environment(p)'
<1> DEFINE a == req[p].app
<1>1. PICK q \in Ports :
        /\ pc[p] = "start" /\ pc'[p] = "verify"
        /\ containers' = containers \cup {Candidate(p, q, TRUE)}
        /\ req' = [req EXCEPT ![p].cand = [name |-> req[p].name, img |-> req[p].img,
                                           port |-> q, env |-> Effective(p)]]
        /\ UNCHANGED <<store, envFile, images, routeFile, routes, clock, faults, crashes, verified>>
  BY DEF StartOK, Goto, files, caddy, Chosen, TypeOK
<1>2. /\ req[p] \in Request /\ req \in [Threads -> Request]
      /\ Progress(p) /\ Environment(p) /\ a \in Apps /\ Working(p)
      /\ ~req[p].restoring
  BY <1>1 DEF Chosen, TypeOK, Progress, Undoing
<1>3. /\ req'[p].kind = req[p].kind /\ req'[p].app = a /\ req'[p].old = req[p].old
      /\ req'[p].seen = req[p].seen /\ req'[p].restoring = req[p].restoring
      /\ req'[p].prevEnv = req[p].prevEnv /\ req'[p].ask = req[p].ask
      /\ req'[p].img = req[p].img /\ req'[p].name = req[p].name
      /\ req'[p].cand = [name |-> req[p].name, img |-> req[p].img, port |-> q, env |-> Effective(p)]
  BY <1>1, <1>2 DEF Request
<1>4. Known(p)' /\ Numbers(p)' /\ Hidden(p)' /\ Undoing(p)'
  BY <1>1, <1>2, <1>3 DEF Progress, Known, Working, Numbers, Numbered, Building, Hidden, Absent, Undoing
<1>5. Advanced(p)'
  <2>1. RunsIn(containers', a, req'[p].cand)
    <3> DEFINE d == Candidate(p, q, TRUE)
    <3>1. d.app = a /\ d.name = req[p].name /\ d.img = req[p].img /\ d.port = q /\ d.up = TRUE
      BY DEF Candidate
    <3>3. d \in containers'
      BY <1>1
    <3> HIDE DEF d
    <3>2. LET r == req'[p].cand IN r.name = req[p].name /\ r.img = req[p].img /\ r.port = q
      BY <1>3
    <3> QED BY <3>1, <3>2, <3>3 DEF RunsIn
  <2>2. Runs(req[p].app, req[p].cand)'
    BY <1>3, <2>1 DEF Runs
  <2> QED BY <1>1, <2>2 DEF Advanced
<1>6. Previous(p)'
  <2>1. Runs(a, req[p].old) => RunsIn(containers', a, req[p].old)
    BY <1>1 DEF Runs, RunsIn
  <2> QED BY <1>1, <1>2, <1>3, <2>1 DEF Progress, Previous, Building, Runs
<1>7. Environment(p)'
  <2>1. Effective(p)' = Effective(p)
    BY <1>3 DEF Effective
  <2> QED BY <1>1, <1>2, <1>3, <2>1 DEF Environment, HasCandidate
<1> QED BY <1>4, <1>5, <1>6, <1>7 DEF Progress

LEMMA VerifyStep ==
    ASSUME NEW p \in Procs, Chosen(p), Healthy(p) \/ Unhealthy(p)
    PROVE  Progress(p)' /\ Environment(p)'
<1> DEFINE a == req[p].app
<1>1. /\ pc[p] = "verify" /\ pc'[p] \in {"commit", "save", "cleanup"} /\ req' = req
      /\ pc'[p] = "save" => req[p].kind = "rollback"
      /\ UNCHANGED <<store, envFile, containers, images, routeFile, routes, clock, faults, crashes>>
  BY DEF Healthy, Unhealthy, Goto, files, docker, caddy, Chosen, TypeOK
<1>2. /\ Progress(p) /\ Environment(p) /\ a \in Apps /\ Working(p) /\ req[p].kind \in Cutovers
  BY DEF Chosen, TypeOK
<1>3. Known(p)' /\ Numbers(p)' /\ Hidden(p)' /\ Undoing(p)'
  BY <1>1, <1>2 DEF Progress, Known, Working, Numbers, Numbered, Building, Hidden, Absent, Undoing
<1>4. Advanced(p)' /\ Previous(p)'
  BY <1>1, <1>2 DEF Progress, Advanced, Previous, Building, Runs
<1>5. Environment(p)'
  BY <1>1, <1>2 DEF Environment, HasCandidate, Effective
<1> QED BY <1>3, <1>4, <1>5 DEF Progress

LEMMA CommitStep ==
    ASSUME NEW p \in Procs, Chosen(p), CommitEnvironment(p)
    PROVE  Progress(p)' /\ Environment(p)'
<1> DEFINE a == req[p].app
<1>1. /\ pc[p] = "commit" /\ pc'[p] \in {"save", "cleanup"} /\ req' = req
      /\ \/ /\ envFile' = IF req[p].ask = Keep THEN envFile ELSE [envFile EXCEPT ![a] = req[p].ask]
            /\ faults' = faults
         \/ pc'[p] = "cleanup" /\ envFile' = envFile
      /\ UNCHANGED <<store, containers, images, routeFile, routes, clock, crashes, verified>>
  BY DEF CommitEnvironment, Goto, NoFault, docker, caddy, Chosen, TypeOK
<1>2. /\ Progress(p) /\ Environment(p) /\ a \in Apps /\ Working(p) /\ envFile \in [Apps -> Envs]
  BY DEF Chosen, TypeOK
<1>3. Known(p)' /\ Numbers(p)' /\ Hidden(p)' /\ Undoing(p)'
  BY <1>1, <1>2 DEF Progress, Known, Working, Numbers, Numbered, Building, Hidden, Absent, Undoing
<1>4. Advanced(p)' /\ Previous(p)'
  BY <1>1, <1>2 DEF Progress, Advanced, Previous, Building, Runs
<1>5. pc'[p] = "save" => envFile'[a] = Effective(p)
  BY <1>1, <1>2 DEF Environment, Effective, Chosen, CommitEnvironment, Goto, TypeOK
<1>6. Environment(p)'
  BY <1>1, <1>2, <1>5 DEF Environment, HasCandidate, Effective
<1> QED BY <1>3, <1>4, <1>6 DEF Progress

LEMMA SaveStep ==
    ASSUME NEW p \in Procs, Chosen(p), SaveRecord(p)
    PROVE  Progress(p)' /\ Environment(p)'
<1> DEFINE a == req[p].app
<1>1. /\ pc[p] = "save" /\ req' = req
      /\ \/ pc'[p] = "list" /\ store' = [store EXCEPT ![a] = req[p].cand]
         \/ pc'[p] = "env_rollback" /\ store' = store /\ faults' = faults + 1
      /\ UNCHANGED <<envFile, containers, images, routeFile, routes, clock, crashes, verified>>
  BY DEF SaveRecord, Goto, Fault, docker, caddy, Chosen, TypeOK
<1>2. /\ Progress(p) /\ Environment(p) /\ a \in Apps /\ Working(p)
      /\ store \in Routes /\ faults \in Nat
  BY DEF Chosen, TypeOK
<1>3. Known(p)' /\ Numbers(p)' /\ Hidden(p)' /\ Undoing(p)'
  BY <1>1, <1>2 DEF Progress, Known, Working, Numbers, Numbered, Building, Hidden, Absent, Undoing
<1>4. Advanced(p)' /\ Previous(p)'
  BY <1>1, <1>2 DEF Progress, Advanced, Previous, Undoing, Building, Runs, Routes
<1>5. Environment(p)'
  BY <1>1, <1>2 DEF Environment, HasCandidate, Effective
<1> QED BY <1>3, <1>4, <1>5 DEF Progress

LEMMA UndoStep ==
    ASSUME NEW p \in Procs, Chosen(p), RollbackEnvironment(p)
    PROVE  Progress(p)' /\ Environment(p)'
<1> DEFINE a == req[p].app
<1>1. /\ pc[p] = "env_rollback" /\ req' = req /\ pc'[p] = "cleanup"
      /\ UNCHANGED <<store, containers, images, routeFile, routes, clock, crashes, verified>>
  BY DEF RollbackEnvironment, Goto, docker, caddy, Chosen, TypeOK
<1>2. /\ Progress(p) /\ Environment(p) /\ a \in Apps /\ Working(p)
  BY DEF Chosen, TypeOK
<1>3. Known(p)' /\ Numbers(p)' /\ Hidden(p)' /\ Undoing(p)'
  BY <1>1, <1>2 DEF Progress, Known, Working, Numbers, Numbered, Building, Hidden, Absent, Undoing
<1>4. Advanced(p)' /\ Previous(p)'
  BY <1>1, <1>2 DEF Progress, Advanced, Previous, Building, Runs
<1>5. Environment(p)'
  BY <1>1, <1>2 DEF Environment, HasCandidate, Effective
<1> QED BY <1>3, <1>4, <1>5 DEF Progress

LEMMA RestoreStep ==
    ASSUME NEW p \in Procs, Chosen(p), RestoreRecord(p)
    PROVE  Progress(p)' /\ Environment(p)' /\ store' = [store EXCEPT ![req[p].app] = req[p].old]
           /\ pc'[p] = "list" /\ req'[p].restoring /\ req'[p].app = req[p].app
<1> DEFINE a == req[p].app
<1>1. pc[p] = "restore" /\ faults # 0
  BY DEF Chosen, Progress, Undoing, RestoreRecord
<1>2. Serial /\ faults' = faults /\ faults = 1
  BY <1>1, UndoneAlone
<1>3. /\ pc'[p] = "list" /\ req' = [req EXCEPT ![p].restoring = TRUE]
      /\ store' = [store EXCEPT ![a] = req[p].old]
      /\ UNCHANGED <<envFile, containers, images, routeFile, routes, clock, crashes, verified>>
  BY <1>2 DEF RestoreRecord, Goto, Fault, docker, caddy, Chosen, TypeOK
<1>4. /\ Progress(p) /\ Environment(p) /\ a \in Apps /\ Working(p) /\ store \in Routes
      /\ req[p] \in Request /\ req \in [Threads -> Request]
  BY DEF Chosen, TypeOK
<1>5. /\ req'[p].kind = req[p].kind /\ req'[p].app = a /\ req'[p].old = req[p].old
      /\ req'[p].seen = req[p].seen /\ req'[p].restoring
      /\ req'[p].prevEnv = req[p].prevEnv /\ req'[p].ask = req[p].ask
      /\ req'[p].img = req[p].img /\ req'[p].name = req[p].name /\ req'[p].cand = req[p].cand
  BY <1>3, <1>4 DEF Request
<1>6. Known(p)' /\ Numbers(p)' /\ Hidden(p)' /\ Undoing(p)'
  BY <1>1, <1>2, <1>3, <1>4, <1>5 DEF Progress, Known, Working, Numbers, Numbered, Building, Hidden, Undoing
<1>7. Advanced(p)' /\ Previous(p)'
  BY <1>1, <1>3, <1>4, <1>5 DEF Progress, Advanced, Previous, Building, Runs, Routes
<1>8. Environment(p)'
  BY <1>1, <1>3, <1>4, <1>5 DEF Environment, HasCandidate, Effective
<1> QED BY <1>3, <1>5, <1>6, <1>7, <1>8 DEF Progress

LEMMA HistoryStep ==
    ASSUME NEW p \in Procs, Chosen(p), RecordHistory(p)
    PROVE  Progress(p)' /\ Environment(p)'
<1> DEFINE a == req[p].app
<1>1. /\ pc[p] = "record" /\ req' = req /\ pc'[p] = "retire"
      /\ UNCHANGED <<store, envFile, containers, routeFile, routes, clock, crashes, verified>>
  BY DEF RecordHistory, Goto, caddy, Chosen, TypeOK
<1>2. /\ Progress(p) /\ Environment(p) /\ a \in Apps /\ Working(p)
  BY DEF Chosen, TypeOK
<1>3. Known(p)' /\ Numbers(p)' /\ Hidden(p)' /\ Undoing(p)'
  BY <1>1, <1>2 DEF Progress, Known, Working, Numbers, Numbered, Building, Hidden, Undoing
<1>4. Advanced(p)' /\ Previous(p)'
  BY <1>1, <1>2 DEF Progress, Advanced, Previous, Building, Runs
<1>5. Environment(p)'
  BY <1>1, <1>2 DEF Environment, HasCandidate, Effective
<1> QED BY <1>3, <1>4, <1>5 DEF Progress

LEMMA OwnStep ==
    ASSUME NEW p \in Procs, Chosen(p)
    PROVE  Progress(p)' /\ Environment(p)' /\ Synchronizing(p)'
<1>1. CASE Finish(p)
  BY <1>1, Returned DEF Chosen
<1>2. CASE ~Finish(p)
  <2>1. ~(StartFailed(p) \/ Cleanup(p) \/ RetireOld(p))
    BY <1>2 DEF StartFailed, Cleanup, RetireOld
  <2>2. Progress(p)' /\ Environment(p)'
    BY <1>2, <2>1, LockStep, BuildStep, CandidateStep, VerifyStep, CommitStep, SaveStep, UndoStep, RestoreStep, HistoryStep DEF Chosen, CutStep
  <2>3. pc'[p] \notin {"write", "reload"}
    BY <1>2, <2>1 DEF Chosen, TypeOK, CutStep, Goto, LockRedeploy, LockRollback, Build, StartOK, Healthy, Unhealthy, CommitEnvironment, SaveRecord, RollbackEnvironment, RestoreRecord, RecordHistory
  <2> QED BY <2>2, <2>3 DEF Synchronizing
<1> QED BY <1>1, <1>2

LEMMA SettledStep == ASSUME NEW p \in Procs, Chosen(p) PROVE Settled'
<1> SUFFICES ASSUME crashes = 0 \/ faults' = 0, pc'[p] \notin Syncing \cup {"restore"}
             PROVE  routes' = store'
  BY CutEffects DEF Settled, Chosen
<1>1. pc[p] \notin {"save", "restore"} \/ store' = store
  <2>1. SaveRecord(p) => store' = store
    BY DEF SaveRecord, Goto, Chosen, TypeOK
  <2>2. ~RestoreRecord(p)
    BY RestoreStep
  <2> QED
    BY <2>1, <2>2 DEF Chosen, CutStep, LockRedeploy, LockRollback, Build, StartOK, StartFailed, Healthy, Unhealthy, Cleanup, CommitEnvironment, RollbackEnvironment, RecordHistory, RetireOld, files
<1>2. store' = store /\ routes' = routes
  BY <1>1, CutEffects DEF Chosen
<1>3. pc[p] \notin Syncing \cup {"restore"}
  <2>1. ~RestoreRecord(p)
    BY RestoreStep
  <2> QED
    BY <2>1 DEF Chosen, CutStep, LockRedeploy, LockRollback, Build, StartOK, StartFailed, Healthy, Unhealthy, Cleanup, CommitEnvironment, SaveRecord, RollbackEnvironment, RecordHistory, RetireOld
<1>4. \A q \in Procs \ {p} : pc[q] \notin Syncing \cup {"restore"}
  BY Holder, Alone DEF Chosen, Waiting
<1>5. pc[Main] = "idle" /\ (crashes = 0 \/ faults = 0)
  BY Holder, Alone, CutEffects DEF Chosen, TypeOK
<1> QED
  BY <1>2, <1>3, <1>4, <1>5 DEF Chosen, CutInv, Settled

\* The environment file of another application is left alone.
LEMMA OtherFiles ==
    ASSUME NEW p \in Procs, Chosen(p), NEW a \in Apps \ {req[p].app}
    PROVE  store'[a] = store[a] /\ envFile'[a] = envFile[a]
<1>1. store'[a] = store[a]
  BY CutEffects DEF Chosen, TypeOK, Routes
<1>2. \/ envFile' = envFile
      \/ \E e : envFile' = [envFile EXCEPT ![req[p].app] = e]
  BY DEF Chosen, CutStep, LockRedeploy, LockRollback, Build, StartOK, StartFailed, Healthy, Unhealthy, Cleanup, CommitEnvironment, SaveRecord, RollbackEnvironment, RestoreRecord, RecordHistory, RetireOld, files
<1>3. envFile'[a] = envFile[a]
  BY <1>2 DEF Chosen, TypeOK
<1> QED BY <1>1, <1>3

LEMMA MatchesStep == ASSUME NEW p \in Procs, Chosen(p) PROVE RecordMatches'
<1> SUFFICES ASSUME crashes = 0, NEW a \in Apps, store'[a] # None,
                    \A q \in Procs : req'[q].app = a => ~Ahead(q)'
             PROVE  store'[a].env = envFile'[a]
  BY CutEffects DEF RecordMatches, Chosen
<1>0. \A q \in Procs \ {p} : ~Ahead(q)
  BY Holder, Alone DEF Chosen, Waiting, Ahead
<1>1. CASE a # req[p].app
  <2>1. \A q \in Procs : req[q].app = a => ~Ahead(q)
    BY <1>0, <1>1
  <2> QED BY <1>1, <2>1, OtherFiles DEF Chosen, CutInv, RecordMatches
<1>2. CASE a = req[p].app
  <2>0. Environment(p) /\ Progress(p) /\ TypeOK /\ RecordMatches
    BY DEF Chosen, CutInv
  <2>1. CASE SaveRecord(p)
    <3>1. pc[p] = "save" /\ req' = req /\ envFile' = envFile /\ req[p].cand.env = Effective(p) /\ envFile[a] = Effective(p)
      BY <1>2, <2>0, <2>1 DEF SaveRecord, Environment, HasCandidate
    <3>2. pc'[p] # "env_rollback"
      BY <1>2, <3>1 DEF Ahead
    <3>3. store'[a] = req[p].cand
      BY <1>2, <2>0, <2>1, <3>2 DEF SaveRecord, Goto, TypeOK, Routes
    <3> QED BY <3>1, <3>3
  <2>2. CASE RestoreRecord(p)
    <3>1. Ahead(p)' /\ req'[p].app = a
      BY <1>2, <2>2, RestoreStep DEF Ahead
    <3> QED BY <3>1
  <2>3. CASE CommitEnvironment(p)
    <3>1. pc[p] = "commit" /\ pc'[p] # "save" /\ store' = store /\ req' = req
      BY <1>2, <2>3 DEF CommitEnvironment, Ahead, files
    <3>2. envFile' = envFile
      BY <2>0, <2>3, <3>1 DEF CommitEnvironment, Goto, TypeOK
    <3>3. ~Ahead(p)
      BY <2>0, <3>1 DEF Ahead
    <3> QED BY <1>0, <3>1, <3>2, <3>3, <2>0 DEF RecordMatches
  <2>4. CASE RollbackEnvironment(p)
    <3>1. pc[p] = "env_rollback" /\ store' = store /\ faults # 0
      BY <2>0, <2>4 DEF RollbackEnvironment, Progress, Undoing
    <3>2. Serial /\ faults' = faults
      BY <3>1, UndoneAlone
    <3>3. store[a] = req[p].old /\ req[p].prevEnv = req[p].old.env
      BY <1>2, <2>0, <3>1, <3>2 DEF Progress, Previous, Building, Environment, Working
    <3>4. envFile'[a] = req[p].prevEnv
      BY <1>2, <2>0, <2>4, <3>1, <3>2 DEF RollbackEnvironment, Environment, Effective, Fault, TypeOK
    <3> QED BY <3>1, <3>3, <3>4
  <2>5. CASE ~(SaveRecord(p) \/ RestoreRecord(p) \/ CommitEnvironment(p) \/ RollbackEnvironment(p))
    <3>1. UNCHANGED <<store, envFile>>
      BY <2>5 DEF Chosen, CutStep, LockRedeploy, LockRollback, Build, StartOK, StartFailed, Healthy, Unhealthy, Cleanup, RecordHistory, RetireOld, files
    <3>2. ~Ahead(p)
      BY <2>5 DEF Chosen, Ahead, CutStep, LockRedeploy, LockRollback, Build, StartOK, StartFailed, Healthy, Unhealthy, Cleanup, RecordHistory, RetireOld
    <3> QED BY <1>0, <3>1, <3>2, <2>0 DEF RecordMatches
  <2> QED BY <2>1, <2>2, <2>3, <2>4, <2>5
<1> QED BY <1>1, <1>2

LEMMA CutInvWork ==
    ASSUME TypeOK, MutexHeld, CutInv, Undisturbed', NEW p \in Procs, Lock(p) \/ Work(p)
    PROVE  CutInv'
<1>1. Chosen(p)
  BY Choice
<1>2. World' /\ Settled' /\ RecordMatches'
  BY <1>1, WorldStep, SettledStep, MatchesStep
<1>3. (\A q \in Procs : Progress(q)' /\ Environment(q)') /\ (\A t \in Threads : Synchronizing(t)')
  BY <1>1, Bystanders, OwnStep
<1>4. Booting'
  BY <1>1, Bystanders DEF Booting
<1> QED BY <1>2, <1>3, <1>4 DEF CutInv

-----------------------------------------------------------------------------
(***************************************************************************)
(* A synchronization writes what is recorded, and what is recorded runs.   *)
(***************************************************************************)
LEMMA SyncEffects ==
    ASSUME TypeOK, CutInv, NEW t \in Threads, Sync(t)
    PROVE  /\ UNCHANGED <<store, history, envFile, containers, images, clock, crashes, verified>>
           /\ routeFile' \in {routeFile, store} /\ routes' \in {routes, store}
           /\ faults' \in {faults, faults + 1}
<1>1. Synchronizing(t)
  BY DEF CutInv
<1> QED
  BY <1>1 DEF Sync, SyncList, SyncWrite, SyncReload, Synchronizing, Fault, NoFault, files, docker, caddy

LEMMA WorldSync ==
    ASSUME TypeOK, CutInv, NEW t \in Threads, Sync(t)
    PROVE  World'
<1>1. World
  BY DEF CutInv
<1>2. Stamps'
  BY <1>1, SyncEffects DEF World, Stamps, Stamped
<1>3. Distinct'
  BY <1>1, SyncEffects DEF World, Distinct
<1>4. AllRun'
  BY <1>1, SyncEffects DEF World, AllRun, AllRunIn, RunsIn
<1>5. Recorded'
  BY <1>1, SyncEffects DEF World, Recorded
<1> QED BY <1>2, <1>3, <1>4, <1>5 DEF World

\* How the synchronization of a request goes on when there is one failure.
Onward(p) ==
    \/ pc'[p] = "write" /\ req'[p].snap = store
    \/ pc'[p] = "reload" /\ req'[p].snap = store /\ routeFile' = store
    \/ pc'[p] = "record" /\ ~req[p].restoring /\ routes' = store /\ routeFile' = store
    \/ pc'[p] = "restore" /\ ~req[p].restoring /\ faults' # 0
    \/ /\ pc'[p] = "env_rollback" /\ req[p].restoring
       /\ routes' = store /\ routeFile' = store

LEMMA SyncMoves ==
    ASSUME TypeOK, CutInv, Undisturbed', NEW p \in Procs, Sync(p)
    PROVE  /\ pc[p] \in Syncing /\ req[p].kind \in Cutovers /\ Onward(p)
           /\ req'[p].kind = req[p].kind /\ req'[p].app = req[p].app /\ req'[p].old = req[p].old
           /\ req'[p].name = req[p].name /\ req'[p].img = req[p].img /\ req'[p].cand = req[p].cand
           /\ req'[p].seen = req[p].seen /\ req'[p].restoring = req[p].restoring
           /\ req'[p].prevEnv = req[p].prevEnv /\ req'[p].ask = req[p].ask
<1>1. pc[p] \in Syncing /\ Progress(p) /\ Synchronizing(p)
  BY DEF Sync, SyncList, SyncWrite, SyncReload, CutInv
<1>2. req[p].kind \in Cutovers
  BY <1>1 DEF Progress, Known, Working
<1>3. /\ pc \in [Threads -> Steps] /\ req \in [Threads -> Request] /\ req[p] \in Request
      /\ faults \in Nat
  BY DEF TypeOK
<1>4. Fault => ~req[p].restoring /\ faults' # 0
  <2>1. req[p].restoring => faults # 0
    BY <1>1 DEF Progress, Undoing
  <2> QED
    BY <1>3, <2>1 DEF Fault, Undisturbed
<1>5. CASE SyncList(p)
  <2>1. CASE NoFault /\ pc' = [pc EXCEPT ![p] = "write"] /\ req' = [req EXCEPT ![p].snap = store]
    BY <1>1, <1>2, <1>3, <2>1 DEF Onward, Request
  <2>2. CASE Fault /\ pc' = [pc EXCEPT ![p] = "restore"] /\ req' = req
    BY <1>1, <1>2, <1>3, <1>4, <2>2 DEF Onward
  <2> QED BY <1>2, <1>4, <1>5, <2>1, <2>2 DEF SyncList, AfterSync, Goto
<1>6. CASE SyncWrite(p)
  <2>0. req[p].snap = store
    BY <1>1, <1>6 DEF SyncWrite, Synchronizing
  <2>1. CASE NoFault /\ routeFile' = req[p].snap /\ pc' = [pc EXCEPT ![p] = "reload"] /\ req' = req
    BY <1>1, <1>2, <1>3, <2>0, <2>1 DEF Onward
  <2>2. CASE Fault /\ pc' = [pc EXCEPT ![p] = "restore"] /\ req' = req
    BY <1>1, <1>2, <1>3, <1>4, <2>2 DEF Onward
  <2> QED BY <1>2, <1>4, <1>6, <2>1, <2>2 DEF SyncWrite, AfterSync, Goto
<1>7. CASE SyncReload(p)
  <2>0. routeFile = store /\ routeFile' = routeFile
    BY <1>1, <1>7 DEF SyncReload, Synchronizing
  <2>1. CASE NoFault /\ routes' = routeFile /\ req' = req
             /\ pc' = [pc EXCEPT ![p] = IF req[p].restoring THEN "env_rollback" ELSE "record"]
    BY <1>1, <1>2, <1>3, <2>0, <2>1 DEF Onward
  <2>2. CASE Fault /\ pc' = [pc EXCEPT ![p] = "restore"] /\ req' = req
    BY <1>1, <1>2, <1>3, <1>4, <2>2 DEF Onward
  <2> QED BY <1>2, <1>4, <1>7, <2>1, <2>2 DEF SyncReload, AfterSync, Goto
<1> QED BY <1>5, <1>6, <1>7 DEF Sync

LEMMA CutInvSync ==
    ASSUME TypeOK, MutexHeld, CutInv, Undisturbed', NEW p \in Procs, Sync(p)
    PROVE  CutInv'
<1> DEFINE a == req[p].app
<1>0. /\ pc[p] \in Syncing /\ Progress(p) /\ Environment(p) /\ a \in Apps /\ Working(p)
      /\ clock \in Nat /\ req[p].old \in Record /\ store \in Routes /\ req[p] \in Request
  BY SyncMoves DEF CutInv, TypeOK, RequestOK, Working
<1>1. (\A q \in Procs \ {p} : Waiting(q)) /\ pc[Main] = "idle"
  BY SyncMoves, Holder, Alone
<1>2. Others(p)
  BY SyncOthers
<1>3. Known(p)' /\ Numbers(p)' /\ Undoing(p)'
  <2>1. Known(p)' /\ Numbers(p)'
    BY <1>0, SyncMoves, SyncEffects DEF Onward, Progress, Known, Numbers, Numbered, Building, Working
  <2>2. req[p].restoring => faults # 0 /\ faults' # 0
    BY <1>0, SyncEffects DEF Progress, Undoing, TypeOK
  <2>3. Undoing(p)'
    BY <2>2, SyncMoves DEF Onward, Undoing
  <2> QED BY <2>1, <2>3
<1>4. Hidden(p)'
  <2>1. CASE pc'[p] = "env_rollback"
    <3>1. req[p].restoring /\ routes' = store /\ routeFile' = store /\ store' = store
      BY <2>1, SyncMoves, SyncEffects DEF Onward
    <3>2. store[a] = req[p].old /\ req[p].old.name < req[p].name
      BY <1>0, <3>1 DEF Progress, Advanced, Numbers, Numbered
    <3>3. Absent(store, a, req[p].name)
      BY <1>0, <3>2 DEF Absent, Record, Request
    <3> QED BY <3>1, <3>3, SyncMoves DEF Hidden, Absent
  <2>2. CASE pc'[p] # "env_rollback"
    BY <2>2, SyncMoves DEF Onward, Hidden, Building
  <2> QED BY <2>1, <2>2
<1>5. Advanced(p)'
  BY <1>0, SyncMoves, SyncEffects DEF Onward, Progress, Advanced
<1>6. Previous(p)'
  BY <1>0, SyncMoves, SyncEffects DEF Onward, Progress, Previous, Advanced, Runs, Building
<1>7. Environment(p)'
  BY <1>0, SyncMoves, SyncEffects DEF Onward, Environment, HasCandidate, Effective
<1>8. ASSUME NEW q \in Procs \ {p} PROVE Progress(q)' /\ Environment(q)'
  <2>1. pc'[q] = pc[q] /\ req'[q] = req[q] /\ Waiting(q) /\ Progress(q) /\ Environment(q) /\ ~Serial
    BY <1>1, <1>2 DEF Others, CutInv, Serial
  <2>2. Known(q)'
    BY <2>1, SyncEffects DEF Progress, Known, Working
  <2>3. Numbers(q)' /\ Hidden(q)' /\ Advanced(q)' /\ Undoing(q)' /\ Previous(q)'
    BY <2>1 DEF Waiting, Progress, Numbers, Numbered, Building, Hidden, Advanced, Undoing, Previous, Serial
  <2>4. Environment(q)'
    BY <2>1 DEF Waiting, Environment, HasCandidate
  <2> QED BY <2>2, <2>3, <2>4 DEF Progress
<1>9. ASSUME NEW t \in Threads PROVE Synchronizing(t)'
  <2>1. CASE t = p
    BY <2>1, SyncMoves, SyncEffects DEF Onward, Synchronizing
  <2>2. CASE t # p
    BY <1>1, <1>2, <2>2 DEF Others, Synchronizing, Waiting
  <2> QED BY <2>1, <2>2
<1>10. Booting'
  BY <1>1, <1>2, ConstantsAssumption DEF Booting, Others
<1>11. Settled'
  BY SyncMoves, SyncEffects DEF Onward, Settled
<1>12. RecordMatches'
  <2>1. \A q \in Procs : req'[q].app = req[q].app /\ (~Ahead(q)' => ~Ahead(q))
    BY <1>0, <1>2, SyncMoves DEF Onward, Others, Ahead
  <2> QED BY <2>1, SyncEffects DEF CutInv, RecordMatches
<1> QED
  BY <1>3, <1>4, <1>5, <1>6, <1>7, <1>8, <1>9, <1>10, <1>11, <1>12, WorldSync DEF CutInv, Progress

LEMMA CutInvBoot ==
    ASSUME TypeOK, CutInv, Sync(Main)
    PROVE  CutInv'
<1>1. pc[Main] \in Syncing /\ req[Main].kind \notin Cutovers /\ Synchronizing(Main)
  BY DEF Sync, SyncList, SyncWrite, SyncReload, TypeOK, MainOK, CutInv
<1>2. Others(Main)
  BY SyncOthers
<1>3. \A q \in Procs : pc[q] = "idle" /\ pc'[q] = "idle" /\ req'[q] = req[q]
  BY <1>1, <1>2, ConstantsAssumption DEF CutInv, Booting, Others
<1>4. Synchronizing(Main)' /\ (pc'[Main] = "idle" => faults' = faults + 1 \/ routes' = store)
  <2>1. /\ pc \in [Threads -> Steps] /\ req \in [Threads -> Request] /\ req[Main] \in Request
        /\ faults \in Nat
    BY DEF TypeOK
  <2>2. CASE SyncList(Main)
    BY <1>1, <2>1, <2>2 DEF SyncList, AfterSync, Finish, Goto, Fault, files, Synchronizing, Request
  <2>3. CASE SyncWrite(Main)
    BY <1>1, <2>1, <2>3 DEF SyncWrite, AfterSync, Finish, Goto, Fault, files, Synchronizing
  <2>4. CASE SyncReload(Main)
    BY <1>1, <2>1, <2>4 DEF SyncReload, AfterSync, Finish, Goto, Fault, files, Synchronizing
  <2> QED BY <2>2, <2>3, <2>4 DEF Sync
<1>5. \A t \in Threads : Synchronizing(t)'
  BY <1>3, <1>4 DEF Synchronizing
<1>6. \A q \in Procs : Progress(q)' /\ Environment(q)'
  BY <1>3 DEF CutInv, Progress, Known, Numbers, Numbered, Building, Hidden, Advanced, Undoing, Previous, Environment, HasCandidate, Working
<1>7. Booting'
  BY <1>3 DEF Booting
<1>8. Settled'
  <2> SUFFICES ASSUME crashes = 0 \/ (faults' = 0 /\ pc'[Main] = "idle") PROVE routes' = store
    BY SyncEffects DEF Settled
  <2>1. CASE crashes = 0
    BY <1>3, <2>1, SyncEffects DEF CutInv, Settled
  <2>2. CASE faults' = 0 /\ pc'[Main] = "idle"
    BY <1>4, <2>2 DEF TypeOK
  <2> QED BY <2>1, <2>2
<1>9. RecordMatches'
  BY <1>3, SyncEffects DEF CutInv, RecordMatches, Ahead
<1> QED BY <1>5, <1>6, <1>7, <1>8, <1>9, WorldSync DEF CutInv

-----------------------------------------------------------------------------
(***************************************************************************)
(* Arrivals, crashes, the initial state, and the invariant.                *)
(***************************************************************************)
LEMMA CutInvArrival ==
    ASSUME TypeOK, CutInv, Operations \subseteq Cutovers, NEW p \in Procs, Arrival(p)
    PROVE  CutInv'
<1>1. PICK kind \in Kinds, a \in Apps, ask \in Envs \cup {Keep},
           first \in {"lock", "stop", "rm_container"} :
        /\ Begin(p, kind, a, ask, first) /\ store[a] # None
        /\ kind \in Cutovers /\ first = "lock" /\ (kind = "rollback" => ask = Keep)
  BY DEF Arrival, Begin, deployHandler, redeployHandler, githubWebhookHandler,
         rollbackDeploymentHandler, restartDeploymentHandler, deleteDeploymentHandler
<1> DEFINE r == [NoRequest EXCEPT !.kind = kind, !.app = a, !.ask = ask, !.old = store[a]]
<1>2. /\ r.kind = kind /\ r.app = a /\ r.ask = ask /\ r.old = store[a]
      /\ ~r.restoring /\ r.seen = {}
  BY DEF NoRequest
<1>3. /\ pc' = [pc EXCEPT ![p] = "lock"] /\ req' = [req EXCEPT ![p] = r]
      /\ pc[Main] = "idle" /\ pc[p] = "idle"
      /\ UNCHANGED <<store, history, envFile, containers, images, routeFile, routes, clock, faults, crashes, verified>>
  BY <1>1 DEF Begin, Goto, files, docker, caddy
<1> HIDE DEF r
<1>4. pc \in [Threads -> Steps] /\ req \in [Threads -> Request] /\ World
  BY DEF TypeOK, CutInv
<1>5. pc'[p] = "lock" /\ req'[p] = r /\ Others(p)
  BY <1>3, <1>4 DEF Others
<1>6. World'
  <2>1. Stamps'
    BY <1>3, <1>4 DEF World, Stamps, Stamped
  <2>2. Distinct'
    BY <1>3, <1>4 DEF World, Distinct
  <2>3. AllRun'
    BY <1>3, <1>4 DEF World, AllRun, AllRunIn, RunsIn
  <2> QED BY <1>3, <1>4, <2>1, <2>2, <2>3 DEF World, Recorded
<1>7. Progress(p)' /\ Environment(p)'
  <2>1. Known(p)'
    BY <1>1, <1>2, <1>3, <1>4, <1>5 DEF Known, World, Stamps, Stamped
  <2>2. Numbers(p)' /\ Hidden(p)' /\ Advanced(p)' /\ Undoing(p)'
    BY <1>2, <1>5 DEF Numbers, Numbered, Building, Hidden, Advanced, Undoing
  <2>3. Previous(p)'
    BY <1>1, <1>2, <1>3, <1>4, <1>5 DEF Previous, World, AllRun, AllRunIn, Runs
  <2>4. Environment(p)'
    BY <1>1, <1>2, <1>5 DEF Environment, HasCandidate
  <2> QED BY <2>1, <2>2, <2>3, <2>4 DEF Progress
<1>8. ASSUME NEW q \in Procs \ {p} PROVE Progress(q)' /\ Environment(q)'
  <2>1. pc'[q] = pc[q] /\ req'[q] = req[q] /\ Progress(q) /\ Environment(q)
    BY <1>5 DEF Others, CutInv
  <2>2. Known(q)' /\ Numbers(q)' /\ Hidden(q)'
    BY <1>3, <2>1 DEF Progress, Known, Working, Numbers, Hidden, Absent
  <2>3. Advanced(q)' /\ Undoing(q)' /\ Previous(q)'
    BY <1>3, <2>1 DEF Progress, Advanced, Runs, Undoing, Previous, Working
  <2>4. Environment(q)'
    BY <1>3, <2>1 DEF Environment, HasCandidate, Effective
  <2> QED BY <2>2, <2>3, <2>4 DEF Progress
<1>9. \A t \in Threads : Synchronizing(t)'
  BY <1>3, <1>5 DEF CutInv, Synchronizing, Others
<1>10. Booting' /\ pc'[Main] = "idle"
  BY <1>3, <1>5, ConstantsAssumption DEF Booting, Others
<1>11. Settled'
  BY <1>3, <1>5 DEF CutInv, Settled, Others
<1>12. RecordMatches'
  <2> SUFFICES ASSUME crashes = 0, NEW b \in Apps, store[b] # None,
                      \A q \in Procs : req'[q].app = b => ~Ahead(q)'
               PROVE  store[b].env = envFile[b]
    BY <1>3 DEF RecordMatches
  <2>1. \A q \in Procs : req[q].app = b => ~Ahead(q)
    BY <1>3, <1>5 DEF Others, Ahead
  <2> QED BY <2>1 DEF CutInv, RecordMatches
<1> QED
  BY <1>6, <1>7, <1>8, <1>9, <1>10, <1>11, <1>12 DEF CutInv

\* A process that is not at work.
Resting(q) == pc[q] = "idle" /\ req[q] = NoRequest

LEMMA RestingProgress ==
    ASSUME NEW q \in Procs
    PROVE  /\ Resting(q) => Progress(q) /\ Environment(q) /\ ~Ahead(q)
           /\ Resting(q)' => Progress(q)' /\ Environment(q)' /\ ~Ahead(q)'
<1>1. ~NoRequest.restoring /\ NoRequest.kind = "none"
  BY DEF NoRequest
<1> QED
  BY <1>1 DEF Resting, Progress, Environment, Known, Numbers, Numbered, Building,
       Hidden, Advanced, Undoing, Previous, HasCandidate, Working, Ahead

LEMMA CutInvCrash ==
    ASSUME TypeOK, CutInv, Crash
    PROVE  CutInv'
<1>1. /\ UNCHANGED <<store, history, envFile, containers, images, routeFile, routes, clock, faults, verified>>
      /\ crashes' = crashes + 1 /\ pc'[Main] = "list"
      /\ \A q \in Procs : Resting(q)'
  BY ConstantsAssumption DEF Crash, files, docker, caddy, Resting
<1>2. World'
  <2>1. World
    BY DEF CutInv
  <2>2. Stamps'
    BY <1>1, <2>1 DEF World, Stamps, Stamped
  <2>3. Distinct'
    BY <1>1, <2>1 DEF World, Distinct
  <2>4. AllRun'
    BY <1>1, <2>1 DEF World, AllRun, AllRunIn, RunsIn
  <2> QED BY <1>1, <2>1, <2>2, <2>3, <2>4 DEF World, Recorded
<1>3. crashes' # 0
  BY <1>1 DEF TypeOK
<1>4. Settled' /\ RecordMatches' /\ Booting'
  BY <1>1, <1>3 DEF Settled, RecordMatches, Booting, Resting
<1>5. \A t \in Threads : Synchronizing(t)'
  BY <1>1 DEF Synchronizing, Resting
<1> QED
  BY <1>1, <1>2, <1>4, <1>5, RestingProgress DEF CutInv

LEMMA CutInvInit == ASSUME Init PROVE CutInv
<1>1. PICK port \in [Deployed -> Ports] :
        /\ \A a, b \in Deployed : port[a] = port[b] => a = b
        /\ store = [a \in Apps |-> IF a \in Deployed THEN FirstRecord(port[a]) ELSE None]
        /\ containers = {[app |-> a, name |-> 0, img |-> 1, port |-> port[a], up |-> TRUE] : a \in Deployed}
  BY DEF Init
<1>2. /\ images = Deployed \X {1} /\ verified = Deployed \X {0} \X {1}
      /\ history = [a \in Apps |-> {}] /\ envFile = [a \in Apps |-> EmptyEnv]
      /\ routeFile = store /\ routes = store /\ clock = 1 /\ crashes = 0
      /\ pc[Main] = "list" /\ \A q \in Procs : Resting(q)
  BY ConstantsAssumption DEF Init, Resting
<1>3. \A a \in Apps : store[a] # None =>
        /\ a \in Deployed /\ store[a] = FirstRecord(port[a]) /\ port[a] \in Ports
        /\ store[a].name = 0 /\ store[a].img = 1 /\ store[a].port = port[a] /\ store[a].env = EmptyEnv
  BY <1>1 DEF FirstRecord
<1>4. Stamps
  BY <1>1, <1>2, <1>3 DEF Stamps, Stamped
<1>5. Distinct
  <2>1. \A c \in containers : /\ c.app \in Deployed /\ c.img = 1 /\ c.port = port[c.app]
                             /\ c = [app |-> c.app, name |-> 0, img |-> 1, port |-> port[c.app], up |-> TRUE]
    BY <1>1
  <2>2. \A c, d \in containers : c.app = d.app => c = d
    BY <2>1
  <2> QED BY <1>1, <1>2, <2>1, <2>2 DEF Distinct
<1>6. AllRun
  <2>1. ASSUME NEW a \in Apps, store[a] # None PROVE RunsIn(containers, a, store[a])
    <3> DEFINE c == [app |-> a, name |-> 0, img |-> 1, port |-> port[a], up |-> TRUE]
    <3>1. c \in containers
      BY <1>1, <1>3, <2>1
    <3>2. c.app = a /\ c.name = 0 /\ c.img = 1 /\ c.port = port[a] /\ c.up = TRUE
      OBVIOUS
    <3> HIDE DEF c
    <3> QED BY <1>3, <2>1, <3>1, <3>2 DEF RunsIn
  <2> QED BY <1>2, <2>1 DEF AllRun, AllRunIn
<1>7. Booting /\ Settled /\ \A t \in Threads : Synchronizing(t)
  BY <1>2 DEF Booting, Settled, Synchronizing, Resting
<1>8. RecordMatches
  BY <1>2, <1>3 DEF RecordMatches
<1> QED
  BY <1>2, <1>4, <1>5, <1>6, <1>7, <1>8, RestingProgress DEF CutInv, World, Recorded

LEMMA CutInvStutter ==
    ASSUME CutInv, UNCHANGED vars
    PROVE  CutInv'
<1> USE DEF vars
<1>1. World'
  BY DEF CutInv, World, Stamps, Stamped, Distinct, AllRun, AllRunIn, RunsIn, Recorded
<1>2. Booting' /\ Settled' /\ RecordMatches' /\ \A t \in Threads : Synchronizing(t)'
  BY DEF CutInv, Booting, Settled, RecordMatches, Ahead, Synchronizing
<1>3. ASSUME NEW q \in Procs PROVE Progress(q)' /\ Environment(q)'
  <2>1. Progress(q) /\ Environment(q)
    BY DEF CutInv
  <2>2. Known(q)' /\ Numbers(q)' /\ Hidden(q)'
    BY <2>1 DEF Progress, Known, Working, Numbers, Hidden, Absent
  <2>3. Advanced(q)' /\ Undoing(q)' /\ Previous(q)'
    BY <2>1 DEF Progress, Advanced, Runs, RunsIn, Undoing, Previous, Working
  <2>4. Environment(q)'
    BY <2>1 DEF Environment, HasCandidate, Effective
  <2> QED BY <2>2, <2>3, <2>4 DEF Progress
<1> QED BY <1>1, <1>2, <1>3 DEF CutInv

LEMMA FaultsGrow ==
    ASSUME TypeOK, [Next]_vars
    PROVE  Undisturbed' => Undisturbed
<1>1. faults' \in {faults, faults + 1}
  <2> USE DEF Fault, NoFault
  <2>1. ASSUME NEW p \in Procs, Arrival(p) \/ Lock(p) PROVE faults' = faults
    BY <2>1 DEF Arrival, Begin, deployHandler, redeployHandler, githubWebhookHandler, rollbackDeploymentHandler, restartDeploymentHandler, deleteDeploymentHandler, Lock, LockDeploy, LockRedeploy, LockRollback
  <2>2. ASSUME NEW p \in Procs, Work(p) PROVE faults' \in {faults, faults + 1}
    BY <2>2 DEF Work, Build, StartOK, StartFailed, Healthy, Unhealthy, Cleanup, CommitEnvironment, SaveRecord, RollbackEnvironment, RestoreRecord, RecordHistory, RetireOld, RestartStop, RestartUp, DeleteContainer, DeleteHistoryImages, DeleteHistory, DeleteImage, DeleteEnvironment, DeleteRecord
  <2>3. ASSUME NEW t \in Threads, Sync(t) PROVE faults' \in {faults, faults + 1}
    BY <2>3 DEF Sync, SyncList, SyncWrite, SyncReload
  <2>4. Crash \/ UNCHANGED vars => faults' = faults
    BY DEF Crash, vars
  <2> QED BY <2>1, <2>2, <2>3, <2>4 DEF Next
<1> QED BY <1>1 DEF TypeOK, Undisturbed, Serial

LEMMA NextCut ==
    ASSUME TypeOK, MutexHeld, CutOK, Operations \subseteq Cutovers, [Next]_vars
    PROVE  CutOK'
<1> SUFFICES ASSUME Undisturbed' PROVE CutInv'
  BY DEF CutOK
<1>1. CutInv
  BY FaultsGrow DEF CutOK
<1>2. ASSUME NEW t \in Threads, Sync(t) PROVE CutInv'
  BY <1>1, <1>2, CutInvSync, CutInvBoot
<1> QED
  BY <1>1, <1>2, CutInvArrival, CutInvWork, CutInvCrash, CutInvStutter DEF Next

LEMMA CutoverInvariant ==
    ASSUME Operations \subseteq Cutovers
    PROVE  Spec => [](TypeOK /\ MutexHeld /\ CutOK)
<1>1. Init => TypeOK /\ MutexHeld /\ CutOK
  <2>1. Init => MutexHeld
    BY ConstantsAssumption DEF Init, MutexHeld, InCriticalSection, Locked
  <2> QED BY <2>1, InitType, CutInvInit DEF CutOK
<1>2. (TypeOK /\ MutexHeld /\ CutOK) /\ [Next]_vars => (TypeOK /\ MutexHeld /\ CutOK)'
  BY NextType, NextMutex, NextCut
<1> QED BY <1>1, <1>2, PTL DEF Spec

-----------------------------------------------------------------------------
(***************************************************************************)
(* What follows for the visitors and for the files.                        *)
(***************************************************************************)
LEMMA RunningLeads ==
    ASSUME World, NEW R \in {store, routes}, NEW a \in Apps, R[a] # None
    PROVE  Leads(R[a], a) /\ Runs(a, R[a])
<1>1. RunsIn(containers, a, R[a])
  BY DEF World, AllRun, AllRunIn
<1> QED BY <1>1 DEF RunsIn, Runs, Leads, Named

\* Redeployments, webhooks and rollbacks never leave Caddy routing an application
\* to a container that has been removed: in any interleaving, over any number of
\* crashes, as long as nothing fails, and for one at a time with one failure.
THEOREM RoutesAreLive ==
    ASSUME Operations \subseteq Cutovers
    PROVE  Spec => [](Undisturbed => RouteLive)
<1>1. CutOK => (Undisturbed => RouteLive)
  BY RunningLeads DEF CutOK, CutInv, RouteLive
<1> QED BY <1>1, CutoverInvariant, PTL

\* Nor do they leave a record of deployments.json whose container or image is
\* gone, under the same conditions.
THEOREM RecordsAreLive ==
    ASSUME Operations \subseteq Cutovers
    PROVE  Spec => [](Undisturbed => RecordLive)
<1>1. CutOK => (Undisturbed => RecordLive)
  <2> SUFFICES ASSUME World, NEW a \in Apps, store[a] # None
               PROVE  Leads(store[a], a) /\ <<a, store[a].img>> \in images
    BY DEF CutOK, CutInv, RecordLive
  <2> QED BY RunningLeads DEF Runs, RunsIn, World, Distinct
<1> QED BY <1>1, CutoverInvariant, PTL

\* Requests under deployMu never make one application's traffic reach another's
\* container: what is routed to runs, so that its port is not a spare one for a
\* candidate (docker.go:338).  A deletion and a restart, which take no lock, do
\* give such a port away: cross_routing.cfg has the deletion that does.
THEOREM RoutesDoNotCross ==
    ASSUME Operations \subseteq Cutovers
    PROVE  Spec => [](Undisturbed => NoCrossRouting)
<1>1. CutOK => (Undisturbed => NoCrossRouting)
  <2> SUFFICES ASSUME World, NEW a \in Apps, routes[a] # None,
                      NEW c \in containers, c.up, c.port = routes[a].port
               PROVE  c.app = a
    BY DEF CutOK, CutInv, NoCrossRouting
  <2> QED BY RunningLeads DEF Runs, RunsIn, World, Distinct
<1> QED BY <1>1, CutoverInvariant, PTL

\* When every redeployment, webhook and rollback has ended, and none failed,
\* Caddy serves what deployments.json says, whatever the service had in flight
\* when it crashed.
THEOREM RoutesAreRecorded ==
    ASSUME Operations \subseteq Cutovers
    PROVE  Spec => []RoutesFollowStore
<1>1. CutOK => RoutesFollowStore
  BY DEF CutOK, CutInv, Undisturbed, Settled, RoutesFollowStore, AllIdle
<1> QED BY <1>1, CutoverInvariant, PTL

\* Between two releases of an application its record lists the variables of its
\* environment file, so that the next one is not refused: Commit comes before
\* Save, and Rollback undoes it when Save or the cutover fails.
THEOREM EnvironmentsMatch ==
    ASSUME Operations \subseteq Cutovers
    PROVE  Spec => [](Undisturbed => EnvironmentMatches)
<1>1. CutOK => (Undisturbed => EnvironmentMatches)
  BY DEF CutOK, CutInv, RecordMatches, EnvironmentMatches, Quiet
<1> QED BY <1>1, CutoverInvariant, PTL

\* The bound on failures is kept.
LEMMA FaultsBounded == Spec => [](faults <= MaxFaults)
<1>1. Init => TypeOK /\ faults <= MaxFaults
  BY InitType, ConstantsAssumption DEF Init
<1>2. (TypeOK /\ faults <= MaxFaults) /\ [Next]_vars => (TypeOK /\ faults <= MaxFaults)'
  <2> SUFFICES ASSUME TypeOK, faults <= MaxFaults, [Next]_vars PROVE faults' <= MaxFaults
    BY NextType
  <2>1. faults' = faults \/ Fault
    <3>1. ASSUME NEW p \in Procs, Arrival(p) \/ Lock(p) PROVE faults' = faults
      BY <3>1 DEF Arrival, Begin, deployHandler, redeployHandler, githubWebhookHandler, rollbackDeploymentHandler, restartDeploymentHandler, deleteDeploymentHandler, Lock, LockDeploy, LockRedeploy, LockRollback
    <3>2. ASSUME NEW p \in Procs, Work(p) PROVE faults' = faults \/ Fault
      BY <3>2 DEF NoFault, Work, Build, StartOK, StartFailed, Healthy, Unhealthy, Cleanup, CommitEnvironment, SaveRecord, RollbackEnvironment, RestoreRecord, RecordHistory, RetireOld, RestartStop, RestartUp, DeleteContainer, DeleteHistoryImages, DeleteHistory, DeleteImage, DeleteEnvironment, DeleteRecord
    <3>3. ASSUME NEW t \in Threads, Sync(t) PROVE faults' = faults \/ Fault
      BY <3>3 DEF NoFault, Sync, SyncList, SyncWrite, SyncReload
    <3>4. Crash \/ UNCHANGED vars => faults' = faults
      BY DEF Crash, vars
    <3> QED BY <3>1, <3>2, <3>3, <3>4 DEF Next
  <2> QED BY <2>1, ConstantsAssumption DEF Fault, TypeOK
<1> QED BY <1>1, <1>2, PTL DEF Spec

\* A redeployment or rollback that fails once and cleans up its candidate has put
\* the record, the route and the environment file of the version it displaced
\* back, when no other request works on the application and the service has not
\* crashed.
THEOREM FailureRestores ==
    ASSUME Operations \subseteq Cutovers, Serial, MaxFaults <= 1
    PROVE  Spec => FailureKeepsPrevious
<1>1. (TypeOK /\ MutexHeld /\ CutOK) /\ faults <= MaxFaults /\ [Next]_vars =>
        [\A p \in Procs : crashes = 0 /\ Cleanup(p) /\ req[p].kind \in Cutovers =>
            /\ store'[req[p].app] = req[p].old
            /\ routes'[req[p].app] = req[p].old
            /\ envFile'[req[p].app] = req[p].old.env]_vars
  <2> SUFFICES ASSUME TypeOK, CutOK, faults <= MaxFaults,
                      NEW p \in Procs, crashes = 0, Cleanup(p)
               PROVE  /\ store'[req[p].app] = req[p].old
                      /\ routes'[req[p].app] = req[p].old
                      /\ envFile'[req[p].app] = req[p].old.env
    OBVIOUS
  <2>1. CutInv
    BY ConstantsAssumption DEF CutOK, Undisturbed, TypeOK
  <2>2. pc[p] = "cleanup" /\ UNCHANGED <<store, envFile, routes>>
    BY DEF Cleanup, files, caddy
  <2>3. Progress(p) /\ Environment(p) /\ Working(p) /\ req[p].app \in Apps /\ req[p].old \in Record
    BY <2>1, <2>2 DEF CutInv, TypeOK, RequestOK, Working, Progress, Known
  <2>4. store[req[p].app] = req[p].old
    BY <2>2, <2>3 DEF Progress, Previous, Building
  <2>5. routes = store
    BY <2>1, <2>2 DEF CutInv, Settled, Serial
  <2>6. store[req[p].app].env = envFile[req[p].app]
    BY <2>1, <2>2, <2>3, <2>4, NoneAssumption DEF CutInv, RecordMatches, Ahead, Serial
  <2> QED BY <2>2, <2>4, <2>5, <2>6
<1> QED BY <1>1, CutoverInvariant, FaultsBounded, PTL DEF Spec, FailureKeepsPrevious

-----------------------------------------------------------------------------
(***************************************************************************)
(* The visitors see ZeroDowntime: StartOK launches, Healthy approves, a    *)
(* reload switches, Cleanup and RetireOld withdraw what is not served, and *)
(* every other step they do not see.                                       *)
(***************************************************************************)
Running == [a \in Apps |-> RunningReleases(a)]
Checked == [a \in Apps |-> CheckedReleases(a)]
Served  == [a \in Apps |-> IF routes[a] = None THEN None ELSE routes[a].name]

LEMMA Unseen ==
    /\ containers' = containers => Running' = Running
    /\ verified' = verified => Checked' = Checked
    /\ routes' = routes => Served' = Served
BY DEF Running, Checked, Served, RunningReleases, CheckedReleases

\* A container is added or removed: only its application sees it.
LEMMA Added ==
    ASSUME NEW a \in Apps, NEW c, containers' = containers \cup {c}, c.app = a, c.up
    PROVE  Running' = [Running EXCEPT ![a] = @ \cup {c.name}] /\ c.name \in Running'[a]
<1>1. ASSUME NEW b \in Apps
      PROVE  RunningReleases(b)' = IF b = a THEN RunningReleases(b) \cup {c.name} ELSE RunningReleases(b)
  BY DEF RunningReleases
<1> QED BY <1>1 DEF Running

LEMMA Removed ==
    ASSUME NEW a \in Apps, NEW n, containers' = containers \ Named(a, n)
    PROVE  Running' = [Running EXCEPT ![a] = @ \ {n}]
<1>1. ASSUME NEW b \in Apps
      PROVE  RunningReleases(b)' = IF b = a THEN RunningReleases(b) \ {n} ELSE RunningReleases(b)
  BY DEF RunningReleases, Named
<1> QED BY <1>1 DEF Running

LEMMA Launches ==
    ASSUME NEW p \in Procs, Chosen(p), StartOK(p)
    PROVE  Visitors!Next
<1> DEFINE a == req[p].app
           n == req[p].name
<1>1. /\ pc[p] = "start" /\ Named(a, n) = {} /\ UNCHANGED <<verified, routes>> /\ a \in Apps
      /\ \E q \in Ports : containers' = containers \cup {Candidate(p, q, TRUE)}
  BY DEF StartOK, caddy, Chosen
<1>2. PICK q \in Ports : containers' = containers \cup {Candidate(p, q, TRUE)}
  BY <1>1
<1>3. Running' = [Running EXCEPT ![a] = @ \cup {n}] /\ n \in Running'[a]
  <2> DEFINE c == Candidate(p, q, TRUE)
  <2>1. c.app = a /\ c.name = n /\ c.up
    BY DEF Candidate
  <2>2. containers' = containers \cup {c}
    BY <1>2
  <2> HIDE DEF c
  <2>3. Running' = [Running EXCEPT ![a] = @ \cup {c.name}] /\ c.name \in Running'[a]
    BY <1>1, <2>1, <2>2, Added
  <2> QED BY <2>1, <2>3
<1>4. n \notin Running[a]
  BY <1>1 DEF Running, RunningReleases, Named
<1>5. n \notin Checked[a]
  BY <1>1 DEF Checked, CheckedReleases, Chosen, Progress, Numbers
<1>6. UNCHANGED <<Checked, Served>>
  BY <1>1, Unseen
<1> QED
  BY <1>1, <1>3, <1>4, <1>5, <1>6 DEF Visitors!Next, Visitors!Launch, Running, Checked, Served

LEMMA Approves ==
    ASSUME NEW p \in Procs, Chosen(p), Healthy(p)
    PROVE  Visitors!Next
<1> DEFINE a == req[p].app
           n == req[p].name
<1>1. /\ pc[p] = "verify" /\ UNCHANGED <<containers, routes>> /\ a \in Apps
      /\ verified' = verified \cup {<<a, n, req[p].img>>}
  BY DEF Healthy, caddy, docker, Chosen
<1>2. n \in Running[a]
  <2>1. Runs(a, req[p].cand) /\ req[p].cand.name = n
    BY <1>1 DEF Chosen, Progress, Advanced, RequestOK, HasCandidate
  <2> QED BY <1>1, <2>1 DEF Running, RunningReleases, Runs, RunsIn
<1>3. n \notin Checked[a]
  BY <1>1 DEF Checked, CheckedReleases, Chosen, Progress, Numbers
<1>4. Checked' = [Checked EXCEPT ![a] = @ \cup {n}]
  <2>1. ASSUME NEW b \in Apps
        PROVE  CheckedReleases(b)' = IF b = a THEN CheckedReleases(b) \cup {n} ELSE CheckedReleases(b)
    <3>1. <<a, n, req[p].img>>[1] = a /\ <<a, n, req[p].img>>[2] = n
      OBVIOUS
    <3> QED BY <1>1, <3>1 DEF CheckedReleases
  <2> QED BY <2>1 DEF Checked
<1>5. UNCHANGED <<Running, Served>>
  BY <1>1, Unseen
<1> QED
  BY <1>1, <1>2, <1>3, <1>4, <1>5 DEF Visitors!Next, Visitors!Approve, Running, Checked, Served

\* What is removed is not served.
LEMMA Withdraws ==
    ASSUME NEW p \in Procs, Chosen(p), Cleanup(p) \/ RetireOld(p)
    PROVE  Visitors!Next \/ UNCHANGED Visitors!vars
<1> DEFINE a == req[p].app
<1>1. UNCHANGED <<verified, routes>> /\ a \in Apps
  BY DEF Cleanup, RetireOld, caddy, Chosen
<1>2. UNCHANGED <<Checked, Served>>
  BY <1>1, Unseen
<1>3. CASE containers' = containers
  BY <1>2, <1>3, Unseen DEF Visitors!vars, Running, Checked, Served
<1>4. ASSUME NEW n, containers' = containers \ Named(a, n), Served[a] # n
      PROVE  Visitors!Next \/ UNCHANGED Visitors!vars
  <2>1. Running' = [Running EXCEPT ![a] = @ \ {n}]
    BY <1>1, <1>4, Removed
  <2>2. CASE n \in Running[a]
    BY <1>1, <1>2, <1>4, <2>1, <2>2 DEF Visitors!Next, Visitors!Withdraw, Running, Checked, Served
  <2>3. CASE n \notin Running[a]
    <3>1. Running' = Running
      <4>1. Running[a] \ {n} = Running[a]
        BY <2>3
      <4>2. Running = [b \in Apps |-> Running[b]]
        BY DEF Running
      <4> QED BY <2>1, <4>1, <4>2
    <3> QED BY <1>2, <3>1 DEF Visitors!vars, Running, Checked, Served
  <2> QED BY <2>2, <2>3
<1>5. CASE Cleanup(p)
  <2>1. pc[p] = "cleanup" /\ containers' \in {containers, containers \ Named(a, req[p].name)}
    BY <1>5 DEF Cleanup, docker
  <2>2. Served[a] # req[p].name
    <3>1. Absent(routes, a, req[p].name) /\ req[p].name \in Nat
      BY <2>1 DEF Chosen, Progress, Hidden, Building, Request
    <3> QED BY <1>1, <3>1, NoneAssumption DEF Absent, Served
  <2> QED BY <1>3, <1>4, <2>1, <2>2
<1>6. CASE RetireOld(p)
  <2>1. pc[p] = "retire" /\ containers' \in {containers, containers \ Named(a, req[p].old.name)}
    BY <1>6 DEF RetireOld
  <2>2. Served[a] # req[p].old.name
    <3>1. routes[a] = req[p].cand /\ req[p].cand \in Record /\ req[p].cand.name = req[p].name
          /\ req[p].old.name < req[p].name
      BY <2>1 DEF Chosen, Progress, Advanced, Numbers, Numbered, RequestOK, HasCandidate
    <3>2. req[p].cand # None /\ req[p].cand.name # req[p].old.name
      BY <3>1, NoneAssumption DEF Chosen, Record, Request
    <3> QED BY <1>1, <3>1, <3>2 DEF Served
  <2> QED BY <1>3, <1>4, <2>1, <2>2
<1> QED BY <1>5, <1>6

LEMMA Switches ==
    ASSUME TypeOK, CutInv, OnlyVerifiedRouted, NEW t \in Threads, Sync(t)
    PROVE  Visitors!Next \/ UNCHANGED Visitors!vars
<1>1. UNCHANGED <<Running, Checked>> /\ World
  BY SyncEffects, Unseen DEF CutInv
<1>2. CASE routes' = routes
  BY <1>1, <1>2, Unseen DEF Visitors!vars, Running, Checked, Served
<1>3. CASE routes' = store
  <2>1. ASSUME NEW a \in Apps, Served'[a] # Served[a]
        PROVE  Served'[a] \in Running[a] \cap Checked[a]
    <3>1. store[a] # None
      BY <1>1, <1>3, <2>1 DEF Served, World, Recorded
    <3>2. Served'[a] = store[a].name
      BY <1>3, <3>1 DEF Served
    <3>3. store[a].name \in Running[a]
      <4>1. PICK c \in containers : c.app = a /\ c.name = store[a].name /\ c.up
        BY <1>1, <3>1, RunningLeads DEF Runs, RunsIn
      <4> QED BY <4>1 DEF Running, RunningReleases
    <3>4. store[a].name \in Checked[a]
      <4> DEFINE v == <<a, store[a].name, store[a].img>>
      <4>1. v \in verified /\ v[1] = a /\ v[2] = store[a].name
        BY <3>1 DEF OnlyVerifiedRouted, Passed, HasPassed
      <4> HIDE DEF v
      <4>2. v[2] \in CheckedReleases(a)
        BY <4>1 DEF CheckedReleases
      <4>3. Checked[a] = CheckedReleases(a)
        BY DEF Checked
      <4> QED BY <4>1, <4>2, <4>3
    <3> QED BY <3>2, <3>3, <3>4
  <2>2. Visitors!Switch
    BY <1>1, <2>1 DEF Visitors!Switch, Running, Checked, Served
  <2> QED BY <2>2 DEF Visitors!Next
<1> QED BY <1>2, <1>3, SyncEffects

LEMMA VisitorsStep ==
    ASSUME TypeOK, MutexHeld, CutInv, Undisturbed', OnlyVerifiedRouted, [Next]_vars
    PROVE  Visitors!Next \/ UNCHANGED Visitors!vars
<1>1. ASSUME UNCHANGED <<containers, verified, routes>> PROVE UNCHANGED Visitors!vars
  BY <1>1, Unseen DEF Visitors!vars, Running, Checked, Served
<1>2. ASSUME NEW p \in Procs, Lock(p) \/ Work(p)
      PROVE  Visitors!Next \/ UNCHANGED Visitors!vars
  <2>1. Chosen(p)
    BY <1>2, Choice
  <2>2. CASE StartFailed(p)
    <3>1. UNCHANGED <<verified, routes>>
      BY <2>2 DEF StartFailed, caddy
    <3>2. \/ containers' = containers
          \/ \E q \in Ports : containers' = containers \cup {Candidate(p, q, FALSE)}
      BY <2>2 DEF StartFailed
    <3>3. ASSUME NEW b \in Apps PROVE RunningReleases(b)' = RunningReleases(b)
      BY <3>2 DEF RunningReleases, Candidate
    <3>4. Running' = Running
      BY <3>3 DEF Running
    <3> QED BY <3>1, <3>4, Unseen DEF Visitors!vars, Running, Checked, Served
  <2>3. CASE ~(StartFailed(p) \/ StartOK(p) \/ Healthy(p) \/ Cleanup(p) \/ RetireOld(p))
    <3>1. UNCHANGED <<containers, verified, routes>>
      BY <2>1, <2>3 DEF Chosen, CutStep, LockRedeploy, LockRollback, Build, Unhealthy, CommitEnvironment, SaveRecord, RollbackEnvironment, RestoreRecord, RecordHistory, docker, caddy
    <3> QED BY <1>1, <3>1
  <2> QED BY <2>1, <2>2, <2>3, Launches, Approves, Withdraws
<1>3. ASSUME NEW p \in Procs, Arrival(p) PROVE UNCHANGED Visitors!vars
  <2>1. UNCHANGED <<containers, verified, routes>>
    BY <1>3 DEF Arrival, Begin, deployHandler, redeployHandler, githubWebhookHandler, rollbackDeploymentHandler, restartDeploymentHandler, deleteDeploymentHandler, docker, caddy
  <2> QED BY <1>1, <2>1
<1>4. ASSUME Crash \/ UNCHANGED vars PROVE UNCHANGED Visitors!vars
  <2>1. UNCHANGED <<containers, verified, routes>>
    BY <1>4 DEF Crash, vars, docker, caddy
  <2> QED BY <1>1, <2>1
<1> QED BY <1>2, <1>3, <1>4, Switches DEF Next

LEMMA VisitorsInit == ASSUME Init PROVE Visitors!Init
<1>1. PICK port \in [Deployed -> Ports] :
        /\ store = [a \in Apps |-> IF a \in Deployed THEN FirstRecord(port[a]) ELSE None]
        /\ containers = {[app |-> a, name |-> 0, img |-> 1, port |-> port[a], up |-> TRUE] : a \in Deployed}
        /\ verified = Deployed \X {0} \X {1} /\ routes = store
  BY DEF Init
<1>2. ASSUME NEW a \in Apps
      PROVE  /\ RunningReleases(a) = IF a \in Deployed THEN {0} ELSE {}
             /\ CheckedReleases(a) = IF a \in Deployed THEN {0} ELSE {}
             /\ Served[a] \in {0, None} /\ (Served[a] # None => a \in Deployed)
  <2> DEFINE c(b) == [app |-> b, name |-> 0, img |-> 1, port |-> port[b], up |-> TRUE]
  <2>0. \A b : c(b).app = b /\ c(b).name = 0 /\ c(b).up
    OBVIOUS
  <2>a. containers = {c(b) : b \in Deployed}
    BY <1>1
  <2> HIDE DEF c
  <2>1. \A d \in containers : d.app \in Deployed /\ d.name = 0 /\ d.up
    BY <2>0, <2>a
  <2>2. a \in Deployed => \E d \in containers : d.app = a
    BY <2>0, <2>a
  <2>3. RunningReleases(a) = IF a \in Deployed THEN {0} ELSE {}
    BY <2>1, <2>2 DEF RunningReleases
  <2>4. CheckedReleases(a) = IF a \in Deployed THEN {0} ELSE {}
    <3>1. \A v \in verified : v[1] \in Deployed /\ v[2] = 0
      BY <1>1
    <3>2. a \in Deployed => \E v \in verified : v[1] = a
      <4>1. a \in Deployed => <<a, 0, 1>> \in verified /\ <<a, 0, 1>>[1] = a
        BY <1>1
      <4> QED BY <4>1
    <3> QED BY <3>1, <3>2 DEF CheckedReleases
  <2>5. Served[a] \in {0, None} /\ (Served[a] # None => a \in Deployed)
    BY <1>1 DEF Served, FirstRecord
  <2> QED BY <2>3, <2>4, <2>5
<1> QED
  BY <1>2 DEF Visitors!Init, Running, Checked, Served

\* While applications are redeployed and rolled back, any number at once without
\* a failure or one at a time with one failure, and across crashes, their
\* visitors always reach a checked release that runs: safeRedeploy and
\* rollbackDeployment implement ZeroDowntime.
THEOREM NoDowntimeRefined ==
    ASSUME Operations \subseteq Cutovers, MaxFaults = 0 \/ (Serial /\ MaxFaults <= 1)
    PROVE  Spec => NoDowntime
<1>1. Init => Visitors!Init
  BY VisitorsInit
<1> DEFINE Inv == TypeOK /\ MutexHeld /\ CutOK /\ OnlyVerifiedRouted /\ faults <= MaxFaults
<1>2. Inv /\ Inv' /\ [Next]_vars => [Visitors!Next]_(Visitors!vars)
  <2> SUFFICES ASSUME Inv, Inv', [Next]_vars
               PROVE  [Visitors!Next]_(Visitors!vars)
    OBVIOUS
  <2>1. CutInv /\ Undisturbed'
    BY ConstantsAssumption DEF CutOK, Undisturbed, TypeOK, Serial
  <2>2. Visitors!Next \/ UNCHANGED Visitors!vars
    BY <2>1, VisitorsStep
  <2> QED BY <2>2
<1>3. Spec => []Inv
  BY CutoverInvariant, FaultsBounded, VerifiedRouting, PTL
<1> HIDE DEF Inv
<1> QED
  BY <1>1, <1>2, <1>3, PTL DEF Spec, NoDowntime, Visitors!Spec
-----------------------------------------------------------------------------
(***************************************************************************)
(* The history, with one request at a time but any requests and failures.  *)
(* It is short and lists no image twice because the live release is listed *)
(* only as the newest entry: that of a rollback whose Set failed, which    *)
(* the next Push drops and the next rollback takes.                        *)
(***************************************************************************)
Latest(v, V)  == \A w \in V \ {v} : w.at < v.at
Offered(i, V) == \A v \in V : v.img = i => Latest(v, V)
Ordered(V)    == \A v, w \in V : v.img = w.img \/ v.at = w.at => v = w

Dated(V, n) == \A v \in V : v.img <= n /\ v.at <= n

Retaining(a) ==
    /\ store[a] # None => store[a].img <= clock /\ Offered(store[a].img, history[a])
    /\ IsFiniteSet(history[a]) /\ Cardinality(history[a]) <= MaxPrevious
    /\ Ordered(history[a]) /\ Dated(history[a], clock)

\* From the version stamp on, until the displaced release has been recorded.
Pending == Building \cup {"record", "restore"} \cup Syncing

\* The release that a request displaces.
Displacing(p) == LET r == req[p] IN
    r.kind \in Cutovers /\ pc[p] \in Pending \cup {"lock", "build"} =>
        r.old.img <= clock /\ Offered(r.old.img, history[r.app])

\* The release it puts in its place: a new one, or the newest version.
Replacing(p) == LET r == req[p] IN
    r.kind \in Releases /\ pc[p] \in Pending =>
        /\ r.img <= clock /\ Offered(r.img, history[r.app])
        /\ r.kind # "rollback" => \A v \in history[r.app] : v.img < r.img
        /\ r.kind \in Cutovers => r.name <= clock /\ \A v \in history[r.app] : v.at < r.name
        /\ r.kind = "rollback" =>
             /\ r.seen = history[r.app]
             /\ \E v \in r.seen : Newer(r.seen, v) = {} /\ r.img = v.img

\* What is recorded when the history is written.
Recording(p) == LET r == req[p] IN
    /\ pc[p] = "build" => r.kind # "rollback"
    /\ pc[p] \notin Syncing \cup {"env_rollback", "cleanup"} => ~r.restoring
    /\ pc[p] = "record" \/ (pc[p] \in Syncing /\ r.kind \in Cutovers /\ ~r.restoring)
           => store[r.app] = r.cand

Remembering(p) == Displacing(p) /\ Replacing(p) /\ Recording(p)

HistoryInv ==
    /\ \A a \in Apps : Retaining(a)
    /\ \A p \in Procs : Remembering(p)

\* Retained keeps at most maxPrevious versions, the newest among them.
LEMMA RetainedBounded ==
    ASSUME NEW V \in SUBSET Version, IsFiniteSet(V), Ordered(V)
    PROVE  /\ Retained(V) \subseteq V /\ IsFiniteSet(Retained(V))
           /\ Cardinality(Retained(V)) <= MaxPrevious
<1> DEFINE R == Retained(V)
<1> DEFINE rank(e) == Cardinality(Newer(V, e))
<1> DEFINE f == [e \in R |-> rank(e)]
<1>0. MaxPrevious \in Nat /\ \A e \in V : e.at \in Nat
  BY ConstantsAssumption DEF Version
<1>1. R \subseteq V /\ IsFiniteSet(R)
  <2>1. R \subseteq V
    BY DEF Retained
  <2> QED BY <2>1, FS_Subset
<1>2. \A e \in V : IsFiniteSet(Newer(V, e)) /\ rank(e) \in Nat
  <2> SUFFICES ASSUME NEW e \in V PROVE IsFiniteSet(Newer(V, e)) /\ rank(e) \in Nat
    OBVIOUS
  <2>1. Newer(V, e) \in SUBSET V
    BY DEF Newer
  <2> QED BY <2>1, FS_Subset, FS_CardinalityType
<1>3. \A d, e \in V : d.at < e.at => rank(d) # rank(e)
  <2> SUFFICES ASSUME NEW d \in V, NEW e \in V, d.at < e.at PROVE rank(d) # rank(e)
    OBVIOUS
  <2>1. Newer(V, e) \in SUBSET Newer(V, d)
    BY <1>0 DEF Newer
  <2>2. e \in Newer(V, d) /\ e \notin Newer(V, e)
    BY <1>0 DEF Newer
  <2>3. Newer(V, d) # Newer(V, e)
    BY <2>2
  <2> QED BY <1>2, <2>1, <2>3, FS_Subset
<1>4. \A d, e \in R : f[d] = f[e] => d = e
  <2> SUFFICES ASSUME NEW d \in R, NEW e \in R, d # e PROVE f[d] # f[e]
    OBVIOUS
  <2>1. d.at # e.at
    BY <1>1 DEF Ordered
  <2>2. d.at < e.at \/ e.at < d.at
    BY <1>0, <1>1, <2>1
  <2>3. rank(d) # rank(e)
    BY <1>1, <1>3, <2>2
  <2> QED BY <2>3
<1>5. \A e \in R : f[e] \in 0..(MaxPrevious - 1)
  <2> SUFFICES ASSUME NEW e \in R PROVE rank(e) \in 0..(MaxPrevious - 1)
    OBVIOUS
  <2>1. rank(e) < MaxPrevious
    BY DEF Retained
  <2> HIDE DEF rank
  <2> QED BY <1>0, <1>1, <1>2, <2>1
<1> HIDE DEF rank
<1>6. f \in Injection(R, 0..(MaxPrevious - 1))
  <2>1. f \in [R -> 0..(MaxPrevious - 1)]
    BY <1>5
  <2>2. DOMAIN f = R
    OBVIOUS
  <2> HIDE DEF f, R
  <2> QED BY <1>4, <2>1, <2>2 DEF Injection, IsInjective
<1> HIDE DEF f, R
<1>7. /\ IsFiniteSet(0..(MaxPrevious - 1))
      /\ Cardinality(0..(MaxPrevious - 1)) = IF 0 > MaxPrevious - 1 THEN 0 ELSE MaxPrevious - 1 - 0 + 1
  <2>1. MaxPrevious - 1 \in Int
    BY <1>0
  <2> QED BY <2>1, FS_Interval
<1>8. Cardinality(R) <= Cardinality(0..(MaxPrevious - 1))
  BY <1>6, <1>7, FS_Injection
<1>9. Cardinality(0..(MaxPrevious - 1)) = MaxPrevious
  BY <1>0, <1>7
<1>10. Cardinality(R) <= MaxPrevious
  BY <1>8, <1>9
<1> QED BY <1>1, <1>10 DEF R

\* What a cutover records: the displaced release first, then versions with other
\* images, and the image of its candidate at most there.
LEMMA Extension ==
    ASSUME TypeOK, NEW p \in Procs, pc[p] = "record", Retaining(req[p].app), Remembering(p)
    PROVE  LET new == Displaced(p) IN
           /\ Extended(p) \subseteq history[req[p].app] \cup {new}
           /\ Extended(p) \subseteq Version /\ IsFiniteSet(Extended(p)) /\ Ordered(Extended(p))
           /\ Latest(new, Extended(p)) /\ Dated(Extended(p), clock)
           /\ \A v \in Extended(p) : v.img = req[p].img => v = new
<1> DEFINE r == req[p]
<1> DEFINE H == history[req[p].app]
<1> DEFINE new == Displaced(p)
<1> DEFINE Rest == IF r.kind = "rollback" THEN {v \in r.seen : Newer(r.seen, v) # {}}
                                          ELSE {v \in H : v.img # r.old.img}
<1>1. /\ r \in Request /\ r.kind \in Cutovers /\ r.app \in Apps /\ r.old \in Record
      /\ H \in SUBSET Version /\ clock \in Nat
  BY TypeParts, Locals DEF TypeOK, RequestOK, Working
<1>2. /\ r.old.img <= clock /\ Offered(r.old.img, H)
      /\ r.img <= clock /\ r.name <= clock
      /\ \A v \in H : v.at < r.name
      /\ r.kind # "rollback" => \A v \in H : v.img < r.img
      /\ r.kind = "rollback" =>
           /\ r.seen = H
           /\ \E v \in H : Newer(H, v) = {} /\ r.img = v.img
  BY <1>1 DEF Remembering, Displacing, Replacing, Pending
<1>3. IsFiniteSet(H) /\ Ordered(H) /\ Dated(H, clock)
  BY DEF Retaining
<1>4. Extended(p) = {new} \cup Rest /\ Rest \subseteq H
  BY <1>2 DEF Extended
<1>5. new \in Version /\ new.img = r.old.img /\ new.at = r.name
  BY <1>1 DEF Displaced, Version, Record, Request
<1>6. \A v \in Rest : v.img # r.old.img
  <2>1. ASSUME NEW v \in H, v.img = r.old.img PROVE Newer(H, v) = {}
    <3>1. Latest(v, H)
      BY <1>2, <2>1 DEF Offered
    <3> QED BY <1>1, <3>1 DEF Newer, Latest, Version
  <2> QED BY <1>2, <2>1
<1>7. \A v \in Rest : v.img # r.img
  <2>1. CASE r.kind = "rollback"
    <3>1. PICK v \in H : Newer(H, v) = {} /\ r.img = v.img
      BY <1>2, <2>1
    <3>2. \A w \in H : w.img = v.img => w = v
      BY <1>3 DEF Ordered
    <3> QED BY <1>2, <2>1, <3>1, <3>2
  <2>2. CASE r.kind # "rollback"
    <3>1. \A v \in H : v.img < r.img /\ v.img \in Nat /\ r.img \in Nat
      BY <1>1, <1>2, <2>2 DEF Version, Request
    <3> QED BY <1>4, <3>1
  <2> QED BY <2>1, <2>2
<1>8. \A v \in Rest : v.at < new.at /\ v.at \in Nat /\ new.at \in Nat
  BY <1>1, <1>2, <1>4, <1>5 DEF Version
<1>9. \A v, w \in Rest : v.img = w.img \/ v.at = w.at => v = w
  BY <1>3, <1>4 DEF Ordered
<1>10. IsFiniteSet(Extended(p))
  <2>1. IsFiniteSet(Rest)
    BY <1>3, <1>4, FS_Subset
  <2>2. IsFiniteSet(Rest \cup {new})
    BY <2>1, FS_AddElement
  <2> QED BY <1>4, <2>2
<1> HIDE DEF Rest, r, H, new
<1>11. Ordered(Extended(p))
  <2>1. \A v \in Rest : v.img # new.img /\ v.at # new.at
    BY <1>5, <1>6, <1>8
  <2> QED BY <1>4, <1>9, <2>1 DEF Ordered
<1>12. Latest(new, Extended(p))
  BY <1>4, <1>8 DEF Latest
<1>13. Dated(Extended(p), clock)
  BY <1>2, <1>3, <1>4, <1>5 DEF Dated
<1>14. \A v \in Extended(p) : v.img = r.img => v = new
  BY <1>4, <1>7
<1>15. Extended(p) \subseteq H \cup {new} /\ Extended(p) \subseteq Version
  BY <1>1, <1>4, <1>5
<1> QED BY <1>10, <1>11, <1>12, <1>13, <1>14, <1>15 DEF r, H, new

LEMMA KeptHistory ==
    ASSUME TypeOK, NEW p \in Procs, pc[p] = "record", Retaining(req[p].app), Remembering(p)
    PROVE  LET kept == Retained(Extended(p)) IN
           /\ IsFiniteSet(kept) /\ Cardinality(kept) <= MaxPrevious
           /\ Ordered(kept) /\ Dated(kept, clock) /\ Offered(req[p].img, kept)
<1> DEFINE new == Displaced(p)
<1> DEFINE E == Extended(p)
<1> DEFINE kept == Retained(E)
<1>1. /\ E \subseteq Version /\ IsFiniteSet(E) /\ Ordered(E)
      /\ Latest(new, E) /\ Dated(E, clock)
      /\ \A v \in E : v.img = req[p].img => v = new
  BY Extension
<1> HIDE DEF new, E
<1>2. kept \subseteq E /\ IsFiniteSet(kept) /\ Cardinality(kept) <= MaxPrevious
  BY <1>1, RetainedBounded
<1>3. Ordered(kept) /\ Dated(kept, clock)
  BY <1>1, <1>2 DEF Ordered, Dated
<1>4. Offered(req[p].img, kept)
  BY <1>1, <1>2 DEF Offered, Latest
<1> QED BY <1>2, <1>3, <1>4 DEF E

\* The steps that write the records, the history or the clock.
LEMMA WorkRecords ==
    ASSUME TypeOK, NEW p \in Procs, Lock(p) \/ Work(p)
    PROVE  /\ clock' \in {clock, clock + 1}
           /\ \/ store' = store
              \/ pc[p] = "save" /\ store' = [store EXCEPT ![req[p].app] = req[p].cand]
              \/ pc[p] = "restore" /\ store' = [store EXCEPT ![req[p].app] = req[p].old]
              \/ pc[p] = "rm_record" /\ store' = [store EXCEPT ![req[p].app] = None]
           /\ \/ history' = history
              \/ /\ pc[p] = "record" /\ store' = store /\ clock' = clock
                 /\ history' = [history EXCEPT ![req[p].app] = Retained(Extended(p))]
              \/ /\ pc[p] = "clear" /\ store' = store
                 /\ history' = [history EXCEPT ![req[p].app] = {}]
<1>1. CASE LockDeploy(p) \/ LockRedeploy(p) \/ LockRollback(p)
  BY <1>1 DEF LockDeploy, LockRedeploy, LockRollback, files
<1>2. CASE Build(p) \/ StartOK(p) \/ StartFailed(p)
  BY <1>2 DEF Build, StartOK, StartFailed, files
<1>3. CASE Healthy(p) \/ Unhealthy(p) \/ Cleanup(p)
  BY <1>3 DEF Healthy, Unhealthy, Cleanup, files
<1>4. CASE CommitEnvironment(p) \/ SaveRecord(p) \/ RollbackEnvironment(p)
  BY <1>4 DEF CommitEnvironment, SaveRecord, RollbackEnvironment
<1>5. CASE RestoreRecord(p) \/ RecordHistory(p) \/ RetireOld(p)
  BY <1>5 DEF RestoreRecord, RecordHistory, RetireOld, files
<1>6. CASE RestartStop(p) \/ RestartUp(p)
  BY <1>6 DEF RestartStop, RestartUp, files
<1>7. CASE DeleteContainer(p) \/ DeleteHistoryImages(p) \/ DeleteHistory(p)
  BY <1>7 DEF DeleteContainer, DeleteHistoryImages, DeleteHistory, files
<1>8. CASE DeleteImage(p) \/ DeleteEnvironment(p) \/ DeleteRecord(p)
  BY <1>8 DEF DeleteImage, DeleteEnvironment, DeleteRecord, files
<1> QED BY <1>1, <1>2, <1>3, <1>4, <1>5, <1>6, <1>7, <1>8 DEF Lock, Work

LEMMA RetainingStep ==
    ASSUME TypeOK, HistoryInv, NEW p \in Procs, Lock(p) \/ Work(p), NEW b \in Apps
    PROVE  Retaining(b)'
<1> DEFINE a == req[p].app
<1>0. /\ Retaining(b) /\ Remembering(p) /\ RequestOK(p) /\ clock \in Nat /\ clock' \in {clock, clock + 1}
      /\ store \in Routes /\ history \in [Apps -> SUBSET Version] /\ req[p] \in Request
  BY WorkRecords DEF HistoryInv, TypeOK
<1>1. /\ store'[b] # store[b] => b = a
      /\ history'[b] # history[b] => b = a
  BY <1>0, WorkRecords DEF Routes
<1>2. store[b] # None => store[b].img \in Nat
  BY <1>0 DEF Routes, Record
<1>3. Dated(history[b], clock')
  BY <1>0 DEF Retaining, Dated, Version
<1>4. CASE store' = store /\ history' = history
  BY <1>0, <1>2, <1>3, <1>4 DEF Retaining
<1>5. CASE history' = history /\ store' # store
  <2>1. /\ pc[p] \in {"save", "restore", "rm_record"}
        /\ \/ pc[p] = "save" /\ store' = [store EXCEPT ![a] = req[p].cand]
           \/ pc[p] = "restore" /\ store' = [store EXCEPT ![a] = req[p].old]
           \/ pc[p] = "rm_record" /\ store' = [store EXCEPT ![a] = None]
    BY <1>5, WorkRecords
  <2>2. CASE b # a
    BY <1>0, <1>1, <1>2, <1>3, <1>5, <2>2 DEF Retaining
  <2>3. CASE b = a
    <3>1. pc[p] = "save" => /\ req[p].cand.img <= clock /\ req[p].cand.img \in Nat
                            /\ Offered(req[p].cand.img, history[b])
      BY <1>0, <2>3 DEF Remembering, Replacing, Pending, Building, RequestOK,
         HasCandidate, Record
    <3>2. pc[p] = "restore" => /\ req[p].old.img <= clock /\ req[p].old.img \in Nat
                               /\ Offered(req[p].old.img, history[b])
      BY <1>0, <2>3 DEF Remembering, Displacing, Pending, RequestOK, Working, Record
    <3>3. store'[b] = IF pc[p] = "save" THEN req[p].cand ELSE IF pc[p] = "restore" THEN req[p].old ELSE None
      BY <1>0, <2>1, <2>3 DEF Routes
    <3>4. store'[b] # None => store'[b].img <= clock' /\ Offered(store'[b].img, history[b])
      BY <1>0, <2>1, <3>1, <3>2, <3>3
    <3> QED BY <1>0, <1>3, <1>5, <3>4 DEF Retaining
  <2> QED BY <2>2, <2>3
<1>6. CASE history' # history
  <2>1. /\ store' = store
        /\ \/ /\ pc[p] = "record" /\ clock' = clock
              /\ history' = [history EXCEPT ![a] = Retained(Extended(p))]
           \/ pc[p] = "clear" /\ history' = [history EXCEPT ![a] = {}]
    BY <1>6, WorkRecords
  <2>2. CASE b # a
    BY <1>0, <1>1, <1>2, <1>3, <2>1, <2>2 DEF Retaining
  <2>3. CASE b = a /\ pc[p] = "record"
    <3>1. history'[b] = Retained(Extended(p)) /\ clock' = clock
      BY <1>0, <2>1, <2>3
    <3>2. /\ IsFiniteSet(history'[b]) /\ Cardinality(history'[b]) <= MaxPrevious
          /\ Ordered(history'[b]) /\ Dated(history'[b], clock) /\ Offered(req[p].img, history'[b])
      BY <1>0, <2>3, <3>1, KeptHistory
    <3>3. store[b].img = req[p].img
      BY <1>0, <2>3 DEF Remembering, Recording, RequestOK, HasCandidate
    <3>4. store[b] # None => store[b].img <= clock
      BY <1>0 DEF Retaining
    <3> QED BY <2>1, <3>1, <3>2, <3>3, <3>4 DEF Retaining
  <2>4. CASE b = a /\ pc[p] = "clear"
    <3>1. history'[b] = {}
      BY <1>0, <2>1, <2>4
    <3>2. IsFiniteSet({}) /\ Cardinality({}) = 0 /\ MaxPrevious \in Nat
      BY FS_EmptySet, ConstantsAssumption
    <3>3. /\ Ordered({}) /\ Dated({}, clock') /\ \A i : Offered(i, {})
      BY DEF Ordered, Dated, Offered
    <3>4. store[b] # None => store[b].img <= clock'
      BY <1>0, <1>2 DEF Retaining
    <3> QED BY <2>1, <3>1, <3>2, <3>3, <3>4 DEF Retaining
  <2> QED BY <2>1, <2>2, <2>3, <2>4
<1> QED BY <1>4, <1>5, <1>6

\* A request that goes on, its candidate chosen, remembers what it knew.
SameRelease(p) ==
    /\ req'[p].kind = req[p].kind /\ req'[p].app = req[p].app /\ req'[p].old = req[p].old
    /\ req'[p].img = req[p].img /\ req'[p].name = req[p].name /\ req'[p].seen = req[p].seen

LEMMA Continues ==
    ASSUME NEW p \in Procs, Remembering(p), UNCHANGED <<history, clock>>, SameRelease(p),
           pc'[p] \in {"lock", "build"} => pc[p] \in {"lock", "build"},
           pc'[p] \in Pending => pc[p] \in Pending \/ req[p].kind \notin Releases
    PROVE  Displacing(p)' /\ Replacing(p)'
<1>1. Displacing(p)'
  BY DEF Remembering, Displacing, SameRelease, Offered, Latest
<1>2. Replacing(p)'
  BY DEF Remembering, Replacing, SameRelease, Offered, Latest, Newer
<1> QED BY <1>1, <1>2

LEMMA Forgets ==
    ASSUME TypeOK, NEW p \in Procs, Finish(p)
    PROVE  Remembering(p)'
<1>1. pc'[p] = "idle" /\ req'[p] = NoRequest
  BY FinishOthers, TypeParts
<1>2. ~NoRequest.restoring /\ NoRequest.kind = "none"
  BY DEF NoRequest
<1> QED
  BY <1>1, <1>2 DEF Remembering, Displacing, Replacing, Recording

\* deployMu.Lock() of a redeployment, and the build of a new image.
LEMMA LockRemembers ==
    ASSUME TypeOK, NEW p \in Procs, Remembering(p), LockDeploy(p) \/ LockRedeploy(p)
    PROVE  Remembering(p)'
<1>1. CASE Finish(p)
  BY <1>1, Forgets
<1>2. CASE ~Finish(p)
  <2>1. /\ pc[p] = "lock" /\ pc' = [pc EXCEPT ![p] = "build"]
        /\ req' = [req EXCEPT ![p].prevEnv = envFile[req[p].app]]
        /\ UNCHANGED <<history, clock>>
    BY <1>2 DEF LockDeploy, LockRedeploy, Goto, files
  <2>2. /\ pc \in [Threads -> Steps] /\ req \in [Threads -> Request] /\ req[p] \in Request
    BY DEF TypeOK
  <2>3. pc'[p] = "build" /\ SameRelease(p) /\ req'[p].restoring = req[p].restoring
    BY <2>1, <2>2 DEF SameRelease, Request
  <2>4. Displacing(p)' /\ Replacing(p)'
    BY <2>1, <2>3, Continues DEF Pending, Building
  <2>5. Recording(p)'
    BY <2>1, <2>3 DEF Remembering, Recording, LockDeploy, LockRedeploy
  <2> QED BY <2>4, <2>5 DEF Remembering
<1> QED BY <1>1, <1>2

LEMMA BuildRemembers ==
    ASSUME TypeOK, NEW p \in Procs, Retaining(req[p].app), Remembering(p), Build(p)
    PROVE  Remembering(p)'
<1>1. CASE Finish(p)
  BY <1>1, Forgets
<1>2. CASE ~Finish(p)
  <2>1. /\ pc[p] = "build" /\ pc' = [pc EXCEPT ![p] = "start"] /\ clock' = clock + 1
        /\ req' = [req EXCEPT ![p] = [@ EXCEPT !.img = clock + 1,
                     !.name = IF req[p].kind = "deploy" THEN 0 ELSE clock + 1]]
        /\ history' = history
    BY <1>2 DEF Build, Goto, files
  <2>2. /\ pc \in [Threads -> Steps] /\ req \in [Threads -> Request] /\ req[p] \in Request
        /\ clock \in Nat /\ req[p].app \in Apps /\ history[req[p].app] \in SUBSET Version
        /\ req[p].kind \in Cutovers => req[p].old \in Record
    BY <2>1 DEF TypeOK, RequestOK, Working
  <2>3. /\ pc'[p] = "start" /\ req'[p].img = clock + 1
        /\ req'[p].name = IF req[p].kind = "deploy" THEN 0 ELSE clock + 1
        /\ req'[p].kind = req[p].kind /\ req'[p].app = req[p].app /\ req'[p].old = req[p].old
        /\ req'[p].restoring = req[p].restoring
    BY <2>1, <2>2 DEF Request
  <2>4. \A v \in history[req[p].app] : v.img < clock + 1 /\ v.at < clock + 1 /\ v.img # clock + 1
    BY <2>2 DEF Retaining, Dated, Version
  <2>5. Displacing(p)'
    BY <2>1, <2>2, <2>3 DEF Remembering, Displacing, Record
  <2>6. Replacing(p)'
    <3>1. req'[p].kind # "rollback" /\ clock' = clock + 1
      BY <2>1, <2>3 DEF Remembering, Recording
    <3>2. \A v \in history'[req'[p].app] :
            v.img < req'[p].img /\ v.at < clock + 1 /\ v.img # req'[p].img
      BY <2>1, <2>3, <2>4
    <3>3. Offered(req'[p].img, history'[req'[p].app])
      BY <3>2 DEF Offered
    <3>4. req'[p].img <= clock' /\ (req'[p].kind \in Cutovers => req'[p].name = clock + 1)
      BY <2>2, <2>3, <3>1
    <3> QED BY <2>2, <3>1, <3>2, <3>3, <3>4 DEF Replacing
  <2>7. Recording(p)'
    BY <2>1, <2>3 DEF Remembering, Recording
  <2> QED BY <2>5, <2>6, <2>7 DEF Remembering
<1> QED BY <1>1, <1>2

\* A rollback takes the newest version, the only one that is not older than it.
LEMMA RollbackRemembers ==
    ASSUME TypeOK, NEW p \in Procs, Retaining(req[p].app), Remembering(p), LockRollback(p)
    PROVE  Remembering(p)'
<1> DEFINE H == history[req[p].app]
<1>1. CASE Finish(p)
  BY <1>1, Forgets
<1>2. CASE ~Finish(p)
  <2>1. PICK v \in H :
        /\ pc[p] = "lock" /\ pc' = [pc EXCEPT ![p] = "start"] /\ clock' = clock + 1
        /\ Newer(H, v) = {} /\ req[p].kind = "rollback"
        /\ req' = [req EXCEPT ![p] = [@ EXCEPT !.prevEnv = envFile[req[p].app],
                     !.img = v.img, !.name = clock + 1, !.seen = H]]
        /\ history' = history
    BY <1>2 DEF LockRollback, Goto, files
  <2>2. /\ pc \in [Threads -> Steps] /\ req \in [Threads -> Request] /\ req[p] \in Request
        /\ clock \in Nat /\ req[p].app \in Apps /\ H \in SUBSET Version
        /\ req[p].kind \in Cutovers => req[p].old \in Record
    BY <2>1 DEF TypeOK, RequestOK, Working
  <2>3. /\ pc'[p] = "start" /\ req'[p].img = v.img /\ req'[p].name = clock + 1 /\ req'[p].seen = H
        /\ req'[p].kind = req[p].kind /\ req'[p].app = req[p].app /\ req'[p].old = req[p].old
        /\ req'[p].restoring = req[p].restoring
    BY <2>1, <2>2 DEF Request
  <2>4. \A w \in H : w.img <= clock /\ w.at < clock + 1 /\ w.img \in Nat /\ w.at \in Nat
    BY <2>2 DEF Retaining, Dated, Version
  <2>5. Offered(v.img, H)
    <3>1. \A w \in H : w.img = v.img => w = v
      BY DEF Retaining, Ordered
    <3>2. \A w \in H \ {v} : w.at # v.at
      BY DEF Retaining, Ordered
    <3>3. \A w \in H \ {v} : w.at < v.at
      BY <2>1, <2>4, <3>2 DEF Newer
    <3> QED BY <3>1, <3>3 DEF Offered, Latest
  <2>6. Displacing(p)'
    BY <2>1, <2>2, <2>3 DEF Remembering, Displacing, Record
  <2>7. Replacing(p)'
    <3>1. v.img <= clock + 1
      BY <2>1, <2>2, <2>4
    <3>2. req'[p].kind = "rollback" /\ history'[req'[p].app] = H /\ clock' = clock + 1
      BY <2>1, <2>3
    <3>3. req'[p].img <= clock' /\ Offered(req'[p].img, history'[req'[p].app])
      BY <2>3, <2>5, <3>1, <3>2
    <3>4. req'[p].name <= clock' /\ \A w \in history'[req'[p].app] : w.at < req'[p].name
      BY <2>2, <2>3, <2>4, <3>2
    <3>5. /\ req'[p].seen = history'[req'[p].app]
          /\ \E w \in req'[p].seen : Newer(req'[p].seen, w) = {} /\ req'[p].img = w.img
      BY <2>1, <2>3, <3>2
    <3> QED BY <3>2, <3>3, <3>4, <3>5 DEF Replacing, Newer
  <2>8. Recording(p)'
    BY <2>1, <2>3 DEF Remembering, Recording
  <2> QED BY <2>6, <2>7, <2>8 DEF Remembering
<1> QED BY <1>1, <1>2

\* The steps of a release from the candidate to the records.
LEMMA PromoteRemembers ==
    ASSUME TypeOK, NEW p \in Procs, Remembering(p),
           \/ StartOK(p) \/ Healthy(p) \/ Unhealthy(p) \/ CommitEnvironment(p)
           \/ SaveRecord(p) \/ RollbackEnvironment(p)
    PROVE  Remembering(p)'
<1>0. /\ pc \in [Threads -> Steps] /\ req \in [Threads -> Request] /\ req[p] \in Request
      /\ store \in Routes /\ req[p].app \in Apps
  BY DEF TypeOK, RequestOK, Working, StartOK, Healthy, Unhealthy, CommitEnvironment,
     SaveRecord, RollbackEnvironment
<1>1. /\ pc[p] \in Building /\ UNCHANGED <<history, clock>>
      /\ \E s \in {"verify", "commit", "save", "list", "env_rollback", "cleanup"} :
           /\ pc' = [pc EXCEPT ![p] = s]
           /\ s = "list" => pc[p] = "save" /\ store' = [store EXCEPT ![req[p].app] = req[p].cand] /\ req' = req
           /\ s = "verify" \/ req' = req
  BY DEF StartOK, Healthy, Unhealthy, CommitEnvironment, SaveRecord, RollbackEnvironment,
     Building, Goto, files
<1>2. req' = req \/ \E c : req' = [req EXCEPT ![p].cand = c]
  BY DEF StartOK, Healthy, Unhealthy, CommitEnvironment, SaveRecord, RollbackEnvironment
<1>3. /\ SameRelease(p) /\ req'[p].restoring = req[p].restoring
      /\ req' = req => req'[p] = req[p]
  BY <1>0, <1>2 DEF SameRelease, Request
<1>4. PICK s \in {"verify", "commit", "save", "list", "env_rollback", "cleanup"} :
        /\ pc'[p] = s
        /\ s = "list" => pc[p] = "save" /\ store' = [store EXCEPT ![req[p].app] = req[p].cand] /\ req' = req
        /\ s = "verify" => pc[p] = "start"
  <2>1. StartOK(p) => pc[p] = "start" /\ pc' = [pc EXCEPT ![p] = "verify"]
    BY DEF StartOK, Goto
  <2>2. ~StartOK(p) => \E s \in {"commit", "save", "list", "env_rollback", "cleanup"} :
          /\ pc' = [pc EXCEPT ![p] = s]
          /\ s = "list" => pc[p] = "save" /\ store' = [store EXCEPT ![req[p].app] = req[p].cand] /\ req' = req
    BY DEF Healthy, Unhealthy, CommitEnvironment, SaveRecord, RollbackEnvironment, Goto
  <2> QED BY <1>0, <2>1, <2>2
<1>5. Displacing(p)' /\ Replacing(p)'
  BY <1>1, <1>3, <1>4, Continues DEF Pending, Building
<1>6. Recording(p)'
  <2>1. pc'[p] # "record" /\ (pc'[p] \in Syncing => pc'[p] = "list") /\ pc'[p] # "build"
    BY <1>4
  <2>2. CASE pc'[p] = "list"
    <3>1. req'[p] = req[p] /\ store'[req[p].app] = req[p].cand
      BY <1>0, <1>4, <2>2 DEF Routes
    <3>2. store'[req'[p].app] = req'[p].cand
      BY <3>1
    <3> QED BY <2>2, <3>2 DEF Recording
  <2>3. CASE pc'[p] \in {"verify", "commit", "save"}
    <3>1. pc[p] \notin Syncing \cup {"env_rollback", "cleanup"}
      BY <1>0, <2>3 DEF StartOK, Healthy, Unhealthy, CommitEnvironment, SaveRecord,
         RollbackEnvironment, Goto
    <3> QED BY <1>3, <2>3, <3>1 DEF Remembering, Recording
  <2>4. CASE pc'[p] \in {"env_rollback", "cleanup"}
    BY <2>4 DEF Recording
  <2> QED BY <1>4, <2>2, <2>3, <2>4
<1> QED BY <1>5, <1>6 DEF Remembering

\* The undoing of a failed cutover, and the history itself.
LEMMA RestoreRemembers ==
    ASSUME TypeOK, NEW p \in Procs, Remembering(p), RestoreRecord(p) \/ RecordHistory(p)
    PROVE  Remembering(p)'
<1>0. /\ pc \in [Threads -> Steps] /\ req \in [Threads -> Request] /\ req[p] \in Request
  BY DEF TypeOK
<1>1. CASE RestoreRecord(p)
  <2>1. /\ pc[p] = "restore" /\ UNCHANGED <<history, clock>>
        /\ \/ pc' = [pc EXCEPT ![p] = "list"] /\ req' = [req EXCEPT ![p].restoring = TRUE]
           \/ pc' = [pc EXCEPT ![p] = "env_rollback"] /\ req' = req
    BY <1>1 DEF RestoreRecord, Goto
  <2>2. /\ SameRelease(p)
        /\ (pc'[p] = "list" /\ req'[p].restoring) \/ pc'[p] = "env_rollback"
    BY <1>0, <2>1 DEF SameRelease, Request
  <2>3. Displacing(p)' /\ Replacing(p)'
    BY <2>1, <2>2, Continues DEF Pending
  <2>4. Recording(p)'
    BY <2>2 DEF Recording
  <2> QED BY <2>3, <2>4 DEF Remembering
<1>2. CASE RecordHistory(p)
  <2>1. pc[p] = "record" /\ pc' = [pc EXCEPT ![p] = "retire"] /\ req' = req
    BY <1>2 DEF RecordHistory, Goto
  <2>2. pc'[p] = "retire" /\ req'[p] = req[p] /\ ~req[p].restoring
    BY <1>0, <2>1 DEF Remembering, Recording
  <2> QED BY <2>2 DEF Remembering, Displacing, Replacing, Recording, Pending, Building
<1> QED BY <1>1, <1>2

\* A restart and a deletion displace nothing.
LEMMA OthersRemember ==
    ASSUME TypeOK, NEW p \in Procs, Remembering(p),
           \/ RestartStop(p) \/ RestartUp(p)
           \/ DeleteContainer(p) \/ DeleteHistoryImages(p) \/ DeleteHistory(p)
           \/ DeleteImage(p) \/ DeleteEnvironment(p) \/ DeleteRecord(p)
    PROVE  Remembering(p)'
<1>1. CASE Finish(p)
  BY <1>1, Forgets
<1>2. CASE ~Finish(p)
  <2>1. pc[p] \in Restarting \cup Deleting /\ req' = req
        /\ \E s \in {"up", "rm_images", "clear", "rm_image", "rm_env", "rm_record", "list"} :
             pc' = [pc EXCEPT ![p] = s]
    BY <1>2 DEF RestartStop, RestartUp, DeleteContainer, DeleteHistoryImages,
       DeleteHistory, DeleteImage, DeleteEnvironment, DeleteRecord, Goto
  <2>2. pc'[p] \in {"up", "rm_images", "clear", "rm_image", "rm_env", "rm_record", "list"}
    BY <2>1 DEF TypeOK
  <2>3. req'[p] = req[p] /\ ~req[p].restoring /\ req[p].kind \in {"restart", "delete"}
    BY <2>1 DEF Remembering, Recording, TypeOK, RequestOK
  <2> QED BY <2>2, <2>3 DEF Remembering, Displacing, Replacing, Recording
<1> QED BY <1>1, <1>2

LEMMA WorkRemembers ==
    ASSUME TypeOK, NEW p \in Procs, Retaining(req[p].app), Remembering(p), Work(p)
    PROVE  Remembering(p)'
<1>1. CASE StartFailed(p) \/ Cleanup(p) \/ RetireOld(p)
  BY <1>1, Forgets DEF StartFailed, Cleanup, RetireOld
<1> QED
  BY <1>1, BuildRemembers, PromoteRemembers, RestoreRemembers, OthersRemember DEF Work

\* A synchronization writes no record, and hands the request on.
LEMMA SyncRemembers ==
    ASSUME TypeOK, NEW p \in Procs, Remembering(p), Sync(p)
    PROVE  Remembering(p)'
<1>1. CASE Finish(p)
  BY <1>1, Forgets
<1>2. CASE ~Finish(p)
  <2>1. /\ pc[p] \in Syncing /\ UNCHANGED <<store, history, clock>>
        /\ req' = req \/ req' = [req EXCEPT ![p].snap = store]
        /\ \E s \in {"write", "reload", "env_rollback", "record", "restore"} :
             /\ pc' = [pc EXCEPT ![p] = s]
             /\ s \in {"record", "restore"} => req[p].kind \in Cutovers /\ ~req[p].restoring
    BY <1>2 DEF Sync, SyncList, SyncWrite, SyncReload, AfterSync, Goto, files
  <2>2. /\ pc \in [Threads -> Steps] /\ req \in [Threads -> Request] /\ req[p] \in Request
    BY DEF TypeOK
  <2>3. /\ SameRelease(p) /\ req'[p].restoring = req[p].restoring /\ req'[p].cand = req[p].cand
    BY <2>1, <2>2 DEF SameRelease, Request
  <2>4. /\ pc'[p] \in {"write", "reload", "env_rollback", "record", "restore"}
        /\ pc'[p] \in {"record", "restore"} => req[p].kind \in Cutovers /\ ~req[p].restoring
    BY <2>1, <2>2
  <2>5. Displacing(p)' /\ Replacing(p)'
    BY <2>1, <2>3, <2>4, Continues DEF Pending, Building
  <2>6. Recording(p)'
    BY <2>1, <2>3, <2>4 DEF Remembering, Recording, SameRelease
  <2> QED BY <2>5, <2>6 DEF Remembering
<1> QED BY <1>1, <1>2

\* A new request reads the record, which is listed at most as the newest version.
LEMMA ArrivalRemembers ==
    ASSUME TypeOK, HistoryInv, NEW p \in Procs, Arrival(p)
    PROVE  Remembering(p)'
<1>1. PICK kind \in Kinds, a \in Apps, ask \in Envs \cup {Keep},
           first \in {"lock", "stop", "rm_container"} :
        /\ Begin(p, kind, a, ask, first)
        /\ kind \in Cutovers => store[a] # None
  BY DEF Arrival, Begin, deployHandler, redeployHandler, githubWebhookHandler,
         rollbackDeploymentHandler, restartDeploymentHandler, deleteDeploymentHandler
<1> DEFINE r == [NoRequest EXCEPT !.kind = kind, !.app = a, !.ask = ask, !.old = store[a]]
<1>2. r.kind = kind /\ r.app = a /\ r.old = store[a] /\ ~r.restoring
  BY DEF NoRequest
<1>3. /\ pc' = [pc EXCEPT ![p] = first] /\ req' = [req EXCEPT ![p] = r]
      /\ UNCHANGED <<store, history, clock>>
  BY <1>1 DEF Begin, Goto, files
<1> HIDE DEF r
<1>4. pc'[p] = first /\ req'[p] = r
  BY <1>3 DEF TypeOK
<1>5. Displacing(p)'
  <2>1. kind \in Cutovers => store[a].img <= clock /\ Offered(store[a].img, history[a])
    BY <1>1 DEF HistoryInv, Retaining
  <2> QED BY <1>2, <1>3, <1>4, <2>1 DEF Displacing, Offered, Latest
<1>6. Replacing(p)' /\ Recording(p)'
  BY <1>2, <1>4 DEF Replacing, Recording, Pending, Building
<1> QED BY <1>5, <1>6 DEF Remembering

LEMMA SameRetaining ==
    ASSUME HistoryInv, UNCHANGED <<store, history, clock>>
    PROVE  \A a \in Apps : Retaining(a)'
BY DEF HistoryInv, Retaining, Offered, Latest, Ordered, Dated

LEMMA RestingRemembers ==
    ASSUME NEW q \in Procs
    PROVE  /\ Resting(q) => Remembering(q)
           /\ Resting(q)' => Remembering(q)'
<1>1. ~NoRequest.restoring /\ NoRequest.kind = "none"
  BY DEF NoRequest
<1> QED
  BY <1>1 DEF Resting, Remembering, Displacing, Replacing, Recording, Pending, Building

LEMMA NextHistory ==
    ASSUME Serial, TypeOK, HistoryInv, [Next]_vars
    PROVE  HistoryInv'
<1>1. ASSUME NEW p \in Procs, Arrival(p) PROVE HistoryInv'
  <2>1. UNCHANGED <<store, history, clock>>
    BY <1>1 DEF Arrival, Begin, deployHandler, redeployHandler, githubWebhookHandler,
       rollbackDeploymentHandler, restartDeploymentHandler, deleteDeploymentHandler, files
  <2>2. Remembering(p)' /\ \A q \in Procs : q = p
    BY <1>1, ArrivalRemembers DEF Serial
  <2> QED BY <2>1, <2>2, SameRetaining DEF HistoryInv
<1>2. ASSUME NEW p \in Procs, Lock(p) \/ Work(p) PROVE HistoryInv'
  <2>1. Remembering(p) /\ \A q \in Procs : q = p
    BY DEF HistoryInv, Serial
  <2>2. req[p].app \in Apps
    <3>1. Working(p)
      BY <1>2 DEF Lock, Work, Working, LockDeploy, LockRedeploy, LockRollback, Build,
         StartOK, StartFailed, Healthy, Unhealthy, Cleanup, CommitEnvironment, SaveRecord,
         RollbackEnvironment, RestoreRecord, RecordHistory, RetireOld, RestartStop,
         RestartUp, DeleteContainer, DeleteHistoryImages, DeleteHistory, DeleteImage,
         DeleteEnvironment, DeleteRecord
    <3> QED BY <3>1 DEF TypeOK, RequestOK
  <2>3. Remembering(p)'
    BY <1>2, <2>1, <2>2, LockRemembers, RollbackRemembers, WorkRemembers DEF HistoryInv, Lock
  <2>4. \A a \in Apps : Retaining(a)'
    BY <1>2, RetainingStep
  <2> QED BY <2>1, <2>3, <2>4 DEF HistoryInv
<1>3. ASSUME NEW t \in Threads, Sync(t) PROVE HistoryInv'
  <2>1. UNCHANGED <<store, history, clock>>
    BY <1>3 DEF Sync, SyncList, SyncWrite, SyncReload, files
  <2>2. CASE t \in Procs
    <3>1. Remembering(t)' /\ \A q \in Procs : q = t
      BY <1>3, <2>2, SyncRemembers DEF HistoryInv, Serial
    <3> QED BY <2>1, <3>1, SameRetaining DEF HistoryInv
  <2>3. CASE t \notin Procs
    <3>1. \A q \in Procs : pc'[q] = pc[q] /\ req'[q] = req[q]
      BY <1>3, <2>3, SyncOthers DEF Others
    <3>2. ASSUME NEW q \in Procs PROVE Remembering(q)'
      BY <2>1, <3>1 DEF HistoryInv, Remembering, Displacing, Replacing, Recording,
         Offered, Latest, Newer
    <3> QED BY <2>1, <3>2, SameRetaining DEF HistoryInv
  <2> QED BY <2>2, <2>3
<1>4. CASE Crash
  <2>1. UNCHANGED <<store, history, clock>> /\ \A q \in Procs : Resting(q)'
    BY <1>4, ConstantsAssumption DEF Crash, files, Resting
  <2> QED BY <2>1, SameRetaining, RestingRemembers DEF HistoryInv
<1>5. CASE UNCHANGED vars
  <2>1. ASSUME NEW q \in Procs PROVE Remembering(q)'
    BY <1>5 DEF vars, HistoryInv, Remembering, Displacing, Replacing, Recording, Offered,
       Latest, Newer
  <2> QED BY <1>5, <2>1, SameRetaining DEF vars, HistoryInv
<1> QED BY <1>1, <1>2, <1>3, <1>4, <1>5 DEF Next

LEMMA HistoryInit == ASSUME Init PROVE HistoryInv
<1>1. /\ \A a \in Apps : history[a] = {} /\ (store[a] # None => store[a].img = 1)
      /\ clock = 1 /\ \A q \in Procs : Resting(q)
  BY ConstantsAssumption DEF Init, Resting, FirstRecord
<1>2. IsFiniteSet({}) /\ Cardinality({}) = 0 /\ MaxPrevious \in Nat
  BY FS_EmptySet, ConstantsAssumption
<1>3. \A a \in Apps : Retaining(a)
  BY <1>1, <1>2 DEF Retaining, Offered, Ordered, Dated
<1> QED BY <1>1, <1>3, RestingRemembers DEF HistoryInv

LEMMA HistoryInvariant == ASSUME Serial PROVE Spec => [](TypeOK /\ HistoryInv)
<1>1. Init => TypeOK /\ HistoryInv
  BY InitType, HistoryInit
<1>2. TypeOK /\ HistoryInv /\ [Next]_vars => (TypeOK /\ HistoryInv)'
  BY NextType, NextHistory
<1> QED BY <1>1, <1>2, PTL DEF Spec

\* With one request at a time, whatever they are and whatever fails or crashes, no
\* history grows past maxPrevious, and none lists an image twice: Push and the Set
\* of a rollback, each over the list it read, agree on what is already there.
THEOREM HistoriesAreBounded ==
    ASSUME Serial
    PROVE  Spec => []HistoryBounded
<1>1. HistoryInv => HistoryBounded
  BY DEF HistoryInv, Retaining, Ordered, HistoryBounded
<1> QED BY <1>1, HistoryInvariant, PTL

-----------------------------------------------------------------------------
(***************************************************************************)
(* What the history lists can be started: an image goes when its version   *)
(* fell off the end, or when it is that of a candidate never recorded.     *)
(***************************************************************************)
Listed == \A a \in Apps : \A v \in history[a] : <<a, v.img>> \in images

\* The image of a candidate given up is not listed.
LEMMA ListedGivenUp ==
    ASSUME NEW p \in Procs, Chosen(p), Remembering(p), Listed,
           StartFailed(p) \/ Cleanup(p)
    PROVE  Listed'
<1> DEFINE a == req[p].app
<1>1. /\ pc[p] \in {"start", "cleanup"} /\ history' = history
      /\ \/ images \subseteq images'
         \/ req[p].kind \in Redeploys /\ images \ {<<a, req[p].img>>} \subseteq images'
  <2>1. CASE StartFailed(p)
    <3>1. /\ pc[p] = "start" /\ history' = history
          /\ images' = IF req[p].kind \in Redeploys
                       THEN images \ Removable(a, {req[p].img}, containers') ELSE images
      BY <2>1 DEF StartFailed, files
    <3>2. Removable(a, {req[p].img}, containers') \subseteq {<<a, req[p].img>>}
      BY DEF Removable
    <3> QED BY <3>1, <3>2
  <2>2. CASE Cleanup(p)
    <3> DEFINE rest == containers \ Named(a, req[p].name)
    <3>1. /\ pc[p] = "cleanup" /\ history' = history
          /\ \/ images' = images
             \/ images' = images \ IF req[p].kind = "rollback" THEN {}
                                   ELSE Removable(a, {req[p].img}, rest)
      BY <2>2 DEF Cleanup, files, docker
    <3>2. Removable(a, {req[p].img}, rest) \subseteq {<<a, req[p].img>>}
      BY DEF Removable
    <3>3. req[p].kind \in Redeploys \/ req[p].kind = "rollback"
      BY DEF Chosen
    <3> QED BY <3>1, <3>2, <3>3
  <2> QED BY <2>1, <2>2
<1>2. req[p].kind \in Redeploys => \A v \in history[a] : v.img # req[p].img
  <2>1. a \in Apps /\ req[p].img \in Nat /\ \A v \in history[a] : v.img \in Nat
    BY DEF Chosen, TypeOK, Request, Version
  <2>2. req[p].kind \in Redeploys => \A v \in history[a] : v.img < req[p].img
    BY <1>1 DEF Remembering, Replacing, Pending, Building
  <2> QED BY <2>1, <2>2
<1> QED BY <1>1, <1>2 DEF Listed

\* Recording the displaced release keeps the images of what stays listed.
LEMMA ListedRecorded ==
    ASSUME Serial, NEW p \in Procs, Chosen(p), Remembering(p), Retaining(req[p].app), Listed,
           RecordHistory(p)
    PROVE  Listed'
<1> DEFINE a == req[p].app
<1> DEFINE E == Extended(p)
<1> DEFINE kept == Retained(E)
<1> DEFINE pruned == {v.img : v \in E \ kept} \ {req[p].img}
<1> DEFINE gone == Removable(a, pruned, containers)
<1>1. /\ pc[p] = "record" /\ a \in Apps /\ history \in [Apps -> SUBSET Version]
      /\ \/ history' = [history EXCEPT ![a] = kept] /\ images' = images \ gone
         \/ history' = [history EXCEPT ![a] = kept] /\ images' = images
         \/ history' = history /\ images' = images
  BY DEF RecordHistory, Chosen, TypeOK
<1>2. /\ E \subseteq history[a] \cup {Displaced(p)} /\ Ordered(E) /\ kept \subseteq E
  <2>1. E \subseteq history[a] \cup {Displaced(p)} /\ Ordered(E)
    BY <1>1, Extension DEF Chosen
  <2> QED BY <2>1 DEF Retained
<1>3. \A v \in kept : v.img \notin pruned
  BY <1>2 DEF Ordered
<1>4. <<a, req[p].old.img>> \in images
  <2>1. Runs(a, req[p].old)
    BY DEF Chosen, Progress, Previous
  <2>2. \A c \in containers : <<c.app, c.img>> \in images
    BY DEF Chosen, CutInv, World, Distinct
  <2> QED BY <2>1, <2>2 DEF Runs, RunsIn
<1>5. \A v \in E : <<a, v.img>> \in images
  BY <1>1, <1>2, <1>4 DEF Listed, Displaced
<1>6. \A i \in gone : i[1] = a /\ i[2] \in pruned
  BY DEF Removable
<1> HIDE DEF E, kept, pruned, gone
<1>7. CASE history' = history /\ images' = images
  BY <1>1, <1>7 DEF Listed
<1>8. CASE history' = [history EXCEPT ![a] = kept]
  <2> SUFFICES ASSUME NEW b \in Apps, NEW v \in history'[b] PROVE <<b, v.img>> \in images'
    BY DEF Listed
  <2>1. images \ gone \subseteq images'
    BY <1>1
  <2>2. CASE b = a
    <3>1. v \in kept
      BY <1>1, <1>8, <2>2
    <3>2. <<a, v.img>> \in images /\ v.img \notin pruned
      BY <1>2, <1>3, <1>5, <3>1
    <3>3. <<a, v.img>> \notin gone
      BY <1>6, <3>2
    <3> QED BY <2>1, <2>2, <3>2, <3>3
  <2>3. CASE b # a
    <3>1. v \in history[b]
      BY <1>1, <1>8, <2>3
    <3>2. <<b, v.img>> \in images
      BY <3>1 DEF Listed
    <3>3. <<b, v.img>> \notin gone
      BY <1>6, <2>3
    <3> QED BY <2>1, <3>2, <3>3
  <2> QED BY <2>2, <2>3
<1> QED BY <1>1, <1>7, <1>8

LEMMA ListedWork ==
    ASSUME Serial, NEW p \in Procs, Chosen(p), HistoryInv, Listed
    PROVE  Listed'
<1>1. Remembering(p) /\ Retaining(req[p].app)
  BY DEF HistoryInv, Chosen
<1>2. CASE StartFailed(p) \/ Cleanup(p)
  BY <1>1, <1>2, ListedGivenUp
<1>3. CASE RecordHistory(p)
  BY <1>1, <1>3, ListedRecorded
<1>4. CASE ~(StartFailed(p) \/ Cleanup(p) \/ RecordHistory(p))
  <2>1. history' = history /\ images \subseteq images'
    BY <1>4 DEF Chosen, CutStep, LockRedeploy, LockRollback, Build, StartOK, Healthy,
       Unhealthy, CommitEnvironment, SaveRecord, RollbackEnvironment, RestoreRecord,
       RetireOld, files, docker
  <2> QED BY <2>1 DEF Listed
<1> QED BY <1>2, <1>3, <1>4

LEMMA NextListed ==
    ASSUME Serial, Operations \subseteq Cutovers, TypeOK, MutexHeld, CutOK, HistoryInv,
           Undisturbed => Listed, [Next]_vars
    PROVE  (Undisturbed => Listed)'
<1> SUFFICES ASSUME Undisturbed' PROVE Listed'
  OBVIOUS
<1>1. CutInv /\ Listed
  BY FaultsGrow DEF CutOK
<1>2. ASSUME NEW p \in Procs, Lock(p) \/ Work(p) PROVE Listed'
  BY <1>1, <1>2, Choice, ListedWork
<1>3. ASSUME NEW p \in Procs, Arrival(p) PROVE UNCHANGED <<history, images>>
  BY <1>3 DEF Arrival, Begin, deployHandler, redeployHandler, githubWebhookHandler,
     rollbackDeploymentHandler, restartDeploymentHandler, deleteDeploymentHandler, files,
     docker
<1>4. ASSUME NEW t \in Threads, Sync(t) PROVE UNCHANGED <<history, images>>
  BY <1>4 DEF Sync, SyncList, SyncWrite, SyncReload, files, docker
<1>5. Crash \/ UNCHANGED vars => UNCHANGED <<history, images>>
  BY DEF Crash, vars, files, docker
<1>6. UNCHANGED <<history, images>> => Listed'
  BY <1>1 DEF Listed
<1> QED BY <1>2, <1>3, <1>4, <1>5, <1>6 DEF Next

\* Redeployments, webhooks and rollbacks, one at a time, over any number of crashes
\* and with one failure at most, leave no history that lists an image they removed:
\* every version that is offered for rollback can be started.
THEOREM HistoriesAreRestorable ==
    ASSUME Serial, Operations \subseteq Cutovers
    PROVE  Spec => [](faults <= 1 => HistoryRestorable)
<1> DEFINE Inv == TypeOK /\ MutexHeld /\ CutOK /\ HistoryInv
<1> DEFINE Good == Undisturbed => Listed
<1>1. Spec => []Inv
  BY CutoverInvariant, HistoryInvariant, PTL
<1>2. Init => Good
  BY DEF Init, Listed
<1>3. Inv /\ Good /\ [Next]_vars => Good'
  BY NextListed
<1>4. Inv /\ Good => (faults <= 1 => HistoryRestorable)
  BY DEF TypeOK, Undisturbed, Listed, HistoryRestorable
<1> HIDE DEF Inv, Good
<1> QED BY <1>1, <1>2, <1>3, <1>4, PTL DEF Spec

-----------------------------------------------------------------------------
(***************************************************************************)
(* What failures and crashes leave behind.  Every container and image that *)
(* nothing names is in the hands of the request at work, which removes it  *)
(* or records it, or is charged to a failure or a crash: there is a ledger *)
(* of containers, K, and one of images, L, with a line for each of them at *)
(* most.  An image goes on the ledger with the container that uses it, as  *)
(* Docker then refuses to remove it when its version falls off the end.    *)
(***************************************************************************)
Built == Numbered \ {"start"}

Holds(p, c) == LET r == req[p] IN
    /\ c.app = r.app
    /\ \/ pc[p] \in Building \ {"start"} /\ c.name = r.name
       \/ pc[p] \in Syncing \cup {"restore", "record"} /\ c.name \in {r.name, r.old.name}
       \/ pc[p] = "retire" /\ c.name = r.old.name

HoldsImage(p, i) == LET r == req[p] IN
    /\ i[1] = r.app
    /\ \/ pc[p] \in Building /\ i[2] = r.img
       \/ pc[p] \in Syncing \cup {"restore", "record"} /\ i[2] \in {r.img, r.old.img}

Charged(K, L, c) == <<c.app, c.name>> \in K /\ <<c.app, c.img>> \in L

Ledger(K, L) ==
    /\ \A c \in Stray : Charged(K, L, c) \/ \E p \in Procs : Holds(p, c)
    /\ \A i \in StrayImages : i \in L \/ \E p \in Procs : HoldsImage(p, i)

Lines(K, L, n) ==
    /\ IsFiniteSet(K) /\ Cardinality(K) <= n
    /\ IsFiniteSet(L) /\ Cardinality(L) <= n

\* A container has a name of its own, and a recorded one runs the recorded image.
UniqueNames == \A c, d \in containers : c.app = d.app /\ c.name = d.name => c = d
RunsImage(a, r) == \A c \in Named(a, r.name) : c.img = r.img

Labelled ==
    /\ UniqueNames
    /\ \A a \in Apps : store[a] # None => store[a].name <= clock /\ RunsImage(a, store[a])

Tracked(p) == LET r == req[p] IN
    Working(p) /\ r.kind # "restart" =>
        /\ r.kind \in Cutovers /\ r.old.name <= clock /\ RunsImage(r.app, r.old)
        /\ pc[p] \in Numbered => r.old.name < r.name /\ r.name <= clock
        /\ pc[p] \in Built => \A c \in Named(r.app, r.name) : c.img = r.img
        /\ pc[p] \in {"lock", "build", "start", "verify", "commit", "save"} => store[r.app] = r.old
        /\ pc[p] \in {"restore", "record", "retire"} => store[r.app] = r.cand
        /\ pc[p] \in Syncing => store[r.app] = IF r.restoring THEN r.old ELSE r.cand

Tracking == Labelled /\ \A p \in Procs : Tracked(p)

LeakInv == Tracking /\ \E K, L : Lines(K, L, faults + crashes) /\ Ledger(K, L)

\* With one request, its hands are the only ones.
LedgerOf(p, K, L) ==
    /\ \A c \in Stray : Charged(K, L, c) \/ Holds(p, c)
    /\ \A i \in StrayImages : i \in L \/ HoldsImage(p, i)

LEMMA OneLedger ==
    ASSUME Serial, NEW p \in Procs, NEW K, NEW L
    PROVE  (Ledger(K, L) <=> LedgerOf(p, K, L)) /\ (Ledger(K, L)' <=> LedgerOf(p, K, L)')
<1>1. \A q \in Procs : q = p
  BY DEF Serial
<1> QED BY <1>1 DEF Ledger, LedgerOf

\* What a step must show: whatever it makes stray or lets go of is charged.
LEMMA Accounted ==
    ASSUME NEW p \in Procs, NEW K, NEW L, LedgerOf(p, K, L),
           NEW K2, NEW L2, K \subseteq K2, L \subseteq L2,
           \A c \in Stray' : Charged(K2, L2, c) \/ Holds(p, c)' \/ (c \in Stray /\ ~Holds(p, c)),
           \A i \in StrayImages' :
               i \in L2 \/ HoldsImage(p, i)' \/ (i \in StrayImages /\ ~HoldsImage(p, i))
    PROVE  LedgerOf(p, K2, L2)'
<1>1. \A c \in Stray : ~Holds(p, c) => Charged(K2, L2, c)
  BY DEF LedgerOf, Charged
<1>2. \A c \in Stray' : Charged(K2, L2, c) \/ Holds(p, c)'
  BY <1>1
<1>3. \A i \in StrayImages' : i \in L2 \/ HoldsImage(p, i)'
  BY DEF LedgerOf
<1> QED BY <1>2, <1>3 DEF LedgerOf, Charged

LEMMA NewLine ==
    ASSUME NEW K, NEW L, NEW n \in Nat, Lines(K, L, n), NEW x, NEW y
    PROVE  Lines(K \cup {x}, L \cup {y}, n + 1)
<1>1. /\ IsFiniteSet(K \cup {x}) /\ IsFiniteSet(L \cup {y})
      /\ Cardinality(K \cup {x}) \in {Cardinality(K), Cardinality(K) + 1}
      /\ Cardinality(L \cup {y}) \in {Cardinality(L), Cardinality(L) + 1}
  BY FS_AddElement DEF Lines
<1>2. Cardinality(K) \in Nat /\ Cardinality(L) \in Nat
  BY FS_CardinalityType DEF Lines
<1> QED BY <1>1, <1>2 DEF Lines

\* A request at work, alone, and what is known of it.
AtWork(p) ==
    /\ Serial /\ TypeOK /\ HistoryInv /\ Tracking
    /\ Working(p) /\ req[p].kind \in Cutovers /\ RequestOK(p)
    /\ req[p] \in Request /\ req[p].app \in Apps /\ req[p].old \in Record
    /\ Tracked(p) /\ Remembering(p) /\ Retaining(req[p].app)

\* The ledger after a step: the same, or one line longer after a failure.
Balanced(p, K, L) ==
    \/ faults' = faults /\ LedgerOf(p, K, L)'
    \/ faults' = faults + 1 /\ \E x, y : LedgerOf(p, K \cup {x}, L \cup {y})'

LEMMA SameStray ==
    /\ UNCHANGED <<store, containers>> => Stray' = Stray
    /\ UNCHANGED <<store, history, images>> => StrayImages' = StrayImages
BY DEF Stray, StrayImages

\* Steps that write nothing that counts, and keep what they hold.
LEMMA QuietLedger ==
    ASSUME NEW p \in Procs, NEW K, NEW L, LedgerOf(p, K, L),
           UNCHANGED <<store, history, containers, images>>,
           faults' \in {faults, faults + 1},
           \A c \in Stray : Holds(p, c) => Holds(p, c)',
           \A i \in StrayImages : HoldsImage(p, i) => HoldsImage(p, i)'
    PROVE  Balanced(p, K, L)
<1>1. Stray' = Stray /\ StrayImages' = StrayImages
  BY SameStray
<1>2. LedgerOf(p, K, L)'
  BY <1>1, Accounted
<1>3. LedgerOf(p, K \cup {0}, L \cup {0})'
  BY <1>1, Accounted
<1> QED BY <1>2, <1>3 DEF Balanced

LEMMA LockLedger ==
    ASSUME NEW p \in Procs, AtWork(p), NEW K, NEW L, LedgerOf(p, K, L),
           LockRedeploy(p) \/ LockRollback(p)
    PROVE  Balanced(p, K, L)
<1>1. /\ pc[p] = "lock" /\ faults' = faults
      /\ UNCHANGED <<store, history, containers, images>>
  BY DEF LockRedeploy, LockRollback, files, docker
<1>2. \A c : ~Holds(p, c) /\ ~HoldsImage(p, c)
  BY <1>1 DEF Holds, HoldsImage, Building
<1> QED BY <1>1, <1>2, QuietLedger

LEMMA BuildLedger ==
    ASSUME NEW p \in Procs, AtWork(p), NEW K, NEW L, LedgerOf(p, K, L), Build(p)
    PROVE  Balanced(p, K, L)
<1>1. /\ pc[p] = "build" /\ faults' = faults
      /\ UNCHANGED <<store, history, containers>>
  BY DEF Build, files
<1>2. \A c : ~Holds(p, c) /\ ~HoldsImage(p, c)
  BY <1>1 DEF Holds, HoldsImage, Building
<1>3. CASE images' = images
  BY <1>1, <1>2, <1>3, QuietLedger
<1>4. CASE images' # images
  <2>1. /\ images' = images \cup {<<req[p].app, clock + 1>>} /\ pc' = [pc EXCEPT ![p] = "start"]
        /\ req' = [req EXCEPT ![p] = [@ EXCEPT !.img = clock + 1,
                     !.name = IF req[p].kind = "deploy" THEN 0 ELSE clock + 1]]
    BY <1>4 DEF Build, Goto
  <2>2. pc'[p] = "start" /\ req'[p].app = req[p].app /\ req'[p].img = clock + 1
    <3>1. /\ pc \in [Threads -> Steps] /\ req \in [Threads -> Request] /\ req[p] \in Request
      BY DEF AtWork, TypeOK
    <3>2. pc'[p] = "start"
      BY <2>1, <3>1
    <3>3. req'[p] = [req[p] EXCEPT !.img = clock + 1,
                       !.name = IF req[p].kind = "deploy" THEN 0 ELSE clock + 1]
      BY <2>1, <3>1
    <3> QED BY <3>1, <3>2, <3>3 DEF Request
  <2>0. PICK i0 : i0 = <<req[p].app, clock + 1>>
    OBVIOUS
  <2>3. HoldsImage(p, i0)'
    BY <2>0, <2>2 DEF HoldsImage, Building
  <2>4. \A i \in StrayImages' : i \in StrayImages \/ i = i0
    <3>1. \A i \in StrayImages' : i \in images' /\ (i \in images => i \in StrayImages)
      BY <1>1 DEF StrayImages
    <3>2. \A i \in images' : i \in images \/ i = i0
      BY <2>0, <2>1
    <3> QED BY <3>1, <3>2
  <2>5. \A i \in StrayImages' : HoldsImage(p, i)' \/ i \in StrayImages
    BY <2>3, <2>4
  <2>6. Stray' = Stray
    BY <1>1, SameStray
  <2>7. LedgerOf(p, K, L)'
    BY <1>2, <2>5, <2>6, Accounted
  <2> QED BY <1>1, <2>7 DEF Balanced
<1> QED BY <1>3, <1>4

LEMMA StartLedger ==
    ASSUME NEW p \in Procs, AtWork(p), NEW K, NEW L, LedgerOf(p, K, L), StartOK(p)
    PROVE  Balanced(p, K, L)
<1>0. PICK q \in Ports :
        /\ pc[p] = "start" /\ faults' = faults /\ UNCHANGED <<store, history, images>>
        /\ containers' = containers \cup {Candidate(p, q, TRUE)}
        /\ pc' = [pc EXCEPT ![p] = "verify"]
        /\ req' = [req EXCEPT ![p].cand =
                     [name |-> req[p].name, img |-> req[p].img, port |-> q, env |-> Effective(p)]]
  BY DEF StartOK, Goto, files
<1>1. PICK c0 : c0 = Candidate(p, q, TRUE)
  OBVIOUS
<1>2. c0.app = req[p].app /\ c0.name = req[p].name
  BY <1>0, <1>1 DEF Candidate
<1>3. /\ pc'[p] = "verify" /\ req'[p].app = req[p].app /\ req'[p].name = req[p].name
      /\ req'[p].img = req[p].img
  BY <1>0, <1>1 DEF AtWork, TypeOK, Request
<1>4. \A c : ~Holds(p, c)
  BY <1>0, <1>1 DEF Holds, Building
<1>5. Holds(p, c0)'
  BY <1>2, <1>3 DEF Holds, Building
<1>6. \A c \in Stray' : c \in Stray \/ c = c0
  BY <1>0, <1>1 DEF Stray
<1>7. \A c \in Stray' : Holds(p, c)' \/ c \in Stray
  BY <1>5, <1>6
<1>8. StrayImages' = StrayImages
  BY <1>0, SameStray
<1>9. \A i : HoldsImage(p, i) => HoldsImage(p, i)'
  BY <1>0, <1>3 DEF HoldsImage, Building
<1>10. \A i \in StrayImages' : HoldsImage(p, i)' \/ (i \in StrayImages /\ ~HoldsImage(p, i))
  BY <1>8, <1>9
<1>11. LedgerOf(p, K, L)'
  BY <1>4, <1>7, <1>10, Accounted
<1> QED BY <1>0, <1>11 DEF Balanced

\* An image that Docker refuses to remove is used by a container, and is charged
\* with it or recorded with it.
LEMMA Refused ==
    ASSUME NEW p \in Procs, AtWork(p), NEW K, NEW L, LedgerOf(p, K, L),
           NEW a \in Apps, NEW i, i \in StrayImages, i[1] = a,
           NEW c \in containers, <<c.app, c.img>> = i, ~Holds(p, c)
    PROVE  i \in L
<1>1. c \in Stray => i \in L
  BY DEF LedgerOf, Charged
<1>2. c.app = a /\ c.img = i[2]
  OBVIOUS
<1>3. c \notin Stray => store[a] # None /\ store[a].name = c.name
  BY <1>2 DEF Stray
<1>4. c \notin Stray => store[a].img = i[2]
  BY <1>2, <1>3 DEF AtWork, Tracking, Labelled, RunsImage, Named
<1>5. ~(store[a] # None /\ store[a].img = i[2])
  BY DEF StrayImages
<1> QED BY <1>1, <1>3, <1>4, <1>5

\* The image of a rollback is listed.
LEMMA RollbackListed ==
    ASSUME NEW p \in Procs, AtWork(p), req[p].kind = "rollback", pc[p] \in Pending,
           NEW i \in StrayImages, i[1] = req[p].app
    PROVE  i[2] # req[p].img
<1>1. \E v \in history[req[p].app] : v.img = req[p].img
  BY DEF AtWork, Remembering, Replacing
<1> QED BY <1>1 DEF StrayImages

\* Giving up: the image and the container of the candidate go, or are charged to
\* the failure that leaves them.
LEMMA GivenUp ==
    ASSUME NEW p \in Procs, AtWork(p), NEW K, NEW L, LedgerOf(p, K, L),
           pc[p] \in Building, NEW C, C \subseteq containers, \A c \in C : ~Holds(p, c),
           NEW i \in StrayImages, HoldsImage(p, i),
           req[p].kind # "rollback" => i \notin Removable(req[p].app, {req[p].img}, C)
    PROVE  i \in L
<1>1. i[1] = req[p].app /\ i[2] = req[p].img
  BY DEF HoldsImage, Building
<1>2. req[p].kind # "rollback"
  BY <1>1, RollbackListed DEF Pending
<1>3. i = <<req[p].app, req[p].img>>
  <2>1. i \in Apps \X Nat
    BY DEF StrayImages, AtWork, TypeOK
  <2> QED BY <1>1, <2>1
<1>4. PICK c \in C : <<c.app, c.img>> = i
  BY <1>2, <1>3 DEF Removable
<1> QED BY <1>1, <1>4, Refused DEF AtWork

LEMMA StartFailedLedger ==
    ASSUME NEW p \in Procs, AtWork(p), NEW K, NEW L, LedgerOf(p, K, L), StartFailed(p)
    PROVE  Balanced(p, K, L)
<1> DEFINE a == req[p].app
<1>1. /\ pc[p] = "start" /\ UNCHANGED <<store, history>>
      /\ images' = IF req[p].kind \in Redeploys
                   THEN images \ Removable(a, {req[p].img}, containers') ELSE images
      /\ \/ containers' = containers /\ faults' = faults
         \/ containers' = containers /\ faults' = faults + 1
         \/ faults' = faults + 1 /\ \E q \in Ports : containers' = containers \cup {Candidate(p, q, FALSE)}
  BY DEF StartFailed, Fault, NoFault, files
<1>2. \A c : ~Holds(p, c)
  BY <1>1 DEF Holds, Building
<1>3. \A i \in StrayImages' : i \in images' /\ i \in StrayImages
  <2>1. images' \subseteq images
    BY <1>1
  <2> QED BY <1>1, <2>1 DEF StrayImages
<1>4. CASE containers' = containers /\ faults' = faults
  <2>1. Stray' = Stray
    BY <1>1, <1>4, SameStray
  <2>2. ASSUME NEW i \in StrayImages', HoldsImage(p, i) PROVE i \in L
    <3>1. req[p].kind # "rollback" => i \notin Removable(a, {req[p].img}, containers)
      BY <1>1, <1>3, <1>4, <2>2 DEF AtWork
    <3> QED BY <1>1, <1>2, <1>3, <2>2, <3>1, GivenUp DEF Building
  <2>3. LedgerOf(p, K, L)'
    BY <1>2, <1>3, <2>1, <2>2, Accounted
  <2> QED BY <1>4, <2>3 DEF Balanced
<1>5. CASE faults' = faults + 1
  <2> DEFINE x == <<a, req[p].name>>
  <2> DEFINE y == <<a, req[p].img>>
  <2>1. \A c \in Stray' : c \in Stray \/ (c.app = a /\ c.name = req[p].name /\ c.img = req[p].img)
    <3>1. \A c \in containers' : c \in containers \/ (c.app = a /\ c.name = req[p].name /\ c.img = req[p].img)
      BY <1>1 DEF Candidate
    <3>2. \A c \in Stray' : c \in containers' /\ (c \in containers => c \in Stray)
      BY <1>1 DEF Stray
    <3> QED BY <3>1, <3>2
  <2>2. \A c \in Stray' : Charged(K \cup {x}, L \cup {y}, c) \/ c \in Stray
    BY <2>1 DEF Charged
  <2>3. \A i \in StrayImages' : HoldsImage(p, i) => i = y
    <3>1. \A i \in StrayImages : i \in Apps \X Nat
      BY DEF StrayImages, AtWork, TypeOK
    <3> QED BY <1>1, <1>3, <3>1 DEF HoldsImage
  <2> HIDE DEF x, y
  <2>4. \A i \in StrayImages' : i \in L \cup {y} \/ (i \in StrayImages /\ ~HoldsImage(p, i))
    BY <1>3, <2>3
  <2>5. PICK x1, y1 : x1 = x /\ y1 = y
    OBVIOUS
  <2>6. LedgerOf(p, K \cup {x1}, L \cup {y1})'
    BY <1>2, <2>2, <2>4, <2>5, Accounted
  <2> QED BY <1>5, <2>6 DEF Balanced
<1> QED BY <1>1, <1>4, <1>5

LEMMA CleanupLedger ==
    ASSUME NEW p \in Procs, AtWork(p), NEW K, NEW L, LedgerOf(p, K, L), Cleanup(p)
    PROVE  Balanced(p, K, L)
<1> DEFINE a == req[p].app
<1> DEFINE rest == containers \ Named(a, req[p].name)
<1> DEFINE gone == IF req[p].kind = "rollback" THEN {} ELSE Removable(a, {req[p].img}, rest)
<1>1. /\ pc[p] = "cleanup" /\ UNCHANGED <<store, history>>
      /\ \/ faults' = faults /\ containers' = rest /\ images' = images \ gone
         \/ faults' = faults + 1 /\ containers' \in {rest, containers} /\ images' = images
  BY DEF Cleanup, Fault, NoFault, files, docker
<1>2. \A c \in containers : Holds(p, c) <=> c \in Named(a, req[p].name)
  BY <1>1 DEF Holds, Named, Building
<1>3. \A c \in rest : ~Holds(p, c) /\ c \in containers
  BY <1>2
<1>4. \A i \in StrayImages' : i \in images' /\ i \in StrayImages
  <2>1. images' \subseteq images
    BY <1>1
  <2> QED BY <1>1, <2>1 DEF StrayImages
<1>5. \A c \in Stray' : c \in containers' /\ c \in Stray
  <2>1. containers' \subseteq containers
    BY <1>1
  <2> QED BY <1>1, <2>1 DEF Stray
<1>6. CASE faults' = faults /\ containers' = rest /\ images' = images \ gone
  <2>1. ASSUME NEW i \in StrayImages', HoldsImage(p, i) PROVE i \in L
    <3>1. req[p].kind # "rollback" => i \notin Removable(a, {req[p].img}, rest)
      BY <1>4, <1>6
    <3> QED BY <1>1, <1>3, <1>4, <2>1, <3>1, GivenUp DEF Building
  <2>2. LedgerOf(p, K, L)'
    BY <1>3, <1>4, <1>5, <1>6, <2>1, Accounted
  <2> QED BY <1>6, <2>2 DEF Balanced
<1>7. CASE faults' = faults + 1
  <2>1. PICK x, y : x = <<a, req[p].name>> /\ y = <<a, req[p].img>>
    OBVIOUS
  <2>2. \A c \in Stray' : Holds(p, c) => Charged(K \cup {x}, L \cup {y}, c)
    <3>1. \A c \in Named(a, req[p].name) : c.app = a /\ c.name = req[p].name /\ c.img = req[p].img
      BY <1>1 DEF AtWork, Tracked, Built, Numbered, Building, Named
    <3>2. \A c \in Stray' : Holds(p, c) => c \in Named(a, req[p].name)
      BY <1>2, <1>5 DEF Stray
    <3> QED BY <2>1, <3>1, <3>2 DEF Charged
  <2>3. \A i \in StrayImages' : HoldsImage(p, i) => i = y
    <3>1. \A i \in StrayImages : i \in Apps \X Nat
      BY DEF StrayImages, AtWork, TypeOK
    <3> QED BY <1>1, <1>4, <2>1, <3>1 DEF HoldsImage
  <2>4. LedgerOf(p, K \cup {x}, L \cup {y})'
    BY <1>4, <1>5, <2>2, <2>3, Accounted
  <2> QED BY <1>7, <2>4 DEF Balanced
<1> QED BY <1>1, <1>6, <1>7

\* The steps of a release that write nothing that counts.
LEMMA BuildingLedger ==
    ASSUME NEW p \in Procs, AtWork(p), NEW K, NEW L, LedgerOf(p, K, L),
           \/ Healthy(p) \/ Unhealthy(p) \/ CommitEnvironment(p) \/ RollbackEnvironment(p)
           \/ SaveRecord(p) /\ store' = store /\ faults' = faults + 1
    PROVE  Balanced(p, K, L)
<1>1. /\ UNCHANGED <<store, history, containers, images, req>> /\ faults' \in {faults, faults + 1}
      /\ pc[p] \in Building \ {"start"}
      /\ \E s \in Building \ {"start"} : pc' = [pc EXCEPT ![p] = s]
  <2>1. CASE Healthy(p) \/ Unhealthy(p)
    BY <2>1 DEF Healthy, Unhealthy, Building, Goto, files, docker
  <2>2. CASE CommitEnvironment(p) \/ RollbackEnvironment(p)
    BY <2>2 DEF CommitEnvironment, RollbackEnvironment, Building, Goto, docker, Fault, NoFault
  <2>3. CASE SaveRecord(p) /\ store' = store /\ faults' = faults + 1
    <3>1. ~NoFault
      BY <2>3 DEF NoFault, AtWork, TypeOK
    <3> QED BY <2>3, <3>1 DEF SaveRecord, Building, Goto, docker, Fault
  <2> QED BY <2>1, <2>2, <2>3
<1>2. pc'[p] \in Building \ {"start"} /\ req'[p] = req[p]
  <2>1. pc \in [Threads -> Steps]
    BY DEF AtWork, TypeOK
  <2> QED BY <1>1, <2>1 DEF Building
<1>3. \A c : Holds(p, c) => Holds(p, c)'
  BY <1>1, <1>2 DEF Holds, Building
<1>4. \A i : HoldsImage(p, i) => HoldsImage(p, i)'
  BY <1>1, <1>2 DEF HoldsImage, Building
<1> QED BY <1>1, <1>3, <1>4, QuietLedger

\* A record replaced by another: what the old one named becomes stray.
LEMMA Replaced ==
    ASSUME NEW p \in Procs, AtWork(p), NEW r \in Record,
           store' = [store EXCEPT ![req[p].app] = r], store[req[p].app] \in Record,
           UNCHANGED <<history, containers, images>>
    PROVE  /\ \A c \in Stray' :
                /\ c.app = req[p].app => c.name # r.name
                /\ c \notin Stray => c.app = req[p].app /\ c.name = store[req[p].app].name
           /\ \A i \in StrayImages' :
                /\ i[1] = req[p].app => i[2] # r.img
                /\ i \notin StrayImages => i[1] = req[p].app /\ i[2] = store[req[p].app].img
<1> DEFINE a == req[p].app
<1>1. /\ store \in [Apps -> Record \cup {None}] /\ a \in Apps /\ r # None /\ store[a] # None
      /\ \A c \in containers : c.app \in Apps
      /\ \A i \in images : i[1] \in Apps
  BY NoneAssumption DEF AtWork, TypeOK, Routes, Container
<1>2. store'[a] = r /\ \A b \in Apps \ {a} : store'[b] = store[b]
  BY <1>1
<1>3. \A c \in Stray' : /\ c.app = a => c.name # r.name
                        /\ c \notin Stray => c.app = a /\ c.name = store[a].name
  BY <1>1, <1>2 DEF Stray
<1>4. \A i \in StrayImages' : /\ i[1] = a => i[2] # r.img
                              /\ i \notin StrayImages => i[1] = a /\ i[2] = store[a].img
  BY <1>1, <1>2 DEF StrayImages
<1> QED BY <1>3, <1>4

LEMMA SaveLedger ==
    ASSUME NEW p \in Procs, AtWork(p), NEW K, NEW L, LedgerOf(p, K, L), SaveRecord(p)
    PROVE  Balanced(p, K, L)
<1> DEFINE r == req[p]
<1>1. CASE Fault /\ Goto(p, "env_rollback") /\ UNCHANGED <<store, mu>>
  BY <1>1, BuildingLedger DEF Fault
<1>2. CASE NoFault /\ Goto(p, "list") /\ store' = [store EXCEPT ![r.app] = r.cand]
  <2>1. /\ pc[p] = "save" /\ faults' = faults /\ UNCHANGED <<history, containers, images, req>>
        /\ pc' = [pc EXCEPT ![p] = "list"]
    BY <1>2 DEF SaveRecord, NoFault, Goto, docker
  <2>2. pc'[p] = "list" /\ req'[p] = r
    BY <2>1 DEF AtWork, TypeOK
  <2>3. /\ r.cand \in Record /\ r.cand.name = r.name /\ r.cand.img = r.img
        /\ store[r.app] = r.old /\ r.old \in Record
    BY <2>1 DEF AtWork, RequestOK, HasCandidate, Tracked
  <2>4. /\ \A c \in Stray' : /\ c.app = r.app => c.name # r.name
                             /\ c \notin Stray => c.app = r.app /\ c.name = r.old.name
        /\ \A i \in StrayImages' :
             /\ i[1] = r.app => i[2] # r.img
             /\ i \notin StrayImages => i[1] = r.app /\ i[2] = r.old.img
    <3>1. PICK c0 \in Record : c0 = r.cand
      BY <2>3
    <3>2. store' = [store EXCEPT ![req[p].app] = c0] /\ store[req[p].app] \in Record
      BY <1>2, <2>3, <3>1
    <3>3. UNCHANGED <<history, containers, images>>
      BY <2>1
    <3>4. /\ \A c \in Stray' :
               /\ c.app = req[p].app => c.name # c0.name
               /\ c \notin Stray => c.app = req[p].app /\ c.name = store[req[p].app].name
          /\ \A i \in StrayImages' :
               /\ i[1] = req[p].app => i[2] # c0.img
               /\ i \notin StrayImages => i[1] = req[p].app /\ i[2] = store[req[p].app].img
      BY <3>2, <3>3, Replaced
    <3> QED BY <2>3, <3>1, <3>4
  <2>5. \A c \in Stray' : Holds(p, c)' \/ (c \in Stray /\ ~Holds(p, c))
    BY <2>1, <2>2, <2>4 DEF Holds, Building
  <2>6. \A i \in StrayImages' : HoldsImage(p, i)' \/ (i \in StrayImages /\ ~HoldsImage(p, i))
    BY <2>1, <2>2, <2>4 DEF HoldsImage, Building
  <2>7. LedgerOf(p, K, L)'
    BY <2>5, <2>6, Accounted
  <2> QED BY <2>1, <2>7 DEF Balanced
<1> QED BY <1>1, <1>2 DEF SaveRecord

LEMMA RestoreLedger ==
    ASSUME NEW p \in Procs, AtWork(p), NEW K, NEW L, LedgerOf(p, K, L), RestoreRecord(p)
    PROVE  Balanced(p, K, L)
<1> DEFINE r == req[p]
<1>0. /\ pc[p] = "restore" /\ UNCHANGED <<history, containers, images>>
      /\ pc \in [Threads -> Steps] /\ req \in [Threads -> Request] /\ r \in Request
      /\ r.cand \in Record /\ r.cand.name = r.name /\ r.cand.img = r.img
      /\ store[r.app] = r.cand /\ r.old \in Record
  BY DEF RestoreRecord, docker, AtWork, TypeOK, RequestOK, HasCandidate, Tracked
<1>1. CASE NoFault /\ Goto(p, "list") /\ store' = [store EXCEPT ![r.app] = r.old]
           /\ req' = [req EXCEPT ![p].restoring = TRUE]
  <2>1. /\ pc'[p] = "list" /\ req'[p].app = r.app /\ req'[p].name = r.name
        /\ req'[p].img = r.img /\ req'[p].old = r.old /\ faults' = faults
    BY <1>0, <1>1 DEF Goto, Request, NoFault
  <2>2. /\ \A c \in Stray' : /\ c.app = r.app => c.name # r.old.name
                             /\ c \notin Stray => c.app = r.app /\ c.name = r.name
        /\ \A i \in StrayImages' :
             /\ i[1] = r.app => i[2] # r.old.img
             /\ i \notin StrayImages => i[1] = r.app /\ i[2] = r.img
    <3>1. PICK c0 \in Record : c0 = r.old
      BY <1>0
    <3>2. store' = [store EXCEPT ![req[p].app] = c0] /\ store[req[p].app] \in Record
      BY <1>0, <1>1, <3>1
    <3>3. UNCHANGED <<history, containers, images>>
      BY <1>0
    <3>4. /\ \A c \in Stray' :
               /\ c.app = req[p].app => c.name # c0.name
               /\ c \notin Stray => c.app = req[p].app /\ c.name = store[req[p].app].name
          /\ \A i \in StrayImages' :
               /\ i[1] = req[p].app => i[2] # c0.img
               /\ i \notin StrayImages => i[1] = req[p].app /\ i[2] = store[req[p].app].img
      BY <3>2, <3>3, Replaced
    <3> QED BY <1>0, <3>1, <3>4
  <2>3. \A c \in Stray' : Holds(p, c)' \/ (c \in Stray /\ ~Holds(p, c))
    BY <1>0, <2>1, <2>2 DEF Holds, Building
  <2>4. \A i \in StrayImages' : HoldsImage(p, i)' \/ (i \in StrayImages /\ ~HoldsImage(p, i))
    BY <1>0, <2>1, <2>2 DEF HoldsImage, Building
  <2>5. LedgerOf(p, K, L)'
    BY <2>3, <2>4, Accounted
  <2> QED BY <2>1, <2>5 DEF Balanced
<1>2. CASE Fault /\ Goto(p, "env_rollback") /\ UNCHANGED <<store, req>>
  <2>1. /\ pc'[p] = "env_rollback" /\ req'[p] = r /\ faults' = faults + 1
        /\ Stray' = Stray /\ StrayImages' = StrayImages
    BY <1>0, <1>2, SameStray DEF Goto, Fault
  <2>2. PICK x, y : x = <<r.app, r.old.name>> /\ y = <<r.app, r.old.img>>
    OBVIOUS
  <2>3. \A c \in Named(r.app, r.old.name) : c.img = r.old.img
    BY DEF AtWork, Tracked, RunsImage
  <2>4. \A c \in Stray' : Charged(K \cup {x}, L \cup {y}, c) \/ Holds(p, c)' \/ (c \in Stray /\ ~Holds(p, c))
    <3> SUFFICES ASSUME NEW c \in Stray, Holds(p, c), ~Holds(p, c)'
                 PROVE  Charged(K \cup {x}, L \cup {y}, c)
      BY <2>1
    <3>1. c \in containers /\ c.app = r.app /\ c.name = r.old.name
      BY <1>0, <2>1 DEF Stray, Holds, Building
    <3>2. c.img = r.old.img
      BY <2>3, <3>1 DEF Named
    <3> QED BY <2>2, <3>1, <3>2 DEF Charged
  <2>5. \A i \in StrayImages' : i \in L \cup {y} \/ HoldsImage(p, i)' \/ (i \in StrayImages /\ ~HoldsImage(p, i))
    <3> SUFFICES ASSUME NEW i \in StrayImages, HoldsImage(p, i), ~HoldsImage(p, i)'
                 PROVE  i = y
      BY <2>1
    <3>1. i \in Apps \X Nat
      BY DEF StrayImages, AtWork, TypeOK
    <3>2. i[1] = r.app /\ i[2] = r.old.img
      BY <1>0, <2>1 DEF HoldsImage, Building
    <3> QED BY <2>2, <3>1, <3>2
  <2>6. LedgerOf(p, K \cup {x}, L \cup {y})'
    BY <2>4, <2>5, Accounted
  <2> QED BY <2>1, <2>6 DEF Balanced
<1> QED BY <1>1, <1>2 DEF RestoreRecord

LEMMA RetireLedger ==
    ASSUME NEW p \in Procs, AtWork(p), NEW K, NEW L, LedgerOf(p, K, L), RetireOld(p)
    PROVE  Balanced(p, K, L)
<1> DEFINE r == req[p]
<1>1. /\ pc[p] = "retire" /\ UNCHANGED <<store, history, images>>
      /\ \/ faults' = faults /\ containers' = containers \ Named(r.app, r.old.name)
         \/ faults' = faults + 1 /\ containers' = containers
  BY DEF RetireOld, Fault, NoFault, files
<1>2. \A c \in containers : Holds(p, c) <=> c \in Named(r.app, r.old.name)
  BY <1>1 DEF Holds, Named, Building
<1>3. \A i : ~HoldsImage(p, i)
  BY <1>1 DEF HoldsImage, Building
<1>4. StrayImages' = StrayImages
  BY <1>1, SameStray
<1>5. \A c \in Stray' : c \in containers' /\ c \in containers /\ c \in Stray
  <2>1. containers' \subseteq containers
    BY <1>1
  <2> QED BY <1>1, <2>1 DEF Stray
<1>6. CASE faults' = faults /\ containers' = containers \ Named(r.app, r.old.name)
  <2>1. \A c \in Stray' : ~Holds(p, c)
    BY <1>2, <1>5, <1>6
  <2>2. LedgerOf(p, K, L)'
    BY <1>3, <1>4, <1>5, <2>1, Accounted
  <2> QED BY <1>6, <2>2 DEF Balanced
<1>7. CASE faults' = faults + 1
  <2>1. PICK x, y : x = <<r.app, r.old.name>> /\ y = <<r.app, r.old.img>>
    OBVIOUS
  <2>2. \A c \in Named(r.app, r.old.name) : c.app = r.app /\ c.name = r.old.name /\ c.img = r.old.img
    BY DEF AtWork, Tracked, RunsImage, Named
  <2>3. \A c \in Stray' : Holds(p, c) => Charged(K \cup {x}, L \cup {y}, c)
    BY <1>2, <1>5, <2>1, <2>2 DEF Charged
  <2>4. LedgerOf(p, K \cup {x}, L \cup {y})'
    BY <1>3, <1>4, <1>5, <2>3, Accounted
  <2> QED BY <1>7, <2>4 DEF Balanced
<1> QED BY <1>1, <1>6, <1>7


\* At most one version falls off the end of the history, and never the one that
\* has just been displaced.
LEMMA PrunedOnce ==
    ASSUME NEW V \in SUBSET Version, IsFiniteSet(V), Ordered(V),
           Cardinality(V) <= MaxPrevious + 1,
           NEW e \in V \ Retained(V), NEW f \in V \ Retained(V)
    PROVE  e = f
<1>0. MaxPrevious \in Nat /\ \A v \in V : v.at \in Nat
  BY ConstantsAssumption DEF Version
<1>1. ASSUME NEW x \in V \ Retained(V), NEW y \in V \ Retained(V), x.at < y.at PROVE FALSE
  <2>1. IsFiniteSet(Newer(V, y)) /\ Cardinality(Newer(V, y)) >= MaxPrevious
    <3>1. IsFiniteSet(Newer(V, y))
      BY FS_Subset DEF Newer
    <3>2. Cardinality(Newer(V, y)) \in Nat
      BY <3>1, FS_CardinalityType
    <3> QED BY <1>0, <3>1, <3>2 DEF Retained
  <2> DEFINE W == Newer(V, y) \cup {y}
  <2>2. IsFiniteSet(W) /\ Cardinality(W) = Cardinality(Newer(V, y)) + 1
    <3>1. y \notin Newer(V, y)
      BY <1>0 DEF Newer
    <3> QED BY <2>1, <3>1, FS_AddElement
  <2>3. IsFiniteSet(W \cup {x}) /\ Cardinality(W \cup {x}) = Cardinality(W) + 1
    <3>1. x \notin W
      BY <1>0, <1>1 DEF Newer
    <3> HIDE DEF W
    <3> QED BY <2>2, <3>1, FS_AddElement
  <2>4. Cardinality(W \cup {x}) <= Cardinality(V)
    <3>1. W \cup {x} \subseteq V
      BY DEF Newer
    <3> QED BY <3>1, FS_Subset
  <2>5. Cardinality(Newer(V, y)) \in Nat /\ Cardinality(V) \in Nat
    BY <2>1, FS_CardinalityType
  <2> HIDE DEF W
  <2> QED BY <1>0, <2>1, <2>2, <2>3, <2>4, <2>5
<1>2. ~(e.at < f.at) /\ ~(f.at < e.at)
  BY <1>1
<1>3. e.at = f.at
  BY <1>0, <1>2
<1> QED BY <1>3 DEF Ordered

LEMMA ExtendedBounded ==
    ASSUME NEW p \in Procs, TypeOK, Retaining(req[p].app), Remembering(p), pc[p] = "record", MaxPrevious > 0
    PROVE  /\ Displaced(p) \in Retained(Extended(p))
           /\ \A e, f \in Extended(p) \ Retained(Extended(p)) : e = f
<1> DEFINE E == Extended(p)
<1> DEFINE H == history[req[p].app]
<1> DEFINE new == Displaced(p)
<1>1. /\ E \subseteq H \cup {new} /\ E \subseteq Version /\ IsFiniteSet(E) /\ Ordered(E)
      /\ Latest(new, E)
  BY Extension
<1>2. new \in E
  BY DEF Extended
<1>3. IsFiniteSet(H) /\ Cardinality(H) <= MaxPrevious
  BY DEF Retaining
<1>4. MaxPrevious \in Nat
  BY ConstantsAssumption
<1> HIDE DEF new, H, E
<1>5. Cardinality(E) <= MaxPrevious + 1
  <2>1. /\ IsFiniteSet(H \cup {new})
        /\ Cardinality(H \cup {new}) \in {Cardinality(H), Cardinality(H) + 1}
    BY <1>3, FS_AddElement
  <2>2. Cardinality(E) <= Cardinality(H \cup {new})
    BY <1>1, <2>1, FS_Subset
  <2>3. Cardinality(H) \in Nat /\ Cardinality(E) \in Nat
    BY <1>1, <1>3, FS_CardinalityType
  <2> QED BY <1>3, <1>4, <2>1, <2>2, <2>3
<1>6. \A e, f \in E \ Retained(E) : e = f
  BY <1>1, <1>5, PrunedOnce
<1>7. new \in Retained(E)
  <2>1. Newer(E, new) = {}
    <3>1. \A v \in E : v.at \in Nat
      BY <1>1 DEF Version
    <3> QED BY <1>1, <1>2, <3>1 DEF Newer, Latest
  <2>2. Cardinality(Newer(E, new)) = 0
    BY <2>1, FS_EmptySet
  <2> QED BY <1>2, <1>4, <2>2 DEF Retained
<1> QED BY <1>6, <1>7 DEF E, new

\* An entry that is gone has fallen off the end, except the one replaced.
LEMMA FallsOff ==
    ASSUME NEW p \in Procs, TypeOK, Retaining(req[p].app), Remembering(p), pc[p] = "record",
           NEW v \in history[req[p].app], v.img # req[p].img, v.img # req[p].old.img
    PROVE  v \in Extended(p)
<1> DEFINE r == req[p]
<1> DEFINE H == history[r.app]
<1>1. /\ Ordered(H)
      /\ r.kind = "rollback" => r.seen = H /\ \E w \in H : Newer(H, w) = {} /\ r.img = w.img
      /\ \A w \in H : w.at \in Nat
  <2>1. Ordered(H)
    BY DEF Retaining
  <2>2. r.kind = "rollback" => r.seen = H /\ \E w \in H : Newer(H, w) = {} /\ r.img = w.img
    <3>1. Replacing(p) /\ pc[p] \in Pending
      BY DEF Remembering, Pending
    <3> QED BY <3>1 DEF Replacing
  <2>3. H \in SUBSET Version
    BY DEF TypeOK, RequestOK, Working
  <2> QED BY <2>1, <2>2, <2>3 DEF Version
<1>2. CASE r.kind # "rollback"
  BY <1>2 DEF Extended
<1>3. CASE r.kind = "rollback"
  <2>1. PICK w \in H : Newer(H, w) = {} /\ r.img = w.img
    BY <1>1, <1>3
  <2>2. Newer(H, v) = {} => v.at = w.at
    BY <1>1, <2>1 DEF Newer
  <2>3. Newer(H, v) # {}
    BY <1>1, <2>1, <2>2 DEF Ordered
  <2> QED BY <1>1, <1>3, <2>3 DEF Extended
<1> QED BY <1>2, <1>3

\* The images that were recorded or listed and are no longer.
LEMMA HistoryStrays ==
    ASSUME NEW p \in Procs, AtWork(p), pc[p] = "record", MaxPrevious > 0,
           store' = store, images' \subseteq images,
           history' = [history EXCEPT ![req[p].app] = Retained(Extended(p))]
    PROVE  \A i \in StrayImages' :
               /\ i \in images' /\ i \in Apps \X Nat
               /\ i[1] = req[p].app => i[2] # req[p].img /\ i[2] # req[p].old.img
               /\ i \notin StrayImages =>
                    /\ i[1] = req[p].app
                    /\ \E v \in Extended(p) \ Retained(Extended(p)) : v.img = i[2]
<1> DEFINE r == req[p]
<1> DEFINE a == req[p].app
<1> DEFINE kept == Retained(Extended(p))
<1>1. /\ a \in Apps /\ history \in [Apps -> SUBSET Version] /\ images \subseteq Apps \X Nat
      /\ store[a] # None /\ store[a].img = r.img
      /\ Displaced(p) \in kept /\ Displaced(p).img = r.old.img
  <2>1. /\ a \in Apps /\ history \in [Apps -> SUBSET Version] /\ images \subseteq Apps \X Nat
    BY DEF AtWork, TypeOK
  <2>2. r.cand \in Record /\ r.cand.img = r.img /\ store[a] = r.cand
    BY DEF AtWork, Tracked, RequestOK, HasCandidate
  <2>3. Displaced(p) \in kept /\ Displaced(p).img = r.old.img
    BY ExtendedBounded DEF Displaced, AtWork
  <2> QED BY <2>1, <2>2, <2>3, NoneAssumption
<1> HIDE DEF kept
<1>2. history'[a] = kept /\ \A b \in Apps \ {a} : history'[b] = history[b]
  BY <1>1 DEF kept
<1>3. ASSUME NEW i \in StrayImages'
      PROVE  /\ i \in images' /\ i \in Apps \X Nat /\ i[1] \in Apps
             /\ ~(store[i[1]] # None /\ store[i[1]].img = i[2])
             /\ \A v \in history'[i[1]] : v.img # i[2]
  <2>1. i \in images' /\ i \in Apps \X Nat
    BY <1>1 DEF StrayImages
  <2>2. ~(store[i[1]] # None /\ store[i[1]].img = i[2])
    BY DEF StrayImages
  <2>3. \A v \in history'[i[1]] : v.img # i[2]
    BY DEF StrayImages
  <2> QED BY <2>1, <2>2, <2>3
<1>4. ASSUME NEW i \in StrayImages', i[1] = a PROVE i[2] # r.img /\ i[2] # r.old.img
  BY <1>1, <1>2, <1>3, <1>4
<1>5. ASSUME NEW i \in StrayImages', i \notin StrayImages
      PROVE  i[1] = a /\ \E v \in Extended(p) \ kept : v.img = i[2]
  <2>1. i \in images
    BY <1>3
  <2>2. PICK v \in history[i[1]] : v.img = i[2]
    BY <1>3, <1>5, <2>1 DEF StrayImages
  <2>3. i[1] = a
    BY <1>2, <1>3, <2>2
  <2>4. v \in Extended(p)
    BY <1>4, <2>2, <2>3, FallsOff DEF AtWork
  <2>5. v \notin kept
    BY <1>2, <1>3, <2>2, <2>3
  <2> QED BY <2>2, <2>3, <2>4, <2>5
<1> QED BY <1>3, <1>4, <1>5 DEF kept

LEMMA RecordHistoryLedger ==
    ASSUME NEW p \in Procs, AtWork(p), NEW K, NEW L, LedgerOf(p, K, L), RecordHistory(p),
           MaxPrevious > 0
    PROVE  Balanced(p, K, L)
<1> DEFINE r == req[p]
<1> DEFINE a == req[p].app
<1> DEFINE E == Extended(p)
<1> DEFINE kept == Retained(Extended(p))
<1> DEFINE pruned == {v.img : v \in E \ kept} \ {req[p].img}
<1> DEFINE gone == Removable(a, pruned, containers)
<1>1. /\ pc[p] = "record" /\ pc' = [pc EXCEPT ![p] = "retire"]
      /\ UNCHANGED <<store, containers, req>> /\ pc \in [Threads -> Steps]
  BY DEF RecordHistory, Goto, AtWork, TypeOK
<1>2. pc'[p] = "retire" /\ req'[p] = r
  BY <1>1
<1>3. /\ r.cand \in Record /\ r.cand.img = r.img /\ r.cand.name = r.name
      /\ store[a] = r.cand /\ store[a] # None
  BY <1>1, NoneAssumption DEF AtWork, Tracked, RequestOK, HasCandidate
<1>4. Stray' = Stray
  BY <1>1, SameStray
<1>5. \A c \in Stray : Holds(p, c) => Holds(p, c)'
  BY <1>1, <1>2, <1>3 DEF Holds, Stray, Building
<1>6. \A c \in Stray' : Holds(p, c)' \/ (c \in Stray /\ ~Holds(p, c))
  BY <1>4, <1>5
<1>7. \A i : HoldsImage(p, i) <=> i[1] = a /\ i[2] \in {r.img, r.old.img}
  BY <1>1 DEF HoldsImage, Building
<1>8. CASE history' = [history EXCEPT ![a] = kept] /\ images' = images \ gone /\ NoFault
  <2>1. /\ images' \subseteq images
        /\ \A i \in StrayImages' : i \in images' /\ i \in Apps \X Nat
        /\ \A i \in StrayImages' : i[1] = a => i[2] # r.img /\ i[2] # r.old.img
        /\ \A i \in StrayImages' : i \notin StrayImages =>
              i[1] = a /\ \E v \in Extended(p) \ kept : v.img = i[2]
    BY <1>1, <1>8, HistoryStrays
  <2>2. ASSUME NEW i \in StrayImages', i \notin StrayImages PROVE i \in L
    <3>1. i \in images' /\ i = <<a, i[2]>> /\ i[2] # r.img /\ i[2] # r.old.img
      BY <2>1, <2>2
    <3>2. i[2] \in pruned
      BY <2>1, <2>2, <3>1
    <3>3. PICK c \in containers : <<c.app, c.img>> = i
      BY <1>8, <3>1, <3>2 DEF Removable
    <3>4. c.app = a /\ c.img = i[2]
      BY <3>1, <3>3
    <3>5. c.name # r.old.name
      BY <3>1, <3>4 DEF AtWork, Tracked, RunsImage, Named
    <3>6. c.name # r.name
      BY <1>3, <3>1, <3>4 DEF AtWork, Tracking, Labelled, RunsImage, Named
    <3>7. c \in Stray
      BY <1>3, <3>4, <3>6 DEF Stray
    <3>8. ~Holds(p, c)
      BY <1>1, <3>5, <3>6 DEF Holds, Building
    <3> QED BY <3>3, <3>7, <3>8 DEF LedgerOf, Charged
  <2>3. \A i \in StrayImages' : i \in L \/ (i \in StrayImages /\ ~HoldsImage(p, i))
    BY <1>7, <2>1, <2>2
  <2>4. LedgerOf(p, K, L)'
    BY <1>6, <2>3, Accounted
  <2> QED BY <1>8, <2>4 DEF Balanced, NoFault
<1>9. CASE history' = [history EXCEPT ![a] = kept] /\ images' = images /\ Fault
  <2>1. /\ \A i \in StrayImages' : i \in images' /\ i \in Apps \X Nat
        /\ \A i \in StrayImages' : i[1] = a => i[2] # r.img /\ i[2] # r.old.img
        /\ \A i \in StrayImages' : i \notin StrayImages =>
              i[1] = a /\ \E v \in Extended(p) \ kept : v.img = i[2]
    BY <1>1, <1>9, HistoryStrays
  <2>2. PICK y : \A v \in E \ kept : y = <<a, v.img>>
    <3>1. \A e, f \in E \ kept : e = f
      BY <1>1, ExtendedBounded DEF AtWork
    <3>2. CASE E \ kept = {}
      BY <3>2
    <3>3. ASSUME NEW e \in E \ kept PROVE \A v \in E \ kept : <<a, e.img>> = <<a, v.img>>
      BY <3>1, <3>3
    <3> HIDE DEF E, kept
    <3> QED BY <3>2, <3>3
  <2>3. \A i \in StrayImages' : i \notin StrayImages => i = y
    BY <2>1, <2>2
  <2>4. \A i \in StrayImages' : i \in L \cup {y} \/ (i \in StrayImages /\ ~HoldsImage(p, i))
    BY <1>7, <2>1, <2>3
  <2>5. LedgerOf(p, K \cup {0}, L \cup {y})'
    BY <1>6, <2>4, Accounted
  <2> QED BY <1>9, <2>5 DEF Balanced, Fault
<1>10. CASE UNCHANGED <<history, images>> /\ Fault
  <2>1. StrayImages' = StrayImages
    BY <1>1, <1>10, SameStray
  <2>2. PICK y : y = <<a, r.old.img>>
    OBVIOUS
  <2>3. ASSUME NEW i \in StrayImages', HoldsImage(p, i) PROVE i = y
    <3>1. i \in Apps \X Nat /\ i[1] = a
      BY <1>7, <2>1, <2>3 DEF StrayImages, AtWork, TypeOK
    <3>2. i[2] # r.img
      BY <1>3, <2>1, <3>1 DEF StrayImages
    <3>3. i[2] = r.old.img
      BY <1>7, <2>3, <3>2
    <3> QED BY <2>2, <3>1, <3>3
  <2>4. \A i \in StrayImages' : i \in L \cup {y} \/ (i \in StrayImages /\ ~HoldsImage(p, i))
    BY <2>1, <2>3
  <2>5. LedgerOf(p, K \cup {0}, L \cup {y})'
    BY <1>6, <2>4, Accounted
  <2> QED BY <1>10, <2>5 DEF Balanced, Fault
<1>11. \/ history' = [history EXCEPT ![a] = kept] /\ images' = images \ gone /\ NoFault
       \/ history' = [history EXCEPT ![a] = kept] /\ images' = images /\ Fault
       \/ UNCHANGED <<history, images>> /\ Fault
  BY DEF RecordHistory
<1> QED BY <1>8, <1>9, <1>10, <1>11

\* A synchronization holds what it was handed; one that puts the old routes back
\* gives up the old release, which the records name again.
LEMMA SyncLedger ==
    ASSUME NEW p \in Procs, AtWork(p), NEW K, NEW L, LedgerOf(p, K, L), Sync(p)
    PROVE  Balanced(p, K, L)
<1> DEFINE r == req[p]
<1>1. /\ pc[p] \in Syncing /\ UNCHANGED <<store, history, containers, images>>
      /\ faults' \in {faults, faults + 1}
      /\ req' = req \/ req' = [req EXCEPT ![p].snap = store]
      /\ \E s \in {"write", "reload", "env_rollback", "record", "restore"} :
           /\ pc' = [pc EXCEPT ![p] = s]
           /\ s = "env_rollback" => r.restoring
  BY DEF Sync, SyncList, SyncWrite, SyncReload, AfterSync, Goto, files, docker, AtWork,
     Fault, NoFault
<1>2. /\ pc \in [Threads -> Steps] /\ req \in [Threads -> Request] /\ r \in Request
  BY DEF AtWork, TypeOK
<1>3. /\ req'[p].app = r.app /\ req'[p].name = r.name /\ req'[p].img = r.img /\ req'[p].old = r.old
  BY <1>1, <1>2 DEF Request
<1>4. /\ pc'[p] \in {"write", "reload", "env_rollback", "record", "restore"}
      /\ pc'[p] = "env_rollback" => r.restoring
  BY <1>1, <1>2
<1>5. CASE pc'[p] # "env_rollback"
  <2>1. \A c : Holds(p, c) => Holds(p, c)'
    BY <1>1, <1>3, <1>4, <1>5 DEF Holds, Building
  <2>2. \A i : HoldsImage(p, i) => HoldsImage(p, i)'
    BY <1>1, <1>3, <1>4, <1>5 DEF HoldsImage, Building
  <2> QED BY <1>1, <2>1, <2>2, QuietLedger
<1>6. CASE pc'[p] = "env_rollback"
  <2>1. store[r.app] = r.old /\ r.old \in Record /\ r.old # None
    BY <1>1, <1>4, <1>6, NoneAssumption DEF AtWork, Tracked
  <2>2. \A c \in Stray : Holds(p, c) => Holds(p, c)'
    BY <1>1, <1>3, <1>6, <2>1 DEF Holds, Building, Stray
  <2>3. \A i \in StrayImages : HoldsImage(p, i) => HoldsImage(p, i)'
    BY <1>1, <1>3, <1>6, <2>1 DEF HoldsImage, Building, StrayImages
  <2> QED BY <1>1, <2>2, <2>3, QuietLedger
<1> QED BY <1>5, <1>6

\* A restart stops and starts containers, nothing more.
LEMMA RestartLedger ==
    ASSUME NEW p \in Procs, TypeOK, NEW K, NEW L, LedgerOf(p, K, L), RestartStop(p) \/ RestartUp(p)
    PROVE  Balanced(p, K, L)
<1>1. /\ pc[p] \in Restarting /\ UNCHANGED <<store, history, images>>
      /\ faults' \in {faults, faults + 1}
  BY DEF RestartStop, RestartUp, files, Fault, NoFault
<1>2. \A c : ~Holds(p, c) /\ ~HoldsImage(p, c)
  BY <1>1 DEF Holds, HoldsImage, Building
<1>3. \A d \in containers' : \E c \in containers : d.app = c.app /\ d.name = c.name /\ d.img = c.img
  <2>1. containers \subseteq Container
    BY DEF TypeOK
  <2> DEFINE C == Named(req[p].app, req[p].old.name)
  <2>2. \/ containers' = containers
        \/ containers' = {IF c \in C THEN [c EXCEPT !.up = FALSE] ELSE c : c \in containers}
        \/ containers' = {IF c \in C /\ c.port \in FreePorts
                         THEN [c EXCEPT !.up = TRUE] ELSE c : c \in containers}
    BY DEF RestartStop, RestartUp
  <2> HIDE DEF C
  <2> QED BY <2>1, <2>2 DEF Container
<1>4. \A d \in Stray' : Charged(K, L, d)
  <2>1. ASSUME NEW d \in Stray' PROVE Charged(K, L, d)
    <3>1. PICK c \in containers : d.app = c.app /\ d.name = c.name /\ d.img = c.img
      BY <1>3 DEF Stray
    <3>2. c \in Stray
      BY <1>1, <3>1 DEF Stray
    <3> QED BY <1>2, <3>1, <3>2 DEF LedgerOf, Charged
  <2> QED BY <2>1
<1>5. \A i \in StrayImages' : i \in StrayImages /\ ~HoldsImage(p, i)
  BY <1>1, <1>2, SameStray
<1>6. LedgerOf(p, K, L)'
  BY <1>4, <1>5, Accounted
<1>7. \A d \in Stray' : Charged(K \cup {0}, L \cup {0}, d)
  BY <1>4 DEF Charged
<1>8. LedgerOf(p, K \cup {0}, L \cup {0})'
  BY <1>5, <1>7, Accounted
<1> QED BY <1>1, <1>6, <1>8 DEF Balanced

\* What one request has in hand belongs to one release.
LEMMA InHand ==
    ASSUME NEW p \in Procs, AtWork(p)
    PROVE  \E n, m :
             /\ \A c \in Stray : Holds(p, c) => c.app = req[p].app /\ c.name = n /\ c.img = m
             /\ \A i \in StrayImages : HoldsImage(p, i) => i = <<req[p].app, m>>
<1> DEFINE r == req[p]
<1>1. images \subseteq Apps \X Nat /\ r.old # None
  BY NoneAssumption DEF AtWork, TypeOK
<1>2. \A c \in Named(r.app, r.old.name) : c.img = r.old.img
  BY DEF AtWork, Tracked, RunsImage
<1>3. CASE pc[p] \in Building
  <2>1. \A c \in Stray : Holds(p, c) => c.app = r.app /\ c.name = r.name /\ c.img = r.img
    BY <1>3 DEF Stray, Holds, AtWork, Tracked, Built, Numbered, Building, Named
  <2>2. \A i \in StrayImages : HoldsImage(p, i) => i = <<r.app, r.img>>
    BY <1>1, <1>3 DEF StrayImages, HoldsImage, Building
  <2> QED BY <2>1, <2>2
<1>4. CASE pc[p] \in Syncing \cup {"restore", "record"} /\ store[r.app] = r.old
  <2>1. \A c \in Stray : Holds(p, c) => c.app = r.app /\ c.name = r.name /\ c.img = r.img
    BY <1>1, <1>4 DEF Stray, Holds, AtWork, Tracked, Built, Numbered, Building, Named
  <2>2. \A i \in StrayImages : HoldsImage(p, i) => i = <<r.app, r.img>>
    BY <1>1, <1>4 DEF StrayImages, HoldsImage, Building
  <2> QED BY <2>1, <2>2
<1>5. CASE pc[p] \in Syncing \cup {"restore", "record"} /\ store[r.app] # r.old
  <2>1. store[r.app] = r.cand /\ r.cand # None /\ r.cand.name = r.name /\ r.cand.img = r.img
    BY <1>5, NoneAssumption DEF AtWork, Tracked, RequestOK, HasCandidate
  <2>2. \A c \in Stray : Holds(p, c) => c.app = r.app /\ c.name = r.old.name /\ c.img = r.old.img
    BY <1>2, <1>5, <2>1 DEF Stray, Holds, Building, Named
  <2>3. \A i \in StrayImages : HoldsImage(p, i) => i = <<r.app, r.old.img>>
    BY <1>1, <1>5, <2>1 DEF StrayImages, HoldsImage, Building
  <2> QED BY <2>2, <2>3
<1>6. CASE pc[p] \notin Building \cup Syncing \cup {"restore", "record"}
  <2>1. \A c \in Stray : Holds(p, c) => c.app = r.app /\ c.name = r.old.name /\ c.img = r.old.img
    BY <1>2, <1>6 DEF Stray, Holds, Building, Named
  <2>2. \A i \in StrayImages : ~HoldsImage(p, i)
    BY <1>6 DEF HoldsImage, Building
  <2> QED BY <2>1, <2>2
<1> QED BY <1>3, <1>4, <1>5, <1>6

LEMMA WorkLedger ==
    ASSUME NEW p \in Procs, AtWork(p), NEW K, NEW L, LedgerOf(p, K, L), Lock(p) \/ Work(p),
           MaxPrevious > 0
    PROVE  Balanced(p, K, L)
<1>1. pc[p] \notin Restarting \cup Deleting /\ req[p].kind # "deploy"
  BY DEF AtWork, RequestOK
<1>2. \/ LockRedeploy(p) \/ LockRollback(p) \/ Build(p) \/ StartOK(p) \/ StartFailed(p)
      \/ Healthy(p) \/ Unhealthy(p) \/ CommitEnvironment(p) \/ RollbackEnvironment(p)
      \/ Cleanup(p) \/ SaveRecord(p) \/ RestoreRecord(p) \/ RecordHistory(p) \/ RetireOld(p)
  BY <1>1 DEF Lock, Work, LockDeploy, RestartStop, RestartUp, DeleteContainer,
     DeleteHistoryImages, DeleteHistory, DeleteImage, DeleteEnvironment, DeleteRecord
<1> QED
  BY <1>2, LockLedger, BuildLedger, StartLedger, StartFailedLedger, BuildingLedger,
     CleanupLedger, SaveLedger, RestoreLedger, RecordHistoryLedger, RetireLedger

-----------------------------------------------------------------------------
\* A container is added under a name that was free, and otherwise only removed.
LEMMA WorkContainers ==
    ASSUME NEW p \in Procs, AtWork(p), Lock(p) \/ Work(p)
    PROVE  \/ containers' \subseteq containers
           \/ /\ pc[p] = "start" /\ store' = store /\ Named(req[p].app, req[p].name) = {}
              /\ \E c : /\ containers' = containers \cup {c}
                        /\ c.app = req[p].app /\ c.name = req[p].name /\ c.img = req[p].img
<1>1. pc[p] \notin Restarting \cup Deleting
  BY DEF AtWork, RequestOK
<1>2. CASE StartOK(p) \/ StartFailed(p)
  <2>1. pc[p] = "start" /\ store' = store
    BY <1>2 DEF StartOK, StartFailed, files
  <2>2. \/ containers' = containers
        \/ /\ Named(req[p].app, req[p].name) = {}
           /\ \E q, b : containers' = containers \cup {Candidate(p, q, b)}
    BY <1>2 DEF StartOK, StartFailed
  <2>3. \A q, b : LET c == Candidate(p, q, b) IN
          c.app = req[p].app /\ c.name = req[p].name /\ c.img = req[p].img
    BY DEF Candidate
  <2> QED BY <2>1, <2>2, <2>3
<1>3. CASE Lock(p)
  BY <1>3 DEF Lock, LockDeploy, LockRedeploy, LockRollback, docker
<1>4. CASE Work(p) /\ ~StartOK(p) /\ ~StartFailed(p)
  BY <1>1, <1>4 DEF Work, RestartStop, RestartUp, DeleteContainer,
     DeleteHistoryImages, DeleteHistory, DeleteImage, DeleteEnvironment, DeleteRecord,
     Build, Healthy, Unhealthy, CommitEnvironment, RollbackEnvironment, Cleanup, SaveRecord,
     RestoreRecord, RecordHistory, RetireOld, docker
<1> QED BY <1>2, <1>3, <1>4

LEMMA NamesStep ==
    ASSUME NEW p \in Procs, AtWork(p), Lock(p) \/ Work(p)
    PROVE  UniqueNames'
<1>1. UniqueNames
  BY DEF AtWork, Tracking, Labelled
<1>2. CASE containers' \subseteq containers
  BY <1>1, <1>2 DEF UniqueNames
<1>3. CASE ~(containers' \subseteq containers)
  <2>1. PICK c : /\ Named(req[p].app, req[p].name) = {} /\ containers' = containers \cup {c}
                 /\ c.app = req[p].app /\ c.name = req[p].name
    BY <1>3, WorkContainers
  <2> QED BY <1>1, <2>1 DEF UniqueNames, Named
<1> QED BY <1>2, <1>3

\* The records in the store and in a request's hands keep naming containers of
\* their image.
LEMMA KeepsImage ==
    ASSUME NEW p \in Procs, AtWork(p), Lock(p) \/ Work(p), NEW a, NEW r,
           RunsImage(a, r), a = req[p].app /\ pc[p] = "start" => r.name # req[p].name
    PROVE  RunsImage(a, r)'
<1>1. CASE containers' \subseteq containers
  BY <1>1 DEF RunsImage, Named
<1>2. CASE ~(containers' \subseteq containers)
  <2>1. PICK c : /\ containers' = containers \cup {c} /\ pc[p] = "start"
                 /\ c.app = req[p].app /\ c.name = req[p].name
    BY <1>2, WorkContainers
  <2> QED BY <2>1 DEF RunsImage, Named
<1> QED BY <1>1, <1>2

LEMMA LabelledStep ==
    ASSUME NEW p \in Procs, AtWork(p), Lock(p) \/ Work(p)
    PROVE  Labelled'
<1> DEFINE r == req[p]
<1>1. /\ Labelled /\ Tracked(p) /\ store \in Routes /\ r.app \in Apps /\ clock \in Nat
      /\ r.old \in Record /\ RequestOK(p) /\ r \in Request
  BY DEF AtWork, Tracking, TypeOK
<1>2. clock' \in {clock, clock + 1}
  BY WorkRecords DEF AtWork
<1>3. \A b \in Apps : \A m \in Nat : m <= clock => m <= clock'
  BY <1>1, <1>2
<1>4. ASSUME NEW b \in Apps, store[b] # None, store'[b] = store[b]
      PROVE  store'[b].name <= clock' /\ RunsImage(b, store[b])'
  <2>1. store[b].name <= clock /\ RunsImage(b, store[b]) /\ store[b] \in Record
    BY <1>1, <1>4 DEF Labelled, Routes
  <2>2. b = r.app /\ pc[p] = "start" => store[b].name # r.name
    <3>1. pc[p] = "start" => store[r.app] = r.old /\ r.old.name < r.name /\ r.old.name \in Nat /\ r.name \in Nat
      BY <1>1 DEF Tracked, Working, AtWork, Numbered, Building, Record, Request
    <3> QED BY <3>1
  <2>3. PICK s : s = store[b]
    OBVIOUS
  <2>4. RunsImage(b, s)'
    BY <2>1, <2>2, <2>3, KeepsImage
  <2>5. RunsImage(b, store[b])'
    BY <1>4, <2>3, <2>4 DEF RunsImage, Named
  <2>6. store'[b].name <= clock'
    BY <1>3, <1>4, <2>1 DEF Record
  <2> QED BY <2>5, <2>6
<1>5. ASSUME NEW b \in Apps, b = r.app, store' = [store EXCEPT ![r.app] = r.cand], pc[p] = "save"
      PROVE  store'[b].name <= clock' /\ RunsImage(b, store[b])'
  <2>1. /\ r.cand \in Record /\ r.cand.name = r.name /\ r.cand.img = r.img /\ r.name <= clock
        /\ r.name \in Nat /\ \A c \in Named(r.app, r.name) : c.img = r.img
    BY <1>1, <1>5 DEF RequestOK, HasCandidate, Tracked, AtWork, Built, Numbered, Building,
       Request
  <2>2. store'[b] = r.cand
    BY <1>1, <1>5 DEF Routes
  <2>3. PICK s : s = r.cand
    OBVIOUS
  <2>4. RunsImage(b, s)
    BY <1>5, <2>1, <2>3 DEF RunsImage
  <2>5. containers' \subseteq containers
    BY <1>5, WorkContainers
  <2>6. RunsImage(b, store[b])'
    BY <2>2, <2>3, <2>4, <2>5 DEF RunsImage, Named
  <2> QED BY <1>3, <1>1, <2>1, <2>2, <2>6
<1>6. ASSUME NEW b \in Apps, b = r.app, store' = [store EXCEPT ![r.app] = r.old], pc[p] = "restore"
      PROVE  store'[b].name <= clock' /\ RunsImage(b, store[b])'
  <2>1. r.old.name <= clock /\ r.old.name \in Nat /\ RunsImage(b, r.old)
    BY <1>1, <1>6 DEF Tracked, AtWork, Record
  <2>2. store'[b] = r.old
    BY <1>1, <1>6 DEF Routes
  <2>3. containers' \subseteq containers
    BY <1>6, WorkContainers
  <2>4. RunsImage(b, store[b])'
    BY <2>1, <2>2, <2>3 DEF RunsImage, Named
  <2> QED BY <1>1, <1>3, <2>1, <2>2, <2>4
<1>7. \/ store' = store
      \/ pc[p] = "save" /\ store' = [store EXCEPT ![r.app] = r.cand]
      \/ pc[p] = "restore" /\ store' = [store EXCEPT ![r.app] = r.old]
  BY <1>1, WorkRecords DEF AtWork, RequestOK
<1>8. \A b \in Apps : store'[b] # None => store'[b].name <= clock' /\ RunsImage(b, store[b])'
  <2> SUFFICES ASSUME NEW b \in Apps, store'[b] # None
               PROVE  store'[b].name <= clock' /\ RunsImage(b, store[b])'
    OBVIOUS
  <2>1. CASE b # r.app \/ store' = store
    <3>1. store'[b] = store[b]
      BY <1>1, <1>7, <2>1 DEF Routes
    <3> QED BY <1>4, <3>1
  <2>2. CASE b = r.app /\ store' # store
    BY <1>5, <1>6, <1>7, <2>2
  <2> QED BY <2>1, <2>2
<1> QED BY <1>8, NamesStep DEF Labelled

\* What the store names by the step a request is at.
StoreStands(p) == LET r == req[p] IN
    /\ pc[p] \in {"lock", "build", "start", "verify", "commit", "save"} => store[r.app] = r.old
    /\ pc[p] \in {"restore", "record", "retire"} => store[r.app] = r.cand
    /\ pc[p] \in Syncing => store[r.app] = IF r.restoring THEN r.old ELSE r.cand

\* A request that goes on with the release it has chosen.
LEMMA TracksOn ==
    ASSUME NEW p \in Procs, AtWork(p), SameRelease(p), clock' = clock,
           containers' \subseteq containers, StoreStands(p)',
           pc'[p] \in Numbered => pc[p] \in Numbered, pc'[p] \in Built => pc[p] \in Built
    PROVE  Tracked(p)'
<1> DEFINE r == req[p]
<1>1. /\ r.kind \in Cutovers /\ r.old.name <= clock /\ RunsImage(r.app, r.old)
      /\ pc[p] \in Numbered => r.old.name < r.name /\ r.name <= clock
      /\ pc[p] \in Built => \A c \in Named(r.app, r.name) : c.img = r.img
  BY DEF AtWork, Tracked
<1>2. \A a, n : Named(a, n)' \subseteq Named(a, n)
  BY DEF Named
<1>3. /\ req'[p].kind = r.kind /\ req'[p].app = r.app /\ req'[p].old = r.old
      /\ req'[p].img = r.img /\ req'[p].name = r.name
  BY DEF SameRelease
<1>4. /\ req'[p].kind \in Cutovers /\ req'[p].old.name <= clock'
      /\ pc'[p] \in Numbered => req'[p].old.name < req'[p].name /\ req'[p].name <= clock'
  BY <1>1, <1>3
<1>5. RunsImage(req[p].app, req[p].old)'
  BY <1>1, <1>2, <1>3 DEF RunsImage, Named
<1>6. pc'[p] \in Built => \A c \in Named(req[p].app, req[p].name)' : c.img = req'[p].img
  BY <1>1, <1>2, <1>3 DEF Named
<1> QED BY <1>4, <1>5, <1>6 DEF Tracked, StoreStands

LEMMA Rests ==
    ASSUME TypeOK, NEW p \in Procs, Finish(p)
    PROVE  Tracked(p)'
BY FinishOthers, TypeParts DEF Tracked, Working

LEMMA NumberingTracks ==
    ASSUME NEW p \in Procs, AtWork(p), Build(p) \/ LockRollback(p)
    PROVE  Tracked(p)'
<1>1. CASE Finish(p)
  BY <1>1, Rests DEF AtWork
<1>2. CASE ~Finish(p)
  <2> DEFINE r == req[p]
  <2>1. /\ pc \in [Threads -> Steps] /\ req \in [Threads -> Request] /\ r \in Request /\ clock \in Nat
        /\ r.old \in Record /\ r.old.name <= clock /\ RunsImage(r.app, r.old) /\ r.kind \in Cutovers
    BY DEF AtWork, TypeOK, Tracked
  <2>2. /\ pc[p] \in {"lock", "build"} /\ pc' = [pc EXCEPT ![p] = "start"] /\ clock' = clock + 1
        /\ store' = store /\ containers' = containers
    BY <1>2 DEF Build, LockRollback, Goto, files, docker
  <2>3. /\ req'[p].app = r.app /\ req'[p].old = r.old /\ req'[p].kind = r.kind
        /\ req'[p].name = clock + 1
    <3>1. CASE Build(p)
      <4>1. req'[p] = [r EXCEPT !.img = clock + 1,
                         !.name = IF r.kind = "deploy" THEN 0 ELSE clock + 1]
        BY <1>2, <2>1, <3>1 DEF Build
      <4> QED BY <2>1, <4>1 DEF Request
    <3>2. CASE LockRollback(p)
      <4>1. PICK v : req'[p] = [r EXCEPT !.prevEnv = envFile[r.app], !.img = v.img,
                                  !.name = clock + 1, !.seen = history[r.app]]
        BY <1>2, <2>1, <3>2 DEF LockRollback
      <4> QED BY <2>1, <4>1 DEF Request
    <3> QED BY <3>1, <3>2
  <2>4. store[r.app] = r.old
    BY <2>2 DEF AtWork, Tracked
  <2>5. r.old.name < clock + 1
    BY <2>1 DEF Record
  <2>6. RunsImage(req[p].app, req[p].old)'
    BY <2>1, <2>2, <2>3 DEF RunsImage, Named
  <2>7. r.old.name <= clock'
    BY <2>1, <2>2 DEF Record
  <2>8. clock' <= clock'
    BY <2>1, <2>2
  <2>9. pc'[p] = "start"
    BY <2>1, <2>2
  <2> QED BY <2>1, <2>2, <2>3, <2>4, <2>5, <2>6, <2>7, <2>8, <2>9 DEF Tracked, Built, Numbered
<1> QED BY <1>1, <1>2

LEMMA StartTracks ==
    ASSUME NEW p \in Procs, AtWork(p), StartOK(p)
    PROVE  Tracked(p)'
<1> DEFINE r == req[p]
<1>1. PICK q \in Ports :
        /\ pc[p] = "start" /\ pc' = [pc EXCEPT ![p] = "verify"] /\ clock' = clock /\ store' = store
        /\ Named(r.app, r.name) = {} /\ containers' = containers \cup {Candidate(p, q, TRUE)}
        /\ req' = [req EXCEPT ![p].cand =
                     [name |-> r.name, img |-> r.img, port |-> q, env |-> Effective(p)]]
  BY DEF StartOK, Goto, files
<1>2. /\ pc'[p] = "verify" /\ req'[p].kind = r.kind /\ req'[p].app = r.app /\ req'[p].old = r.old
      /\ req'[p].name = r.name /\ req'[p].img = r.img
  BY <1>1 DEF AtWork, TypeOK, Request
<1>3. /\ r.kind \in Cutovers /\ r.old.name <= clock /\ RunsImage(r.app, r.old)
      /\ r.old.name < r.name /\ r.name <= clock /\ store[r.app] = r.old
      /\ r.old.name \in Nat /\ r.name \in Nat
  BY <1>1 DEF AtWork, Tracked, Numbered, Building, Record, Request
<1>4. PICK c0 : c0 = Candidate(p, q, TRUE)
  OBVIOUS
<1>5. /\ containers' = containers \cup {c0}
      /\ c0.app = r.app /\ c0.name = r.name /\ c0.img = r.img
  BY <1>1, <1>4 DEF Candidate
<1>6. r.old.name # r.name
  BY <1>3
<1>7. RunsImage(req[p].app, req[p].old)'
  BY <1>2, <1>3, <1>5, <1>6 DEF RunsImage, Named
<1>8. \A c \in Named(req[p].app, req[p].name)' : c.img = req'[p].img
  BY <1>1, <1>2, <1>5 DEF Named
<1> QED BY <1>1, <1>2, <1>3, <1>7, <1>8 DEF Tracked

LEMMA PromoteTracks ==
    ASSUME NEW p \in Procs, AtWork(p),
           \/ LockRedeploy(p) \/ Healthy(p) \/ Unhealthy(p) \/ CommitEnvironment(p)
           \/ RollbackEnvironment(p) \/ SaveRecord(p) \/ RestoreRecord(p) \/ RecordHistory(p)
    PROVE  Tracked(p)'
<1> DEFINE r == req[p]
<1>f. CASE Finish(p)
  BY <1>f, Rests DEF AtWork
<1>0. /\ pc \in [Threads -> Steps] /\ req \in [Threads -> Request] /\ r \in Request
      /\ store \in Routes /\ r.app \in Apps
  BY DEF AtWork, TypeOK
<1>1. CASE LockRedeploy(p) /\ ~Finish(p)
  <2>1. /\ pc[p] = "lock" /\ pc' = [pc EXCEPT ![p] = "build"]
        /\ UNCHANGED <<clock, store, containers>>
        /\ req' = [req EXCEPT ![p].prevEnv = envFile[r.app]]
    BY <1>1 DEF LockRedeploy, Goto, files, docker
  <2>2. pc'[p] = "build" /\ SameRelease(p)
    BY <1>0, <2>1 DEF SameRelease, Request
  <2>3. StoreStands(p)'
    BY <2>1, <2>2 DEF StoreStands, SameRelease, AtWork, Tracked
  <2> QED BY <2>1, <2>2, <2>3, TracksOn DEF Built, Numbered, Building
<1>2. CASE Healthy(p) \/ Unhealthy(p) \/ CommitEnvironment(p) \/ RollbackEnvironment(p)
  <2>1. /\ pc[p] \in {"verify", "commit", "env_rollback"} /\ UNCHANGED <<clock, store, containers, req>>
        /\ \E s \in {"commit", "save", "cleanup"} :
             pc' = [pc EXCEPT ![p] = s] /\ (pc[p] = "env_rollback" => s = "cleanup")
    BY <1>2 DEF Healthy, Unhealthy, CommitEnvironment, RollbackEnvironment, Goto, files, docker
  <2>2. /\ pc'[p] \in {"commit", "save", "cleanup"}
        /\ pc[p] = "env_rollback" => pc'[p] = "cleanup"
        /\ SameRelease(p) /\ req'[p] = r
    BY <1>0, <2>1 DEF SameRelease
  <2>3. StoreStands(p)'
    BY <2>1, <2>2 DEF StoreStands, AtWork, Tracked
  <2> QED BY <2>1, <2>2, <2>3, TracksOn DEF Built, Numbered, Building
<1>3. CASE SaveRecord(p)
  <2>1. /\ pc[p] = "save" /\ UNCHANGED <<clock, containers, req>>
        /\ \/ pc' = [pc EXCEPT ![p] = "list"] /\ store' = [store EXCEPT ![r.app] = r.cand]
           \/ pc' = [pc EXCEPT ![p] = "env_rollback"]
    BY <1>3 DEF SaveRecord, Goto, docker
  <2>2. /\ SameRelease(p) /\ req'[p] = r /\ ~r.restoring
        /\ \/ pc'[p] = "list" /\ store'[r.app] = r.cand
           \/ pc'[p] = "env_rollback"
    BY <1>0, <2>1 DEF SameRelease, AtWork, Remembering, Recording, Routes
  <2>3. StoreStands(p)'
    BY <2>2 DEF StoreStands
  <2> QED BY <2>1, <2>2, <2>3, TracksOn DEF Built, Numbered, Building
<1>4. CASE RestoreRecord(p)
  <2>1. /\ pc[p] = "restore" /\ UNCHANGED <<clock, containers>>
        /\ \/ /\ pc' = [pc EXCEPT ![p] = "list"] /\ store' = [store EXCEPT ![r.app] = r.old]
              /\ req' = [req EXCEPT ![p].restoring = TRUE]
           \/ pc' = [pc EXCEPT ![p] = "env_rollback"] /\ req' = req
    BY <1>4 DEF RestoreRecord, Goto, docker
  <2>2. /\ SameRelease(p)
        /\ \/ pc'[p] = "list" /\ store'[r.app] = r.old /\ req'[p].restoring
           \/ pc'[p] = "env_rollback"
    BY <1>0, <2>1 DEF SameRelease, Request, Routes
  <2>3. StoreStands(p)'
    BY <2>2 DEF StoreStands, SameRelease
  <2> QED BY <2>1, <2>2, <2>3, TracksOn DEF Built, Numbered, Building
<1>5. CASE RecordHistory(p)
  <2>1. /\ pc[p] = "record" /\ UNCHANGED <<clock, containers, store, req>>
        /\ pc' = [pc EXCEPT ![p] = "retire"]
    BY <1>5 DEF RecordHistory, Goto
  <2>2. pc'[p] = "retire" /\ SameRelease(p) /\ req'[p] = r
    BY <1>0, <2>1 DEF SameRelease
  <2>3. StoreStands(p)'
    BY <2>1, <2>2 DEF StoreStands, AtWork, Tracked
  <2> QED BY <2>1, <2>2, <2>3, TracksOn DEF Built, Numbered, Building
<1> QED BY <1>f, <1>1, <1>2, <1>3, <1>4, <1>5

LEMMA SyncTracks ==
    ASSUME NEW p \in Procs, AtWork(p), Sync(p)
    PROVE  Tracked(p)'
<1> DEFINE r == req[p]
<1>1. /\ pc[p] \in Syncing /\ UNCHANGED <<store, containers, clock>>
      /\ req' = req \/ req' = [req EXCEPT ![p].snap = store]
      /\ \E s \in {"write", "reload", "env_rollback", "record", "restore"} :
           /\ pc' = [pc EXCEPT ![p] = s]
           /\ s \in {"record", "restore"} => ~r.restoring
  BY DEF Sync, SyncList, SyncWrite, SyncReload, AfterSync, Goto, files, docker, AtWork
<1>2. /\ pc \in [Threads -> Steps] /\ req \in [Threads -> Request] /\ r \in Request
  BY DEF AtWork, TypeOK
<1>3. /\ SameRelease(p) /\ req'[p].cand = r.cand /\ req'[p].restoring = r.restoring
  BY <1>1, <1>2 DEF SameRelease, Request
<1>4. /\ pc'[p] \in {"write", "reload", "env_rollback", "record", "restore"}
      /\ pc'[p] \in {"record", "restore"} => ~r.restoring
  BY <1>1, <1>2
<1>5. store[r.app] = IF r.restoring THEN r.old ELSE r.cand
  BY <1>1 DEF AtWork, Tracked
<1>6. StoreStands(p)'
  BY <1>1, <1>3, <1>4, <1>5 DEF StoreStands, SameRelease
<1>7. containers' \subseteq containers /\ clock' = clock
  BY <1>1
<1> QED BY <1>1, <1>3, <1>4, <1>6, <1>7, TracksOn DEF Built, Numbered, Building

LEMMA TrackingStep ==
    ASSUME NEW p \in Procs, AtWork(p), Lock(p) \/ Work(p)
    PROVE  Tracking'
<1>1. pc[p] \notin Restarting \cup Deleting /\ req[p].kind # "deploy"
  BY DEF AtWork, RequestOK
<1>2. \/ LockRedeploy(p) \/ LockRollback(p) \/ Build(p) \/ StartOK(p) \/ StartFailed(p)
      \/ Healthy(p) \/ Unhealthy(p) \/ CommitEnvironment(p) \/ RollbackEnvironment(p)
      \/ Cleanup(p) \/ SaveRecord(p) \/ RestoreRecord(p) \/ RecordHistory(p) \/ RetireOld(p)
  BY <1>1 DEF Lock, Work, LockDeploy, RestartStop, RestartUp, DeleteContainer,
     DeleteHistoryImages, DeleteHistory, DeleteImage, DeleteEnvironment, DeleteRecord
<1>3. StartFailed(p) \/ Cleanup(p) \/ RetireOld(p) => Tracked(p)'
  BY Rests DEF StartFailed, Cleanup, RetireOld, AtWork
<1>4. Tracked(p)'
  BY <1>2, <1>3, NumberingTracks, StartTracks, PromoteTracks
<1>5. \A q \in Procs : q = p
  BY DEF AtWork, Serial
<1> QED BY <1>4, <1>5, LabelledStep DEF Tracking

LEMMA SameLabels ==
    ASSUME Labelled, store' = store, clock' = clock, containers' = containers
    PROVE  Labelled'
BY DEF Labelled, UniqueNames, RunsImage, Named

\* Whatever only stops or starts containers keeps their names and images.
LEMMA RestartedLabels ==
    ASSUME Labelled, store' = store, clock' = clock, NEW f,
           \A d \in containers' : \E c \in containers :
               d = f[c] /\ d.app = c.app /\ d.name = c.name /\ d.img = c.img
    PROVE  Labelled'
<1>1. UniqueNames'
  BY DEF Labelled, UniqueNames
<1>2. ASSUME NEW a \in Apps, store[a] # None PROVE RunsImage(a, store[a])'
  BY <1>2 DEF Labelled, RunsImage, Named
<1> QED BY <1>1, <1>2 DEF Labelled

\* A restart changes neither name nor image of a container.
LEMMA RestartLabels ==
    ASSUME TypeOK, Labelled, NEW p \in Procs, RestartStop(p) \/ RestartUp(p)
    PROVE  Labelled'
<1> DEFINE C == Named(req[p].app, req[p].old.name)
<1> DEFINE D == {c \in C : c.port \in FreePorts}
<1>1. store' = store /\ clock' = clock
  BY DEF RestartStop, RestartUp, files
<1>2. \/ containers' = containers
      \/ containers' = {IF c \in C THEN [c EXCEPT !.up = FALSE] ELSE c : c \in containers}
      \/ containers' = {IF c \in D THEN [c EXCEPT !.up = TRUE] ELSE c : c \in containers}
  BY DEF RestartStop, RestartUp
<1> HIDE DEF C, D
<1>3. Labelled /\ containers \subseteq Container
  BY DEF TypeOK
<1>4. CASE containers' = containers
  BY <1>1, <1>3, <1>4, SameLabels
<1>5. CASE containers' = {IF c \in C THEN [c EXCEPT !.up = FALSE] ELSE c : c \in containers}
  <2>1. PICK f : f = [c \in containers |-> IF c \in C THEN [c EXCEPT !.up = FALSE] ELSE c]
    OBVIOUS
  <2>2. \A c \in containers : f[c].app = c.app /\ f[c].name = c.name /\ f[c].img = c.img
    BY <1>3, <2>1 DEF Container
  <2>3. \A d \in containers' : \E c \in containers : d = f[c]
    BY <1>5, <2>1
  <2> QED BY <1>1, <1>3, <2>2, <2>3, RestartedLabels
<1>6. CASE containers' = {IF c \in D THEN [c EXCEPT !.up = TRUE] ELSE c : c \in containers}
  <2>1. PICK f : f = [c \in containers |-> IF c \in D THEN [c EXCEPT !.up = TRUE] ELSE c]
    OBVIOUS
  <2>2. \A c \in containers : f[c].app = c.app /\ f[c].name = c.name /\ f[c].img = c.img
    BY <1>3, <2>1 DEF Container
  <2>3. \A d \in containers' : \E c \in containers : d = f[c]
    BY <1>6, <2>1
  <2> QED BY <1>1, <1>3, <2>2, <2>3, RestartedLabels
<1> QED BY <1>2, <1>4, <1>5, <1>6

LEMMA RestartTracks ==
    ASSUME Serial, TypeOK, Tracking, NEW p \in Procs, RestartStop(p) \/ RestartUp(p)
    PROVE  Tracking'
<1>1. /\ pc[p] \in Restarting /\ store' = store /\ clock' = clock
      /\ Finish(p) \/ req' = req
  BY DEF RestartStop, RestartUp, files
<1>2. Labelled'
  BY RestartLabels DEF Tracking
<1>3. Tracked(p)'
  <2>1. req[p].kind = "restart"
    BY <1>1 DEF TypeOK, RequestOK
  <2> QED BY <1>1, <2>1, Rests DEF Tracked
<1>4. \A q \in Procs : q = p
  BY DEF Serial
<1> QED BY <1>2, <1>3, <1>4 DEF Tracking

LEMMA ArrivalTracks ==
    ASSUME Serial, TypeOK, Tracking, NEW p \in Procs, Arrival(p),
           Operations \subseteq Cutovers \cup {"restart"}
    PROVE  Tracking' /\ pc'[p] \in {"lock", "stop"}
<1>1. PICK kind \in Operations, a \in Apps, ask \in Envs \cup {Keep}, first \in {"lock", "stop"} :
        /\ Begin(p, kind, a, ask, first) /\ store[a] # None
        /\ kind \in Cutovers \cup {"restart"}
  BY DEF Arrival, Begin, deployHandler, redeployHandler, githubWebhookHandler,
         rollbackDeploymentHandler, restartDeploymentHandler, deleteDeploymentHandler
<1> DEFINE r == [NoRequest EXCEPT !.kind = kind, !.app = a, !.ask = ask, !.old = store[a]]
<1>2. r.kind = kind /\ r.app = a /\ r.old = store[a]
  BY DEF NoRequest
<1>3. /\ pc' = [pc EXCEPT ![p] = first] /\ req' = [req EXCEPT ![p] = r]
      /\ UNCHANGED <<store, containers, clock>>
  BY <1>1 DEF Begin, Goto, files, docker
<1> HIDE DEF r
<1>4. pc'[p] = first /\ req'[p] = r
  BY <1>3 DEF TypeOK
<1>5. Labelled'
  BY <1>3, SameLabels DEF Tracking
<1>6. store[a].name <= clock /\ RunsImage(a, store[a])
  BY <1>1 DEF Tracking, Labelled
<1>7. Tracked(p)'
  BY <1>1, <1>2, <1>3, <1>4, <1>6 DEF Tracked, RunsImage, Named, Numbered, Built, Building
<1>8. \A q \in Procs : q = p
  BY DEF Serial
<1> QED BY <1>4, <1>5, <1>7, <1>8 DEF Tracking

-----------------------------------------------------------------------------
\* A line more for each failure and each crash.
LEMMA Balances ==
    ASSUME Serial, TypeOK, TypeOK', NEW p \in Procs, NEW K, NEW L, Lines(K, L, faults + crashes),
           Balanced(p, K, L), crashes' = crashes, Tracking'
    PROVE  LeakInv'
<1>0. faults \in Nat /\ crashes \in Nat /\ faults' \in Nat
  BY DEF TypeOK
<1>1. CASE faults' = faults /\ LedgerOf(p, K, L)'
  <2>1. Ledger(K, L)'
    BY <1>1, OneLedger
  <2>2. Lines(K, L, faults' + crashes')
    BY <1>1
  <2> QED BY <2>1, <2>2 DEF LeakInv, Lines
<1>2. ASSUME faults' = faults + 1, NEW x, NEW y, LedgerOf(p, K \cup {x}, L \cup {y})' PROVE LeakInv'
  <2>1. PICK K2, L2 : K2 = K \cup {x} /\ L2 = L \cup {y}
    OBVIOUS
  <2>2. LedgerOf(p, K2, L2)'
    BY <1>2, <2>1
  <2>3. Ledger(K2, L2)'
    BY <2>2, OneLedger
  <2>4. faults + crashes \in Nat /\ faults' + crashes' = (faults + crashes) + 1
    BY <1>0, <1>2
  <2>5. Lines(K2, L2, faults' + crashes')
    BY <2>1, <2>4, NewLine
  <2> QED BY <2>3, <2>5 DEF LeakInv, Lines
<1> QED BY <1>1, <1>2 DEF Balanced

\* At rest, and between two requests, nothing is in hand.
LEMMA EmptyHands ==
    ASSUME NEW p \in Procs, pc[p] \in {"idle", "lock", "build", "stop", "up"}
    PROVE  \A c : ~Holds(p, c) /\ ~HoldsImage(p, c)
BY DEF Holds, HoldsImage, Building

LEMMA CrashLeaks ==
    ASSUME Serial, TypeOK, HistoryInv, LeakInv, NEW p \in Procs, Crash
    PROVE  LeakInv'
<1>1. PICK K, L : Lines(K, L, faults + crashes) /\ Ledger(K, L)
  BY DEF LeakInv
<1>2. /\ crashes' = crashes + 1 /\ faults' = faults
      /\ UNCHANGED <<store, history, containers, images, clock>>
      /\ \A q \in Procs : pc'[q] = "idle"
  BY ConstantsAssumption DEF Crash, files, docker
<1>3. Stray' = Stray /\ StrayImages' = StrayImages
  BY <1>2, SameStray
<1>4. LedgerOf(p, K, L)
  BY <1>1, OneLedger
<1>5. \E a, n, m :
        /\ \A c \in Stray : Holds(p, c) => c.app = a /\ c.name = n /\ c.img = m
        /\ \A i \in StrayImages : HoldsImage(p, i) => i = <<a, m>>
  <2>1. CASE pc[p] \in {"idle", "stop", "up"}
    BY <2>1, EmptyHands
  <2>2. CASE pc[p] \notin {"idle", "stop", "up"}
    <3>1. Working(p) /\ req[p].kind # "restart"
      BY <2>2 DEF Working, TypeOK, RequestOK
    <3>2. AtWork(p)
      BY <3>1 DEF AtWork, LeakInv, Tracking, Tracked, HistoryInv, TypeOK, RequestOK
    <3> QED BY <3>2, InHand
  <2> QED BY <2>1, <2>2
<1>6. PICK a, n, m :
        /\ \A c \in Stray : Holds(p, c) => c.app = a /\ c.name = n /\ c.img = m
        /\ \A i \in StrayImages : HoldsImage(p, i) => i = <<a, m>>
  BY <1>5
<1>7. PICK K2, L2 : K2 = K \cup {<<a, n>>} /\ L2 = L \cup {<<a, m>>}
  OBVIOUS
<1>8. \A c \in Stray' : Charged(K2, L2, c) \/ (c \in Stray /\ ~Holds(p, c))
  BY <1>3, <1>6, <1>7 DEF Charged
<1>9. \A i \in StrayImages' : i \in L2 \/ (i \in StrayImages /\ ~HoldsImage(p, i))
  BY <1>3, <1>6, <1>7
<1>10. LedgerOf(p, K2, L2)'
  BY <1>4, <1>7, <1>8, <1>9, Accounted
<1>11. Ledger(K2, L2)'
  BY <1>10, OneLedger
<1>12. Lines(K2, L2, faults' + crashes')
  <2>1. faults + crashes \in Nat /\ faults' + crashes' = (faults + crashes) + 1
    BY <1>2 DEF TypeOK
  <2> QED BY <1>1, <1>7, <2>1, NewLine
<1>13. Tracking'
  <2>1. Labelled'
    BY <1>2, SameLabels DEF LeakInv, Tracking
  <2>2. \A q \in Procs : Tracked(q)'
    BY <1>2 DEF Tracked, Working
  <2> QED BY <2>1, <2>2 DEF Tracking
<1> QED BY <1>11, <1>12, <1>13 DEF LeakInv, Lines

LEMMA NextLeak ==
    ASSUME Serial, TypeOK, TypeOK', HistoryInv, LeakInv, NEW p \in Procs, [Next]_vars,
           Operations \subseteq Cutovers \cup {"restart"}, MaxPrevious > 0
    PROVE  LeakInv'
<1>1. PICK K, L : Lines(K, L, faults + crashes) /\ Ledger(K, L)
  BY DEF LeakInv
<1>2. LedgerOf(p, K, L) /\ Tracking /\ \A q \in Procs : q = p
  BY <1>1, OneLedger DEF LeakInv, Serial
<1>3. Working(p) /\ req[p].kind # "restart" => AtWork(p)
  BY <1>2 DEF AtWork, Tracking, Tracked, HistoryInv, TypeOK, RequestOK
<1>4. CASE Arrival(p)
  <2>1. /\ pc[p] = "idle" /\ UNCHANGED <<store, history, containers, images, faults, crashes>>
    BY <1>4 DEF Arrival, Begin, deployHandler, redeployHandler, githubWebhookHandler,
       rollbackDeploymentHandler, restartDeploymentHandler, deleteDeploymentHandler, files, docker
  <2>2. Tracking'
    BY <1>2, <1>4, ArrivalTracks
  <2>3. \A c : ~Holds(p, c) /\ ~HoldsImage(p, c)
    BY <2>1, EmptyHands
  <2>4. Balanced(p, K, L)
    BY <1>2, <2>1, <2>3, QuietLedger
  <2> QED BY <1>1, <2>1, <2>2, <2>4, Balances
<1>5. CASE Lock(p) \/ Work(p)
  <2>1. crashes' = crashes /\ Working(p)
    BY <1>5 DEF Lock, Work, Working, LockDeploy, LockRedeploy, LockRollback, Build,
       StartOK, StartFailed, Healthy, Unhealthy, Cleanup, CommitEnvironment, SaveRecord,
       RollbackEnvironment, RestoreRecord, RecordHistory, RetireOld, RestartStop,
       RestartUp, DeleteContainer, DeleteHistoryImages, DeleteHistory, DeleteImage,
       DeleteEnvironment, DeleteRecord
  <2>2. CASE RestartStop(p) \/ RestartUp(p)
    BY <1>1, <1>2, <2>1, <2>2, RestartLedger, RestartTracks, Balances
  <2>3. CASE ~(RestartStop(p) \/ RestartUp(p))
    <3>1. pc[p] \notin Restarting
      BY <1>5, <2>3 DEF Lock, Work, LockDeploy, LockRedeploy, LockRollback, Build,
         StartOK, StartFailed, Healthy, Unhealthy, Cleanup, CommitEnvironment, SaveRecord,
         RollbackEnvironment, RestoreRecord, RecordHistory, RetireOld, RestartStop,
         RestartUp, DeleteContainer, DeleteHistoryImages, DeleteHistory, DeleteImage,
         DeleteEnvironment, DeleteRecord
    <3>2. req[p].kind # "restart"
      BY <2>1, <3>1 DEF Working, TypeOK, RequestOK
    <3>3. AtWork(p)
      BY <1>3, <2>1, <3>2
    <3> QED BY <1>1, <1>2, <1>5, <2>1, <3>3, WorkLedger, TrackingStep, Balances
  <2> QED BY <2>2, <2>3
<1>6. CASE Sync(p)
  <2>1. /\ UNCHANGED <<store, containers, clock, crashes>> /\ pc[p] \in Syncing
    BY <1>6 DEF Sync, SyncList, SyncWrite, SyncReload, files, docker
  <2>2. AtWork(p)
    BY <1>3, <2>1 DEF Working, TypeOK, RequestOK
  <2>3. Tracking'
    <3>1. Labelled'
      BY <1>2, <2>1, SameLabels DEF Tracking
    <3> QED BY <1>2, <1>6, <2>2, <3>1, SyncTracks DEF Tracking
  <2> QED BY <1>1, <1>2, <1>6, <2>1, <2>2, <2>3, SyncLedger, Balances
<1>7. CASE UNCHANGED <<store, history, containers, images, clock, crashes>>
           /\ faults' \in {faults, faults + 1} /\ pc'[p] = pc[p] /\ req'[p] = req[p]
  <2>1. \A c : Holds(p, c) => Holds(p, c)'
    BY <1>7 DEF Holds
  <2>2. \A i : HoldsImage(p, i) => HoldsImage(p, i)'
    BY <1>7 DEF HoldsImage
  <2>3. Balanced(p, K, L)
    BY <1>2, <1>7, <2>1, <2>2, QuietLedger
  <2>4. Tracking'
    <3>1. Labelled'
      BY <1>2, <1>7, SameLabels DEF Tracking
    <3>2. Tracked(p)'
      BY <1>2, <1>7 DEF Tracking, Tracked, Working, RunsImage, Named
    <3> QED BY <1>2, <3>1, <3>2 DEF Tracking
  <2> QED BY <1>1, <1>7, <2>3, <2>4, Balances
<1>8. CASE Sync(Main)
  <2>1. /\ UNCHANGED <<store, history, containers, images, clock, crashes>>
        /\ faults' \in {faults, faults + 1}
    BY <1>8 DEF Sync, SyncList, SyncWrite, SyncReload, files, docker, Fault, NoFault
  <2>2. pc'[p] = pc[p] /\ req'[p] = req[p]
    BY <1>8, SyncOthers, ConstantsAssumption DEF Others
  <2> QED BY <1>7, <2>1, <2>2
<1>9. CASE UNCHANGED vars
  BY <1>7, <1>9 DEF vars
<1>10. CASE Crash
  BY <1>10, CrashLeaks
<1> QED BY <1>2, <1>4, <1>5, <1>6, <1>8, <1>9, <1>10 DEF Next

\* Without a process to take a request nothing changes.
LEMMA UnusedLeak ==
    ASSUME Procs = {}, TypeOK, TypeOK', LeakInv, [Next]_vars
    PROVE  LeakInv'
<1>1. /\ UNCHANGED <<store, history, containers, images, clock>>
      /\ \/ faults' \in {faults, faults + 1} /\ crashes' = crashes
         \/ faults' = faults /\ crashes' = crashes + 1
  <2>1. ASSUME NEW t \in Threads, Sync(t)
        PROVE  /\ UNCHANGED <<store, history, containers, images, clock, crashes>>
               /\ faults' \in {faults, faults + 1}
    BY <2>1 DEF Sync, SyncList, SyncWrite, SyncReload, files, docker, Fault, NoFault
  <2>2. CASE Crash
    BY <2>2 DEF Crash, files, docker
  <2>3. CASE UNCHANGED vars
    BY <2>3 DEF vars
  <2> QED BY <2>1, <2>2, <2>3 DEF Next
<1>2. PICK K, L : Lines(K, L, faults + crashes) /\ Ledger(K, L)
  BY DEF LeakInv
<1>3. faults + crashes \in Nat /\ faults' + crashes' \in Nat /\ faults + crashes <= faults' + crashes'
  <2>1. faults \in Nat /\ crashes \in Nat
    BY DEF TypeOK
  <2>2. CASE faults' = faults + 1 /\ crashes' = crashes
    BY <2>1, <2>2
  <2>3. CASE faults' = faults /\ crashes' = crashes
    BY <2>1, <2>3
  <2>4. CASE faults' = faults /\ crashes' = crashes + 1
    BY <2>1, <2>4
  <2> QED BY <1>1, <2>2, <2>3, <2>4
<1>4. Lines(K, L, faults' + crashes')
  <2>1. Cardinality(K) \in Nat /\ Cardinality(L) \in Nat
    BY <1>2, FS_CardinalityType DEF Lines
  <2> QED BY <1>2, <1>3, <2>1 DEF Lines
<1>5. Ledger(K, L)'
  <2>1. Stray' = Stray /\ StrayImages' = StrayImages
    BY <1>1, SameStray
  <2> QED BY <1>2, <2>1 DEF Ledger, Charged
<1>6. Tracking'
  BY <1>1, SameLabels DEF LeakInv, Tracking
<1> QED BY <1>4, <1>5, <1>6 DEF LeakInv, Lines

\* Nothing is stray at first.
LEMMA InitStray == ASSUME Init PROVE Labelled /\ Stray = {} /\ StrayImages = {}
<1>1. PICK port \in [Deployed -> Ports] :
        /\ store = [a \in Apps |-> IF a \in Deployed THEN FirstRecord(port[a]) ELSE None]
        /\ containers = {[app |-> a, name |-> 0, img |-> 1,
                          port |-> port[a], up |-> TRUE] : a \in Deployed}
        /\ images = Deployed \X {1} /\ clock = 1
  BY ConstantsAssumption DEF Init
<1>2. \A c \in containers : /\ c.app \in Deployed /\ c.name = 0 /\ c.img = 1
                            /\ c.port = port[c.app] /\ c.up = TRUE
  BY <1>1
<1>3. /\ \A a \in Deployed : store[a].name = 0 /\ store[a].img = 1 /\ store[a] # None
      /\ \A a \in Apps : store[a] # None => a \in Deployed
  <2>1. Deployed \subseteq Apps /\ \A q \in Ports : FirstRecord(q) \in Record
    BY ConstantsAssumption DEF FirstRecord, Record
  <2> QED BY <1>1, <2>1, NoneAssumption DEF FirstRecord
<1>4. Stray = {} /\ StrayImages = {}
  <2>1. \A i \in images : i[1] \in Deployed /\ i[2] = 1
    BY <1>1
  <2> QED BY <1>2, <1>3, <2>1 DEF Stray, StrayImages
<1>5. UniqueNames
  <2> SUFFICES ASSUME NEW c \in containers, NEW d \in containers, c.app = d.app PROVE c = d
    BY DEF UniqueNames
  <2>1. PICK a \in Deployed : c = [app |-> a, name |-> 0, img |-> 1, port |-> port[a], up |-> TRUE]
    BY <1>1
  <2>2. PICK b \in Deployed : d = [app |-> b, name |-> 0, img |-> 1, port |-> port[b], up |-> TRUE]
    BY <1>1
  <2> QED BY <2>1, <2>2
<1>6. Labelled
  BY <1>1, <1>2, <1>3, <1>5 DEF Labelled, RunsImage, Named
<1> QED BY <1>4, <1>6

LEMMA LeakInit == ASSUME Init PROVE LeakInv
<1>1. Labelled /\ Stray = {} /\ StrayImages = {}
  BY InitStray
<1>2. /\ faults = 0 /\ crashes = 0 /\ \A p \in Procs : pc[p] = "idle"
  BY ConstantsAssumption DEF Init
<1>3. Ledger({}, {})
  BY <1>1 DEF Ledger
<1>4. Lines({}, {}, faults + crashes)
  BY <1>2, FS_EmptySet DEF Lines
<1>5. Tracking
  BY <1>1, <1>2 DEF Tracking, Tracked, Working
<1> QED BY <1>3, <1>4, <1>5 DEF LeakInv

LEMMA LeakInvariant ==
    ASSUME Serial, Operations \subseteq Cutovers \cup {"restart"}, MaxPrevious > 0
    PROVE  Spec => [](TypeOK /\ HistoryInv /\ LeakInv)
<1>1. Init => TypeOK /\ HistoryInv /\ LeakInv
  BY InitType, HistoryInit, LeakInit
<1>2. TypeOK /\ HistoryInv /\ LeakInv /\ [Next]_vars => (TypeOK /\ HistoryInv /\ LeakInv)'
  <2> SUFFICES ASSUME TypeOK, HistoryInv, LeakInv, [Next]_vars
               PROVE  TypeOK' /\ HistoryInv' /\ LeakInv'
    OBVIOUS
  <2>1. TypeOK' /\ HistoryInv'
    BY NextType, NextHistory
  <2>2. CASE Procs = {}
    BY <2>1, <2>2, UnusedLeak
  <2>3. CASE Procs # {}
    BY <2>1, <2>3, NextLeak
  <2> QED BY <2>1, <2>2, <2>3
<1> QED BY <1>1, <1>2, PTL DEF Spec

\* At rest no line is in hand: the ledgers have one for every stray container and
\* every stray image.
LEMMA LedgersBound == ASSUME TypeOK, LeakInv PROVE LeaksBounded
<1> SUFFICES ASSUME AllIdle
             PROVE  /\ Cardinality(Stray) <= faults + crashes
                    /\ Cardinality(StrayImages) <= faults + crashes
  BY DEF LeaksBounded
<1>1. PICK K, L : Lines(K, L, faults + crashes) /\ Ledger(K, L)
  BY DEF LeakInv
<1>2. \A p \in Procs : \A c : ~Holds(p, c) /\ ~HoldsImage(p, c)
  BY EmptyHands DEF AllIdle
<1>3. StrayImages \subseteq L /\ \A c \in Stray : <<c.app, c.name>> \in K
  BY <1>1, <1>2 DEF Ledger, Charged
<1>4. faults + crashes \in Nat
  BY DEF TypeOK
<1> DEFINE f == [c \in Stray |-> <<c.app, c.name>>]
<1>5. f \in Injection(Stray, K)
  <2>1. f \in [Stray -> K] /\ DOMAIN f = Stray
    BY <1>3
  <2>2. \A c, d \in Stray : f[c] = f[d] => c = d
    BY DEF LeakInv, Tracking, Labelled, UniqueNames, Stray
  <2> HIDE DEF f
  <2> QED BY <2>1, <2>2 DEF Injection, IsInjective
<1> HIDE DEF f
<1>6. IsFiniteSet(Stray) /\ Cardinality(Stray) <= Cardinality(K)
  BY <1>1, <1>5, FS_Injection DEF Lines
<1>7. IsFiniteSet(StrayImages) /\ Cardinality(StrayImages) <= Cardinality(L)
  BY <1>1, <1>3, FS_Subset DEF Lines
<1>8. /\ Cardinality(K) \in Nat /\ Cardinality(L) \in Nat
      /\ Cardinality(Stray) \in Nat /\ Cardinality(StrayImages) \in Nat
  BY <1>1, <1>6, <1>7, FS_CardinalityType DEF Lines
<1> QED BY <1>1, <1>4, <1>6, <1>7, <1>8 DEF Lines

\* Requests one at a time that redeploy, roll back or restart: each command that
\* fails and each crash of the service, at any step, leaves at most one container
\* and one image behind.  cleanupCandidate, the pruning of the history and the
\* removal of the old container take everything else (deploy.go:831, deploy.go:1023).
THEOREM LeaksAreBounded ==
    ASSUME Serial, Operations \subseteq Cutovers \cup {"restart"}, MaxPrevious > 0
    PROVE  Spec => []LeaksBounded
BY LeakInvariant, LedgersBound, PTL
-----------------------------------------------------------------------------
(***************************************************************************)
(* What a deletion leaves of the images, with one request at a time and    *)
(* nothing failing: an image is that of a record or of a listed version,   *)
(* or in the hands of the request at work, which records it, lists it or   *)
(* removes it.  Docker refuses to remove an image that a container uses,   *)
(* so that the containers have to be followed along.                       *)
(***************************************************************************)
\* A first deployment that finds no port leaves its image behind.
EnoughPorts == IsFiniteSet(Apps) /\ Cardinality(Apps) <= Cardinality(Ports)

Carried(p, i) == LET r == req[p] IN
    /\ i[1] = r.app
    /\ \/ pc[p] \in Building /\ i[2] = r.img
       \/ pc[p] \in Syncing \cup {"record"} /\ r.kind \in Cutovers /\ i[2] = r.old.img

\* The stamps of what a request builds and displaces, and how far a deletion is.
Laid(p) == LET r == req[p] IN
    /\ pc[p] \in Building =>
         /\ r.name <= clock
         /\ r.kind \in Cutovers  => r.old.name < r.name
         /\ r.kind \in Redeploys => r.old.img < r.img
    /\ pc[p] \in Building \ {"start"} => \A c \in Named(r.app, r.name) : c.img = r.img
    /\ pc[p] \in Syncing \cup {"record"} /\ r.kind \in Cutovers => RunsImage(r.app, r.old)
    /\ pc[p] \in {"clear", "rm_image"} => \A i \in images : i[1] = r.app => i[2] = r.old.img
    /\ pc[p] \in {"rm_env", "rm_record"} => \A i \in images : i[1] # r.app

ImagesOf(p) == Labelled /\ Laid(p) /\ \A i \in StrayImages : Carried(p, i)

ImagesInv ==
    faults = 0 /\ crashes = 0 =>
        /\ Labelled
        /\ \A p \in Procs : Laid(p)
        /\ \A i \in StrayImages : \E p \in Procs : Carried(p, i)

\* The request there is, and all that is known of it.
Sound(p) ==
    /\ Serial /\ TypeOK /\ HistoryInv /\ Remembering(p)
    /\ Clean(p) /\ Untroubled(p) /\ ImagesOf(p) /\ faults = 0 /\ faults' = 0
    /\ \A c \in containers : OfRecord(c) \/ Handles(p, c)
    /\ req[p] \in Request /\ RequestOK(p)
    /\ Working(p) => req[p].app \in Apps /\ Retaining(req[p].app)

\* A recorded container has the recorded image.
LEMMA RecordedImage ==
    ASSUME TypeOK, Labelled, NEW c \in containers, OfRecord(c)
    PROVE  c.app \in Apps /\ store[c.app] # None /\ c.img = store[c.app].img
BY DEF TypeOK, Container, Labelled, OfRecord, RunsImage, Named

\* A step that writes none of what the invariant speaks of.
LEMMA ImagesKept ==
    ASSUME NEW p \in Procs, Sound(p), UNCHANGED <<store, history, containers, images>>,
           clock' \in {clock, clock + 1}, Laid(p)',
           \A i \in StrayImages : Carried(p, i) => Carried(p, i)'
    PROVE  ImagesOf(p)'
<1>1. StrayImages' = StrayImages
  BY SameStray
<1>2. \A a \in Apps : store[a] # None => store[a].name \in Nat
  BY DEF Sound, TypeOK, Routes, Record
<1>3. Labelled'
  BY <1>2 DEF Sound, ImagesOf, TypeOK, Labelled, UniqueNames, RunsImage, Named
<1> QED BY <1>1, <1>3 DEF Sound, ImagesOf

\* A request that ends leaves nothing in hand.
LEMMA ImagesEnd ==
    ASSUME NEW p \in Procs, pc'[p] = "idle", Labelled', StrayImages' = {}
    PROVE  ImagesOf(p)'
BY DEF ImagesOf, Laid, Building

LEMMA ImagesArrival ==
    ASSUME NEW p \in Procs, Sound(p), Arrival(p)
    PROVE  ImagesOf(p)'
<1>1. /\ UNCHANGED <<store, history, containers, images, clock>> /\ pc[p] = "idle"
      /\ \E s \in {"lock", "stop", "rm_container"} : pc' = [pc EXCEPT ![p] = s]
  BY DEF Arrival, Begin, deployHandler, redeployHandler, githubWebhookHandler,
     rollbackDeploymentHandler, restartDeploymentHandler, deleteDeploymentHandler, Goto,
     files, docker
<1>2. pc'[p] \in {"lock", "stop", "rm_container"}
  BY <1>1 DEF Sound, TypeOK
<1>3. Laid(p)' /\ \A i : ~Carried(p, i)
  BY <1>1, <1>2 DEF Laid, Carried, Building
<1> QED BY <1>1, <1>3, ImagesKept

\* Before the build nothing is in hand.
LEMMA ImagesLock ==
    ASSUME NEW p \in Procs, Sound(p), Lock(p)
    PROVE  ImagesOf(p)'
<1> DEFINE r == req[p]
<1>1. /\ pc[p] = "lock" /\ UNCHANGED <<store, history, containers, images>>
      /\ clock' \in {clock, clock + 1} /\ pc \in [Threads -> Steps] /\ req \in [Threads -> Request]
      /\ r.kind \in Releases /\ clock \in Nat /\ r \in Request
  BY DEF Lock, LockDeploy, LockRedeploy, LockRollback, files, docker, Sound, TypeOK, RequestOK
<1>2. \A i : ~Carried(p, i)
  BY <1>1 DEF Carried, Building
<1>3. CASE Finish(p)
  <2>1. pc'[p] = "idle"
    BY <1>1, <1>3 DEF Finish
  <2> QED BY <1>1, <1>2, <2>1, ImagesKept DEF Laid, Building
<1>4. CASE ~Finish(p) /\ ~LockRollback(p)
  <2>1. pc'[p] = "build"
    BY <1>1, <1>4 DEF Lock, LockDeploy, LockRedeploy, Goto
  <2> QED BY <1>1, <1>2, <2>1, ImagesKept DEF Laid, Building
<1>5. CASE ~Finish(p) /\ LockRollback(p)
  <2>1. PICK v \in history[r.app] :
          /\ clock' = clock + 1 /\ pc' = [pc EXCEPT ![p] = "start"] /\ r.kind = "rollback"
          /\ req' = [req EXCEPT ![p] = [@ EXCEPT !.prevEnv = envFile[r.app], !.img = v.img,
                                          !.name = clock + 1, !.seen = history[r.app]]]
    BY <1>5 DEF LockRollback, Goto
  <2>2. /\ pc'[p] = "start" /\ req'[p].name = clock + 1 /\ req'[p].app = r.app
        /\ req'[p].old = r.old /\ req'[p].kind = "rollback"
    BY <1>1, <2>1 DEF Request
  <2>3. r.old.name <= clock /\ r.old.name \in Nat
    BY <1>1, <2>1, NoneAssumption
       DEF Sound, Untroubled, ImagesOf, Labelled, RequestOK, Working, Record
  <2>4. Laid(p)'
    BY <1>1, <2>1, <2>2, <2>3 DEF Laid, Building
  <2> QED BY <1>1, <1>2, <2>4, ImagesKept
<1> QED BY <1>3, <1>4, <1>5

\* The image of a build is in hand.
LEMMA ImagesBuild ==
    ASSUME NEW p \in Procs, Sound(p), Build(p)
    PROVE  ImagesOf(p)'
<1> DEFINE r == req[p]
<1>1. /\ pc[p] = "build" /\ UNCHANGED <<store, history, containers>>
      /\ pc \in [Threads -> Steps] /\ req \in [Threads -> Request]
      /\ r.kind \in Releases /\ r.app \in Apps /\ clock \in Nat /\ r \in Request
  BY DEF Build, files, Sound, TypeOK, RequestOK, Working
<1>2. \A i : ~Carried(p, i)
  BY <1>1 DEF Carried, Building
<1>3. CASE Finish(p) /\ UNCHANGED <<clock, images>>
  <2>1. pc'[p] = "idle"
    BY <1>1, <1>3 DEF Finish
  <2> QED BY <1>1, <1>2, <1>3, <2>1, ImagesKept DEF Laid, Building
<1>4. CASE ~(Finish(p) /\ UNCHANGED <<clock, images>>)
  <2>1. /\ clock' = clock + 1 /\ images' = images \cup {<<r.app, clock + 1>>}
        /\ pc' = [pc EXCEPT ![p] = "start"]
        /\ req' = [req EXCEPT ![p] = [@ EXCEPT !.img = clock + 1,
                      !.name = IF r.kind = "deploy" THEN 0 ELSE clock + 1]]
    BY <1>4 DEF Build, Goto
  <2>2. /\ pc'[p] = "start" /\ req'[p].img = clock + 1 /\ req'[p].app = r.app
        /\ req'[p].name = (IF r.kind = "deploy" THEN 0 ELSE clock + 1)
        /\ req'[p].old = r.old /\ req'[p].kind = r.kind
    BY <1>1, <2>1 DEF Request
  <2>3. r.kind # "deploy" => /\ r.old.name <= clock /\ r.old.name \in Nat
                             /\ r.old.img <= clock /\ r.old.img \in Nat
    BY <1>1, NoneAssumption
       DEF Sound, Untroubled, ImagesOf, Labelled, RequestOK, Working, Record, Retaining
  <2>4. Laid(p)'
    BY <1>1, <2>1, <2>2, <2>3 DEF Laid, Building
  <2>5. Labelled'
    BY <1>1, <2>1 DEF Sound, ImagesOf, TypeOK, Routes, Record, Labelled, UniqueNames, RunsImage, Named
  <2>6. \A i \in StrayImages' : i \in StrayImages \/ i = <<r.app, clock + 1>>
    BY <1>1, <2>1 DEF StrayImages
  <2>7. \A i \in StrayImages' : Carried(p, i)'
    BY <1>2, <2>2, <2>6 DEF Sound, ImagesOf, Carried, Building
  <2> QED BY <2>4, <2>5, <2>7 DEF ImagesOf
<1> QED BY <1>3, <1>4

\* Before a first deployment starts, the containers are those of other
\* applications, one for each at most: one of the ports is free.
LEMMA PortLeft ==
    ASSUME EnoughPorts, TypeOK, Labelled, \A c \in containers : OfRecord(c),
           NEW a \in Apps, store[a] = None
    PROVE  FreePorts # {}
<1> SUFFICES ASSUME FreePorts = {} PROVE FALSE
  OBVIOUS
<1>1. \A q \in Ports : \E c \in containers : c.port = q
  BY DEF FreePorts
<1> DEFINE user(q) == CHOOSE c \in containers : c.port = q
<1> DEFINE f == [q \in Ports |-> user(q).app]
<1>2. \A q \in Ports : user(q) \in containers /\ user(q).port = q
  BY <1>1
<1> HIDE DEF user
<1>3. \A c \in containers : c.app \in Apps \ {a} /\ c.name = store[c.app].name
  BY RecordedImage DEF OfRecord
<1>4. \A c, d \in containers : c.app = d.app => c = d
  BY <1>3 DEF Labelled, UniqueNames
<1>5. f \in Injection(Ports, Apps \ {a})
  <2>1. f \in [Ports -> Apps \ {a}] /\ DOMAIN f = Ports
    BY <1>2, <1>3
  <2>2. \A q, s \in Ports : f[q] = f[s] => q = s
    BY <1>2, <1>4
  <2> HIDE DEF f
  <2> QED BY <2>1, <2>2 DEF Injection, IsInjective
<1> HIDE DEF f
<1>6. IsFiniteSet(Apps \ {a}) /\ Cardinality(Apps \ {a}) = Cardinality(Apps) - 1
  BY FS_RemoveElement DEF EnoughPorts
<1>7. IsFiniteSet(Ports) /\ Cardinality(Ports) <= Cardinality(Apps \ {a})
  BY <1>5, <1>6, FS_Injection
<1>8. Cardinality(Ports) \in Nat /\ Cardinality(Apps) \in Nat
  BY <1>6, <1>7, FS_CardinalityType DEF EnoughPorts
<1> QED BY <1>6, <1>7, <1>8 DEF EnoughPorts

\* The image of a redeployment given up is removed: the containers there are run
\* the recorded one, which is older.
LEMMA GivenUpImage ==
    ASSUME NEW p \in Procs, Sound(p), pc[p] \in Building, req[p].kind # "rollback",
           UNCHANGED <<store, history>>, Labelled', NEW C, C \subseteq containers,
           \A c \in C : OfRecord(c),
           images' = images \ Removable(req[p].app, {req[p].img}, C)
    PROVE  StrayImages' = {}
<1> DEFINE r == req[p]
<1>1. /\ r.kind \in Redeploys \cup {"deploy"} /\ r.app \in Apps /\ pc[p] \in Releasing
      /\ images \subseteq Apps \X Nat
  BY DEF Sound, RequestOK, Working, TypeOK, Building
<1>2. IF r.kind = "deploy" THEN store[r.app] = None ELSE store[r.app] = r.old
  BY <1>1 DEF Sound, Untroubled
<1>3. \A c \in C : <<c.app, c.img>> # <<r.app, r.img>>
  <2> SUFFICES ASSUME NEW c \in C, c.app = r.app, c.img = r.img PROVE FALSE
    OBVIOUS
  <2>1. store[r.app] # None /\ c.img = store[r.app].img
    BY RecordedImage DEF Sound, ImagesOf
  <2>2. r.kind \in Redeploys /\ r.old.img = r.img
    BY <1>1, <1>2, <2>1
  <2>3. r.old.img < r.img /\ r.img \in Nat
    BY <2>2 DEF Sound, ImagesOf, Laid, Request
  <2> QED BY <2>2, <2>3
<1>4. <<r.app, r.img>> \notin images'
  BY <1>1, <1>3 DEF Removable
<1>5. \A i \in StrayImages' : i \in StrayImages /\ i \in images'
  BY DEF StrayImages
<1>6. \A i \in StrayImages : i = <<r.app, r.img>>
  <2>1. ASSUME NEW i \in StrayImages PROVE i = <<r.app, r.img>>
    <3>1. i \in Apps \X Nat /\ Carried(p, i)
      BY <1>1 DEF StrayImages, Sound, ImagesOf
    <3>2. i[1] = r.app /\ i[2] = r.img
      BY <1>1, <3>1 DEF Carried, Building
    <3> QED BY <3>1, <3>2
  <2> QED BY <2>1
<1> QED BY <1>4, <1>5, <1>6

\* That of a rollback is listed.
LEMMA RetriedImage ==
    ASSUME NEW p \in Procs, Sound(p), pc[p] \in Building, req[p].kind = "rollback",
           UNCHANGED <<store, history, images>>
    PROVE  StrayImages' = {}
<1> DEFINE r == req[p]
<1>1. StrayImages' = StrayImages
  BY SameStray
<1>2. \A i \in StrayImages : i[1] = r.app /\ i[2] = r.img
  BY DEF Sound, ImagesOf, Carried, Building
<1>3. \E v \in history[r.app] : v.img = r.img
  BY DEF Sound, Remembering, Replacing, Pending
<1>4. \A i \in StrayImages : ~ \E v \in history[i[1]] : v.img = i[2]
  BY DEF StrayImages
<1> QED BY <1>1, <1>2, <1>3, <1>4

\* The candidate is the only container of its name, and it runs its own image.
LEMMA ImagesStart ==
    ASSUME NEW p \in Procs, Sound(p), EnoughPorts, StartOK(p) \/ StartFailed(p)
    PROVE  ImagesOf(p)'
<1> DEFINE r == req[p]
<1>1. /\ pc[p] = "start" /\ UNCHANGED <<store, history, clock>>
      /\ pc \in [Threads -> Steps] /\ req \in [Threads -> Request]
      /\ r.kind \in Releases /\ r.app \in Apps /\ r \in Request /\ clock \in Nat
      /\ \A c \in containers : OfRecord(c)
  BY DEF StartOK, StartFailed, files, Sound, TypeOK, RequestOK, Working, Handles
<1>2. CASE StartOK(p)
  <2>1. PICK q \in Ports :
          /\ containers' = containers \cup {Candidate(p, q, TRUE)} /\ images' = images
          /\ pc' = [pc EXCEPT ![p] = "verify"] /\ Named(r.app, r.name) = {}
          /\ req' = [req EXCEPT ![p].cand =
                       [name |-> r.name, img |-> r.img, port |-> q, env |-> Effective(p)]]
    BY <1>2 DEF StartOK, Goto
  <2>2. /\ pc'[p] = "verify" /\ req'[p].app = r.app /\ req'[p].name = r.name
        /\ req'[p].img = r.img /\ req'[p].old = r.old /\ req'[p].kind = r.kind
    BY <1>1, <2>1 DEF Request
  <2>3. PICK c0 : c0 = Candidate(p, q, TRUE)
    OBVIOUS
  <2>4. containers' = containers \cup {c0} /\ c0.app = r.app /\ c0.name = r.name /\ c0.img = r.img
    BY <2>1, <2>3 DEF Candidate
  <2>5. \A c \in containers : ~(c.app = r.app /\ c.name = r.name)
    BY <2>1 DEF Named
  <2>6. Laid(p)'
    BY <1>1, <2>2, <2>4, <2>5 DEF Sound, ImagesOf, Laid, Building, Named
  <2>7. Labelled'
    <3>1. UniqueNames'
      BY <2>4, <2>5 DEF Sound, ImagesOf, Labelled, UniqueNames
    <3>2. ASSUME NEW a \in Apps, store[a] # None, a # r.app \/ store[a].name # r.name
          PROVE  RunsImage(a, store[a])'
      <4>1. \A c \in Named(a, store[a].name) : c.img = store[a].img
        BY <3>2 DEF Sound, ImagesOf, Labelled, RunsImage
      <4> QED BY <1>1, <2>4, <3>2, <4>1 DEF RunsImage, Named
    <3>3. store[r.app] # None => store[r.app].name # r.name
      <4>1. store[r.app] # None => r.kind \in Cutovers /\ store[r.app] = r.old
        BY <1>1 DEF Sound, Untroubled
      <4>2. r.kind \in Cutovers => r.old.name < r.name /\ r.old.name \in Nat
        BY <1>1 DEF Sound, ImagesOf, Laid, Building, RequestOK, Working, Record
      <4> QED BY <1>1, <4>1, <4>2 DEF Request
    <3>4. \A a \in Apps : store[a] # None => store[a].name <= clock
      BY DEF Sound, ImagesOf, Labelled
    <3> QED BY <1>1, <3>1, <3>2, <3>3, <3>4 DEF Labelled
  <2>8. StrayImages' = StrayImages
    BY <1>1, <2>1, SameStray
  <2>9. \A i : Carried(p, i) => Carried(p, i)'
    BY <1>1, <2>2 DEF Carried, Building
  <2> QED BY <2>6, <2>7, <2>8, <2>9 DEF Sound, ImagesOf
<1>3. CASE StartFailed(p)
  <2>1. /\ containers' = containers /\ (FreePorts = {} \/ Named(r.app, r.name) # {}) /\ Finish(p)
        /\ images' = IF r.kind \in Redeploys THEN images \ Removable(r.app, {r.img}, containers)
                     ELSE images
    BY <1>3 DEF StartFailed, Fault, NoFault, Sound
  <2>2. r.kind # "deploy"
    <3> SUFFICES ASSUME r.kind = "deploy" PROVE FALSE
      OBVIOUS
    <3>1. store[r.app] = None
      BY <1>1 DEF Sound, Untroubled
    <3>2. FreePorts # {}
      BY <1>1, <3>1, PortLeft DEF Sound, ImagesOf
    <3>3. Named(r.app, r.name) = {}
      BY <1>1, <3>1 DEF Named, OfRecord
    <3> QED BY <2>1, <3>2, <3>3
  <2>3. pc'[p] = "idle" /\ Labelled'
    BY <1>1, <2>1 DEF Finish, Sound, ImagesOf, Labelled, UniqueNames, RunsImage, Named
  <2>4. CASE r.kind \in Redeploys
    BY <1>1, <2>1, <2>3, <2>4, GivenUpImage, ImagesEnd DEF Building
  <2>5. CASE r.kind = "rollback"
    BY <1>1, <2>1, <2>3, <2>5, RetriedImage, ImagesEnd DEF Building
  <2> QED BY <1>1, <2>2, <2>4, <2>5
<1> QED BY <1>2, <1>3

LEMMA ImagesVerify ==
    ASSUME NEW p \in Procs, Sound(p), Healthy(p) \/ Unhealthy(p) \/ CommitEnvironment(p)
    PROVE  ImagesOf(p)'
<1>1. /\ pc[p] \in {"verify", "commit"} /\ UNCHANGED <<store, history, containers, images, clock, req>>
      /\ \E s \in {"commit", "save", "cleanup"} : pc' = [pc EXCEPT ![p] = s]
      /\ pc \in [Threads -> Steps] /\ clock \in Nat
  BY DEF Healthy, Unhealthy, CommitEnvironment, Goto, files, docker, Sound, TypeOK
<1>2. pc'[p] \in {"commit", "save", "cleanup"} /\ req'[p] = req[p]
  BY <1>1
<1>3. Laid(p)' /\ \A i : Carried(p, i) => Carried(p, i)'
  BY <1>1, <1>2 DEF Sound, ImagesOf, Laid, Carried, Building, Named
<1> QED BY <1>1, <1>3, ImagesKept

\* The candidate's container goes first, so that its image can go.
LEMMA ImagesCleanup ==
    ASSUME NEW p \in Procs, Sound(p), Cleanup(p)
    PROVE  ImagesOf(p)'
<1> DEFINE r == req[p]
<1> DEFINE rest == containers \ Named(r.app, r.name)
<1>1. /\ pc[p] = "cleanup" /\ UNCHANGED <<store, history, clock>> /\ containers' = rest
      /\ images' = images \ (IF r.kind = "rollback" THEN {} ELSE Removable(r.app, {r.img}, rest))
      /\ Finish(p) /\ pc \in [Threads -> Steps]
  <2>1. ~Fault /\ pc \in [Threads -> Steps]
    BY DEF Fault, Sound, TypeOK
  <2> QED BY <2>1 DEF Cleanup, files
<1>2. \A c \in rest : OfRecord(c)
  BY <1>1 DEF Sound, Handles, Named
<1> HIDE DEF rest
<1>3. rest \subseteq containers
  BY DEF rest
<1>4. Labelled'
  BY <1>1, <1>3 DEF Sound, ImagesOf, Labelled, UniqueNames, RunsImage, Named
<1>5. pc'[p] = "idle"
  BY <1>1 DEF Finish
<1>6. CASE r.kind # "rollback"
  BY <1>1, <1>2, <1>3, <1>4, <1>5, <1>6, GivenUpImage, ImagesEnd DEF Building
<1>7. CASE r.kind = "rollback"
  BY <1>1, <1>4, <1>5, <1>7, RetriedImage, ImagesEnd DEF Building
<1> QED BY <1>6, <1>7

\* The record takes the new image over; the displaced one is in hand, and is the
\* one that the old container runs.
LEMMA ImagesSave ==
    ASSUME NEW p \in Procs, Sound(p), SaveRecord(p)
    PROVE  ImagesOf(p)'
<1> DEFINE r == req[p]
<1>1. /\ pc[p] = "save" /\ pc' = [pc EXCEPT ![p] = "list"]
      /\ store' = [store EXCEPT ![r.app] = r.cand]
      /\ UNCHANGED <<history, containers, images, clock, req>>
  BY DEF SaveRecord, Fault, Goto, docker, Sound
<1>2. /\ r.app \in Apps /\ r.kind \in Releases /\ r.cand \in Record /\ r.cand # None
      /\ r.cand.name = r.name /\ r.cand.img = r.img
      /\ store \in [Apps -> Record \cup {None}] /\ pc \in [Threads -> Steps]
      /\ images \subseteq Apps \X Nat
  BY <1>1, NoneAssumption DEF Sound, RequestOK, Working, HasCandidate, TypeOK, Routes
<1>3. /\ pc'[p] = "list" /\ req'[p] = r /\ store'[r.app] = r.cand
      /\ \A a \in Apps \ {r.app} : store'[a] = store[a]
  BY <1>1, <1>2
<1>4. IF r.kind = "deploy" THEN store[r.app] = None ELSE store[r.app] = r.old /\ r.old # None
  BY <1>1, <1>2, NoneAssumption DEF Sound, Untroubled, RequestOK, Working
<1>5. /\ Labelled /\ r.name <= clock /\ \A c \in Named(r.app, r.name) : c.img = r.img
      /\ \A i \in StrayImages : i[1] = r.app /\ i[2] = r.img
  BY <1>1 DEF Sound, ImagesOf, Laid, Carried, Building
<1>6. Labelled'
  <2>1. UniqueNames'
    BY <1>1, <1>5 DEF Labelled, UniqueNames
  <2>2. ASSUME NEW a \in Apps, store'[a] # None
        PROVE  store'[a].name <= clock /\ \A c \in Named(a, store'[a].name) : c.img = store'[a].img
    <3>1. CASE a = r.app
      BY <1>2, <1>3, <1>5, <3>1
    <3>2. CASE a # r.app
      BY <1>3, <1>5, <2>2, <3>2 DEF Labelled, RunsImage
    <3> QED BY <3>1, <3>2
  <2> QED BY <1>1, <2>1, <2>2 DEF Labelled, RunsImage, Named
<1>7. Laid(p)'
  <2>1. r.kind \in Cutovers => RunsImage(r.app, r.old)'
    BY <1>1, <1>2, <1>4, <1>5 DEF Labelled, RunsImage, Named
  <2> QED BY <1>3, <2>1 DEF Laid, Building
<1>8. ASSUME NEW i \in StrayImages' PROVE Carried(p, i)'
  <2>1. /\ i \in images /\ i \in Apps \X Nat
        /\ ~(store'[i[1]] # None /\ store'[i[1]].img = i[2])
        /\ ~ \E v \in history[i[1]] : v.img = i[2]
    BY <1>1, <1>2 DEF StrayImages
  <2>2. ~(i[1] = r.app /\ i[2] = r.img)
    BY <1>2, <1>3, <2>1
  <2>3. i \notin StrayImages
    BY <1>5, <2>2
  <2>4. store[i[1]] # None /\ store[i[1]].img = i[2]
    BY <2>1, <2>3 DEF StrayImages
  <2>5. i[1] = r.app /\ r.kind \in Cutovers /\ i[2] = r.old.img
    BY <1>2, <1>3, <1>4, <2>1, <2>4
  <2> QED BY <1>3, <2>5 DEF Carried
<1> QED BY <1>6, <1>7, <1>8 DEF ImagesOf

LEMMA ImagesSync ==
    ASSUME NEW p \in Procs, Sound(p), Sync(p)
    PROVE  ImagesOf(p)'
<1> DEFINE r == req[p]
<1>1. /\ pc[p] \in Syncing /\ UNCHANGED <<store, history, containers, images, clock>>
      /\ pc \in [Threads -> Steps] /\ req \in [Threads -> Request] /\ r \in Request
      /\ ~r.restoring /\ ~Fault
  <2>1. ~r.restoring /\ ~Fault /\ r \in Request
    BY DEF Sound, Untroubled, Fault
  <2>2. pc \in [Threads -> Steps] /\ req \in [Threads -> Request]
    BY DEF Sound, TypeOK
  <2> QED BY <2>1, <2>2 DEF Sync, SyncList, SyncWrite, SyncReload, files, docker
<1>2. \/ Finish(p) /\ r.kind \notin Cutovers
      \/ /\ \E s \in {"write", "reload"} : pc' = [pc EXCEPT ![p] = s]
         /\ req' = req \/ req' = [req EXCEPT ![p].snap = store]
      \/ pc' = [pc EXCEPT ![p] = "record"] /\ req' = req
  BY <1>1 DEF Sync, SyncList, SyncWrite, SyncReload, AfterSync, Goto
<1>3. \/ pc'[p] = "idle" /\ r.kind \notin Cutovers
      \/ /\ pc'[p] \in Syncing \cup {"record"} /\ req'[p].app = r.app
         /\ req'[p].kind = r.kind /\ req'[p].old = r.old
  BY <1>1, <1>2 DEF Finish, Request
<1>4. Laid(p)' /\ \A i : Carried(p, i) => Carried(p, i)'
  BY <1>1, <1>3 DEF Sound, ImagesOf, Laid, Carried, Building, RunsImage, Named
<1> QED BY <1>1, <1>4, ImagesKept

\* The displaced version is listed, and the one that falls off the end is not
\* that of a container: its image is removed.
LEMMA ImagesRecord ==
    ASSUME NEW p \in Procs, Sound(p), RecordHistory(p), MaxPrevious > 0
    PROVE  ImagesOf(p)'
<1> DEFINE r == req[p]
<1> DEFINE a == r.app
<1> DEFINE E == Extended(p)
<1> DEFINE kept == Retained(Extended(p))
<1> DEFINE pruned == {v.img : v \in E \ kept} \ {r.img}
<1> DEFINE gone == Removable(a, pruned, containers)
<1>1. /\ pc[p] = "record" /\ pc' = [pc EXCEPT ![p] = "retire"]
      /\ UNCHANGED <<store, containers, clock, req>>
      /\ history' = [history EXCEPT ![a] = kept] /\ images' = images \ gone
  <2>1. ~Fault
    BY DEF Fault, Sound
  <2> QED BY <2>1 DEF RecordHistory, Goto
<1>2. /\ a \in Apps /\ r.kind \in Cutovers /\ r.cand.img = r.img /\ r.cand.name = r.name
      /\ history \in [Apps -> SUBSET Version] /\ images \subseteq Apps \X Nat
      /\ pc \in [Threads -> Steps]
  BY <1>1 DEF Sound, RequestOK, Working, HasCandidate, TypeOK
<1>3. store[a] = r.cand /\ store[a] # None
  BY <1>1, <1>2, NoneAssumption DEF Sound, Untroubled, RequestOK, HasCandidate
<1>4. TypeOK /\ Retaining(a) /\ Remembering(p)
  BY <1>1 DEF Sound, Working
<1>5. Displaced(p) \in kept /\ Displaced(p).img = r.old.img
  BY <1>1, <1>4, ExtendedBounded DEF Displaced
<1>6. \A v \in history[a] : v.img # r.img /\ v.img # r.old.img => v \in E
  BY <1>1, <1>4, FallsOff
<1>7. pc'[p] = "retire" /\ Laid(p)'
  BY <1>1, <1>2 DEF Laid, Building
<1>8. Labelled'
  BY <1>1 DEF Sound, ImagesOf, Labelled, UniqueNames, RunsImage, Named
<1>9. \A c \in containers : c.app = a => c.img \in {r.img, r.old.img}
  <2> SUFFICES ASSUME NEW c \in containers, c.app = a PROVE c.img \in {r.img, r.old.img}
    OBVIOUS
  <2>1. CASE OfRecord(c)
    BY <1>2, <1>3, <2>1, RecordedImage DEF Sound, ImagesOf
  <2>2. CASE Handles(p, c)
    BY <1>1, <1>2, <2>2 DEF Handles, Sound, ImagesOf, Laid, RunsImage, Named
  <2> QED BY <2>1, <2>2 DEF Sound
<1>10. \A i \in StrayImages : i[1] = a /\ i[2] = r.old.img
  BY <1>1 DEF Sound, ImagesOf, Carried, Building
<1> HIDE DEF E, kept
<1>11. ASSUME NEW i \in StrayImages' PROVE FALSE
  <2>1. /\ i \in images /\ i \notin gone /\ i \in Apps \X Nat
        /\ ~(store[i[1]] # None /\ store[i[1]].img = i[2])
        /\ \A v \in history'[i[1]] : v.img # i[2]
    BY <1>1, <1>2 DEF StrayImages
  <2>2. CASE i[1] # a
    <3>1. history'[i[1]] = history[i[1]]
      BY <1>1, <1>2, <2>1, <2>2
    <3>2. i \in StrayImages
      BY <2>1, <3>1 DEF StrayImages
    <3> QED BY <1>10, <2>2, <3>2
  <2>3. CASE i[1] = a
    <3>1. history'[a] = kept
      BY <1>1, <1>2
    <3>2. i[2] # r.img /\ i[2] # r.old.img
      BY <1>2, <1>3, <1>5, <2>1, <2>3, <3>1
    <3>3. i \notin StrayImages
      BY <1>10, <3>2
    <3>4. PICK v \in history[a] : v.img = i[2]
      BY <2>1, <2>3, <3>3 DEF StrayImages
    <3>5. v \in E /\ v \notin kept
      BY <1>6, <2>1, <2>3, <3>1, <3>2, <3>4
    <3>6. i[2] \in pruned
      BY <3>2, <3>4, <3>5
    <3>7. \A c \in containers : <<c.app, c.img>> # i
      BY <1>9, <2>3, <3>2
    <3>8. i \in {a} \X pruned
      BY <2>1, <2>3, <3>6
    <3> QED BY <2>1, <3>7, <3>8 DEF Removable
  <2> QED BY <2>2, <2>3
<1> QED BY <1>7, <1>8, <1>11 DEF ImagesOf

LEMMA ImagesRetire ==
    ASSUME NEW p \in Procs, Sound(p), RetireOld(p)
    PROVE  ImagesOf(p)'
<1>1. /\ pc[p] = "retire" /\ UNCHANGED <<store, history, images, clock>>
      /\ containers' \subseteq containers /\ Finish(p) /\ pc \in [Threads -> Steps]
  BY DEF RetireOld, files, Sound, TypeOK
<1>2. pc'[p] = "idle"
  BY <1>1 DEF Finish
<1>3. Labelled'
  BY <1>1 DEF Sound, ImagesOf, Labelled, UniqueNames, RunsImage, Named
<1>4. StrayImages' = {}
  <2>1. StrayImages' = StrayImages
    BY <1>1, SameStray
  <2> QED BY <1>1, <2>1 DEF Sound, ImagesOf, Carried, Building
<1> QED BY <1>2, <1>3, <1>4, ImagesEnd

LEMMA ImagesRestart ==
    ASSUME NEW p \in Procs, Sound(p), RestartStop(p) \/ RestartUp(p)
    PROVE  ImagesOf(p)'
<1>1. /\ pc[p] \in Restarting /\ UNCHANGED <<store, history, images, clock>>
      /\ \E s \in {"idle", "up"} : pc' = [pc EXCEPT ![p] = s]
      /\ pc \in [Threads -> Steps] /\ containers \subseteq Container
  BY DEF RestartStop, RestartUp, files, Sound, TypeOK, Goto, Finish
<1>2. pc'[p] \in {"idle", "up"}
  BY <1>1
<1>3. Labelled'
  BY RestartLabels DEF Sound, ImagesOf
<1>4. StrayImages' = {}
  <2>1. StrayImages' = StrayImages
    BY <1>1, SameStray
  <2> QED BY <1>1, <2>1 DEF Sound, ImagesOf, Carried, Building
<1> QED BY <1>2, <1>3, <1>4 DEF ImagesOf, Laid, Building

\* A deletion: the images of the listed versions, but for the recorded one, then
\* the history, then the recorded one.  No container of the application is left
\* that could keep them.
LEMMA ImagesDelete ==
    ASSUME NEW p \in Procs, Sound(p),
           \/ DeleteContainer(p) \/ DeleteHistoryImages(p) \/ DeleteHistory(p)
           \/ DeleteImage(p) \/ DeleteEnvironment(p) \/ DeleteRecord(p)
    PROVE  ImagesOf(p)'
<1> DEFINE r == req[p]
<1> DEFINE a == r.app
<1>1. /\ pc[p] \in Deleting /\ clock' = clock
      /\ pc \in [Threads -> Steps] /\ ~Fault
  <2>1. ~Fault /\ pc \in [Threads -> Steps]
    BY DEF Sound, Fault, TypeOK
  <2> QED BY <2>1 DEF DeleteContainer, DeleteHistoryImages, DeleteHistory, DeleteImage,
                      DeleteEnvironment, DeleteRecord
<1>2. /\ a \in Apps /\ store \in [Apps -> Record \cup {None}]
      /\ history \in [Apps -> SUBSET Version] /\ images \subseteq Apps \X Nat
  BY <1>1 DEF Sound, Working, TypeOK, Routes
<1>3. store[a] = r.old /\ store[a] # None
  BY <1>1, NoneAssumption DEF Sound, Untroubled, RequestOK, Working
<1>4. StrayImages = {}
  BY <1>1 DEF Sound, ImagesOf, Carried, Building
<1>5. Labelled /\ \A c \in containers : OfRecord(c)
  BY <1>1 DEF Sound, ImagesOf, Handles
<1>6. pc[p] # "rm_container" => \A c \in containers : c.app # a
  BY <1>1 DEF Sound, Untroubled
<1>7. \A i \in images : i[1] = a => i[2] = r.old.img \/ \E v \in history[a] : v.img = i[2]
  BY <1>3, <1>4 DEF StrayImages
<1>8. CASE DeleteContainer(p)
  <2>1. /\ UNCHANGED <<store, history, images, clock>> /\ containers' \subseteq containers
        /\ pc' = [pc EXCEPT ![p] = "rm_images"]
    BY <1>1, <1>8 DEF DeleteContainer, Goto, files
  <2>2. pc'[p] = "rm_images"
    BY <1>1, <2>1
  <2>3. StrayImages' = {}
    BY <1>4, <2>1, SameStray
  <2>4. Labelled'
    BY <1>5, <2>1 DEF Labelled, UniqueNames, RunsImage, Named
  <2> QED BY <2>2, <2>3, <2>4 DEF ImagesOf, Laid, Building
<1>9. CASE DeleteHistoryImages(p)
  <2> DEFINE old == {v.img : v \in history[a]} \ {r.old.img}
  <2>1. /\ pc[p] = "rm_images" /\ UNCHANGED <<store, history, containers, clock, req>>
        /\ images' = images \ Removable(a, old, containers)
        /\ pc' = [pc EXCEPT ![p] = "clear"]
    BY <1>1, <1>9 DEF DeleteHistoryImages, Goto, files
  <2>2. pc'[p] = "clear" /\ req'[p] = r
    BY <1>1, <2>1
  <2>3. \A i \in images' : i \in images /\ (i[1] = a => i[2] \notin old)
    BY <1>2, <1>6, <2>1 DEF Removable
  <2>4. \A i \in images' : i[1] = a => i[2] = r.old.img
    BY <1>7, <2>3
  <2>5. StrayImages' = {}
    BY <1>4, <2>1, <2>3 DEF StrayImages
  <2>6. Labelled'
    BY <1>5, <2>1, SameLabels
  <2> QED BY <2>2, <2>4, <2>5, <2>6 DEF ImagesOf, Laid, Building
<1>10. CASE DeleteHistory(p)
  <2>1. /\ pc[p] = "clear" /\ UNCHANGED <<store, images, containers, clock, req>>
        /\ history' = [history EXCEPT ![a] = {}] /\ pc' = [pc EXCEPT ![p] = "rm_image"]
    BY <1>1, <1>10 DEF DeleteHistory, Goto, docker
  <2>2. pc'[p] = "rm_image" /\ req'[p] = r
    BY <1>1, <2>1
  <2>3. \A i \in images : i[1] = a => i[2] = r.old.img
    BY <2>1 DEF Sound, ImagesOf, Laid
  <2>4. \A i \in images : i[1] # a => history'[i[1]] = history[i[1]]
    BY <1>2, <2>1
  <2>5. StrayImages' = {}
    BY <1>3, <1>4, <2>1, <2>3, <2>4 DEF StrayImages
  <2>6. Labelled'
    BY <1>5, <2>1, SameLabels
  <2> QED BY <2>1, <2>2, <2>3, <2>5, <2>6 DEF ImagesOf, Laid, Building
<1>11. CASE DeleteImage(p)
  <2>1. /\ pc[p] = "rm_image" /\ UNCHANGED <<store, history, containers, clock, req>>
        /\ images' = images \ Removable(a, {r.old.img}, containers)
        /\ pc' = [pc EXCEPT ![p] = "rm_env"]
    BY <1>1, <1>11 DEF DeleteImage, Goto, files
  <2>2. pc'[p] = "rm_env" /\ req'[p] = r
    BY <1>1, <2>1
  <2>3. \A i \in images : i[1] = a => i[2] = r.old.img
    BY <2>1 DEF Sound, ImagesOf, Laid
  <2>4. \A i \in images' : i \in images /\ i[1] # a
    BY <1>2, <1>6, <2>1, <2>3 DEF Removable
  <2>5. StrayImages' = {}
    BY <1>4, <2>1, <2>4 DEF StrayImages
  <2>6. Labelled'
    BY <1>5, <2>1, SameLabels
  <2> QED BY <2>2, <2>4, <2>5, <2>6 DEF ImagesOf, Laid, Building
<1>12. CASE DeleteEnvironment(p)
  <2>1. /\ pc[p] = "rm_env" /\ UNCHANGED <<store, history, images, containers, clock, req>>
        /\ pc' = [pc EXCEPT ![p] = "rm_record"]
    BY <1>1, <1>12 DEF DeleteEnvironment, Goto, docker
  <2>2. pc'[p] = "rm_record" /\ req'[p] = r
    BY <1>1, <2>1
  <2>3. \A i \in images' : i[1] # a
    BY <2>1 DEF Sound, ImagesOf, Laid
  <2>4. StrayImages' = {}
    BY <1>4, <2>1, SameStray
  <2>5. Labelled'
    BY <1>5, <2>1, SameLabels
  <2> QED BY <2>2, <2>3, <2>4, <2>5 DEF ImagesOf, Laid, Building
<1>13. CASE DeleteRecord(p)
  <2>1. /\ pc[p] = "rm_record" /\ UNCHANGED <<history, images, containers, clock, req>>
        /\ store' = [store EXCEPT ![a] = None] /\ pc' = [pc EXCEPT ![p] = "list"]
    BY <1>1, <1>3, <1>13 DEF DeleteRecord, Goto, docker
  <2>2. /\ pc'[p] = "list" /\ req'[p] = r /\ r.kind = "delete" /\ store'[a] = None
        /\ \A b \in Apps \ {a} : store'[b] = store[b]
    BY <1>1, <1>2, <2>1 DEF Sound, RequestOK
  <2>3. \A i \in images : i[1] \in Apps /\ i[1] # a
    BY <1>2, <2>1 DEF Sound, ImagesOf, Laid
  <2>4. StrayImages' = {}
    BY <1>4, <2>1, <2>2, <2>3 DEF StrayImages
  <2>5. Labelled'
    BY <1>5, <2>1, <2>2 DEF Labelled, UniqueNames, RunsImage, Named
  <2> QED BY <2>2, <2>4, <2>5 DEF ImagesOf, Laid, Building
<1> QED BY <1>8, <1>9, <1>10, <1>11, <1>12, <1>13

\* Nothing has to be undone when nothing fails.
LEMMA ImagesStep ==
    ASSUME NEW p \in Procs, Sound(p), EnoughPorts, MaxPrevious > 0,
           Arrival(p) \/ Lock(p) \/ Work(p) \/ Sync(p)
    PROVE  ImagesOf(p)'
<1>1. ~RollbackEnvironment(p) /\ ~RestoreRecord(p)
  BY DEF Sound, Untroubled, RollbackEnvironment, RestoreRecord
<1>2. CASE Work(p)
  BY <1>1, <1>2, ImagesBuild, ImagesStart, ImagesVerify, ImagesCleanup, ImagesSave,
     ImagesRecord, ImagesRetire, ImagesRestart, ImagesDelete DEF Work
<1> QED BY <1>2, ImagesArrival, ImagesLock, ImagesSync

LEMMA OneImages ==
    ASSUME Serial, NEW p \in Procs
    PROVE  /\ ImagesInv  <=> (faults = 0 /\ crashes = 0 => ImagesOf(p))
           /\ ImagesInv' <=> (faults' = 0 /\ crashes' = 0 => ImagesOf(p)')
<1>1. \A q \in Procs : q = p
  BY DEF Serial
<1> QED BY <1>1 DEF ImagesInv, ImagesOf

LEMMA NextImages ==
    ASSUME Serial, EnoughPorts, MaxPrevious > 0,
           TypeOK, HistoryInv, CleanInv, ImagesInv, [Next]_vars
    PROVE  ImagesInv'
<1> SUFFICES ASSUME faults' = 0, crashes' = 0 PROVE ImagesInv'
  BY DEF ImagesInv
<1>0. faults = 0 /\ crashes = 0
  BY CountersGrow
<1>1. ASSUME NEW p \in Procs, Arrival(p) \/ Lock(p) \/ Work(p) \/ Sync(p) PROVE ImagesInv'
  <2>1. Clean(p) /\ ImagesOf(p)
    BY <1>0, OneClean, OneImages
  <2>2. req[p] \in Request /\ RequestOK(p) /\ (Working(p) => req[p].app \in Apps)
    BY DEF TypeOK, RequestOK
  <2>3. Sound(p)
    BY <1>0, <2>1, <2>2 DEF Sound, Clean, HistoryInv
  <2> QED BY <1>1, <2>3, ImagesStep, OneImages
<1>2. ASSUME UNCHANGED <<store, history, containers, images, clock>>,
             \A q \in Procs : pc'[q] = pc[q] /\ req'[q] = req[q]
      PROVE  ImagesInv'
  <2>1. Labelled'
    BY <1>0, <1>2, SameLabels DEF ImagesInv
  <2>2. \A q \in Procs : Laid(q)'
    BY <1>0, <1>2 DEF ImagesInv, Laid, RunsImage, Named
  <2>3. StrayImages' = StrayImages
    BY <1>2, SameStray
  <2>4. \A i \in StrayImages' : \E q \in Procs : Carried(q, i)'
    BY <1>0, <1>2, <2>3 DEF ImagesInv, Carried
  <2> QED BY <2>1, <2>2, <2>4 DEF ImagesInv
<1>3. CASE Sync(Main)
  <2>1. UNCHANGED <<store, history, containers, images, clock>>
    BY <1>3 DEF Sync, SyncList, SyncWrite, SyncReload, files, docker
  <2>2. \A q \in Procs : pc'[q] = pc[q] /\ req'[q] = req[q]
    BY <1>3, SyncOthers, ConstantsAssumption DEF Others
  <2> QED BY <1>2, <2>1, <2>2
<1>4. ~Crash
  BY <1>0 DEF Crash
<1>5. CASE UNCHANGED vars
  BY <1>2, <1>5 DEF vars
<1> QED BY <1>1, <1>3, <1>4, <1>5 DEF Next

LEMMA InitImages == ASSUME Init PROVE ImagesInv
<1>1. \A q \in Procs : pc[q] = "idle"
  BY ConstantsAssumption DEF Init
<1>2. \A q \in Procs : Laid(q)
  BY <1>1 DEF Laid, Building
<1> QED BY <1>2, InitStray DEF ImagesInv

\* One request at a time, nothing failing, and ports for all applications: one
\* without a record that no request works on has left nothing behind, neither a
\* route nor a history, an environment file, a container or an image, whatever
\* was deployed, given up, redeployed, pruned, rolled back and deleted before
\* (handlers.go:741-864, deploy.go:65-214, rollback.go:428).
THEOREM DeletionsAreComplete ==
    ASSUME Serial, EnoughPorts, MaxPrevious > 0
    PROVE  Spec => []DeletionComplete
<1> DEFINE Inv == TypeOK /\ CleanInv /\ HistoryInv
<1>1. Spec => []Inv
  BY CleanInvariant, HistoryInvariant, PTL
<1>2. Init => ImagesInv
  BY InitImages
<1>3. Inv /\ ImagesInv /\ [Next]_vars => ImagesInv'
  BY NextImages
<1>4. Inv /\ ImagesInv => DeletionComplete
  <2> SUFFICES ASSUME TypeOK, CleanInv, ImagesInv, faults = 0, crashes = 0, NEW a \in Apps,
                      Quiet(a), store[a] = None
               PROVE  /\ routes[a] = None /\ history[a] = {} /\ envFile[a] = EmptyEnv
                      /\ \A c \in containers : c.app # a
                      /\ \A i \in images : i[1] # a
    BY DEF DeletionComplete
  <2>1. /\ routes[a] = None /\ history[a] = {} /\ envFile[a] = EmptyEnv
        /\ \A c \in containers : c.app # a
    BY NothingLeft
  <2>2. \A i \in StrayImages : i[1] # a
    BY DEF Quiet, ImagesInv, Carried
  <2> QED BY <2>1, <2>2 DEF StrayImages
<1> HIDE DEF Inv
<1> QED BY <1>1, <1>2, <1>3, <1>4, PTL DEF Spec

-----------------------------------------------------------------------------
(***************************************************************************)
(* First deployments and deletions as well: every container is recorded,   *)
(* or in the hands of the request at work, which removes or records it, or *)
(* charged to a failure or a crash.  A deletion that has passed its        *)
(* container by no longer counts the record as one, so that the line is    *)
(* written when docker inspect fails, not when the record goes.            *)
(***************************************************************************)
Entered(a, n) == store[a] # None /\ store[a].name = n

OnRecord(p, a, n) ==
    Entered(a, n) /\ ~(pc[p] \in Deleting \ {"rm_container"} /\ req[p].app = a)

Held(p, a, n) == LET r == req[p] IN
    /\ a = r.app
    /\ \/ pc[p] \in Building \ {"start"} /\ n = r.name
       \/ /\ pc[p] \in Syncing \cup {"restore", "record"} /\ r.kind \in Cutovers
          /\ n \in {r.name, r.old.name}
       \/ pc[p] = "retire" /\ n = r.old.name

Owned(p, a, n) == OnRecord(p, a, n) \/ Held(p, a, n)

\* What the store holds of the application of a request.
Placed(p) == LET r == req[p] IN
    /\ pc[p] \in {"lock", "build", "start", "verify", "commit", "save"} =>
         ~r.restoring /\ (r.kind = "deploy" => r.old = None)
    /\ pc[p] \in {"lock", "build", "start", "verify", "commit", "save"} \cup Deleting =>
         store[r.app] = r.old
    /\ pc[p] \in {"restore", "record", "retire"} => store[r.app] = r.cand
    /\ pc[p] \in Syncing /\ r.kind \in Cutovers =>
         store[r.app] = IF r.restoring THEN r.old ELSE r.cand

\* Every container of a name is charged, recorded, or in hand.
Books(K) == \A a \in Apps, n \in Nat : Named(a, n) # {} =>
    \/ <<a, n>> \in K
    \/ Entered(a, n) /\ \A p \in Procs : OnRecord(p, a, n)
    \/ \E p \in Procs : Held(p, a, n)

\* The lines are at most as many as failures and crashes.
Totals(K, n) == IsFiniteSet(K) /\ Cardinality(K) <= n

AccountsInv ==
    /\ UniqueNames /\ \A p \in Procs : Placed(p)
    /\ \E K : Totals(K, faults + crashes) /\ Books(K)

\* A step charges the names X: all others stay owned, or were charged before.
Charges(p, X) == \A a \in Apps, n \in Nat : Named(a, n)' # {} =>
    \/ Owned(p, a, n)' \/ <<a, n>> \in X
    \/ Named(a, n) # {} /\ ~Owned(p, a, n)

Paid(p) ==
    /\ UniqueNames' /\ Placed(p)'
    /\ Charges(p, {}) \/ (faults' = faults + 1 /\ \E x : Charges(p, {x}))

Attended(p) ==
    /\ TypeOK /\ UniqueNames /\ Placed(p) /\ RequestOK(p)
    /\ Working(p) /\ req[p] \in Request /\ req[p].app \in Apps

\* A step that removes none but unowned containers, and keeps the records.
LEMMA NothingCharged ==
    ASSUME NEW p \in Procs, UniqueNames, Placed(p)', store' = store, containers' \subseteq containers,
           \A a \in Apps, n \in Nat :
              Owned(p, a, n) => Owned(p, a, n)' \/ Named(a, n)' = {}
    PROVE  Paid(p)
<1>1. UniqueNames'
  BY DEF UniqueNames
<1>2. \A a \in Apps, n \in Nat : Named(a, n)' # {} => Named(a, n) # {}
  BY DEF Named
<1> QED BY <1>1, <1>2 DEF Paid, Charges

\* One that fails, and leaves the containers of one name to no one.
LEMMA OneCharged ==
    ASSUME NEW p \in Procs, UniqueNames, Placed(p)', store' = store, containers' \subseteq containers,
           faults' = faults + 1, NEW b \in Apps, NEW m \in Nat,
           \A a \in Apps, n \in Nat :
              Owned(p, a, n) => Owned(p, a, n)' \/ (a = b /\ n = m)
    PROVE  Paid(p)
<1>1. UniqueNames'
  BY DEF UniqueNames
<1>2. \A a \in Apps, n \in Nat : Named(a, n)' # {} => Named(a, n) # {}
  BY DEF Named
<1>3. Charges(p, {<<b, m>>})
  BY <1>2 DEF Charges
<1> QED BY <1>1, <1>3 DEF Paid

\* A request that arrives holds nothing yet.
LEMMA ArrivalPaid ==
    ASSUME NEW p \in Procs, TypeOK, UniqueNames, Arrival(p)
    PROVE  Paid(p)
<1>1. PICK a \in Apps, k \in Kinds, e \in Envs \cup {Keep},
           s \in {"lock", "stop", "rm_container"} :
             Begin(p, k, a, e, s) /\ (k = "deploy" => store[a] = None)
  BY DEF Arrival, deployHandler, redeployHandler, githubWebhookHandler,
         rollbackDeploymentHandler, restartDeploymentHandler, deleteDeploymentHandler
<1>2. PICK r : r = [NoRequest EXCEPT !.kind = k, !.app = a, !.ask = e, !.old = store[a]]
  OBVIOUS
<1>3. r.kind = k /\ r.app = a /\ r.old = store[a] /\ ~r.restoring
  BY <1>2 DEF NoRequest
<1>4. /\ req' = [req EXCEPT ![p] = r] /\ pc' = [pc EXCEPT ![p] = s] /\ pc[p] = "idle"
      /\ UNCHANGED <<store, containers>>
  BY <1>1, <1>2 DEF Begin, Goto, files, docker
<1>5. req'[p] = r /\ pc'[p] = s
  BY <1>4 DEF TypeOK
<1>6. Placed(p)'
  BY <1>1, <1>3, <1>4, <1>5 DEF Placed
<1>7. \A b, n : Owned(p, b, n) => Owned(p, b, n)'
  BY <1>4, <1>5 DEF Owned, OnRecord, Entered, Held, Building
<1> QED BY <1>4, <1>6, <1>7, NothingCharged

\* Before its container is started a request holds nothing.
LEMMA LockPaid ==
    ASSUME NEW p \in Procs, Attended(p), Lock(p) \/ Build(p)
    PROVE  Paid(p)
<1>1. /\ pc[p] \in {"lock", "build"} /\ UNCHANGED <<store, containers>>
      /\ pc \in [Threads -> Steps] /\ req \in [Threads -> Request] /\ req[p] \in Request
  BY DEF Lock, LockDeploy, LockRedeploy, LockRollback, Build, files, docker, Attended, TypeOK
<1>2. pc'[p] \in {"idle", "build", "start"}
  BY <1>1 DEF Lock, LockDeploy, LockRedeploy, LockRollback, Build, Goto, Finish
<1>3. Finish(p) \/ (SameRequest(p) /\ req'[p].restoring = req[p].restoring)
  <2> SUFFICES ASSUME ~Finish(p) PROVE SameRequest(p) /\ req'[p].restoring = req[p].restoring
    OBVIOUS
  <2>1. SameRequest(p)
    BY WorkOthers DEF Attended, Work
  <2>2. req'[p].restoring = req[p].restoring
    <3>1. CASE LockDeploy(p) \/ LockRedeploy(p)
      <4>1. req' = [req EXCEPT ![p].prevEnv = envFile[req[p].app]]
        <5>1. CASE LockDeploy(p)
          BY <5>1 DEF LockDeploy
        <5>2. CASE LockRedeploy(p)
          <6>1. ~(req[p].ask = Keep /\ req[p].old.env # envFile[req[p].app])
            BY <5>2 DEF LockRedeploy
          <6> QED BY <5>2, <6>1 DEF LockRedeploy
        <5> QED BY <3>1, <5>1, <5>2
      <4>2. req'[p] = [req[p] EXCEPT !.prevEnv = envFile[req[p].app]]
        BY <1>1, <4>1
      <4> QED BY <1>1, <4>2 DEF Request
    <3>2. CASE LockRollback(p)
      <4>1. PICK v : req' = [req EXCEPT ![p] = [@ EXCEPT !.prevEnv = envFile[req[p].app],
                                !.img = v.img, !.name = clock + 1, !.seen = history[req[p].app]]]
        BY <3>2, RollbackLocked
      <4>2. req'[p] = [req[p] EXCEPT !.prevEnv = envFile[req[p].app], !.img = v.img,
                         !.name = clock + 1, !.seen = history[req[p].app]]
        BY <1>1, <4>1
      <4> QED BY <1>1, <4>2 DEF Request
    <3>3. CASE Build(p)
      <4>1. req'[p] = [req[p] EXCEPT !.img = clock + 1,
                         !.name = IF req[p].kind = "deploy" THEN 0 ELSE clock + 1]
        BY <1>1, <3>3 DEF Build
      <4> QED BY <1>1, <4>1 DEF Request
    <3> QED BY <3>1, <3>2, <3>3 DEF Lock
  <2> QED BY <2>1, <2>2
<1>4. Finish(p) => pc'[p] = "idle"
  BY <1>1 DEF Finish
<1>5. Placed(p)'
  BY <1>1, <1>2, <1>3, <1>4 DEF Attended, Placed, SameRequest
<1>6. \A b, n : Owned(p, b, n) => Owned(p, b, n)'
  BY <1>1, <1>2 DEF Owned, OnRecord, Entered, Held, Building
<1> QED BY <1>1, <1>5, <1>6, NothingCharged DEF Attended

\* docker run may leave a container that it could not start.
LEMMA StartPaid ==
    ASSUME NEW p \in Procs, Attended(p), StartOK(p) \/ StartFailed(p)
    PROVE  Paid(p)
<1> DEFINE r == req[p]
<1>1. /\ pc[p] = "start" /\ store' = store /\ r.app \in Apps /\ r.name \in Nat
      /\ pc \in [Threads -> Steps] /\ req \in [Threads -> Request]
  BY DEF StartOK, StartFailed, files, Attended, TypeOK, Request
<1>2. CASE containers' = containers /\ StartFailed(p)
  <2>1. pc'[p] = "idle"
    BY <1>1, <1>2 DEF StartFailed, Finish
  <2>2. \A b, n : Owned(p, b, n) => Owned(p, b, n)'
    BY <1>1, <2>1 DEF Owned, OnRecord, Entered, Held, Building
  <2> QED BY <1>1, <1>2, <2>1, <2>2, NothingCharged DEF Attended, Placed
<1>3. ASSUME NEW q \in Ports, NEW up \in BOOLEAN, Named(r.app, r.name) = {},
             containers' = containers \cup {Candidate(p, q, up)},
             \/ /\ pc'[p] = "verify" /\ SameRequest(p) /\ req'[p].name = r.name
                /\ req'[p].restoring = r.restoring
             \/ pc'[p] = "idle" /\ faults' = faults + 1
      PROVE  Paid(p)
  <2>1. PICK c : c = Candidate(p, q, up)
    OBVIOUS
  <2>2. c.app = r.app /\ c.name = r.name /\ containers' = containers \cup {c}
    BY <1>3, <2>1 DEF Candidate
  <2>3. UniqueNames'
    BY <1>3, <2>2 DEF Attended, UniqueNames, Named
  <2>4. Placed(p)'
    BY <1>1, <1>3 DEF Attended, Placed, SameRequest
  <2>5. \A a, n : Named(a, n)' # {} => Named(a, n) # {} \/ (a = r.app /\ n = r.name)
    BY <2>2 DEF Named
  <2>6. \A a, n : Owned(p, a, n) => Owned(p, a, n)'
    BY <1>1, <1>3 DEF Owned, OnRecord, Entered, Held, Building
  <2>7. CASE pc'[p] = "verify" /\ SameRequest(p) /\ req'[p].name = r.name
    <3>1. \A a, n : a = r.app /\ n = r.name => Owned(p, a, n)'
      BY <2>7 DEF Owned, Held, Building, SameRequest
    <3>2. Charges(p, {})
      BY <2>5, <2>6, <3>1 DEF Charges
    <3> QED BY <2>3, <2>4, <3>2 DEF Paid
  <2>8. CASE faults' = faults + 1
    <3>1. Charges(p, {<<r.app, r.name>>})
      BY <2>5, <2>6 DEF Charges
    <3> QED BY <2>3, <2>4, <2>8, <3>1 DEF Paid
  <2> QED BY <1>3, <2>7, <2>8
<1>4. CASE StartOK(p)
  <2>1. PICK q \in Ports : /\ containers' = containers \cup {Candidate(p, q, TRUE)}
                           /\ req' = [req EXCEPT ![p].cand =
                                [name |-> r.name, img |-> r.img, port |-> q, env |-> Effective(p)]]
    BY <1>4 DEF StartOK
  <2>2. Named(r.app, r.name) = {} /\ pc'[p] = "verify"
    BY <1>1, <1>4 DEF StartOK, Goto
  <2>3. /\ SameRequest(p) /\ req'[p].name = r.name /\ req'[p].restoring = r.restoring
    BY <1>1, <2>1 DEF SameRequest, Request
  <2> QED BY <1>3, <2>1, <2>2, <2>3
<1>5. CASE StartFailed(p) /\ containers' # containers
  <2>1. PICK q \in Ports : containers' = containers \cup {Candidate(p, q, FALSE)}
    BY <1>5 DEF StartFailed
  <2>2. Named(r.app, r.name) = {} /\ pc'[p] = "idle" /\ faults' = faults + 1
    BY <1>1, <1>5 DEF StartFailed, Finish, Fault
  <2> QED BY <1>3, <2>1, <2>2
<1> QED BY <1>2, <1>4, <1>5

\* The candidate is in hand until it is recorded or given up.
LEMMA VerifyPaid ==
    ASSUME NEW p \in Procs, Attended(p),
           Healthy(p) \/ Unhealthy(p) \/ CommitEnvironment(p) \/ RollbackEnvironment(p)
    PROVE  Paid(p)
<1>1. /\ pc[p] \in {"verify", "commit", "env_rollback"} /\ req' = req
      /\ UNCHANGED <<store, containers>> /\ pc \in [Threads -> Steps]
      /\ pc'[p] \in {"commit", "save", "cleanup"}
      /\ pc[p] = "env_rollback" => pc'[p] = "cleanup"
  BY DEF Healthy, Unhealthy, CommitEnvironment, RollbackEnvironment, files, docker, Attended,
         TypeOK, Goto
<1>2. Placed(p)'
  BY <1>1 DEF Attended, Placed
<1>3. \A b, n : Owned(p, b, n) => Owned(p, b, n)'
  BY <1>1 DEF Owned, OnRecord, Entered, Held, Building
<1> QED BY <1>1, <1>2, <1>3, NothingCharged DEF Attended

\* It is removed, or charged to the failure that leaves it.
LEMMA CleanupPaid ==
    ASSUME NEW p \in Procs, Attended(p), Cleanup(p)
    PROVE  Paid(p)
<1> DEFINE r == req[p]
<1> DEFINE rest == containers \ Named(r.app, r.name)
<1>1. /\ pc[p] = "cleanup" /\ store' = store /\ pc'[p] = "idle"
      /\ \/ containers' = rest
         \/ containers' = containers /\ faults' = faults + 1
      /\ r.app \in Apps /\ r.name \in Nat
  BY DEF Cleanup, files, docker, Fault, Finish, Attended, TypeOK, Request
<1>2. Placed(p)'
  BY <1>1 DEF Placed
<1>3. \A b, n : Owned(p, b, n) => Owned(p, b, n)' \/ (b = r.app /\ n = r.name)
  BY <1>1 DEF Owned, OnRecord, Entered, Held, Building
<1>4. CASE containers' = rest
  <2>1. \A b, n : b = r.app /\ n = r.name => Named(b, n)' = {}
    BY <1>4 DEF Named
  <2> QED BY <1>1, <1>2, <1>3, <1>4, <2>1, NothingCharged DEF Attended
<1>5. CASE containers' = containers /\ faults' = faults + 1
  BY <1>1, <1>2, <1>3, <1>5, OneCharged DEF Attended
<1> QED BY <1>1, <1>4, <1>5

\* The record that Save replaces, or the one that a second Save puts back, is in
\* hand: the one of the other release is stored.
LEMMA SavePaid ==
    ASSUME NEW p \in Procs, Attended(p), SaveRecord(p)
    PROVE  Paid(p)
<1> DEFINE r == req[p]
<1> DEFINE a == r.app
<1>1. /\ pc[p] = "save" /\ req' = req /\ containers' = containers /\ pc \in [Threads -> Steps]
      /\ store \in [Apps -> Record \cup {None}] /\ a \in Apps
      /\ r.kind \in Releases /\ r.cand \in Record /\ r.cand.name = r.name /\ ~r.restoring
      /\ store[a] = r.old
  BY DEF SaveRecord, docker, Attended, TypeOK, Routes, RequestOK, HasCandidate, Placed
<1>2. CASE store' = store /\ pc'[p] = "env_rollback"
  <2>1. Placed(p)'
    BY <1>1, <1>2 DEF Placed
  <2>2. \A b, n : Owned(p, b, n) => Owned(p, b, n)'
    BY <1>1, <1>2 DEF Owned, OnRecord, Entered, Held, Building
  <2> QED BY <1>1, <1>2, <2>1, <2>2, NothingCharged DEF Attended
<1>3. CASE store' = [store EXCEPT ![a] = r.cand] /\ pc'[p] = "list"
  <2>1. store'[a] = r.cand /\ \A b \in Apps \ {a} : store'[b] = store[b]
    BY <1>1, <1>3
  <2>2. Placed(p)'
    BY <1>1, <1>3, <2>1 DEF Placed
  <2>3. \A b, n : b = a /\ n = r.name => OnRecord(p, b, n)'
    BY <1>1, <1>3, <2>1, NoneAssumption DEF OnRecord, Entered
  <2>4. \A b, n : b = a /\ OnRecord(p, b, n) => r.kind \in Cutovers /\ n = r.old.name
    <3>1. r.kind = "deploy" => r.old = None
      BY <1>1 DEF Attended, Placed
    <3> QED BY <1>1, <3>1 DEF OnRecord, Entered
  <2>5. \A b, n : b = a /\ OnRecord(p, b, n) => Held(p, b, n)'
    BY <1>1, <1>3, <2>4 DEF Held
  <2>6. \A b, n : Held(p, b, n) => n = r.name
    BY <1>1 DEF Held
  <2>7. \A b \in Apps \ {a}, n \in Nat : Owned(p, b, n) => Owned(p, b, n)'
    BY <1>1, <1>3, <2>1 DEF Owned, OnRecord, Entered, Held
  <2>8. \A b \in Apps, n \in Nat : Owned(p, b, n) => Owned(p, b, n)'
    BY <2>3, <2>5, <2>6, <2>7 DEF Owned
  <2>9. Charges(p, {})
    BY <1>1, <2>8 DEF Charges, Named
  <2> QED BY <1>1, <2>2, <2>9 DEF Paid, Attended, UniqueNames
<1> QED BY <1>1, <1>2, <1>3 DEF SaveRecord, Goto

\* The restored record is that of the old release again; a failure to restore it
\* costs the old container, since the candidate is recorded and is removed next.
LEMMA RestorePaid ==
    ASSUME NEW p \in Procs, Attended(p), RestoreRecord(p)
    PROVE  Paid(p)
<1> DEFINE r == req[p]
<1> DEFINE a == r.app
<1>1. /\ pc[p] = "restore" /\ containers' = containers /\ pc \in [Threads -> Steps]
      /\ req \in [Threads -> Request] /\ r \in Request
      /\ store \in [Apps -> Record \cup {None}] /\ a \in Apps
      /\ r.kind \in Cutovers /\ r.cand.name = r.name /\ store[a] = r.cand
      /\ r.old \in Record /\ r.old.name \in Nat
  BY DEF RestoreRecord, docker, Attended, TypeOK, Routes, RequestOK, HasCandidate, Placed, Record
<1>2. \A b, n : Owned(p, b, n) /\ b = a => n \in {r.name, r.old.name}
  BY <1>1 DEF Owned, OnRecord, Entered, Held
<1>3. CASE store' = store /\ pc'[p] = "env_rollback" /\ req' = req /\ faults' = faults + 1
  <2>1. Placed(p)'
    BY <1>3 DEF Placed
  <2>2. \A b, n : Owned(p, b, n) => Owned(p, b, n)' \/ (b = a /\ n = r.old.name)
    BY <1>1, <1>2, <1>3 DEF Owned, OnRecord, Entered, Held, Building
  <2> QED BY <1>1, <1>3, <2>1, <2>2, OneCharged DEF Attended
<1>4. CASE /\ store' = [store EXCEPT ![a] = r.old] /\ pc'[p] = "list"
           /\ req' = [req EXCEPT ![p].restoring = TRUE]
  <2>1. store'[a] = r.old /\ \A b \in Apps \ {a} : store'[b] = store[b]
    BY <1>1, <1>4
  <2>2. /\ req'[p].app = a /\ req'[p].name = r.name /\ req'[p].old = r.old
        /\ req'[p].kind = r.kind /\ req'[p].restoring
    BY <1>1, <1>4 DEF Request
  <2>3. Placed(p)'
    BY <1>1, <1>4, <2>1, <2>2 DEF Placed
  <2>4. \A b, n : b = a /\ n \in {r.name, r.old.name} => Held(p, b, n)'
    BY <1>1, <1>4, <2>2 DEF Held
  <2>5. \A b \in Apps \ {a}, n \in Nat : Owned(p, b, n) => Owned(p, b, n)'
    BY <1>1, <1>4, <2>1, <2>2 DEF Owned, OnRecord, Entered, Held
  <2>6. \A b \in Apps, n \in Nat : Owned(p, b, n) => Owned(p, b, n)'
    BY <1>2, <2>4, <2>5 DEF Owned
  <2>7. Charges(p, {})
    BY <1>1, <2>6 DEF Charges, Named
  <2> QED BY <1>1, <2>3, <2>7 DEF Paid, Attended, UniqueNames
<1>5. \/ store' = store /\ pc'[p] = "env_rollback" /\ req' = req /\ faults' = faults + 1
      \/ /\ store' = [store EXCEPT ![a] = r.old] /\ pc'[p] = "list"
         /\ req' = [req EXCEPT ![p].restoring = TRUE]
  BY <1>1 DEF RestoreRecord, Goto, Fault
<1> QED BY <1>3, <1>4, <1>5

\* The candidate is recorded; the container it replaced is removed, or charged.
LEMMA RetirePaid ==
    ASSUME NEW p \in Procs, Attended(p), RecordHistory(p) \/ RetireOld(p)
    PROVE  Paid(p)
<1> DEFINE r == req[p]
<1> DEFINE a == r.app
<1>1. /\ pc[p] \in {"record", "retire"} /\ store' = store /\ pc \in [Threads -> Steps]
      /\ r \in Request /\ a \in Apps /\ store[a] = r.cand /\ r.cand.name = r.name
      /\ r.cand # None /\ r.kind \in Cutovers /\ r.old.name \in Nat
  BY NoneAssumption DEF RecordHistory, RetireOld, files, Attended, TypeOK, RequestOK,
     HasCandidate, Placed, Record
<1>2. OnRecord(p, a, r.name)
  BY <1>1 DEF OnRecord, Entered
<1>3. CASE RecordHistory(p)
  <2>1. pc[p] = "record" /\ pc'[p] = "retire" /\ req' = req /\ containers' = containers
    BY <1>1, <1>3 DEF RecordHistory, Goto
  <2>2. Placed(p)'
    BY <1>1, <2>1 DEF Placed
  <2>3. \A b, n : Owned(p, b, n) => Owned(p, b, n)'
    BY <1>1, <2>1 DEF Owned, OnRecord, Entered, Held, Building
  <2> QED BY <1>1, <2>1, <2>2, <2>3, NothingCharged DEF Attended
<1>4. CASE RetireOld(p)
  <2>1. /\ pc[p] = "retire" /\ pc'[p] = "idle"
        /\ \/ containers' = containers \ Named(a, r.old.name)
           \/ containers' = containers /\ faults' = faults + 1
    BY <1>1, <1>4 DEF RetireOld, Finish, Fault
  <2>2. Placed(p)'
    BY <2>1 DEF Placed
  <2>3. \A b, n : Owned(p, b, n) => Owned(p, b, n)' \/ (b = a /\ n = r.old.name)
    BY <1>1, <2>1 DEF Owned, OnRecord, Entered, Held, Building
  <2>4. CASE containers' = containers \ Named(a, r.old.name)
    <3>1. \A b, n : b = a /\ n = r.old.name => Named(b, n)' = {}
      BY <2>4 DEF Named
    <3> QED BY <1>1, <2>2, <2>3, <2>4, <3>1, NothingCharged DEF Attended
  <2>5. CASE containers' = containers /\ faults' = faults + 1
    BY <1>1, <2>2, <2>3, <2>5, OneCharged DEF Attended
  <2> QED BY <2>1, <2>4, <2>5
<1> QED BY <1>3, <1>4

\* A synchronization leaves both releases in hand, until the record is the old
\* one again and only the candidate has to go.
LEMMA SyncPaid ==
    ASSUME NEW p \in Procs, Attended(p), Sync(p)
    PROVE  Paid(p)
<1> DEFINE r == req[p]
<1> DEFINE a == r.app
<1>1. /\ pc[p] \in Syncing /\ UNCHANGED <<store, containers>> /\ pc \in [Threads -> Steps]
      /\ req \in [Threads -> Request] /\ r \in Request /\ a \in Apps
  BY DEF Sync, SyncList, SyncWrite, SyncReload, files, docker, Attended, TypeOK
<1>2. CASE Finish(p) /\ r.kind \notin Cutovers
  <2>1. pc'[p] = "idle"
    BY <1>1, <1>2 DEF Finish
  <2>2. Placed(p)'
    BY <2>1 DEF Placed
  <2>3. \A b, n : Owned(p, b, n) => Owned(p, b, n)'
    BY <1>1, <1>2, <2>1 DEF Owned, OnRecord, Entered, Held, Building
  <2> QED BY <1>1, <2>2, <2>3, NothingCharged DEF Attended
<1>3. CASE /\ pc'[p] \in {"write", "reload"}
           /\ req' = req \/ req' = [req EXCEPT ![p].snap = store]
  <2>1. /\ req'[p].app = a /\ req'[p].name = r.name /\ req'[p].old = r.old
        /\ req'[p].kind = r.kind /\ req'[p].restoring = r.restoring /\ req'[p].cand = r.cand
    BY <1>1, <1>3 DEF Request
  <2>2. Placed(p)'
    BY <1>1, <1>3, <2>1 DEF Attended, Placed
  <2>3. \A b, n : Owned(p, b, n) => Owned(p, b, n)'
    BY <1>1, <1>3, <2>1 DEF Owned, OnRecord, Entered, Held, Building
  <2> QED BY <1>1, <2>2, <2>3, NothingCharged DEF Attended
<1>4. CASE /\ pc'[p] \in {"record", "restore"} /\ req' = req /\ r.kind \in Cutovers
           /\ ~r.restoring
  <2>1. Placed(p)'
    BY <1>1, <1>4 DEF Attended, Placed
  <2>2. \A b, n : Owned(p, b, n) => Owned(p, b, n)'
    BY <1>1, <1>4 DEF Owned, OnRecord, Entered, Held, Building
  <2> QED BY <1>1, <2>1, <2>2, NothingCharged DEF Attended
<1>5. CASE /\ pc'[p] = "env_rollback" /\ req' = req /\ r.kind \in Cutovers
           /\ r.restoring
  <2>1. Placed(p)'
    BY <1>5 DEF Placed
  <2>2. store[a] = r.old /\ r.old # None
    BY <1>1, <1>5, NoneAssumption DEF Attended, Placed, RequestOK
  <2>3. \A b, n : Owned(p, b, n) => Owned(p, b, n)'
    BY <1>1, <1>5, <2>2 DEF Owned, OnRecord, Entered, Held, Building
  <2> QED BY <1>1, <2>1, <2>3, NothingCharged DEF Attended
<1>6. \/ Finish(p) /\ r.kind \notin Cutovers
      \/ /\ \E s \in {"write", "reload"} : pc' = [pc EXCEPT ![p] = s]
         /\ req' = req \/ req' = [req EXCEPT ![p].snap = store]
      \/ /\ r.kind \in Cutovers /\ req' = req
         /\ \/ ~r.restoring /\ \E s \in {"record", "restore"} : pc' = [pc EXCEPT ![p] = s]
            \/ r.restoring /\ pc' = [pc EXCEPT ![p] = "env_rollback"]
  BY DEF Sync, SyncList, SyncWrite, SyncReload, AfterSync, Goto
<1> QED BY <1>1, <1>2, <1>3, <1>4, <1>5, <1>6

\* A restart stops or starts containers, whatever they are called.
LEMMA RestartPaid ==
    ASSUME NEW p \in Procs, Attended(p), RestartStop(p) \/ RestartUp(p)
    PROVE  Paid(p)
<1> DEFINE C == Named(req[p].app, req[p].old.name)
<1> DEFINE D == {c \in C : c.port \in FreePorts}
<1>1. /\ pc[p] \in Restarting /\ store' = store /\ pc \in [Threads -> Steps]
      /\ \E s \in {"idle", "up"} : pc' = [pc EXCEPT ![p] = s]
      /\ containers \subseteq Container
  BY DEF RestartStop, RestartUp, files, Attended, TypeOK, Goto, Finish
<1>2. pc'[p] \in {"idle", "up"}
  BY <1>1
<1>3. \/ containers' = containers
      \/ containers' = {IF c \in C THEN [c EXCEPT !.up = FALSE] ELSE c : c \in containers}
      \/ containers' = {IF c \in D THEN [c EXCEPT !.up = TRUE] ELSE c : c \in containers}
  BY DEF RestartStop, RestartUp
<1> HIDE DEF C, D
<1>4. \E f : \A d \in containers' : \E c \in containers :
         d = f[c] /\ d.app = c.app /\ d.name = c.name
  <2>1. CASE containers' = containers
    <3>1. PICK f : f = [c \in containers |-> c]
      OBVIOUS
    <3>2. \A c \in containers : f[c] = c
      BY <3>1
    <3> QED BY <2>1, <3>2
  <2>2. CASE containers' = {IF c \in C THEN [c EXCEPT !.up = FALSE] ELSE c : c \in containers}
    <3>1. PICK f : f = [c \in containers |-> IF c \in C THEN [c EXCEPT !.up = FALSE] ELSE c]
      OBVIOUS
    <3>2. \A c \in containers : f[c].app = c.app /\ f[c].name = c.name
      BY <1>1, <3>1 DEF Container
    <3>3. \A d \in containers' : \E c \in containers : d = f[c]
      BY <2>2, <3>1
    <3> QED BY <3>2, <3>3
  <2>3. CASE containers' = {IF c \in D THEN [c EXCEPT !.up = TRUE] ELSE c : c \in containers}
    <3>1. PICK f : f = [c \in containers |-> IF c \in D THEN [c EXCEPT !.up = TRUE] ELSE c]
      OBVIOUS
    <3>2. \A c \in containers : f[c].app = c.app /\ f[c].name = c.name
      BY <1>1, <3>1 DEF Container
    <3>3. \A d \in containers' : \E c \in containers : d = f[c]
      BY <2>3, <3>1
    <3> QED BY <3>2, <3>3
  <2> QED BY <1>3, <2>1, <2>2, <2>3
<1>5. UniqueNames'
  BY <1>4 DEF Attended, UniqueNames
<1>6. \A a, n : Named(a, n)' # {} => Named(a, n) # {}
  BY <1>4 DEF Named
<1>7. Placed(p)'
  BY <1>2 DEF Placed
<1>8. \A a, n : Owned(p, a, n) => Owned(p, a, n)'
  BY <1>1, <1>2 DEF Owned, OnRecord, Entered, Held, Building
<1>9. Charges(p, {})
  BY <1>6, <1>8 DEF Charges
<1> QED BY <1>5, <1>7, <1>9 DEF Paid

\* A deletion passes its container by at the cost of a failure, and what it does
\* after that costs nothing more.
LEMMA DeletePaid ==
    ASSUME NEW p \in Procs, Attended(p), DeleteSteps(p)
    PROVE  Paid(p)
<1> DEFINE r == req[p]
<1> DEFINE a == r.app
<1>1. /\ pc[p] \in Deleting /\ pc \in [Threads -> Steps] /\ a \in Apps
      /\ store \in [Apps -> Record \cup {None}] /\ store[a] = r.old
      /\ r.kind = "delete" /\ r.old.name \in Nat
  <2>1. pc[p] \in Deleting
    BY DEF DeleteSteps, DeleteContainer, DeleteHistoryImages, DeleteHistory, DeleteImage,
       DeleteEnvironment, DeleteRecord
  <2> QED BY <2>1 DEF Attended, TypeOK, Routes, RequestOK, Placed, Record
<1>2. \A b, n : ~Held(p, b, n)
  BY <1>1 DEF Held, Building
<1>3. CASE DeleteContainer(p)
  <2>1. /\ pc[p] = "rm_container" /\ store' = store
        /\ \/ pc'[p] = "rm_images" /\ req' = req
           \/ pc'[p] = "idle"
        /\ \/ containers' = containers \ Named(a, r.old.name)
           \/ containers' = containers /\ faults' = faults + 1
    BY <1>1, <1>3 DEF DeleteContainer, Finish, Goto, Fault, files
  <2>2. Placed(p)'
    BY <1>1, <2>1 DEF Placed
  <2>3. \A b, n : Owned(p, b, n) => Owned(p, b, n)' \/ (b = a /\ n = r.old.name)
    BY <1>1, <1>2, <2>1 DEF Owned, OnRecord, Entered
  <2>4. CASE containers' = containers \ Named(a, r.old.name)
    <3>1. \A b, n : b = a /\ n = r.old.name => Named(b, n)' = {}
      BY <2>4 DEF Named
    <3> QED BY <2>1, <2>2, <2>3, <2>4, <3>1, NothingCharged DEF Attended
  <2>5. CASE containers' = containers /\ faults' = faults + 1
    BY <1>1, <2>1, <2>2, <2>3, <2>5, OneCharged DEF Attended
  <2> QED BY <2>1, <2>4, <2>5
<1>4. CASE DeleteHistoryImages(p) \/ DeleteHistory(p) \/ DeleteImage(p) \/ DeleteEnvironment(p)
  <2>1. /\ pc[p] # "rm_container" /\ UNCHANGED <<store, containers>>
        /\ \/ pc'[p] \in Deleting \ {"rm_container"} /\ req' = req
           \/ pc'[p] = "idle"
    BY <1>1, <1>4 DEF DeleteHistoryImages, DeleteHistory, DeleteImage, DeleteEnvironment, Finish,
       Goto, files, docker
  <2>2. Placed(p)'
    BY <1>1, <2>1 DEF Placed
  <2>3. \A b, n : Owned(p, b, n) => Owned(p, b, n)'
    BY <1>1, <1>2, <2>1 DEF Owned, OnRecord, Entered
  <2> QED BY <2>1, <2>2, <2>3, NothingCharged DEF Attended
<1>5. CASE DeleteRecord(p)
  <2>1. /\ pc[p] = "rm_record" /\ containers' = containers
        /\ \/ pc'[p] = "list" /\ req' = req /\ store' = [store EXCEPT ![a] = None]
           \/ pc'[p] = "idle" /\ store' = store
    BY <1>1, <1>5 DEF DeleteRecord, Finish, Goto, docker
  <2>2. Placed(p)'
    BY <1>1, <2>1 DEF Placed
  <2>3. \A b \in Apps \ {a} : store'[b] = store[b]
    BY <1>1, <2>1
  <2>4. \A b \in Apps, n \in Nat : Owned(p, b, n) => b # a
    BY <1>1, <1>2, <2>1 DEF Owned, OnRecord, Entered
  <2>5. \A b \in Apps, n \in Nat : Owned(p, b, n) => Owned(p, b, n)'
    BY <1>2, <2>1, <2>3, <2>4 DEF Owned, OnRecord, Entered
  <2>6. Charges(p, {})
    BY <2>1, <2>5 DEF Charges, Named
  <2> QED BY <2>1, <2>2, <2>6 DEF Paid, Attended, UniqueNames
<1> QED BY <1>3, <1>4, <1>5 DEF DeleteSteps

\* Whatever a request does, at most one failure pays for what it leaves.
LEMMA StepPaid ==
    ASSUME NEW p \in Procs, TypeOK, UniqueNames, Placed(p),
           Arrival(p) \/ Lock(p) \/ Work(p) \/ Sync(p)
    PROVE  Paid(p)
<1>1. CASE Lock(p) \/ Work(p) \/ Sync(p)
  <2>1. Working(p)
    BY <1>1 DEF Lock, Work, Sync, Working, LockDeploy, LockRedeploy, LockRollback, Build,
       StartOK, StartFailed, Healthy, Unhealthy, Cleanup, CommitEnvironment, SaveRecord,
       RollbackEnvironment, RestoreRecord, RecordHistory, RetireOld, RestartStop,
       RestartUp, DeleteContainer, DeleteHistoryImages, DeleteHistory, DeleteImage,
       DeleteEnvironment, DeleteRecord, SyncList, SyncWrite, SyncReload
  <2>2. Attended(p)
    BY <2>1 DEF Attended, TypeOK, RequestOK
  <2> QED
    BY <1>1, <2>2, LockPaid, StartPaid, VerifyPaid, CleanupPaid, SavePaid, RestorePaid,
       RetirePaid, SyncPaid, RestartPaid, DeletePaid DEF Work, DeleteSteps
<1> QED BY <1>1, ArrivalPaid

\* With one request, it is the only owner.
LEMMA OneBook ==
    ASSUME Serial, NEW p \in Procs, NEW K
    PROVE  /\ Books(K) <=> \A a \in Apps, n \in Nat :
                Named(a, n) # {} => <<a, n>> \in K \/ Owned(p, a, n)
           /\ Books(K)' <=> \A a \in Apps, n \in Nat :
                Named(a, n)' # {} => <<a, n>> \in K \/ Owned(p, a, n)'
<1>1. \A q \in Procs : q = p
  BY DEF Serial
<1> QED BY <1>1 DEF Books, Owned, OnRecord

\* The charges of a step go on the books.
LEMMA BooksGo ==
    ASSUME Serial, NEW p \in Procs, NEW K, NEW X, Books(K), Charges(p, X)
    PROVE  Books(K \cup X)'
<1>1. PICK M : M = K \cup X
  OBVIOUS
<1>2. \A a \in Apps, n \in Nat : Named(a, n) # {} => <<a, n>> \in K \/ Owned(p, a, n)
  BY OneBook
<1>3. \A a \in Apps, n \in Nat : Named(a, n)' # {} => <<a, n>> \in M \/ Owned(p, a, n)'
  BY <1>1, <1>2 DEF Charges
<1> QED BY <1>1, <1>3, OneBook

LEMMA OneMore ==
    ASSUME NEW K, NEW x, NEW n \in Nat, Totals(K, n)
    PROVE  Totals(K \cup {x}, n + 1)
<1>1. IsFiniteSet(K \cup {x}) /\ Cardinality(K \cup {x}) \in {Cardinality(K), Cardinality(K) + 1}
  BY FS_AddElement DEF Totals
<1>2. Cardinality(K) \in Nat
  BY FS_CardinalityType DEF Totals
<1> QED BY <1>1, <1>2 DEF Totals

\* A crash takes everything out of the hands of the request: one container at
\* most, as the other of the two releases is recorded.
LEMMA CrashCharges ==
    ASSUME TypeOK, Crash, NEW p \in Procs, Placed(p)
    PROVE  \E x : Charges(p, {x})
<1> DEFINE r == req[p]
<1> DEFINE a == r.app
<1>1. UNCHANGED <<store, containers>> /\ pc'[p] = "idle"
  BY ConstantsAssumption DEF Crash, files, docker
<1>2. RequestOK(p)
  BY DEF TypeOK
<1>3. \A b, n : OnRecord(p, b, n) => Owned(p, b, n)'
  BY <1>1 DEF Owned, OnRecord, Entered
<1>4. \E m : \A b, n : Held(p, b, n) => b = a /\ (n = m \/ Entered(b, n))
  <2>1. CASE pc[p] \in Building
    BY <2>1 DEF Held, Building
  <2>2. CASE pc[p] \in {"restore", "record", "retire"}
    <3>1. store[a] = r.cand /\ r.cand # None /\ r.cand.name = r.name
      BY <1>2, <2>2, NoneAssumption DEF Placed, RequestOK, HasCandidate
    <3>2. \A b, n : Held(p, b, n) => b = a /\ n \in {r.name, r.old.name}
      BY <2>2 DEF Held, Building
    <3> QED BY <3>1, <3>2 DEF Entered
  <2>3. CASE pc[p] \in Syncing /\ r.kind \in Cutovers
    <3>1. \/ store[a] = r.cand /\ r.cand # None /\ r.cand.name = r.name
          \/ store[a] = r.old /\ r.old # None
      BY <1>2, <2>3, NoneAssumption DEF Placed, RequestOK, HasCandidate, Working
    <3>2. \A b, n : Held(p, b, n) => b = a /\ n \in {r.name, r.old.name}
      BY <2>3 DEF Held, Building
    <3> QED BY <3>1, <3>2 DEF Entered
  <2>4. CASE /\ pc[p] \notin Building \cup {"restore", "record", "retire"}
             /\ ~(pc[p] \in Syncing /\ r.kind \in Cutovers)
    BY <2>4 DEF Held
  <2> QED BY <2>1, <2>2, <2>3, <2>4
<1>5. PICK m : \A b, n : Held(p, b, n) => b = a /\ (n = m \/ Entered(b, n))
  BY <1>4
<1>6. \A b, n : Entered(b, n) => Owned(p, b, n)'
  BY <1>1 DEF Owned, OnRecord, Entered
<1>7. PICK x : x = <<a, m>>
  OBVIOUS
<1>8. \A b \in Apps, n \in Nat : Owned(p, b, n) => Owned(p, b, n)' \/ <<b, n>> = x
  BY <1>3, <1>5, <1>6, <1>7 DEF Owned
<1>9. Charges(p, {x})
  BY <1>1, <1>8 DEF Charges, Named
<1> QED BY <1>9

LEMMA SumsGrow ==
    ASSUME NEW i \in Nat, NEW j \in Nat, NEW k \in Nat, NEW m \in Nat, i <= k, j <= m
    PROVE  i + j \in Nat /\ k + m \in Nat /\ i + j <= k + m
OBVIOUS

LEMMA NextAccounts ==
    ASSUME Serial, TypeOK, TypeOK', AccountsInv, [Next]_vars
    PROVE  AccountsInv'
<1>1. PICK K : Totals(K, faults + crashes) /\ Books(K)
  BY DEF AccountsInv
<1>2. /\ faults + crashes \in Nat /\ Cardinality(K) \in Nat
      /\ faults' + crashes' \in Nat /\ faults + crashes <= faults' + crashes'
  <2>1. faults \in Nat /\ crashes \in Nat /\ Cardinality(K) \in Nat
    BY <1>1, FS_CardinalityType DEF TypeOK, Totals
  <2>2. faults' \in {faults, faults + 1} /\ crashes' \in {crashes, crashes + 1}
    BY CountersGrow
  <2>3. faults' \in Nat /\ crashes' \in Nat /\ faults <= faults' /\ crashes <= crashes'
    <3>1. faults' \in Nat /\ faults <= faults'
      BY <2>1, <2>2
    <3>2. crashes' \in Nat /\ crashes <= crashes'
      BY <2>1, <2>2
    <3> QED BY <3>1, <3>2
  <2> QED BY <2>1, <2>3, SumsGrow
<1>3. Totals(K, faults' + crashes')
  BY <1>1, <1>2 DEF Totals
<1>4. ASSUME NEW p \in Procs, UniqueNames', Placed(p)',
             \/ Charges(p, {})
             \/ /\ faults' + crashes' = (faults + crashes) + 1
                /\ \E x : Charges(p, {x})
      PROVE  AccountsInv'
  <2>1. \A q \in Procs : Placed(q)'
    BY <1>4 DEF Serial
  <2>2. CASE Charges(p, {})
    <3>1. K \cup {} = K
      OBVIOUS
    <3>2. Books(K)'
      BY <1>1, <2>2, <3>1, BooksGo
    <3> QED BY <1>3, <1>4, <2>1, <3>2 DEF AccountsInv, Totals
  <2>3. ASSUME faults' + crashes' = (faults + crashes) + 1, NEW x, Charges(p, {x})
        PROVE  AccountsInv'
    <3>1. PICK M : M = K \cup {x}
      OBVIOUS
    <3>2. Books(M)'
      BY <1>1, <2>3, <3>1, BooksGo
    <3>3. Totals(M, faults' + crashes')
      BY <1>1, <1>2, <2>3, <3>1, OneMore
    <3> QED BY <1>4, <2>1, <3>2, <3>3 DEF AccountsInv, Totals
  <2> QED BY <1>4, <2>2, <2>3
<1>5. ASSUME NEW p \in Procs, Arrival(p) \/ Lock(p) \/ Work(p) \/ Sync(p) PROVE AccountsInv'
  <2>1. Paid(p)
    BY <1>5, StepPaid DEF AccountsInv
  <2>2. crashes' = crashes
    BY <1>5 DEF Arrival, Begin, deployHandler, redeployHandler, githubWebhookHandler,
       rollbackDeploymentHandler, restartDeploymentHandler, deleteDeploymentHandler,
       Lock, Work, LockDeploy, LockRedeploy, LockRollback, Build,
       StartOK, StartFailed, Healthy, Unhealthy, Cleanup, CommitEnvironment, SaveRecord,
       RollbackEnvironment, RestoreRecord, RecordHistory, RetireOld, RestartStop,
       RestartUp, DeleteContainer, DeleteHistoryImages, DeleteHistory, DeleteImage,
       DeleteEnvironment, DeleteRecord, Sync, SyncList, SyncWrite, SyncReload
  <2>3. faults' = faults + 1 => faults' + crashes' = (faults + crashes) + 1
    BY <2>2 DEF TypeOK
  <2> QED BY <1>4, <2>1, <2>3 DEF Paid
<1>6. ASSUME UNCHANGED <<store, containers>>, \A q \in Procs : pc'[q] = pc[q] /\ req'[q] = req[q]
      PROVE  AccountsInv'
  <2>1. UniqueNames' /\ \A q \in Procs : Placed(q)'
    BY <1>6 DEF AccountsInv, UniqueNames, Placed
  <2>2. Books(K)'
    <3>1. \A a, n : Named(a, n)' = Named(a, n) /\ (Entered(a, n) => Entered(a, n)')
      BY <1>6 DEF Named, Entered
    <3>2. \A q \in Procs : \A a, n : /\ OnRecord(q, a, n) => OnRecord(q, a, n)'
                                     /\ Held(q, a, n) => Held(q, a, n)'
      BY <1>6 DEF OnRecord, Entered, Held
    <3> QED BY <1>1, <3>1, <3>2 DEF Books
  <2> QED BY <1>3, <2>1, <2>2 DEF AccountsInv, Totals
<1>7. CASE Crash
  <2>1. UniqueNames' /\ \A p \in Procs : Placed(p)'
    <3>1. containers' = containers /\ \A p \in Procs : pc'[p] = "idle"
      BY <1>7, ConstantsAssumption DEF Crash, docker
    <3> QED BY <3>1 DEF AccountsInv, UniqueNames, Placed
  <2>2. faults' + crashes' = (faults + crashes) + 1
    BY <1>7 DEF Crash, TypeOK
  <2>3. ASSUME NEW p \in Procs PROVE AccountsInv'
    BY <1>4, <1>7, <2>1, <2>2, CrashCharges DEF AccountsInv
  <2>4. CASE Procs = {}
    <3>1. UNCHANGED <<store, containers>>
      BY <1>7 DEF Crash, files, docker
    <3> QED BY <1>6, <2>4, <3>1
  <2> QED BY <2>3, <2>4
<1>8. CASE Sync(Main)
  <2>1. UNCHANGED <<store, containers>>
    BY <1>8 DEF Sync, SyncList, SyncWrite, SyncReload, files, docker
  <2>2. \A q \in Procs : pc'[q] = pc[q] /\ req'[q] = req[q]
    BY <1>8, SyncOthers, ConstantsAssumption DEF Others
  <2> QED BY <1>6, <2>1, <2>2
<1>9. CASE UNCHANGED vars
  BY <1>6, <1>9 DEF vars
<1> QED BY <1>5, <1>7, <1>8, <1>9 DEF Next

LEMMA InitAccounts == ASSUME Init PROVE AccountsInv
<1>1. UniqueNames /\ Stray = {} /\ TypeOK
  BY InitStray, InitType DEF Labelled
<1>2. /\ faults = 0 /\ crashes = 0 /\ \A p \in Procs : pc[p] = "idle"
  BY ConstantsAssumption DEF Init
<1>3. \A p \in Procs : Placed(p)
  BY <1>2 DEF Placed
<1>4. Books({})
  BY <1>1, <1>2 DEF Books, Entered, OnRecord, Stray, Named
<1>5. Totals({}, faults + crashes)
  BY <1>2, FS_EmptySet DEF Totals
<1> QED BY <1>1, <1>3, <1>4, <1>5 DEF AccountsInv

\* One request at a time, of any kind: a failure or a crash leaves behind at most
\* one container that no record names, whatever is deployed, redeployed, rolled
\* back, restarted and deleted before and after it (deploy.go:65-214, 920-1045,
\* handlers.go:741-975).
THEOREM ContainersAreAccounted ==
    ASSUME Serial
    PROVE  Spec => []ContainersAccounted
<1>1. Init => TypeOK /\ AccountsInv
  BY InitType, InitAccounts
<1>2. (TypeOK /\ AccountsInv) /\ [Next]_vars => (TypeOK /\ AccountsInv)'
  BY NextType, NextAccounts
<1>3. TypeOK /\ AccountsInv => ContainersAccounted
  <2> SUFFICES ASSUME TypeOK, AccountsInv, AllIdle
               PROVE  Cardinality(Stray) <= faults + crashes
    BY DEF ContainersAccounted
  <2>1. PICK K : Totals(K, faults + crashes) /\ Books(K)
    BY DEF AccountsInv
  <2>2. \A p \in Procs : \A a, n : ~Held(p, a, n)
    BY DEF AllIdle, Held, Building
  <2>3. \A c \in Stray : /\ c \in containers /\ c.app \in Apps /\ c.name \in Nat
                         /\ ~Entered(c.app, c.name) /\ c \in Named(c.app, c.name)
    BY DEF Stray, Entered, Named, TypeOK, Container
  <2>4. \A c \in Stray : <<c.app, c.name>> \in K
    BY <2>1, <2>2, <2>3 DEF Books
  <2> DEFINE f == [c \in Stray |-> <<c.app, c.name>>]
  <2>5. f \in Injection(Stray, K)
    <3>1. f \in [Stray -> K] /\ DOMAIN f = Stray
      BY <2>4
    <3>2. \A c, d \in Stray : f[c] = f[d] => c = d
      BY DEF AccountsInv, UniqueNames, Stray
    <3> HIDE DEF f
    <3> QED BY <3>1, <3>2 DEF Injection, IsInjective
  <2> HIDE DEF f
  <2>6. IsFiniteSet(Stray) /\ Cardinality(Stray) <= Cardinality(K)
    BY <2>1, <2>5, FS_Injection DEF Totals
  <2>7. /\ faults + crashes \in Nat /\ Cardinality(K) \in Nat /\ Cardinality(Stray) \in Nat
    BY <2>1, <2>6, FS_CardinalityType DEF TypeOK, Totals
  <2> QED BY <2>1, <2>6, <2>7 DEF Totals
<1> QED BY <1>1, <1>2, <1>3, PTL DEF Spec
=============================================================================
