# A TLA+ model of MiniDeploy

MiniDeploy is a small self-hosted deployment platform: a Go service that clones
GitHub repositories, builds Docker images, runs one container (or a frontend and
a backend container) per application on a loopback port, and routes public
hostnames to them with Caddy. Redeployments and rollbacks are meant to be free of
downtime: a candidate is started next to the live container, checked, switched to,
and only then is the old container retired.

This directory holds the TLA+ modules that model that service, the TLC
configurations that check them on small instances, and proofs that TLAPS checks
for every value of the constants. Line numbers refer to `app/` of the repository
unless another directory is given.

## 1. The system

### Components

| Component | Source | State it keeps | Operations |
|---|---|---|---|
| Release lifecycle | `deploy.go`, `rollback.go`, `handlers.go`, `webhook.go` | `deployMu`; the locals of each request | deploy, redeploy, webhook redeploy, rollback, restart, delete |
| Metadata store | `store.go`, `visibility.go` | `deployments.json`, its `.tmp`, a mutex | Save, UpdateGuestVisibility, Get, List, Delete; migration while loading |
| History | `history.go` | `deployment-history.json`, a mutex | Push, Set, List, Clear |
| Runtime environment | `runtime_environment.go` | one secret file per application | Load, Replace, Delete; a change with Commit and Rollback |
| Proxy routes | `proxy.go` | two Caddy route files, what Caddy serves | syncProxyRoutes |
| Containers, ports, health | `docker.go`, `health.go` | Docker's containers and images | run, inspect, rm, restart, image rm; port probe; startup and HTTP checks |
| Startup | `main.go`, `config.go` | none | one synchronization, two HTTP servers |
| Managed databases | `minibase_lifecycle.go`, `minibase_handlers.go`, `database_integration.go`, `minibase_client.go` | attachments in the record and at MiniBase; `databaseAttachmentMu` | attach, detach, stop, start, initial attachment, migration |
| Full-stack projects | `fullstack_*.go` | two containers, two images, a network per release | deploy, redeploy, rollback, restart, delete of the pair |
| Strategy detection | `deployment_strategy.go`, `deployment_config.go`, `repository_files.go` | none | repository to strategy, port, health path, Dockerfile |
| Identity, paths, URLs | `deployment_identity.go`, `deployment_path.go`, `repository_url.go` | none | validation, commit identity |
| Deployment logs | `deployment_logs.go` | one log file per application, a mutex | reset, append, read |
| Observability | `observability.go` | none | status and resource use |
| Access control, routing | `auth.go`, `security.go`, `routes.go` | signing keys | who may call what |
| Guest view | `public.go`, `types.go` | none | visible applications with their status |
| Dashboard | `frontend/src` | React state | list, deploy, actions, optimistic visibility |

### How they interact

A handler reads the application's record from the metadata store with `Get` or
`List`, **before any lock**, and passes that copy on. `deployRepository`,
`safeRedeploy` and `rollbackDeployment` then lock `deployMu` for the whole of the
build, start, check, switch and retire sequence, and none of them reads the record
again. A release under the lock calls, in order: the environment file (`Load`),
git and `docker build`, the port probe, `docker run`, the health checks, the
environment file (`Commit`), `store.Save`, `syncProxyRoutes` (which lists *all*
records, replaces both route files and reloads Caddy), the history, `docker image
rm`, and `docker rm` of the old container. After a failed switch it saves the old
record, synchronizes once more, restores the environment and removes the candidate.

The delete and restart handlers take no lock. `deployHandler` synchronizes the
proxy after `deployRepository` has released the lock. A webhook answers 202 and
redeploys from a goroutine. `main` synchronizes the proxy before it listens. Docker,
Caddy, git and the files live on when the service dies; systemd restarts it.

### What is hard about it

* **Interleaving**: stale records (read before the lock), unlocked deletes,
  restarts and synchronizations, whole-file rewrites.
* **Partial failure**: a release has five stores to keep in step (record,
  environment file, route files, Caddy, Docker) and compensates by hand.
* **Crashes**: nothing is undone; only the routes are repaired at startup.
* **Bounded resources**: ports that are free "now", a history cut at three
  versions while rollbacks exchange its head with the live version.
* **Liveness**: many early returns under a mutex; queued webhooks.

What makes each component correct:

* release lifecycle: only checked releases are saved and served; neither Caddy nor
  the record ever names a container that is gone; a failed change leaves the former
  release in place everywhere; nothing leaks without a bound; every request ends;
* metadata store: atomic operations, no lost update, visibility untouched by
  releases, a whole list after every crash;
* history: bounded, without duplicates, every entry restorable;
* environment: agrees with the names the record lists;
* proxy: at rest serves exactly the records, and no application's traffic reaches
  another one's container;
* databases: record, MiniBase and container agree on the attachment up to what
  failed; a database is let go only when nothing uses it; the two locks never make
  two requests wait for each other;
* full-stack: a release takes away nothing of the pair in use nor of the versions
  in the history, and a failure leaves at most one release behind;
* strategy detection: what is persisted builds what was detected;
* hostnames: well-formed, and one for each application.

The file `PROJECT.json` lists the hazards line by line, with the properties that
cover them.

## 2. Modules

| Module | Content |
|---|---|
| `ReleaseLifecycle` | the requests for single-service applications over store, history, environment, Docker and Caddy |
| `MCReleaseLifecycle` | model values, symmetry of the requests |
| `ReleaseLifecycleProofs` | types, mutual exclusion, only checked releases are routed; the order of a deletion |
| `CutoverProofs` | redeployments, webhooks and rollbacks: routes, records and environments, the refinement of `ZeroDowntime`, the history, what failures leave behind; what a deletion leaves, and the accounting of the containers over requests of every kind |
| `ZeroDowntime` | abstract: what the visitors of a deployed application are promised; `ReleaseLifecycle` implements it |
| `RecordStore` | abstract: a map with atomic operations that succeed once or fail without effect |
| `JSONStore` | `store.go` with lock, load, migration, temporary file, rename, crash; refines `RecordStore` |
| `MCJSONStore` | model values |
| `JSONStoreProofs` | types; no lost update; the visibility; the refinement |
| `DatabaseLifecycle` | MiniBase attachments through attach, detach, release, deploy and delete, with both mutexes |
| `MCDatabaseLifecycle` | model values |
| `DatabaseLifecycleProofs` | types; both mutexes |
| `DatabaseSafetyProofs` | containers and their attachments; detachments and deletions |
| `DatabaseAccountsProofs` | MiniBase and the records, counted against what failed |
| `FullstackRelease` | the releases of a frontend and a backend with their images and their network |
| `MCFullstackRelease` | model values |
| `FullstackReleaseProofs` | types; what a clean-up may take away; what a deletion leaves; how much failures and crashes leave |
| `Strategy` | pure: detection, and the persisted strategy |
| `Hostnames` | pure: the public hostname of a name |
| `Repositories` | composes the two: the life of applications over changing repositories |
| `MCRepositories` | the names and the contents that TLC enumerates |
| `RepositoriesProofs` | types; the persisted strategy rebuilds what was detected; `npm ci` has its lock file; hostnames |


`ReleaseLifecycle`, `DatabaseLifecycle` and `FullstackRelease` are three views of the
same handlers. Each keeps the control of the paths it is about and leaves the data
of the others out; the points at which they meet (record, route, container,
`deployMu`) have the same names in all of them. All three use the metadata store as
what `RecordStore` promises (one step per `Save`, `Get`, `List`, `Delete`);
`JSONStore` shows that the code keeps that promise, so they compose through the
abstract module.

### ReleaseLifecycle

One process per HTTP request (or webhook goroutine), and `Main` for the
synchronization at startup. The program counter `pc[p]` names the next step, and a
step is what the code does between two points at which another request, or a
crash, can make a difference:

| Steps | Code |
|---|---|
| `deployHandler`, `redeployHandler`, ... | the handler up to its call of the release function: the record is read |
| `LockDeploy`, `LockRedeploy`, `LockRollback` | `deployMu.Lock()` and the checks right under it, with the early returns |
| `Build`, `StartOK`, `StartFailed`, `Healthy`, `Unhealthy`, `Cleanup` | the candidate; `Cleanup` is `cleanupCandidate` and its copies |
| `CommitEnvironment`, `SaveRecord`, `RollbackEnvironment` | promotion and its first compensation |
| `SyncList`, `SyncWrite`, `SyncReload`, `AfterSync` | `syncProxyRoutes` and what its caller does with the result |
| `RestoreRecord` | `store.Save(old)` and, through the same three steps, the second synchronization |
| `RecordHistory`, `RetireOld` | history, pruned images, old container |
| `RestartStop`, `RestartUp` | the two halves of `docker restart` |
| `DeleteContainer` ... `DeleteRecord` | `deleteDeploymentHandler`, then `SyncList` ... |
| `Crash` | the service dies and is started again |

Data is abstracted as follows. A release's container is named by the stamp of its
creation (0 for the fixed name of a first deployment) and its image by the stamp of
its build; stamps come from a clock that stands for `time.Now().UnixNano()`. An
environment is a value that stands for its variable names, which is what
`verifyRuntimeEnvironmentMetadata` compares. The history of an application is a set
of versions ordered by the stamp of the release that displaced them. A route is the
record it was generated from. Both route files are one variable, because they are
written from the same list. `verified` is a history variable.

External parts, modelled from how the code uses them: Docker refuses a second
container of one name and the removal of an image in use, frees the ports of a
stopped container, and may leave a created container behind when `docker run` fails;
Caddy keeps its configuration when a reload fails. `containerExists` takes any error
of `docker inspect` for absence, and the model does so too (`RetireOld`,
`DeleteContainer`). When `docker inspect` fails on an image that has just been built,
the code removes the image and gives up (`deploy.go:285-289`, `747-751`); `Build` takes
this for a build that failed, without the image that a second failure would leave.

A command or file operation that may fail does so nondeterministically, at most
`MaxFaults` times; a health check, a build and a port allocation may fail at any time
without counting, because they depend on the deployed code.

`ZeroDowntime` sees of this only which releases run, which passed their checks and
which one the visitors reach: a release is launched, approved, switched to in one
step, and withdrawn only when it is not served. `NoDowntime` is its specification
under the mapping `Visitors`; a `docker restart`, which does interrupt, is not among
the operations of the runs that check it.

### DatabaseLifecycle

An attachment lives in three places: at MiniBase (`attachments`), in the record
(`att`) and in the `DATABASE_URL` a container was started with (`uses`). The requests
are those that can disturb the agreement of the three:

| `kind` | Code | Locks |
|---|---|---|
| `attach` | `attachDatabaseToRunningDeployment`, asked for by MiniBase | `dbMu`; `mu` during the release |
| `reattach` | `attachDatabaseToDetachedDeployment` | `dbMu`, then `mu` |
| `admin` | `attachMiniBaseDatabase` | `dbMu`; `mu` during the release |
| `detach` | `detachDatabaseFromDeployment` | `dbMu`, then `mu` |
| `release` | `safeRedeploy`, `rollbackDeployment` | `mu` |
| `deploy` | `deployRepository` with an initial database | `mu` |
| `delete` | `deleteDeploymentHandler` | none |

`CreateAttachment` may be refused, succeed, or take effect and lose its answer.
`DeleteAttachment` may fail before or after its effect. A compensation runs under
the context of the request, which may have run out (`Expiry`), but for a first
deployment, which makes a context of its own. `Undo`, `Unsave` and `Resave` are the
three ways `attachDatabaseToRunningDeployment` ends after a failed release. What is
inside a release is reduced to `StartOK`/`StartFailed`, `Verify`, `Promote`, `Sync`,
`Restore`, `Cleanup` and `Retire`, one synchronization being one step. The
administrator's `create` mode makes a new database first; it is a member of
`Databases` that no one has attached yet. A container either runs or does not exist:
a restart of a stopped one is in `ReleaseLifecycle`.

### FullstackRelease

One project. A release is identified by the stamp in the names of its network and
containers (`rel`) and the one in the tags of its images (`img`), which differ after
a rollback. `Build`, `CreateNetwork`, `Start`, `Verify`, `Save`, `Sync`, `Restore` and
`RecordHistory` are the parts of `safeRedeployFullstackLocked`,
`rollbackFullstackLocked` and `deployFullstackProject`; `RemoveFrontend`,
`RemoveBackend`, `RemoveNetwork` and `RemoveImages` are `cleanupFullstackRelease`,
which goes on after an error and which every failure path, every retirement and the
deletion share (`target` says of which release, `failed` whether an error was met).
`ListVersions` ... `DeleteRecord` are `deleteFullstackProject`. Docker refuses to
remove a network with running containers and an image that a container was created
from. Two simplifications: `docker network create` either makes the network or leaves
none, and of the two removals in one `RemoveImages` at most one fails (`StraysBounded`
counts the images of a release as one, so a second failure would leave no more).

### Strategy, Hostnames, Repositories

`Strategy` keeps of a repository the attributes the detectors ask for: a file is
absent, usable or bad; a build script is a bare `vite`, a full `vite build`, or
anything else; and so on (the comment of `Package` lists them). A detector fits,
fails, or passes the repository on; `detectDeploymentStrategy` takes the first that
does not pass. `deploymentStrategyForRecord` is the other reading of a repository,
by the strategy that was persisted. Operators return the set of the one plan, or
the empty set for an error.

`Hostnames` has the names as sequences over characters, one of which, `_`, stands for
all that a hostname label cannot have.

`Repositories` deploys, redeploys, rolls back and deletes over these operators: at
each clone a repository may hold anything of `Contents`.

### JSONStore

One process per caller. A call locks, loads (and migrates, if an entry lacks
`guestVisible`), answers or changes the list, writes `deployments.json.tmp`, renames
it, and returns. Each file operation may fail, writing may leave a part of the
temporary file, and a crash may hit any point. The file is a map from applications
to entries: the code keeps one entry per application and no reader depends on the
order.

## 3. Runs

Every run is listed in `PROJECT.json`. Deadlock checking is on everywhere: a system
at rest can always take another request.

| Run | Instance | Question |
|---|---|---|
| `serial_releases` | 1 application, 1 request at a time, redeploy and rollback, 2 environments, history of 2, 6 stamps, 1 failure, 1 crash | Do failures and crashes leave the former release in place, the visitors served, the routes repaired, the history restorable and the leaks bounded? |
| `serial_all` | 1 application, all operations one after the other, history of 1, 4 stamps, 2 failures, 1 crash | Does a deletion leave nothing, images included, when nothing failed? Can an interrupted one be repeated? Does each failure or crash cost at most one container? |
| `race_locked` | 2 concurrent redeployments, webhooks or rollbacks of 1 application, under fairness | Is the lock enough to keep the visitors on running, checked releases, is it held exactly where it should be, and does every request end? |
| `store` | 2 clients, 1 application, 1 failure, 1 crash, every old or new file, under fairness | Is the store atomic, without lost updates, does visibility survive releases, and does every operation return? |
| `db_serial` | 1 application, 1 database, all operations one after the other, 5 stamps, 2 failures, 1 expired context, 1 crash | Do MiniBase, record and container agree, up to what failed? |
| `db_race` | 2 requests on 2 applications that want 1 database, 1 expired context, under fairness | Does a detachment give the database up last whatever else happens, and does every request end? |
| `fullstack` | 1 project, all operations one after the other, history of 2, 3 releases, 2 failures, 1 crash | Is the pair in use safe from every clean-up, and what is left over bounded? |
| `repositories` | one repository that may hold every recognised project and each of them with one attribute changed, names of up to 3 characters, labels of 2 | Does a redeployment build what was detected, is `npm ci` safe, are hostnames well-formed? |

The bounds are the smallest at which the interesting cases occur. Two requests
suffice for a stale record, since a request works on one copy; three ports let two
candidates and a live container coexist; six stamps with a history of two push
entries off its end and let rollbacks exchange its head several times; one failure
reaches every compensation path, and a failure together with a crash reaches every
half-done state the startup finds. In `serial_all` two failures let a deletion pass its
container by after a failed release has left another under a different name. For attachments two failures let a compensation
fail too; one database suffices for two applications to compete for it. For the pair
two failures let the clean-up of a failed release fail, and three releases with a
history of two let a version be retained and rolled back to. A detector looks at few attributes at
a time, so changing one of a recognised project reaches each of its decisions; labels
of two characters let the cut fall on a dash.

What the bounds hide, on purpose: with **two** failures in one request (the switch
fails, and so does putting the old record or the old environment back)
`RecordLive`, `EnvironmentMatches` and `FailureKeepsPrevious` do not hold; the code
only logs the second failure, and an operator must step in. `OnlyUnused` and
`ImagesKept` say so in their premise. A crash between
`Commit` and `Save` leaves the environment file ahead of the record, so
`EnvironmentMatches` and `FailureKeepsPrevious` are stated for a service that has
not crashed. `DeletionComplete` is stated without failures and crashes, because the
deletion only logs that it could not remove an image or the history, and because a
release that fails may leave a container or an image that no record names. What failures
may do to the containers is `ContainersAccounted`. One of them is worth knowing: a
`docker inspect` that fails reads as an absent container (`docker.go:308`), so a deletion
passes the container by, removes the record and answers "deleted" (`handlers.go:822-983`)
while the container runs on and no record names it. `DeletionOrder` leaves that case out
in so many words, and `ContainersAccounted` says that it costs this one container and no
other. The deletion of a full-stack project tells an absent container from a failing
command (`dockerResourceIsMissing`, `fullstack_runtime.go:265-295`).
`NoDanglingUse` is stated without failures and
crashes, because a failing `docker inspect` reads as an absent container.

### Disagreements between the code and what it says

Four runs show TLC reaching a state that a comment, an answer or a document rules
out.

| Run | Violated | What happens |
|---|---|---|
| `stale_restore` | `VersionKeptRunning` | a failed switch restores a record that was read before the lock, and Caddy routes to a removed container |
| `cross_routing` | `NoCrossRouting` | a deletion, which takes no lock, has removed the container and not yet the route; the port probe finds the port free and gives it to another application's candidate, which the first hostname now reaches |
| `db_expired` | `FailedAttachUndone` | the compensation of a failed attachment runs under a context that started before the build; when it has run out, the attachment stays, and asking again is refused |
| `shared_hostname` | `HostReachesApp` | two names that differ only in characters a hostname cannot have are both "live" under one hostname |

The port of `cross_routing` may also be one that a `docker restart` frees for a moment,
and a restart that fails leaves it free for good while Caddy still routes to it.
`NoCrossRouting` is therefore a promise of the requests under `deployMu` alone, and a
theorem says so (section 4).

More limits of the same kind as the first (a record read before the lock, operations
that take none) follow from the modules when their bounds are widened. They are
known and no run repeats them:

* two redeployments that read the same record retire the same container, and the
  one between them stays (`LeaksBounded` with two concurrent requests);
* a rollback with a stale record writes a history that lists a pruned image
  (`HistoryRestorable` with two concurrent requests);
* the unlocked synchronization of a first deployment, or of a deletion, puts back
  routes of another application that were current a moment ago (`RouteLive` with
  `deploy` or `delete`, and `redeploy`, on two applications);
* a redeployment in the middle of a deletion leaves the environment file or a
  container behind (`DeletionComplete` with two concurrent requests);
* an attachment to a running deployment saves a record read under
  `databaseAttachmentMu` only, over that of a release which finished meanwhile
  (`ContainerBound` and `AttachmentsAccounted` with two concurrent requests).

### Fairness

In `ReleaseLifecycle`, `Work` and the steps of a synchronization are weakly fair: a
handler that runs is scheduled again, and every external command has an end
(`docker`, `git` and `caddy` return; the health checks have deadlines). `Lock` is
strongly fair, because `sync.Mutex` hands itself to a waiter that has waited for more
than a millisecond. `DatabaseLifecycle` states the same for its two mutexes; MiniBase
calls have deadlines. In `JSONStore` the steps are weakly fair and taking its mutex
strongly. Arrivals and crashes are not fair.

## 4. Proofs

`tlapm` proves, in the modules that end in `Proofs`, for any sets of applications,
requests, ports, environments, databases and repository contents and any bounds:

* `TypeCorrect`: `TypeOK` of `ReleaseLifecycle`. It is inductive as it stands because
  it says, besides the types, which locals a request at a given step has
  (`RequestOK`): without that the record a step saves could be `None`. The proof
  splits it in a data part and a control part, one step per action each.
* `MutualExclusion`: `MutexHeld`, an equivalence between holding `deployMu` and being
  in a critical section, inductive together with `TypeOK`; the proof follows how a step
  moves one process and leaves the others.
* `VerifiedRouting`: `OnlyVerifiedRouted`. For the stores alone it is not inductive:
  it also speaks of the snapshots of all synchronizations, of the candidates that
  wait to be saved, and of the old records that requests keep to put back
  (`Promoted`). `verified` only grows, and everything that is ever stored is copied
  from one of these.
* `DeletionsInOrder`: `DeletionOrder` of `ReleaseLifecycle`, for requests of every kind,
  one at a time, whatever fails and crashes. It needs only what a deletion has done by
  its step (`Deleted`) and that no other step takes a record away (`RecordsGo`).
* `DeletionsAreComplete` (in `CutoverProofs`): `DeletionComplete`, for requests of every
  kind, one at a time; its premise is that nothing has failed or crashed. A deletion removes only
  the container that its record names, the images of the history and the record's, and
  nothing of a failed release, so the theorem needs what *every* request leaves behind.
  `CleanInv` (`CleanInvariant`, `NothingLeft`) says that each container is the recorded one (`OfRecord`) or that of the request at work
  (`Handles`: a candidate, or an old container that waits to be retired), that an
  application without a record has no history and no environment, except a first
  deployment's between Commit and Save (`Vacant`), that Caddy serves the records except
  during a synchronization (`Routed`), and which record a request knows at each step
  (`Untroubled`). `ImagesInv` says of each image that a record or a history entry names
  it, or that the request at work will remove or record it; that a version which falls
  off the history is in nobody's use, so that `docker image rm` works; and how far a
  deletion has got. Two hypotheses are about the code. The history keeps a version
  (`MaxPrevious > 0`; the code says 3): else the image of the displaced release is looked
  at while its container still runs. And there are at least as many ports as
  applications (`EnoughPorts`; the code has 919 ports): a first deployment that finds no
  free port leaves the image it has built (`deploy.go:291-298`), which no record will
  ever name.
* `ContainersAreAccounted` (in `CutoverProofs`): `ContainersAccounted`, for requests of
  every kind, one at a time, whatever fails and crashes. The number of stray containers is
  not inductive: a container that is in a request's hands is stray for a while without any
  failure. `AccountsInv` keeps a ledger instead, a set of names with at most a line for
  each failure and crash (`Totals`), and says that every container is in the ledger, named
  by a record (`Entered`), or held by the request at work (`Held`), which will record or
  remove it (`Books`). A deletion that is past its container no longer counts its record
  (`OnRecord`), so the line is written by the step at which `docker inspect` fails and not
  when the record goes, which no failure accompanies. A step either leaves everything
  owned or fails and writes one line (`Charges`, `Paid`); a crash writes the line of
  whatever the request held. `Placed` says what the store holds of the application at each
  step, and names are unique (`UniqueNames`), so that a line is one container.
* The other theorems of `CutoverProofs` are about redeployments, webhooks and rollbacks:
  `Operations` is a subset of these. First deployments, restarts and deletions take no lock, or act
  outside it, and the runs that expect a violation show what that does. Two more
  hypotheses are part of its statements. `Undisturbed` says that nothing has failed
  yet, or that requests come one at a time (`Serial`) and one command failed: a second
  failure may hit the undoing of the first, and a request that waited for the lock
  undoes its failure with a record that is no longer the live one. Crashes are not
  restricted. The invariant `CutInv` says of the world that names and ports are
  distinct, that what the store, the routes and the route file name runs, and of each
  request what it has achieved by its step (`Progress`): its candidate is numbered
  above anything recorded, `Hidden` before it is saved, running from its start,
  recorded from `Save`, served when the old container is removed. As at most one
  request is past `Lock`, only what a waiting request has read needs a bound (`Known`).
  From it follow
  `RoutesAreLive`, `RecordsAreLive`, `RoutesDoNotCross` (what is routed runs, so its port
  is never spare: under `deployMu` alone, see `cross_routing`), `EnvironmentsMatch` (the
  environment file leads the record only between Commit and Save), `RoutesAreRecorded`
  (at rest, faults 0), and two results about steps: `FailureRestores`, for
  `FailureKeepsPrevious`, and `NoDowntimeRefined`: every step of the lifecycle is a
  step of `ZeroDowntime` or leaves its variables alone, when `MaxFaults` is 0, or at
  most 1 with requests one at a time.
* `HistoriesAreBounded` and `HistoriesAreRestorable`, in the same module:
  `HistoryBounded` for requests of any kind with any failures and crashes, one at a
  time, and `HistoryRestorable` for redeployments and rollbacks one at a time through
  one failure. `HistoryInv` says that the live release is listed at most as the newest
  entry (`Offered`): that is how the list looks after a rollback whose `Set` failed,
  and the next `Push` drops the entry while the next rollback takes it. Its second
  part, `Remembering`, is what a request knows of the list it will write. Without the
  first part no bound is inductive: a duplicate could come from any earlier failure.
* `LeaksAreBounded`: `LeaksBounded`, for redeployments, webhooks, rollbacks and restarts
  one at a time, with any failures and crashes, when the history keeps at least one
  version (the code says 3). The invariant `LeakInv` keeps two ledgers, sets `K` of
  containers and `L` of images with at most one line each for every failure and every
  crash (`Lines`). Whatever nothing names is on the ledgers or in the hands of the
  request at work (`Holds`, `HoldsImage`); each step either removes what it lets go
  of, or fails and writes it down (`Balanced`); a crash finds the hands of one release
  full (`InHand`). The image of a stray container is written down with it, because
  Docker refuses to remove an image in use when its version falls off the history. At
  most one version falls off (`PrunedOnce`). It rests on `HistoryInv`.
* `DatabaseTypeCorrect`: `TypeOK` of `DatabaseLifecycle`, in the same two parts. Its
  control part, `StepOfKind`, says which steps a request of each kind takes, which the
  shared steps (`start`, `sync`, `stop`, ...) need.
* `DatabaseLocks`: `LocksHeld`, for both mutexes at once. Whether a step lies between
  Lock and Unlock depends on the kind: `attach` is at `start` with both, a release
  with one, and after a failure `attach` undoes with `dbMu` alone while a first
  deployment and a reattachment still hold `mu`. It rests on `StepOfKind`. That no
  request holds `mu` while it waits for `dbMu` is a consequence: at `lock_db` neither
  section has been entered.
* `ReleasedLast`: `DetachReleasesLast`, for any number of requests. Its invariant
  `PageInv` follows a detachment: marked, served as the page, its container gone. That
  a detachment finds its own marks is `LocksHeld`: whoever writes a record holds one of
  its two mutexes, except a deletion. So the theorem asks that no deletion runs beside
  it (`Exclusive`).
* `LiveContainerBound`, `NoContainerOutlives` and `DetachmentComplete`: `ContainerBound`,
  `NoDanglingUse` and `DetachComplete`, for one request at a time. A record that was read
  outside the locks is the record until the request is done (`Known` in `BoundInv`);
  `OwnInv` lists by step which containers of the application may run and which of them
  may connect by the attachment that is about to go.
* `DeletedDetached`: `DeletionDetaches`, for one request at a time, whatever fails or
  crashes. With two it does not hold: a deletion takes no lock, and an attachment in its
  middle saves a record whose attachment the deletion has not seen.
* `AttachmentsBalance`: `AttachmentsAccounted`, for one request at a time, finitely many
  applications, and any number of failures, expired contexts and crashes. Orphans and
  dangling records are counted without the attachment and the application at work
  (`Besides`). Each step may add at most what it has paid for: one while a new
  attachment is in no record (`Fresh`), one while the record still names the attachment
  that is gone (`Gone`), and none while a switch is taken back, because the failure that
  made it necessary has paid (`Paid`). The sum alone is not inductive.
* `FullstackTypeCorrect`: `TypeOK` of `FullstackRelease`. Builds, rollbacks and
  deletions enter the same clean-up and the same synchronization and leave them by
  kind, so the invariant `Local` says which kinds may be at which step and which of
  the old record, the candidate and the target they have by then.
* `OnlyUnusedRemoved`, `ImagesAreKept` and `DeletionIsComplete`: `OnlyUnused`,
  `ImagesKept` and `DeletionComplete` of `FullstackRelease`, for one request at a time.
  `PairInv` says what a release knows of its candidate: its stamp is above everything
  stored, served or offered, but its image, after a rollback, is the one of the newest
  history entry. So an image may have two names, the record's and an entry's, only
  while that entry is the newest (`Offered`), which is the one the next release
  replaces. `Switch` tells by step which of the old record and the candidate the store
  and Caddy hold, up to a switch and an undoing that both failed. `CompleteInv` adds,
  while nothing failed, who owns each container, network and image; the image of a
  version that falls off the history is then in nobody's use, so that its removal
  works. It needs a history that keeps a version (`MaxPrevious > 0`; the code says 3):
  else the retired image is looked at while its containers still run.
* `StraysAreBounded`: `StraysBounded` of `FullstackRelease`, for one request at a time.
  Counting what is there at rest is not inductive, since in the middle of a release
  there is a whole pair that nothing names. `LedgerInv` keeps a ledger instead: the
  releases and images that a failure or a crash has been charged for, by number, and
  the containers. The request holds the one number that it builds, switches away from
  or removes (`Holds`, `HoldsImage`); whatever is neither recorded, retained nor held is
  in the ledger (`Covered`), what a clean-up has passed by is charged already (`Swept`),
  and the ledger is never longer than the failures and crashes (`Balanced`), one shorter
  while a failed switch is undone (`Spare`): its failure pays for the pair that a second
  one leaves. A release and its images share a number and so an entry: images count as
  strays only where no container or network of theirs does. The containers need `StandInv`: a candidate is built in order and stands until
  it is given up, the containers of a record were created from its images, and no name
  has two.
* `RedeployReproduces` and `LockFilePresent`: `Reproducible` and `LockedInstalls` of
  `Repositories`. Every plan that was ever built fits its checkout in one of four
  ways (`Planned`): detected plans do (`DetectedPlanned`), plans of the persisted
  strategy do (`PersistedPlanned`), and what fits is rebuilt from its metadata
  (`PlanRebuilt`). The invariant `AllPlanned` says so of all versions, those kept for
  a rollback included, because a rollback takes up an earlier version as it was.
* `HostnamesArePublic`: `PublicHostnames` of `Repositories`, for names of any length and
  any `MaxLabel`. The label is a fold over the characters of the name. The lemmas show
  first that a function with the fold's defining equation exists (`FoldExists`), then
  that the fold goes through the name from left to right (`FoldSteps`), and then, by
  induction on the characters read, what the label is made of (`SpelledLabel`).
  Induction (`Inductive`) is the well-foundedness of `<` applied to a set of numbers,
  as are the least and the greatest position that trimming asks for. The theorem
  takes names to be sequences of characters.
* `WellTyped` of `RepositoriesProofs` and of `JSONStoreProofs`: `TypeOK` of
  `Repositories`, where detection yields only ports in their range and roots that exist,
  and of `JSONStore`. `VisibilityPreserved`: `VisibilityKept`, from `NoLostUpdate`.
* `NothingLost`: `TypeOK /\ NoLostUpdate` of the store. It relates the buffer of the
  one operation that holds the lock to the present file, and the temporary file to
  that buffer.
* `StoreRefines`: every step of `JSONStore` is a step of `RecordStore` or leaves its
  variables alone, with the records mapped to the migrated list. A rename is the
  effect of `Save`, `Delete` or `UpdateGuestVisibility`, by `NoLostUpdate`; the
  rename of a migration changes nothing, as migrating is idempotent.

They assume the `ConstantsAssumption` of `ReleaseLifecycle`, `DatabaseLifecycle` and
`FullstackRelease`, their `NoneAssumption`s, `StoreAssumption`, and
`ContentsAssumption` with `BoundsAssumption` of `Repositories`: the sentinels differ
from the values (a nil pointer is no record, no attachment and no stamp; in
`Repositories` this is the hypothesis `NoneIsNoVersion` of `WellTyped`), ports are
numbers in their range, contents are repositories, bounds are natural numbers.
Hypotheses of single theorems (`Serial`, `Undisturbed`, `Exclusive`,
`Operations \subseteq Cutovers`, `AppsFinite`, `EnoughPorts`, `MaxPrevious > 0`) are
above, with what happens outside them. `Serial` is satisfied by every run with one
request. Nothing in the service enforces it: an administrator can wait for an answer
before asking again, but a signed GitHub webhook comes when somebody pushes, and its
redeployment may overlap anything. What is proved under `Serial` is thus about a service
in which no push arrives during another request. All type invariants, `MutualExclusion`,
`VerifiedRouting`, `DatabaseLocks`, `ReleasedLast` without deletions, the theorems of the
store, and, as long as no command fails, `RoutesAreLive`, `RecordsAreLive`,
`RoutesDoNotCross`, `EnvironmentsMatch`, `RoutesAreRecorded` and `NoDowntimeRefined` need
no such condition.

Only model-checked: everything under fairness (the prover handles neither liveness under
fairness nor `ENABLED`). Every other property of a passing run is stated by a theorem. No
module here declares a `RECURSIVE` operator.

## 5. Not modelled, and the plan

Not modelled: the source directories of applications, the temporary files of
environments and routes, wording, logs, validation of strings; power loss (the store
does not `fsync`); more than one service process. Access control, the guest view,
observability and the deployment logs are stateless reads, middleware or text; the
dashboard and the public pages run in the browser and keep nothing the service
depends on. Concurrent requests of one full-stack project share the races of
`ReleaseLifecycle`, whose handlers they are, and `FullstackRelease` is checked with one
request at a time.

What could follow: `HistoryStore` and `EnvironmentFile`, the two file protocols shown
to implement what `ReleaseLifecycle` uses; `Dashboard`, optimistic visibility with its
revert and overtaking refreshes.
