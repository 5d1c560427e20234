-------------------------- MODULE DatabaseLifecycle --------------------------
(***************************************************************************)
(* Managed databases: how MiniDeploy attaches a MiniBase database to an    *)
(* application, keeps it attached through releases, and lets it go.  Three *)
(* parties keep the attachment: MiniBase, the record in deployments.json,  *)
(* and the DATABASE_URL a container was started with.                      *)
(*                                                                         *)
(* Two mutexes protect it: databaseAttachmentMu (dbMu) and, inside it,     *)
(* deployMu (mu).  A first deployment with a database takes deployMu only. *)
(*                                                                         *)
(* Ports, images, environment files and the history are in                 *)
(* ReleaseLifecycle, and so are the interleavings inside a synchronization *)
(* of the proxy, which is one step here.                                   *)
(***************************************************************************)
EXTENDS Integers, FiniteSets

CONSTANTS
    Apps,         \* application names
    Procs,        \* concurrent requests
    Main,         \* the goroutine of main(): the synchronization at startup
    Databases,    \* MiniBase databases, all of them ready
    None,         \* no record, no route, no attachment
    Operations,   \* the kinds of requests clients send
    Deployed,     \* applications that are live in the initial state
    MaxStamps,    \* bound on container names and attachment ids handed out
    MaxFaults,    \* bound on failing commands, file operations and calls
    MaxExpiries,  \* bound on the request contexts that run out
    MaxCrashes    \* bound on the crashes of the service

\* attach and reattach are asked for by MiniBase, admin by the administrator;
\* a release is a redeployment, a webhook or a rollback.
Kinds == {"attach", "reattach", "admin", "detach", "release", "deploy", "delete"}

ASSUME ConstantsAssumption ==
    /\ Main \notin Procs /\ None \notin Procs \cup Apps
    /\ Operations \subseteq Kinds
    /\ Deployed \subseteq Apps
    /\ MaxStamps \in Nat /\ MaxFaults \in Nat
    /\ MaxExpiries \in Nat /\ MaxCrashes \in Nat

VARIABLES
    store,        \* deployments.json: application -> record or None
    attachments,  \* the attachments MiniBase keeps
    containers,   \* running containers and the attachment each connects by
    routes,       \* what Caddy serves: application -> record or None
    mu,           \* deployMu: the process that holds it, or None
    dbMu,         \* databaseAttachmentMu: the process that holds it, or None
    pc,           \* next step of each process
    req,          \* local variables of each process
    clock,        \* the latest stamp
    faults, expiries, crashes

locks  == <<mu, dbMu>>
bounds == <<faults, expiries, crashes>>
vars   == <<store, attachments, containers, routes, locks, pc, req, clock, bounds>>

(***************************************************************************)
(* name is the stamp in the container's name, 0 for the fixed name of a    *)
(* first deployment.  An attachment ties one database to one application.  *)
(***************************************************************************)
Attachment == [id : Nat, db : Databases, app : Apps]
Link       == Attachment \cup {None}
Record     == [name : Nat, att : Link, detached : BOOLEAN]
Container  == [app : Apps, name : Nat, uses : Link]
Routes     == [Apps -> Record \cup {None}]

ASSUME NoneAssumption == None \notin Record \cup Attachment

Threads == Procs \cup {Main}

\* Steps taken inside databaseAttachmentMu, inside deployMu, and the steps
\* that an attachment takes between the two.
Compensating == {"undo", "unsave", "resave"}
Candidacy    == {"start", "verify", "cleanup", "promote", "sync", "restore", "retire"}
Detaching    == {"mark", "stop", "release_att", "clear"}
Steps == {"idle", "lock_db", "lock", "create", "save_att", "rm_record"}
             \cup Compensating \cup Candidacy \cup Detaching

NoRequest == [kind |-> "none", app |-> None, ask |-> None, old |-> None,
              orig |-> None, cand |-> None, att |-> None,
              saved |-> FALSE, restoring |-> FALSE]

Request == [kind : Kinds \cup {"none", "boot"}, app : Apps \cup {None},
            ask : Link, old : Record \cup {None}, orig : Record \cup {None},
            cand : Record \cup {None}, att : Link,
            saved : BOOLEAN, restoring : BOOLEAN]

Init ==
    /\ store = [a \in Apps |-> IF a \in Deployed
                  THEN [name |-> 0, att |-> None, detached |-> FALSE] ELSE None]
    /\ attachments = {}
    /\ containers = [app : Deployed, name : {0}, uses : {None}]
    /\ routes = store
    /\ mu = None /\ dbMu = None
    /\ pc = [t \in Threads |-> IF t = Main THEN "sync" ELSE "idle"]
    /\ req = [t \in Threads |-> IF t = Main THEN [NoRequest EXCEPT !.kind = "boot"]
                                            ELSE NoRequest]
    /\ clock = 0 /\ faults = 0 /\ expiries = 0 /\ crashes = 0

-----------------------------------------------------------------------------
(***************************************************************************)
(* Shared pieces.                                                          *)
(***************************************************************************)
Fault   == faults < MaxFaults /\ faults' = faults + 1 /\ UNCHANGED <<expiries, crashes>>
NoFault == UNCHANGED bounds

Expiry == expiries < MaxExpiries /\ expiries' = expiries + 1 /\ UNCHANGED <<faults, crashes>>

Goto(t, s) == pc' = [pc EXCEPT ![t] = s]
Go(t, s)   == Goto(t, s) /\ UNCHANGED <<req, locks>>
Set(p, r)  == req' = [req EXCEPT ![p] = r]

\* The handler returns; its deferred Unlocks run.
Finish(t) ==
    /\ Goto(t, "idle")
    /\ Set(t, NoRequest)
    /\ mu' = IF mu = t THEN None ELSE mu
    /\ dbMu' = IF dbMu = t THEN None ELSE dbMu

Named(a, name)  == {c \in containers : c.app = a /\ c.name = name}
Save(a, r)      == store' = [store EXCEPT ![a] = r]
Free(db)        == \A t \in attachments : t.db # db

\* Runs safeRedeploy inside the attachment; a release runs it on its own.
Attaches == {"attach", "admin"}
Cutovers == Attaches \cup {"release"}

-----------------------------------------------------------------------------
(***************************************************************************)
(* Requests arrive.  ask is the attachment MiniBase names in a detachment. *)
(***************************************************************************)
Begin(p, kind, a, old, ask, first) ==
    /\ pc[Main] = "idle" /\ pc[p] = "idle"
    /\ kind \in Operations
    /\ Goto(p, first)
    /\ Set(p, [NoRequest EXCEPT !.kind = kind, !.app = a, !.old = old, !.ask = ask])
    /\ UNCHANGED <<store, attachments, containers, routes, locks, clock, bounds>>

\* attachDatabaseToDeployment picks the procedure from a record it reads
\* before any lock.
miniBaseLifecycleAttachHandler(p) == \E a \in Apps :
    /\ store[a] # None
    /\ Begin(p, IF store[a].detached THEN "reattach" ELSE "attach",
             a, None, None, "lock_db")

miniBaseLifecycleDetachHandler(p) == \E a \in Apps :
    /\ store[a] # None
    /\ \E ask \in {t \in attachments : t.app = a} \cup ({store[a].att} \ {None}) :
         Begin(p, "detach", a, None, ask, "lock_db")

databaseAttachmentHandler(p) == \E a \in Apps :
    store[a] # None /\ Begin(p, "admin", a, None, None, "lock_db")

\* redeploy, webhook and rollback: safeRedeploy and rollbackDeployment look at
\* DatabaseDetached, of the copy they are given, before they take deployMu.
releaseHandler(p) == \E a \in Apps :
    /\ store[a] # None /\ ~store[a].detached
    /\ Begin(p, "release", a, store[a], None, "lock")

deployHandler(p) == \E a \in Apps :
    store[a] = None /\ Begin(p, "deploy", a, None, None, "lock")

deleteDeploymentHandler(p) == \E a \in Apps :
    store[a] # None /\ Begin(p, "delete", a, store[a], None, "stop")

-----------------------------------------------------------------------------
(***************************************************************************)
(* The locks, and what is read and refused right under them.               *)
(***************************************************************************)
\* attachDatabaseToRunningDeployment and attachMiniBaseDatabase.
Attachable(a) ==
    /\ store[a] # None /\ ~store[a].detached /\ store[a].att = None

Running(a) == store[a] # None /\ Named(a, store[a].name) # {}

LockDatabase(p) == LET a == req[p].app IN
    /\ pc[p] = "lock_db" /\ dbMu = None
    /\ IF req[p].kind \in Attaches
       THEN IF Attachable(a) /\ (req[p].kind = "attach" => Running(a))
            THEN /\ dbMu' = p /\ UNCHANGED mu
                 /\ Set(p, [req[p] EXCEPT !.old = store[a], !.orig = store[a]])
                 /\ Goto(p, "create")
            ELSE Finish(p)
       ELSE dbMu' = p /\ Goto(p, "lock") /\ UNCHANGED <<mu, req>>
    /\ UNCHANGED <<store, attachments, containers, routes, clock, bounds>>

\* Mutant: a first deployment takes databaseAttachmentMu inside deployMu.
DeployTakesBoth(p) ==
    /\ pc[p] = "lock" /\ mu \in {None, p} /\ req[p].kind \in Cutovers \cup {"deploy"}
    /\ mu' = p
    /\ Goto(p, IF req[p].kind # "deploy" THEN "start"
               ELSE IF dbMu = p THEN "create" ELSE "lock_db")
    /\ UNCHANGED <<store, attachments, containers, routes, dbMu, req, clock, bounds>>

\* safeRedeploy and rollbackDeployment read nothing again; deployRepository has
\* nothing to read.
LockRelease(p) ==
    /\ pc[p] = "lock" /\ mu = None /\ req[p].kind \in Cutovers \cup {"deploy"}
    /\ mu' = p
    /\ Goto(p, IF req[p].kind = "deploy" THEN "create" ELSE "start")
    /\ UNCHANGED <<store, attachments, containers, routes, dbMu, req, clock, bounds>>

\* attachDatabaseToDetachedDeployment.
LockReattach(p) == LET a == req[p].app IN
    /\ pc[p] = "lock" /\ mu = None /\ req[p].kind = "reattach"
    /\ IF store[a] # None /\ store[a].detached /\ store[a].att = None
       THEN /\ mu' = p /\ UNCHANGED dbMu
            /\ Set(p, [req[p] EXCEPT !.old = store[a]])
            /\ Goto(p, "create")
       ELSE Finish(p)
    /\ UNCHANGED <<store, attachments, containers, routes, clock, bounds>>

\* detachDatabaseFromDeployment: the route is left alone when the record is
\* marked already, by a detachment that did not come to its end.
LockDetach(p) == LET a == req[p].app IN
    /\ pc[p] = "lock" /\ mu = None /\ req[p].kind = "detach"
    /\ IF store[a] # None /\ store[a].att = req[p].ask
       THEN /\ mu' = p /\ UNCHANGED dbMu
            /\ Set(p, [req[p] EXCEPT !.old = store[a]])
            /\ Goto(p, IF store[a].detached THEN "stop" ELSE "mark")
       ELSE Finish(p)
    /\ UNCHANGED <<store, attachments, containers, routes, clock, bounds>>

-----------------------------------------------------------------------------
(***************************************************************************)
(* MiniBase calls.  CreateAttachment may be refused, or take effect and    *)
(* lose its answer; DeleteAttachment may fail before or after its effect,  *)
(* and a missing attachment is a success.                                  *)
(***************************************************************************)
CreateAttachment(p) == \E d \in Databases : LET t == [id |-> clock + 1, db |-> d, app |-> req[p].app] IN
    /\ pc[p] = "create"
    /\ \/ Finish(p) /\ NoFault /\ UNCHANGED <<attachments, clock>>
       \/ /\ Free(d) /\ clock < MaxStamps
          /\ clock' = clock + 1
          /\ attachments' = attachments \cup {t}
          /\ \/ /\ Set(p, [req[p] EXCEPT !.att = t])
                /\ Goto(p, IF req[p].kind \in Attaches THEN "save_att" ELSE "start")
                /\ NoFault /\ UNCHANGED locks
             \/ Finish(p) /\ Fault
    /\ UNCHANGED <<store, containers, routes>>

\* The record gains the attachment under databaseAttachmentMu alone: it is the
\* record read at LockDatabase, whatever a release has saved since.
SaveAttachment(p) == LET latest == [req[p].old EXCEPT !.att = req[p].att] IN
    /\ pc[p] = "save_att"
    /\ \/ /\ Save(req[p].app, latest) /\ NoFault
          /\ Goto(p, "lock") /\ Set(p, [req[p] EXCEPT !.old = latest, !.saved = TRUE])
       \/ /\ Fault /\ UNCHANGED store
          /\ Goto(p, "undo") /\ Set(p, [req[p] EXCEPT !.old = latest])
    /\ UNCHANGED <<attachments, containers, routes, locks, clock>>

\* The compensation: DeleteAttachment of the attachment just created.  Its
\* context has been running since before the release was built, except for a
\* first deployment.  attachDatabaseToRunningDeployment then puts the record in
\* line with MiniBase; the others ignore the error.
Undo(p) ==
    /\ pc[p] = "undo"
    /\ \/ /\ attachments' = attachments \ {req[p].att} /\ NoFault
          /\ IF req[p].kind = "attach" /\ req[p].saved THEN Go(p, "unsave") ELSE Finish(p)
       \/ /\ \/ Fault /\ attachments' \in {attachments, attachments \ {req[p].att}}
             \/ req[p].kind # "deploy" /\ Expiry /\ UNCHANGED attachments
          /\ IF req[p].kind = "attach" THEN Go(p, "resave") ELSE Finish(p)
    /\ UNCHANGED <<store, containers, routes, clock>>

\* store.Save(original) and store.Save(latest), both under databaseAttachmentMu
\* alone.
PutBack(p, step, r) ==
    /\ pc[p] = step
    /\ \/ Save(req[p].app, r) /\ NoFault
       \/ Fault /\ UNCHANGED store
    /\ Finish(p)
    /\ UNCHANGED <<attachments, containers, routes, clock>>

Unsave(p) == PutBack(p, "unsave", req[p].orig)
Resave(p) == PutBack(p, "resave", req[p].old)

-----------------------------------------------------------------------------
(***************************************************************************)
(* A release: safeRedeploy and rollbackDeployment, deployRepository, and   *)
(* the restart of a reattachment.                                          *)
(***************************************************************************)
\* Mutant: an attachment compensates with deployMu still held.
CompensateLocked(p) ==
    IF req[p].kind \in {"release", "admin"} THEN Finish(p)
    ELSE Goto(p, "undo") /\ UNCHANGED <<mu, dbMu, req>>

\* Mutant: a failed candidate leaves its attachment.
NoCompensation(p) == Finish(p)

\* What follows a failed candidate: the compensation, where an attachment was
\* created for it.  safeRedeploy has released deployMu by then.
AfterFailure(p) ==
    IF req[p].kind \in {"release", "admin"} THEN Finish(p)
    ELSE /\ Goto(p, "undo")
         /\ mu' = IF req[p].kind = "attach" THEN None ELSE mu
         /\ UNCHANGED <<dbMu, req>>

\* The candidate keeps the attachment of the record it was copied from.
CandidateName(p) ==
    CASE req[p].kind = "deploy"   -> 0
      [] req[p].kind = "reattach" -> req[p].old.name
      [] OTHER                    -> clock + 1

CandidateRecord(p) ==
    [name |-> CandidateName(p), detached |-> FALSE,
     att |-> IF req[p].kind \in Cutovers THEN req[p].old.att ELSE req[p].att]

\* Mutant: the candidate's record is not kept.
StartForgotten(p) == LET cand == CandidateRecord(p) IN
    /\ pc[p] = "start"
    /\ Named(req[p].app, cand.name) = {} /\ clock < MaxStamps
    /\ clock' = clock + 1
    /\ containers' = containers \cup
           {[app |-> req[p].app, name |-> cand.name, uses |-> cand.att]}
    /\ Goto(p, "verify")
    /\ UNCHANGED <<store, attachments, routes, req, locks, bounds>>

\* ResolveBinding asks MiniBase for the attachment of the record, the migration
\* runs, the container is created on the data network and started.
StartOK(p) == LET cand == CandidateRecord(p) IN
    /\ pc[p] = "start"
    /\ cand.att \in attachments \cup {None}
    /\ Named(req[p].app, cand.name) = {}
    /\ req[p].kind \in Cutovers => clock < MaxStamps
    /\ clock' = IF req[p].kind \in Cutovers THEN clock + 1 ELSE clock
    /\ containers' = containers \cup
           {[app |-> req[p].app, name |-> cand.name, uses |-> cand.att]}
    /\ Set(p, [req[p] EXCEPT !.cand = cand])
    /\ Goto(p, "verify")
    /\ UNCHANGED <<store, attachments, routes, locks, bounds>>

\* The build, the binding, the migration or docker run fails.
StartFailed(p) ==
    /\ pc[p] = "start"
    /\ AfterFailure(p)
    /\ UNCHANGED <<store, attachments, containers, routes, clock, bounds>>

Verify(p) ==
    /\ pc[p] = "verify"
    /\ Go(p, "promote") \/ Go(p, "cleanup")
    /\ UNCHANGED <<store, attachments, containers, routes, clock, bounds>>

\* docker rm -f of the candidate; the error is ignored.
Cleanup(p) ==
    /\ pc[p] = "cleanup"
    /\ \/ containers' = containers \ Named(req[p].app, req[p].cand.name) /\ NoFault
       \/ Fault /\ UNCHANGED containers
    /\ AfterFailure(p)
    /\ UNCHANGED <<store, attachments, routes, clock>>

\* Mutant: the record of the started release lacks the new attachment.
PromoteForgets(p) ==
    /\ pc[p] = "promote"
    /\ Save(req[p].app, [req[p].cand EXCEPT !.att =
                            IF req[p].kind = "reattach" THEN None ELSE @])
    /\ Go(p, "sync") /\ NoFault
    /\ UNCHANGED <<attachments, containers, routes, clock>>

Promote(p) ==
    /\ pc[p] = "promote"
    /\ \/ Save(req[p].app, req[p].cand) /\ Go(p, "sync") /\ NoFault
       \/ Fault /\ Go(p, "cleanup") /\ UNCHANGED store
    /\ UNCHANGED <<attachments, containers, routes, clock>>

\* syncProxyRoutes.  What follows depends on the handler, and on whether this
\* is its second synchronization, whose result is only logged.
AfterSync(t, ok) == LET kind == req[t].kind IN
    IF kind \in Cutovers \cup {"reattach", "deploy", "detach"}
    THEN CASE req[t].restoring /\ kind # "detach"   -> Go(t, "cleanup")
           [] req[t].restoring /\ kind = "detach"   -> Finish(t)
           [] ~req[t].restoring /\ ~ok              -> Go(t, "restore")
           [] ~req[t].restoring /\ ok ->
                CASE kind \in Cutovers -> Go(t, "retire")
                  [] kind = "detach"   -> Go(t, "stop")
                  [] OTHER             -> Finish(t)
    ELSE Finish(t)

Sync(t) ==
    /\ pc[t] = "sync"
    /\ \/ routes' = store /\ NoFault /\ AfterSync(t, TRUE)
       \/ Fault /\ UNCHANGED routes /\ AfterSync(t, FALSE)
    /\ UNCHANGED <<store, attachments, containers, clock>>

\* The switch failed.  safeRedeploy saves the record it was given and, if that
\* worked, synchronizes again; a reattachment and a detachment save the record
\* they read and synchronize in any case; deployRepository deletes its record,
\* and gives everything up, the attachment included, when that fails.
Restore(p) == LET a == req[p].app
                  Again == /\ Goto(p, "sync") /\ UNCHANGED locks
                           /\ Set(p, [req[p] EXCEPT !.restoring = TRUE]) IN
    /\ pc[p] = "restore"
    /\ IF req[p].kind = "deploy"
       THEN \/ store[a] # None /\ Save(a, None) /\ NoFault /\ Again
            \/ store[a] = None /\ NoFault /\ Finish(p) /\ UNCHANGED store
            \/ Fault /\ Finish(p) /\ UNCHANGED store
       ELSE \/ Save(a, req[p].old) /\ NoFault /\ Again
            \/ /\ Fault /\ UNCHANGED store
               /\ IF req[p].kind \in Cutovers THEN Go(p, "cleanup") ELSE Again
    /\ UNCHANGED <<attachments, containers, routes, clock>>

Retire(p) ==
    /\ pc[p] = "retire"
    /\ \/ containers' = containers \ Named(req[p].app, req[p].old.name) /\ NoFault
       \/ Fault /\ UNCHANGED containers
    /\ Finish(p)
    /\ UNCHANGED <<store, attachments, routes, clock>>

-----------------------------------------------------------------------------
(***************************************************************************)
(* Detaching and deleting: the route goes first, then the container, then  *)
(* MiniBase's attachment, then what the record says of it.                 *)
(***************************************************************************)
\* Mutant: the proxy is not switched to the page.
MarkUnrouted(p) ==
    /\ pc[p] = "mark"
    /\ Save(req[p].app, [req[p].old EXCEPT !.detached = TRUE])
    /\ Go(p, "stop") /\ NoFault
    /\ UNCHANGED <<attachments, containers, routes, clock>>

Mark(p) ==
    /\ pc[p] = "mark"
    /\ \/ Save(req[p].app, [req[p].old EXCEPT !.detached = TRUE])
          /\ Go(p, "sync") /\ NoFault
       \/ Fault /\ Finish(p) /\ UNCHANGED store
    /\ UNCHANGED <<attachments, containers, routes, clock>>

\* Mutant: the attachment goes while the container runs.
StopSkipped(p) ==
    /\ pc[p] = "stop"
    /\ Go(p, "release_att") /\ NoFault
    /\ UNCHANGED <<store, attachments, containers, routes, clock>>

\* containerExists reads a failing docker inspect as an absent container; a
\* failing docker rm ends the request, and so does, in a deletion, a failure to
\* remove the source after it.
StopDeployment(p) == LET mine == Named(req[p].app, req[p].old.name) IN
    /\ pc[p] = "stop"
    /\ \/ containers' = containers \ mine /\ Go(p, "release_att") /\ NoFault
       \/ mine # {} /\ Fault /\ Go(p, "release_att") /\ UNCHANGED containers
       \/ mine # {} /\ Fault /\ Finish(p) /\ UNCHANGED containers
       \/ req[p].kind = "delete" /\ Fault /\ Finish(p) /\ containers' = containers \ mine
    /\ UNCHANGED <<store, attachments, routes, clock>>

\* Mutant: a failing DeleteAttachment is only logged.
DetachIgnored(p) ==
    /\ pc[p] = "release_att"
    /\ Go(p, IF req[p].kind = "detach" THEN "clear" ELSE "rm_record")
    /\ \/ attachments' = attachments \ {req[p].old.att} /\ NoFault
       \/ Fault /\ UNCHANGED attachments
    /\ UNCHANGED <<store, containers, routes, clock>>

ReleaseAttachment(p) ==
    /\ pc[p] = "release_att"
    /\ \/ /\ attachments' = attachments \ {req[p].old.att} /\ NoFault
          /\ Go(p, IF req[p].kind = "detach" THEN "clear" ELSE "rm_record")
       \/ /\ req[p].old.att # None /\ Fault /\ Finish(p)
          /\ attachments' \in {attachments, attachments \ {req[p].old.att}}
    /\ UNCHANGED <<store, containers, routes, clock>>

ClearAttachment(p) ==
    /\ pc[p] = "clear"
    /\ \/ Save(req[p].app, [req[p].old EXCEPT !.att = None, !.detached = TRUE]) /\ NoFault
       \/ Fault /\ UNCHANGED store
    /\ Finish(p)
    /\ UNCHANGED <<attachments, containers, routes, clock>>

DeleteRecord(p) == LET a == req[p].app IN
    /\ pc[p] = "rm_record"
    /\ \/ store[a] # None /\ Save(a, None) /\ Go(p, "sync") /\ NoFault
       \/ store[a] = None /\ Finish(p) /\ NoFault /\ UNCHANGED store
       \/ Fault /\ Finish(p) /\ UNCHANGED store
    /\ UNCHANGED <<attachments, containers, routes, clock>>

-----------------------------------------------------------------------------
Crash ==
    /\ crashes < MaxCrashes
    /\ crashes' = crashes + 1
    /\ mu' = None /\ dbMu' = None
    /\ pc' = [t \in Threads |-> IF t = Main THEN "sync" ELSE "idle"]
    /\ req' = [t \in Threads |-> IF t = Main THEN [NoRequest EXCEPT !.kind = "boot"]
                                             ELSE NoRequest]
    /\ UNCHANGED <<store, attachments, containers, routes, clock, faults, expiries>>

Arrival(p) ==
    \/ miniBaseLifecycleAttachHandler(p) \/ miniBaseLifecycleDetachHandler(p)
    \/ databaseAttachmentHandler(p)      \/ releaseHandler(p)
    \/ deployHandler(p)                  \/ deleteDeploymentHandler(p)

Lock(p) == LockDatabase(p) \/ LockRelease(p) \/ LockReattach(p) \/ LockDetach(p)

Work(p) ==
    \/ CreateAttachment(p) \/ SaveAttachment(p) \/ Undo(p) \/ Unsave(p) \/ Resave(p)
    \/ StartOK(p) \/ StartFailed(p) \/ Verify(p) \/ Cleanup(p) \/ Promote(p)
    \/ Restore(p) \/ Retire(p)
    \/ Mark(p) \/ StopDeployment(p) \/ ReleaseAttachment(p) \/ ClearAttachment(p)
    \/ DeleteRecord(p)

Next ==
    \/ \E p \in Procs : Arrival(p) \/ Lock(p) \/ Work(p)
    \/ \E t \in Threads : Sync(t)
    \/ Crash

Spec == Init /\ [][Next]_vars

\* A handler keeps running, and sync.Mutex is starvation free.
Fairness ==
    /\ \A p \in Procs : SF_vars(Lock(p)) /\ WF_vars(Work(p))
    /\ \A t \in Threads : WF_vars(Sync(t))

FairSpec == Spec /\ Fairness

-----------------------------------------------------------------------------
(***************************************************************************)
(* Properties.                                                             *)
(***************************************************************************)
\* Every variable has its type; a request takes only the steps of its kind, and
\* at each it has read the record, created the attachment and started the
\* candidate that the step works with.
Guarded  == {"attach", "admin", "reattach", "detach"}
Starting == Cutovers \cup {"reattach", "deploy"}

StepOfKind(p) == LET kind == req[p].kind IN
    /\ pc[p] = "idle" <=> kind = "none"
    /\ pc[p] = "lock_db" => kind \in Guarded
    /\ pc[p] = "save_att" => kind \in Attaches
    /\ pc[p] \in {"unsave", "resave"} => kind = "attach"
    /\ pc[p] \in {"create", "undo"} => kind \in Starting \ {"release"}
    /\ pc[p] \in {"start", "verify", "cleanup", "promote"} => kind \in Starting
    /\ pc[p] = "retire" => kind \in Cutovers
    /\ pc[p] \in {"mark", "clear"} => kind = "detach"
    /\ pc[p] \in {"stop", "release_att"} => kind \in {"detach", "delete"}
    /\ pc[p] = "rm_record" => kind = "delete"

HasOld(p) == LET kind == req[p].kind IN
    \/ kind \in {"release", "delete"}
    \/ kind \in Attaches /\ pc[p] # "lock_db"
    \/ kind \in {"reattach", "detach"} /\ pc[p] \notin {"lock_db", "lock"}

HasCandidate(p) ==
    /\ req[p].kind \in Starting
    /\ pc[p] \in Candidacy \ {"start"}

RequestOK(p) ==
    /\ StepOfKind(p)
    /\ pc[p] # "idle" => req[p].kind \in Kinds /\ req[p].app \in Apps
    /\ HasOld(p) => req[p].old \in Record
    /\ req[p].kind \in Attaches /\ pc[p] # "lock_db" => req[p].orig \in Record
    /\ HasCandidate(p) => req[p].cand \in Record

TypeOK ==
    /\ store \in Routes /\ routes \in Routes
    /\ attachments \subseteq Attachment
    /\ containers \subseteq Container
    /\ mu \in Procs \cup {None} /\ dbMu \in Procs \cup {None}
    /\ pc \in [Threads -> Steps]
    /\ req \in [Threads -> Request]
    /\ clock \in Nat /\ faults \in Nat /\ expiries \in Nat /\ crashes \in Nat
    /\ \A p \in Procs : RequestOK(p)
    /\ pc[Main] \in {"idle", "sync"} /\ req[Main].kind \in {"none", "boot"}

AllIdle  == \A t \in Threads : pc[t] = "idle"
Quiet(a) == \A t \in Threads : req[t].app # a

\* The two mutexes are held exactly between their Lock and Unlock, by the
\* process that is there, on every path including the compensations, and a
\* process that holds deployMu never waits for databaseAttachmentMu: "taking
\* databaseAttachmentMu here would invert the post-deploy attachment lock
\* order" (database_integration.go:140).
InDatabaseSection(p) == req[p].kind \in Guarded /\ pc[p] \notin {"idle", "lock_db"}

InDeploySection(p) ==
    \/ req[p].kind \in Attaches /\ pc[p] \in Candidacy
    \/ req[p].kind \in {"release", "deploy"} /\ pc[p] # "lock"
    \/ req[p].kind \in {"reattach", "detach"} /\ pc[p] \notin {"lock_db", "lock"}

LocksHeld == \A p \in Procs :
    /\ InDatabaseSection(p) <=> dbMu = p
    /\ InDeploySection(p) <=> mu = p

\* MiniBase and the records agree at rest up to one disagreement for each
\* failure, expiry or crash: an attachment that no record names, or a record
\* that names an attachment MiniBase does not have (minibase_lifecycle.go:505,
\* :544).
Orphans  == {t \in attachments : \A a \in Apps : store[a] = None \/ store[a].att # t}
Dangling == {a \in Apps : store[a] # None /\ store[a].att \notin attachments \cup {None}}

AttachmentsAccounted == AllIdle =>
    Cardinality(Orphans) + Cardinality(Dangling) <= faults + expiries + crashes

\* No container outlives the attachment it connects by: "This makes database
\* deletion impossible while any old process could still be using DATABASE_URL"
\* (minibase_lifecycle.go:313), when no command failed and nothing crashed.
NoDanglingUse == faults = 0 /\ crashes = 0 =>
    \A c \in containers : c.uses \in attachments \cup {None}

\* The container of a live record connects by the attachment the record names, or
\* was started before it was attached: no compensation and no crash leaves the
\* live release on the database of another attachment.
ContainerBound == \A a \in Apps :
    Quiet(a) /\ faults = 0 /\ store[a] # None /\ ~store[a].detached =>
        \A c \in Named(a, store[a].name) : c.uses \in {None, store[a].att}

\* "Deployment is stopped until a database is reattached"
\* (minibase_lifecycle.go:373): at rest Caddy answers for a detached record with
\* the page, also when a crash cut the detachment short, and unless a crash cut
\* the reattachment short no container of it runs.
DetachComplete == \A a \in Apps :
    Quiet(a) /\ pc[Main] = "idle" /\ faults = 0 /\ store[a] # None =>
        /\ store[a].detached => routes[a] # None /\ routes[a].detached
        /\ store[a].detached /\ store[a].att = None /\ crashes = 0 =>
               Named(a, store[a].name) = {}

\* A detachment asks MiniBase to let go of the database only when the page is
\* served and the container is gone, whatever other requests do meanwhile
\* (minibase_lifecycle.go:337).
DetachReleasesLast == [][\A p \in Procs :
    ReleaseAttachment(p) /\ req[p].kind = "detach" /\ faults = 0 =>
        LET a == req[p].app IN
        /\ routes[a] # None /\ routes[a].detached
        /\ Named(a, req[p].old.name) = {}]_vars

\* "If detachment fails, MiniDeploy preserves its deployment metadata so deletion
\* can be retried" (architecture.md:704): a record goes only when MiniBase does
\* not keep its attachment any more.
DeletionDetaches == [][\A p \in Procs :
    DeleteRecord(p) /\ store' # store => store[req[p].app].att \notin attachments]_vars

\* "Remove the new attachment so MiniBase remains standalone and the user can
\* retry" (minibase_lifecycle.go:535): an attachment asked for by MiniBase whose
\* release failed is not left in the record, when MiniBase and the files work.
FailedAttachUndone == faults = 0 /\ crashes = 0 => \A a \in Apps :
    Quiet(a) /\ store[a] # None /\ store[a].att # None =>
        \E c \in Named(a, store[a].name) : c.uses = store[a].att

\* Every request comes to its end: no order of the two locks makes two requests
\* wait for each other, and no failure keeps one of them.
RequestsEnd == \A p \in Procs : pc[p] # "idle" ~> pc[p] = "idle"
=============================================================================
