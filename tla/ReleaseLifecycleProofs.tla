------------------------ MODULE ReleaseLifecycleProofs ------------------------
(***************************************************************************)
(* Proofs about ReleaseLifecycle, for any number of requests, applications *)
(* and ports, and any bound on failures, crashes and releases.             *)
(*                                                                         *)
(* TypeOK is inductive.  It is proved in two halves: DataOK, what the      *)
(* files, Docker and Caddy hold, and ControlOK, where the requests are and *)
(* what they know.  The safety theorems build on it.  Those about          *)
(* deletions are for one request at a time (Serial); CleanInv says what a  *)
(* request without trouble leaves behind at each of its steps.             *)
(***************************************************************************)
EXTENDS ReleaseLifecycle, TLAPS

USE DEF Kinds, Redeploys, Cutovers, Releases, Releasing, Switching, Syncing,
        Restarting, Deleting, Steps, Threads

DataOK ==
    /\ store \in Routes /\ routeFile \in Routes /\ routes \in Routes
    /\ history \in [Apps -> SUBSET Version]
    /\ envFile \in [Apps -> Envs]
    /\ containers \subseteq Container
    /\ images \subseteq Apps \X Nat
    /\ verified \subseteq Apps \X Nat \X Nat
    /\ clock \in Nat /\ faults \in Nat /\ crashes \in Nat

ControlOK ==
    /\ mu \in Procs \cup {None}
    /\ pc \in [Threads -> Steps]
    /\ req \in [Threads -> Request]
    /\ \A p \in Procs : RequestOK(p)
    /\ MainOK

LEMMA TypeParts == (TypeOK <=> DataOK /\ ControlOK) /\ (TypeOK' <=> DataOK' /\ ControlOK')
BY DEF TypeOK, DataOK, ControlOK

-----------------------------------------------------------------------------
(***************************************************************************)
(* Pieces of steps that many actions share.                                *)
(***************************************************************************)
\* The locals of a process without a request are well formed.
LEMMA NoRequestType == NoRequest \in Request /\ NoRoutes \in Routes
BY ConstantsAssumption DEF NoRequest, NoRoutes, Request, Routes

LEMMA BootType ==
    /\ [NoRequest EXCEPT !.kind = "boot"] \in Request
    /\ [NoRequest EXCEPT !.kind = "boot"].kind = "boot"
    /\ NoRequest \in Request /\ NoRequest.kind = "none"
BY NoRequestType DEF NoRequest, Request

\* A return leaves the control state well formed, whoever returns.
LEMMA FinishType ==
    ASSUME ControlOK, NEW t \in Threads, Finish(t)
    PROVE  ControlOK'
BY NoRequestType, ConstantsAssumption
   DEF ControlOK, Finish, RequestOK, MainOK, Working, HasCandidate, NoRequest

\* Locals assigned one or several at a time.
LEMMA LocalsType ==
    ASSUME NEW r \in Request, NEW e \in Envs, NEW i \in Nat, NEW n \in Nat,
           NEW H \in SUBSET Version
    PROVE  /\ [r EXCEPT !.img = i, !.name = n] \in Request
           /\ [r EXCEPT !.prevEnv = e, !.img = i, !.name = n, !.seen = H] \in Request
BY DEF Request

\* A container stopped or started.
LEMMA UpType ==
    ASSUME NEW c \in Container
    PROVE  [c EXCEPT !.up = FALSE] \in Container /\ [c EXCEPT !.up = TRUE] \in Container
BY DEF Container

\* The locals of a request that begins.
Begun(k, a, e, v) == [NoRequest EXCEPT !.kind = k, !.app = a, !.ask = e, !.old = v]

LEMMA BegunType ==
    ASSUME NEW k \in Kinds, NEW a \in Apps, NEW e \in Envs \cup {Keep},
           NEW v \in Record \cup {None}
    PROVE  LET r == Begun(k, a, e, v) IN
           r \in Request /\ r.kind = k /\ r.app = a /\ r.old = v
<1> DEFINE n == NoRequest
           r == Begun(k, a, e, v)
<1>1. n \in Request
  BY NoRequestType
<1>r. r = [n EXCEPT !.kind = k, !.app = a, !.ask = e, !.old = v]
  BY DEF Begun
<1> HIDE DEF n, r
<1>2. r = [kind |-> k, app |-> a, ask |-> e, old |-> v, name |-> n.name, img |-> n.img,
           cand |-> n.cand, prevEnv |-> n.prevEnv, seen |-> n.seen, snap |-> n.snap,
           restoring |-> n.restoring]
  BY <1>1, <1>r DEF Request
<1>3. r \in Request /\ r.kind = k /\ r.app = a /\ r.old = v
  BY <1>1, <1>2 DEF Request
<1> QED BY <1>3 DEF r

\* What a process at work knows.
LEMMA Locals ==
    ASSUME ControlOK, NEW p \in Procs, Working(p)
    PROVE  /\ req[p] \in Request /\ req[p].app \in Apps
           /\ req[p].kind # "deploy" => req[p].old \in Record
           /\ HasCandidate(p) => req[p].cand \in Record
           /\ RequestOK(p)
BY DEF ControlOK, RequestOK

\* The environment of a candidate, and the retained part of a history.
LEMMA EffectiveType ==
    ASSUME NEW p \in Procs, req[p] \in Request
    PROVE  Effective(p) \in Envs
BY DEF Effective, Request

LEMMA ExtendedType ==
    ASSUME DataOK, NEW p \in Procs, req[p] \in Request, req[p].app \in Apps,
           req[p].old \in Record
    PROVE  Extended(p) \subseteq Version /\ Retained(Extended(p)) \subseteq Version
BY DEF DataOK, Extended, Displaced, Retained, Version, Request, Record

LEMMA CandidateType ==
    ASSUME NEW p \in Procs, req[p] \in Request, req[p].app \in Apps,
           NEW q \in Ports, NEW up \in BOOLEAN
    PROVE  Candidate(p, q, up) \in Container
BY DEF Candidate, Container, Request

-----------------------------------------------------------------------------
(***************************************************************************)
(* What the files, Docker and Caddy hold.                                  *)
(***************************************************************************)
LEMMA WorkData ==
    ASSUME TypeOK, NEW p \in Procs, Lock(p) \/ Work(p)
    PROVE  DataOK'
<1> USE TypeParts, ConstantsAssumption
<1>1. CASE LockDeploy(p)
  BY <1>1, Locals
     DEF DataOK, Working, files, docker, caddy, Fault, NoFault, LockDeploy
<1>2. CASE LockRedeploy(p)
  BY <1>2, Locals
     DEF DataOK, Working, files, docker, caddy, Fault, NoFault, LockRedeploy
<1>3. CASE LockRollback(p)
  <2>1. clock' \in {clock, clock + 1} BY <1>3 DEF LockRollback
  <2>2. UNCHANGED <<files, docker, caddy, faults, crashes, verified>>
    BY <1>3 DEF LockRollback
  <2> QED
    BY <2>1, <2>2 DEF DataOK, files, docker, caddy
<1>4. CASE Build(p)
  BY <1>4, Locals
     DEF DataOK, Working, files, docker, caddy, Fault, NoFault, Build
<1>5. CASE StartOK(p)
  BY <1>5, Locals, CandidateType
     DEF DataOK, Working, files, docker, caddy, Fault, NoFault, StartOK
<1>6. CASE StartFailed(p)
  <2>1. faults' \in {faults, faults + 1} BY <1>6 DEF StartFailed, Fault, NoFault
  <2>2. containers' \subseteq Container
    <3>1. \/ containers' = containers
          \/ \E q \in Ports : containers' = containers \cup {Candidate(p, q, FALSE)}
      BY <1>6 DEF StartFailed
    <3>2. \A q \in Ports : Candidate(p, q, FALSE) \in Container
      BY <1>6, Locals, CandidateType DEF StartFailed, Working
    <3>3. containers \subseteq Container BY DEF DataOK
    <3> QED BY <3>1, <3>2, <3>3
  <2>3. images' \subseteq images BY <1>6 DEF StartFailed, Removable
  <2> QED
    BY <2>1, <2>2, <2>3, <1>6 DEF DataOK, files, caddy, StartFailed
<1>7. CASE Healthy(p)
  BY <1>7, Locals
     DEF DataOK, Working, files, docker, caddy, Fault, NoFault, Healthy, Request
<1>8. CASE Unhealthy(p)
  BY <1>8, Locals
     DEF DataOK, Working, files, docker, caddy, Fault, NoFault, Unhealthy
<1>9. CASE Cleanup(p)
  BY <1>9, Locals
     DEF DataOK, Working, files, docker, caddy, Fault, NoFault, Cleanup, Named, Removable
<1>10. CASE CommitEnvironment(p)
  BY <1>10, Locals
     DEF DataOK, Working, files, docker, caddy, Fault, NoFault, CommitEnvironment, Request
<1>11. CASE SaveRecord(p)
  BY <1>11, Locals
     DEF DataOK, Working, files, docker, caddy, Fault, NoFault, SaveRecord, HasCandidate, Routes
<1>12. CASE RollbackEnvironment(p)
  BY <1>12, Locals
     DEF DataOK, Working, files, docker, caddy, Fault, NoFault, RollbackEnvironment, Request
<1>13. CASE RestoreRecord(p)
  BY <1>13, Locals
     DEF DataOK, Working, files, docker, caddy, Fault, NoFault, RestoreRecord, RequestOK, Routes
<1>14. CASE RecordHistory(p)
  BY <1>14, Locals, ExtendedType
     DEF DataOK, Working, files, docker, caddy, Fault, NoFault, RecordHistory, Removable, RequestOK
<1>15. CASE RetireOld(p)
  BY <1>15, Locals
     DEF DataOK, Working, files, docker, caddy, Fault, NoFault, RetireOld, Named
<1>16. CASE RestartStop(p)
  <2>1. \A c \in containers : [c EXCEPT !.up = FALSE] \in Container
    BY UpType DEF DataOK
  <2> QED
    BY <2>1, <1>16 DEF DataOK, files, caddy, Fault, NoFault, RestartStop
<1>17. CASE RestartUp(p)
  <2>1. \A c \in containers : [c EXCEPT !.up = TRUE] \in Container
    BY UpType DEF DataOK
  <2>2. faults' \in {faults, faults + 1} BY <1>17 DEF RestartUp, Fault, NoFault
  <2> QED
    BY <2>1, <2>2, <1>17 DEF DataOK, files, caddy, RestartUp
<1>18. CASE DeleteContainer(p)
  BY <1>18, Locals
     DEF DataOK, Working, files, docker, caddy, Fault, NoFault, DeleteContainer, Named
<1>19. CASE DeleteHistoryImages(p)
  BY <1>19, Locals
     DEF DataOK, Working, files, docker, caddy, Fault, NoFault, DeleteHistoryImages, Removable
<1>20. CASE DeleteHistory(p)
  BY <1>20, Locals
     DEF DataOK, Working, files, docker, caddy, Fault, NoFault, DeleteHistory
<1>21. CASE DeleteImage(p)
  BY <1>21, Locals
     DEF DataOK, Working, files, docker, caddy, Fault, NoFault, DeleteImage, Removable
<1>22. CASE DeleteEnvironment(p)
  BY <1>22, Locals
     DEF DataOK, Working, files, docker, caddy, Fault, NoFault, DeleteEnvironment, RequestOK
<1>23. CASE DeleteRecord(p)
  BY <1>23, Locals
     DEF DataOK, Working, files, docker, caddy, Fault, NoFault, DeleteRecord, Routes
<1> QED
  BY <1>1, <1>2, <1>3, <1>4, <1>5, <1>6, <1>7, <1>8, <1>9, <1>10, <1>11, <1>12, <1>13, <1>14, <1>15, <1>16, <1>17, <1>18, <1>19, <1>20, <1>21, <1>22, <1>23 DEF Lock, Work

(***************************************************************************)
(* Where the requests are.                                                 *)
(***************************************************************************)
LEMMA WorkMoves ==
    ASSUME TypeOK, NEW p \in Procs, Lock(p) \/ Work(p), ~Finish(p)
    PROVE  /\ pc' \in [Threads -> Steps] /\ req' \in [Threads -> Request]
           /\ mu' \in Procs \cup {None}
<1> USE TypeParts, ConstantsAssumption
<1>0. req[p] \in Request /\ req[p].app \in Apps
  BY Locals DEF Lock, Work, Working, LockDeploy, LockRedeploy, LockRollback, Build, StartOK, StartFailed, Healthy, Unhealthy, Cleanup, CommitEnvironment, SaveRecord, RollbackEnvironment, RestoreRecord, RecordHistory, RetireOld, RestartStop, RestartUp, DeleteContainer, DeleteHistoryImages, DeleteHistory, DeleteImage, DeleteEnvironment, DeleteRecord
<1>1. CASE LockDeploy(p)
  BY <1>0, <1>1 DEF ControlOK, Goto, LockDeploy, DataOK, Request
<1>2. CASE LockRedeploy(p)
  BY <1>0, <1>2 DEF ControlOK, Goto, LockRedeploy, DataOK, Request
<1>3. CASE LockRollback(p)
  <2>1. PICK v \in history[req[p].app] :
          req' = [req EXCEPT ![p] = [@ EXCEPT !.prevEnv = envFile[req[p].app],
                     !.img = v.img, !.name = clock + 1, !.seen = history[req[p].app]]]
    BY <1>3 DEF LockRollback
  <2>2. v.img \in Nat /\ envFile[req[p].app] \in Envs /\ history[req[p].app] \subseteq Version
    BY <1>0 DEF DataOK, Version
  <2>3. [req[p] EXCEPT !.prevEnv = envFile[req[p].app], !.img = v.img,
                       !.name = clock + 1, !.seen = history[req[p].app]] \in Request
    <3>1. clock + 1 \in Nat BY DEF DataOK
    <3> QED BY <1>0, <2>2, <3>1, LocalsType
  <2>4. req' \in [Threads -> Request]
    BY <2>1, <2>3 DEF ControlOK
  <2> QED
    BY <1>3, <2>4 DEF ControlOK, LockRollback, Goto
<1>4. CASE Build(p)
  <2>1. req' = [req EXCEPT ![p] = [@ EXCEPT !.img = clock + 1,
                  !.name = IF req[p].kind = "deploy" THEN 0 ELSE clock + 1]]
    BY <1>4 DEF Build
  <2>2. clock + 1 \in Nat /\ 0 \in Nat BY DEF DataOK
  <2>3. req' \in [Threads -> Request]
    <3>1. CASE req[p].kind = "deploy"
      BY <1>0, <2>1, <2>2, <3>1, LocalsType DEF ControlOK
    <3>2. CASE req[p].kind # "deploy"
      BY <1>0, <2>1, <2>2, <3>2, LocalsType DEF ControlOK
    <3> QED BY <3>1, <3>2
  <2> QED
    BY <1>4, <2>3 DEF ControlOK, Build, Goto
<1>5. CASE StartOK(p)
  BY <1>0, <1>5, EffectiveType DEF ControlOK, Goto, StartOK, DataOK, Request, Record
<1>6. CASE StartFailed(p)
  BY <1>0, <1>6 DEF ControlOK, Goto, StartFailed
<1>7. CASE Healthy(p)
  BY <1>0, <1>7 DEF ControlOK, Goto, Healthy
<1>8. CASE Unhealthy(p)
  BY <1>0, <1>8 DEF ControlOK, Goto, Unhealthy
<1>9. CASE Cleanup(p)
  BY <1>0, <1>9 DEF ControlOK, Goto, Cleanup
<1>10. CASE CommitEnvironment(p)
  BY <1>0, <1>10 DEF ControlOK, Goto, CommitEnvironment
<1>11. CASE SaveRecord(p)
  BY <1>0, <1>11 DEF ControlOK, Goto, SaveRecord
<1>12. CASE RollbackEnvironment(p)
  BY <1>0, <1>12 DEF ControlOK, Goto, RollbackEnvironment
<1>13. CASE RestoreRecord(p)
  <2>1. [req EXCEPT ![p].restoring = TRUE] \in [Threads -> Request]
    BY <1>0 DEF ControlOK, Request
  <2> QED
    BY <1>13, <2>1 DEF ControlOK, RestoreRecord, Goto
<1>14. CASE RecordHistory(p)
  BY <1>0, <1>14 DEF ControlOK, Goto, RecordHistory
<1>15. CASE RetireOld(p)
  BY <1>0, <1>15 DEF ControlOK, Goto, RetireOld
<1>16. CASE RestartStop(p)
  BY <1>0, <1>16 DEF ControlOK, Goto, RestartStop
<1>17. CASE RestartUp(p)
  BY <1>0, <1>17 DEF ControlOK, Goto, RestartUp
<1>18. CASE DeleteContainer(p)
  BY <1>0, <1>18 DEF ControlOK, Goto, DeleteContainer
<1>19. CASE DeleteHistoryImages(p)
  BY <1>0, <1>19 DEF ControlOK, Goto, DeleteHistoryImages
<1>20. CASE DeleteHistory(p)
  BY <1>0, <1>20 DEF ControlOK, Goto, DeleteHistory
<1>21. CASE DeleteImage(p)
  BY <1>0, <1>21 DEF ControlOK, Goto, DeleteImage
<1>22. CASE DeleteEnvironment(p)
  BY <1>0, <1>22 DEF ControlOK, Goto, DeleteEnvironment
<1>23. CASE DeleteRecord(p)
  BY <1>0, <1>23 DEF ControlOK, Goto, DeleteRecord
<1> QED
  BY <1>1, <1>2, <1>3, <1>4, <1>5, <1>6, <1>7, <1>8, <1>9, <1>10, <1>11, <1>12, <1>13, <1>14, <1>15, <1>16, <1>17, <1>18, <1>19, <1>20, <1>21, <1>22, <1>23 DEF Lock, Work

(***************************************************************************)
(* What the requests know.                                                 *)
(***************************************************************************)
\* A rollback that is not refused takes the newest version of the history.
LEMMA RollbackLocked ==
    ASSUME NEW p \in Procs, LockRollback(p), ~Finish(p)
    PROVE  \E v \in history[req[p].app] :
             /\ pc[p] = "lock" /\ pc' = [pc EXCEPT ![p] = "start"]
             /\ req' = [req EXCEPT ![p] = [@ EXCEPT !.prevEnv = envFile[req[p].app],
                          !.img = v.img, !.name = clock + 1, !.seen = history[req[p].app]]]
<1>1. ~RollbackRefused(req[p].app, req[p].old)
  BY DEF LockRollback
<1> QED BY <1>1 DEF LockRollback, Goto

LEMMA WorkKnows ==
    ASSUME TypeOK, NEW p \in Procs, Lock(p) \/ Work(p), ~Finish(p)
    PROVE  (\A q \in Procs : RequestOK(q)') /\ MainOK'
<1> USE TypeParts, ConstantsAssumption, WorkMoves
<1>0. req[p] \in Request /\ RequestOK(p)
  BY Locals DEF Lock, Work, Working, LockDeploy, LockRedeploy, LockRollback, Build, StartOK, StartFailed, Healthy, Unhealthy, Cleanup, CommitEnvironment, SaveRecord, RollbackEnvironment, RestoreRecord, RecordHistory, RetireOld, RestartStop, RestartUp, DeleteContainer, DeleteHistoryImages, DeleteHistory, DeleteImage, DeleteEnvironment, DeleteRecord
<1> USE DEF ControlOK, Goto, RequestOK, MainOK, Working, HasCandidate
<1>1. CASE LockDeploy(p)
  BY <1>0, <1>1 DEF LockDeploy
<1>2. CASE LockRedeploy(p)
  <2>1. /\ pc[p] = "lock" /\ pc' = [pc EXCEPT ![p] = "build"]
        /\ req' = [req EXCEPT ![p].prevEnv = envFile[req[p].app]]
    BY <1>2 DEF LockRedeploy
  <2>2. /\ \A q \in Threads \ {p} : req'[q] = req[q]
        /\ req'[p].kind = req[p].kind /\ req'[p].app = req[p].app
        /\ req'[p].old = req[p].old
    BY <1>0, <2>1 DEF Request
  <2> QED
    BY <1>0, <2>1, <2>2
<1>3. CASE LockRollback(p)
  <2>1. PICK v \in history[req[p].app] :
          /\ pc[p] = "lock" /\ pc' = [pc EXCEPT ![p] = "start"]
          /\ req' = [req EXCEPT ![p] = [@ EXCEPT !.prevEnv = envFile[req[p].app],
                       !.img = v.img, !.name = clock + 1, !.seen = history[req[p].app]]]
    BY <1>3, RollbackLocked
  <2>2. /\ \A q \in Threads \ {p} : req'[q] = req[q]
        /\ req'[p].kind = req[p].kind /\ req'[p].app = req[p].app
        /\ req'[p].old = req[p].old
    BY <1>0, <2>1 DEF Request
  <2> QED
    BY <1>0, <2>1, <2>2
<1>4. CASE Build(p)
  <2>1. /\ pc[p] = "build" /\ pc' = [pc EXCEPT ![p] = "start"]
        /\ req' = [req EXCEPT ![p] = [@ EXCEPT !.img = clock + 1,
                     !.name = IF req[p].kind = "deploy" THEN 0 ELSE clock + 1]]
    BY <1>4 DEF Build
  <2>2. /\ \A q \in Threads \ {p} : req'[q] = req[q]
        /\ req'[p].kind = req[p].kind /\ req'[p].app = req[p].app
        /\ req'[p].old = req[p].old
    BY <1>0, <2>1 DEF Request
  <2> QED
    BY <1>0, <2>1, <2>2
<1>5. CASE StartOK(p)
  BY <1>0, <1>5, EffectiveType DEF StartOK, Request, Record, DataOK
<1>6. CASE StartFailed(p)
  BY <1>0, <1>6 DEF StartFailed
<1>7. CASE Healthy(p)
  BY <1>0, <1>7 DEF Healthy
<1>8. CASE Unhealthy(p)
  BY <1>0, <1>8 DEF Unhealthy
<1>9. CASE Cleanup(p)
  BY <1>0, <1>9 DEF Cleanup
<1>10. CASE CommitEnvironment(p)
  BY <1>0, <1>10 DEF CommitEnvironment
<1>11. CASE SaveRecord(p)
  BY <1>0, <1>11 DEF SaveRecord
<1>12. CASE RollbackEnvironment(p)
  BY <1>0, <1>12 DEF RollbackEnvironment
<1>13. CASE RestoreRecord(p)
  <2>1. /\ pc[p] = "restore"
        /\ \E s \in {"list", "env_rollback"} : pc' = [pc EXCEPT ![p] = s]
        /\ req' = req \/ req' = [req EXCEPT ![p].restoring = TRUE]
    BY <1>13 DEF RestoreRecord
  <2>2. /\ \A q \in Threads \ {p} : req'[q] = req[q]
        /\ req'[p].kind = req[p].kind /\ req'[p].app = req[p].app
        /\ req'[p].old = req[p].old /\ req'[p].cand = req[p].cand
        /\ req'[p].name = req[p].name /\ req'[p].img = req[p].img
    BY <1>0, <2>1 DEF Request
  <2> QED
    BY <1>0, <2>1, <2>2
<1>14. CASE RecordHistory(p)
  BY <1>0, <1>14 DEF RecordHistory
<1>15. CASE RetireOld(p)
  BY <1>0, <1>15 DEF RetireOld
<1>16. CASE RestartStop(p)
  BY <1>0, <1>16 DEF RestartStop
<1>17. CASE RestartUp(p)
  BY <1>0, <1>17 DEF RestartUp
<1>18. CASE DeleteContainer(p)
  BY <1>0, <1>18 DEF DeleteContainer
<1>19. CASE DeleteHistoryImages(p)
  BY <1>0, <1>19 DEF DeleteHistoryImages
<1>20. CASE DeleteHistory(p)
  BY <1>0, <1>20 DEF DeleteHistory
<1>21. CASE DeleteImage(p)
  BY <1>0, <1>21 DEF DeleteImage
<1>22. CASE DeleteEnvironment(p)
  BY <1>0, <1>22 DEF DeleteEnvironment
<1>23. CASE DeleteRecord(p)
  BY <1>0, <1>23 DEF DeleteRecord
<1> QED
  BY <1>1, <1>2, <1>3, <1>4, <1>5, <1>6, <1>7, <1>8, <1>9, <1>10, <1>11, <1>12, <1>13, <1>14, <1>15, <1>16, <1>17, <1>18, <1>19, <1>20, <1>21, <1>22, <1>23 DEF Lock, Work

LEMMA WorkControl ==
    ASSUME TypeOK, NEW p \in Procs, Lock(p) \/ Work(p)
    PROVE  ControlOK'
<1>1. CASE Finish(p) BY <1>1, FinishType, TypeParts
<1>2. CASE ~Finish(p) BY <1>2, WorkMoves, WorkKnows DEF ControlOK
<1> QED BY <1>1, <1>2

\* A request arrives.
LEMMA ArrivalType ==
    ASSUME TypeOK, NEW p \in Procs, Arrival(p)
    PROVE  TypeOK'
<1> USE TypeParts, ConstantsAssumption
<1>1. PICK kind \in Kinds, a \in Apps, ask \in Envs \cup {Keep}, first \in Steps :
        /\ Begin(p, kind, a, ask, first)
        /\ store[a] # None <=> kind # "deploy"
        /\ \/ kind \in Releases /\ first = "lock"
           \/ kind = "restart" /\ first = "stop"
           \/ kind = "delete" /\ first = "rm_container"
  <2>1. CASE deployHandler(p) BY <2>1 DEF deployHandler
  <2>2. CASE redeployHandler(p) BY <2>2 DEF redeployHandler
  <2>3. CASE githubWebhookHandler(p) BY <2>3 DEF githubWebhookHandler
  <2>4. CASE rollbackDeploymentHandler(p) BY <2>4 DEF rollbackDeploymentHandler
  <2>5. CASE restartDeploymentHandler(p) BY <2>5 DEF restartDeploymentHandler
  <2>6. CASE deleteDeploymentHandler(p) BY <2>6 DEF deleteDeploymentHandler
  <2> QED BY <2>1, <2>2, <2>3, <2>4, <2>5, <2>6 DEF Arrival
<1>2. DataOK'
  BY <1>1 DEF DataOK, Begin, files, docker, caddy
<1> DEFINE r == Begun(kind, a, ask, store[a])
<1>3. /\ r \in Request /\ r.kind = kind /\ r.app = a /\ r.old = store[a]
      /\ kind # "deploy" => store[a] \in Record
  <2> HIDE DEF Kinds, Steps, Releases
  <2>1. store[a] \in Record \cup {None}
    BY DEF DataOK, Routes
  <2>2. r \in Request /\ r.kind = kind /\ r.app = a /\ r.old = store[a]
    BY <2>1, BegunType
  <2>3. kind # "deploy" => store[a] # None
    BY <1>1
  <2> QED BY <2>1, <2>2, <2>3
<1>4. /\ pc' = [pc EXCEPT ![p] = first] /\ req' = [req EXCEPT ![p] = r] /\ mu' = mu
  BY <1>1 DEF Begin, Goto, Begun
<1> HIDE DEF r
<1>5. ControlOK'
  BY <1>1, <1>3, <1>4 DEF ControlOK, RequestOK, MainOK, Working, HasCandidate
<1> QED BY <1>2, <1>5

\* A synchronization of the proxy, by a request or by main().
LEMMA SyncType ==
    ASSUME TypeOK, NEW t \in Threads, Sync(t)
    PROVE  TypeOK'
<1> USE TypeParts, ConstantsAssumption
<1>1. req[t] \in Request BY DEF ControlOK
<1>2. DataOK'
  <2>1. /\ UNCHANGED <<files, docker, clock, crashes, verified>>
        /\ routeFile' \in {routeFile, req[t].snap} /\ routes' \in {routes, routeFile}
        /\ faults' \in {faults, faults + 1}
    BY DEF Sync, SyncList, SyncWrite, SyncReload, caddy, Fault, NoFault
  <2> QED
    BY <1>1, <2>1 DEF DataOK, files, docker, Request
<1>3. CASE Finish(t)
  BY <1>2, <1>3, FinishType
<1>4. CASE ~Finish(t)
  <2>0. pc[t] \in Syncing BY DEF Sync, SyncList, SyncWrite, SyncReload
  <2>1. CASE \E ok \in BOOLEAN : AfterSync(t, ok)
    <3>1. t \in Procs /\ req[t].kind \in Cutovers
      BY <1>4, <2>0, <2>1 DEF AfterSync, ControlOK, MainOK
    <3>2. PICK s \in {"env_rollback", "record", "restore"} :
            Goto(t, s) /\ req' = req /\ mu' = mu
      BY <3>1, <2>1 DEF AfterSync
    <3> QED
      BY <1>2, <2>0, <3>1, <3>2
         DEF ControlOK, Goto, RequestOK, MainOK, Working, HasCandidate
  <2>2. CASE ~ \E ok \in BOOLEAN : AfterSync(t, ok)
    <3>1. /\ \E s \in {"write", "reload"} : Goto(t, s)
          /\ req' = req \/ req' = [req EXCEPT ![t].snap = store]
          /\ mu' = mu
      BY <2>2 DEF Sync, SyncList, SyncWrite, SyncReload
    <3>2. /\ req' \in [Threads -> Request]
          /\ \A u \in Threads : /\ req'[u].kind = req[u].kind /\ req'[u].app = req[u].app
                                /\ req'[u].old = req[u].old /\ req'[u].cand = req[u].cand
                                /\ req'[u].name = req[u].name /\ req'[u].img = req[u].img
      BY <1>1, <3>1 DEF ControlOK, DataOK, Request
    <3> QED
      BY <1>2, <2>0, <3>1, <3>2
         DEF ControlOK, Goto, RequestOK, MainOK, Working, HasCandidate
  <2> QED BY <2>1, <2>2
<1> QED BY <1>3, <1>4

\* A crash, and the service started again.
LEMMA CrashType == ASSUME TypeOK, Crash PROVE TypeOK'
<1> USE TypeParts, ConstantsAssumption
<1>1. DataOK'
  BY DEF DataOK, Crash, files, docker, caddy
<1>2. /\ mu' = None
      /\ pc' = [t \in Threads |-> IF t = Main THEN "list" ELSE "idle"]
      /\ req' = [t \in Threads |-> IF t = Main THEN [NoRequest EXCEPT !.kind = "boot"]
                                               ELSE NoRequest]
  BY DEF Crash
<1>3. /\ pc' \in [Threads -> Steps] /\ req' \in [Threads -> Request]
      /\ \A p \in Procs : pc'[p] = "idle" /\ req'[p] = NoRequest
  BY <1>2, BootType
<1>4. MainOK'
  BY <1>2, BootType DEF MainOK
<1>5. \A p \in Procs : RequestOK(p)'
  BY <1>3 DEF RequestOK, Working, HasCandidate
<1>6. ControlOK'
  BY <1>2, <1>3, <1>4, <1>5 DEF ControlOK
<1> QED BY <1>1, <1>6

LEMMA InitType == ASSUME Init PROVE TypeOK
<1> USE TypeParts, ConstantsAssumption
<1>1. PICK port \in [Deployed -> Ports] :
        /\ store = [a \in Apps |-> IF a \in Deployed THEN FirstRecord(port[a]) ELSE None]
        /\ containers = {[app |-> a, name |-> 0, img |-> 1, port |-> port[a], up |-> TRUE] :
                            a \in Deployed}
        /\ routeFile = store /\ routes = store
  BY DEF Init
<1>2. store \in Routes
  BY <1>1 DEF Routes, Record, FirstRecord
<1>3. containers \subseteq Container
  <2>1. \A a \in Deployed : [app |-> a, name |-> 0, img |-> 1, port |-> port[a], up |-> TRUE]
                               \in Container
    BY DEF Container
  <2> QED BY <1>1, <2>1
<1>4. /\ images = Deployed \X {1} /\ verified = Deployed \X {0} \X {1}
      /\ history = [a \in Apps |-> {}] /\ envFile = [a \in Apps |-> EmptyEnv]
      /\ clock = 1 /\ faults = 0 /\ crashes = 0
  BY DEF Init
<1>5. DataOK
  BY <1>1, <1>2, <1>3, <1>4 DEF DataOK
<1>6. /\ mu = None
      /\ pc = [t \in Threads |-> IF t = Main THEN "list" ELSE "idle"]
      /\ req = [t \in Threads |-> IF t = Main THEN [NoRequest EXCEPT !.kind = "boot"]
                                               ELSE NoRequest]
  BY DEF Init
<1>7. /\ pc \in [Threads -> Steps] /\ req \in [Threads -> Request]
      /\ \A p \in Procs : pc[p] = "idle" /\ req[p] = NoRequest
  BY <1>6, BootType
<1>8. MainOK
  BY <1>6, BootType DEF MainOK
<1>9. \A p \in Procs : RequestOK(p)
  BY <1>7 DEF RequestOK, Working, HasCandidate
<1>10. ControlOK
  BY <1>6, <1>7, <1>8, <1>9 DEF ControlOK
<1> QED BY <1>5, <1>10

LEMMA NextType == ASSUME TypeOK, [Next]_vars PROVE TypeOK'
<1>1. ASSUME NEW p \in Procs, Arrival(p) PROVE TypeOK'
  BY <1>1, ArrivalType
<1>2. ASSUME NEW p \in Procs, Lock(p) \/ Work(p) PROVE TypeOK'
  BY <1>2, WorkData, WorkControl, TypeParts
<1>3. ASSUME NEW t \in Threads, Sync(t) PROVE TypeOK'
  BY <1>3, SyncType
<1>4. CASE Crash
  BY <1>4, CrashType
<1>5. CASE UNCHANGED vars
  BY <1>5 DEF vars, TypeOK, RequestOK, MainOK, Working, HasCandidate
<1> QED BY <1>1, <1>2, <1>3, <1>4, <1>5 DEF Next

\* Every variable keeps its type, and every request has, wherever it is, the
\* locals that its next step reads: no release is saved without a candidate, no
\* cutover undone without the record it displaced.
THEOREM TypeCorrect == Spec => []TypeOK
<1>1. Init => TypeOK BY InitType
<1>2. TypeOK /\ [Next]_vars => TypeOK' BY NextType
<1> QED BY <1>1, <1>2, PTL DEF Spec

-----------------------------------------------------------------------------
(***************************************************************************)
(* What a step of p leaves alone: the other threads, and what its request  *)
(* is about.                                                               *)
(***************************************************************************)
SameRequest(p) ==
    /\ req'[p].kind = req[p].kind /\ req'[p].app = req[p].app
    /\ req'[p].old = req[p].old /\ req'[p].snap = req[p].snap

Others(p) == \A q \in Threads \ {p} : pc'[q] = pc[q] /\ req'[q] = req[q]

LEMMA FinishOthers ==
    ASSUME ControlOK, NEW t \in Threads, Finish(t)
    PROVE  Others(t) /\ pc'[t] = "idle" /\ req'[t] = NoRequest
BY DEF ControlOK, Finish, Others

LEMMA WorkOthers ==
    ASSUME TypeOK, NEW p \in Procs, Lock(p) \/ Work(p)
    PROVE  Others(p) /\ (Finish(p) \/ SameRequest(p))
<1> USE TypeParts
<1>0. req[p] \in Request
  BY DEF ControlOK
<1>f. CASE Finish(p)
  BY <1>f, FinishOthers
<1>n. CASE ~Finish(p)
  <2>1. CASE LockDeploy(p)
    BY <1>0, <1>n, <2>1 DEF LockDeploy, ControlOK, Goto, Others, SameRequest, Request
  <2>2. CASE LockRedeploy(p)
    BY <1>0, <1>n, <2>2 DEF LockRedeploy, ControlOK, Goto, Others, SameRequest, Request
  <2>3. CASE LockRollback(p)
    <3>1. PICK v \in history[req[p].app] :
            /\ pc' = [pc EXCEPT ![p] = "start"]
            /\ req' = [req EXCEPT ![p] = [@ EXCEPT !.prevEnv = envFile[req[p].app],
                         !.img = v.img, !.name = clock + 1, !.seen = history[req[p].app]]]
      BY <1>n, <2>3 DEF LockRollback, Goto
    <3> QED BY <1>0, <3>1 DEF ControlOK, Others, SameRequest, Request
  <2>4. CASE Build(p)
    <3>1. /\ pc' = [pc EXCEPT ![p] = "start"]
          /\ req' = [req EXCEPT ![p] = [@ EXCEPT !.img = clock + 1,
                       !.name = IF req[p].kind = "deploy" THEN 0 ELSE clock + 1]]
      BY <1>n, <2>4 DEF Build, Goto
    <3> QED BY <1>0, <3>1 DEF ControlOK, Others, SameRequest, Request
  <2>5. CASE StartOK(p)
    BY <1>0, <1>n, <2>5 DEF StartOK, ControlOK, Goto, Others, SameRequest, Request
  <2>6. CASE StartFailed(p)
    BY <1>0, <1>n, <2>6 DEF StartFailed, ControlOK, Goto, Others, SameRequest, Request
  <2>7. CASE Healthy(p)
    BY <1>0, <1>n, <2>7 DEF Healthy, ControlOK, Goto, Others, SameRequest, Request
  <2>8. CASE Unhealthy(p)
    BY <1>0, <1>n, <2>8 DEF Unhealthy, ControlOK, Goto, Others, SameRequest, Request
  <2>9. CASE Cleanup(p)
    BY <1>0, <1>n, <2>9 DEF Cleanup, ControlOK, Goto, Others, SameRequest, Request
  <2>10. CASE CommitEnvironment(p)
    BY <1>0, <1>n, <2>10 DEF CommitEnvironment, ControlOK, Goto, Others, SameRequest, Request
  <2>11. CASE SaveRecord(p)
    BY <1>0, <1>n, <2>11 DEF SaveRecord, ControlOK, Goto, Others, SameRequest, Request
  <2>12. CASE RollbackEnvironment(p)
    BY <1>0, <1>n, <2>12 DEF RollbackEnvironment, ControlOK, Goto, Others, SameRequest, Request
  <2>13. CASE RestoreRecord(p)
    BY <1>0, <1>n, <2>13 DEF RestoreRecord, ControlOK, Goto, Others, SameRequest, Request
  <2>14. CASE RecordHistory(p)
    BY <1>0, <1>n, <2>14 DEF RecordHistory, ControlOK, Goto, Others, SameRequest, Request
  <2>15. CASE RetireOld(p)
    BY <1>0, <1>n, <2>15 DEF RetireOld, ControlOK, Goto, Others, SameRequest, Request
  <2>16. CASE RestartStop(p)
    BY <1>0, <1>n, <2>16 DEF RestartStop, ControlOK, Goto, Others, SameRequest, Request
  <2>17. CASE RestartUp(p)
    BY <1>0, <1>n, <2>17 DEF RestartUp, ControlOK, Goto, Others, SameRequest, Request
  <2>18. CASE DeleteContainer(p)
    BY <1>0, <1>n, <2>18 DEF DeleteContainer, ControlOK, Goto, Others, SameRequest, Request
  <2>19. CASE DeleteHistoryImages(p)
    BY <1>0, <1>n, <2>19 DEF DeleteHistoryImages, ControlOK, Goto, Others, SameRequest, Request
  <2>20. CASE DeleteHistory(p)
    BY <1>0, <1>n, <2>20 DEF DeleteHistory, ControlOK, Goto, Others, SameRequest, Request
  <2>21. CASE DeleteImage(p)
    BY <1>0, <1>n, <2>21 DEF DeleteImage, ControlOK, Goto, Others, SameRequest, Request
  <2>22. CASE DeleteEnvironment(p)
    BY <1>0, <1>n, <2>22 DEF DeleteEnvironment, ControlOK, Goto, Others, SameRequest, Request
  <2>23. CASE DeleteRecord(p)
    BY <1>0, <1>n, <2>23 DEF DeleteRecord, ControlOK, Goto, Others, SameRequest, Request
  <2> QED
    BY <2>1, <2>2, <2>3, <2>4, <2>5, <2>6, <2>7, <2>8, <2>9, <2>10, <2>11, <2>12, <2>13, <2>14, <2>15, <2>16, <2>17, <2>18, <2>19, <2>20, <2>21, <2>22, <2>23 DEF Lock, Work
<1> QED BY <1>f, <1>n

LEMMA SyncOthers ==
    ASSUME TypeOK, NEW t \in Threads, Sync(t)
    PROVE  /\ Others(t)
           /\ \/ Finish(t)
              \/ /\ req'[t].kind = req[t].kind /\ req'[t].app = req[t].app
                 /\ req'[t].old = req[t].old
                 /\ req'[t].snap \in {req[t].snap, store}
<1> USE TypeParts
<1>0. req[t] \in Request
  BY DEF ControlOK
<1>1. CASE Finish(t)
  BY <1>1, FinishOthers
<1>2. CASE ~Finish(t)
  <2>1. /\ \E s \in Steps : pc' = [pc EXCEPT ![t] = s]
        /\ req' = req \/ req' = [req EXCEPT ![t].snap = store]
    BY <1>2 DEF Sync, SyncList, SyncWrite, SyncReload, AfterSync, Goto
  <2> QED
    BY <1>0, <2>1 DEF ControlOK, Others, Request
<1> QED BY <1>1, <1>2

-----------------------------------------------------------------------------
(***************************************************************************)
(* deployMu is held exactly by the process in the critical section.        *)
(***************************************************************************)
LEMMA FinishMutex ==
    ASSUME ControlOK, MutexHeld, NEW t \in Threads, Finish(t)
    PROVE  MutexHeld'
<1>1. Others(t) /\ pc'[t] = "idle"
  BY FinishOthers
<1>2. mu' = IF mu = t THEN None ELSE mu
  BY DEF Finish
<1> QED
  BY <1>1, <1>2, ConstantsAssumption DEF MutexHeld, InCriticalSection, Others, Locked, ControlOK

LEMMA WorkMutex ==
    ASSUME TypeOK, MutexHeld, NEW p \in Procs, Lock(p) \/ Work(p)
    PROVE  MutexHeld'
<1> USE TypeParts, ConstantsAssumption, WorkOthers
<1>0. CASE Finish(p)
  BY <1>0, FinishMutex
<1> SUFFICES ASSUME ~Finish(p) PROVE MutexHeld'
  BY <1>0
<1>a. SameRequest(p) /\ Others(p) /\ RequestOK(p)
  BY DEF ControlOK
<1> USE <1>a DEF MutexHeld, InCriticalSection, Others, SameRequest, Locked, ControlOK, RequestOK
<1>1. CASE LockDeploy(p) BY <1>1 DEF LockDeploy, Goto
<1>2. CASE LockRedeploy(p) BY <1>2 DEF LockRedeploy, Goto
<1>3. CASE LockRollback(p)
  <2>1. pc[p] = "lock" /\ pc' = [pc EXCEPT ![p] = "start"] /\ mu = None /\ mu' = p
    BY <1>3 DEF LockRollback, Goto
  <2> QED BY <2>1
<1>4. CASE Build(p) BY <1>4 DEF Build, Goto
<1>5. CASE StartOK(p) BY <1>5 DEF StartOK, Goto
<1>6. CASE StartFailed(p) BY <1>6 DEF StartFailed, Goto
<1>7. CASE Healthy(p) BY <1>7 DEF Healthy, Goto
<1>8. CASE Unhealthy(p) BY <1>8 DEF Unhealthy, Goto
<1>9. CASE Cleanup(p) BY <1>9 DEF Cleanup, Goto
<1>10. CASE CommitEnvironment(p) BY <1>10 DEF CommitEnvironment, Goto
<1>11. CASE SaveRecord(p) BY <1>11 DEF SaveRecord, Goto
<1>12. CASE RollbackEnvironment(p) BY <1>12 DEF RollbackEnvironment, Goto
<1>13. CASE RestoreRecord(p) BY <1>13 DEF RestoreRecord, Goto
<1>14. CASE RecordHistory(p) BY <1>14 DEF RecordHistory, Goto
<1>15. CASE RetireOld(p) BY <1>15 DEF RetireOld, Goto
<1>16. CASE RestartStop(p) BY <1>16 DEF RestartStop, Goto
<1>17. CASE RestartUp(p) BY <1>17 DEF RestartUp, Goto
<1>18. CASE DeleteContainer(p) BY <1>18 DEF DeleteContainer, Goto
<1>19. CASE DeleteHistoryImages(p) BY <1>19 DEF DeleteHistoryImages, Goto
<1>20. CASE DeleteHistory(p) BY <1>20 DEF DeleteHistory, Goto
<1>21. CASE DeleteImage(p) BY <1>21 DEF DeleteImage, Goto
<1>22. CASE DeleteEnvironment(p) BY <1>22 DEF DeleteEnvironment, Goto
<1>23. CASE DeleteRecord(p) BY <1>23 DEF DeleteRecord, Goto
<1> QED
  BY <1>1, <1>2, <1>3, <1>4, <1>5, <1>6, <1>7, <1>8, <1>9, <1>10, <1>11, <1>12, <1>13, <1>14, <1>15, <1>16, <1>17, <1>18, <1>19, <1>20, <1>21, <1>22, <1>23 DEF Lock, Work

LEMMA NextMutex == ASSUME TypeOK, MutexHeld, [Next]_vars PROVE MutexHeld'
<1> USE TypeParts, ConstantsAssumption
<1>1. ASSUME NEW p \in Procs, Arrival(p) PROVE MutexHeld'
  <2>1. PICK kind \in Kinds, a \in Apps, ask \in Envs \cup {Keep},
             first \in {"lock", "stop", "rm_container"} : Begin(p, kind, a, ask, first)
    BY <1>1 DEF Arrival, deployHandler, redeployHandler, githubWebhookHandler,
                rollbackDeploymentHandler, restartDeploymentHandler, deleteDeploymentHandler
  <2>2. /\ pc[p] = "idle" /\ pc'[p] = first /\ mu' = mu
        /\ \A q \in Procs \ {p} : pc'[q] = pc[q] /\ req'[q] = req[q]
    BY <2>1 DEF Begin, Goto, ControlOK
  <2> QED
    BY <2>2 DEF MutexHeld, InCriticalSection, Locked
<1>2. ASSUME NEW p \in Procs, Lock(p) \/ Work(p) PROVE MutexHeld'
  BY <1>2, WorkMutex
<1>3. ASSUME NEW t \in Threads, Sync(t) PROVE MutexHeld'
  <2>1. CASE Finish(t)
    BY <2>1, FinishMutex
  <2>2. CASE ~Finish(t)
    <3>1. Others(t) /\ req'[t].kind = req[t].kind
      BY <1>3, <2>2, SyncOthers
    <3>2. PICK s \in Syncing \cup {"record", "restore", "env_rollback"} :
            /\ pc[t] \in Syncing /\ mu' = mu
            /\ pc' = [pc EXCEPT ![t] = s]
            /\ s \in Syncing \/ req[t].kind \in Cutovers
      BY <1>3, <2>2 DEF Sync, SyncList, SyncWrite, SyncReload, AfterSync, Goto
    <3>3. pc'[t] \in Syncing \/ (req[t].kind \in Cutovers /\ pc'[t] \in Locked)
      <4>1. pc'[t] = s BY <3>2 DEF ControlOK
      <4> QED BY <3>2, <4>1 DEF Locked
    <3> QED
      BY <3>1, <3>2, <3>3 DEF MutexHeld, InCriticalSection, Others, Locked
  <2> QED BY <2>1, <2>2
<1>4. CASE Crash
  BY <1>4 DEF Crash, MutexHeld, InCriticalSection, Locked
<1>5. CASE UNCHANGED vars
  BY <1>5 DEF vars, MutexHeld, InCriticalSection
<1> QED BY <1>1, <1>2, <1>3, <1>4, <1>5 DEF Next

\* deployMu excludes: between Lock and Unlock of deployRepository, safeRedeploy
\* and rollbackDeployment there is one request at most, the one that holds it,
\* and no return or crash leaves it held by nobody.
THEOREM MutualExclusion == Spec => []MutexHeld
<1>1. Init => TypeOK /\ MutexHeld
  <2>1. Init => TypeOK BY InitType
  <2>2. Init => MutexHeld
    BY ConstantsAssumption DEF Init, MutexHeld, InCriticalSection, Locked
  <2> QED BY <2>1, <2>2
<1>2. (TypeOK /\ MutexHeld) /\ [Next]_vars => (TypeOK /\ MutexHeld)'
  BY NextType, NextMutex
<1> QED BY <1>1, <1>2, PTL DEF Spec

-----------------------------------------------------------------------------
(***************************************************************************)
(* Nothing is saved or routed to that has not passed its checks.           *)
(***************************************************************************)
LEMMA PassedGrows ==
    ASSUME verified \subseteq verified'
    PROVE  /\ \A R : Passed(R) => Passed(R)'
           /\ \A a, r : HasPassed(a, r) => HasPassed(a, r)'
BY DEF Passed, HasPassed

LEMMA WorkPassed ==
    ASSUME TypeOK, OnlyVerifiedRouted, NEW p \in Procs, Lock(p) \/ Work(p)
    PROVE  OnlyVerifiedRouted'
<1> USE TypeParts, ConstantsAssumption
<1>0. Working(p) /\ RequestOK(p) /\ req[p].app \in Apps /\ Promoted(p)
  BY Locals DEF Lock, Work, Working, LockDeploy, LockRedeploy, LockRollback, Build, StartOK, StartFailed, Healthy, Unhealthy, Cleanup, CommitEnvironment, SaveRecord, RollbackEnvironment, RestoreRecord, RecordHistory, RetireOld, RestartStop, RestartUp, DeleteContainer, DeleteHistoryImages, DeleteHistory, DeleteImage, DeleteEnvironment, DeleteRecord, OnlyVerifiedRouted
<1>1. verified \subseteq verified' /\ routeFile' = routeFile /\ routes' = routes
  BY DEF Lock, Work, LockDeploy, LockRedeploy, LockRollback, Build, StartOK, StartFailed, Healthy, Unhealthy, Cleanup, CommitEnvironment, SaveRecord, RollbackEnvironment, RestoreRecord, RecordHistory, RetireOld, RestartStop, RestartUp, DeleteContainer, DeleteHistoryImages, DeleteHistory, DeleteImage, DeleteEnvironment, DeleteRecord, docker, caddy
<1>2. Passed(store)'
  <2>1. \/ store' = store
        \/ pc[p] = "save" /\ store' = [store EXCEPT ![req[p].app] = req[p].cand]
        \/ pc[p] = "restore" /\ store' = [store EXCEPT ![req[p].app] = req[p].old]
        \/ store' = [store EXCEPT ![req[p].app] = None]
    BY DEF Lock, Work, LockDeploy, LockRedeploy, LockRollback, Build, StartOK, StartFailed, Healthy, Unhealthy, Cleanup, CommitEnvironment, SaveRecord, RollbackEnvironment, RestoreRecord, RecordHistory, RetireOld, RestartStop, RestartUp, DeleteContainer, DeleteHistoryImages, DeleteHistory, DeleteImage, DeleteEnvironment, DeleteRecord, files
  <2>2. pc[p] = "restore" => HasPassed(req[p].app, req[p].old)
    BY <1>0 DEF Promoted, RequestOK
  <2>3. pc[p] = "save" => HasPassed(req[p].app, req[p].cand)
    BY <1>0 DEF Promoted
  <2> QED
    BY <1>1, <2>1, <2>2, <2>3 DEF OnlyVerifiedRouted, Passed, HasPassed, DataOK, Routes
<1>3. ASSUME NEW t \in Threads PROVE Passed(req[t].snap)'
  <2>1. req'[t].snap \in {req[t].snap, NoRoutes}
    BY WorkOthers, FinishOthers DEF Others, SameRequest, NoRequest
  <2> QED
    BY <1>1, <2>1, PassedGrows DEF OnlyVerifiedRouted, Passed, NoRoutes
<1>4. ASSUME NEW q \in Procs PROVE Promoted(q)'
  <2>1. CASE q # p
    BY <1>1, <2>1, WorkOthers DEF Others, Promoted, OnlyVerifiedRouted, Working, HasPassed
  <2>2. CASE q = p /\ Finish(p)
    BY <2>2, FinishOthers DEF Promoted, Working
  <2>3. CASE q = p /\ ~Finish(p)
    <3>1. SameRequest(p)
      BY <2>3, WorkOthers
    <3>2. HasPassed(req[p].app, req[p].old)' \/ req[p].kind = "deploy"
      BY <1>0, <1>1, <3>1 DEF Promoted, HasPassed, SameRequest
    <3>3. pc'[p] \in {"commit", "save"} =>
            /\ req' = req
            /\ \/ pc[p] = "verify" /\ <<req[p].app, req[p].name, req[p].img>> \in verified'
               \/ pc[p] = "commit"
      BY <2>3 DEF Lock, Work, LockDeploy, LockRedeploy, LockRollback, Build, StartOK, StartFailed, Healthy, Unhealthy, Cleanup, CommitEnvironment, SaveRecord, RollbackEnvironment, RestoreRecord, RecordHistory, RetireOld, RestartStop, RestartUp, DeleteContainer, DeleteHistoryImages, DeleteHistory, DeleteImage, DeleteEnvironment, DeleteRecord, Goto, ControlOK
    <3>4. pc'[p] \in {"commit", "save"} => HasPassed(req[p].app, req[p].cand)'
      BY <1>0, <1>1, <3>3 DEF RequestOK, HasCandidate, Promoted, HasPassed
    <3> QED
      BY <2>3, <3>1, <3>2, <3>4 DEF Promoted, SameRequest, HasPassed
  <2> QED BY <2>1, <2>2, <2>3
<1> QED
  BY <1>1, <1>2, <1>3, <1>4, PassedGrows DEF OnlyVerifiedRouted

LEMMA SyncPassed ==
    ASSUME TypeOK, OnlyVerifiedRouted, NEW t \in Threads, Sync(t)
    PROVE  OnlyVerifiedRouted'
<1> USE TypeParts, ConstantsAssumption
<1>1. /\ verified' = verified /\ store' = store
      /\ routeFile' \in {routeFile, req[t].snap} /\ routes' \in {routes, routeFile}
  BY DEF Sync, SyncList, SyncWrite, SyncReload, files, caddy
<1>2. Passed(store)' /\ Passed(routeFile)' /\ Passed(routes)'
  BY <1>1 DEF OnlyVerifiedRouted, Passed, HasPassed
<1>3. ASSUME NEW u \in Threads PROVE Passed(req[u].snap)'
  <2>1. req'[u].snap \in {req[u].snap, store, NoRoutes}
    BY SyncOthers, FinishOthers DEF Others, NoRequest
  <2> QED
    BY <1>1, <2>1 DEF OnlyVerifiedRouted, Passed, HasPassed, NoRoutes
<1>4. ASSUME NEW q \in Procs PROVE Promoted(q)'
  <2>1. CASE q # t
    BY <1>1, <2>1, SyncOthers DEF Others, Promoted, OnlyVerifiedRouted, Working, HasPassed
  <2>2. CASE q = t /\ Finish(t)
    BY <2>2, FinishOthers DEF Promoted, Working
  <2>3. CASE q = t /\ ~Finish(t)
    <3>1. /\ req'[q].kind = req[q].kind /\ req'[q].app = req[q].app /\ req'[q].old = req[q].old
          /\ pc[q] # "idle"
      BY <2>3, SyncOthers DEF Sync, SyncList, SyncWrite, SyncReload
    <3>2. PICK s \in Syncing \cup {"record", "restore", "env_rollback"} :
            pc' = [pc EXCEPT ![q] = s]
      BY <2>3 DEF Sync, SyncList, SyncWrite, SyncReload, AfterSync, Goto
    <3>3. pc'[q] = s
      BY <3>2 DEF ControlOK
    <3> QED
      BY <1>1, <3>1, <3>2, <3>3 DEF Promoted, OnlyVerifiedRouted, Working, HasPassed
  <2> QED BY <2>1, <2>2, <2>3
<1> QED BY <1>2, <1>3, <1>4 DEF OnlyVerifiedRouted

LEMMA NextPassed ==
    ASSUME TypeOK, OnlyVerifiedRouted, [Next]_vars
    PROVE  OnlyVerifiedRouted'
<1> USE TypeParts, ConstantsAssumption
<1>1. ASSUME NEW p \in Procs, Arrival(p) PROVE OnlyVerifiedRouted'
  <2>1. PICK kind \in Kinds, a \in Apps, ask \in Envs \cup {Keep},
             first \in {"lock", "stop", "rm_container"} :
               Begin(p, kind, a, ask, first) /\ (store[a] # None \/ kind = "deploy")
    BY <1>1 DEF Arrival, deployHandler, redeployHandler, githubWebhookHandler,
                rollbackDeploymentHandler, restartDeploymentHandler, deleteDeploymentHandler
  <2> DEFINE r == [NoRequest EXCEPT !.kind = kind, !.app = a, !.ask = ask, !.old = store[a]]
  <2>2. /\ r.kind = kind /\ r.app = a /\ r.old = store[a] /\ r.snap = NoRoutes
    BY DEF NoRequest
  <2>3. /\ pc' = [pc EXCEPT ![p] = first] /\ req' = [req EXCEPT ![p] = r]
        /\ UNCHANGED <<store, routeFile, routes, verified>>
    BY <2>1 DEF Begin, Goto, files, caddy
  <2> HIDE DEF r
  <2>4. \A t \in Threads : Passed(req[t].snap)'
    BY <2>2, <2>3 DEF OnlyVerifiedRouted, Passed, HasPassed, NoRoutes, ControlOK
  <2>5. \A q \in Procs : Promoted(q)'
    BY <2>1, <2>2, <2>3 DEF OnlyVerifiedRouted, Promoted, Passed, HasPassed, Working, ControlOK
  <2> QED
    BY <2>3, <2>4, <2>5 DEF OnlyVerifiedRouted, Passed, HasPassed
<1>2. ASSUME NEW p \in Procs, Lock(p) \/ Work(p) PROVE OnlyVerifiedRouted'
  BY <1>2, WorkPassed
<1>3. ASSUME NEW t \in Threads, Sync(t) PROVE OnlyVerifiedRouted'
  BY <1>3, SyncPassed
<1>4. CASE Crash
  <2>1. /\ UNCHANGED <<store, routeFile, routes, verified>>
        /\ pc' = [t \in Threads |-> IF t = Main THEN "list" ELSE "idle"]
        /\ \A t \in Threads : req'[t].snap = NoRoutes
    BY <1>4 DEF Crash, files, caddy, NoRequest
  <2> QED
    BY <2>1 DEF OnlyVerifiedRouted, Passed, HasPassed, Promoted, Working, NoRoutes
<1>5. CASE UNCHANGED vars
  BY <1>5 DEF vars, OnlyVerifiedRouted, Passed, HasPassed, Promoted, Working
<1> QED BY <1>1, <1>2, <1>3, <1>4, <1>5 DEF Next

LEMMA InitPassed == ASSUME Init PROVE OnlyVerifiedRouted
<1>1. PICK port \in [Deployed -> Ports] :
        /\ store = [a \in Apps |-> IF a \in Deployed THEN FirstRecord(port[a]) ELSE None]
        /\ routeFile = store /\ routes = store /\ verified = Deployed \X {0} \X {1}
        /\ pc = [t \in Threads |-> IF t = Main THEN "list" ELSE "idle"]
  BY DEF Init
<1>2. \A t \in Threads : req[t].snap = NoRoutes
  BY DEF Init, NoRequest
<1>3. Passed(store)
  BY <1>1 DEF Passed, HasPassed, FirstRecord
<1> QED
  BY <1>1, <1>2, <1>3, ConstantsAssumption
     DEF OnlyVerifiedRouted, Passed, Promoted, Working, NoRoutes

\* In every interleaving, and whatever fails or crashes, only releases that
\* passed the startup and the HTTP checks are recorded, routed to, or on their
\* way to be: the restored record of a failed cutover too.
THEOREM VerifiedRouting == Spec => []OnlyVerifiedRouted
<1>1. Init => TypeOK /\ OnlyVerifiedRouted
  BY InitType, InitPassed
<1>2. (TypeOK /\ OnlyVerifiedRouted) /\ [Next]_vars => (TypeOK /\ OnlyVerifiedRouted)'
  BY NextType, NextPassed
<1> QED BY <1>1, <1>2, PTL DEF Spec

-----------------------------------------------------------------------------
(***************************************************************************)
(* Deletions, with one request at a time.                                  *)
(***************************************************************************)
\* One request at a time.
Serial == \A p, q \in Procs : p = q

\* What a deletion has done by the step it is at.
Deleted(p) == LET r == req[p] IN
    /\ pc[p] \in Deleting => store[r.app] = r.old
    /\ pc[p] = "rm_record" => envFile[r.app] = EmptyEnv
    /\ faults = 0 /\ pc[p] \in Deleting \ {"rm_container"} => Named(r.app, r.old.name) = {}

\* Without failures and crashes: a container is the recorded one, or that of a
\* request which records or removes it.
OfRecord(c) == store[c.app] # None /\ c.name = store[c.app].name

Handles(p, c) == LET r == req[p] IN
    /\ c.app = r.app
    /\ \/ pc[p] \in {"verify", "commit", "save", "cleanup"} /\ c.name = r.name
       \/ pc[p] \in Syncing \cup {"record", "retire"} /\ r.kind \in Cutovers /\ c.name = r.old.name

\* Where a request without trouble is, and what it has written by then.
Untroubled(p) == LET r == req[p] IN
    /\ pc[p] \notin {"env_rollback", "restore"} /\ ~r.restoring
    /\ pc[p] \in Releasing \cup {"rm_container"} =>
         IF r.kind = "deploy" THEN store[r.app] = None ELSE store[r.app] = r.old
    /\ pc[p] \in Syncing \cup {"record", "retire"} /\ r.kind \in Releases => store[r.app] = r.cand
    /\ pc[p] \in Deleting \ {"rm_container"} =>
         store[r.app] = r.old /\ \A c \in containers : c.app # r.app
    /\ pc[p] \in {"rm_image", "rm_env", "rm_record"} => history[r.app] = {}
    /\ pc[p] = "rm_record" => envFile[r.app] = EmptyEnv

\* What a synchronization is about to write, and to load, is what is recorded.
UpToDate(t) ==
    /\ pc[t] = "write"  => req[t].snap = store
    /\ pc[t] = "reload" => routeFile = store

\* Caddy serves the records, and an application without one has nothing else.
Routed(a) == routes[a] = store[a] \/ \E p \in Procs : pc[p] \in Syncing /\ req[p].app = a

Vacant(a) == store[a] = None =>
    /\ history[a] = {}
    /\ envFile[a] = EmptyEnv \/ \E p \in Procs : pc[p] = "save" /\ req[p].app = a

CleanInv == faults = 0 /\ crashes = 0 =>
    /\ \A c \in containers : OfRecord(c) \/ \E p \in Procs : Handles(p, c)
    /\ \A a \in Apps : Routed(a) /\ Vacant(a)
    /\ \A p \in Procs : Untroubled(p)
    /\ \A t \in Threads : UpToDate(t)
    /\ pc[Main] # "idle" => \A p \in Procs : pc[p] = "idle"

\* The same, of the one request there is.
Clean(p) ==
    /\ \A c \in containers : OfRecord(c) \/ Handles(p, c)
    /\ \A a \in Apps : routes[a] = store[a] \/ (pc[p] \in Syncing /\ req[p].app = a)
    /\ \A a \in Apps : store[a] = None =>
         /\ history[a] = {}
         /\ envFile[a] = EmptyEnv \/ (pc[p] = "save" /\ req[p].app = a)
    /\ Untroubled(p) /\ UpToDate(p) /\ UpToDate(Main)
    /\ pc[Main] # "idle" => pc[p] = "idle"

LEMMA OneClean ==
    ASSUME Serial, NEW p \in Procs
    PROVE  /\ CleanInv  <=> (faults = 0 /\ crashes = 0 => Clean(p))
           /\ CleanInv' <=> (faults' = 0 /\ crashes' = 0 => Clean(p)')
<1>1. \A q \in Procs : q = p
  BY DEF Serial
<1> QED BY <1>1 DEF CleanInv, Clean, Routed, Vacant

-----------------------------------------------------------------------------
\* A request that ends.
LEMMA CleanEnd ==
    ASSUME TypeOK, NEW p \in Procs, Clean(p), Working(p), Finish(p),
           \A c \in containers' : OfRecord(c)', \A a \in Apps : routes'[a] = store'[a],
           \A a \in Apps : store'[a] = None => history'[a] = {} /\ envFile'[a] = EmptyEnv
    PROVE  Clean(p)'
<1>1. pc'[p] = "idle" /\ ~req'[p].restoring
  BY FinishOthers, TypeParts DEF NoRequest
<1>2. Untroubled(p)' /\ UpToDate(p)'
  BY <1>1 DEF Untroubled, UpToDate
<1>3. pc'[Main] = "idle"
  BY FinishOthers, TypeParts, ConstantsAssumption DEF Clean, Working, Others
<1> QED BY <1>1, <1>2, <1>3 DEF Clean, UpToDate

\* A release that goes on to its promotion.
LEMMA CleanOn ==
    ASSUME TypeOK, NEW p \in Procs, Clean(p), Others(p),
           pc[p] \in Releasing, pc'[p] \in Releasing \ {"env_rollback"},
           req'[p].app = req[p].app, req'[p].old = req[p].old, req'[p].kind = req[p].kind,
           req'[p].restoring = req[p].restoring, UNCHANGED <<store, history, routes>>,
           \A c \in containers' : OfRecord(c)' \/ Handles(p, c)',
           \A a \in Apps : store[a] = None =>
               envFile'[a] = EmptyEnv \/ (pc'[p] = "save" /\ req'[p].app = a)
    PROVE  Clean(p)'
<1>1. Untroubled(p)' /\ UpToDate(p)'
  BY DEF Clean, Untroubled, UpToDate
<1>2. pc'[Main] = "idle"
  BY ConstantsAssumption DEF Clean, Others
<1>3. \A a \in Apps : routes'[a] = store'[a]
  BY DEF Clean
<1>4. \A a \in Apps : store'[a] = None => history'[a] = {}
  BY DEF Clean
<1> QED BY <1>1, <1>2, <1>3, <1>4 DEF Clean, UpToDate

\* What holds of a release on its way to the promotion.
LEMMA CleanFacts ==
    ASSUME TypeOK, NEW p \in Procs, Clean(p), pc[p] \in Releasing
    PROVE  /\ \A a \in Apps : routes[a] = store[a]
           /\ \A a \in Apps : store[a] = None => history[a] = {}
           /\ pc[p] # "save" => \A a \in Apps : store[a] = None => envFile[a] = EmptyEnv
           /\ pc[p] \notin {"verify", "commit", "save", "cleanup"} => \A c \in containers : OfRecord(c)
           /\ req[p] \in Request /\ req[p].app \in Apps /\ req[p].kind \in Releases
           /\ req[p].kind # "deploy" => req[p].old \in Record /\ store[req[p].app] = req[p].old
           /\ req[p].kind = "deploy" => store[req[p].app] = None
BY DEF Clean, Untroubled, Handles, TypeOK, RequestOK, Working

LEMMA CleanStart ==
    ASSUME TypeOK, NEW p \in Procs, Clean(p), faults = 0, faults' = 0,
           \/ LockDeploy(p) \/ LockRedeploy(p) \/ LockRollback(p) \/ Build(p)
           \/ StartOK(p) \/ StartFailed(p)
    PROVE  Clean(p)'
<1>1. /\ pc[p] \in Releasing \ {"verify", "commit", "save", "cleanup"}
      /\ UNCHANGED <<store, history, envFile, routes>>
  BY DEF LockDeploy, LockRedeploy, LockRollback, Build, StartOK, StartFailed, files, caddy
<1>2. /\ \A a \in Apps : routes[a] = store[a]
      /\ \A a \in Apps : store[a] = None => history[a] = {} /\ envFile[a] = EmptyEnv
      /\ \A c \in containers : OfRecord(c)
      /\ req[p] \in Request
  BY <1>1, CleanFacts
<1>3. pc \in [Threads -> Steps] /\ req \in [Threads -> Request]
  BY DEF TypeOK
<1>4. \A c \in containers : OfRecord(c)'
  BY <1>1, <1>2 DEF OfRecord
<1>5. CASE Finish(p)
  <2>1. containers' = containers
    <3>1. pc'[p] = "idle"
      BY <1>5, FinishOthers, TypeParts
    <3>2. ~StartOK(p)
      BY <1>3, <3>1 DEF StartOK, Goto
    <3>3. StartFailed(p) => containers' = containers
      BY DEF StartFailed, Fault
    <3> QED BY <3>2, <3>3 DEF LockDeploy, LockRedeploy, LockRollback, Build, docker
  <2> QED BY <1>1, <1>2, <1>4, <1>5, <2>1, CleanEnd DEF Working
<1>6. CASE ~Finish(p)
  <2>1. Others(p) /\ SameRequest(p)
    BY <1>6, WorkOthers DEF Lock, Work
  <2>2. CASE StartOK(p)
    <3>1. PICK q \in Ports :
            /\ containers' = containers \cup {Candidate(p, q, TRUE)} /\ pc' = [pc EXCEPT ![p] = "verify"]
            /\ req' = [req EXCEPT ![p].cand =
                         [name |-> req[p].name, img |-> req[p].img, port |-> q, env |-> Effective(p)]]
      BY <2>2 DEF StartOK, Goto
    <3>2. /\ pc'[p] = "verify" /\ req'[p].app = req[p].app /\ req'[p].name = req[p].name
          /\ req'[p].old = req[p].old /\ req'[p].kind = req[p].kind
          /\ req'[p].restoring = req[p].restoring
      BY <1>2, <1>3, <3>1 DEF Request
    <3>3. PICK c0 : c0 = Candidate(p, q, TRUE)
      OBVIOUS
    <3>4. containers' = containers \cup {c0} /\ c0.app = req[p].app /\ c0.name = req[p].name
      BY <3>1, <3>3 DEF Candidate
    <3>5. Handles(p, c0)'
      BY <3>2, <3>4 DEF Handles
    <3>6. \A c \in containers' : OfRecord(c)' \/ Handles(p, c)'
      BY <1>4, <3>4, <3>5
    <3> QED BY <1>1, <1>2, <2>1, <3>2, <3>6, CleanOn
  <2>3. CASE ~StartOK(p)
    <3>1. containers' = containers /\ \E s \in {"build", "start"} : pc' = [pc EXCEPT ![p] = s]
      BY <1>6, <2>3 DEF LockDeploy, LockRedeploy, LockRollback, Build, StartFailed, docker, Goto
    <3>2. pc'[p] \in {"build", "start"}
      BY <1>3, <3>1
    <3>3. req'[p].restoring = req[p].restoring
      <4>1. CASE LockDeploy(p) \/ LockRedeploy(p)
        <5>1. req'[p] = [req[p] EXCEPT !.prevEnv = envFile[req[p].app]]
          BY <1>3, <1>6, <4>1 DEF LockDeploy, LockRedeploy
        <5> QED BY <1>2, <5>1 DEF Request
      <4>2. CASE LockRollback(p)
        <5>1. PICK v : req'[p] = [req[p] EXCEPT !.prevEnv = envFile[req[p].app], !.img = v.img,
                              !.name = clock + 1, !.seen = history[req[p].app]]
          BY <1>3, <1>6, <4>2 DEF LockRollback
        <5> QED BY <1>2, <5>1 DEF Request
      <4>3. CASE Build(p)
        <5>1. req'[p] = [req[p] EXCEPT !.img = clock + 1,
                           !.name = IF req[p].kind = "deploy" THEN 0 ELSE clock + 1]
          BY <1>3, <1>6, <4>3 DEF Build
        <5> QED BY <1>2, <5>1 DEF Request
      <4> QED BY <1>6, <2>3, <4>1, <4>2, <4>3 DEF StartFailed
    <3> QED BY <1>1, <1>2, <1>4, <2>1, <3>1, <3>2, <3>3, CleanOn DEF SameRequest
  <2> QED BY <2>2, <2>3
<1> QED BY <1>5, <1>6

LEMMA CleanVerify ==
    ASSUME TypeOK, NEW p \in Procs, Clean(p), faults = 0, faults' = 0,
           Healthy(p) \/ Unhealthy(p) \/ CommitEnvironment(p) \/ Cleanup(p)
    PROVE  Clean(p)'
<1>1. /\ pc[p] \in {"verify", "commit", "cleanup"} /\ UNCHANGED <<store, history, routes>>
  BY DEF Healthy, Unhealthy, CommitEnvironment, Cleanup, files, caddy
<1>2. /\ \A a \in Apps : routes[a] = store[a]
      /\ \A a \in Apps : store[a] = None => history[a] = {} /\ envFile[a] = EmptyEnv
      /\ req[p] \in Request /\ req[p].app \in Apps
  BY <1>1, CleanFacts
<1>3. pc \in [Threads -> Steps] /\ req \in [Threads -> Request] /\ envFile \in [Apps -> Envs]
  BY DEF TypeOK
<1>4. \A c \in containers : OfRecord(c) \/ (c.app = req[p].app /\ c.name = req[p].name)
  BY <1>1 DEF Clean, Handles
<1>5. \A c \in containers : OfRecord(c) => OfRecord(c)'
  BY <1>1 DEF OfRecord
<1>6. CASE Cleanup(p)
  <2>1. containers' = containers \ Named(req[p].app, req[p].name) /\ envFile' = envFile /\ Finish(p)
    BY <1>6 DEF Cleanup, Fault, files
  <2>2. \A c \in containers' : OfRecord(c)'
    BY <1>4, <1>5, <2>1 DEF Named
  <2> QED BY <1>1, <1>2, <2>1, <2>2, CleanEnd DEF Working
<1>7. CASE ~Cleanup(p)
  <2>1. /\ containers' = containers /\ req' = req
        /\ \/ pc' = [pc EXCEPT ![p] = "cleanup"] /\ envFile' = envFile
           \/ pc' = [pc EXCEPT ![p] = "commit"] /\ envFile' = envFile
           \/ pc' = [pc EXCEPT ![p] = "save"]
              /\ envFile' \in {envFile, [envFile EXCEPT ![req[p].app] = req[p].ask]}
    BY <1>7 DEF Healthy, Unhealthy, CommitEnvironment, Fault, Goto, docker, files
  <2>2. /\ req'[p] = req[p]
        /\ \/ pc'[p] \in {"cleanup", "commit"} /\ envFile' = envFile
           \/ pc'[p] = "save" /\ \A a \in Apps \ {req[p].app} : envFile'[a] = envFile[a]
    BY <1>3, <2>1
  <2>3. \A c \in containers' : OfRecord(c)' \/ Handles(p, c)'
    BY <1>4, <1>5, <2>1, <2>2 DEF Handles
  <2>4. Others(p)
    BY <1>3, <2>1 DEF Others
  <2>5. \A a \in Apps : store[a] = None =>
          envFile'[a] = EmptyEnv \/ (pc'[p] = "save" /\ req'[p].app = a)
    BY <1>2, <2>2
  <2> QED BY <1>1, <2>2, <2>3, <2>4, <2>5, CleanOn
<1> QED BY <1>6, <1>7

\* The promotion: the record of the candidate takes the place of the old one,
\* whose container is now the one to be retired.
LEMMA CleanSave ==
    ASSUME TypeOK, NEW p \in Procs, Clean(p), faults = 0, faults' = 0, SaveRecord(p)
    PROVE  Clean(p)'
<1>1. /\ pc[p] = "save" /\ pc' = [pc EXCEPT ![p] = "list"] /\ req' = req
      /\ store' = [store EXCEPT ![req[p].app] = req[p].cand]
      /\ UNCHANGED <<history, envFile, routes, containers>>
  BY DEF SaveRecord, Fault, Goto, docker, caddy
<1>2. /\ req[p].cand \in Record /\ req[p].cand.name = req[p].name
      /\ req[p].app \in Apps /\ req[p].kind \in Releases
      /\ pc \in [Threads -> Steps] /\ store \in [Apps -> Record \cup {None}]
  BY <1>1 DEF TypeOK, RequestOK, Working, HasCandidate, Routes
<1>3. /\ pc'[p] = "list" /\ req'[p] = req[p] /\ pc'[Main] = pc[Main]
      /\ store'[req[p].app] = req[p].cand
      /\ \A a \in Apps \ {req[p].app} : store'[a] = store[a]
  BY <1>1, <1>2, ConstantsAssumption
<1>4. req[p].cand # None
  BY <1>2, NoneAssumption
<1>5. /\ \A a \in Apps : routes[a] = store[a]
      /\ \A a \in Apps : store[a] = None => history[a] = {}
      /\ req[p].kind # "deploy" => req[p].old \in Record /\ store[req[p].app] = req[p].old
      /\ req[p].kind = "deploy" => store[req[p].app] = None
  BY <1>1, CleanFacts
<1>6. \A c \in containers : c.app \in Apps
  BY DEF TypeOK, Container
<1>7. ASSUME NEW c \in containers PROVE OfRecord(c)' \/ Handles(p, c)'
  <2>1. OfRecord(c) \/ (c.app = req[p].app /\ c.name = req[p].name)
    BY <1>1 DEF Clean, Handles
  <2>2. CASE c.app # req[p].app
    BY <1>3, <1>6, <2>1, <2>2 DEF OfRecord
  <2>3. CASE c.app = req[p].app /\ c.name = req[p].name
    BY <1>2, <1>3, <1>4, <2>3 DEF OfRecord
  <2>4. CASE c.app = req[p].app /\ OfRecord(c)
    BY <1>2, <1>3, <1>5, <2>4 DEF OfRecord, Handles
  <2> QED BY <2>1, <2>2, <2>3, <2>4
<1>8. Untroubled(p)' /\ UpToDate(p)'
  BY <1>1, <1>3 DEF Clean, Untroubled, UpToDate
<1>9. \A a \in Apps : store'[a] = None => history'[a] = {} /\ envFile'[a] = EmptyEnv
  BY <1>1, <1>3, <1>4, <1>5 DEF Clean
<1>10. pc'[Main] = "idle"
  BY <1>1, <1>3 DEF Clean
<1> QED BY <1>1, <1>3, <1>5, <1>7, <1>8, <1>9, <1>10 DEF Clean, UpToDate

\* After the cutover: the history of an application with a record, and the end
\* of the old container.  Nothing has to be undone.
LEMMA CleanSwitch ==
    ASSUME TypeOK, NEW p \in Procs, Clean(p), faults = 0, faults' = 0,
           RecordHistory(p) \/ RetireOld(p) \/ RollbackEnvironment(p) \/ RestoreRecord(p)
    PROVE  Clean(p)'
<1>1. RecordHistory(p) \/ RetireOld(p)
  BY DEF Clean, Untroubled, RollbackEnvironment, RestoreRecord
<1>2. /\ pc[p] \in {"record", "retire"} /\ UNCHANGED <<store, envFile, routes>>
  BY <1>1 DEF RecordHistory, RetireOld, files, caddy
<1>3. /\ req[p].cand \in Record /\ req[p].app \in Apps /\ req[p].kind \in Cutovers
      /\ pc \in [Threads -> Steps]
  BY <1>2 DEF TypeOK, RequestOK, Working, HasCandidate
<1>4. /\ \A a \in Apps : routes[a] = store[a]
      /\ \A a \in Apps : store[a] = None => history[a] = {} /\ envFile[a] = EmptyEnv
      /\ \A c \in containers : OfRecord(c) \/ (c.app = req[p].app /\ c.name = req[p].old.name)
      /\ store[req[p].app] = req[p].cand /\ ~req[p].restoring /\ pc[Main] = "idle"
  BY <1>2, <1>3 DEF Clean, Untroubled, Handles
<1>5. \A c : OfRecord(c) => OfRecord(c)'
  BY <1>2 DEF OfRecord
<1>6. CASE RecordHistory(p)
  <2>1. /\ pc' = [pc EXCEPT ![p] = "retire"] /\ req' = req /\ containers' = containers
        /\ \E H : history' = [history EXCEPT ![req[p].app] = H]
    BY <1>6 DEF RecordHistory, Fault, Goto
  <2>2. pc[p] = "record"
    BY <1>6 DEF RecordHistory
  <2>3. pc'[p] = "retire" /\ pc'[Main] = "idle" /\ req'[p] = req[p]
    BY <1>3, <1>4, <2>1, <2>2
  <2>4. \A a \in Apps : store[a] = None => history'[a] = {}
    <3>1. store[req[p].app] # None
      BY <1>3, <1>4, NoneAssumption
    <3>2. history \in [Apps -> SUBSET Version]
      BY DEF TypeOK
    <3> QED BY <1>4, <2>1, <3>1, <3>2
  <2>5. Untroubled(p)' /\ UpToDate(p)'
    BY <1>2, <1>3, <1>4, <2>3 DEF Untroubled, UpToDate
  <2>6. \A c \in containers' : OfRecord(c)' \/ Handles(p, c)'
    BY <1>3, <1>4, <1>5, <2>1, <2>3 DEF Handles
  <2> QED BY <1>2, <1>4, <2>3, <2>4, <2>5, <2>6 DEF Clean, UpToDate
<1>7. CASE RetireOld(p)
  <2>1. /\ containers' = containers \ Named(req[p].app, req[p].old.name) /\ Finish(p)
        /\ history' = history
    BY <1>7 DEF RetireOld, Fault, files
  <2>2. \A c \in containers' : OfRecord(c)'
    BY <1>4, <1>5, <2>1 DEF Named
  <2> QED BY <1>2, <1>4, <2>1, <2>2, CleanEnd DEF Working
<1> QED BY <1>1, <1>6, <1>7

\* The synchronization of a request writes what is recorded, and Caddy serves it.
LEMMA CleanSync ==
    ASSUME TypeOK, NEW p \in Procs, Clean(p), faults = 0, faults' = 0, Sync(p)
    PROVE  Clean(p)'
<1>1. pc[p] \in Syncing /\ UNCHANGED <<store, history, envFile, containers>>
  BY DEF Sync, SyncList, SyncWrite, SyncReload, files, docker
<1>2. /\ pc \in [Threads -> Steps] /\ req \in [Threads -> Request] /\ req[p] \in Request
      /\ p # Main /\ req[p].kind \in Releases \cup {"delete"}
  BY <1>1, ConstantsAssumption DEF TypeOK, RequestOK
<1>3. /\ \A a \in Apps \ {req[p].app} : routes[a] = store[a]
      /\ \A a \in Apps : store[a] = None => history[a] = {} /\ envFile[a] = EmptyEnv
      /\ \A c \in containers : OfRecord(c) \/ Handles(p, c)
      /\ req[p].kind \in Releases => store[req[p].app] = req[p].cand
      /\ ~req[p].restoring /\ pc[Main] = "idle" /\ UpToDate(p)
  BY <1>1 DEF Clean, Untroubled
<1>4. \A c : OfRecord(c) => OfRecord(c)'
  BY <1>1 DEF OfRecord
<1>5. Others(p)
  BY SyncOthers
<1>6. pc'[Main] = "idle"
  BY <1>2, <1>3, <1>5 DEF Others
<1>7. CASE SyncList(p) \/ SyncWrite(p)
  <2>1. /\ routes' = routes
        /\ \/ pc' = [pc EXCEPT ![p] = "write"] /\ req' = [req EXCEPT ![p].snap = store]
           \/ /\ pc' = [pc EXCEPT ![p] = "reload"] /\ req' = req
              /\ pc[p] = "write" /\ routeFile' = req[p].snap
    BY <1>7 DEF SyncList, SyncWrite, Fault, Goto, caddy
  <2>2. /\ req'[p].kind = req[p].kind /\ req'[p].app = req[p].app /\ req'[p].old = req[p].old
        /\ req'[p].cand = req[p].cand /\ req'[p].restoring = req[p].restoring
        /\ \/ pc'[p] = "write" /\ req'[p].snap = store
           \/ pc'[p] = "reload" /\ routeFile' = store
    BY <1>2, <1>3, <2>1 DEF Request, UpToDate
  <2>3. Untroubled(p)' /\ UpToDate(p)'
    BY <1>1, <1>3, <2>2 DEF Untroubled, UpToDate
  <2>4. \A c \in containers' : OfRecord(c)' \/ Handles(p, c)'
    BY <1>1, <1>3, <1>4, <2>2 DEF Handles
  <2> QED BY <1>1, <1>3, <1>6, <2>1, <2>2, <2>3, <2>4 DEF Clean, UpToDate
<1>8. CASE SyncReload(p)
  <2>1. pc[p] = "reload" /\ routes' = routeFile /\ AfterSync(p, TRUE)
    <3>1. ~Fault
      BY DEF Fault
    <3> QED BY <1>8, <3>1 DEF SyncReload
  <2>2. \A a \in Apps : routes'[a] = store'[a]
    BY <1>1, <1>3, <2>1 DEF UpToDate
  <2>3. CASE req[p].kind \in Cutovers
    <3>1. pc' = [pc EXCEPT ![p] = "record"] /\ req' = req
      BY <1>3, <2>1, <2>3 DEF AfterSync, Goto
    <3>2. pc'[p] = "record" /\ req'[p] = req[p]
      BY <1>2, <3>1
    <3>3. Untroubled(p)' /\ UpToDate(p)'
      BY <1>1, <1>3, <2>3, <3>2 DEF Untroubled, UpToDate
    <3>4. \A c \in containers' : OfRecord(c)' \/ Handles(p, c)'
      BY <1>1, <1>3, <1>4, <2>1, <3>2 DEF Handles
    <3> QED BY <1>1, <1>3, <1>6, <2>2, <3>2, <3>3, <3>4 DEF Clean, UpToDate
  <2>4. CASE req[p].kind \notin Cutovers
    <3>1. Finish(p)
      BY <2>1, <2>4 DEF AfterSync
    <3>2. \A c \in containers' : OfRecord(c)'
      BY <1>1, <1>3, <1>4, <2>1, <2>4 DEF Handles
    <3> QED BY <1>1, <1>3, <2>1, <2>2, <3>1, <3>2, CleanEnd DEF Working
  <2> QED BY <2>3, <2>4
<1> QED BY <1>7, <1>8 DEF Sync

\* A restart renames nothing.
LEMMA CleanRestart ==
    ASSUME TypeOK, NEW p \in Procs, Clean(p), RestartStop(p) \/ RestartUp(p)
    PROVE  Clean(p)'
<1>1. pc[p] \in Restarting /\ UNCHANGED <<store, history, envFile, routes>>
  BY DEF RestartStop, RestartUp, files, caddy
<1>2. /\ \A a \in Apps : routes[a] = store[a]
      /\ \A a \in Apps : store[a] = None => history[a] = {} /\ envFile[a] = EmptyEnv
      /\ \A c \in containers : OfRecord(c)
      /\ ~req[p].restoring /\ pc[Main] = "idle" /\ p # Main
  BY <1>1, ConstantsAssumption DEF Clean, Untroubled, Handles
<1>3. ASSUME NEW c \in containers'
      PROVE  \E d \in containers : c.app = d.app /\ c.name = d.name
  <2>1. \E d \in containers : c \in {d, [d EXCEPT !.up = FALSE], [d EXCEPT !.up = TRUE]}
    BY <1>3 DEF RestartStop, RestartUp
  <2> QED BY <2>1 DEF TypeOK, Container
<1>4. \A c \in containers' : OfRecord(c)'
  BY <1>1, <1>2, <1>3 DEF OfRecord
<1>5. CASE Finish(p)
  BY <1>1, <1>2, <1>4, <1>5, CleanEnd DEF Working
<1>6. CASE ~Finish(p)
  <2>1. pc' = [pc EXCEPT ![p] = "up"] /\ req' = req /\ pc \in [Threads -> Steps]
    BY <1>6 DEF RestartStop, RestartUp, Goto, TypeOK
  <2>2. pc'[p] = "up" /\ req'[p] = req[p] /\ pc'[Main] = "idle"
    BY <1>2, <2>1
  <2>3. Untroubled(p)' /\ UpToDate(p)'
    BY <1>2, <2>2 DEF Untroubled, UpToDate
  <2> QED BY <1>1, <1>2, <1>4, <2>2, <2>3 DEF Clean, UpToDate
<1> QED BY <1>5, <1>6

\* A deletion removes container, history, environment and record, in this order.
LEMMA CleanDelete ==
    ASSUME TypeOK, NEW p \in Procs, Clean(p), faults = 0, faults' = 0,
           \/ DeleteContainer(p) \/ DeleteHistoryImages(p) \/ DeleteHistory(p)
           \/ DeleteImage(p) \/ DeleteEnvironment(p) \/ DeleteRecord(p)
    PROVE  Clean(p)'
<1> DEFINE a == req[p].app
<1>1. pc[p] \in Deleting /\ UNCHANGED routes
  BY DEF DeleteContainer, DeleteHistoryImages, DeleteHistory, DeleteImage,
         DeleteEnvironment, DeleteRecord, caddy
<1>2. /\ req[p].kind = "delete" /\ a \in Apps /\ req[p].old \in Record /\ p # Main
      /\ pc \in [Threads -> Steps] /\ store \in [Apps -> Record \cup {None}]
      /\ history \in [Apps -> SUBSET Version] /\ envFile \in [Apps -> Envs]
  BY <1>1, ConstantsAssumption DEF TypeOK, RequestOK, Working, Routes
<1>3. /\ \A b \in Apps : routes[b] = store[b]
      /\ \A b \in Apps : store[b] = None => history[b] = {} /\ envFile[b] = EmptyEnv
      /\ \A c \in containers : OfRecord(c)
      /\ store[a] = req[p].old /\ ~req[p].restoring /\ pc[Main] = "idle"
  BY <1>1, <1>2 DEF Clean, Untroubled, Handles
<1>4. store[a] # None
  BY <1>2, <1>3, NoneAssumption
<1>5. /\ pc[p] # "rm_container" => \A c \in containers : c.app # a
      /\ pc[p] \in {"rm_image", "rm_env", "rm_record"} => history[a] = {}
      /\ pc[p] = "rm_record" => envFile[a] = EmptyEnv
  BY <1>1 DEF Clean, Untroubled
<1>6. CASE ~DeleteRecord(p)
  <2>1. /\ req' = req /\ store' = store /\ containers' \subseteq containers
        /\ \/ /\ pc[p] = "rm_container" /\ pc' = [pc EXCEPT ![p] = "rm_images"]
              /\ UNCHANGED <<history, envFile>>
              /\ containers' = containers \ Named(a, req[p].old.name)
           \/ /\ pc[p] = "rm_images" /\ pc' = [pc EXCEPT ![p] = "clear"]
              /\ UNCHANGED <<history, envFile>>
           \/ /\ pc[p] = "clear" /\ pc' = [pc EXCEPT ![p] = "rm_image"]
              /\ history' = [history EXCEPT ![a] = {}] /\ envFile' = envFile
           \/ /\ pc[p] = "rm_image" /\ pc' = [pc EXCEPT ![p] = "rm_env"]
              /\ UNCHANGED <<history, envFile>>
           \/ /\ pc[p] = "rm_env" /\ pc' = [pc EXCEPT ![p] = "rm_record"]
              /\ history' = history /\ envFile' = [envFile EXCEPT ![a] = EmptyEnv]
    BY <1>6 DEF DeleteContainer, DeleteHistoryImages, DeleteHistory, DeleteImage,
                DeleteEnvironment, Fault, Goto, files, docker
  <2>2. pc'[p] \in Deleting \ {"rm_container"} /\ pc'[Main] = "idle" /\ req'[p] = req[p]
    BY <1>2, <1>3, <2>1
  <2>3. \A c \in containers' : c.app # a
    BY <1>3, <1>5, <2>1 DEF OfRecord, Named
  <2>4. \A b \in Apps : store[b] = None => history'[b] = {} /\ envFile'[b] = EmptyEnv
    BY <1>2, <1>3, <2>1
  <2>5. /\ pc'[p] \in {"rm_image", "rm_env", "rm_record"} => history'[a] = {}
        /\ pc'[p] = "rm_record" => envFile'[a] = EmptyEnv
    BY <1>2, <1>5, <2>1
  <2>6. Untroubled(p)' /\ UpToDate(p)'
    BY <1>3, <2>1, <2>2, <2>3, <2>5 DEF Untroubled, UpToDate
  <2>7. \A c \in containers' : OfRecord(c)'
    BY <1>3, <2>1 DEF OfRecord
  <2> QED BY <1>1, <1>3, <2>1, <2>2, <2>4, <2>6, <2>7 DEF Clean, UpToDate
<1>7. CASE DeleteRecord(p)
  <2>1. /\ pc[p] = "rm_record" /\ pc' = [pc EXCEPT ![p] = "list"] /\ req' = req
        /\ store' = [store EXCEPT ![a] = None] /\ UNCHANGED <<history, envFile, containers>>
    BY <1>4, <1>7 DEF DeleteRecord, Fault, Goto, docker
  <2>2. pc'[p] = "list" /\ pc'[Main] = "idle" /\ req'[p] = req[p]
    BY <1>2, <1>3, <2>1
  <2>3. store'[a] = None /\ \A b \in Apps \ {a} : store'[b] = store[b]
    BY <1>2, <2>1
  <2>4. Untroubled(p)' /\ UpToDate(p)'
    BY <1>2, <1>3, <2>2 DEF Untroubled, UpToDate
  <2>5. \A c \in containers' : OfRecord(c)'
    <3>1. \A c \in containers : c.app \in Apps
      BY DEF TypeOK, Container
    <3> QED BY <1>3, <1>5, <2>1, <2>3, <3>1 DEF OfRecord
  <2>6. \A b \in Apps : store'[b] = None => history'[b] = {} /\ envFile'[b] = EmptyEnv
    BY <1>3, <1>5, <2>1, <2>3
  <2> QED BY <1>1, <1>3, <2>2, <2>3, <2>4, <2>5, <2>6 DEF Clean, UpToDate
<1> QED BY <1>6, <1>7

\* A request reads the record that is there when it arrives.
LEMMA CleanArrival ==
    ASSUME TypeOK, NEW p \in Procs, Clean(p), Arrival(p)
    PROVE  Clean(p)'
<1>1. PICK kind \in Kinds, a \in Apps, ask \in Envs \cup {Keep}, first \in Steps :
        /\ Begin(p, kind, a, ask, first)
        /\ store[a] # None <=> kind # "deploy"
        /\ \/ kind \in Releases /\ first = "lock"
           \/ kind = "restart" /\ first = "stop"
           \/ kind = "delete" /\ first = "rm_container"
  <2>1. CASE deployHandler(p) BY <2>1 DEF deployHandler
  <2>2. CASE redeployHandler(p) BY <2>2 DEF redeployHandler
  <2>3. CASE githubWebhookHandler(p) BY <2>3 DEF githubWebhookHandler
  <2>4. CASE rollbackDeploymentHandler(p) BY <2>4 DEF rollbackDeploymentHandler
  <2>5. CASE restartDeploymentHandler(p) BY <2>5 DEF restartDeploymentHandler
  <2>6. CASE deleteDeploymentHandler(p) BY <2>6 DEF deleteDeploymentHandler
  <2> QED BY <2>1, <2>2, <2>3, <2>4, <2>5, <2>6 DEF Arrival
<1> DEFINE r == [NoRequest EXCEPT !.kind = kind, !.app = a, !.ask = ask, !.old = store[a]]
<1>2. r.kind = kind /\ r.app = a /\ r.old = store[a] /\ ~r.restoring
  BY DEF NoRequest
<1>3. /\ pc[Main] = "idle" /\ pc[p] = "idle" /\ p # Main
      /\ pc' = [pc EXCEPT ![p] = first] /\ req' = [req EXCEPT ![p] = r]
      /\ UNCHANGED <<store, history, envFile, containers, routes>>
      /\ pc \in [Threads -> Steps] /\ req \in [Threads -> Request]
  BY <1>1, ConstantsAssumption DEF Begin, Goto, files, docker, caddy, TypeOK
<1> HIDE DEF r
<1>4. pc'[p] = first /\ req'[p] = r /\ pc'[Main] = "idle"
  BY <1>3
<1>5. Untroubled(p)' /\ UpToDate(p)'
  BY <1>1, <1>2, <1>3, <1>4 DEF Untroubled, UpToDate
<1>6. \A c \in containers' : OfRecord(c)'
  BY <1>3 DEF Clean, Handles, OfRecord
<1>7. /\ \A b \in Apps : routes'[b] = store'[b]
      /\ \A b \in Apps : store'[b] = None => history'[b] = {} /\ envFile'[b] = EmptyEnv
  BY <1>3 DEF Clean
<1> QED BY <1>3, <1>4, <1>5, <1>6, <1>7 DEF Clean, UpToDate

\* main() synchronizes before any request is served.
LEMMA CleanMain ==
    ASSUME TypeOK, CleanInv, faults = 0, crashes = 0, faults' = 0, Sync(Main)
    PROVE  CleanInv'
<1>1. /\ pc[Main] \in Syncing /\ UNCHANGED <<store, history, envFile, containers>>
      /\ req[Main].kind \in {"none", "boot"} /\ pc \in [Threads -> Steps]
      /\ req \in [Threads -> Request] /\ req[Main] \in Request
  BY ConstantsAssumption DEF Sync, SyncList, SyncWrite, SyncReload, files, docker, TypeOK, MainOK
<1>2. /\ \A q \in Procs : pc[q] = "idle" /\ pc'[q] = "idle" /\ req'[q] = req[q] /\ q # Main
      /\ \A a \in Apps : routes[a] = store[a]
      /\ \A a \in Apps : store[a] = None => history[a] = {} /\ envFile[a] = EmptyEnv
      /\ \A c \in containers : OfRecord(c)
      /\ \A q \in Procs : ~req[q].restoring
      /\ UpToDate(Main)
  BY <1>1, SyncOthers, ConstantsAssumption
     DEF CleanInv, Others, Routed, Vacant, Untroubled, Handles
<1>3. (\A a \in Apps : routes'[a] = store'[a]) /\ UpToDate(Main)'
  <2>0. ~Fault
    BY DEF Fault
  <2>1. CASE SyncList(Main)
    <3>1. routes' = routes /\ pc' = [pc EXCEPT ![Main] = "write"]
          /\ req' = [req EXCEPT ![Main].snap = store]
      BY <2>0, <2>1 DEF SyncList, Goto, caddy
    <3>2. pc'[Main] = "write" /\ req'[Main].snap = store
      BY <1>1, <3>1 DEF Request
    <3> QED BY <1>1, <1>2, <3>1, <3>2 DEF UpToDate
  <2>2. CASE SyncWrite(Main)
    <3>1. routes' = routes /\ pc' = [pc EXCEPT ![Main] = "reload"] /\ req' = req
          /\ routeFile' = req[Main].snap /\ pc[Main] = "write"
      BY <2>0, <2>2 DEF SyncWrite, Goto
    <3>2. pc'[Main] = "reload" /\ routeFile' = store
      BY <1>1, <1>2, <3>1 DEF UpToDate
    <3> QED BY <1>1, <1>2, <3>1, <3>2 DEF UpToDate
  <2>3. CASE SyncReload(Main)
    <3>1. routes' = routeFile /\ AfterSync(Main, TRUE) /\ pc[Main] = "reload"
      BY <2>0, <2>3 DEF SyncReload
    <3>2. pc' = [pc EXCEPT ![Main] = "idle"]
      BY <1>1, <3>1 DEF AfterSync, Finish
    <3>3. pc'[Main] = "idle" /\ routes' = store
      BY <1>1, <1>2, <3>1, <3>2 DEF UpToDate
    <3> QED BY <1>1, <3>3 DEF UpToDate
  <2> QED BY <2>1, <2>2, <2>3 DEF Sync
<1>4. \A c \in containers' : OfRecord(c)'
  BY <1>1, <1>2 DEF OfRecord
<1>5. \A q \in Procs : Untroubled(q)' /\ UpToDate(q)'
  BY <1>1, <1>2 DEF Untroubled, UpToDate
<1>6. \A a \in Apps : Routed(a)' /\ Vacant(a)'
  BY <1>1, <1>2, <1>3 DEF Routed, Vacant
<1> QED BY <1>2, <1>3, <1>4, <1>5, <1>6 DEF CleanInv

\* A command that failed, and a crash, stay counted.
LEMMA CountersGrow ==
    ASSUME TypeOK, [Next]_vars
    PROVE  /\ faults' \in {faults, faults + 1} /\ (faults' = 0 => faults = 0)
           /\ crashes' \in {crashes, crashes + 1} /\ (crashes' = 0 => crashes = 0)
<1>1. faults' \in {faults, faults + 1} /\ crashes' \in {crashes, crashes + 1}
  <2> USE DEF Fault, NoFault
  <2>1. ASSUME NEW p \in Procs, Arrival(p) \/ Lock(p) PROVE faults' = faults /\ crashes' = crashes
    BY <2>1 DEF Arrival, Begin, deployHandler, redeployHandler, githubWebhookHandler, rollbackDeploymentHandler, restartDeploymentHandler, deleteDeploymentHandler, Lock, LockDeploy, LockRedeploy, LockRollback
  <2>2. ASSUME NEW p \in Procs, Work(p) PROVE faults' \in {faults, faults + 1} /\ crashes' = crashes
    BY <2>2 DEF Work, Build, StartOK, StartFailed, Healthy, Unhealthy, Cleanup, CommitEnvironment, SaveRecord, RollbackEnvironment, RestoreRecord, RecordHistory, RetireOld, RestartStop, RestartUp, DeleteContainer, DeleteHistoryImages, DeleteHistory, DeleteImage, DeleteEnvironment, DeleteRecord
  <2>3. ASSUME NEW t \in Threads, Sync(t) PROVE faults' \in {faults, faults + 1} /\ crashes' = crashes
    BY <2>3 DEF Sync, SyncList, SyncWrite, SyncReload
  <2>4. Crash => faults' = faults /\ crashes' = crashes + 1
    BY DEF Crash
  <2>5. UNCHANGED vars => faults' = faults /\ crashes' = crashes
    BY DEF vars
  <2> QED BY <2>1, <2>2, <2>3, <2>4, <2>5 DEF Next
<1> QED BY <1>1 DEF TypeOK

LEMMA NextClean ==
    ASSUME Serial, TypeOK, CleanInv, [Next]_vars
    PROVE  CleanInv'
<1> SUFFICES ASSUME faults' = 0, crashes' = 0 PROVE CleanInv'
  BY DEF CleanInv
<1>0. faults = 0 /\ crashes = 0
  BY CountersGrow
<1>1. ASSUME NEW p \in Procs, Arrival(p) \/ Lock(p) \/ Work(p) \/ Sync(p) PROVE CleanInv'
  <2>1. Clean(p)
    BY <1>0, OneClean
  <2>2. Clean(p)'
    BY <1>0, <1>1, <2>1, CleanArrival, CleanStart, CleanVerify, CleanSave, CleanSwitch,
       CleanSync, CleanRestart, CleanDelete DEF Lock, Work
  <2> QED BY <2>2, OneClean
<1>2. CASE Sync(Main)
  BY <1>0, <1>2, CleanMain
<1>3. ~Crash
  BY <1>0 DEF Crash
<1>4. CASE UNCHANGED vars
  BY <1>4 DEF vars, CleanInv, OfRecord, Handles, Routed, Vacant, Untroubled, UpToDate
<1> QED BY <1>1, <1>2, <1>3, <1>4 DEF Next

LEMMA InitClean == ASSUME Init PROVE CleanInv
<1>1. PICK port \in [Deployed -> Ports] :
        /\ store = [a \in Apps |-> IF a \in Deployed THEN FirstRecord(port[a]) ELSE None]
        /\ containers = {[app |-> a, name |-> 0, img |-> 1, port |-> port[a], up |-> TRUE] :
                            a \in Deployed}
        /\ routes = store
  BY DEF Init
<1>2. /\ history = [a \in Apps |-> {}] /\ envFile = [a \in Apps |-> EmptyEnv]
      /\ pc = [t \in Threads |-> IF t = Main THEN "list" ELSE "idle"]
      /\ req = [t \in Threads |-> IF t = Main THEN [NoRequest EXCEPT !.kind = "boot"]
                                               ELSE NoRequest]
  BY DEF Init
<1>3. \A a \in Deployed : a \in Apps /\ store[a].name = 0 /\ store[a] # None
  <2>1. \A a \in Deployed : FirstRecord(port[a]) \in Record
    BY ConstantsAssumption DEF FirstRecord, Record
  <2>2. \A a \in Deployed : store[a] = FirstRecord(port[a])
    BY <1>1, ConstantsAssumption
  <2>3. \A a \in Deployed : FirstRecord(port[a]).name = 0
    BY DEF FirstRecord
  <2> QED BY <2>1, <2>2, <2>3, NoneAssumption, ConstantsAssumption
<1>4. \A c \in containers : OfRecord(c)
  BY <1>1, <1>3 DEF OfRecord
<1>5. \A p \in Procs : pc[p] = "idle" /\ ~req[p].restoring
  BY <1>2, ConstantsAssumption DEF NoRequest
<1>6. pc[Main] = "list"
  BY <1>2
<1> QED BY <1>1, <1>2, <1>4, <1>5, <1>6 DEF CleanInv, Routed, Vacant, Untroubled, UpToDate

LEMMA CleanInvariant == ASSUME Serial PROVE Spec => [](TypeOK /\ CleanInv)
<1>1. Init => TypeOK /\ CleanInv
  BY InitType, InitClean
<1>2. (TypeOK /\ CleanInv) /\ [Next]_vars => (TypeOK /\ CleanInv)'
  BY NextType, NextClean
<1> QED BY <1>1, <1>2, PTL DEF Spec

\* An application that no request works on and that has no record is served
\* nowhere, and has neither history nor environment nor container.
LEMMA NothingLeft ==
    ASSUME TypeOK, CleanInv, faults = 0, crashes = 0, NEW a \in Apps, Quiet(a), store[a] = None
    PROVE  /\ routes[a] = None /\ history[a] = {} /\ envFile[a] = EmptyEnv
           /\ \A c \in containers : c.app # a
<1>1. \A p \in Procs : req[p].app # a
  BY DEF Quiet
<1>2. Routed(a) /\ Vacant(a)
  BY DEF CleanInv
<1>3. \A c \in containers : OfRecord(c) \/ c.app # a
  BY <1>1 DEF CleanInv, Handles
<1> QED BY <1>1, <1>2, <1>3 DEF Routed, Vacant, OfRecord

-----------------------------------------------------------------------------
(***************************************************************************)
(* The order of a deletion, whatever fails and whenever the service dies.  *)
(***************************************************************************)
DeleteSteps(p) ==
    \/ DeleteContainer(p) \/ DeleteHistoryImages(p) \/ DeleteHistory(p)
    \/ DeleteImage(p)     \/ DeleteEnvironment(p)   \/ DeleteRecord(p)

\* A deletion consists of its own steps.
LEMMA OwnSteps ==
    ASSUME TypeOK, NEW p \in Procs, Lock(p) \/ Work(p) \/ Sync(p), ~DeleteSteps(p)
    PROVE  pc'[p] \notin Deleting
<1>0. pc \in [Threads -> Steps]
  BY DEF TypeOK
<1>1. CASE Lock(p) \/ Build(p) \/ StartOK(p) \/ StartFailed(p) \/ Healthy(p) \/ Unhealthy(p)
  BY <1>0, <1>1 DEF Lock, LockDeploy, LockRedeploy, LockRollback, Build, StartOK, StartFailed, Healthy, Unhealthy, Goto, Finish
<1>2. CASE \/ Cleanup(p) \/ CommitEnvironment(p) \/ SaveRecord(p) \/ RollbackEnvironment(p)
           \/ RestoreRecord(p) \/ RecordHistory(p) \/ RetireOld(p)
  BY <1>0, <1>2 DEF Cleanup, CommitEnvironment, SaveRecord, RollbackEnvironment, RestoreRecord, RecordHistory, RetireOld, Goto, Finish
<1>3. CASE RestartStop(p) \/ RestartUp(p)
  BY <1>0, <1>3 DEF RestartStop, RestartUp, Goto, Finish
<1>4. CASE Sync(p)
  BY <1>0, <1>4 DEF Sync, SyncList, SyncWrite, SyncReload, AfterSync, Goto, Finish
<1> QED BY <1>1, <1>2, <1>3, <1>4 DEF Work, DeleteSteps

LEMMA DeletedOwn ==
    ASSUME TypeOK, NEW p \in Procs, Deleted(p), DeleteSteps(p), [Next]_vars
    PROVE  Deleted(p)'
<1> DEFINE a == req[p].app
<1>1. /\ pc[p] \in Deleting /\ pc \in [Threads -> Steps] /\ a \in Apps
      /\ envFile \in [Apps -> Envs] /\ faults \in Nat
  BY DEF DeleteSteps, DeleteContainer, DeleteHistoryImages, DeleteHistory, DeleteImage,
         DeleteEnvironment, DeleteRecord, TypeOK, RequestOK, Working
<1>2. CASE pc'[p] \notin Deleting
  BY <1>2 DEF Deleted
<1>3. CASE pc'[p] \in Deleting
  <2>1. ~Finish(p) /\ ~DeleteRecord(p)
    BY <1>1, <1>3 DEF Finish, DeleteRecord, Goto
  <2>2. /\ req' = req /\ store' = store
        /\ \/ /\ pc' = [pc EXCEPT ![p] = "rm_images"]
              /\ containers' = containers \ Named(a, req[p].old.name) \/ Fault
           \/ /\ \E s \in {"clear", "rm_image", "rm_env"} : pc' = [pc EXCEPT ![p] = s]
              /\ pc[p] # "rm_container" /\ containers' = containers
           \/ /\ pc[p] = "rm_env" /\ pc' = [pc EXCEPT ![p] = "rm_record"]
              /\ containers' = containers /\ envFile' = [envFile EXCEPT ![a] = EmptyEnv]
    BY <2>1 DEF DeleteSteps, DeleteContainer, DeleteHistoryImages, DeleteHistory, DeleteImage,
                DeleteEnvironment, Goto, files, docker
  <2>3. store'[a] = req'[p].old /\ req'[p] = req[p]
    BY <1>1, <2>2 DEF Deleted
  <2>4. pc'[p] = "rm_record" => envFile'[a] = EmptyEnv
    BY <1>1, <2>2
  <2>5. ASSUME faults' = 0 PROVE \A c \in containers' : ~(c.app = a /\ c.name = req[p].old.name)
    <3>1. faults = 0 /\ ~Fault
      BY <2>5, CountersGrow DEF Fault
    <3>2. pc[p] # "rm_container" => Named(a, req[p].old.name) = {}
      BY <1>1, <3>1 DEF Deleted
    <3> QED BY <1>1, <2>2, <3>1, <3>2 DEF Named
  <2> QED BY <2>3, <2>4, <2>5 DEF Deleted, Named
<1> QED BY <1>2, <1>3

LEMMA NextDeleted ==
    ASSUME Serial, TypeOK, [Next]_vars, NEW p \in Procs, Deleted(p)
    PROVE  Deleted(p)'
<1>0. p # Main /\ pc \in [Threads -> Steps]
  BY ConstantsAssumption DEF TypeOK
<1>1. CASE Arrival(p)
  <2>1. PICK a \in Apps, k \in Kinds, e \in Envs \cup {Keep},
             s \in {"lock", "stop", "rm_container"} : Begin(p, k, a, e, s)
    BY <1>1 DEF Arrival, deployHandler, redeployHandler, githubWebhookHandler,
                rollbackDeploymentHandler, restartDeploymentHandler, deleteDeploymentHandler
  <2>2. PICK r : r = [NoRequest EXCEPT !.kind = k, !.app = a, !.ask = e, !.old = store[a]]
    OBVIOUS
  <2>3. r.app = a /\ r.old = store[a]
    BY <2>2 DEF NoRequest
  <2>4. req' = [req EXCEPT ![p] = r] /\ pc' = [pc EXCEPT ![p] = s] /\ store' = store
    BY <2>1, <2>2 DEF Begin, Goto, files
  <2>5. req'[p] = r /\ pc'[p] = s
    BY <1>0, <2>4 DEF TypeOK
  <2> QED BY <2>3, <2>4, <2>5 DEF Deleted
<1>2. CASE Lock(p) \/ Work(p) \/ Sync(p)
  <2>1. CASE DeleteSteps(p)
    BY <2>1, DeletedOwn
  <2>2. CASE ~DeleteSteps(p)
    <3>1. pc'[p] \notin Deleting
      BY <1>2, <2>2, OwnSteps
    <3> QED BY <3>1 DEF Deleted
  <2> QED BY <2>1, <2>2
<1>3. CASE Crash
  <2>1. pc'[p] = "idle"
    BY <1>0, <1>3 DEF Crash
  <2> QED BY <2>1 DEF Deleted
<1>4. CASE Sync(Main) \/ UNCHANGED vars
  <2>1. pc'[p] = pc[p] /\ req'[p] = req[p]
    BY <1>0, <1>4, SyncOthers DEF Others, vars
  <2>2. UNCHANGED <<store, envFile, containers>>
    BY <1>4 DEF Sync, SyncList, SyncWrite, SyncReload, files, docker, vars
  <2>3. faults' = 0 => faults = 0
    BY CountersGrow
  <2> QED BY <2>1, <2>2, <2>3 DEF Deleted, Named
<1>5. \A q \in Procs : q = p
  BY DEF Serial
<1> QED BY <1>1, <1>2, <1>3, <1>4, <1>5 DEF Next

\* Only the last step of a deletion takes a record away.
LEMMA RecordsGo ==
    ASSUME TypeOK, [Next]_vars, NEW a \in Apps, store[a] # None, store'[a] = None
    PROVE  \E p \in Procs : pc[p] = "rm_record" /\ req[p].app = a
<1>1. store \in [Apps -> Record \cup {None}]
  BY DEF TypeOK, Routes
<1>2. PICK p \in Procs : Work(p)
  <2>1. ASSUME NEW p \in Procs, Arrival(p) \/ Lock(p) PROVE store' = store
    BY <2>1 DEF Arrival, Begin, deployHandler, redeployHandler, githubWebhookHandler,
         rollbackDeploymentHandler, restartDeploymentHandler, deleteDeploymentHandler,
         Lock, LockDeploy, LockRedeploy, LockRollback, files
  <2>2. ASSUME NEW t \in Threads, Sync(t) PROVE store' = store
    BY <2>2 DEF Sync, SyncList, SyncWrite, SyncReload, files
  <2>3. Crash \/ UNCHANGED vars => store' = store
    BY DEF Crash, files, vars
  <2> QED BY <2>1, <2>2, <2>3 DEF Next
<1>3. CASE SaveRecord(p)
  <2>1. req[p].cand \in Record
    BY <1>3 DEF SaveRecord, TypeOK, RequestOK, HasCandidate
  <2> QED BY <1>1, <1>3, <2>1, NoneAssumption DEF SaveRecord
<1>4. CASE RestoreRecord(p)
  <2>1. req[p].old \in Record
    BY <1>4 DEF RestoreRecord, TypeOK, RequestOK, Working
  <2> QED BY <1>1, <1>4, <2>1, NoneAssumption DEF RestoreRecord
<1>5. CASE DeleteRecord(p)
  BY <1>1, <1>5 DEF DeleteRecord
<1>6. CASE ~SaveRecord(p) /\ ~RestoreRecord(p) /\ ~DeleteRecord(p)
  <2>1. store' = store
    BY <1>2, <1>6 DEF Work, Build, StartOK, StartFailed, Healthy, Unhealthy, Cleanup,
         CommitEnvironment, RollbackEnvironment, RecordHistory, RetireOld, RestartStop, RestartUp,
         DeleteContainer, DeleteHistoryImages, DeleteHistory, DeleteImage, DeleteEnvironment, files
  <2> QED BY <2>1
<1> QED BY <1>3, <1>4, <1>5, <1>6

\* One request at a time, but with any command failing and any crash: when the
\* record of an application goes, its environment file is already empty and,
\* unless a command failed, the container it names is gone: what a deletion that
\* was cut short leaves is still recorded (handlers.go:822-864).
THEOREM DeletionsInOrder ==
    ASSUME Serial
    PROVE  Spec => DeletionOrder
<1> DEFINE Inv == TypeOK /\ \A p \in Procs : Deleted(p)
<1>1. Init => Inv
  <2>1. Init => \A p \in Procs : pc[p] = "idle"
    BY ConstantsAssumption DEF Init
  <2> QED BY <2>1, InitType DEF Deleted
<1>2. Inv /\ [Next]_vars => Inv'
  BY NextType, NextDeleted
<1>3. Inv /\ [Next]_vars => [\A a \in Apps : store[a] # None /\ store'[a] = None =>
                                /\ envFile[a] = EmptyEnv
                                /\ faults = 0 => Named(a, store[a].name) = {}]_vars
  BY RecordsGo DEF Deleted
<1> QED BY <1>1, <1>2, <1>3, PTL DEF Spec, DeletionOrder

=============================================================================
