------------------------- MODULE FullstackReleaseProofs -------------------------
(***************************************************************************)
(* Type correctness of FullstackRelease, for any number of requests and    *)
(* any bounds.  The shared clean-up and the shared synchronization are     *)
(* entered by requests of different kinds and left by kind: the invariant  *)
(* says which kinds may be at which step, and what they have read and      *)
(* built by then.  Then, of one request at a time: what a clean-up may     *)
(* take away (OnlyUnused, ImagesKept), what is left when a deletion ends   *)
(* (DeletionComplete), and how much failures and crashes leave behind      *)
(* (StraysBounded).                                                        *)
(***************************************************************************)
EXTENDS FullstackRelease, FiniteSetTheorems, TLAPS

Builds == {"deploy", "redeploy", "rollback"}

\* What a request r at step s has: TypeOK's RequestOK, and the kinds it needs.
Local(s, r) ==
    /\ s # "idle" => r.kind \in Kinds
    /\ s = "idle" => r = NoRequest
    /\ r.kind \in Kinds \ {"deploy"} => r.old \in Record
    /\ r.kind = "deploy" => r.old = None
    /\ s \in Releasing => r.kind \in Builds
    /\ s \in Releasing \ {"lock"} => r.cand \in Record
    /\ s = "record" => r.kind # "deploy"
    /\ s = "sync" => r.kind \in Builds \cup {"delete"}
    /\ s = "sync" /\ r.kind \in Builds => r.cand \in Record
    /\ s \in Cleaning => r.kind \in Builds \cup {"delete"}
    /\ s \in Cleaning \cup {"rm_versions", "clear"} => r.target \in {r.old, r.cand} \cap Record
    /\ s \in Deleting => r.kind = "delete"
    /\ s \in {"restart_backend", "restart_frontend"} => r.kind = "restart"

DataOK ==
    /\ store \in Record \cup {None} /\ route \in Record \cup {None}
    /\ history \subseteq Version
    /\ containers \subseteq Container /\ networks \subseteq Nat /\ images \subseteq Image
    /\ mu \in Procs \cup {None}
    /\ clock \in Nat /\ faults \in Nat /\ crashes \in Nat

ControlOK ==
    /\ pc \in [Threads -> Steps]
    /\ req \in [Threads -> Request]
    /\ \A p \in Procs : Local(pc[p], req[p])
    /\ pc[Main] \in {"idle", "sync"}
    /\ pc[Main] = "sync" => req[Main].kind = "boot"

IInv == DataOK /\ ControlOK

LEMMA InvariantTypes == IInv => TypeOK
<1> SUFFICES ASSUME IInv PROVE TypeOK
  OBVIOUS
<1>1. ASSUME NEW p \in Procs PROVE RequestOK(p)
  <2>1. Local(pc[p], req[p])
    BY DEF IInv, ControlOK
  <2> QED BY <2>1 DEF Local, RequestOK, Releasing, Deleting, Kinds
<1> QED BY <1>1 DEF IInv, DataOK, ControlOK, TypeOK

-----------------------------------------------------------------------------
(***************************************************************************)
(* A step moves one request and leaves the others.                         *)
(***************************************************************************)
LEMMA NoRequestType == NoRequest \in Request
BY DEF NoRequest, Request, Kinds, Version

LEMMA RequestMoves ==
    ASSUME ControlOK, NEW p \in Procs, NEW s \in Steps, NEW r \in Request, Local(s, r),
           pc' = [pc EXCEPT ![p] = s], req' = [req EXCEPT ![p] = r]
    PROVE  ControlOK'
<1>1. pc' \in [Threads -> Steps] /\ req' \in [Threads -> Request]
  BY DEF ControlOK, Threads
<1>2. p # Main /\ pc'[Main] = pc[Main] /\ req'[Main] = req[Main]
  BY ConstantsAssumption DEF ControlOK, Threads
<1>3. ASSUME NEW q \in Procs PROVE Local(pc'[q], req'[q])
  <2>1. CASE q = p
    <3>1. pc'[q] = s /\ req'[q] = r
      BY <2>1 DEF ControlOK, Threads
    <3> QED BY <3>1
  <2>2. CASE q # p
    <3>1. pc'[q] = pc[q] /\ req'[q] = req[q]
      BY <2>2 DEF ControlOK, Threads
    <3>2. Local(pc[q], req[q])
      BY DEF ControlOK
    <3> QED BY <3>1, <3>2
  <2> QED BY <2>1, <2>2
<1> QED BY <1>1, <1>2, <1>3 DEF ControlOK

LEMMA Going ==
    ASSUME ControlOK, NEW p \in Procs, NEW s \in Steps, Local(s, req[p]), Go(p, s)
    PROVE  ControlOK' /\ mu' = mu
<1>1. req' = [req EXCEPT ![p] = req[p]] /\ req[p] \in Request
  BY DEF ControlOK, Go, Threads
<1>2. pc' = [pc EXCEPT ![p] = s] /\ mu' = mu
  BY DEF Go, Goto
<1> QED BY <1>1, <1>2, RequestMoves

LEMMA Becoming ==
    ASSUME ControlOK, NEW p \in Procs, NEW s \in Steps, NEW r \in Request, Local(s, r),
           Become(p, s, r)
    PROVE  ControlOK' /\ mu' = mu
BY RequestMoves DEF Become, Goto

LEMMA Finishing ==
    ASSUME DataOK, ControlOK, NEW p \in Procs, Finish(p)
    PROVE  ControlOK' /\ mu' \in Procs \cup {None}
<1>1. Local("idle", NoRequest)
  BY DEF Local, NoRequest, Releasing, Cleaning, Deleting, Kinds
<1>2. "idle" \in Steps
  BY DEF Steps
<1>3. pc' = [pc EXCEPT ![p] = "idle"] /\ req' = [req EXCEPT ![p] = NoRequest]
  BY DEF Finish, Goto
<1>4. mu' \in Procs \cup {None}
  BY DEF Finish, DataOK
<1> QED BY <1>1, <1>2, <1>3, <1>4, NoRequestType, RequestMoves

\* The clean-up of a release is entered with a record to clean up.
LEMMA CleaningUp ==
    ASSUME ControlOK, NEW p \in Procs, NEW r \in Record, r \in {req[p].old, req[p].cand},
           req[p].kind \in Builds \cup {"delete"}, Clean(p, r)
    PROVE  ControlOK' /\ mu' = mu
<1> DEFINE q == [req[p] EXCEPT !.target = r, !.failed = FALSE]
<1>1. req[p] \in Request /\ Local(pc[p], req[p])
  BY DEF ControlOK, Threads
<1>2. q \in Request
  BY <1>1 DEF Request
<1>3. q.kind = req[p].kind /\ q.old = req[p].old /\ q.cand = req[p].cand /\ q.target = r
  BY <1>1 DEF Request
<1>4. Local("rm_frontend", q)
  BY <1>1, <1>3 DEF Local, Releasing, Cleaning, Deleting, Builds, Kinds
<1>5. "rm_frontend" \in Steps /\ Become(p, "rm_frontend", q)
  BY DEF Steps, Cleaning, Clean
<1> QED BY <1>2, <1>4, <1>5, Becoming

LEMMA LocalNow ==
    ASSUME ControlOK, NEW p \in Procs
    PROVE  Local(pc[p], req[p]) /\ req[p] \in Request
BY DEF ControlOK, Threads

\* The rest of a step: everything but pc, req and mu.
Kept == UNCHANGED <<store, history, docker, route, clock, bounds>>

LEMMA NothingElse ==
    ASSUME DataOK, Kept, mu' \in Procs \cup {None}
    PROVE  DataOK'
BY DEF DataOK, Kept, docker, bounds

LEMMA Faults ==
    ASSUME DataOK, Fault \/ NoFault
    PROVE  faults' \in Nat /\ crashes' \in Nat
BY DEF DataOK, Fault, NoFault, bounds

-----------------------------------------------------------------------------
(***************************************************************************)
(* Requests arrive.                                                        *)
(***************************************************************************)
LEMMA Beginning ==
    ASSUME IInv, NEW p \in Procs, NEW kind \in Kinds, NEW first \in Steps,
           Begin(p, kind, first),
           \/ first = "lock" /\ kind \in Builds
           \/ first = "restart_backend" /\ kind = "restart"
           \/ first = "list" /\ kind = "delete"
    PROVE  IInv'
<1> DEFINE r == [NoRequest EXCEPT !.kind = kind, !.old = store]
<1> USE DEF IInv
<1>1. store \in Record \cup {None}
  BY DEF DataOK
<1>2. r \in Request
  BY <1>1, NoRequestType DEF Request
<1>3. r.kind = kind /\ r.old = store
  BY NoRequestType DEF Request
<1>4. (kind # "deploy" => store \in Record) /\ (kind = "deploy" => store = None)
  BY <1>1 DEF Begin
<1>5. Local(first, r)
  BY <1>3, <1>4 DEF Local, Releasing, Cleaning, Deleting, Builds, Kinds
<1>6. Become(p, first, r) /\ Kept
  BY DEF Begin, Kept
<1>7. ControlOK' /\ mu' = mu
  BY <1>2, <1>5, <1>6, Becoming
<1> QED BY <1>6, <1>7, NothingElse DEF DataOK

LEMMA ArrivalOK == ASSUME IInv, NEW p \in Procs, Arrival(p) PROVE IInv'
<1>1. {"lock", "restart_backend", "list"} \subseteq Steps
  BY DEF Steps, Releasing, Deleting
<1>2. CASE deployHandler(p)
  BY <1>1, <1>2, Beginning DEF deployHandler, Kinds, Builds
<1>3. CASE redeployHandler(p)
  BY <1>1, <1>3, Beginning DEF redeployHandler, Kinds, Builds
<1>4. CASE rollbackDeploymentHandler(p)
  BY <1>1, <1>4, Beginning DEF rollbackDeploymentHandler, Kinds, Builds
<1>5. CASE restartDeploymentHandler(p)
  BY <1>1, <1>5, Beginning DEF restartDeploymentHandler, Kinds, Builds
<1>6. CASE deleteDeploymentHandler(p)
  BY <1>1, <1>6, Beginning DEF deleteDeploymentHandler, Kinds, Builds
<1> QED BY <1>2, <1>3, <1>4, <1>5, <1>6 DEF Arrival

-----------------------------------------------------------------------------
(***************************************************************************)
(* The steps of a release.                                                 *)
(***************************************************************************)
LEMMA RefusedOK == ASSUME IInv, NEW p \in Procs, Refused(p) PROVE IInv'
<1>1. Finish(p) /\ Kept
  BY DEF Refused, Kept
<1> QED BY <1>1, Finishing, NothingElse DEF IInv

LEMMA AcceptedOK ==
    ASSUME IInv, NEW p \in Procs, NEW img \in Nat, NEW first \in {"build_frontend", "network"},
           Accepted(p, img, first)
    PROVE  IInv'
<1> DEFINE r == [req[p] EXCEPT !.seen = history, !.cand = [rel |-> clock', img |-> img]]
<1> USE DEF IInv
<1>1. Local("lock", req[p]) /\ req[p] \in Request
  BY LocalNow DEF Accepted
<1>2. clock' \in Nat /\ history \subseteq Version
  BY DEF Accepted, DataOK
<1>3. r \in Request
  BY <1>1, <1>2 DEF Request, Record
<1>4. r.kind = req[p].kind /\ r.old = req[p].old /\ r.cand = [rel |-> clock', img |-> img]
  BY <1>1 DEF Request
<1>5. r.cand \in Record
  BY <1>2, <1>4 DEF Record
<1>6. Local(first, r)
  BY <1>1, <1>4, <1>5 DEF Local, Releasing, Cleaning, Deleting
<1>7. req' = [req EXCEPT ![p] = r]
  BY DEF Accepted, ControlOK, Threads
<1>8. ControlOK'
  BY <1>3, <1>6, <1>7, RequestMoves DEF Accepted, Goto, Steps, Releasing
<1>9. DataOK'
  BY <1>2 DEF DataOK, Accepted, docker, bounds
<1> QED BY <1>8, <1>9

LEMMA LocksOK == ASSUME IInv, NEW p \in Procs, LockBuild(p) \/ LockRollback(p) PROVE IInv'
<1>1. CASE LockBuild(p)
  <2>1. clock + 1 \in Nat
    BY DEF IInv, DataOK
  <2> QED BY <1>1, <2>1, AcceptedOK DEF LockBuild
<1>2. CASE LockRollback(p)
  <2> DEFINE img == Newest(history).img
  <2>1. [img |-> img, svc |-> Frontend] \in ImagePair(img)
    BY DEF ImagePair, Services
  <2>2. ImagePair(img) \subseteq Image
    BY <1>2 DEF LockRollback, IInv, DataOK
  <2>3. img \in Nat
    BY <2>1, <2>2 DEF Image
  <2> QED BY <1>2, <2>3, AcceptedOK DEF LockRollback
<1> QED BY <1>1, <1>2

LEMMA BuildOK ==
    ASSUME IInv, NEW p \in Procs, NEW svc \in Services,
           NEW step \in {"build_frontend", "build_backend"},
           NEW next \in {"build_backend", "network"},
           Build(p, svc, step, next)
    PROVE  IInv'
<1> DEFINE i == [img |-> req[p].cand.img, svc |-> svc]
<1> USE DEF IInv
<1>1. Local(step, req[p]) /\ req[p] \in Request
  BY LocalNow DEF Build
<1>2. req[p].cand \in Record
  BY <1>1 DEF Local, Releasing
<1>3. i \in Image
  BY <1>2 DEF Image, Record
<1>4. images' \subseteq Image
  BY <1>3 DEF Build, DataOK
<1>5. Local(next, req[p]) /\ next \in Steps
  BY <1>1 DEF Local, Steps, Releasing, Cleaning, Deleting
<1>6. ControlOK' /\ mu' \in Procs \cup {None}
  BY <1>5, Going, Finishing DEF Build, DataOK
<1>7. faults' \in Nat /\ crashes' \in Nat
  BY Faults DEF Build
<1>8. DataOK'
  BY <1>4, <1>6, <1>7 DEF DataOK, Build
<1> QED BY <1>6, <1>8

LEMMA CreateNetworkOK == ASSUME IInv, NEW p \in Procs, CreateNetwork(p) PROVE IInv'
<1> USE DEF IInv
<1>1. Local("network", req[p]) /\ req[p] \in Request
  BY LocalNow DEF CreateNetwork
<1>2. req[p].cand \in Record /\ req[p].kind \in Builds
  BY <1>1 DEF Local, Releasing
<1>3. Local("start_backend", req[p]) /\ "start_backend" \in Steps
  BY <1>1 DEF Local, Steps, Releasing, Cleaning, Deleting
<1>4. ControlOK' /\ mu' = mu
  BY <1>2, <1>3, Going, CleaningUp DEF CreateNetwork
<1>5. DataOK'
  BY <1>2, <1>4 DEF CreateNetwork, DataOK, Record, bounds
<1> QED BY <1>4, <1>5

LEMMA StartsOK ==
    ASSUME IInv, NEW p \in Procs, NEW svc \in Services,
           NEW step \in {"start_backend", "start_frontend"},
           NEW next \in {"start_frontend", "verify"},
           Start(p, svc, step, next)
    PROVE  IInv'
<1> DEFINE c == [rel |-> req[p].cand.rel, img |-> req[p].cand.img, svc |-> svc, up |-> TRUE]
<1> USE DEF IInv
<1>1. Local(step, req[p]) /\ req[p] \in Request
  BY LocalNow DEF Start
<1>2. req[p].cand \in Record /\ req[p].kind \in Builds
  BY <1>1 DEF Local, Releasing
<1>3. c \in Container /\ [c EXCEPT !.up = FALSE] \in Container
  BY <1>2 DEF Container, Record
<1>4. containers' \subseteq Container
  BY <1>3 DEF Start, DataOK
<1>5. Local(next, req[p]) /\ next \in Steps
  BY <1>1 DEF Local, Steps, Releasing, Cleaning, Deleting
<1>6. ControlOK' /\ mu' = mu
  BY <1>2, <1>5, Going, CleaningUp DEF Start
<1>7. DataOK'
  BY <1>4, <1>6 DEF Start, DataOK, bounds
<1> QED BY <1>6, <1>7

LEMMA VerifyOK == ASSUME IInv, NEW p \in Procs, Verify(p) PROVE IInv'
<1> USE DEF IInv
<1>1. Local("verify", req[p]) /\ req[p] \in Request
  BY LocalNow DEF Verify
<1>2. req[p].cand \in Record /\ req[p].kind \in Builds
  BY <1>1 DEF Local, Releasing
<1>3. Local("save", req[p]) /\ "save" \in Steps
  BY <1>1 DEF Local, Steps, Releasing, Cleaning, Deleting
<1>4. ControlOK' /\ mu' = mu
  BY <1>2, <1>3, Going, CleaningUp DEF Verify
<1> QED BY <1>4, NothingElse DEF Verify, Kept, DataOK

LEMMA SaveOK == ASSUME IInv, NEW p \in Procs, Save(p) PROVE IInv'
<1> USE DEF IInv
<1>1. Local("save", req[p]) /\ req[p] \in Request
  BY LocalNow DEF Save
<1>2. req[p].cand \in Record /\ req[p].kind \in Builds
  BY <1>1 DEF Local, Releasing
<1>3. Local("sync", req[p]) /\ "sync" \in Steps
  BY <1>1, <1>2 DEF Local, Steps, Releasing, Cleaning, Deleting
<1>4. ControlOK' /\ mu' = mu
  BY <1>2, <1>3, Going, CleaningUp DEF Save
<1>5. faults' \in Nat /\ crashes' \in Nat
  BY Faults DEF Save
<1>6. DataOK'
  BY <1>2, <1>4, <1>5 DEF Save, DataOK, docker
<1> QED BY <1>4, <1>6

-----------------------------------------------------------------------------
(***************************************************************************)
(* The synchronization of the proxy, and what follows it.                  *)
(***************************************************************************)
LEMMA AfterSyncOK ==
    ASSUME IInv, NEW p \in Procs, pc[p] = "sync", NEW ok \in BOOLEAN, AfterSync(p, ok)
    PROVE  ControlOK' /\ mu' \in Procs \cup {None}
<1> USE DEF IInv
<1>1. Local("sync", req[p]) /\ req[p] \in Request
  BY LocalNow
<1>2. req[p].kind \in Builds \cup {"delete"}
  BY <1>1 DEF Local
<1>3. req[p].kind \in Builds => req[p].cand \in Record
  BY <1>1 DEF Local
<1>4. mu \in Procs \cup {None}
  BY DEF DataOK
<1>5. req[p].kind # "boot"
  BY <1>2 DEF Builds
<1>6. CASE req[p].kind = "delete"
  <2>1. Finish(p)
    BY <1>6 DEF AfterSync
  <2> QED BY <2>1, Finishing
<1>7. CASE req[p].kind \in Builds /\ req[p].restoring
  <2>1. Clean(p, req[p].cand)
    BY <1>5, <1>7 DEF AfterSync, Builds
  <2> QED BY <1>3, <1>4, <1>7, <2>1, CleaningUp
<1>8. CASE req[p].kind \in Builds /\ ~req[p].restoring /\ ~ok
  <2>1. Go(p, "restore")
    BY <1>5, <1>8 DEF AfterSync, Builds
  <2>2. Local("restore", req[p]) /\ "restore" \in Steps
    BY <1>1, <1>3, <1>8 DEF Local, Steps, Releasing, Cleaning, Deleting
  <2> QED BY <1>4, <2>1, <2>2, Going
<1>9. CASE req[p].kind \in Builds /\ ~req[p].restoring /\ ok
  <2>1. IF req[p].kind = "deploy" THEN Finish(p) ELSE Go(p, "record")
    BY <1>5, <1>9 DEF AfterSync, Builds
  <2>2. req[p].kind # "deploy" => Local("record", req[p]) /\ "record" \in Steps
    BY <1>1, <1>3, <1>9 DEF Local, Steps, Releasing, Cleaning, Deleting
  <2> QED BY <1>4, <2>1, <2>2, Going, Finishing
<1>10. req[p].restoring \in BOOLEAN
  BY <1>1 DEF Request
<1> QED BY <1>2, <1>6, <1>7, <1>8, <1>9, <1>10

LEMMA StartupSyncOK ==
    ASSUME IInv, pc[Main] = "sync", NEW ok \in BOOLEAN, AfterSync(Main, ok)
    PROVE  ControlOK' /\ mu' \in Procs \cup {None}
<1> USE DEF IInv
<1>1. Finish(Main)
  BY DEF AfterSync, ControlOK
<1>2. pc' = [pc EXCEPT ![Main] = "idle"] /\ req' = [req EXCEPT ![Main] = NoRequest]
  BY <1>1 DEF Finish, Goto
<1>3. pc' \in [Threads -> Steps] /\ req' \in [Threads -> Request] /\ pc'[Main] = "idle"
  BY <1>2, NoRequestType DEF ControlOK, Threads, Steps
<1>4. ASSUME NEW q \in Procs PROVE Local(pc'[q], req'[q])
  <2>1. pc'[q] = pc[q] /\ req'[q] = req[q]
    BY <1>2, ConstantsAssumption DEF ControlOK, Threads
  <2>2. Local(pc[q], req[q])
    BY DEF ControlOK
  <2> QED BY <2>1, <2>2
<1>5. mu' \in Procs \cup {None}
  BY <1>1 DEF Finish, DataOK
<1> QED BY <1>3, <1>4, <1>5 DEF ControlOK

LEMMA SyncOK == ASSUME IInv, NEW t \in Threads, Sync(t) PROVE IInv'
<1>1. ControlOK' /\ mu' \in Procs \cup {None}
  <2>1. AfterSync(t, TRUE) \/ AfterSync(t, FALSE)
    BY DEF Sync
  <2>2. pc[t] = "sync" /\ TRUE \in BOOLEAN /\ FALSE \in BOOLEAN
    BY DEF Sync
  <2>3. CASE t \in Procs
    <3>1. CASE AfterSync(t, TRUE)
      BY <2>2, <2>3, <3>1, AfterSyncOK
    <3>2. CASE AfterSync(t, FALSE)
      BY <2>2, <2>3, <3>2, AfterSyncOK
    <3> QED BY <2>1, <3>1, <3>2
  <2>4. CASE t = Main
    <3>1. CASE AfterSync(t, TRUE)
      BY <2>2, <2>4, <3>1, StartupSyncOK
    <3>2. CASE AfterSync(t, FALSE)
      BY <2>2, <2>4, <3>2, StartupSyncOK
    <3> QED BY <2>1, <3>1, <3>2
  <2> QED BY <2>3, <2>4 DEF Threads
<1>2. faults' \in Nat /\ crashes' \in Nat
  BY Faults DEF Sync, IInv
<1>3. DataOK'
  BY <1>1, <1>2 DEF Sync, DataOK, IInv, docker
<1> QED BY <1>1, <1>3 DEF IInv

LEMMA RestoreOK == ASSUME IInv, NEW p \in Procs, Restore(p) PROVE IInv'
<1> DEFINE r == [req[p] EXCEPT !.restoring = TRUE]
<1> USE DEF IInv
<1>1. Local("restore", req[p]) /\ req[p] \in Request
  BY LocalNow DEF Restore
<1>2. req[p].cand \in Record /\ req[p].kind \in Builds
  BY <1>1 DEF Local, Releasing
<1>3. r \in Request /\ r.kind = req[p].kind /\ r.old = req[p].old /\ r.cand = req[p].cand
  BY <1>1 DEF Request
<1>4. Local("sync", r) /\ "sync" \in Steps
  BY <1>1, <1>2, <1>3 DEF Local, Steps, Releasing, Cleaning, Deleting
<1>5. ControlOK' /\ mu' = mu
  <2>1. CASE Become(p, "sync", r)
    BY <1>3, <1>4, <2>1, Becoming
  <2>2. CASE Clean(p, req[p].cand)
    BY <1>2, <2>2, CleaningUp
  <2> QED BY <2>1, <2>2 DEF Restore
<1>6. faults' \in Nat /\ crashes' \in Nat
  BY Faults DEF Restore
<1>7. store' \in Record \cup {None}
  BY <1>1 DEF Restore, DataOK, Request
<1>8. DataOK'
  BY <1>5, <1>6, <1>7 DEF Restore, DataOK, docker
<1> QED BY <1>5, <1>8

LEMMA RecordHistoryOK == ASSUME IInv, NEW p \in Procs, RecordHistory(p) PROVE IInv'
<1> USE DEF IInv
<1>1. Local("record", req[p]) /\ req[p] \in Request
  BY LocalNow DEF RecordHistory
<1>2. req[p].cand \in Record /\ req[p].old \in Record /\ req[p].kind \in Builds
  BY <1>1 DEF Local, Releasing, Builds, Kinds
<1>3. Extended(p) \subseteq Version
  <2>1. [img |-> req[p].old.img, at |-> req[p].cand.rel] \in Version
    BY <1>2 DEF Version, Record
  <2>2. req[p].seen \subseteq Version /\ history \subseteq Version
    BY <1>1 DEF Request, DataOK
  <2> QED BY <2>1, <2>2 DEF Extended
<1>4. Retained(Extended(p)) \subseteq Version
  BY <1>3 DEF Retained
<1>5. history' \subseteq Version /\ images' \subseteq Image
  BY <1>4 DEF RecordHistory, DataOK
<1>6. ControlOK' /\ mu' = mu
  BY <1>2, CleaningUp DEF RecordHistory
<1>7. faults' \in Nat /\ crashes' \in Nat
  BY Faults DEF RecordHistory
<1>8. DataOK'
  BY <1>5, <1>6, <1>7 DEF RecordHistory, DataOK
<1> QED BY <1>6, <1>8

-----------------------------------------------------------------------------
(***************************************************************************)
(* The clean-up.                                                           *)
(***************************************************************************)
LEMMA CleaningNow ==
    ASSUME ControlOK, NEW p \in Procs, pc[p] \in Cleaning
    PROVE  /\ req[p] \in Request
           /\ req[p].kind \in Builds \cup {"delete"}
           /\ req[p].kind \in Kinds \ {"deploy"} => req[p].old \in Record
           /\ req[p].kind = "deploy" => req[p].old = None
           /\ req[p].target \in {req[p].old, req[p].cand} \cap Record
BY LocalNow DEF Local

LEMMA RemoveContainerOK ==
    ASSUME IInv, NEW p \in Procs, NEW svc \in Services,
           NEW step \in {"rm_frontend", "rm_backend"},
           NEW next \in {"rm_backend", "rm_network"},
           RemoveContainer(p, svc, step, next)
    PROVE  IInv'
<1> DEFINE r == [req[p] EXCEPT !.failed = TRUE]
<1> USE DEF IInv
<1>1. pc[p] \in Cleaning
  BY DEF RemoveContainer, Cleaning
<1>2. r \in Request /\ r.kind = req[p].kind /\ r.old = req[p].old
        /\ r.cand = req[p].cand /\ r.target = req[p].target
  BY <1>1, CleaningNow DEF Request
<1>3. Local(next, req[p]) /\ Local(next, r) /\ next \in Steps
  BY <1>1, <1>2, CleaningNow DEF Local, Steps, Releasing, Cleaning, Deleting, Builds, Kinds
<1>4. ControlOK' /\ mu' = mu
  BY <1>2, <1>3, Going, Becoming DEF RemoveContainer, Failing
<1>5. faults' \in Nat /\ crashes' \in Nat
  BY Faults DEF RemoveContainer
<1>6. DataOK'
  BY <1>4, <1>5 DEF RemoveContainer, DataOK
<1> QED BY <1>4, <1>6

LEMMA RemoveNetworkOK == ASSUME IInv, NEW p \in Procs, RemoveNetwork(p) PROVE IInv'
<1> USE DEF IInv
<1>1. pc[p] = "rm_network" /\ pc[p] \in Cleaning
  BY DEF RemoveNetwork, Cleaning
<1>2. Local("rm_images", req[p]) /\ "rm_images" \in Steps
  BY <1>1, CleaningNow DEF Local, Steps, Releasing, Cleaning, Deleting, Builds, Kinds
<1>3. req[p].kind = "delete" => Local("rm_versions", req[p])
  BY <1>1, CleaningNow DEF Local, Releasing, Cleaning, Deleting, Builds, Kinds
<1>4. "rm_versions" \in Steps
  BY DEF Steps, Deleting
<1>5. ASSUME NEW ok \in BOOLEAN, AfterNetwork(p, ok)
      PROVE  ControlOK' /\ mu' \in Procs \cup {None}
  BY <1>2, <1>3, <1>4, <1>5, Going, Finishing DEF AfterNetwork, DataOK
<1>6. ControlOK' /\ mu' \in Procs \cup {None}
  BY <1>5 DEF RemoveNetwork
<1>7. faults' \in Nat /\ crashes' \in Nat
  BY Faults DEF RemoveNetwork
<1>8. DataOK'
  BY <1>6, <1>7 DEF RemoveNetwork, DataOK
<1> QED BY <1>6, <1>8

LEMMA RemoveImagesOK == ASSUME IInv, NEW p \in Procs, RemoveImages(p) PROVE IInv'
<1> USE DEF IInv
<1>1. pc[p] \in Cleaning \cup Deleting
  BY DEF RemoveImages, Cleaning
<1>2. pc[p] = "rm_images" /\ pc[p] \in Cleaning
  BY DEF RemoveImages, Cleaning
<1>3. req[p].kind = "delete" => Local("rm_record", req[p])
  BY <1>2, CleaningNow DEF Local, Releasing, Cleaning, Deleting, Builds, Kinds
<1>4. "rm_record" \in Steps
  BY DEF Steps, Deleting
<1>5. ControlOK' /\ mu' \in Procs \cup {None}
  BY <1>3, <1>4, Going, Finishing DEF RemoveImages, DataOK
<1>6. faults' \in Nat /\ crashes' \in Nat
  BY Faults DEF RemoveImages
<1>7. DataOK'
  BY <1>5, <1>6 DEF RemoveImages, DataOK
<1> QED BY <1>5, <1>7

-----------------------------------------------------------------------------
(***************************************************************************)
(* The deletion, the restart, the crash.                                   *)
(***************************************************************************)
LEMMA ListVersionsOK == ASSUME IInv, NEW p \in Procs, ListVersions(p) PROVE IInv'
<1> DEFINE r == [req[p] EXCEPT !.seen = history, !.target = req[p].old]
<1> USE DEF IInv
<1>1. Local("list", req[p]) /\ req[p] \in Request
  BY LocalNow DEF ListVersions
<1>2. req[p].kind = "delete" /\ req[p].old \in Record
  BY <1>1 DEF Local, Deleting, Kinds
<1>3. r \in Request /\ r.kind = "delete" /\ r.old = req[p].old /\ r.target = req[p].old
  BY <1>1, <1>2 DEF Request, DataOK
<1>4. Local("rm_frontend", r) /\ "rm_frontend" \in Steps
  BY <1>2, <1>3 DEF Local, Steps, Releasing, Cleaning, Deleting, Builds, Kinds
<1>5. ControlOK' /\ mu' \in Procs \cup {None}
  <2>1. CASE Become(p, "rm_frontend", r)
    BY <1>3, <1>4, <2>1, Becoming DEF DataOK
  <2>2. CASE Finish(p)
    BY <2>2, Finishing
  <2> QED BY <2>1, <2>2 DEF ListVersions
<1>6. faults' \in Nat /\ crashes' \in Nat
  BY Faults DEF ListVersions
<1>7. DataOK'
  BY <1>5, <1>6 DEF ListVersions, DataOK, docker
<1> QED BY <1>5, <1>7

LEMMA RemoveVersionsOK == ASSUME IInv, NEW p \in Procs, RemoveVersions(p) PROVE IInv'
<1> USE DEF IInv
<1>1. Local("rm_versions", req[p])
  BY LocalNow DEF RemoveVersions
<1>2. Local("clear", req[p]) /\ "clear" \in Steps
  BY <1>1 DEF Local, Steps, Releasing, Cleaning, Deleting
<1>3. ControlOK' /\ mu' \in Procs \cup {None}
  BY <1>2, Going, Finishing DEF RemoveVersions, DataOK
<1>4. faults' \in Nat /\ crashes' \in Nat
  BY Faults DEF RemoveVersions
<1>5. DataOK'
  BY <1>3, <1>4 DEF RemoveVersions, DataOK
<1> QED BY <1>3, <1>5

LEMMA ClearHistoryOK == ASSUME IInv, NEW p \in Procs, ClearHistory(p) PROVE IInv'
<1> USE DEF IInv
<1>1. Local("clear", req[p])
  BY LocalNow DEF ClearHistory
<1>2. Local("rm_images", req[p]) /\ "rm_images" \in Steps
  BY <1>1 DEF Local, Steps, Releasing, Cleaning, Deleting, Builds, Kinds
<1>3. ControlOK' /\ mu' = mu
  BY <1>2, Going DEF ClearHistory
<1>4. faults' \in Nat /\ crashes' \in Nat
  BY Faults DEF ClearHistory
<1>5. DataOK'
  BY <1>3, <1>4 DEF ClearHistory, DataOK, docker
<1> QED BY <1>3, <1>5

LEMMA DeleteRecordOK == ASSUME IInv, NEW p \in Procs, DeleteRecord(p) PROVE IInv'
<1> USE DEF IInv
<1>1. Local("rm_record", req[p])
  BY LocalNow DEF DeleteRecord
<1>2. Local("sync", req[p]) /\ "sync" \in Steps
  BY <1>1 DEF Local, Steps, Releasing, Cleaning, Deleting, Builds, Kinds
<1>3. ControlOK' /\ mu' \in Procs \cup {None}
  BY <1>2, Going, Finishing DEF DeleteRecord, DataOK
<1>4. faults' \in Nat /\ crashes' \in Nat
  BY Faults DEF DeleteRecord
<1>5. DataOK'
  BY <1>3, <1>4 DEF DeleteRecord, DataOK, docker
<1> QED BY <1>3, <1>5

\* What a restart does to the data: containers only go up or down.
LEMMA Restarted ==
    ASSUME DataOK, NEW c \in SUBSET containers, NEW up \in BOOLEAN
    PROVE  (containers \ c) \cup {[d EXCEPT !.up = up] : d \in c} \subseteq Container
BY DEF DataOK, Container

LEMMA RestartsOK ==
    ASSUME IInv, NEW p \in Procs, RestartBackend(p) \/ RestartFrontend(p)
    PROVE  IInv'
<1> USE DEF IInv
<1>1. PICK svc \in Services, step \in {"restart_backend", "restart_frontend"} :
          Restart(p, svc, step, Go(p, "restart_frontend") \/ Finish(p))
  BY DEF RestartBackend, RestartFrontend, Restart, Services
<1>2. Local(step, req[p]) /\ req[p] \in Request
  BY <1>1, LocalNow DEF Restart
<1>3. Local("restart_frontend", req[p]) /\ "restart_frontend" \in Steps
  BY <1>2 DEF Local, Steps, Releasing, Cleaning, Deleting
<1>4. Go(p, "restart_frontend") \/ Finish(p)
  BY <1>1 DEF Restart
<1>5. ControlOK' /\ mu' \in Procs \cup {None}
  BY <1>3, <1>4, Going, Finishing DEF DataOK
<1>6. faults' \in Nat /\ crashes' \in Nat
  BY <1>1, Faults DEF Restart
<1>7. containers' \subseteq Container
  <2> DEFINE c == Of(req[p].old.rel, svc)
  <2>1. c \in SUBSET containers
    BY DEF Of
  <2>2. \A up \in BOOLEAN :
            (containers \ c) \cup {[d EXCEPT !.up = up] : d \in c} \subseteq Container
    BY <2>1, Restarted
  <2>3. \/ containers' = containers
        \/ containers' = (containers \ c) \cup {[d EXCEPT !.up = TRUE] : d \in c}
        \/ containers' = (containers \ c) \cup {[d EXCEPT !.up = FALSE] : d \in c}
    BY <1>1 DEF Restart
  <2> QED BY <2>2, <2>3 DEF DataOK
<1>8. DataOK'
  BY <1>1, <1>5, <1>6, <1>7 DEF Restart, DataOK
<1> QED BY <1>5, <1>8

\* The service starts with every request gone and main() before its synchronization.
LEMMA Started ==
    ASSUME pc' = [t \in Threads |-> IF t = Main THEN "sync" ELSE "idle"],
           req' = [t \in Threads |-> IF t = Main THEN [NoRequest EXCEPT !.kind = "boot"]
                                                ELSE NoRequest]
    PROVE  ControlOK'
<1> DEFINE boot == [NoRequest EXCEPT !.kind = "boot"]
<1>1. boot \in Request /\ boot.kind = "boot" /\ NoRequest \in Request
  BY NoRequestType DEF Request
<1>2. pc' \in [Threads -> Steps] /\ req' \in [Threads -> Request]
  BY <1>1 DEF Steps
<1>3. pc'[Main] = "sync" /\ req'[Main] = boot
  BY DEF Threads
<1>4. ASSUME NEW q \in Procs PROVE Local(pc'[q], req'[q])
  <2>1. pc'[q] = "idle" /\ req'[q] = NoRequest
    BY ConstantsAssumption DEF Threads
  <2>2. Local("idle", NoRequest)
    BY DEF Local, NoRequest, Releasing, Cleaning, Deleting, Kinds
  <2> QED BY <2>1, <2>2
<1> QED BY <1>1, <1>2, <1>3, <1>4 DEF ControlOK

LEMMA CrashOK == ASSUME IInv, Crash PROVE IInv'
<1>1. ControlOK'
  BY Started DEF Crash
<1>2. DataOK'
  BY DEF Crash, IInv, DataOK, docker
<1> QED BY <1>1, <1>2 DEF IInv

-----------------------------------------------------------------------------
(***************************************************************************)
(* The invariant.                                                          *)
(***************************************************************************)
LEMMA InitOK == ASSUME Init PROVE IInv
<1>1. store \in Record \cup {None}
  BY DEF Init, Record
<1>2. containers \subseteq Container /\ networks \subseteq Nat
  <2>1. store # None => Pair(store) \subseteq Container
    BY <1>1 DEF Pair, Record, Container
  <2>2. containers \subseteq Container
    BY <2>1 DEF Init
  <2>3. networks = {c.rel : c \in containers}
    BY DEF Init
  <2> QED BY <2>2, <2>3 DEF Container
<1>3. images \subseteq Image
  BY DEF Init, ImagePair, Image
<1>4. DataOK
  BY <1>1, <1>2, <1>3 DEF Init, DataOK, Version
<1> DEFINE boot == [NoRequest EXCEPT !.kind = "boot"]
<1>5. boot \in Request /\ boot.kind = "boot" /\ NoRequest \in Request
  BY NoRequestType DEF Request
<1>6. pc \in [Threads -> Steps] /\ req \in [Threads -> Request]
  BY <1>5 DEF Init, Steps
<1>7. pc[Main] = "sync" /\ req[Main] = boot
  BY DEF Init, Threads
<1>8. ASSUME NEW q \in Procs PROVE Local(pc[q], req[q])
  <2>1. pc[q] = "idle" /\ req[q] = NoRequest
    BY ConstantsAssumption DEF Init, Threads
  <2>2. Local("idle", NoRequest)
    BY DEF Local, NoRequest, Releasing, Cleaning, Deleting, Kinds
  <2> QED BY <2>1, <2>2
<1>9. ControlOK
  BY <1>5, <1>6, <1>7, <1>8 DEF ControlOK
<1> QED BY <1>4, <1>9 DEF IInv

LEMMA ReleaseOK == ASSUME IInv, NEW p \in Procs, Release(p) PROVE IInv'
<1>1. {Frontend, Backend} \subseteq Services
  BY DEF Services
<1>2. CASE BuildFrontend(p) \/ BuildBackend(p)
  BY <1>1, <1>2, BuildOK DEF BuildFrontend, BuildBackend
<1>3. CASE StartBackend(p) \/ StartFrontend(p)
  BY <1>1, <1>3, StartsOK DEF StartBackend, StartFrontend
<1>4. CASE Refused(p) \/ LockBuild(p) \/ LockRollback(p)
  BY <1>4, RefusedOK, LocksOK
<1>5. CASE CreateNetwork(p) \/ Verify(p) \/ Save(p)
  BY <1>5, CreateNetworkOK, VerifyOK, SaveOK
<1>6. CASE Restore(p) \/ RecordHistory(p)
  BY <1>6, RestoreOK, RecordHistoryOK
<1> QED BY <1>2, <1>3, <1>4, <1>5, <1>6 DEF Release

LEMMA CleanupOK == ASSUME IInv, NEW p \in Procs, Cleanup(p) PROVE IInv'
<1>1. {Frontend, Backend} \subseteq Services
  BY DEF Services
<1>2. CASE RemoveFrontend(p) \/ RemoveBackend(p)
  BY <1>1, <1>2, RemoveContainerOK DEF RemoveFrontend, RemoveBackend
<1>3. CASE RemoveNetwork(p) \/ RemoveImages(p)
  BY <1>3, RemoveNetworkOK, RemoveImagesOK
<1> QED BY <1>2, <1>3 DEF Cleanup

LEMMA OtherOK == ASSUME IInv, NEW p \in Procs, Other(p) PROVE IInv'
BY ListVersionsOK, RemoveVersionsOK, ClearHistoryOK, DeleteRecordOK, RestartsOK DEF Other

LEMMA StutterOK == ASSUME IInv, UNCHANGED vars PROVE IInv'
BY DEF vars, docker, bounds, IInv, DataOK, ControlOK

LEMMA NextOK == ASSUME IInv, [Next]_vars PROVE IInv'
<1>1. ASSUME NEW p \in Procs, Arrival(p) \/ Release(p) \/ Cleanup(p) \/ Other(p)
      PROVE  IInv'
  BY <1>1, ArrivalOK, ReleaseOK, CleanupOK, OtherOK
<1>2. ASSUME NEW t \in Threads, Sync(t) PROVE IInv'
  BY <1>2, SyncOK
<1> QED BY <1>1, <1>2, CrashOK, StutterOK DEF Next

\* Whatever the number of requests, crashes and failures, every variable of a
\* full-stack project keeps its type, and a request that has reached a step has the
\* record and the candidate that the step dereferences: no path through the shared
\* clean-up (cleanupFullstackRelease) works on a release that is not there.
THEOREM FullstackTypeCorrect == Spec => []TypeOK
<1>1. Init => IInv
  BY InitOK
<1>2. IInv /\ [Next]_vars => IInv'
  BY NextOK
<1> QED BY <1>1, <1>2, InvariantTypes, PTL DEF Spec

-----------------------------------------------------------------------------
(***************************************************************************)
(* One request at a time: which pairs are needed, and what the history     *)
(* offers.  A candidate has a stamp of its own, so that until its record   *)
(* is saved nothing names it, and the records tell which of the old pair   *)
(* and the candidate a clean-up may be about.                              *)
(***************************************************************************)
Serial == \A p, q \in Procs : p = q

Older(r, n) == r # None => r.rel < n /\ r.img < n

\* The history keeps an image once and has a newest entry; the recorded release
\* is in it only when its entry is the newest: a rollback whose history could not
\* be written.
Latest(v, V)  == \A w \in V \ {v} : w.at < v.at
Offered(r, V) == r # None => \A v \in V : v.img = r.img => Latest(v, V)
Ordered(V) ==
    /\ \A v, w \in V : v.img = w.img => v = w
    /\ V # {} => \E v \in V : Latest(v, V)

Stamped(V, n) == \A v \in V : v.img < n /\ v.at < n

World ==
    /\ Older(store, clock + 1) /\ Older(route, clock + 1)
    /\ Stamped(history, clock + 1)
    /\ IsFiniteSet(history) /\ Ordered(history) /\ Offered(store, history)

Preparing == {"build_frontend", "build_backend", "network", "start_backend",
              "start_frontend", "verify", "save"}
Promoting == {"sync", "restore", "record"}

\* What a release knows of its candidate.
Candidate(r) ==
    /\ r.cand.rel < clock + 1 /\ Older(r.old, r.cand.rel) /\ Stamped(r.seen, r.cand.rel)
    /\ Offered(r.old, r.seen)
    /\ r.kind # "rollback" => r.cand.img = r.cand.rel
    /\ r.kind = "rollback" => \E v \in r.seen : Latest(v, r.seen) /\ r.cand.img = v.img

\* How far the switch has come.
Switch(s, r) ==
    /\ s = "lock" => store = r.old
    /\ s \in Preparing \cup {"lock", "restore", "record"} => ~r.restoring
    /\ s \in Preparing => store = r.old
    /\ s \in Promoting => store = IF r.restoring THEN r.old ELSE r.cand
    /\ s \in {"build_frontend", "build_backend"} => r.kind # "rollback"
    /\ s \in Preparing \cup Promoting => r.seen = history
    /\ s \in Preparing \cup {"sync", "restore"} => Older(route, r.cand.rel)
    /\ s = "restore" \/ r.restoring => faults # 0
    /\ s = "record" => route = r.cand
    /\ s \in Cleaning /\ r.target = r.cand =>
         r.seen = history /\ (faults <= 1 => store = r.old /\ Older(route, r.cand.rel))
    /\ s \in Cleaning /\ r.target # r.cand => store = r.cand /\ route = r.cand
    /\ s = "rm_images" => r.kind # "rollback" /\ r.target = r.cand

Gone(rel, svc) == \A c \in containers : c.rel = rel => c.svc # svc

\* How far the deletion has come.
Removal(s, r) ==
    /\ s # "sync" => store = r.old
    /\ s \in Cleaning \cup {"rm_versions", "clear"} => r.target = r.old
    /\ s = "rm_backend" /\ ~r.failed => Gone(r.old.rel, Frontend)
    /\ s = "rm_network" /\ ~r.failed => Gone(r.old.rel, Frontend) /\ Gone(r.old.rel, Backend)
    /\ s \in {"rm_versions", "clear", "rm_images", "rm_record"} =>
         /\ Gone(r.old.rel, Frontend) /\ Gone(r.old.rel, Backend)
         /\ r.old.rel \notin networks

Doing(s, r) ==
    /\ r.kind \in Builds /\ s \notin {"idle", "lock"} => Candidate(r)
    /\ r.kind \in Builds => Switch(s, r)
    /\ r.kind = "delete" => Removal(s, r)

Booting == pc[Main] = "sync" => \A p \in Procs : pc[p] = "idle" /\ req[p] = NoRequest

PairInv == World /\ Booting /\ \A p \in Procs : Doing(pc[p], req[p])


\* What PairInv says of one request.
Sound(p) == World /\ Doing(pc[p], req[p])

LEMMA Went ==
    ASSUME ControlOK, NEW p \in Procs, NEW s, Go(p, s)
    PROVE  pc'[p] = s /\ req'[p] = req[p]
BY DEF ControlOK, Go, Goto, Threads

LEMMA Became ==
    ASSUME ControlOK, NEW p \in Procs, NEW s, NEW r, Become(p, s, r)
    PROVE  pc'[p] = s /\ req'[p] = r
BY DEF ControlOK, Become, Goto, Threads

LEMMA Returned ==
    ASSUME ControlOK, NEW p \in Procs, Finish(p)
    PROVE  pc'[p] = "idle" /\ req'[p] = NoRequest /\ Doing(pc[p], req[p])'
<1>1. pc'[p] = "idle" /\ req'[p] = NoRequest
  BY DEF ControlOK, Finish, Goto, Threads
<1>2. req'[p].kind = "none"
  BY <1>1 DEF NoRequest
<1> QED BY <1>1, <1>2 DEF Doing, Builds

\* A clean-up keeps what the request knows.
LEMMA Cleans ==
    ASSUME ControlOK, NEW p \in Procs, NEW r, Clean(p, r)
    PROVE  /\ pc'[p] = "rm_frontend"
           /\ req'[p].kind = req[p].kind /\ req'[p].old = req[p].old
           /\ req'[p].cand = req[p].cand /\ req'[p].seen = req[p].seen
           /\ req'[p].restoring = req[p].restoring
           /\ req'[p].target = r
<1>1. req[p] \in Request
  BY LocalNow
<1>2. pc'[p] = "rm_frontend" /\ req'[p] = [req[p] EXCEPT !.target = r, !.failed = FALSE]
  BY Became DEF Clean
<1> QED BY <1>1, <1>2 DEF Request

\* The candidate of a request stays what it was while the clock stands still.
LEMMA SameCandidate ==
    ASSUME NEW p \in Procs, Candidate(req[p]), clock' = clock,
           req'[p].kind = req[p].kind, req'[p].old = req[p].old,
           req'[p].cand = req[p].cand, req'[p].seen = req[p].seen
    PROVE  Candidate(req[p])'
BY DEF Candidate, Older, Stamped, Offered, Latest

LEMMA SameWorld ==
    ASSUME World, UNCHANGED <<store, route, history, clock>>
    PROVE  World'
BY DEF World, Older, Stamped, Ordered, Offered, Latest

\* The newest entry of a history, and what Retained keeps of it.
LEMMA NewestIs ==
    ASSUME NEW V \in SUBSET Version, NEW v \in V, Latest(v, V)
    PROVE  Newest(V) = v
<1>1. \A w \in V : w.at \in Nat
  BY DEF Version
<1>2. \A w \in V : w.at <= v.at
  BY <1>1 DEF Latest
<1>3. Newest(V) \in V /\ \A w \in V : w.at <= Newest(V).at
  BY <1>2 DEF Newest
<1>4. v.at <= Newest(V).at /\ v.at \in Nat /\ Newest(V).at \in Nat
  BY <1>1, <1>3
<1>5. CASE Newest(V) # v
  <2>1. Newest(V).at < v.at
    BY <1>3, <1>5 DEF Latest
  <2> QED BY <1>4, <2>1
<1> QED BY <1>5

LEMMA RetainedKeeps ==
    ASSUME NEW V \in SUBSET Version, IsFiniteSet(V), NEW v \in V, Latest(v, V),
           Retained(V) # {}
    PROVE  v \in Retained(V)
<1>1. PICK w \in V : Cardinality(Newer(V, w)) < MaxPrevious
  BY DEF Retained
<1>2. Newer(V, w) \subseteq V
  BY DEF Newer
<1>3. Cardinality(Newer(V, w)) \in Nat
  BY <1>2, FS_Subset, FS_CardinalityType
<1>4. Newer(V, v) = {}
  BY DEF Newer, Latest, Version
<1>5. Cardinality(Newer(V, v)) < MaxPrevious
  BY <1>1, <1>3, <1>4, FS_EmptySet, ConstantsAssumption
<1> QED BY <1>5 DEF Retained

-----------------------------------------------------------------------------
LEMMA ReleasingNow ==
    ASSUME ControlOK, NEW p \in Procs, Doing(pc[p], req[p]), pc[p] \in Releasing
    PROVE  /\ req[p] \in Request /\ req[p].kind \in Builds
           /\ Switch(pc[p], req[p])
           /\ pc[p] # "lock" => req[p].cand \in Record /\ Candidate(req[p])
BY LocalNow DEF Local, Doing, Releasing

LEMMA BeginSound ==
    ASSUME IInv, NEW p \in Procs, Sound(p), NEW kind, NEW first, Begin(p, kind, first),
           \/ first = "lock" /\ kind \in Builds
           \/ first = "restart_backend" /\ kind = "restart"
           \/ first = "list" /\ kind = "delete"
    PROVE  Sound(p)'
<1> DEFINE r == [NoRequest EXCEPT !.kind = kind, !.old = store]
<1>1. pc'[p] = first /\ req'[p] = r
  BY Became DEF Begin, IInv
<1>2. r.kind = kind /\ r.old = store /\ r.restoring = FALSE
  BY DEF NoRequest
<1>3. UNCHANGED <<store, route, history, clock, faults>>
  BY DEF Begin, docker, bounds
<1>4. World'
  BY <1>3, SameWorld DEF Sound
<1> HIDE DEF r
<1>5. CASE first = "lock" /\ kind \in Builds
  <2>1. Switch(pc[p], req[p])'
    BY <1>1, <1>2, <1>3, <1>5 DEF Switch, Preparing, Promoting, Cleaning
  <2> QED BY <1>1, <1>2, <1>4, <1>5, <2>1 DEF Doing, Builds, Sound
<1>6. CASE first = "restart_backend" /\ kind = "restart"
  BY <1>1, <1>2, <1>4, <1>6 DEF Doing, Builds, Sound
<1>7. CASE first = "list" /\ kind = "delete"
  <2>1. Removal(pc[p], req[p])'
    BY <1>1, <1>2, <1>3, <1>7 DEF Removal, Cleaning
  <2> QED BY <1>1, <1>2, <1>4, <1>7, <2>1 DEF Doing, Builds, Sound
<1> QED BY <1>5, <1>6, <1>7

LEMMA ArrivalSound ==
    ASSUME IInv, NEW p \in Procs, Sound(p), Arrival(p)
    PROVE  Sound(p)'
<1>1. CASE deployHandler(p) \/ redeployHandler(p) \/ rollbackDeploymentHandler(p)
  BY <1>1, BeginSound
     DEF deployHandler, redeployHandler, rollbackDeploymentHandler, Builds
<1>2. CASE restartDeploymentHandler(p) \/ deleteDeploymentHandler(p)
  BY <1>2, BeginSound DEF restartDeploymentHandler, deleteDeploymentHandler
<1> QED BY <1>1, <1>2 DEF Arrival

LEMMA AcceptedSound ==
    ASSUME IInv, NEW p \in Procs, Sound(p), NEW img \in Nat,
           NEW first \in {"build_frontend", "network"}, Accepted(p, img, first),
           req[p].kind # "rollback" => img = clock + 1,
           req[p].kind = "rollback" => first = "network"
               /\ \E v \in history : Latest(v, history) /\ img = v.img
    PROVE  Sound(p)'
<1> DEFINE c == [rel |-> clock', img |-> img]
<1> DEFINE r == [req[p] EXCEPT !.seen = history, !.cand = c]
<1> USE DEF IInv
<1>1. pc[p] = "lock" /\ clock' = clock + 1 /\ clock \in Nat
  BY DEF Accepted, DataOK
<1>2. req[p] \in Request /\ req[p].kind \in Builds /\ Switch("lock", req[p])
  BY <1>1, ReleasingNow DEF Sound, Releasing
<1>3. pc'[p] = first /\ req'[p] = r
  BY DEF Accepted, ControlOK, Goto, Threads
<1>4. r.kind = req[p].kind /\ r.old = req[p].old /\ r.cand = c /\ r.seen = history
        /\ r.restoring = req[p].restoring
  BY <1>2 DEF Request
<1>5. c.rel = clock + 1 /\ c.img = img
  BY <1>1
<1> HIDE DEF r, c
<1>6. UNCHANGED <<store, route, history, faults>>
  BY DEF Accepted, docker, bounds
<1>7. store = req[p].old /\ ~req[p].restoring
  BY <1>2 DEF Switch
<1>8. store \in Record \cup {None} /\ route \in Record \cup {None} /\ history \subseteq Version
  BY DEF DataOK
<1>9. World'
  <2>1. Older(store, clock + 2) /\ Older(route, clock + 2) /\ Stamped(history, clock + 2)
    BY <1>1, <1>8 DEF Sound, World, Older, Stamped, Record, Version
  <2>2. clock' + 1 = clock + 2
    BY <1>1
  <2>3. Older(store, clock' + 1) /\ Older(route, clock' + 1) /\ Stamped(history, clock' + 1)
    BY <2>1, <2>2
  <2> QED BY <1>6, <2>3 DEF Sound, World, Older, Stamped, Ordered, Offered, Latest
<1>10. Candidate(req[p])'
  <2>1. /\ c.rel < clock + 2 /\ Older(r.old, c.rel) /\ Stamped(r.seen, c.rel)
        /\ Offered(r.old, r.seen)
    BY <1>1, <1>4, <1>5, <1>7 DEF Sound, World
  <2> QED BY <1>1, <1>3, <1>4, <1>5, <1>6, <2>1 DEF Candidate, Older, Stamped, Offered, Latest
<1>11. Switch(pc[p], req[p])'
  <2>1. Older(route, c.rel)
    BY <1>1, <1>5 DEF Sound, World
  <2>2. first # "sync" /\ first \notin Promoting /\ first \notin Cleaning
          /\ first \in Preparing
    BY DEF Promoting, Cleaning, Preparing
  <2> QED BY <1>3, <1>4, <1>5, <1>6, <1>7, <2>1, <2>2 DEF Switch, Older
<1> QED BY <1>2, <1>3, <1>4, <1>9, <1>10, <1>11 DEF Sound, Doing, Builds

LEMMA LocksSound ==
    ASSUME IInv, NEW p \in Procs, Sound(p), LockBuild(p) \/ LockRollback(p)
    PROVE  Sound(p)'
<1> USE DEF IInv
<1>1. CASE LockBuild(p)
  <2>1. clock + 1 \in Nat
    BY DEF DataOK
  <2> QED BY <1>1, <2>1, AcceptedSound DEF LockBuild
<1>2. CASE LockRollback(p)
  <2>1. history # {} /\ history \subseteq Version
    BY <1>2 DEF LockRollback, DataOK
  <2>2. PICK v \in history : Latest(v, history)
    BY <2>1 DEF Sound, World, Ordered
  <2>3. Newest(history) = v /\ v.img \in Nat
    BY <2>1, <2>2, NewestIs DEF Version
  <2> QED BY <1>2, <2>2, <2>3, AcceptedSound DEF LockRollback
<1> QED BY <1>1, <1>2

\* A step of a release that changes no record and no history, and ends the request,
\* goes on to the next step before the switch, or cleans up after the candidate.
LEMMA PreparingSound ==
    ASSUME IInv, NEW p \in Procs, Sound(p), pc[p] \in Preparing,
           NEW next \in Preparing,
           next \in {"build_frontend", "build_backend"} => pc[p] = "build_frontend",
           Go(p, next) \/ Finish(p) \/ Clean(p, req[p].cand),
           UNCHANGED <<store, route, history, clock>>, faults' \in Nat, faults <= faults'
    PROVE  Sound(p)'
<1> USE DEF IInv
<1>1. World'
  BY SameWorld DEF Sound
<1>2. req[p] \in Request /\ req[p].kind \in Builds /\ Switch(pc[p], req[p])
        /\ req[p].cand \in Record /\ Candidate(req[p])
  BY ReleasingNow DEF Sound, Releasing, Preparing
<1>3. store = req[p].old /\ ~req[p].restoring /\ req[p].seen = history
        /\ Older(route, req[p].cand.rel)
  BY <1>2 DEF Switch
<1>4. CASE Go(p, next)
  <2>1. pc'[p] = next /\ req'[p] = req[p]
    BY <1>4, Went
  <2>2. Candidate(req[p])'
    BY <1>2, <2>1, SameCandidate
  <2>3. Switch(pc[p], req[p])'
    <3>1. /\ next # "sync" /\ next \notin Promoting /\ next \notin Cleaning
            /\ next \notin {"lock", "restore", "record", "rm_images"}
      BY DEF Promoting, Cleaning, Preparing
    <3>2. next \in {"build_frontend", "build_backend"} => req[p].kind # "rollback"
      BY <1>2 DEF Switch
    <3> QED BY <1>3, <2>1, <3>1, <3>2 DEF Switch, Older
  <2> QED BY <1>1, <1>2, <2>1, <2>2, <2>3 DEF Doing, Builds, Sound
<1>5. CASE Finish(p)
  BY <1>1, <1>5, Returned DEF Sound
<1>6. CASE Clean(p, req[p].cand)
  <2>1. /\ pc'[p] = "rm_frontend"
        /\ req'[p].kind = req[p].kind /\ req'[p].old = req[p].old
        /\ req'[p].cand = req[p].cand /\ req'[p].seen = req[p].seen
        /\ req'[p].restoring = req[p].restoring
        /\ req'[p].target = req[p].cand
    BY <1>6, Cleans
  <2>2. Candidate(req[p])'
    BY <1>2, <2>1, SameCandidate
  <2>3. Switch(pc[p], req[p])'
    BY <1>3, <2>1 DEF Switch, Older, Preparing, Promoting
  <2> QED BY <1>1, <1>2, <2>1, <2>2, <2>3 DEF Doing, Builds, Sound
<1> QED BY <1>4, <1>5, <1>6

LEMMA FaultCount ==
    ASSUME IInv, Fault \/ NoFault
    PROVE  faults' \in Nat /\ faults <= faults'
BY DEF IInv, DataOK, Fault, NoFault, bounds

LEMMA BuildsSound ==
    ASSUME IInv, NEW p \in Procs, Sound(p), BuildFrontend(p) \/ BuildBackend(p)
    PROVE  Sound(p)'
<1>1. PICK svc \in Services, step \in {"build_frontend", "build_backend"},
           next \in {"build_backend", "network"} :
             Build(p, svc, step, next) /\ (next = "build_backend" => step = "build_frontend")
  BY DEF BuildFrontend, BuildBackend, Services
<1>2. pc[p] = step /\ (Go(p, next) \/ Finish(p)) /\ (Fault \/ NoFault)
        /\ UNCHANGED <<store, route, history, clock>>
  BY <1>1 DEF Build
<1> QED BY <1>1, <1>2, FaultCount, PreparingSound DEF Preparing

LEMMA StartsSound ==
    ASSUME IInv, NEW p \in Procs, Sound(p),
           CreateNetwork(p) \/ StartBackend(p) \/ StartFrontend(p) \/ Verify(p)
    PROVE  Sound(p)'
<1>1. UNCHANGED <<store, route, history, clock, faults>>
  BY DEF CreateNetwork, StartBackend, StartFrontend, Start, Verify, bounds
<1>2. faults' \in Nat /\ faults <= faults'
  BY <1>1 DEF IInv, DataOK
<1>3. CASE CreateNetwork(p)
  <2>1. pc[p] = "network" /\ (Go(p, "start_backend") \/ Clean(p, req[p].cand))
    BY <1>3 DEF CreateNetwork
  <2> QED BY <1>1, <1>2, <2>1, PreparingSound DEF Preparing
<1>4. CASE StartBackend(p)
  <2>1. pc[p] = "start_backend" /\ (Go(p, "start_frontend") \/ Clean(p, req[p].cand))
    BY <1>4 DEF StartBackend, Start
  <2> QED BY <1>1, <1>2, <2>1, PreparingSound DEF Preparing
<1>5. CASE StartFrontend(p)
  <2>1. pc[p] = "start_frontend" /\ (Go(p, "verify") \/ Clean(p, req[p].cand))
    BY <1>5 DEF StartFrontend, Start
  <2> QED BY <1>1, <1>2, <2>1, PreparingSound DEF Preparing
<1>6. CASE Verify(p)
  <2>1. pc[p] = "verify" /\ (Go(p, "save") \/ Clean(p, req[p].cand))
    BY <1>6 DEF Verify
  <2> QED BY <1>1, <1>2, <2>1, PreparingSound DEF Preparing
<1> QED BY <1>3, <1>4, <1>5, <1>6

LEMMA RefusedSound ==
    ASSUME IInv, NEW p \in Procs, Sound(p), Refused(p)
    PROVE  Sound(p)'
<1>1. UNCHANGED <<store, route, history, clock>> /\ Finish(p)
  BY DEF Refused
<1> QED BY <1>1, SameWorld, Returned DEF IInv, Sound

\* A candidate is older than the next stamp, and where its image is offered by the
\* history it comes from, that entry is the newest.
LEMMA CandidateFits ==
    ASSUME NEW r, Candidate(r), r.kind \in Builds, r.seen \subseteq Version,
           r.cand \in Record, Ordered(r.seen), clock \in Nat, r.old \in Record \cup {None}
    PROVE  Older(r.cand, clock + 1) /\ Older(r.old, clock + 1) /\ Offered(r.cand, r.seen)
<1>1. r.cand.img < clock + 1
  <2>1. CASE r.kind # "rollback"
    BY <2>1 DEF Candidate
  <2>2. CASE r.kind = "rollback"
    <3>1. PICK v \in r.seen : r.cand.img = v.img
      BY <2>2 DEF Candidate
    <3>2. v.img < r.cand.rel /\ r.cand.rel < clock + 1 /\ v.img \in Nat /\ r.cand.rel \in Nat
      BY DEF Candidate, Stamped, Version, Record
    <3> QED BY <3>1, <3>2
  <2> QED BY <2>1, <2>2
<1>2. Older(r.old, clock + 1)
  BY NoneAssumption DEF Candidate, Older, Record
<1>3. Offered(r.cand, r.seen)
  <2>1. CASE r.kind # "rollback"
    <3>1. \A v \in r.seen : v.img < r.cand.img /\ v.img \in Nat /\ r.cand.img \in Nat
      BY <2>1 DEF Candidate, Stamped, Version, Record
    <3> QED BY <3>1 DEF Offered
  <2>2. CASE r.kind = "rollback"
    <3>1. PICK v \in r.seen : r.cand.img = v.img /\ Latest(v, r.seen)
      BY <2>2 DEF Candidate
    <3>2. \A w \in r.seen : w.img = r.cand.img => w = v
      BY <3>1 DEF Ordered
    <3> QED BY <3>1, <3>2 DEF Offered
  <2> QED BY <2>1, <2>2
<1> QED BY <1>1, <1>2, <1>3 DEF Older, Candidate

LEMMA SaveSound ==
    ASSUME IInv, NEW p \in Procs, Sound(p), Save(p)
    PROVE  Sound(p)'
<1> USE DEF IInv
<1>1. pc[p] = "save" /\ UNCHANGED <<history, route, clock>>
  BY DEF Save
<1>2. req[p] \in Request /\ req[p].kind \in Builds /\ Switch("save", req[p])
        /\ req[p].cand \in Record /\ Candidate(req[p])
  BY <1>1, ReleasingNow DEF Sound, Releasing
<1>3. ~req[p].restoring /\ req[p].seen = history /\ Older(route, req[p].cand.rel)
  BY <1>2 DEF Switch, Preparing
<1>4. CASE store' = req[p].cand /\ Go(p, "sync") /\ NoFault
  <2>1. pc'[p] = "sync" /\ req'[p] = req[p]
    BY <1>4, Went
  <2>2. Candidate(req[p])'
    BY <1>1, <1>2, <2>1, SameCandidate
  <2>3. Older(req[p].cand, clock + 1) /\ Offered(req[p].cand, history)
    BY <1>2, <1>3, CandidateFits DEF Sound, World, Request, DataOK
  <2>4. World'
    BY <1>1, <1>4, <2>3 DEF Sound, World, Older, Stamped, Ordered, Offered, Latest
  <2>5. Switch(pc[p], req[p])'
    BY <1>1, <1>3, <1>4, <2>1 DEF Switch, Older, Preparing, Promoting, Cleaning
  <2> QED BY <1>2, <2>1, <2>2, <2>4, <2>5 DEF Doing, Builds, Sound
<1>5. CASE Fault /\ Clean(p, req[p].cand) /\ UNCHANGED store
  <2>1. "network" \in Preparing
    BY DEF Preparing
  <2>2. pc[p] \in Preparing
    BY <1>1 DEF Preparing
  <2> QED BY <1>1, <1>5, <2>1, <2>2, FaultCount, PreparingSound
<1> QED BY <1>4, <1>5 DEF Save

LEMMA RestoreSound ==
    ASSUME IInv, NEW p \in Procs, Sound(p), Restore(p)
    PROVE  Sound(p)'
<1> USE DEF IInv
<1>1. pc[p] = "restore" /\ UNCHANGED <<history, route, clock>>
  BY DEF Restore
<1>2. req[p] \in Request /\ req[p].kind \in Builds /\ Switch("restore", req[p])
        /\ req[p].cand \in Record /\ Candidate(req[p])
  BY <1>1, ReleasingNow DEF Sound, Releasing
<1>3. /\ ~req[p].restoring /\ req[p].seen = history /\ Older(route, req[p].cand.rel)
      /\ store = req[p].cand /\ faults # 0
  BY <1>2 DEF Switch, Promoting
<1>4. CASE store' = req[p].old /\ NoFault /\ Become(p, "sync", [req[p] EXCEPT !.restoring = TRUE])
  <2> DEFINE r == [req[p] EXCEPT !.restoring = TRUE]
  <2>1. pc'[p] = "sync" /\ req'[p] = r
    BY <1>4, Became
  <2>2. r.kind = req[p].kind /\ r.old = req[p].old /\ r.cand = req[p].cand
          /\ r.seen = req[p].seen /\ r.restoring = TRUE
    BY <1>2 DEF Request
  <2> HIDE DEF r
  <2>3. Candidate(req[p])'
    BY <1>1, <1>2, <2>1, <2>2, SameCandidate
  <2>4. Older(req[p].old, clock + 1) /\ Offered(req[p].old, history)
    <3>1. Offered(req[p].old, history)
      BY <1>2, <1>3 DEF Candidate
    <3> QED BY <1>2, <1>3, <3>1, CandidateFits DEF Sound, World, Request, DataOK
  <2>5. World'
    BY <1>1, <1>4, <2>4 DEF Sound, World, Older, Stamped, Ordered, Offered, Latest
  <2>6. Switch(pc[p], req[p])'
    BY <1>1, <1>3, <1>4, <2>1, <2>2 DEF Switch, Older, Preparing, Promoting, Cleaning, NoFault, bounds
  <2> QED BY <1>2, <2>1, <2>2, <2>3, <2>5, <2>6 DEF Doing, Builds, Sound
<1>5. CASE Fault /\ Clean(p, req[p].cand) /\ UNCHANGED store
  <2>1. /\ pc'[p] = "rm_frontend"
        /\ req'[p].kind = req[p].kind /\ req'[p].old = req[p].old
        /\ req'[p].cand = req[p].cand /\ req'[p].seen = req[p].seen
        /\ req'[p].restoring = req[p].restoring
        /\ req'[p].target = req[p].cand
    BY <1>5, Cleans
  <2>2. Candidate(req[p])'
    BY <1>1, <1>2, <2>1, SameCandidate
  <2>3. ~(faults' <= 1)
    BY <1>3, <1>5 DEF Fault, DataOK
  <2>4. World'
    BY <1>1, <1>5, SameWorld DEF Sound
  <2>5. Switch(pc[p], req[p])'
    BY <1>1, <1>3, <2>1, <2>3 DEF Switch, Preparing, Promoting, Cleaning
  <2> QED BY <1>2, <2>1, <2>2, <2>4, <2>5 DEF Doing, Builds, Sound
<1>6. ~(req[p].kind = "deploy" /\ store = None)
  BY <1>2, <1>3, NoneAssumption
<1> QED BY <1>4, <1>5, <1>6 DEF Restore

LEMMA SyncSound ==
    ASSUME IInv, NEW p \in Procs, Sound(p), Sync(p)
    PROVE  Sound(p)'
<1> USE DEF IInv
<1>1. pc[p] = "sync" /\ UNCHANGED <<store, history, clock>>
  BY DEF Sync
<1>2. req[p] \in Request /\ Local("sync", req[p])
  BY <1>1, LocalNow
<1>3. faults' \in Nat /\ faults <= faults' /\ faults \in Nat
  BY FaultCount DEF Sync, DataOK
<1>4. route' \in {store, route}
  BY DEF Sync
<1>5. World'
  BY <1>1, <1>4 DEF Sound, World, Older, Stamped, Ordered, Offered, Latest
<1>6. CASE Finish(p)
  BY <1>5, <1>6, Returned DEF Sound
<1>7. CASE req[p].kind = "delete"
  <2>1. Finish(p)
    BY <1>7 DEF Sync, AfterSync
  <2> QED BY <1>6, <2>1
<1>8. CASE req[p].kind \in Builds /\ ~Finish(p)
  <2> DEFINE r == req[p]
  <2>1. r.kind # "boot" /\ r.kind # "delete" /\ r.cand \in Record
    BY <1>2, <1>8 DEF Builds, Local
  <2>2. Candidate(r) /\ Switch("sync", r)
    BY <1>1, <1>8 DEF Sound, Doing
  <2>3. /\ store = IF r.restoring THEN r.old ELSE r.cand
        /\ r.seen = history /\ Older(route, r.cand.rel) /\ (r.restoring => faults # 0)
    BY <2>2 DEF Switch, Promoting
  <2>4. CASE Clean(p, r.cand) /\ r.restoring
    <3>1. /\ pc'[p] = "rm_frontend"
          /\ req'[p].kind = r.kind /\ req'[p].old = r.old
          /\ req'[p].cand = r.cand /\ req'[p].seen = r.seen
          /\ req'[p].restoring = r.restoring
          /\ req'[p].target = r.cand
      BY <2>4, Cleans
    <3>2. Candidate(req[p])'
      BY <1>1, <2>2, <3>1, SameCandidate
    <3>3. Older(route', r.cand.rel)
      BY <1>4, <2>2, <2>3, <2>4 DEF Candidate
    <3>4. faults' # 0
      BY <1>3, <2>3, <2>4
    <3>5. Switch(pc[p], req[p])'
      BY <1>1, <2>3, <2>4, <3>1, <3>3, <3>4 DEF Switch, Older, Preparing, Promoting, Cleaning
    <3> QED BY <1>5, <1>8, <3>1, <3>2, <3>5 DEF Doing, Builds, Sound
  <2>5. CASE Go(p, "restore") /\ ~r.restoring /\ Fault /\ UNCHANGED route
    <3>1. pc'[p] = "restore" /\ req'[p] = r
      BY <2>5, Went
    <3>2. Candidate(req[p])'
      BY <1>1, <2>2, <3>1, SameCandidate
    <3>3. faults' # 0
      BY <1>3, <2>5 DEF Fault
    <3>4. Switch(pc[p], req[p])'
      BY <1>1, <2>3, <2>5, <3>1, <3>3 DEF Switch, Older, Preparing, Promoting, Cleaning
    <3> QED BY <1>5, <1>8, <3>1, <3>2, <3>4 DEF Doing, Builds, Sound
  <2>6. CASE Go(p, "record") /\ ~r.restoring /\ route' = store
    <3>1. pc'[p] = "record" /\ req'[p] = r
      BY <2>6, Went
    <3>2. Candidate(req[p])'
      BY <1>1, <2>2, <3>1, SameCandidate
    <3>3. Switch(pc[p], req[p])'
      BY <1>1, <2>3, <2>6, <3>1 DEF Switch, Older, Preparing, Promoting, Cleaning
    <3> QED BY <1>5, <1>8, <3>1, <3>2, <3>3 DEF Doing, Builds, Sound
  <2>7. CASE route' = store /\ NoFault /\ AfterSync(p, TRUE)
    BY <1>8, <2>1, <2>4, <2>6, <2>7 DEF AfterSync
  <2>8. CASE Fault /\ UNCHANGED route /\ AfterSync(p, FALSE)
    BY <1>8, <2>1, <2>4, <2>5, <2>8 DEF AfterSync
  <2> QED BY <2>7, <2>8 DEF Sync
<1>9. req[p].kind \in Builds \cup {"delete"}
  BY <1>2 DEF Local
<1> QED BY <1>6, <1>7, <1>8, <1>9

-----------------------------------------------------------------------------
(***************************************************************************)
(* The history a release records.                                          *)
(***************************************************************************)
\* Its entries have images of their own, the retired release is the newest, and the
\* image of the new release is in it at most there.
LEMMA Extension ==
    ASSUME IInv, NEW p \in Procs, Sound(p), pc[p] = "record",
           NEW new, new = [img |-> req[p].old.img, at |-> req[p].cand.rel]
    PROVE  /\ Extended(p) \subseteq Version /\ IsFiniteSet(Extended(p))
           /\ new \in Extended(p) /\ Latest(new, Extended(p))
           /\ \A v, w \in Extended(p) : v.img = w.img => v = w
           /\ \A v \in Extended(p) : v.img = req[p].cand.img => v = new
           /\ Stamped(Extended(p), clock + 1)
<1> DEFINE r == req[p]
<1> DEFINE Rest == IF r.kind = "rollback" THEN r.seen \ {Newest(r.seen)}
                                          ELSE {v \in history : v.img # r.old.img}
<1> USE DEF IInv
<1>1. r \in Request /\ r.kind \in Builds /\ Switch("record", r)
        /\ r.cand \in Record /\ Candidate(r)
  BY ReleasingNow DEF Sound, Releasing
<1>2. r.old \in Record
  BY LocalNow DEF Local
<1>3. r.seen = history /\ history \subseteq Version /\ IsFiniteSet(history) /\ Ordered(history)
  BY <1>1 DEF Switch, Promoting, DataOK, Sound, World
<1>4. Extended(p) = {new} \cup Rest
  BY DEF Extended
<1>5. new \in Version /\ new.img = r.old.img /\ new.at = r.cand.rel
  BY <1>1, <1>2 DEF Version, Record
<1>6. Rest \subseteq history
  BY <1>3
<1>7. r.kind = "rollback" =>
        \E v \in history : Latest(v, history) /\ Newest(history) = v /\ r.cand.img = v.img
  BY <1>1, <1>3, NewestIs DEF Candidate
<1>8. \A v \in Rest : v.img # r.old.img
  <2>1. ASSUME NEW v \in history, v.img = r.old.img, r.kind = "rollback"
        PROVE  v = Newest(history)
    <3>1. Latest(v, history)
      BY <1>1, <1>2, <1>3, <2>1, NoneAssumption DEF Candidate, Offered
    <3> QED BY <1>3, <3>1, NewestIs
  <2> QED BY <1>3, <2>1
<1>9. \A v \in Rest : v.img # r.cand.img
  <2>1. CASE r.kind = "rollback"
    <3>1. PICK v \in history : Newest(history) = v /\ r.cand.img = v.img
      BY <1>7, <2>1
    <3>2. \A w \in history : w.img = v.img => w = v
      BY <1>3 DEF Ordered
    <3>3. Rest = history \ {v}
      BY <1>3, <2>1, <3>1
    <3> QED BY <3>1, <3>2, <3>3
  <2>2. CASE r.kind # "rollback"
    <3>1. \A v \in history : v.img < r.cand.img /\ v.img \in Nat /\ r.cand.img \in Nat
      BY <1>1, <1>3, <2>2 DEF Candidate, Stamped, Version, Record
    <3> QED BY <1>6, <3>1
  <2> QED BY <2>1, <2>2
<1>10. \A v \in Rest : v.at < new.at
  BY <1>1, <1>3, <1>5, <1>6 DEF Candidate, Stamped
<1>11. \A v, w \in Rest : v.img = w.img => v = w
  BY <1>3, <1>6 DEF Ordered
<1>12. Stamped(history, clock + 1) /\ Stamped({new}, clock + 1)
  <2>1. r.old.img < clock + 1 /\ r.cand.rel < clock + 1
    BY <1>1, <1>2, NoneAssumption DEF Candidate, Older, Record, DataOK
  <2> QED BY <1>5, <2>1 DEF Stamped, Sound, World
<1>13. IsFiniteSet(Rest) /\ IsFiniteSet({new} \cup Rest)
  <2>1. IsFiniteSet(Rest)
    BY <1>3, <1>6, FS_Subset
  <2> QED BY <2>1, FS_AddElement, FS_EmptySet, FS_Singleton, FS_Union
<1> HIDE DEF Rest, r
<1>14. \A v, w \in Extended(p) : v.img = w.img => v = w
  BY <1>4, <1>5, <1>8, <1>11
<1>15. Latest(new, Extended(p)) /\ Stamped(Extended(p), clock + 1)
  BY <1>4, <1>6, <1>10, <1>12 DEF Latest, Stamped
<1> QED BY <1>3, <1>4, <1>5, <1>6, <1>9, <1>13, <1>14, <1>15 DEF r

LEMMA KeptHistory ==
    ASSUME IInv, NEW p \in Procs, Sound(p), pc[p] = "record"
    PROVE  LET kept == Retained(Extended(p)) IN
           /\ kept \subseteq Extended(p) /\ IsFiniteSet(kept)
           /\ Ordered(kept) /\ Offered(req[p].cand, kept) /\ Stamped(kept, clock + 1)
<1> DEFINE new == [img |-> req[p].old.img, at |-> req[p].cand.rel]
<1> DEFINE E == Extended(p)
<1> DEFINE kept == Retained(E)
<1>1. /\ E \subseteq Version /\ IsFiniteSet(E)
      /\ new \in E /\ Latest(new, E)
      /\ \A v, w \in E : v.img = w.img => v = w
      /\ \A v \in E : v.img = req[p].cand.img => v = new
      /\ Stamped(E, clock + 1)
  BY Extension
<1> HIDE DEF new, E
<1>2. kept \subseteq E
  BY DEF Retained
<1>3. IsFiniteSet(kept)
  BY <1>1, <1>2, FS_Subset
<1>4. kept # {} => new \in kept
  BY <1>1, RetainedKeeps
<1>5. Latest(new, kept)
  BY <1>1, <1>2 DEF Latest
<1>6. Ordered(kept)
  BY <1>1, <1>2, <1>4, <1>5 DEF Ordered
<1>7. Offered(req[p].cand, kept)
  BY <1>1, <1>2, <1>5 DEF Offered
<1>8. Stamped(kept, clock + 1)
  BY <1>1, <1>2 DEF Stamped
<1> QED BY <1>2, <1>3, <1>6, <1>7, <1>8 DEF E

LEMMA RecordHistorySound ==
    ASSUME IInv, NEW p \in Procs, Sound(p), RecordHistory(p)
    PROVE  Sound(p)'
<1> USE DEF IInv
<1>1. pc[p] = "record" /\ UNCHANGED <<store, route, clock>> /\ Clean(p, req[p].old)
  BY DEF RecordHistory
<1>2. req[p] \in Request /\ req[p].kind \in Builds /\ Switch("record", req[p])
        /\ req[p].cand \in Record /\ Candidate(req[p])
  BY <1>1, ReleasingNow DEF Sound, Releasing
<1>3. req[p].old \in Record
  BY <1>1, LocalNow DEF Local
<1>4. req[p].old # req[p].cand
  <2>1. req[p].old.rel < req[p].cand.rel
    BY <1>2, <1>3, NoneAssumption DEF Candidate, Older
  <2> QED BY <1>3, <2>1 DEF Record
<1>5. ~req[p].restoring /\ store = req[p].cand /\ route = req[p].cand
  BY <1>2 DEF Switch, Promoting
<1>6. /\ pc'[p] = "rm_frontend"
      /\ req'[p].kind = req[p].kind /\ req'[p].old = req[p].old
      /\ req'[p].cand = req[p].cand /\ req'[p].seen = req[p].seen
      /\ req'[p].restoring = req[p].restoring
      /\ req'[p].target = req[p].old
  BY <1>1, Cleans
<1>7. Candidate(req[p])'
  BY <1>1, <1>2, <1>6, SameCandidate
<1>8. Switch(pc[p], req[p])'
  BY <1>1, <1>4, <1>5, <1>6 DEF Switch, Preparing, Promoting, Cleaning
<1>9. World'
  <2>1. CASE history' = Retained(Extended(p))
    <3>1. /\ IsFiniteSet(history') /\ Ordered(history') /\ Offered(store, history')
          /\ Stamped(history', clock + 1)
      BY <1>1, <1>5, <2>1, KeptHistory
    <3> QED BY <1>1, <3>1 DEF Sound, World, Older, Stamped, Ordered, Offered, Latest
  <2>2. CASE UNCHANGED history
    BY <1>1, <2>2, SameWorld DEF Sound
  <2> QED BY <2>1, <2>2 DEF RecordHistory
<1> QED BY <1>2, <1>6, <1>7, <1>8, <1>9 DEF Doing, Builds, Sound

-----------------------------------------------------------------------------
(***************************************************************************)
(* The clean-up, the deletion and the restart.                             *)
(***************************************************************************)
\* A step of a release's clean-up: the records, the history and the route stay.
LEMMA CleaningSound ==
    ASSUME IInv, NEW p \in Procs, Sound(p), pc[p] \in Cleaning \ {"rm_images"},
           req[p].kind \in Builds, pc'[p] \in Cleaning,
           pc'[p] = "rm_images" => req[p].kind # "rollback" /\ req[p].target = req[p].cand,
           req'[p].kind = req[p].kind, req'[p].old = req[p].old, req'[p].cand = req[p].cand,
           req'[p].seen = req[p].seen, req'[p].restoring = req[p].restoring,
           req'[p].target = req[p].target,
           UNCHANGED <<store, route, history, clock>>, Fault \/ NoFault
    PROVE  Sound(p)'
<1>1. Candidate(req[p]) /\ Switch(pc[p], req[p])
  BY DEF Sound, Doing, Cleaning
<1>2. Candidate(req[p])'
  BY <1>1, SameCandidate
<1>3. faults' \in Nat /\ faults <= faults' /\ faults \in Nat
  BY FaultCount DEF IInv, DataOK
<1>4. Switch(pc[p], req[p])'
  <2>1. pc'[p] \notin Preparing \cup Promoting \cup {"lock"}
    BY DEF Cleaning, Preparing, Promoting
  <2>2. req[p].restoring => faults' # 0
    BY <1>1, <1>3 DEF Switch
  <2>3. req[p].target = req[p].cand =>
          req[p].seen = history /\ (faults' <= 1 => store = req[p].old /\ Older(route, req[p].cand.rel))
    BY <1>1, <1>3 DEF Switch
  <2>4. req[p].target # req[p].cand => store = req[p].cand /\ route = req[p].cand
    BY <1>1 DEF Switch
  <2> QED BY <2>1, <2>2, <2>3, <2>4 DEF Switch, Older, Preparing, Promoting
<1>5. World'
  BY SameWorld DEF Sound
<1> QED BY <1>2, <1>4, <1>5 DEF Doing, Builds, Sound

\* Failing marks the request and nothing else.
LEMMA Fails ==
    ASSUME ControlOK, NEW p \in Procs, NEW next, Failing(p, next)
    PROVE  /\ pc'[p] = next
           /\ req'[p].kind = req[p].kind /\ req'[p].old = req[p].old
           /\ req'[p].cand = req[p].cand /\ req'[p].seen = req[p].seen
           /\ req'[p].restoring = req[p].restoring /\ req'[p].target = req[p].target
           /\ req'[p].failed
<1>1. req[p] \in Request
  BY LocalNow
<1>2. pc'[p] = next /\ req'[p] = [req[p] EXCEPT !.failed = TRUE]
  BY Became DEF Failing
<1> QED BY <1>1, <1>2 DEF Request

LEMMA RemoveContainerSound ==
    ASSUME IInv, NEW p \in Procs, Sound(p), RemoveFrontend(p) \/ RemoveBackend(p)
    PROVE  Sound(p)'
<1> USE DEF IInv
<1>1. PICK svc, step, next :
        /\ \/ svc = Frontend /\ step = "rm_frontend" /\ next = "rm_backend"
           \/ svc = Backend /\ step = "rm_backend" /\ next = "rm_network"
        /\ RemoveContainer(p, svc, step, next)
  BY DEF RemoveFrontend, RemoveBackend
<1>2. pc[p] = step /\ step \in Cleaning \ {"rm_images"} /\ next \in Cleaning \ {"rm_images"}
        /\ UNCHANGED <<store, route, history, networks, clock>> /\ (Fault \/ NoFault)
  BY <1>1 DEF RemoveContainer, Cleaning
<1>3. req[p].kind \in Builds \cup {"delete"}
  BY <1>2, CleaningNow
<1>4. /\ pc'[p] = next
      /\ req'[p].kind = req[p].kind /\ req'[p].old = req[p].old
      /\ req'[p].cand = req[p].cand /\ req'[p].seen = req[p].seen
      /\ req'[p].restoring = req[p].restoring /\ req'[p].target = req[p].target
  BY <1>1, Went, Fails DEF RemoveContainer
<1>5. CASE req[p].kind \in Builds
  BY <1>2, <1>4, <1>5, CleaningSound
<1>6. CASE req[p].kind = "delete"
  <2>1. Removal(step, req[p])
    BY <1>2, <1>6 DEF Sound, Doing
  <2>2. store = req[p].old /\ req[p].target = req[p].old
    BY <1>1, <2>1 DEF Removal, Cleaning
  <2>3. ~req'[p].failed => ~req[p].failed /\ containers' = containers \ Of(req[p].old.rel, svc)
    BY <1>1, <2>2, Went, Fails DEF RemoveContainer
  <2>4. Removal(pc[p], req[p])'
    BY <1>1, <1>2, <1>4, <2>1, <2>2, <2>3 DEF Removal, Gone, Of, Cleaning
  <2>5. World'
    BY <1>2, SameWorld DEF Sound
  <2> QED BY <1>4, <1>6, <2>4, <2>5 DEF Doing, Builds, Sound
<1> QED BY <1>3, <1>5, <1>6

LEMMA RemoveNetworkSound ==
    ASSUME IInv, NEW p \in Procs, Sound(p), RemoveNetwork(p)
    PROVE  Sound(p)'
<1> USE DEF IInv
<1>1. pc[p] = "rm_network" /\ pc[p] \in Cleaning \ {"rm_images"} /\ (Fault \/ NoFault)
        /\ UNCHANGED <<store, route, history, containers, clock>>
  BY DEF RemoveNetwork, Cleaning
<1>2. req[p].kind \in Builds \cup {"delete"}
  BY <1>1, CleaningNow
<1>3. World'
  BY <1>1, SameWorld DEF Sound
<1>4. CASE Finish(p)
  BY <1>3, <1>4, Returned DEF Sound
<1>5. CASE Go(p, "rm_images") /\ OwnImages(p)
  <2>1. pc'[p] = "rm_images" /\ req'[p] = req[p]
    BY <1>5, Went
  <2>2. req[p].kind \in Builds /\ req[p].kind # "rollback" /\ req[p].target = req[p].cand
    BY <1>5 DEF OwnImages, Builds
  <2> QED BY <1>1, <2>1, <2>2, CleaningSound DEF Cleaning
<1>6. CASE /\ Go(p, "rm_versions") /\ req[p].kind = "delete" /\ ~req[p].failed
           /\ networks' = networks \ {req[p].target.rel}
  <2>1. pc'[p] = "rm_versions" /\ req'[p] = req[p]
    BY <1>6, Went
  <2>2. Removal("rm_network", req[p])
    BY <1>1, <1>6 DEF Sound, Doing
  <2>3. Removal(pc[p], req[p])'
    BY <1>1, <1>6, <2>1, <2>2 DEF Removal, Gone, Cleaning
  <2> QED BY <1>3, <1>6, <2>1, <2>3 DEF Doing, Builds, Sound
<1> QED BY <1>4, <1>5, <1>6 DEF RemoveNetwork, AfterNetwork

LEMMA DeletionSound ==
    ASSUME IInv, NEW p \in Procs, Sound(p), req[p].kind = "delete",
           pc[p] \in {"rm_versions", "clear", "rm_images", "rm_record"},
           NEW next \in {"clear", "rm_images", "rm_record"}, Go(p, next),
           pc[p] = "rm_images" => next = "rm_record", pc[p] # "rm_record",
           World', UNCHANGED <<store, route, containers, networks, clock>>
    PROVE  Sound(p)'
<1>1. pc'[p] = next /\ req'[p] = req[p]
  BY Went DEF IInv
<1>2. Removal(pc[p], req[p])
  BY DEF Sound, Doing
<1>3. Removal(pc[p], req[p])'
  BY <1>1, <1>2 DEF Removal, Gone, Cleaning
<1> QED BY <1>1, <1>3 DEF Doing, Builds, Sound

LEMMA RemoveImagesSound ==
    ASSUME IInv, NEW p \in Procs, Sound(p), RemoveImages(p)
    PROVE  Sound(p)'
<1>1. pc[p] = "rm_images" /\ UNCHANGED <<store, route, history, containers, networks, clock>>
  BY DEF RemoveImages
<1>2. World'
  BY <1>1, SameWorld DEF Sound
<1>3. CASE req[p].kind = "delete"
  <2>1. Go(p, "rm_record")
    BY <1>3 DEF RemoveImages
  <2> QED BY <1>1, <1>2, <1>3, <2>1, DeletionSound
<1>4. CASE req[p].kind # "delete"
  <2>1. Finish(p)
    BY <1>4 DEF RemoveImages
  <2> QED BY <1>2, <2>1, Returned DEF IInv, Sound
<1> QED BY <1>3, <1>4

LEMMA DeletingNow ==
    ASSUME ControlOK, NEW p \in Procs, pc[p] \in Deleting
    PROVE  req[p].kind = "delete" /\ req[p] \in Request
BY LocalNow DEF Local

LEMMA ListVersionsSound ==
    ASSUME IInv, NEW p \in Procs, Sound(p), ListVersions(p)
    PROVE  Sound(p)'
<1> USE DEF IInv
<1>1. pc[p] = "list" /\ UNCHANGED <<store, route, history, containers, networks, clock>>
  BY DEF ListVersions, docker
<1>2. req[p].kind = "delete" /\ req[p] \in Request
  BY <1>1, DeletingNow DEF Deleting
<1>3. World'
  BY <1>1, SameWorld DEF Sound
<1>4. CASE Finish(p)
  BY <1>3, <1>4, Returned DEF Sound
<1>5. CASE Become(p, "rm_frontend", [req[p] EXCEPT !.seen = history, !.target = req[p].old])
  <2> DEFINE r == [req[p] EXCEPT !.seen = history, !.target = req[p].old]
  <2>1. pc'[p] = "rm_frontend" /\ req'[p] = r
    BY <1>5, Became
  <2>2. r.kind = "delete" /\ r.old = req[p].old /\ r.target = req[p].old
    BY <1>2 DEF Request
  <2> HIDE DEF r
  <2>3. store = req[p].old
    BY <1>1, <1>2 DEF Sound, Doing, Removal
  <2>4. Removal(pc[p], req[p])'
    BY <1>1, <2>1, <2>2, <2>3 DEF Removal, Cleaning
  <2> QED BY <1>3, <2>1, <2>2, <2>4 DEF Doing, Builds, Sound
<1> QED BY <1>4, <1>5 DEF ListVersions

LEMMA RemoveVersionsSound ==
    ASSUME IInv, NEW p \in Procs, Sound(p), RemoveVersions(p)
    PROVE  Sound(p)'
<1>1. pc[p] = "rm_versions" /\ UNCHANGED <<store, route, history, containers, networks, clock>>
        /\ (Go(p, "clear") \/ Finish(p))
  BY DEF RemoveVersions
<1>2. req[p].kind = "delete"
  BY <1>1, DeletingNow DEF Deleting, IInv
<1>3. World'
  BY <1>1, SameWorld DEF Sound
<1>4. CASE Finish(p)
  BY <1>3, <1>4, Returned DEF IInv, Sound
<1> QED BY <1>1, <1>2, <1>3, <1>4, DeletionSound

LEMMA ClearHistorySound ==
    ASSUME IInv, NEW p \in Procs, Sound(p), ClearHistory(p)
    PROVE  Sound(p)'
<1>1. pc[p] = "clear" /\ UNCHANGED <<store, route, containers, networks, clock>>
        /\ Go(p, "rm_images")
  BY DEF ClearHistory, docker
<1>2. req[p].kind = "delete"
  BY <1>1, DeletingNow DEF Deleting, IInv
<1>3. World'
  <2>1. CASE history' = {}
    BY <1>1, <2>1, FS_EmptySet DEF Sound, World, Older, Stamped, Ordered, Offered, Latest
  <2>2. CASE UNCHANGED history
    BY <1>1, <2>2, SameWorld DEF Sound
  <2> QED BY <2>1, <2>2 DEF ClearHistory
<1> QED BY <1>1, <1>2, <1>3, DeletionSound

LEMMA DeleteRecordSound ==
    ASSUME IInv, NEW p \in Procs, Sound(p), DeleteRecord(p)
    PROVE  Sound(p)'
<1>1. pc[p] = "rm_record" /\ UNCHANGED <<route, history, clock>> /\ store' \in {store, None}
  BY DEF DeleteRecord
<1>2. req[p].kind = "delete"
  BY <1>1, DeletingNow DEF Deleting, IInv
<1>3. World'
  BY <1>1 DEF Sound, World, Older, Stamped, Ordered, Offered, Latest
<1>4. CASE Finish(p)
  BY <1>3, <1>4, Returned DEF IInv, Sound
<1>5. CASE Go(p, "sync")
  <2>1. pc'[p] = "sync" /\ req'[p] = req[p]
    BY <1>5, Went DEF IInv
  <2>2. Removal(pc[p], req[p])'
    BY <2>1 DEF Removal, Cleaning
  <2> QED BY <1>2, <1>3, <2>1, <2>2 DEF Doing, Builds, Sound
<1> QED BY <1>4, <1>5 DEF DeleteRecord

LEMMA RestartsSound ==
    ASSUME IInv, NEW p \in Procs, Sound(p), RestartBackend(p) \/ RestartFrontend(p)
    PROVE  Sound(p)'
<1> USE DEF IInv
<1>1. /\ pc[p] \in {"restart_backend", "restart_frontend"}
      /\ UNCHANGED <<store, route, history, clock>>
      /\ Go(p, "restart_frontend") \/ Finish(p)
  BY DEF RestartBackend, RestartFrontend, Restart
<1>2. World'
  BY <1>1, SameWorld DEF Sound
<1>3. req[p].kind = "restart"
  BY <1>1, LocalNow DEF Local
<1>4. CASE Finish(p)
  BY <1>2, <1>4, Returned DEF Sound
<1>5. CASE Go(p, "restart_frontend")
  <2>1. req'[p] = req[p]
    BY <1>5, Went
  <2> QED BY <1>2, <1>3, <2>1 DEF Doing, Builds, Sound
<1> QED BY <1>1, <1>4, <1>5

-----------------------------------------------------------------------------
(***************************************************************************)
(* The invariant of one request at a time.                                 *)
(***************************************************************************)
Work(p) == Arrival(p) \/ Release(p) \/ Cleanup(p) \/ Other(p)

LEMMA WorkSound ==
    ASSUME IInv, NEW p \in Procs, Sound(p), Work(p)
    PROVE  Sound(p)'
<1>1. CASE Release(p)
  BY <1>1, RefusedSound, LocksSound, BuildsSound, StartsSound, SaveSound, RestoreSound,
     RecordHistorySound DEF Release
<1>2. CASE Cleanup(p)
  BY <1>2, RemoveContainerSound, RemoveNetworkSound, RemoveImagesSound DEF Cleanup
<1>3. CASE Other(p)
  BY <1>3, ListVersionsSound, RemoveVersionsSound, ClearHistorySound, DeleteRecordSound,
     RestartsSound DEF Other
<1> QED BY <1>1, <1>2, <1>3, ArrivalSound DEF Work

\* A request moves only itself, and only once main() has synchronized the proxy.
LEMMA Moves == ASSUME NEW p, Finish(p) PROVE \E s : Goto(p, s)
BY DEF Finish
LEMMA Goes == ASSUME NEW p, NEW s, Go(p, s) PROVE \E x : Goto(p, x)
BY DEF Go
LEMMA Becomes == ASSUME NEW p, NEW s, NEW r, Become(p, s, r) PROVE \E x : Goto(p, x)
BY DEF Become
LEMMA CleansUp == ASSUME NEW p, NEW r, Clean(p, r) PROVE \E x : Goto(p, x)
BY Becomes DEF Clean

LEMMA WorkMoves ==
    ASSUME IInv, NEW p \in Procs, Work(p)
    PROVE  /\ \E s : Goto(p, s)
           /\ pc[p] = "idle" => pc[Main] = "idle"
<1>1. CASE Arrival(p)
  BY <1>1, Becomes DEF Arrival, deployHandler, redeployHandler, rollbackDeploymentHandler,
     restartDeploymentHandler, deleteDeploymentHandler, Begin
<1>2. CASE Refused(p) \/ LockBuild(p) \/ LockRollback(p)
  BY <1>2, Moves DEF Refused, LockBuild, LockRollback, Accepted
<1>3. CASE BuildFrontend(p) \/ BuildBackend(p)
  BY <1>3, Moves, Goes DEF BuildFrontend, BuildBackend, Build
<1>4. CASE CreateNetwork(p) \/ StartBackend(p) \/ StartFrontend(p) \/ Verify(p) \/ Save(p)
  BY <1>4, CleansUp, Goes DEF CreateNetwork, StartBackend, StartFrontend, Start, Verify, Save
<1>5. CASE Restore(p) \/ RecordHistory(p)
  BY <1>5, CleansUp, Becomes DEF Restore, RecordHistory
<1>6. CASE Cleanup(p)
  BY <1>6, Moves, Goes, Becomes DEF Cleanup, RemoveFrontend, RemoveBackend, RemoveContainer,
     Failing, RemoveNetwork, AfterNetwork, RemoveImages
<1>7. CASE ListVersions(p) \/ RemoveVersions(p) \/ ClearHistory(p) \/ DeleteRecord(p)
  BY <1>7, Moves, Goes, Becomes DEF ListVersions, RemoveVersions, ClearHistory, DeleteRecord
<1>8. CASE RestartBackend(p) \/ RestartFrontend(p)
  BY <1>8, Moves, Goes DEF RestartBackend, RestartFrontend, Restart
<1> QED BY <1>1, <1>2, <1>3, <1>4, <1>5, <1>6, <1>7, <1>8 DEF Work, Release, Other

LEMMA Alone ==
    ASSUME Serial, NEW p \in Procs, PairInv
    PROVE  Sound(p)
BY DEF PairInv, Sound

LEMMA RequestPair ==
    ASSUME Serial, IInv, PairInv, NEW p \in Procs, Work(p) \/ Sync(p)
    PROVE  PairInv'
<1>1. Sound(p)
  BY Alone
<1>2. Sound(p)'
  BY <1>1, WorkSound, SyncSound
<1>3. \A q \in Procs : q = p
  BY DEF Serial
<1>4. pc[Main] = "sync" => pc[p] = "idle"
  BY DEF PairInv, Booting
<1>5. /\ \E s : Goto(p, s)
      /\ pc[p] = "idle" => pc[Main] = "idle"
  <2>1. CASE Work(p)
    BY <2>1, WorkMoves
  <2>2. CASE Sync(p)
    BY <2>2, Moves, Goes, CleansUp DEF Sync, AfterSync
  <2> QED BY <2>1, <2>2
<1>6. pc'[Main] # "sync"
  <2>1. p # Main /\ Main \in Threads
    BY ConstantsAssumption DEF Threads
  <2>2. pc'[Main] = pc[Main]
    BY <1>5, <2>1 DEF Goto, IInv, ControlOK
  <2> QED BY <1>4, <1>5, <2>2
<1> QED BY <1>2, <1>3, <1>6 DEF Sound, PairInv, Booting

\* Nobody is at work while, and just after, main() synchronizes.
LEMMA Resting ==
    ASSUME World, \A p \in Procs : pc[p] = "idle" /\ req[p] = NoRequest
    PROVE  PairInv
<1>1. \A p \in Procs : Doing(pc[p], req[p])
  <2>1. NoRequest.kind = "none"
    BY DEF NoRequest
  <2> QED BY <2>1 DEF Doing, Builds
<1> QED BY <1>1 DEF PairInv, Booting

LEMMA StartPair ==
    ASSUME Init
    PROVE  PairInv
<1>1. \A p \in Procs : pc[p] = "idle" /\ req[p] = NoRequest
  BY ConstantsAssumption DEF Init, Threads
<1>2. World
  <2>1. Older(store, 1) /\ route = store /\ clock = 0 /\ history = {}
    BY NoneAssumption DEF Init, Older
  <2> QED BY <2>1, FS_EmptySet DEF World, Stamped, Ordered, Offered
<1> QED BY <1>1, <1>2, Resting

LEMMA RestingNext ==
    ASSUME World', \A p \in Procs : pc'[p] = "idle" /\ req'[p] = NoRequest
    PROVE  PairInv'
<1>1. \A p \in Procs : Doing(pc[p], req[p])'
  <2>1. NoRequest.kind = "none"
    BY DEF NoRequest
  <2> QED BY <2>1 DEF Doing, Builds
<1> QED BY <1>1 DEF PairInv, Booting

LEMMA BootPair ==
    ASSUME IInv, PairInv, Sync(Main)
    PROVE  PairInv'
<1> USE DEF IInv
<1>1. pc[Main] = "sync" /\ req[Main].kind = "boot"
  BY DEF Sync, ControlOK
<1>2. Finish(Main)
  BY <1>1 DEF Sync, AfterSync
<1>3. \A p \in Procs : pc'[p] = "idle" /\ req'[p] = NoRequest
  <2>1. \A p \in Procs : pc[p] = "idle" /\ req[p] = NoRequest /\ p # Main
    BY <1>1, ConstantsAssumption DEF PairInv, Booting
  <2> QED BY <1>2, <2>1 DEF Finish, Goto, ControlOK, Threads
<1>4. World'
  <2>1. UNCHANGED <<store, history, clock>> /\ route' \in {store, route}
    BY DEF Sync
  <2> QED BY <2>1 DEF PairInv, World, Older, Stamped, Ordered, Offered, Latest
<1> QED BY <1>3, <1>4, RestingNext

LEMMA CrashPair ==
    ASSUME PairInv, Crash
    PROVE  PairInv'
<1>1. \A p \in Procs : pc'[p] = "idle" /\ req'[p] = NoRequest
  BY ConstantsAssumption DEF Crash, Threads
<1>2. World'
  BY SameWorld DEF Crash, PairInv
<1> QED BY <1>1, <1>2, RestingNext

LEMMA StutterPair ==
    ASSUME PairInv, UNCHANGED vars
    PROVE  PairInv'
<1>1. UNCHANGED <<store, route, history, clock, containers, networks, faults, pc, req>>
  BY DEF vars, docker, bounds
<1>2. World'
  BY <1>1, SameWorld DEF PairInv
<1>3. Booting'
  BY <1>1 DEF PairInv, Booting
<1>4. \A p \in Procs : Doing(pc[p], req[p])'
  <2>1. TAKE p \in Procs
  <2>2. Doing(pc[p], req[p])
    BY DEF PairInv
  <2>3. Candidate(req[p]) => Candidate(req[p])'
    BY <1>1, SameCandidate
  <2>4. Switch(pc[p], req[p]) => Switch(pc[p], req[p])'
    BY <1>1 DEF Switch, Older
  <2>5. Removal(pc[p], req[p]) => Removal(pc[p], req[p])'
    BY <1>1 DEF Removal, Gone
  <2> QED BY <1>1, <2>2, <2>3, <2>4, <2>5 DEF Doing
<1> QED BY <1>2, <1>3, <1>4 DEF PairInv

LEMMA PairNext ==
    ASSUME Serial, IInv, PairInv, [Next]_vars
    PROVE  PairInv'
<1>1. ASSUME NEW p \in Procs, Work(p) PROVE PairInv'
  BY <1>1, RequestPair
<1>2. ASSUME NEW t \in Threads, Sync(t) PROVE PairInv'
  BY <1>2, RequestPair, BootPair DEF Threads
<1> QED BY <1>1, <1>2, CrashPair, StutterPair DEF Next, Work

LEMMA PairHolds == ASSUME Serial PROVE Spec => [](IInv /\ PairInv)
<1>1. Init => IInv /\ PairInv
  BY InitOK, StartPair
<1>2. IInv /\ PairInv /\ [Next]_vars => IInv' /\ PairInv'
  BY NextOK, PairNext
<1> QED BY <1>1, <1>2, PTL DEF Spec

-----------------------------------------------------------------------------
(***************************************************************************)
(* What the steps of a request take away.                                  *)
(***************************************************************************)
\* A clean-up of a release is about a pair that nothing needs.
LEMMA NotNeeded ==
    ASSUME IInv, NEW p \in Procs, Sound(p), pc[p] \in Cleaning, req[p].kind # "delete",
           faults <= 1
    PROVE  req[p].target.rel \notin Needed
<1> DEFINE r == req[p]
<1>1. r.kind \in Builds /\ r.target \in {r.old, r.cand} \cap Record
  BY CleaningNow DEF IInv
<1>2. Candidate(r) /\ Switch(pc[p], r)
  BY <1>1 DEF Sound, Doing, Cleaning
<1>3. store \in Record \cup {None} /\ route \in Record \cup {None}
  BY DEF IInv, DataOK
<1>4. CASE r.target = r.cand
  <2>1. Older(store, r.target.rel) /\ Older(route, r.target.rel)
    BY <1>2, <1>4 DEF Switch, Candidate
  <2> QED BY <1>1, <1>3, <2>1 DEF Needed, Older, Record
<1>5. CASE r.target # r.cand
  <2>1. store = r.cand /\ route = r.cand /\ r.target = r.old
    BY <1>1, <1>2, <1>5 DEF Switch
  <2>2. r.old.rel < r.cand.rel /\ r.old.rel \in Nat
    BY <1>1, <1>2, <2>1, NoneAssumption DEF Candidate, Older, Record
  <2> QED BY <1>3, <2>1, <2>2 DEF Needed, Record
<1> QED BY <1>4, <1>5

LEMMA TakesUnused ==
    ASSUME IInv, NEW p \in Procs, Sound(p), Work(p), req[p].kind # "delete", faults' <= 1
    PROVE  /\ \A c \in containers \ containers' : c.up => c.rel \notin Needed
                 \/ \E d \in containers' : d.rel = c.rel /\ d.svc = c.svc
           /\ (networks \ networks') \cap Needed = {}
<1> USE DEF IInv
<1>1. CASE containers \subseteq containers' /\ networks \subseteq networks'
  BY <1>1
<1>2. CASE Arrival(p) \/ Refused(p) \/ LockBuild(p) \/ LockRollback(p)
  <2>1. UNCHANGED docker
    BY <1>2 DEF Arrival, deployHandler, redeployHandler, rollbackDeploymentHandler,
       restartDeploymentHandler, deleteDeploymentHandler, Begin, Refused, LockBuild,
       LockRollback, Accepted
  <2> QED BY <1>1, <2>1 DEF docker
<1>3. CASE BuildFrontend(p) \/ BuildBackend(p) \/ CreateNetwork(p)
  BY <1>1, <1>3 DEF BuildFrontend, BuildBackend, Build, CreateNetwork
<1>4. CASE StartBackend(p) \/ StartFrontend(p)
  BY <1>1, <1>4 DEF StartBackend, StartFrontend, Start
<1>5. CASE Verify(p) \/ Save(p) \/ Restore(p) \/ RecordHistory(p)
  BY <1>1, <1>5 DEF Verify, Save, Restore, RecordHistory, docker
<1>6. CASE RemoveFrontend(p) \/ RemoveBackend(p)
  <2>1. pc[p] \in Cleaning /\ (Fault \/ NoFault) /\ UNCHANGED networks
    BY <1>6 DEF RemoveFrontend, RemoveBackend, RemoveContainer, Cleaning
  <2>2. req[p].target.rel \notin Needed
    <3>1. faults <= 1
      BY <2>1, FaultCount DEF DataOK
    <3> QED BY <2>1, <3>1, NotNeeded
  <2>3. \A c \in containers \ containers' : c.rel = req[p].target.rel
    BY <1>6 DEF RemoveFrontend, RemoveBackend, RemoveContainer, Of
  <2> QED BY <2>1, <2>2, <2>3
<1>7. CASE RemoveNetwork(p)
  <2>1. pc[p] \in Cleaning /\ (Fault \/ NoFault) /\ UNCHANGED containers
          /\ networks \ networks' \subseteq {req[p].target.rel}
    BY <1>7 DEF RemoveNetwork, Cleaning
  <2>2. req[p].target.rel \notin Needed
    <3>1. faults <= 1
      BY <2>1, FaultCount DEF DataOK
    <3> QED BY <2>1, <3>1, NotNeeded
  <2> QED BY <2>1, <2>2
<1>8. CASE RemoveImages(p) \/ RemoveVersions(p)
  BY <1>1, <1>8 DEF RemoveImages, RemoveVersions
<1>9. CASE ListVersions(p) \/ ClearHistory(p) \/ DeleteRecord(p)
  BY <1>1, <1>9 DEF ListVersions, ClearHistory, DeleteRecord, docker
<1>10. CASE RestartBackend(p) \/ RestartFrontend(p)
  <2>1. PICK svc \in Services : \/ UNCHANGED containers
          \/ \E up \in BOOLEAN : containers' = (containers \ Of(req[p].old.rel, svc))
                 \cup {[d EXCEPT !.up = up] : d \in Of(req[p].old.rel, svc)}
    BY <1>10 DEF RestartBackend, RestartFrontend, Restart, Services
  <2>2. UNCHANGED networks
    BY <1>10 DEF RestartBackend, RestartFrontend, Restart
  <2>3. ASSUME NEW c \in containers \ containers'
        PROVE  \E d \in containers' : d.rel = c.rel /\ d.svc = c.svc
    <3>1. PICK up \in BOOLEAN : containers' = (containers \ Of(req[p].old.rel, svc))
                 \cup {[d EXCEPT !.up = up] : d \in Of(req[p].old.rel, svc)}
      BY <2>1
    <3>2. c \in Of(req[p].old.rel, svc)
      BY <3>1
    <3>3. [c EXCEPT !.up = up] \in containers'
      BY <3>1, <3>2
    <3>4. c \in Container
      BY DEF DataOK
    <3>5. [c EXCEPT !.up = up].rel = c.rel /\ [c EXCEPT !.up = up].svc = c.svc
      BY <3>4 DEF Container
    <3> QED BY <3>3, <3>5
  <2> QED BY <2>2, <2>3
<1> QED BY <1>2, <1>3, <1>4, <1>5, <1>6, <1>7, <1>8, <1>9, <1>10
        DEF Work, Release, Cleanup, Other

LEMMA TakesNothing ==
    ASSUME (\E t \in Threads : Sync(t)) \/ Crash \/ UNCHANGED vars
    PROVE  UNCHANGED docker
BY DEF Sync, Crash, vars

\* A release, redeployment, rollback or restart of a full-stack project, whichever
\* of its steps fails and even when the switch of the proxy is undone, takes away
\* no running container and no network of the pair that Caddy serves or that
\* deployments.json names, except to restart it: cleanupFullstackRelease is handed
\* the candidate until both name it, and the old pair from then on.  Of one request
\* at a time, for any history and any number of crashes.
THEOREM OnlyUnusedRemoved ==
    ASSUME Serial
    PROVE  Spec => OnlyUnused
<1>1. (IInv /\ PairInv) /\ [Next]_vars =>
        [\A p \in Procs :
            req[p].kind # "delete" /\ faults' <= 1 =>
                /\ \A c \in containers \ containers' : c.up => c.rel \notin Needed
                      \/ \E d \in containers' : d.rel = c.rel /\ d.svc = c.svc
                /\ (networks \ networks') \cap Needed = {}]_vars
  <2> SUFFICES ASSUME IInv, PairInv, [Next]_vars, NEW p \in Procs,
                      req[p].kind # "delete", faults' <= 1
               PROVE  /\ \A c \in containers \ containers' : c.up => c.rel \notin Needed
                            \/ \E d \in containers' : d.rel = c.rel /\ d.svc = c.svc
                      /\ (networks \ networks') \cap Needed = {}
    OBVIOUS
  <2>1. CASE Work(p)
    BY <2>1, Alone, TakesUnused
  <2>2. CASE UNCHANGED docker
    BY <2>2 DEF docker
  <2> QED BY <2>1, <2>2, TakesNothing DEF Next, Work, Serial
<1> QED BY <1>1, PairHolds, PTL DEF Spec, OnlyUnused

LEMMA KeepsImages ==
    ASSUME IInv, NEW p \in Procs, Sound(p), Work(p), pc[p] # "idle", req[p].kind # "delete",
           faults' <= 1, NEW i \in images \ images'
    PROVE  /\ i.img \notin {v.img : v \in history'}
           /\ store # None => i.img # store.img
<1> DEFINE r == req[p]
<1> USE DEF IInv
<1>1. i \in Image /\ store \in Record \cup {None} /\ history \subseteq Version
  BY DEF DataOK
<1>2. CASE BuildFrontend(p) \/ BuildBackend(p)
  <2>1. pc[p] \in {"build_frontend", "build_backend"} /\ UNCHANGED history
    BY <1>2 DEF BuildFrontend, BuildBackend, Build
  <2>2. i \in ImagePair(r.cand.img)
    BY <1>2 DEF BuildFrontend, BuildBackend, Build
  <2>3. r.kind \in Builds /\ Switch(pc[p], r) /\ r.cand \in Record /\ Candidate(r)
    BY <2>1, ReleasingNow DEF Sound, Releasing
  <2>4. r.kind # "rollback" /\ store = r.old /\ r.seen = history
    BY <2>1, <2>3 DEF Switch, Preparing
  <2>5. i.img = r.cand.rel
    BY <2>2, <2>3, <2>4 DEF ImagePair, Candidate
  <2> QED BY <1>1, <2>1, <2>3, <2>4, <2>5 DEF Candidate, Older, Stamped, Record, Version
<1>3. CASE RecordHistory(p)
  <2> DEFINE E == Extended(p)
  <2> DEFINE new == [img |-> r.old.img, at |-> r.cand.rel]
  <2>1. pc[p] = "record"
    BY <1>3 DEF RecordHistory
  <2>2. /\ \A v, w \in E : v.img = w.img => v = w
        /\ E \subseteq Version
    <3>1. Extended(p) \subseteq Version /\ \A v, w \in Extended(p) : v.img = w.img => v = w
      BY <2>1, Extension
    <3> QED BY <3>1
  <2>3. store = r.cand
    BY <2>1, ReleasingNow DEF Sound, Releasing, Switch, Promoting
  <2> HIDE DEF E, new
  <2>4. history' = Retained(E) /\ i \in Images(E \ Retained(E)) \ ImagePair(r.cand.img)
    BY <1>3 DEF RecordHistory, Removable, E
  <2>5. PICK w \in E \ Retained(E) : i \in ImagePair(w.img)
    BY <2>4 DEF Images
  <2>6. i.img = w.img
    BY <2>5 DEF ImagePair
  <2>7. i.img # r.cand.img
    BY <2>4, <2>5 DEF ImagePair
  <2>8. Retained(E) \subseteq E
    BY DEF Retained
  <2> QED BY <2>2, <2>3, <2>4, <2>5, <2>6, <2>7, <2>8
<1>4. CASE RemoveImages(p)
  <2>1. pc[p] = "rm_images" /\ pc[p] \in Cleaning /\ i \in ImagePair(r.target.img) /\ UNCHANGED history
    BY <1>4 DEF RemoveImages, Removable, Cleaning
  <2>2. r.kind \in Builds /\ r.target \in Record /\ (Fault \/ NoFault)
    BY <1>4, <2>1, CleaningNow DEF RemoveImages
  <2>3. faults <= 1
    BY <2>2, FaultCount DEF DataOK
  <2>4. Candidate(r) /\ Switch("rm_images", r)
    BY <2>1, <2>2 DEF Sound, Doing, Cleaning
  <2>5. r.kind # "rollback" /\ r.target = r.cand /\ r.seen = history /\ store = r.old
    BY <2>1, <2>3, <2>4 DEF Switch
  <2>6. i.img = r.cand.rel
    BY <2>1, <2>4, <2>5 DEF ImagePair, Candidate
  <2> QED BY <1>1, <2>1, <2>2, <2>4, <2>5, <2>6 DEF Candidate, Older, Stamped, Record, Version
<1>5. CASE Arrival(p) \/ Refused(p) \/ LockBuild(p) \/ LockRollback(p)
  <2>1. UNCHANGED images
    BY <1>5 DEF Arrival, deployHandler, redeployHandler, rollbackDeploymentHandler,
       restartDeploymentHandler, deleteDeploymentHandler, Begin, Refused, LockBuild,
       LockRollback, Accepted, docker
  <2> QED BY <2>1
<1>6. CASE CreateNetwork(p) \/ StartBackend(p) \/ StartFrontend(p)
  BY <1>6 DEF StartBackend, StartFrontend, Start, CreateNetwork
<1>7. CASE Verify(p) \/ Save(p) \/ Restore(p)
  BY <1>7 DEF Verify, Save, Restore, docker
<1>8. CASE RemoveFrontend(p) \/ RemoveBackend(p) \/ RemoveNetwork(p)
  BY <1>8 DEF RemoveFrontend, RemoveBackend, RemoveContainer, RemoveNetwork
<1>9. CASE ListVersions(p) \/ RemoveVersions(p) \/ ClearHistory(p) \/ DeleteRecord(p)
  <2>1. pc[p] \in Deleting
    BY <1>9 DEF ListVersions, RemoveVersions, ClearHistory, DeleteRecord, Deleting
  <2> QED BY <2>1, DeletingNow
<1>10. CASE RestartBackend(p) \/ RestartFrontend(p)
  BY <1>10 DEF RestartBackend, RestartFrontend, Restart
<1> QED BY <1>2, <1>3, <1>4, <1>5, <1>6, <1>7, <1>8, <1>9, <1>10
        DEF Work, Release, Cleanup, Other

\* Neither a failed build, nor the clean-up after a failed release, nor the pruning
\* of the history (pruneFullstackVersions) removes an image that the history still
\* offers for a rollback or that the recorded release runs from, unless the switch
\* and its undoing both failed: an image tag is shared by a version of the history
\* and by the release that was rolled back to it.
THEOREM ImagesAreKept ==
    ASSUME Serial
    PROVE  Spec => ImagesKept
<1>1. (IInv /\ PairInv) /\ [Next]_vars =>
        [\A p \in Procs :
            pc[p] # "idle" /\ req[p].kind # "delete" /\ faults' <= 1 =>
                \A i \in images \ images' :
                    /\ i.img \notin {v.img : v \in history'}
                    /\ store # None => i.img # store.img]_vars
  <2> SUFFICES ASSUME IInv, PairInv, [Next]_vars, NEW p \in Procs, pc[p] # "idle",
                      req[p].kind # "delete", faults' <= 1, NEW i \in images \ images'
               PROVE  /\ i.img \notin {v.img : v \in history'}
                      /\ store # None => i.img # store.img
    OBVIOUS
  <2>1. CASE Work(p)
    BY <2>1, Alone, KeepsImages
  <2>2. CASE UNCHANGED docker
    BY <2>2 DEF docker
  <2> QED BY <2>1, <2>2, TakesNothing DEF Next, Work, Serial
<1> QED BY <1>1, PairHolds, PTL DEF Spec, ImagesKept

-----------------------------------------------------------------------------
(***************************************************************************)
(* As long as nothing failed: whose containers, networks and images exist. *)
(***************************************************************************)
Built == {"start_backend", "start_frontend", "verify", "save"} \cup Promoting

\* The releases whose pair may be there, and the one that is being taken away.
Stays(x, s, r) ==
    \/ r.kind \in Builds /\ s \in Built /\ x \in {r.old, r.cand}
    \/ r.kind \in Builds /\ s \in Cleaning /\ x \in {r.old, r.cand} \ {r.target}
    \/ r.kind \in Builds /\ s \notin Built \cup Cleaning /\ x = store
    \/ r.kind = "delete" /\ s = "list" /\ x = store
    \/ r.kind \notin Builds \cup {"delete"} /\ x = store

Leaves(x, s, r) == s \in Cleaning \ {"rm_images"} /\ x = r.target

Owner(c) == [rel |-> c.rel, img |-> c.img]

Present(s, r) ==
    /\ \A c \in containers :
         \/ Stays(Owner(c), s, r)
         \/ Leaves(Owner(c), s, r) /\ s # "rm_network" /\ (s = "rm_backend" => c.svc = Backend)
    /\ \A n \in networks : \E x \in {store, r.old, r.cand} :
         x # None /\ x.rel = n /\ (Stays(x, s, r) \/ Leaves(x, s, r))

\* Every image is one of a version of V or of a record of R.
Named(V, R) == \A i \in images :
    \/ \E v \in V : v.img = i.img
    \/ \E x \in R : x # None /\ x.img = i.img

Imaged(s, r) ==
    /\ r.kind \in Builds /\ s # "lock" => Named(history, {r.old, r.cand})
    /\ r.kind \in Builds /\ s \in Cleaning /\ r.target # r.cand =>
         \E v \in history : v.img = r.old.img
    /\ r.kind = "delete" /\ s \in {"rm_frontend", "rm_backend", "rm_network", "rm_versions"} =>
         r.seen = history
    /\ r.kind = "delete" /\ s \in {"clear", "rm_images"} => Named({}, {r.old})
    /\ r.kind = "delete" /\ s \in {"rm_images", "rm_record", "sync"} => history = {}
    /\ r.kind = "delete" /\ s \in {"rm_record", "sync"} => images = {}
    /\ ~(r.kind \in Builds /\ s # "lock") => Named(history, {store})

Whole(p) == Present(pc[p], req[p]) /\ Imaged(pc[p], req[p])

CompleteInv == faults = 0 /\ crashes = 0 => \A p \in Procs : Whole(p)

-----------------------------------------------------------------------------
(***************************************************************************)
(* As long as nothing failed, nothing but the pairs, the networks and the  *)
(* images of the records and the history exists.                           *)
(***************************************************************************)
Calm == faults = 0 /\ crashes = 0

\* Only the recorded release has containers and a network.
Owned ==
    /\ \A c \in containers : Owner(c) = store
    /\ \A n \in networks : store # None /\ store.rel = n

AtRest(s, r) ==
    \/ r.kind \in Builds /\ s \notin Built \cup Cleaning
    \/ r.kind = "delete" /\ s = "list"
    \/ r.kind \notin Builds \cup {"delete"} /\ s \notin Cleaning

LEMMA OwnedNow ==
    ASSUME NEW s, NEW r, AtRest(s, r), Present(s, r)
    PROVE  Owned
<1>1. \A x : ~Leaves(x, s, r) /\ (Stays(x, s, r) => x = store)
  BY DEF AtRest, Stays, Leaves, Builds, Cleaning
<1> QED BY <1>1 DEF Present, Owned

LEMMA OwnedThen ==
    ASSUME NEW p \in Procs, AtRest(pc'[p], req'[p]), Owned'
    PROVE  Present(pc[p], req[p])'
<1>1. \A c \in containers' : Stays(Owner(c), pc[p], req[p])'
  BY DEF AtRest, Stays, Owned, Builds, Owner
<1>2. \A n \in networks' : store' # None /\ store'.rel = n
  BY DEF Owned
<1>3. Stays(store, pc[p], req[p])'
  BY DEF AtRest, Stays, Builds
<1> QED BY <1>1, <1>2, <1>3 DEF Present

LEMMA OwnedReturn ==
    ASSUME IInv, NEW p \in Procs, Finish(p), Owned', Named(history, {store})'
    PROVE  Whole(p)'
<1>1. pc'[p] = "idle" /\ req'[p] = NoRequest
  BY Returned DEF IInv
<1>2. req'[p].kind = "none"
  BY <1>1 DEF NoRequest
<1>3. AtRest(pc'[p], req'[p])
  BY <1>1, <1>2 DEF AtRest, Builds, Cleaning
<1> QED BY <1>2, <1>3, OwnedThen DEF Whole, Imaged, Builds

LEMMA NoFailure ==
    ASSUME IInv, Calm
    PROVE  Fault => ~Calm'
BY DEF IInv, DataOK, Calm, Fault

\* A request at a step where only the recorded release exists.
LEMMA BeginWhole ==
    ASSUME IInv, NEW p \in Procs, Whole(p), NEW kind, NEW first, Begin(p, kind, first),
           \/ first = "lock" /\ kind \in Builds
           \/ first = "restart_backend" /\ kind = "restart"
           \/ first = "list" /\ kind = "delete"
    PROVE  Whole(p)'
<1> DEFINE r == [NoRequest EXCEPT !.kind = kind, !.old = store]
<1>1. pc[p] = "idle" /\ req[p] = NoRequest
  BY LocalNow DEF Begin, IInv, Local
<1>2. req[p].kind = "none"
  BY <1>1 DEF NoRequest
<1>3. Owned /\ Named(history, {store})
  <2>1. AtRest(pc[p], req[p])
    BY <1>1, <1>2 DEF AtRest, Builds, Cleaning
  <2>2. Owned
    BY <2>1, OwnedNow DEF Whole
  <2> QED BY <1>2, <2>2 DEF Whole, Imaged, Builds
<1>4. pc'[p] = first /\ req'[p] = r
  BY Became DEF Begin, IInv
<1>5. r.kind = kind
  BY DEF NoRequest
<1> HIDE DEF r
<1>6. AtRest(pc'[p], req'[p])
  BY <1>4, <1>5 DEF AtRest, Builds, Built, Promoting, Cleaning
<1>7. Owned' /\ Named(history, {store})'
  <2>1. UNCHANGED <<store, history, containers, networks, images>>
    BY DEF Begin, docker
  <2> QED BY <1>3, <2>1 DEF Owned, Named, Owner
<1>8. Imaged(pc[p], req[p])'
  BY <1>4, <1>5, <1>7 DEF Imaged, Cleaning, Builds
<1> QED BY <1>6, <1>7, <1>8, OwnedThen DEF Whole

LEMMA ArrivalWhole ==
    ASSUME IInv, NEW p \in Procs, Whole(p), Arrival(p)
    PROVE  Whole(p)'
<1>1. CASE deployHandler(p) \/ redeployHandler(p) \/ rollbackDeploymentHandler(p)
  BY <1>1, BeginWhole
     DEF deployHandler, redeployHandler, rollbackDeploymentHandler, Builds
<1>2. CASE restartDeploymentHandler(p) \/ deleteDeploymentHandler(p)
  BY <1>2, BeginWhole DEF restartDeploymentHandler, deleteDeploymentHandler
<1> QED BY <1>1, <1>2 DEF Arrival

LEMMA LockWhole ==
    ASSUME IInv, NEW p \in Procs, Sound(p), Whole(p),
           Refused(p) \/ LockBuild(p) \/ LockRollback(p)
    PROVE  Whole(p)'
<1> USE DEF IInv
<1>1. pc[p] = "lock" /\ UNCHANGED <<store, history, containers, networks, images>>
  BY DEF Refused, LockBuild, LockRollback, Accepted, docker
<1>2. req[p] \in Request /\ req[p].kind \in Builds /\ Switch("lock", req[p])
  BY <1>1, ReleasingNow DEF Sound, Releasing
<1>3. store = req[p].old
  BY <1>2 DEF Switch
<1>4. Owned /\ Named(history, {store})
  <2>1. AtRest(pc[p], req[p])
    BY <1>1, <1>2 DEF AtRest, Builds, Cleaning, Built, Promoting
  <2>2. Owned
    BY <2>1, OwnedNow DEF Whole
  <2> QED BY <1>1, <2>2 DEF Whole, Imaged
<1>5. Owned' /\ Named(history, {store})'
  BY <1>1, <1>4 DEF Owned, Named, Owner
<1>6. CASE Refused(p)
  BY <1>5, <1>6, OwnedReturn DEF Refused
<1>7. CASE LockBuild(p) \/ LockRollback(p)
  <2>1. PICK img : \E first \in {"build_frontend", "network"} : Accepted(p, img, first)
    <3>1. Accepted(p, clock + 1, "build_frontend") \/ Accepted(p, Newest(history).img, "network")
      BY <1>7 DEF LockBuild, LockRollback
    <3> QED BY <3>1
  <2>2. PICK first \in {"build_frontend", "network"} : Accepted(p, img, first)
    BY <2>1
  <2> DEFINE c == [rel |-> clock', img |-> img]
  <2> DEFINE r == [req[p] EXCEPT !.seen = history, !.cand = c]
  <2>3. pc'[p] = first /\ req'[p] = r
    BY <2>2 DEF Accepted, ControlOK, Goto, Threads
  <2>4. r.kind = req[p].kind /\ r.old = req[p].old
    BY <1>2 DEF Request
  <2> HIDE DEF r, c
  <2>5. AtRest(pc'[p], req'[p])
    BY <1>2, <2>3, <2>4 DEF AtRest, Builds, Cleaning, Built, Promoting
  <2>6. Imaged(pc[p], req[p])'
    <3>1. Named(history, {req[p].old, req[p].cand})'
      BY <1>1, <1>3, <1>4, <2>3, <2>4 DEF Named
    <3> QED BY <1>2, <2>3, <2>4, <3>1 DEF Imaged, Cleaning, Builds
  <2> QED BY <1>5, <2>5, <2>6, OwnedThen DEF Whole
<1> QED BY <1>6, <1>7

\* A build: the images of the candidate, and of no one else.
LEMMA BuildWhole ==
    ASSUME IInv, NEW p \in Procs, Sound(p), Whole(p), Calm, Calm',
           BuildFrontend(p) \/ BuildBackend(p)
    PROVE  Whole(p)'
<1> USE DEF IInv
<1>1. PICK svc \in Services, step \in {"build_frontend", "build_backend"},
           next \in {"build_backend", "network"} : Build(p, svc, step, next)
  BY DEF BuildFrontend, BuildBackend, Services
<1>2. pc[p] = step /\ UNCHANGED <<store, history, containers, networks>>
  BY <1>1 DEF Build
<1>3. req[p].kind \in Builds /\ Switch(pc[p], req[p]) /\ req[p].cand \in Record
  BY <1>2, ReleasingNow DEF Sound, Releasing
<1>4. store = req[p].old
  BY <1>2, <1>3 DEF Switch, Preparing
<1>5. Owned /\ Named(history, {req[p].old, req[p].cand})
  <2>1. AtRest(pc[p], req[p])
    BY <1>2, <1>3 DEF AtRest, Cleaning, Built, Promoting
  <2>2. Owned
    BY <2>1, OwnedNow DEF Whole
  <2> QED BY <1>2, <1>3, <2>2 DEF Whole, Imaged
<1>6. Owned'
  BY <1>2, <1>5 DEF Owned, Owner
<1> DEFINE i == [img |-> req[p].cand.img, svc |-> svc]
<1>7. CASE images' = images \cup {i} /\ Go(p, next)
  <2>1. pc'[p] = next /\ req'[p] = req[p]
    BY <1>7, Went
  <2>2. Named(history, {req[p].old, req[p].cand})'
    <3>1. i.img = req[p].cand.img /\ req[p].cand # None
      BY <1>3, NoneAssumption
    <3> QED BY <1>2, <1>5, <1>7, <2>1, <3>1 DEF Named
  <2>3. AtRest(pc'[p], req'[p])
    BY <1>3, <2>1 DEF AtRest, Cleaning, Built, Promoting
  <2>4. Imaged(pc[p], req[p])'
    BY <1>3, <2>1, <2>2 DEF Imaged, Cleaning, Builds
  <2> QED BY <1>6, <2>3, <2>4, OwnedThen DEF Whole
<1>8. CASE images' = images \ ImagePair(i.img) /\ Finish(p)
  <2>1. Named(history, {store})'
    <3>1. \A j \in images' : j.img # req[p].cand.img
      <4>1. \A j \in images : j \in ImagePair(j.img)
        BY DEF DataOK, Image, ImagePair
      <4> QED BY <1>8, <4>1
    <3> QED BY <1>2, <1>4, <1>5, <1>8, <3>1 DEF Named
  <2> QED BY <1>6, <1>8, <2>1, OwnedReturn
<1> QED BY <1>1, <1>7, <1>8, NoFailure DEF Build

\* While the two pairs of a release stand, and when one of them is to go.
LEMMA PairWhole ==
    ASSUME NEW p \in Procs, pc'[p] \in Built, req'[p].kind \in Builds,
           \A c \in containers' : Owner(c) \in {req'[p].old, req'[p].cand},
           \A n \in networks' : \E x \in {req'[p].old, req'[p].cand} : x # None /\ x.rel = n,
           Named(history, {req[p].old, req[p].cand})'
    PROVE  Whole(p)'
<1>1. pc'[p] # "lock" /\ pc'[p] \notin Cleaning
  BY DEF Built, Promoting, Cleaning
<1>2. Present(pc[p], req[p])'
  BY DEF Present, Stays, Owner
<1>3. Imaged(pc[p], req[p])'
  BY <1>1 DEF Imaged, Builds
<1> QED BY <1>2, <1>3 DEF Whole

LEMMA CleanWhole ==
    ASSUME IInv, NEW p \in Procs, req[p].kind \in Builds, NEW x, Clean(p, x),
           \A c \in containers' : Owner(c) \in {req[p].old, req[p].cand},
           \A n \in networks' : \E y \in {req[p].old, req[p].cand} : y # None /\ y.rel = n,
           \A i \in images' : \/ \E v \in history' : v.img = i.img
                              \/ \E y \in {req[p].old, req[p].cand} : y # None /\ y.img = i.img,
           x # req[p].cand => \E v \in history' : v.img = req[p].old.img
    PROVE  Whole(p)'
<1>1. /\ pc'[p] = "rm_frontend" /\ req'[p].target = x
      /\ req'[p].kind = req[p].kind /\ req'[p].old = req[p].old /\ req'[p].cand = req[p].cand
  BY Cleans DEF IInv
<1>2. Present(pc[p], req[p])'
  BY <1>1 DEF Present, Stays, Leaves, Owner, Cleaning
<1>3. Named(history, {req[p].old, req[p].cand})'
  BY <1>1 DEF Named
<1>4. Imaged(pc[p], req[p])'
  BY <1>1, <1>3 DEF Imaged, Builds
<1> QED BY <1>2, <1>4 DEF Whole

LEMMA StartWhole ==
    ASSUME IInv, NEW p \in Procs, Sound(p), Whole(p),
           CreateNetwork(p) \/ StartBackend(p) \/ StartFrontend(p)
    PROVE  Whole(p)'
<1> DEFINE r == req[p]
<1> USE DEF IInv
<1>1. pc[p] \in {"network", "start_backend", "start_frontend"}
        /\ UNCHANGED <<store, history, images>>
  BY DEF CreateNetwork, StartBackend, StartFrontend, Start
<1>2. r \in Request /\ r.kind \in Builds /\ Switch(pc[p], r) /\ r.cand \in Record
        /\ Candidate(r)
  BY <1>1, ReleasingNow DEF Sound, Releasing
<1>3. store = r.old /\ r.old # r.cand
  BY <1>1, <1>2, NoneAssumption DEF Switch, Preparing, Candidate, Older, Record
<1>4. Named(history, {r.old, r.cand})
  BY <1>1, <1>2 DEF Whole, Imaged
<1>5. /\ \A c \in containers : Owner(c) \in {r.old, r.cand}
      /\ \A n \in networks : \E x \in {r.old, r.cand} : x # None /\ x.rel = n
  <2>1. CASE pc[p] = "network"
    <3>1. Owned
      BY <1>2, <2>1, OwnedNow DEF Whole, AtRest, Built, Promoting, Cleaning
    <3> QED BY <1>3, <3>1 DEF Owned
  <2>2. CASE pc[p] # "network"
    <3>1. Present(pc[p], r) /\ pc[p] \in Built
      BY <1>1, <2>2 DEF Whole, Built
    <3>2. \A x : ~Leaves(x, pc[p], r) /\ (Stays(x, pc[p], r) => x \in {r.old, r.cand})
      BY <1>1, <1>2, <2>2, <3>1 DEF Leaves, Stays, Builds, Cleaning
    <3> QED BY <1>3, <3>1, <3>2 DEF Present
  <2> QED BY <2>1, <2>2
<1>6. /\ \A c \in containers' : Owner(c) \in {r.old, r.cand}
      /\ \A n \in networks' : \E x \in {r.old, r.cand} : x # None /\ x.rel = n
  <2>1. r.cand # None
    BY <1>2, NoneAssumption
  <2>2. CASE CreateNetwork(p)
    BY <1>5, <2>1, <2>2 DEF CreateNetwork
  <2>3. CASE StartBackend(p) \/ StartFrontend(p)
    <3>1. \A c \in containers' \ containers : c.rel = r.cand.rel /\ c.img = r.cand.img
      BY <2>3 DEF StartBackend, StartFrontend, Start
    <3>2. \A c \in containers' \ containers : Owner(c) = r.cand
      BY <1>2, <3>1 DEF Owner, Record
    <3>3. networks' = networks
      BY <2>3 DEF StartBackend, StartFrontend, Start
    <3> QED BY <1>5, <3>2, <3>3
  <2> QED BY <2>2, <2>3
<1>7. \/ \E next \in {"start_backend", "start_frontend", "verify"} : Go(p, next)
      \/ Clean(p, r.cand)
  BY DEF CreateNetwork, StartBackend, StartFrontend, Start
<1>8. CASE \E next \in {"start_backend", "start_frontend", "verify"} : Go(p, next)
  <2>1. PICK next \in {"start_backend", "start_frontend", "verify"} : Go(p, next)
    BY <1>8
  <2>2. pc'[p] = next /\ req'[p] = r
    BY <2>1, Went
  <2>3. pc'[p] \in Built /\ Named(history, {req[p].old, req[p].cand})'
    BY <1>1, <1>4, <2>2 DEF Built, Named
  <2> QED BY <1>2, <1>6, <2>2, <2>3, PairWhole
<1>9. CASE Clean(p, r.cand)
  <2>1. \A i \in images' : \/ \E v \in history' : v.img = i.img
                           \/ \E y \in {r.old, r.cand} : y # None /\ y.img = i.img
    BY <1>1, <1>4 DEF Named
  <2> QED BY <1>2, <1>6, <1>9, <2>1, CleanWhole
<1> QED BY <1>7, <1>8, <1>9

\* Once the switch begins, both pairs stand.
LEMMA BothStand ==
    ASSUME IInv, NEW p \in Procs, Whole(p), pc[p] \in Built, req[p].kind \in Builds,
           store \in {req[p].old, req[p].cand}
    PROVE  /\ \A c \in containers : Owner(c) \in {req[p].old, req[p].cand}
           /\ \A n \in networks : \E x \in {req[p].old, req[p].cand} : x # None /\ x.rel = n
           /\ Named(history, {req[p].old, req[p].cand})
<1>1. pc[p] \notin Cleaning /\ pc[p] # "lock"
  BY DEF Built, Promoting, Cleaning
<1>2. \A x : ~Leaves(x, pc[p], req[p]) /\ (Stays(x, pc[p], req[p]) => x \in {req[p].old, req[p].cand})
  BY <1>1 DEF Leaves, Stays, Builds
<1> QED BY <1>1, <1>2 DEF Whole, Present, Imaged

LEMMA SwitchWhole ==
    ASSUME IInv, NEW p \in Procs, Sound(p), Whole(p), Calm, Calm',
           Verify(p) \/ Save(p) \/ Restore(p)
    PROVE  Whole(p)'
<1> DEFINE r == req[p]
<1> USE DEF IInv
<1>1. pc[p] \in {"verify", "save", "restore"} /\ UNCHANGED <<history, containers, networks, images>>
  BY DEF Verify, Save, Restore, docker
<1>2. r \in Request /\ r.kind \in Builds /\ Switch(pc[p], r) /\ r.cand \in Record
  BY <1>1, ReleasingNow DEF Sound, Releasing
<1>3. pc[p] \in Built /\ pc[p] # "restore" /\ store = r.old
  BY <1>1, <1>2 DEF Switch, Preparing, Promoting, Built, Calm
<1>4. /\ \A c \in containers : Owner(c) \in {r.old, r.cand}
      /\ \A n \in networks : \E x \in {r.old, r.cand} : x # None /\ x.rel = n
      /\ Named(history, {r.old, r.cand})
  BY <1>2, <1>3, BothStand
<1>5. (\E next \in {"save", "sync"} : Go(p, next)) \/ Clean(p, r.cand)
  BY <1>1, <1>3, NoFailure DEF Verify, Save, Restore
<1>6. CASE \E next \in {"save", "sync"} : Go(p, next)
  <2>1. PICK next \in {"save", "sync"} : Go(p, next)
    BY <1>6
  <2>2. pc'[p] = next /\ req'[p] = r
    BY <2>1, Went
  <2>3. pc'[p] \in Built /\ Named(history, {req[p].old, req[p].cand})'
    BY <1>1, <1>4, <2>2 DEF Built, Promoting, Named
  <2> QED BY <1>1, <1>2, <1>4, <2>2, <2>3, PairWhole
<1>7. CASE Clean(p, r.cand)
  <2>1. \A i \in images' : \/ \E v \in history' : v.img = i.img
                           \/ \E y \in {r.old, r.cand} : y # None /\ y.img = i.img
    BY <1>1, <1>4 DEF Named
  <2> QED BY <1>1, <1>2, <1>4, <1>7, <2>1, CleanWhole
<1> QED BY <1>5, <1>6, <1>7

LEMMA SyncWhole ==
    ASSUME IInv, NEW p \in Procs, Sound(p), Whole(p), Calm, Calm', Sync(p)
    PROVE  Whole(p)'
<1> DEFINE r == req[p]
<1> USE DEF IInv
<1>1. pc[p] = "sync" /\ UNCHANGED <<store, history, containers, networks, images>>
  BY DEF Sync, docker
<1>2. r \in Request /\ Local("sync", r)
  BY <1>1, LocalNow
<1>3. AfterSync(p, TRUE)
  BY NoFailure DEF Sync
<1>4. CASE r.kind = "delete"
  <2>1. Finish(p)
    BY <1>3, <1>4 DEF AfterSync
  <2>2. containers = {} /\ networks = {} /\ images = {}
    BY <1>1, <1>4 DEF Whole, Present, Stays, Leaves, Imaged, Builds, Cleaning
  <2>3. Owned' /\ Named(history, {store})'
    BY <1>1, <2>2 DEF Owned, Named
  <2> QED BY <2>1, <2>3, OwnedReturn
<1>5. CASE r.kind \in Builds
  <2>1. r.cand \in Record /\ Switch("sync", r)
    BY <1>1, <1>2, <1>5 DEF Local, Sound, Doing
  <2>2. ~r.restoring /\ store = r.cand
    BY <2>1 DEF Switch, Promoting, Calm
  <2>3. /\ \A c \in containers : Owner(c) \in {r.old, r.cand}
        /\ \A n \in networks : \E x \in {r.old, r.cand} : x # None /\ x.rel = n
        /\ Named(history, {r.old, r.cand})
    BY <1>1, <1>5, <2>2, BothStand DEF Built, Promoting
  <2>4. CASE r.kind = "deploy"
    <3>1. Finish(p) /\ r.old = None
      BY <1>2, <1>3, <2>2, <2>4 DEF AfterSync, Local
    <3>2. \A c \in containers : Owner(c) # None
      BY NoneAssumption DEF DataOK, Container, Owner, Record
    <3>3. Owned' /\ Named(history, {store})'
      BY <1>1, <2>2, <2>3, <3>1, <3>2 DEF Owned, Named, Owner
    <3> QED BY <3>1, <3>3, OwnedReturn
  <2>5. CASE r.kind # "deploy"
    <3>1. Go(p, "record")
      BY <1>3, <1>5, <2>2, <2>5 DEF AfterSync, Builds
    <3>2. pc'[p] = "record" /\ req'[p] = r
      BY <3>1, Went
    <3>3. pc'[p] \in Built /\ Named(history, {req[p].old, req[p].cand})'
      BY <1>1, <2>3, <3>2 DEF Built, Promoting, Named
    <3> QED BY <1>1, <1>5, <2>3, <3>2, <3>3, PairWhole
  <2> QED BY <2>4, <2>5
<1> QED BY <1>2, <1>4, <1>5, <1>1 DEF Local

\* The release that is retired stays in a history that keeps versions at all; the
\* images of those that fall off are not in use, and are removed.
LEMMA RecordHistoryWhole ==
    ASSUME IInv, NEW p \in Procs, Sound(p), Whole(p), Calm, Calm', MaxPrevious > 0,
           RecordHistory(p)
    PROVE  Whole(p)'
<1> DEFINE r == req[p]
<1> DEFINE E == Extended(p)
<1> DEFINE new == [img |-> r.old.img, at |-> r.cand.rel]
<1> USE DEF IInv
<1>1. pc[p] = "record" /\ UNCHANGED <<containers, networks>> /\ Clean(p, r.old)
  BY DEF RecordHistory
<1>2. r \in Request /\ r.kind \in Builds /\ Switch("record", r) /\ r.cand \in Record
        /\ Candidate(r)
  BY <1>1, ReleasingNow DEF Sound, Releasing
<1>3. r.old \in Record /\ store = r.cand /\ r.seen = history /\ history \subseteq Version
  BY <1>1, <1>2, LocalNow DEF Local, Switch, Promoting, DataOK
<1>4. /\ \A c \in containers : Owner(c) \in {r.old, r.cand}
      /\ \A n \in networks : \E x \in {r.old, r.cand} : x # None /\ x.rel = n
      /\ Named(history, {r.old, r.cand})
  BY <1>1, <1>2, <1>3, BothStand DEF Built, Promoting
<1>5. E \subseteq Version /\ new \in E /\ Latest(new, E)
  BY <1>1, Extension
<1>6. history' = Retained(E)
        /\ images' = images \ Removable(Images(E \ Retained(E)) \ ImagePair(r.cand.img))
  BY NoFailure DEF RecordHistory
<1>7. new \in Retained(E)
  <2>1. Newer(E, new) = {}
    BY <1>5 DEF Newer, Latest, Version
  <2>2. Cardinality(Newer(E, new)) < MaxPrevious
    BY <2>1, FS_EmptySet, ConstantsAssumption
  <2> QED BY <1>5, <2>2 DEF Retained
<1>8. \A v \in history : v \in E \/ v.img \in {r.old.img, r.cand.img}
  <2>1. CASE r.kind = "rollback"
    <3>1. \E v \in history : Newest(history) = v /\ r.cand.img = v.img
      BY <1>2, <1>3, <2>1, NewestIs DEF Candidate
    <3> QED BY <1>3, <2>1, <3>1 DEF Extended
  <2>2. CASE r.kind # "rollback"
    BY <2>2 DEF Extended
  <2> QED BY <2>1, <2>2
<1>9. new.img = r.old.img
  OBVIOUS
<1> HIDE DEF E, new
<1>10. \A i \in images' : \/ \E v \in history' : v.img = i.img
                          \/ \E y \in {r.old, r.cand} : y # None /\ y.img = i.img
  <2> SUFFICES ASSUME NEW i \in images', i.img # r.old.img, i.img # r.cand.img
               PROVE  \E v \in history' : v.img = i.img
    BY <1>2, <1>3, NoneAssumption
  <2>1. i \in images /\ i \in ImagePair(i.img) /\ i \notin ImagePair(r.cand.img)
    BY <1>6 DEF DataOK, Image, ImagePair
  <2>2. PICK v \in history : v.img = i.img
    BY <1>4, <2>1 DEF Named
  <2>3. v \in E
    BY <1>8, <2>2
  <2>4. ~InUse(i)
    <3>1. \A c \in containers : c.img \in {r.old.img, r.cand.img}
      <4>1. \A c \in containers : Owner(c).img = c.img
        BY DEF Owner
      <4> QED BY <1>4, <4>1
    <3> QED BY <3>1 DEF InUse
  <2>5. CASE v \in Retained(E)
    BY <1>6, <2>2, <2>5
  <2>6. CASE v \notin Retained(E)
    <3>1. i \in Images(E \ Retained(E)) \ ImagePair(r.cand.img)
      BY <2>1, <2>2, <2>3, <2>6 DEF Images
    <3>2. i \in Removable(Images(E \ Retained(E)) \ ImagePair(r.cand.img))
      BY <2>1, <2>4, <3>1 DEF Removable
    <3> QED BY <1>6, <3>2
  <2> QED BY <2>5, <2>6
<1>11. \E v \in history' : v.img = r.old.img
  BY <1>6, <1>7, <1>9
<1> QED BY <1>1, <1>2, <1>4, <1>10, <1>11, CleanWhole

\* What is left to a clean-up of a release: the pair that goes, and the one that stays.
LEMMA CleaningWhole ==
    ASSUME IInv, NEW p \in Procs, Sound(p), pc[p] \in Cleaning, req[p].kind \in Builds, Calm
    PROVE  /\ req[p].target \in {req[p].old, req[p].cand} \cap Record
           /\ \A x \in {req[p].old, req[p].cand} \ {req[p].target} :
                x = store /\ (x # None => x.rel # req[p].target.rel /\ x \in Record)
           /\ store \in {req[p].old, req[p].cand} \ {req[p].target}
<1> DEFINE r == req[p]
<1>1. r \in Request /\ r.target \in {r.old, r.cand} \cap Record
        /\ (r.kind = "deploy" => r.old = None) /\ (r.kind # "deploy" => r.old \in Record)
  BY CleaningNow DEF IInv, Builds, Kinds
<1>2. Candidate(r) /\ Switch(pc[p], r)
  BY DEF Sound, Doing, Cleaning
<1>3. CASE r.target = r.cand
  <2>1. store = r.old /\ Older(r.old, r.cand.rel)
    BY <1>2, <1>3 DEF Switch, Candidate, Calm
  <2>2. r.old # None => r.old \in Record /\ r.old.rel < r.cand.rel
    BY <1>1, <2>1 DEF Older, Builds
  <2> QED BY <1>1, <1>3, <2>1, <2>2, NoneAssumption DEF Record
<1>4. CASE r.target # r.cand
  <2>1. store = r.cand /\ r.target = r.old
    BY <1>1, <1>2, <1>4 DEF Switch
  <2>2. r.old.rel < r.cand.rel /\ r.cand # None => r.cand.rel # r.old.rel
    BY <1>1, <1>2, <2>1, NoneAssumption DEF Candidate, Older, Record
  <2>3. r.cand # None => r.cand \in Record
    BY <1>1 DEF Request
  <2>4. r.old.rel < r.cand.rel
    BY <1>1, <1>2, <2>1, NoneAssumption DEF Candidate, Older
  <2> QED BY <1>1, <1>4, <2>1, <2>2, <2>3, <2>4
<1> QED BY <1>3, <1>4

LEMMA RemoveContainerWhole ==
    ASSUME IInv, NEW p \in Procs, Sound(p), Whole(p), Calm, Calm',
           RemoveFrontend(p) \/ RemoveBackend(p)
    PROVE  Whole(p)'
<1> DEFINE r == req[p]
<1> USE DEF IInv
<1>1. PICK svc, step, next :
        /\ \/ svc = Frontend /\ step = "rm_frontend" /\ next = "rm_backend"
           \/ svc = Backend /\ step = "rm_backend" /\ next = "rm_network"
        /\ RemoveContainer(p, svc, step, next)
  BY DEF RemoveFrontend, RemoveBackend
<1>2. /\ pc[p] = step /\ UNCHANGED <<store, history, networks, images>>
      /\ containers' = containers \ Of(r.target.rel, svc) /\ Go(p, next)
  BY <1>1, NoFailure DEF RemoveContainer
<1>3. pc'[p] = next /\ req'[p] = r
  BY <1>2, Went
<1>4. pc[p] \in Cleaning /\ pc[p] # "rm_images" /\ next \in Cleaning /\ next # "rm_images"
        /\ pc[p] \notin Built /\ next \notin Built /\ pc[p] # "list" /\ next # "list"
        /\ pc[p] \notin {"lock", "clear", "rm_record", "sync", "rm_versions"}
        /\ next \notin {"lock", "clear", "rm_record", "sync", "rm_versions"}
  BY <1>1, <1>2 DEF Cleaning, Built, Promoting
<1>5. \A x : /\ Stays(x, pc[p], r) => Stays(x, pc[p], req[p])'
             /\ Leaves(x, pc[p], r) => Leaves(x, pc[p], req[p])'
             /\ Leaves(x, pc[p], r) => x = r.target
  BY <1>2, <1>3, <1>4 DEF Stays, Leaves
<1>6. Present(pc[p], r) /\ Imaged(pc[p], r)
  BY DEF Whole
<1>7. ASSUME NEW c \in containers'
      PROVE  \/ Stays(Owner(c), pc[p], req[p])'
             \/ /\ Leaves(Owner(c), pc[p], req[p])'
                /\ next # "rm_network" /\ (next = "rm_backend" => c.svc = Backend)
  <2>1. c \in containers /\ c \notin Of(r.target.rel, svc) /\ c \in Container
    BY <1>2 DEF DataOK
  <2>2. CASE Stays(Owner(c), pc[p], r)
    BY <1>5, <2>2
  <2>3. CASE /\ Leaves(Owner(c), pc[p], r)
             /\ pc[p] # "rm_network" /\ (pc[p] = "rm_backend" => c.svc = Backend)
    <3>1. Owner(c) = r.target /\ Owner(c).rel = c.rel
      BY <2>3 DEF Leaves, Owner
    <3>2. c.svc # svc
      BY <2>1, <3>1 DEF Of
    <3>3. c.svc = Frontend \/ c.svc = Backend
      BY <2>1 DEF Container, Services
    <3>4. svc = Frontend /\ next = "rm_backend" /\ c.svc = Backend
      BY <1>1, <1>2, <2>3, <3>2, <3>3
    <3> QED BY <1>5, <2>3, <3>4
  <2> QED BY <1>6, <2>1, <2>2, <2>3 DEF Present
<1>8. ASSUME NEW n \in networks'
      PROVE  \E x \in {store, r.old, r.cand} :
               x # None /\ x.rel = n /\ (Stays(x, pc[p], req[p])' \/ Leaves(x, pc[p], req[p])')
  BY <1>2, <1>5, <1>6 DEF Present
<1>9. Present(pc[p], req[p])'
  BY <1>2, <1>3, <1>7, <1>8 DEF Present
<1>10. Imaged(pc[p], req[p])'
  BY <1>1, <1>2, <1>3, <1>4, <1>6 DEF Imaged, Named
<1> QED BY <1>9, <1>10 DEF Whole

\* From the removal of the network on, only the pair that stays has containers.
LEMMA OneStands ==
    ASSUME IInv, NEW p \in Procs, Sound(p), Whole(p), Calm, req[p].kind \in Builds,
           pc[p] \in {"rm_network", "rm_images"}
    PROVE  /\ \A c \in containers : Owner(c) = store /\ c.rel # req[p].target.rel
           /\ \A n \in networks : (store # None /\ store.rel = n)
                 \/ (pc[p] = "rm_network" /\ n = req[p].target.rel)
           /\ Named(history, {req[p].old, req[p].cand})
<1> DEFINE r == req[p]
<1>1. pc[p] \in Cleaning /\ pc[p] \notin Built
  BY DEF Cleaning, Built, Promoting
<1>2. /\ \A x \in {r.old, r.cand} \ {r.target} :
           x = store /\ (x # None => x.rel # r.target.rel /\ x \in Record)
  BY <1>1, CleaningWhole
<1>3. /\ \A x : Stays(x, pc[p], r) => x \in {r.old, r.cand} \ {r.target}
      /\ \A x : Leaves(x, pc[p], r) => x = r.target /\ pc[p] = "rm_network"
  BY <1>1 DEF Stays, Leaves, Builds
<1>4. ASSUME NEW c \in containers
      PROVE  Owner(c) = store /\ c.rel # r.target.rel
  <2>1. Stays(Owner(c), pc[p], r)
    BY <1>3 DEF Whole, Present
  <2>2. Owner(c) # None /\ Owner(c).rel = c.rel
    BY NoneAssumption DEF IInv, DataOK, Owner, Container, Record
  <2> QED BY <1>2, <1>3, <2>1, <2>2
<1>5. ASSUME NEW n \in networks
      PROVE  (store # None /\ store.rel = n) \/ (pc[p] = "rm_network" /\ n = r.target.rel)
  <2>1. PICK x : x # None /\ x.rel = n /\ (Stays(x, pc[p], r) \/ Leaves(x, pc[p], r))
    BY DEF Whole, Present
  <2> QED BY <1>2, <1>3, <2>1
<1>6. Named(history, {r.old, r.cand})
  BY <1>1 DEF Whole, Imaged, Cleaning
<1> QED BY <1>4, <1>5, <1>6

LEMMA RemoveNetworkWhole ==
    ASSUME IInv, NEW p \in Procs, Sound(p), Whole(p), Calm, Calm', RemoveNetwork(p)
    PROVE  Whole(p)'
<1> DEFINE r == req[p]
<1> USE DEF IInv
<1>1. pc[p] = "rm_network" /\ pc[p] \in Cleaning /\ UNCHANGED <<store, history, containers, images>>
  BY DEF RemoveNetwork, Cleaning
<1>2. r \in Request /\ r.kind \in Builds \cup {"delete"} /\ r.target \in {r.old, r.cand} \cap Record
  BY <1>1, CleaningNow
<1>3. CASE r.kind = "delete"
  <2>1. ~(\E x : Stays(x, pc[p], r)) /\ \A x : Leaves(x, pc[p], r) => x = r.target
    BY <1>1, <1>3 DEF Stays, Leaves, Builds
  <2>2. containers = {} /\ \A n \in networks : n = r.target.rel
    BY <1>1, <2>1 DEF Whole, Present
  <2>3. networks' = {} /\ AfterNetwork(p, TRUE)
    BY <2>2, NoFailure DEF RemoveNetwork
  <2>4. Imaged("rm_network", r)
    BY <1>1 DEF Whole
  <2>5. Named(history, {store})' /\ Owned'
    <3>1. Named(history, {store})
      BY <1>3, <2>4 DEF Imaged, Builds
    <3> QED BY <1>1, <2>2, <2>3, <3>1 DEF Named, Owned
  <2>6. CASE Finish(p)
    BY <2>5, <2>6, OwnedReturn
  <2>7. CASE Go(p, "rm_versions")
    <3>1. pc'[p] = "rm_versions" /\ req'[p] = r
      BY <2>7, Went
    <3>2. Present(pc[p], req[p])'
      BY <1>1, <2>2, <2>3 DEF Present
    <3>3. Imaged(pc[p], req[p])'
      BY <1>1, <1>3, <2>4, <2>5, <3>1 DEF Imaged, Builds
    <3> QED BY <3>2, <3>3 DEF Whole
  <2>8. ~OwnImages(p)
    BY <1>3 DEF OwnImages
  <2> QED BY <2>3, <2>6, <2>7, <2>8 DEF AfterNetwork
<1>4. CASE r.kind \in Builds
  <2>1. /\ \A c \in containers : Owner(c) = store /\ c.rel # r.target.rel
        /\ \A n \in networks : (store # None /\ store.rel = n) \/ n = r.target.rel
        /\ Named(history, {r.old, r.cand})
    BY <1>1, <1>4, OneStands
  <2>2. networks' = networks \ {r.target.rel} /\ AfterNetwork(p, TRUE)
    BY <2>1, NoFailure DEF RemoveNetwork
  <2>3. Owned'
    BY <1>1, <2>1, <2>2 DEF Owned, Owner
  <2>4. Candidate(r) /\ Switch(pc[p], r)
    BY <1>1, <1>4 DEF Sound, Doing, Cleaning
  <2>5. CASE Go(p, "rm_images") /\ OwnImages(p)
    <3>1. pc'[p] = "rm_images" /\ req'[p] = r
      BY <2>5, Went
    <3>2. store \in {r.old, r.cand} \ {r.target}
      BY <1>1, <1>4, CleaningWhole
    <3>3. Present(pc[p], req[p])'
      BY <1>1, <1>4, <2>3, <3>1, <3>2 DEF Owned, Owner, Present, Stays, Cleaning
    <3>4. Imaged(pc[p], req[p])'
      BY <1>1, <1>4, <2>1, <2>5, <3>1 DEF Imaged, Builds, Named, OwnImages
    <3> QED BY <3>3, <3>4 DEF Whole
  <2>6. CASE Finish(p) /\ ~OwnImages(p)
    <3>1. Named(history, {store})
      <4>1. CASE r.target # r.cand
        <5>1. store = r.cand /\ \E v \in history : v.img = r.old.img
          BY <1>1, <1>4, <2>4, <4>1 DEF Switch, Whole, Imaged
        <5> QED BY <2>1, <5>1 DEF Named
      <4>2. CASE r.target = r.cand
        <5>1. store = r.old /\ r.seen = history /\ r.kind = "rollback"
          BY <1>1, <1>4, <2>4, <2>6, <4>2 DEF Switch, Calm, OwnImages, Builds
        <5>2. \E v \in history : v.img = r.cand.img
          BY <2>4, <5>1 DEF Candidate
        <5> QED BY <2>1, <5>1, <5>2 DEF Named
      <4> QED BY <4>1, <4>2
    <3>2. Named(history, {store})'
      BY <1>1, <3>1 DEF Named
    <3> QED BY <2>3, <2>6, <3>2, OwnedReturn
  <2>7. r.kind # "delete"
    BY <1>4 DEF Builds
  <2> QED BY <2>2, <2>5, <2>6, <2>7 DEF AfterNetwork
<1> QED BY <1>2, <1>3, <1>4

\* A deletion past the clean-up: no container and no network is left.
LEMMA NothingStands ==
    ASSUME NEW p \in Procs, Whole(p), req[p].kind = "delete",
           pc[p] \in {"rm_versions", "clear", "rm_images", "rm_record"}
    PROVE  containers = {} /\ networks = {}
<1>1. ~(\E x : Stays(x, pc[p], req[p])) /\ ~(\E x : Leaves(x, pc[p], req[p]))
  BY DEF Stays, Leaves, Builds, Cleaning
<1> QED BY <1>1 DEF Whole, Present

LEMMA RemoveImagesWhole ==
    ASSUME IInv, NEW p \in Procs, Sound(p), Whole(p), Calm, Calm', RemoveImages(p)
    PROVE  Whole(p)'
<1> DEFINE r == req[p]
<1> USE DEF IInv
<1>1. /\ pc[p] = "rm_images" /\ pc[p] \in Cleaning
      /\ UNCHANGED <<store, history, containers, networks>>
      /\ images' = images \ Removable(ImagePair(r.target.img))
  BY NoFailure DEF RemoveImages, Cleaning
<1>2. r \in Request /\ r.kind \in Builds \cup {"delete"} /\ r.target \in {r.old, r.cand} \cap Record
  BY <1>1, CleaningNow
<1>3. \A i \in images : i \in ImagePair(i.img)
  BY DEF DataOK, Image, ImagePair
<1>4. CASE r.kind = "delete"
  <2>1. containers = {} /\ networks = {}
    BY <1>1, <1>4, NothingStands
  <2>2. r.target = r.old /\ store = r.old
    BY <1>1, <1>4 DEF Sound, Doing, Removal
  <2>3. Imaged("rm_images", r)
    BY <1>1 DEF Whole
  <2>4. \A i \in images : i.img = r.target.img
    BY <1>4, <2>2, <2>3 DEF Imaged, Named
  <2>5. images' = {}
    BY <1>1, <1>3, <2>1, <2>4 DEF Removable, InUse
  <2>6. Go(p, "rm_record")
    BY <1>4 DEF RemoveImages
  <2>7. pc'[p] = "rm_record" /\ req'[p] = r
    BY <2>6, Went
  <2>8. Present(pc[p], req[p])'
    BY <1>1, <2>1 DEF Present
  <2>9. Imaged(pc[p], req[p])'
    BY <1>1, <1>4, <2>3, <2>5, <2>7 DEF Imaged, Builds, Named
  <2> QED BY <2>8, <2>9 DEF Whole
<1>5. CASE r.kind \in Builds
  <2>1. /\ \A c \in containers : Owner(c) = store
        /\ \A n \in networks : store # None /\ store.rel = n
        /\ Named(history, {r.old, r.cand})
    BY <1>1, <1>5, OneStands
  <2>2. Candidate(r) /\ Switch("rm_images", r)
    BY <1>1, <1>5 DEF Sound, Doing, Cleaning
  <2>3. r.target = r.cand /\ r.kind # "rollback" /\ store = r.old
    BY <1>1, <2>2 DEF Switch, Calm
  <2>4. Owned'
    BY <1>1, <2>1 DEF Owned, Owner
  <2>5. \A i \in images' : i.img # r.cand.img
    <3>1. \A c \in containers : c.img # r.cand.img
      <4>1. \A c \in containers : Owner(c).img = c.img /\ Owner(c) = store /\ Owner(c) \in Record
        BY <2>1 DEF Owner, DataOK, Container, Record
      <4>2. store \in Record => store.img # r.cand.img
        BY <1>2, <2>2, <2>3, NoneAssumption DEF Candidate, Older, Record
      <4> QED BY <4>1, <4>2
    <3>2. \A i \in images : i.img = r.cand.img => ~InUse(i)
      BY <3>1 DEF InUse
    <3> QED BY <1>1, <1>3, <2>3, <3>2 DEF Removable
  <2>6. Named(history, {store})'
    BY <1>1, <2>1, <2>3, <2>5 DEF Named
  <2>7. Finish(p)
    BY <1>5 DEF RemoveImages, Builds
  <2> QED BY <2>4, <2>6, <2>7, OwnedReturn
<1> QED BY <1>2, <1>4, <1>5

LEMMA ListVersionsWhole ==
    ASSUME IInv, NEW p \in Procs, Sound(p), Whole(p), Calm, Calm', ListVersions(p)
    PROVE  Whole(p)'
<1> DEFINE r == [req[p] EXCEPT !.seen = history, !.target = req[p].old]
<1> USE DEF IInv
<1>1. pc[p] = "list" /\ UNCHANGED <<store, history, containers, networks, images>>
        /\ Become(p, "rm_frontend", r)
  BY NoFailure DEF ListVersions, docker
<1>2. req[p].kind = "delete" /\ req[p] \in Request
  BY <1>1, DeletingNow DEF Deleting
<1>3. Owned /\ Named(history, {store})
  <2>1. AtRest(pc[p], req[p])
    BY <1>1, <1>2 DEF AtRest
  <2>2. Owned
    BY <2>1, OwnedNow DEF Whole
  <2> QED BY <1>2, <2>2 DEF Whole, Imaged, Builds
<1>4. store = req[p].old
  BY <1>1, <1>2 DEF Sound, Doing, Removal
<1>5. pc'[p] = "rm_frontend" /\ req'[p] = r
  BY <1>1, Became
<1>6. r.kind = "delete" /\ r.target = store /\ r.seen = history
  BY <1>2, <1>4 DEF Request
<1> HIDE DEF r
<1>7. Present(pc[p], req[p])'
  <2>1. \A x : x = store => Leaves(x, pc[p], req[p])'
    BY <1>5, <1>6 DEF Leaves, Cleaning
  <2> QED BY <1>1, <1>3, <1>5, <2>1 DEF Owned, Present, Owner
<1>8. Imaged(pc[p], req[p])'
  BY <1>1, <1>3, <1>5, <1>6 DEF Imaged, Builds, Named
<1> QED BY <1>7, <1>8 DEF Whole

\* The steps of a deletion past the clean-up.
LEMMA DeletionWhole ==
    ASSUME IInv, NEW p \in Procs, Sound(p), Whole(p), Calm, Calm',
           RemoveVersions(p) \/ ClearHistory(p) \/ DeleteRecord(p)
    PROVE  Whole(p)'
<1> DEFINE r == req[p]
<1> USE DEF IInv
<1>1. pc[p] \in {"rm_versions", "clear", "rm_record"} /\ UNCHANGED <<containers, networks>>
  BY DEF RemoveVersions, ClearHistory, DeleteRecord, docker
<1>2. r.kind = "delete" /\ r \in Request
  BY <1>1, DeletingNow DEF Deleting
<1>3. containers = {} /\ networks = {} /\ Imaged(pc[p], r)
  BY <1>1, <1>2, NothingStands DEF Whole
<1>4. store = r.old
  BY <1>1, <1>2 DEF Sound, Doing, Removal
<1>5. Present(pc[p], req[p])'
  BY <1>1, <1>3 DEF Present
<1>6. Owned'
  BY <1>1, <1>3 DEF Owned
<1>7. CASE RemoveVersions(p)
  <2>1. /\ pc[p] = "rm_versions" /\ UNCHANGED <<store, history>> /\ Go(p, "clear")
        /\ images' = images \ Removable(Images(r.seen) \ ImagePair(r.old.img))
    BY <1>7, NoFailure DEF RemoveVersions
  <2>2. pc'[p] = "clear" /\ req'[p] = r
    BY <2>1, Went
  <2>3. r.seen = history /\ Named(history, {store})
    BY <1>2, <1>3, <2>1 DEF Imaged, Builds
  <2>4. \A i \in images' : i.img = store.img /\ store # None
    <3> SUFFICES ASSUME NEW i \in images', ~(store # None /\ i.img = store.img) PROVE FALSE
      OBVIOUS
    <3>1. i \in images /\ i \in ImagePair(i.img)
      BY <2>1 DEF DataOK, Image, ImagePair
    <3>2. PICK v \in history : v.img = i.img
      BY <2>3, <3>1 DEF Named
    <3>3. r.old \in Record
      BY <1>1, <1>2, LocalNow DEF Local, Kinds
    <3>4. i \notin ImagePair(r.old.img)
      BY <1>4, <3>3, NoneAssumption DEF ImagePair
    <3>5. i \in Removable(Images(r.seen) \ ImagePair(r.old.img))
      BY <1>3, <2>3, <3>1, <3>2, <3>4 DEF Images, Removable, InUse
    <3> QED BY <2>1, <3>5
  <2>5. Imaged(pc[p], req[p])'
    BY <1>2, <1>4, <2>1, <2>2, <2>4 DEF Imaged, Builds, Named
  <2> QED BY <1>5, <2>5 DEF Whole
<1>8. CASE ClearHistory(p)
  <2>1. pc[p] = "clear" /\ UNCHANGED <<store, images>> /\ history' = {} /\ Go(p, "rm_images")
    BY <1>8, NoFailure DEF ClearHistory, docker
  <2>2. pc'[p] = "rm_images" /\ req'[p] = r
    BY <2>1, Went
  <2>3. Named({}, {r.old})
    BY <1>2, <1>3, <2>1 DEF Imaged
  <2>4. Imaged(pc[p], req[p])'
    BY <1>2, <1>4, <2>1, <2>2, <2>3 DEF Imaged, Builds, Named
  <2> QED BY <1>5, <2>4 DEF Whole
<1>9. CASE DeleteRecord(p)
  <2>1. pc[p] = "rm_record" /\ UNCHANGED <<images, history>> /\ (Go(p, "sync") \/ Finish(p))
    BY <1>9 DEF DeleteRecord, docker
  <2>2. images = {} /\ history = {}
    BY <1>2, <1>3, <2>1 DEF Imaged
  <2>3. Named(history, {store})'
    BY <2>1, <2>2 DEF Named
  <2>4. CASE Finish(p)
    BY <1>6, <2>3, <2>4, OwnedReturn
  <2>5. CASE Go(p, "sync")
    <3>1. pc'[p] = "sync" /\ req'[p] = r
      BY <2>5, Went
    <3>2. Imaged(pc[p], req[p])'
      BY <1>2, <2>1, <2>2, <3>1 DEF Imaged, Builds, Named
    <3> QED BY <1>5, <3>2 DEF Whole
  <2> QED BY <2>1, <2>4, <2>5
<1> QED BY <1>7, <1>8, <1>9

LEMMA RestartsWhole ==
    ASSUME IInv, NEW p \in Procs, Sound(p), Whole(p),
           RestartBackend(p) \/ RestartFrontend(p)
    PROVE  Whole(p)'
<1> USE DEF IInv
<1>1. pc[p] \in {"restart_backend", "restart_frontend"}
        /\ UNCHANGED <<store, history, networks, images>>
  BY DEF RestartBackend, RestartFrontend, Restart
<1>2. req[p].kind = "restart"
  BY <1>1, LocalNow DEF Local
<1>3. Owned /\ Named(history, {store})
  <2>1. AtRest(pc[p], req[p])
    BY <1>1, <1>2 DEF AtRest, Builds, Cleaning
  <2>2. Owned
    BY <2>1, OwnedNow DEF Whole
  <2> QED BY <1>2, <2>2 DEF Whole, Imaged, Builds
<1>4. \A c \in containers' : Owner(c) = store
  <2>1. PICK svc \in Services : \/ UNCHANGED containers
          \/ \E up \in BOOLEAN : containers' = (containers \ Of(req[p].old.rel, svc))
                 \cup {[d EXCEPT !.up = up] : d \in Of(req[p].old.rel, svc)}
    BY DEF RestartBackend, RestartFrontend, Restart, Services
  <2>2. CASE UNCHANGED containers
    BY <1>3, <2>2 DEF Owned
  <2>3. ASSUME NEW up \in BOOLEAN, containers' = (containers \ Of(req[p].old.rel, svc))
                 \cup {[d EXCEPT !.up = up] : d \in Of(req[p].old.rel, svc)}
        PROVE  \A c \in containers' : Owner(c) = store
    <3>1. \A d \in containers : Owner([d EXCEPT !.up = up]) = Owner(d)
      <4> TAKE d \in containers
      <4>1. d \in Container
        BY DEF DataOK
      <4>2. [d EXCEPT !.up = up].rel = d.rel /\ [d EXCEPT !.up = up].img = d.img
        BY <4>1 DEF Container
      <4> QED BY <4>2 DEF Owner
    <3>2. Of(req[p].old.rel, svc) \subseteq containers
      BY DEF Of
    <3> QED BY <1>3, <2>3, <3>1, <3>2 DEF Owned
  <2> QED BY <2>1, <2>2, <2>3
<1>5. Owned' /\ Named(history, {store})'
  BY <1>1, <1>3, <1>4 DEF Owned, Named, Owner
<1>6. Go(p, "restart_frontend") \/ Finish(p)
  BY DEF RestartBackend, RestartFrontend, Restart
<1>7. CASE Finish(p)
  BY <1>5, <1>7, OwnedReturn
<1>8. CASE Go(p, "restart_frontend")
  <2>1. pc'[p] = "restart_frontend" /\ req'[p] = req[p]
    BY <1>8, Went
  <2>2. AtRest(pc'[p], req'[p])
    BY <1>2, <2>1 DEF AtRest, Builds, Cleaning
  <2>3. Imaged(pc[p], req[p])'
    BY <1>2, <1>5, <2>1 DEF Imaged, Builds
  <2> QED BY <1>5, <2>2, <2>3, OwnedThen DEF Whole
<1> QED BY <1>6, <1>7, <1>8

LEMMA WorkWhole ==
    ASSUME IInv, NEW p \in Procs, Sound(p), Whole(p), Calm, Calm', MaxPrevious > 0, Work(p)
    PROVE  Whole(p)'
<1>1. CASE Release(p)
  BY <1>1, LockWhole, BuildWhole, StartWhole, SwitchWhole, RecordHistoryWhole DEF Release
<1>2. CASE Cleanup(p)
  BY <1>2, RemoveContainerWhole, RemoveNetworkWhole, RemoveImagesWhole DEF Cleanup
<1>3. CASE Other(p)
  BY <1>3, ListVersionsWhole, DeletionWhole, RestartsWhole DEF Other
<1> QED BY <1>1, <1>2, <1>3, ArrivalWhole DEF Work

LEMMA CompleteStart ==
    ASSUME Init, IInv
    PROVE  CompleteInv
<1>1. ASSUME NEW p \in Procs PROVE Whole(p)
  <2>1. pc[p] = "idle" /\ req[p] = NoRequest
    BY ConstantsAssumption DEF Init, Threads
  <2>2. req[p].kind = "none"
    BY <2>1 DEF NoRequest
  <2>3. store \in Record \cup {None}
    BY DEF IInv, DataOK
  <2>4. \A c \in containers : c.rel = store.rel /\ c.img = store.img /\ store # None
    BY DEF Init, Pair
  <2>5. \A c \in containers : Owner(c) = store
    BY <2>3, <2>4 DEF Owner, Record
  <2>6. \A n \in networks : store # None /\ store.rel = n
    BY <2>4 DEF Init
  <2>7. \A i \in images : store # None /\ store.img = i.img
    BY DEF Init, ImagePair
  <2>8. Stays(store, pc[p], req[p])
    BY <2>2 DEF Stays, Builds
  <2>9. Present(pc[p], req[p])
    BY <2>5, <2>6, <2>8 DEF Present
  <2>10. Imaged(pc[p], req[p])
    BY <2>2, <2>7 DEF Imaged, Builds, Named
  <2> QED BY <2>9, <2>10 DEF Whole
<1> QED BY <1>1 DEF CompleteInv

\* main() synchronizes the proxy while every request is at rest.
LEMMA BootWhole ==
    ASSUME IInv, PairInv, NEW p \in Procs, Whole(p), Sync(Main)
    PROVE  Whole(p)'
<1> USE DEF IInv
<1>1. pc[Main] = "sync" /\ req[Main].kind = "boot"
  BY DEF Sync, ControlOK
<1>2. Finish(Main)
  BY <1>1 DEF Sync, AfterSync
<1>3. pc[p] = "idle" /\ req[p] = NoRequest /\ p # Main
  BY <1>1, ConstantsAssumption DEF PairInv, Booting
<1>4. pc'[p] = "idle" /\ req'[p] = NoRequest
  BY <1>2, <1>3 DEF Finish, Goto, ControlOK, Threads
<1>5. UNCHANGED <<store, history, containers, networks, images>>
  BY DEF Sync, docker
<1>6. req[p].kind = "none"
  BY <1>3 DEF NoRequest
<1>7. Present(pc[p], req[p])'
  BY <1>3, <1>4, <1>5 DEF Whole, Present, Stays, Leaves, Owner
<1>8. Imaged(pc[p], req[p])'
  BY <1>3, <1>4, <1>5, <1>6 DEF Whole, Imaged, Named, Builds
<1> QED BY <1>7, <1>8 DEF Whole

LEMMA StutterWhole ==
    ASSUME NEW p \in Procs, Whole(p), UNCHANGED vars
    PROVE  Whole(p)'
<1>1. UNCHANGED <<store, history, containers, networks, images, pc, req>>
  BY DEF vars, docker
<1> QED BY <1>1 DEF Whole, Present, Imaged, Stays, Leaves, Owner, Named

LEMMA CalmBefore ==
    ASSUME IInv, [Next]_vars, Calm'
    PROVE  Calm /\ ~Crash
<1>1. faults \in Nat /\ crashes \in Nat
  BY DEF IInv, DataOK
<1>2. ~Crash
  <2>1. Crash => crashes' = crashes + 1
    BY DEF Crash
  <2> QED BY <1>1, <2>1 DEF Calm
<1>3. CASE \E t \in Threads : Sync(t)
  <2>1. Fault \/ NoFault
    BY <1>3 DEF Sync
  <2> QED BY <1>1, <1>2, <2>1 DEF Fault, NoFault, bounds, Calm
<1>4. CASE UNCHANGED vars
  BY <1>2, <1>4 DEF vars, bounds, Calm
<1>5. ASSUME NEW p \in Procs, Work(p) PROVE Calm
  <2>1. (Fault \/ NoFault) => Calm
    BY <1>1 DEF Fault, NoFault, bounds, Calm
  <2>2. UNCHANGED bounds => NoFault
    BY DEF NoFault
  <2>3. CASE Arrival(p) \/ Refused(p) \/ LockBuild(p) \/ LockRollback(p)
    <3>1. NoFault
      BY <2>3 DEF Arrival, deployHandler, redeployHandler, rollbackDeploymentHandler,
         restartDeploymentHandler, deleteDeploymentHandler, Begin, Refused, LockBuild,
         LockRollback, Accepted, NoFault, bounds
    <3> QED BY <2>1, <3>1
  <2>4. CASE BuildFrontend(p) \/ BuildBackend(p) \/ Save(p) \/ Restore(p) \/ RecordHistory(p)
    <3>1. Fault \/ NoFault
      BY <2>4 DEF BuildFrontend, BuildBackend, Build, Save, Restore, RecordHistory
    <3> QED BY <2>1, <3>1
  <2>5. CASE CreateNetwork(p) \/ StartBackend(p) \/ StartFrontend(p) \/ Verify(p)
    <3>1. UNCHANGED <<faults, crashes>>
      BY <2>5 DEF CreateNetwork, StartBackend, StartFrontend, Start, Verify, bounds
    <3> QED BY <2>1, <3>1 DEF NoFault, bounds
  <2>6. CASE Cleanup(p)
    <3>1. Fault \/ NoFault
      BY <2>6 DEF Cleanup, RemoveFrontend, RemoveBackend, RemoveContainer, RemoveNetwork, RemoveImages
    <3> QED BY <2>1, <3>1
  <2>7. CASE Other(p)
    <3>1. Fault \/ NoFault
      BY <2>7 DEF Other, ListVersions, RemoveVersions, ClearHistory, DeleteRecord,
         RestartBackend, RestartFrontend, Restart
    <3> QED BY <2>1, <3>1
  <2> QED BY <1>5, <2>3, <2>4, <2>5, <2>6, <2>7 DEF Work, Release
<1> QED BY <1>2, <1>3, <1>4, <1>5 DEF Next, Work

LEMMA CompleteNext ==
    ASSUME Serial, MaxPrevious > 0, IInv, PairInv, CompleteInv, [Next]_vars
    PROVE  CompleteInv'
<1> SUFFICES ASSUME Calm', NEW p \in Procs PROVE Whole(p)'
  BY DEF CompleteInv, Calm
<1>1. Calm /\ ~Crash
  BY CalmBefore
<1>2. Whole(p) /\ Sound(p)
  BY <1>1, Alone DEF CompleteInv, Calm
<1>3. ASSUME NEW q \in Procs, Work(q) PROVE Whole(p)'
  BY <1>1, <1>2, <1>3, WorkWhole DEF Serial
<1>4. ASSUME NEW t \in Threads, Sync(t) PROVE Whole(p)'
  BY <1>1, <1>2, <1>4, SyncWhole, BootWhole DEF Serial, Threads
<1> QED BY <1>1, <1>2, <1>3, <1>4, StutterWhole DEF Next, Work

\* deleteFullstackProject drops the record of a project only when both containers
\* and the network of its release are gone, however many failures and crashes the
\* deletion and the releases before it went through, so that an interrupted one can
\* be asked for again; and when nothing ever failed, no container, network, image
\* or history entry is left of any release there ever was.  Of one request at a
\* time, with a history that keeps at least one version (config.go: three).
THEOREM DeletionIsComplete ==
    ASSUME Serial, MaxPrevious > 0
    PROVE  Spec => DeletionComplete
<1>1. Init => IInv /\ CompleteInv
  BY InitOK, CompleteStart
<1>2. (IInv /\ PairInv) /\ CompleteInv /\ [Next]_vars => CompleteInv'
  BY CompleteNext
<1>3. (IInv /\ PairInv) /\ CompleteInv /\ [Next]_vars =>
        [\A p \in Procs :
            DeleteRecord(p) /\ store' # store =>
                /\ store.rel \notin {c.rel : c \in containers} \cup networks
                /\ faults + crashes = 0 =>
                       containers = {} /\ networks = {} /\ images = {} /\ history = {}]_vars
  <2> SUFFICES ASSUME IInv, PairInv, CompleteInv, NEW p \in Procs, DeleteRecord(p)
               PROVE  /\ store.rel \notin {c.rel : c \in containers} \cup networks
                      /\ faults + crashes = 0 =>
                             containers = {} /\ networks = {} /\ images = {} /\ history = {}
    OBVIOUS
  <2>1. pc[p] = "rm_record" /\ req[p].kind = "delete"
    BY DeletingNow DEF DeleteRecord, Deleting, IInv
  <2>2. /\ store = req[p].old /\ store.rel \notin networks
        /\ Gone(store.rel, Frontend) /\ Gone(store.rel, Backend)
    BY <2>1 DEF PairInv, Doing, Removal
  <2>3. \A c \in containers : c.svc \in {Frontend, Backend}
    BY DEF IInv, DataOK, Container, Services
  <2>4. store.rel \notin {c.rel : c \in containers}
    BY <2>2, <2>3 DEF Gone
  <2>5. ASSUME faults + crashes = 0
        PROVE  containers = {} /\ networks = {} /\ images = {} /\ history = {}
    <3>1. faults = 0 /\ crashes = 0
      BY <2>5 DEF IInv, DataOK
    <3>2. Whole(p)
      BY <3>1 DEF CompleteInv
    <3>3. containers = {} /\ networks = {}
      BY <2>1, <3>2, NothingStands
    <3>4. images = {} /\ history = {}
      BY <2>1, <3>2 DEF Whole, Imaged
    <3> QED BY <3>3, <3>4
  <2> QED BY <2>2, <2>4, <2>5
<1> QED BY <1>1, <1>2, <1>3, PairHolds, PTL DEF Spec, DeletionComplete

-----------------------------------------------------------------------------
(***************************************************************************)
(* Which containers and networks there are, whatever failed.               *)
(***************************************************************************)
\* The containers in C of a record's release were created from its images.
Fits(C, x) == x # None => \A c \in C : c.rel = x.rel => c.img = x.img

Stands(C, x) == \A svc \in Services : \E c \in C :
    c.rel = x.rel /\ c.img = x.img /\ c.svc = svc

Docked ==
    /\ \A c \in containers : c.rel < clock + 1
    /\ \A n \in networks : n < clock + 1
    /\ \A c, d \in containers : c.rel = d.rel /\ c.svc = d.svc => c = d
    /\ Fits(containers, store)

Building == {"build_frontend", "build_backend", "network"}

\* A candidate is built in order, and stands until it is given up.
Standing(s, r) ==
    /\ r.kind \in Builds /\ s \notin {"idle", "lock"} =>
         Fits(containers, r.old) /\ Fits(containers, r.cand)
    /\ s \in Building => r.cand.rel \notin networks
    /\ s \in Building \cup {"start_backend"} => Gone(r.cand.rel, Backend)
    /\ s \in Building \cup {"start_backend", "start_frontend"} => Gone(r.cand.rel, Frontend)
    /\ s = "start_frontend" => \E c \in containers :
         c.rel = r.cand.rel /\ c.img = r.cand.img /\ c.svc = Backend
    /\ s \in {"verify", "save", "restore", "record"} => Stands(containers, r.cand)
    /\ r.kind \in Builds /\ s = "sync" /\ ~r.restoring => Stands(containers, r.cand)
    /\ r.kind = "delete" /\ s \in (Cleaning \ {"rm_images"}) \cup {"rm_versions"} =>
         r.seen = history

\* What holds of the containers and of one request.
Upright(p) == Docked /\ Standing(pc[p], req[p])

LEMMA SameDocks ==
    ASSUME Docked, containers' \subseteq containers, networks' \subseteq networks,
           clock' = clock, Fits(containers', store')
    PROVE  Docked'
BY DEF Docked

LEMMA Fewer ==
    ASSUME NEW C, NEW D, D \subseteq C, NEW x, Fits(C, x)
    PROVE  Fits(D, x)
BY DEF Fits

LEMMA ReturnUpright ==
    ASSUME IInv, NEW p \in Procs, Finish(p), Docked'
    PROVE  Upright(p)'
<1>1. pc'[p] = "idle" /\ req'[p] = NoRequest
  BY Returned DEF IInv
<1>2. req'[p].kind = "none"
  BY <1>1 DEF NoRequest
<1> QED BY <1>1, <1>2 DEF Upright, Standing, Builds, Building, Cleaning

\* Steps that say nothing of the containers.
LEMMA Uncommitted ==
    ASSUME NEW p \in Procs, Docked',
           \/ pc'[p] = "lock"
           \/ pc'[p] \in {"restart_backend", "restart_frontend"} /\ req'[p].kind = "restart"
           \/ /\ pc'[p] \in {"list", "clear", "rm_images", "rm_record", "sync"}
              /\ req'[p].kind = "delete"
    PROVE  Upright(p)'
BY DEF Upright, Standing, Builds, Building, Cleaning

LEMMA CleanUpright ==
    ASSUME IInv, NEW p \in Procs, NEW x, Clean(p, x), req[p].kind \in Builds, Docked',
           Fits(containers', req[p].old), Fits(containers', req[p].cand)
    PROVE  Upright(p)'
<1>1. /\ pc'[p] = "rm_frontend"
      /\ req'[p].kind = req[p].kind /\ req'[p].old = req[p].old
      /\ req'[p].cand = req[p].cand
  BY Cleans DEF IInv
<1> QED BY <1>1 DEF Upright, Standing, Builds, Building

LEMMA BeginUpright ==
    ASSUME IInv, NEW p \in Procs, Upright(p), Arrival(p)
    PROVE  Upright(p)'
<1>1. PICK kind, first :
        /\ Begin(p, kind, first)
        /\ \/ first = "lock"
           \/ first = "restart_backend" /\ kind = "restart"
           \/ first = "list" /\ kind = "delete"
  BY DEF Arrival, deployHandler, redeployHandler, rollbackDeploymentHandler,
         restartDeploymentHandler, deleteDeploymentHandler
<1>2. UNCHANGED <<store, containers, networks, clock>>
  BY <1>1 DEF Begin, docker
<1>3. Docked'
  BY <1>2, SameDocks DEF Upright, Docked
<1>4. pc'[p] = first /\ req'[p] = [NoRequest EXCEPT !.kind = kind, !.old = store]
  BY <1>1, Became DEF Begin, IInv
<1>5. req'[p].kind = kind
  BY <1>4 DEF NoRequest
<1> QED BY <1>1, <1>3, <1>4, <1>5, Uncommitted DEF Builds

LEMMA LockUpright ==
    ASSUME IInv, NEW p \in Procs, Sound(p), Upright(p), LockBuild(p) \/ LockRollback(p)
    PROVE  Upright(p)'
<1> USE DEF IInv
<1>1. PICK img : \E first \in {"build_frontend", "network"} : Accepted(p, img, first)
  BY DEF LockBuild, LockRollback
<1>0. PICK first \in {"build_frontend", "network"} : Accepted(p, img, first)
  BY <1>1
<1> DEFINE c == [rel |-> clock', img |-> img]
<1> DEFINE r == [req[p] EXCEPT !.seen = history, !.cand = c]
<1>2. pc[p] = "lock" /\ clock' = clock + 1 /\ clock \in Nat
        /\ UNCHANGED <<store, containers, networks>>
  BY <1>0 DEF Accepted, DataOK, docker
<1>3. req[p] \in Request /\ req[p].kind \in Builds /\ store = req[p].old
  BY <1>2, ReleasingNow DEF Sound, Releasing, Switch
<1>4. pc'[p] = first /\ req'[p] = r
  BY <1>0 DEF Accepted, ControlOK, Goto, Threads
<1>5. r.kind = req[p].kind /\ r.old = req[p].old /\ r.cand = c
  BY <1>3 DEF Request
<1>6. c.rel = clock + 1
  BY <1>2
<1> HIDE DEF r, c
<1>7. /\ \A d \in containers : d.rel < clock + 1 /\ d.rel \in Nat
      /\ \A n \in networks : n < clock + 1 /\ n \in Nat
  BY DEF Upright, Docked, DataOK, Container
<1>8. Docked'
  <2>1. \A d \in containers : d.rel < clock + 1 + 1
    BY <1>2, <1>7
  <2>2. \A n \in networks : n < clock + 1 + 1
    BY <1>2, <1>7
  <2> QED BY <1>2, <2>1, <2>2 DEF Upright, Docked
<1>9. (\A d \in containers : d.rel # c.rel) /\ c.rel \notin networks
  BY <1>2, <1>6, <1>7
<1>10. Fits(containers, r.old) /\ Fits(containers, c)
  <2>1. Fits(containers, store)
    BY DEF Upright, Docked
  <2>2. Fits(containers, c)
    BY <1>9 DEF Fits
  <2> QED BY <1>3, <1>5, <2>1, <2>2
<1>11. Standing(pc[p], req[p])'
  BY <1>2, <1>3, <1>4, <1>5, <1>9, <1>10 DEF Standing, Gone, Cleaning, Builds, Building
<1> QED BY <1>8, <1>11 DEF Upright

\* What a request that releases has, and its records' containers.
LEMMA UprightNow ==
    ASSUME IInv, NEW p \in Procs, Sound(p), Upright(p), pc[p] \in Releasing \ {"lock"}
    PROVE  /\ req[p] \in Request /\ req[p].kind \in Builds
           /\ Switch(pc[p], req[p]) /\ req[p].cand \in Record /\ Candidate(req[p])
           /\ Fits(containers, req[p].old) /\ Fits(containers, req[p].cand)
           /\ Standing(pc[p], req[p]) /\ Docked
<1>1. pc[p] # "idle" /\ pc[p] # "lock"
  BY DEF Releasing
<1>2. /\ req[p] \in Request /\ req[p].kind \in Builds
      /\ Switch(pc[p], req[p]) /\ req[p].cand \in Record /\ Candidate(req[p])
  BY <1>1, ReleasingNow DEF Sound, IInv
<1>3. Fits(containers, req[p].old) /\ Fits(containers, req[p].cand)
  BY <1>1, <1>2 DEF Upright, Standing
<1> QED BY <1>2, <1>3 DEF Upright

LEMMA BuildUpright ==
    ASSUME IInv, NEW p \in Procs, Sound(p), Upright(p), BuildFrontend(p) \/ BuildBackend(p)
    PROVE  Upright(p)'
<1>1. PICK step \in {"build_frontend", "build_backend"} :
        pc[p] = step /\ (Go(p, "build_backend") \/ Go(p, "network") \/ Finish(p))
          /\ UNCHANGED <<store, containers, networks, clock, history>>
  BY DEF BuildFrontend, BuildBackend, Build
<1>2. pc[p] \in Releasing \ {"lock"} /\ pc[p] \in Building
  BY <1>1 DEF Releasing, Building
<1>3. Docked'
  BY <1>1, SameDocks DEF Upright, Docked
<1>4. CASE Finish(p)
  BY <1>3, <1>4, ReturnUpright
<1>5. ASSUME NEW s \in {"build_backend", "network"}, Go(p, s) PROVE Upright(p)'
  <2>1. pc'[p] = s /\ req'[p] = req[p]
    BY <1>5, Went DEF IInv
  <2>2. s \in Building
    BY DEF Building
  <2>3. Standing(pc[p], req[p])'
    BY <1>1, <1>2, <2>1, <2>2, UprightNow DEF Standing, Gone, Building, Cleaning, Builds
  <2> QED BY <1>3, <2>3 DEF Upright
<1> QED BY <1>1, <1>4, <1>5

LEMMA NetworkUpright ==
    ASSUME IInv, NEW p \in Procs, Sound(p), Upright(p), CreateNetwork(p)
    PROVE  Upright(p)'
<1>1. pc[p] = "network" /\ UNCHANGED <<store, containers, clock, history>>
  BY DEF CreateNetwork
<1>2. pc[p] \in Releasing \ {"lock"} /\ pc[p] \in Building
  BY <1>1 DEF Releasing, Building
<1>3. networks' \subseteq networks \cup {req[p].cand.rel}
  BY DEF CreateNetwork
<1>4. Docked'
  <2>1. req[p].cand.rel < clock + 1
    BY <1>2, UprightNow DEF Candidate
  <2> QED BY <1>1, <1>3, <2>1 DEF Upright, Docked
<1>5. CASE Go(p, "start_backend")
  <2>1. pc'[p] = "start_backend" /\ req'[p] = req[p]
    BY <1>5, Went DEF IInv
  <2>2. Standing(pc[p], req[p])'
    BY <1>1, <1>2, <2>1, UprightNow DEF Standing, Gone, Building, Cleaning, Builds
  <2> QED BY <1>4, <2>2 DEF Upright
<1>6. CASE Clean(p, req[p].cand)
  BY <1>1, <1>2, <1>4, <1>6, UprightNow, CleanUpright
<1> QED BY <1>5, <1>6 DEF CreateNetwork

LEMMA StartUpright ==
    ASSUME IInv, NEW p \in Procs, Sound(p), Upright(p), StartBackend(p) \/ StartFrontend(p)
    PROVE  Upright(p)'
<1> DEFINE r == req[p]
<1> USE DEF IInv
<1>1. PICK svc, step, next :
        /\ \/ svc = Backend /\ step = "start_backend" /\ next = "start_frontend"
           \/ svc = Frontend /\ step = "start_frontend" /\ next = "verify"
        /\ Start(p, svc, step, next)
  BY DEF StartBackend, StartFrontend
<1>2. pc[p] = step /\ UNCHANGED <<store, networks, clock, history>>
        /\ (Go(p, next) \/ Clean(p, r.cand))
  BY <1>1 DEF Start
<1>3. pc[p] \in Releasing \ {"lock"}
  BY <1>1, <1>2 DEF Releasing
<1>4. /\ r \in Request /\ r.kind \in Builds /\ r.cand \in Record /\ Candidate(r)
      /\ Fits(containers, r.old) /\ Fits(containers, r.cand)
      /\ Standing(step, r) /\ Docked /\ Switch(step, r)
  BY <1>2, <1>3, UprightNow
<1>5. Gone(r.cand.rel, svc)
  BY <1>1, <1>4 DEF Standing
<1>6. svc \in Services
  BY <1>1 DEF Services
<1> DEFINE up == [rel |-> r.cand.rel, img |-> r.cand.img, svc |-> svc, up |-> TRUE]
<1> DEFINE down == [up EXCEPT !.up = FALSE]
<1>a. \/ containers' = containers \cup {up} /\ Go(p, next)
      \/ containers' \in {containers, containers \cup {down}} /\ Clean(p, r.cand)
  BY <1>1 DEF Start
<1>b. /\ up.rel = r.cand.rel /\ up.img = r.cand.img /\ up.svc = svc
      /\ down.rel = r.cand.rel /\ down.img = r.cand.img /\ down.svc = svc
  OBVIOUS
<1> HIDE DEF up, down
<1>7. \/ containers' = containers
      \/ \E d : /\ containers' = containers \cup {d}
                /\ d.rel = r.cand.rel /\ d.img = r.cand.img /\ d.svc = svc
  BY <1>a, <1>b
<1>8. r.cand.rel < clock + 1 /\ store = r.old /\ Older(r.old, r.cand.rel) /\ r.cand.rel \in Nat
  <2>1. step \in Preparing
    BY <1>1 DEF Preparing
  <2> QED BY <1>4, <2>1 DEF Candidate, Switch, Record
<1>9. store # None => store.rel # r.cand.rel
  <2>1. store # None => store.rel \in Nat /\ store.rel < r.cand.rel
    BY <1>8 DEF Older, DataOK, Record
  <2> QED BY <1>8, <2>1
<1>10. Fits(containers', r.old) /\ Fits(containers', r.cand) /\ Fits(containers', store)
  BY <1>4, <1>7, <1>8, <1>9 DEF Fits
<1>11. Docked'
  <2>1. \A c \in containers' : c.rel < clock + 1
    BY <1>4, <1>7, <1>8 DEF Docked
  <2>2. \A c, d \in containers' : c.rel = d.rel /\ c.svc = d.svc => c = d
    BY <1>4, <1>5, <1>7 DEF Docked, Gone
  <2> QED BY <1>2, <1>4, <1>10, <2>1, <2>2 DEF Docked
<1>12. CASE Clean(p, r.cand)
  BY <1>4, <1>10, <1>11, <1>12, CleanUpright
<1>13. CASE Go(p, next)
  <2>1. pc'[p] = next /\ req'[p] = r
    BY <1>13, Went
  <2>2. \E d : /\ containers' = containers \cup {d}
               /\ d.rel = r.cand.rel /\ d.img = r.cand.img /\ d.svc = svc
    <3>1. pc'[p] # "rm_frontend"
      BY <1>1, <2>1
    <3>2. ~Clean(p, r.cand)
      BY <3>1, Cleans
    <3> QED BY <1>a, <1>b, <3>2
  <2>3. CASE next = "start_frontend"
    <3>1. svc = Backend /\ step = "start_backend"
      BY <1>1, <2>3
    <3>2. Gone(r.cand.rel, Frontend)
      BY <1>4, <3>1 DEF Standing
    <3>3. Gone(r.cand.rel, Frontend)'
      BY <2>1, <2>2, <3>1, <3>2 DEF Gone, Frontend, Backend
    <3>4. \E c \in containers' : c.rel = r.cand.rel /\ c.img = r.cand.img /\ c.svc = Backend
      BY <2>2, <3>1
    <3> QED BY <1>4, <1>10, <1>11, <2>1, <2>3, <3>3, <3>4
            DEF Upright, Standing, Building, Cleaning, Builds, Gone
  <2>4. CASE next = "verify"
    <3>1. svc = Frontend /\ step = "start_frontend"
      BY <1>1, <2>4
    <3>2. \E c \in containers : c.rel = r.cand.rel /\ c.img = r.cand.img /\ c.svc = Backend
      BY <1>4, <3>1 DEF Standing
    <3>3. Stands(containers', r.cand)
      BY <2>2, <3>1, <3>2 DEF Stands, Services
    <3> QED BY <1>4, <1>10, <1>11, <2>1, <2>4, <3>3
            DEF Upright, Standing, Building, Cleaning, Builds
  <2> QED BY <1>1, <2>3, <2>4
<1> QED BY <1>2, <1>12, <1>13

LEMMA VerifyUpright ==
    ASSUME IInv, NEW p \in Procs, Sound(p), Upright(p), Verify(p)
    PROVE  Upright(p)'
<1>1. pc[p] = "verify" /\ UNCHANGED <<store, containers, networks, clock, history>>
  BY DEF Verify, docker
<1>2. pc[p] \in Releasing \ {"lock"}
  BY <1>1 DEF Releasing
<1>3. Docked'
  BY <1>1, SameDocks DEF Upright, Docked
<1>4. CASE Go(p, "save")
  <2>1. pc'[p] = "save" /\ req'[p] = req[p]
    BY <1>4, Went DEF IInv
  <2>2. Standing(pc[p], req[p])'
    BY <1>1, <1>2, <2>1, UprightNow DEF Standing, Building, Cleaning, Builds
  <2> QED BY <1>3, <2>2 DEF Upright
<1>5. CASE Clean(p, req[p].cand)
  BY <1>1, <1>2, <1>3, <1>5, UprightNow, CleanUpright
<1> QED BY <1>4, <1>5 DEF Verify

LEMMA SaveUpright ==
    ASSUME IInv, NEW p \in Procs, Sound(p), Upright(p), Save(p)
    PROVE  Upright(p)'
<1>1. pc[p] = "save" /\ UNCHANGED <<containers, networks, clock, history>>
  BY DEF Save, docker
<1>2. pc[p] \in Releasing \ {"lock"}
  BY <1>1 DEF Releasing
<1>3. CASE store' = req[p].cand /\ Go(p, "sync")
  <2>1. pc'[p] = "sync" /\ req'[p] = req[p]
    BY <1>3, Went DEF IInv
  <2>2. Standing(pc[p], req[p])'
    BY <1>1, <1>2, <2>1, UprightNow DEF Standing, Building, Cleaning, Builds
  <2>3. Docked'
    BY <1>1, <1>2, <1>3, UprightNow, SameDocks
  <2> QED BY <2>2, <2>3 DEF Upright
<1>4. CASE Clean(p, req[p].cand) /\ UNCHANGED store
  <2>1. Docked'
    BY <1>1, <1>4, SameDocks DEF Upright, Docked
  <2> QED BY <1>1, <1>2, <1>4, <2>1, UprightNow, CleanUpright
<1> QED BY <1>3, <1>4 DEF Save

LEMMA SyncUpright ==
    ASSUME IInv, NEW p \in Procs, Sound(p), Upright(p), Sync(p)
    PROVE  Upright(p)'
<1> USE DEF IInv
<1>1. pc[p] = "sync" /\ UNCHANGED <<store, containers, networks, clock, history>>
  BY DEF Sync, docker
<1>2. Docked'
  BY <1>1, SameDocks DEF Upright, Docked
<1>3. req[p] \in Request /\ Local("sync", req[p])
  BY <1>1, LocalNow
<1>4. CASE Finish(p)
  BY <1>2, <1>4, ReturnUpright
<1>5. CASE req[p].kind \in Builds /\ ~Finish(p)
  <2>1. Standing("sync", req[p])
    BY <1>1 DEF Upright
  <2>2. Fits(containers, req[p].old) /\ Fits(containers, req[p].cand)
    BY <1>5, <2>1 DEF Standing
  <2>3. req[p].kind \notin {"boot", "delete"}
    BY <1>5 DEF Builds
  <2>4. CASE req[p].restoring
    <3>1. Clean(p, req[p].cand)
      BY <1>5, <2>3, <2>4 DEF Sync, AfterSync
    <3> QED BY <1>1, <1>2, <1>5, <2>2, <3>1, CleanUpright
  <2>5. CASE ~req[p].restoring
    <3>1. PICK s \in {"record", "restore"} : Go(p, s)
      BY <1>5, <2>3, <2>5 DEF Sync, AfterSync
    <3>2. pc'[p] = s /\ req'[p] = req[p]
      BY <3>1, Went
    <3>3. Stands(containers, req[p].cand)
      BY <1>5, <2>1, <2>5 DEF Standing
    <3>4. Standing(pc[p], req[p])'
      BY <1>1, <1>5, <2>2, <3>2, <3>3 DEF Standing, Building, Cleaning, Builds
    <3> QED BY <1>2, <3>4 DEF Upright
  <2> QED BY <2>4, <2>5
<1>6. CASE req[p].kind = "delete"
  BY <1>4, <1>6 DEF Sync, AfterSync
<1> QED BY <1>3, <1>4, <1>5, <1>6 DEF Local

LEMMA RestoreUpright ==
    ASSUME IInv, NEW p \in Procs, Sound(p), Upright(p), Restore(p)
    PROVE  Upright(p)'
<1>1. pc[p] = "restore" /\ UNCHANGED <<containers, networks, clock, history>>
  BY DEF Restore, docker
<1>2. pc[p] \in Releasing \ {"lock"}
  BY <1>1 DEF Releasing
<1>3. CASE store' = req[p].old /\ Become(p, "sync", [req[p] EXCEPT !.restoring = TRUE])
  <2> DEFINE r == [req[p] EXCEPT !.restoring = TRUE]
  <2>1. pc'[p] = "sync" /\ req'[p] = r
    BY <1>3, Became DEF IInv
  <2>2. r.kind = req[p].kind /\ r.old = req[p].old /\ r.cand = req[p].cand /\ r.restoring
    BY <1>2, UprightNow DEF Request
  <2> HIDE DEF r
  <2>3. Standing(pc[p], req[p])'
    BY <1>1, <1>2, <2>1, <2>2, UprightNow DEF Standing, Building, Cleaning, Builds
  <2>4. Docked'
    BY <1>1, <1>2, <1>3, UprightNow, SameDocks
  <2> QED BY <2>3, <2>4 DEF Upright
<1>4. CASE Clean(p, req[p].cand) /\ UNCHANGED store
  <2>1. Docked'
    BY <1>1, <1>4, SameDocks DEF Upright, Docked
  <2> QED BY <1>1, <1>2, <1>4, <2>1, UprightNow, CleanUpright
<1> QED BY <1>3, <1>4 DEF Restore

LEMMA RecordUpright ==
    ASSUME IInv, NEW p \in Procs, Sound(p), Upright(p), RecordHistory(p)
    PROVE  Upright(p)'
<1>1. pc[p] = "record" /\ UNCHANGED <<store, containers, networks, clock>>
        /\ Clean(p, req[p].old)
  BY DEF RecordHistory
<1>2. pc[p] \in Releasing \ {"lock"}
  BY <1>1 DEF Releasing
<1>3. Docked'
  BY <1>1, SameDocks DEF Upright, Docked
<1> QED BY <1>1, <1>2, <1>3, UprightNow, CleanUpright

\* A step that takes containers and networks away, or none.
LEMMA LessUpright ==
    ASSUME IInv, NEW p \in Procs, Upright(p), pc[p] \in Cleaning \cup {"rm_versions"},
           req[p].kind \in Builds \cup {"delete"},
           containers' \subseteq containers, networks' \subseteq networks,
           UNCHANGED <<store, clock, history>>,
           pc'[p] \in Cleaning \cup {"rm_versions", "clear", "rm_record"},
           pc'[p] \in Cleaning \cup {"rm_versions"} => pc[p] # "rm_images",
           pc'[p] \in Cleaning \/ req[p].kind = "delete",
           req'[p].kind = req[p].kind, req'[p].old = req[p].old,
           req'[p].cand = req[p].cand, req'[p].seen = req[p].seen
    PROVE  Upright(p)'
<1>1. Docked'
  <2>1. Fits(containers', store')
    BY Fewer DEF Upright, Docked
  <2> QED BY <2>1, SameDocks DEF Upright
<1>2. Standing(pc[p], req[p])
  BY DEF Upright
<1>3. pc'[p] \notin Building \cup {"start_backend", "start_frontend", "verify", "save", "restore",
                                   "record", "sync"}
  BY DEF Building, Cleaning
<1>4. CASE req[p].kind \in Builds
  <2>1. pc[p] \notin {"idle", "lock"}
    BY DEF Cleaning
  <2>2. Fits(containers', req[p].old) /\ Fits(containers', req[p].cand)
    BY <1>2, <1>4, <2>1, Fewer DEF Standing
  <2> QED BY <1>1, <1>3, <1>4, <2>2 DEF Upright, Standing, Builds
<1>5. CASE req[p].kind = "delete"
  <2>1. pc'[p] \in (Cleaning \ {"rm_images"}) \cup {"rm_versions"} => req[p].seen = history
    BY <1>2, <1>5 DEF Standing, Cleaning
  <2> QED BY <1>1, <1>3, <1>5, <2>1 DEF Upright, Standing, Builds
<1> QED BY <1>4, <1>5

LEMMA RemoveContainerUpright ==
    ASSUME IInv, NEW p \in Procs, Sound(p), Upright(p), RemoveFrontend(p) \/ RemoveBackend(p)
    PROVE  Upright(p)'
<1>1. PICK svc, step, next :
        /\ \/ svc = Frontend /\ step = "rm_frontend" /\ next = "rm_backend"
           \/ svc = Backend /\ step = "rm_backend" /\ next = "rm_network"
        /\ RemoveContainer(p, svc, step, next)
  BY DEF RemoveFrontend, RemoveBackend
<1>2. /\ pc[p] = step /\ UNCHANGED <<store, networks, clock, history>>
      /\ containers' \subseteq containers /\ (Go(p, next) \/ Failing(p, next))
  BY <1>1 DEF RemoveContainer
<1>3. /\ pc'[p] = next /\ req'[p].kind = req[p].kind /\ req'[p].old = req[p].old
      /\ req'[p].cand = req[p].cand /\ req'[p].seen = req[p].seen
  BY <1>2, Went, Fails DEF IInv
<1>4. pc[p] \in Cleaning /\ next \in Cleaning /\ pc[p] # "rm_images" /\ next # "rm_images"
  BY <1>1, <1>2 DEF Cleaning
<1>5. req[p].kind \in Builds \cup {"delete"}
  BY <1>4, CleaningNow DEF IInv
<1> QED BY <1>2, <1>3, <1>4, <1>5, LessUpright

LEMMA RemoveNetworkUpright ==
    ASSUME IInv, NEW p \in Procs, Sound(p), Upright(p), RemoveNetwork(p)
    PROVE  Upright(p)'
<1>1. /\ pc[p] = "rm_network" /\ UNCHANGED <<store, containers, clock, history>>
      /\ networks' \subseteq networks
      /\ Go(p, "rm_images") \/ (Go(p, "rm_versions") /\ req[p].kind = "delete") \/ Finish(p)
  BY DEF RemoveNetwork, AfterNetwork
<1>2. pc[p] \in Cleaning
  BY <1>1 DEF Cleaning
<1>3. req[p].kind \in Builds \cup {"delete"}
  BY <1>2, CleaningNow DEF IInv
<1>4. CASE Finish(p)
  <2>1. Docked'
    BY <1>1, SameDocks DEF Upright, Docked
  <2> QED BY <1>4, <2>1, ReturnUpright
<1>5. ASSUME NEW s \in {"rm_images", "rm_versions"}, Go(p, s),
             s = "rm_versions" => req[p].kind = "delete"
      PROVE  Upright(p)'
  <2>1. pc'[p] = s /\ req'[p] = req[p]
    BY <1>5, Went DEF IInv
  <2> QED BY <1>1, <1>2, <1>3, <1>5, <2>1, LessUpright DEF Cleaning
<1> QED BY <1>1, <1>4, <1>5

LEMMA RemoveImagesUpright ==
    ASSUME IInv, NEW p \in Procs, Sound(p), Upright(p), RemoveImages(p)
    PROVE  Upright(p)'
<1>1. /\ pc[p] = "rm_images" /\ UNCHANGED <<store, containers, networks, clock, history>>
      /\ (Go(p, "rm_record") /\ req[p].kind = "delete") \/ Finish(p)
  BY DEF RemoveImages
<1>2. Docked'
  BY <1>1, SameDocks DEF Upright, Docked
<1>3. CASE Go(p, "rm_record") /\ req[p].kind = "delete"
  <2>1. pc'[p] = "rm_record" /\ req'[p] = req[p]
    BY <1>3, Went DEF IInv
  <2> QED BY <1>2, <1>3, <2>1, Uncommitted
<1> QED BY <1>1, <1>2, <1>3, ReturnUpright

LEMMA ListUpright ==
    ASSUME IInv, NEW p \in Procs, Sound(p), Upright(p), ListVersions(p)
    PROVE  Upright(p)'
<1> DEFINE r == [req[p] EXCEPT !.seen = history, !.target = req[p].old]
<1>1. /\ pc[p] = "list" /\ UNCHANGED <<store, containers, networks, clock, history>>
      /\ Become(p, "rm_frontend", r) \/ Finish(p)
  BY DEF ListVersions, docker
<1>2. Docked'
  BY <1>1, SameDocks DEF Upright, Docked
<1>3. req[p].kind = "delete" /\ req[p] \in Request
  BY <1>1, DeletingNow DEF Deleting, IInv
<1>4. CASE Become(p, "rm_frontend", r)
  <2>1. pc'[p] = "rm_frontend" /\ req'[p] = r
    BY <1>4, Became DEF IInv
  <2>2. r.kind = "delete" /\ r.seen = history
    BY <1>3 DEF Request
  <2> HIDE DEF r
  <2> QED BY <1>1, <1>2, <2>1, <2>2 DEF Upright, Standing, Builds, Building
<1> QED BY <1>1, <1>2, <1>4, ReturnUpright

LEMMA DeletionUpright ==
    ASSUME IInv, NEW p \in Procs, Sound(p), Upright(p),
           RemoveVersions(p) \/ ClearHistory(p) \/ DeleteRecord(p)
    PROVE  Upright(p)'
<1>1. /\ pc[p] \in {"rm_versions", "clear", "rm_record"}
      /\ UNCHANGED <<containers, networks, clock>> /\ store' \in {store, None}
      /\ \/ \E s \in {"clear", "rm_images", "sync"} : Go(p, s)
         \/ Finish(p)
  BY DEF RemoveVersions, ClearHistory, DeleteRecord, docker
<1>2. Docked'
  <2>1. Fits(containers, None)
    BY DEF Fits
  <2> QED BY <1>1, <2>1, SameDocks DEF Upright, Docked
<1>3. req[p].kind = "delete"
  BY <1>1, DeletingNow DEF Deleting, IInv
<1>4. ASSUME NEW s \in {"clear", "rm_images", "sync"}, Go(p, s)
      PROVE  Upright(p)'
  <2>1. pc'[p] = s /\ req'[p] = req[p]
    BY <1>4, Went DEF IInv
  <2> QED BY <1>2, <1>3, <2>1, Uncommitted
<1> QED BY <1>1, <1>2, <1>4, ReturnUpright

\* docker restart replaces a container by itself, up or down.
LEMMA RestartedAre ==
    ASSUME IInv, NEW p \in Procs, RestartBackend(p) \/ RestartFrontend(p)
    PROVE  \/ UNCHANGED containers
           \/ \E C \in SUBSET containers, up \in BOOLEAN :
                containers' = (containers \ C) \cup {[d EXCEPT !.up = up] : d \in C}
<1>1. PICK svc : \/ UNCHANGED containers
                 \/ \E up \in BOOLEAN : containers' = (containers \ Of(req[p].old.rel, svc))
                        \cup {[d EXCEPT !.up = up] : d \in Of(req[p].old.rel, svc)}
  BY DEF RestartBackend, RestartFrontend, Restart
<1>2. PICK C : C = Of(req[p].old.rel, svc)
  OBVIOUS
<1>3. C \in SUBSET containers
  BY <1>2 DEF Of
<1>4. \/ UNCHANGED containers
      \/ \E up \in BOOLEAN : containers' = (containers \ C) \cup {[d EXCEPT !.up = up] : d \in C}
  BY <1>1, <1>2
<1> QED BY <1>3, <1>4

\* The same names, releases and images, each of one container before and after.
LEMMA Restarting ==
    ASSUME DataOK, NEW C \in SUBSET containers, NEW up \in BOOLEAN,
           containers' = (containers \ C) \cup {[d EXCEPT !.up = up] : d \in C}
    PROVE  /\ \A c \in containers' : \E d \in containers :
                /\ c.rel = d.rel /\ c.img = d.img /\ c.svc = d.svc
                /\ c = IF d \in C THEN [d EXCEPT !.up = up] ELSE d
           /\ \A d \in containers : \E c \in containers' :
                c.rel = d.rel /\ c.img = d.img /\ c.svc = d.svc
<1>1. \A d \in containers : LET c == [d EXCEPT !.up = up] IN
        c.rel = d.rel /\ c.img = d.img /\ c.svc = d.svc
  BY DEF DataOK, Container
<1> QED BY <1>1

LEMMA RestartsUpright ==
    ASSUME IInv, NEW p \in Procs, Sound(p), Upright(p), RestartBackend(p) \/ RestartFrontend(p)
    PROVE  Upright(p)'
<1>1. /\ pc[p] \in {"restart_backend", "restart_frontend"}
      /\ UNCHANGED <<store, networks, history, clock>>
      /\ Go(p, "restart_frontend") \/ Finish(p)
  BY DEF RestartBackend, RestartFrontend, Restart
<1>2. req[p].kind = "restart"
  BY <1>1, LocalNow DEF Local, IInv
<1>3. Docked'
  <2>1. CASE UNCHANGED containers
    BY <1>1, <2>1, SameDocks DEF Upright, Docked
  <2>2. ASSUME NEW C \in SUBSET containers, NEW up \in BOOLEAN,
               containers' = (containers \ C) \cup {[d EXCEPT !.up = up] : d \in C}
        PROVE  Docked'
    <3>1. \A c \in containers' : \E d \in containers :
            /\ c.rel = d.rel /\ c.img = d.img /\ c.svc = d.svc
            /\ c = IF d \in C THEN [d EXCEPT !.up = up] ELSE d
      BY <2>2, Restarting DEF IInv
    <3>2. \A c, d \in containers' : c.rel = d.rel /\ c.svc = d.svc => c = d
      <4> TAKE c, d \in containers'
      <4>1. PICK x \in containers : c.rel = x.rel /\ c.svc = x.svc
                /\ c = IF x \in C THEN [x EXCEPT !.up = up] ELSE x
        BY <3>1
      <4>2. PICK y \in containers : d.rel = y.rel /\ d.svc = y.svc
                /\ d = IF y \in C THEN [y EXCEPT !.up = up] ELSE y
        BY <3>1
      <4> QED BY <4>1, <4>2 DEF Upright, Docked
    <3> QED BY <1>1, <3>1, <3>2 DEF Upright, Docked, Fits
  <2> QED BY <2>1, <2>2, RestartedAre
<1>4. CASE Go(p, "restart_frontend")
  <2>1. pc'[p] = "restart_frontend" /\ req'[p] = req[p]
    BY <1>4, Went DEF IInv
  <2> QED BY <1>2, <1>3, <2>1, Uncommitted
<1> QED BY <1>1, <1>3, <1>4, ReturnUpright

LEMMA WorkUpright ==
    ASSUME IInv, NEW p \in Procs, Sound(p), Upright(p), Work(p)
    PROVE  Upright(p)'
<1>1. CASE Refused(p)
  <2>1. Docked'
    BY <1>1, SameDocks DEF Refused, docker, Upright, Docked
  <2> QED BY <1>1, <2>1, ReturnUpright DEF Refused
<1>2. CASE Release(p)
  BY <1>1, <1>2, LockUpright, BuildUpright, NetworkUpright, StartUpright, VerifyUpright,
     SaveUpright, RestoreUpright, RecordUpright DEF Release
<1>3. CASE Cleanup(p)
  BY <1>3, RemoveContainerUpright, RemoveNetworkUpright, RemoveImagesUpright DEF Cleanup
<1>4. CASE Other(p)
  BY <1>4, ListUpright, DeletionUpright, RestartsUpright DEF Other
<1> QED BY <1>2, <1>3, <1>4, BeginUpright DEF Work

StandInv == Docked /\ \A p \in Procs : Standing(pc[p], req[p])

\* With nobody at work there is nothing to say of a request.
LEMMA RestUpright ==
    ASSUME Docked', \A p \in Procs : pc'[p] = "idle" /\ req'[p] = NoRequest
    PROVE  StandInv'
<1>1. NoRequest.kind = "none"
  BY DEF NoRequest
<1>2. \A p \in Procs : Standing(pc[p], req[p])'
  BY <1>1 DEF Standing, Builds, Building, Cleaning
<1> QED BY <1>2 DEF StandInv

LEMMA StandStart ==
    ASSUME Init, IInv
    PROVE  StandInv
<1>1. \A p \in Procs : pc[p] = "idle" /\ req[p] = NoRequest
  BY ConstantsAssumption DEF Init, Threads
<1>2. NoRequest.kind = "none"
  BY DEF NoRequest
<1>3. \A p \in Procs : Standing(pc[p], req[p])
  BY <1>1, <1>2 DEF Standing, Builds, Building, Cleaning
<1>4. CASE store = None
  <2>1. containers = {} /\ networks = {}
    BY <1>4 DEF Init
  <2> QED BY <1>3, <2>1 DEF StandInv, Docked, Fits
<1>5. CASE store # None
  <2>1. store.rel = 0 /\ store.img = 0 /\ clock = 0
    BY <1>5 DEF Init
  <2>2. \A c \in containers : c \in Container /\ c.rel = 0 /\ c.img = 0 /\ c.up = TRUE
    BY <1>5, <2>1 DEF Init, Pair, IInv, DataOK
  <2>3. \A n \in networks : n = 0
    BY <2>2 DEF Init
  <2>4. \A c, d \in containers : c.rel = d.rel /\ c.svc = d.svc => c = d
    BY <2>2 DEF Container
  <2> QED BY <1>3, <2>1, <2>2, <2>3, <2>4 DEF StandInv, Docked, Fits
<1> QED BY <1>4, <1>5

\* main() synchronizes, or the service dies: everybody is at rest.
LEMMA BootUpright ==
    ASSUME IInv, PairInv, StandInv, Sync(Main) \/ Crash
    PROVE  StandInv'
<1> USE DEF IInv
<1>1. CASE Sync(Main)
  <2>1. pc[Main] = "sync" /\ req[Main].kind = "boot"
    BY <1>1 DEF Sync, ControlOK
  <2>2. Finish(Main)
    BY <1>1, <2>1 DEF Sync, AfterSync
  <2>3. \A p \in Procs : pc'[p] = "idle" /\ req'[p] = NoRequest
    <3>1. \A p \in Procs : pc[p] = "idle" /\ req[p] = NoRequest /\ p # Main
      BY <2>1, ConstantsAssumption DEF PairInv, Booting
    <3> QED BY <2>2, <3>1 DEF Finish, Goto, ControlOK, Threads
  <2>4. Docked'
    BY <1>1, SameDocks DEF Sync, docker, StandInv, Docked
  <2> QED BY <2>3, <2>4, RestUpright
<1>2. CASE Crash
  <2>1. \A p \in Procs : pc'[p] = "idle" /\ req'[p] = NoRequest
    BY <1>2, ConstantsAssumption DEF Crash, Threads
  <2>2. Docked'
    BY <1>2, SameDocks DEF Crash, docker, StandInv, Docked
  <2> QED BY <2>1, <2>2, RestUpright
<1> QED BY <1>1, <1>2

LEMMA StandNext ==
    ASSUME Serial, IInv, PairInv, StandInv, [Next]_vars
    PROVE  StandInv'
<1>1. ASSUME NEW p \in Procs, Work(p) \/ Sync(p) PROVE StandInv'
  <2>1. Sound(p) /\ Upright(p)
    BY Alone DEF StandInv, Upright
  <2>2. Upright(p)'
    BY <1>1, <2>1, WorkUpright, SyncUpright
  <2>3. \A q \in Procs : q = p
    BY DEF Serial
  <2> QED BY <2>2, <2>3 DEF StandInv, Upright
<1>2. ASSUME NEW t \in Threads, Sync(t) PROVE StandInv'
  BY <1>1, <1>2, BootUpright DEF Threads
<1>3. CASE UNCHANGED vars
  <2>1. UNCHANGED <<store, clock, history, containers, networks, pc, req>>
    BY <1>3 DEF vars, docker
  <2> QED BY <2>1 DEF StandInv, Docked, Standing, Gone, Stands, Fits
<1> QED BY <1>1, <1>2, <1>3, BootUpright DEF Next, Work

-----------------------------------------------------------------------------
(***************************************************************************)
(* What failures and crashes leave behind.  The ledger: L has the releases *)
(* and images, by their numbers, that a failure or a crash has been        *)
(* charged for, M the containers.  A request holds the number of the pair  *)
(* that it builds or removes; what is neither recorded, retained nor held  *)
(* is in the ledger, which is never longer than the failures and crashes.  *)
(***************************************************************************)
\* The number of what a request is about to switch to or to take away.
Holds(n, s, r) ==
    /\ r.kind \in Builds
    /\ \/ s \in Preparing /\ n = r.cand.rel
       \/ s \in Promoting /\ r.restoring /\ n = r.cand.rel
       \/ s \in Promoting /\ ~r.restoring /\ r.kind # "deploy" /\ n = r.old.rel
       \/ s \in Cleaning /\ n = r.target.rel

HoldsImage(n, s, r) ==
    \/ /\ r.kind \in {"deploy", "redeploy"}
       /\ \/ s \in Preparing
          \/ s \in Promoting /\ r.restoring
          \/ s \in Cleaning /\ r.target = r.cand
       /\ n = r.cand.img
    \/ r.kind = "delete" /\ s \in Cleaning \cup {"rm_versions", "clear"} /\ n = r.old.img

Recorded(n) == store # None /\ store.rel = n
Retains(n)  == \E v \in history : v.img = n
Exists(n)   == n \in networks \/ \E c \in containers : c.rel = n

\* Whatever nothing names is charged to a failure or held by the request.
Covered(L, M, s, r) ==
    /\ \A n : Exists(n) => Recorded(n) \/ n \in L \/ Holds(n, s, r)
    /\ \A i \in images : InUse(i) \/ Retains(i.img) \/ i.img \in L \/ HoldsImage(i.img, s, r)
    /\ \A c \in containers :
         Recorded(c.rel) \/ <<c.rel, c.svc>> \in M \/ Holds(c.rel, s, r)

\* What the removal has passed by is charged.
Swept(L, M, s, r) ==
    /\ r.kind \in Builds /\ s \in {"rm_backend", "rm_network", "rm_images"} =>
         \A c \in containers : c.rel = r.target.rel =>
             \/ s = "rm_backend" /\ c.svc = Backend
             \/ <<c.rel, c.svc>> \in M
    /\ r.kind \in Builds /\ s = "rm_images" /\ r.target.rel \in networks => r.target.rel \in L
    /\ r.kind \in Builds /\ s \in Cleaning /\ r.target # r.cand =>
         Retains(r.old.img) \/ r.old.img \in L
    /\ r.kind = "delete" /\ s \in {"list", "rm_frontend", "rm_backend", "rm_network"} /\ r.failed =>
         r.old.img \in L
    /\ r.kind = "delete" /\ s = "clear" =>
         \A i \in images : InUse(i) \/ i.img \in L \/ i.img = r.old.img

\* A switch that failed has paid for what its undoing may leave.
Spare(s) == IF s = "restore" THEN 1 ELSE 0

Balanced(L, M, s) ==
    /\ IsFiniteSet(L) /\ IsFiniteSet(M)
    /\ \A m \in M : m[1] \in L
    /\ Cardinality(L) + Spare(s) <= faults + crashes
    /\ crashes = 0 => Cardinality(M) + Spare(s) <= faults

Booked(L, M, p) ==
    Balanced(L, M, pc[p]) /\ Covered(L, M, pc[p], req[p]) /\ Swept(L, M, pc[p], req[p])

Ledger(p) == \E L, M : Booked(L, M, p)

LEMMA Joined ==
    ASSUME NEW S, NEW T, IsFiniteSet(S), IsFiniteSet(T)
    PROVE  IsFiniteSet(S \cup T) /\ Cardinality(S \cup T) <= Cardinality(S) + Cardinality(T)
<1>1. IsFiniteSet(S \cap T) /\ Cardinality(S \cap T) \in Nat
  BY FS_Intersection, FS_CardinalityType
<1>2. /\ IsFiniteSet(S \cup T)
      /\ Cardinality(S \cup T) = Cardinality(S) + Cardinality(T) - Cardinality(S \cap T)
  BY FS_Union
<1>3. Cardinality(S) \in Nat /\ Cardinality(T) \in Nat
  BY FS_CardinalityType
<1> QED BY <1>1, <1>2, <1>3

LEMMA Paying ==
    ASSUME IInv, NEW p \in Procs, NEW L, NEW M, Balanced(L, M, pc[p]), NEW k \in Nat,
           faults' = faults + k, crashes' = crashes,
           NEW N, IsFiniteSet(N), Cardinality(N) + Spare(pc'[p]) <= k + Spare(pc[p]),
           NEW X, IsFiniteSet(X), Cardinality(X) + Spare(pc'[p]) <= k + Spare(pc[p]),
           \A m \in X : m[1] \in N
    PROVE  Balanced(L \cup N, M \cup X, pc[p])'
<1>1. IsFiniteSet(L \cup N) /\ Cardinality(L \cup N) <= Cardinality(L) + Cardinality(N)
  BY Joined DEF Balanced
<1>2. IsFiniteSet(M \cup X) /\ Cardinality(M \cup X) <= Cardinality(M) + Cardinality(X)
  BY Joined DEF Balanced
<1>3. /\ Cardinality(L) \in Nat /\ Cardinality(N) \in Nat
      /\ Cardinality(M) \in Nat /\ Cardinality(X) \in Nat
      /\ Cardinality(L \cup N) \in Nat /\ Cardinality(M \cup X) \in Nat
  BY <1>1, <1>2, FS_CardinalityType DEF Balanced
<1>4. faults \in Nat /\ crashes \in Nat /\ Spare(pc[p]) \in Nat /\ Spare(pc'[p]) \in Nat
  BY DEF IInv, DataOK, Spare
<1>5. Cardinality(L \cup N) + Spare(pc'[p]) <= faults' + crashes'
  BY <1>1, <1>3, <1>4 DEF Balanced
<1>6. crashes' = 0 => Cardinality(M \cup X) + Spare(pc'[p]) <= faults'
  BY <1>2, <1>3, <1>4 DEF Balanced
<1>7. \A m \in M \cup X : m[1] \in L \cup N
  BY DEF Balanced
<1> QED BY <1>1, <1>2, <1>5, <1>6, <1>7 DEF Balanced, Spare

\* Nothing is charged: no failure, or one that leaves nothing behind.
LEMMA Unpaid ==
    ASSUME IInv, NEW p \in Procs, NEW L, NEW M, Balanced(L, M, pc[p]), Fault \/ NoFault,
           pc'[p] # "restore"
    PROVE  Balanced(L, M, pc[p])'
<1>1. PICK k \in {0, 1} : faults' = faults + k /\ crashes' = crashes
  BY DEF Fault, NoFault, bounds, IInv, DataOK
<1>2. PICK E : E = {}
  OBVIOUS
<1>7. Cardinality(E) = 0 /\ IsFiniteSet(E) /\ \A m \in E : m[1] \in E
  BY <1>2, FS_EmptySet
<1>3. Spare(pc'[p]) = 0 /\ Spare(pc[p]) \in Nat
  BY DEF Spare
<1>4. Cardinality(E) + Spare(pc'[p]) <= k + Spare(pc[p]) /\ k \in Nat
  BY <1>3, <1>7
<1>5. Balanced(L \cup E, M \cup E, pc[p])'
  BY <1>1, <1>4, <1>7, Paying
<1>6. L \cup E = L /\ M \cup E = M
  BY <1>2
<1> QED BY <1>5, <1>6

\* A failure pays for one number and one container of that release.
LEMMA Charged ==
    ASSUME IInv, NEW p \in Procs, NEW L, NEW M, Balanced(L, M, pc[p]), Fault,
           pc'[p] # "restore", NEW n, NEW X, X = {} \/ \E m : X = {m} /\ m[1] = n
    PROVE  Balanced(L \cup {n}, M \cup X, pc[p])'
<1>1. faults' = faults + 1 /\ crashes' = crashes
  BY DEF Fault
<1>2. Cardinality({n}) = 1 /\ IsFiniteSet({n})
  BY FS_Singleton
<1>3. IsFiniteSet(X) /\ Cardinality(X) \in {0, 1} /\ \A m \in X : m[1] \in {n}
  BY FS_EmptySet, FS_Singleton
<1>4. Spare(pc'[p]) = 0 /\ Spare(pc[p]) \in Nat
  BY DEF Spare
<1>5. /\ Cardinality({n}) + Spare(pc'[p]) <= 1 + Spare(pc[p])
      /\ Cardinality(X) + Spare(pc'[p]) <= 1 + Spare(pc[p])
  BY <1>2, <1>3, <1>4
<1> QED BY <1>1, <1>2, <1>3, <1>5, Paying

\* A step after which every container there was is still there.
LEMMA Passed ==
    ASSUME NEW p \in Procs, NEW L, NEW M, Booked(L, M, p),
           NEW L2, NEW M2, L \subseteq L2, M \subseteq M2,
           Balanced(L2, M2, pc[p])', Swept(L2, M2, pc[p], req[p])',
           containers \subseteq containers',
           \A c \in containers' \ containers : Holds(c.rel, pc[p], req[p])',
           \A n \in networks' \ networks : Holds(n, pc[p], req[p])',
           \A i \in images' \ images : i.img \in L2 \/ HoldsImage(i.img, pc[p], req[p])',
           \A n : (Recorded(n) \/ Holds(n, pc[p], req[p])) /\ Exists(n)' =>
               \/ Recorded(n)' \/ Holds(n, pc[p], req[p])'
               \/ n \in L2 /\ \A c \in containers' : c.rel = n => <<n, c.svc>> \in M2,
           \A i \in images \cap images' : Retains(i.img) \/ HoldsImage(i.img, pc[p], req[p]) =>
               \/ InUse(i) \/ Retains(i.img)'
               \/ HoldsImage(i.img, pc[p], req[p])' \/ i.img \in L2
    PROVE  Ledger(p)'
<1>1. ASSUME NEW n, Exists(n)'
      PROVE  Recorded(n)' \/ n \in L2 \/ Holds(n, pc[p], req[p])'
  <2>1. CASE Exists(n)
    BY <1>1, <2>1 DEF Covered, Booked
  <2>2. CASE ~Exists(n)
    BY <1>1, <2>2 DEF Exists
  <2> QED BY <2>1, <2>2
<1>2. ASSUME NEW i \in images'
      PROVE  \/ InUse(i)' \/ Retains(i.img)' \/ i.img \in L2
             \/ HoldsImage(i.img, pc[p], req[p])'
  <2>1. InUse(i) => InUse(i)'
    BY DEF InUse
  <2> QED BY <2>1 DEF Covered, Booked
<1>3. ASSUME NEW c \in containers'
      PROVE  \/ Recorded(c.rel)' \/ <<c.rel, c.svc>> \in M2
             \/ Holds(c.rel, pc[p], req[p])'
  <2>1. Exists(c.rel)'
    BY DEF Exists
  <2> QED BY <2>1 DEF Covered, Booked
<1>4. Covered(L2, M2, pc[p], req[p])'
  BY <1>1, <1>2, <1>3 DEF Covered
<1> QED BY <1>4 DEF Ledger, Booked

\* A step of a request after which it holds what it held.
LEMMA Undisturbed ==
    ASSUME NEW p \in Procs, NEW L, NEW M, Booked(L, M, p),
           Balanced(L, M, pc[p])', Swept(L, M, pc[p], req[p])',
           UNCHANGED <<store, history, containers, networks, images>>,
           \A n : Holds(n, pc[p], req[p]) => Holds(n, pc[p], req[p])',
           \A n : HoldsImage(n, pc[p], req[p]) => HoldsImage(n, pc[p], req[p])'
    PROVE  Ledger(p)'
<1>1. \A n : (Recorded(n) => Recorded(n)') /\ (Retains(n) => Retains(n)')
  BY DEF Recorded, Retains
<1> QED BY <1>1, Passed

\* A request returns that holds nothing.
LEMMA ReturnLedger ==
    ASSUME IInv, NEW p \in Procs, NEW L, NEW M, Booked(L, M, p), Fault \/ NoFault, Finish(p),
           UNCHANGED <<store, history, containers, networks, images>>,
           \A n : ~Holds(n, pc[p], req[p]) /\ ~HoldsImage(n, pc[p], req[p])
    PROVE  Ledger(p)'
<1>1. pc'[p] = "idle" /\ req'[p] = NoRequest
  BY Returned DEF IInv
<1>2. req'[p].kind = "none"
  BY <1>1 DEF NoRequest
<1>3. Swept(L, M, pc[p], req[p])'
  BY <1>1, <1>2 DEF Swept, Builds
<1>4. Balanced(L, M, pc[p])'
  BY <1>1, Unpaid DEF Booked
<1> QED BY <1>3, <1>4, Undisturbed

LEMMA BeginLedger ==
    ASSUME IInv, NEW p \in Procs, Ledger(p), Arrival(p) \/ Refused(p)
    PROVE  Ledger(p)'
<1>1. PICK L, M : Booked(L, M, p)
  BY DEF Ledger
<1>2. \A n : ~Holds(n, pc[p], req[p]) /\ ~HoldsImage(n, pc[p], req[p])
  <2>1. pc[p] \in {"idle", "lock"}
    BY DEF Arrival, deployHandler, redeployHandler, rollbackDeploymentHandler,
           restartDeploymentHandler, deleteDeploymentHandler, Begin, Refused
  <2> QED BY <2>1 DEF Holds, HoldsImage, Preparing, Promoting, Cleaning
<1>3. CASE Refused(p)
  BY <1>1, <1>2, <1>3, ReturnLedger DEF Refused, docker, NoFault
<1>4. CASE Arrival(p)
  <2>1. PICK kind, first : Begin(p, kind, first) /\ first \in {"lock", "restart_backend", "list"}
    BY <1>4 DEF Arrival, deployHandler, redeployHandler, rollbackDeploymentHandler,
                restartDeploymentHandler, deleteDeploymentHandler
  <2>2. UNCHANGED <<store, history, containers, networks, images, bounds>>
    BY <2>1 DEF Begin, docker
  <2>3. pc'[p] = first /\ req'[p] = [NoRequest EXCEPT !.kind = kind, !.old = store]
    BY <2>1, Became DEF Begin, IInv
  <2>4. ~req'[p].failed
    BY <2>3 DEF NoRequest
  <2>5. Swept(L, M, pc[p], req[p])'
    BY <2>1, <2>3, <2>4 DEF Swept, Cleaning
  <2>6. Balanced(L, M, pc[p])'
    BY <1>1, <2>1, <2>2, <2>3, Unpaid DEF NoFault, Booked
  <2> QED BY <1>1, <1>2, <2>2, <2>5, <2>6, Undisturbed
<1> QED BY <1>3, <1>4

LEMMA LockLedger ==
    ASSUME IInv, NEW p \in Procs, Ledger(p), LockBuild(p) \/ LockRollback(p)
    PROVE  Ledger(p)'
<1>1. PICK L, M : Booked(L, M, p)
  BY DEF Ledger
<1>2. PICK first \in {"build_frontend", "network"} :
        pc[p] = "lock" /\ Goto(p, first) /\ UNCHANGED <<store, history, docker, bounds>>
  BY DEF LockBuild, LockRollback, Accepted
<1>3. \A n : ~Holds(n, pc[p], req[p]) /\ ~HoldsImage(n, pc[p], req[p])
  BY <1>2 DEF Holds, HoldsImage, Preparing, Promoting, Cleaning
<1>4. pc'[p] = first
  BY <1>2 DEF Goto, IInv, ControlOK, Threads
<1>5. Swept(L, M, pc[p], req[p])'
  BY <1>2, <1>4 DEF Swept, Cleaning
<1>6. Balanced(L, M, pc[p])'
  BY <1>1, <1>2, <1>4, Unpaid DEF NoFault, Booked
<1> QED BY <1>1, <1>2, <1>3, <1>5, <1>6, Undisturbed DEF docker

\* What a request holds that has not saved its candidate.
LEMMA HeldPreparing ==
    ASSUME NEW s \in Preparing, NEW r, r.kind \in Builds
    PROVE  /\ \A n : Holds(n, s, r) <=> n = r.cand.rel
           /\ \A n : HoldsImage(n, s, r) <=> n = r.cand.img /\ r.kind # "rollback"
<1>1. s \notin Promoting /\ s \notin Cleaning
  BY DEF Preparing, Promoting, Cleaning
<1>2. r.kind # "delete" /\ (r.kind \in {"deploy", "redeploy"} <=> r.kind # "rollback")
  BY DEF Builds
<1> QED BY <1>1, <1>2 DEF Holds, HoldsImage

\* The same number while the candidate is cleaned up.
LEMMA HeldCleaning ==
    ASSUME NEW s \in Cleaning, NEW r, r.kind \in Builds
    PROVE  /\ \A n : Holds(n, s, r) <=> n = r.target.rel
           /\ \A n : HoldsImage(n, s, r) <=>
                n = r.cand.img /\ r.kind # "rollback" /\ r.target = r.cand
<1>1. s \notin Promoting /\ s \notin Preparing
  BY DEF Preparing, Promoting, Cleaning
<1>2. r.kind # "delete" /\ (r.kind \in {"deploy", "redeploy"} <=> r.kind # "rollback")
  BY DEF Builds
<1> QED BY <1>1, <1>2 DEF Holds, HoldsImage

\* A candidate that is cleaned up instead of going on is still held.
LEMMA CleanLedger ==
    ASSUME IInv, NEW p \in Procs, req[p].kind \in Builds, Clean(p, req[p].cand)
    PROVE  /\ pc'[p] = "rm_frontend"
           /\ \A n : Holds(n, pc[p], req[p])' <=> n = req[p].cand.rel
           /\ \A n : HoldsImage(n, pc[p], req[p])' <=>
                n = req[p].cand.img /\ req[p].kind # "rollback"
           /\ \A L, M : Swept(L, M, pc[p], req[p])'
<1>1. /\ pc'[p] = "rm_frontend"
      /\ req'[p].kind = req[p].kind /\ req'[p].old = req[p].old
      /\ req'[p].cand = req[p].cand /\ req'[p].target = req[p].cand
  BY Cleans DEF IInv
<1>2. /\ \A n : Holds(n, pc'[p], req'[p]) <=> n = req'[p].target.rel
      /\ \A n : HoldsImage(n, pc'[p], req'[p]) <=>
           n = req'[p].cand.img /\ req'[p].kind # "rollback" /\ req'[p].target = req'[p].cand
  <2>1. pc'[p] \in Cleaning /\ req'[p].kind \in Builds
    BY <1>1 DEF Cleaning
  <2> QED BY <2>1, HeldCleaning
<1>3. \A L, M : Swept(L, M, pc[p], req[p])'
  BY <1>1 DEF Swept, Builds, Cleaning
<1> QED BY <1>1, <1>2, <1>3 DEF Holds, HoldsImage

\* So is one that goes on.
LEMMA GoLedger ==
    ASSUME IInv, NEW p \in Procs, req[p].kind \in Builds, NEW next \in Preparing, Go(p, next)
    PROVE  /\ pc'[p] = next
           /\ \A n : Holds(n, pc[p], req[p])' <=> n = req[p].cand.rel
           /\ \A n : HoldsImage(n, pc[p], req[p])' <=>
                n = req[p].cand.img /\ req[p].kind # "rollback"
           /\ \A L, M : Swept(L, M, pc[p], req[p])'
<1>1. pc'[p] = next /\ req'[p] = req[p]
  BY Went DEF IInv
<1>2. /\ \A n : Holds(n, pc'[p], req'[p]) <=> n = req'[p].cand.rel
      /\ \A n : HoldsImage(n, pc'[p], req'[p]) <=> n = req'[p].cand.img /\ req'[p].kind # "rollback"
  BY <1>1, HeldPreparing
<1>3. \A L, M : Swept(L, M, pc[p], req[p])'
  BY <1>1 DEF Swept, Preparing, Cleaning
<1> QED BY <1>1, <1>2, <1>3 DEF Holds, HoldsImage

LEMMA BuildLedger ==
    ASSUME IInv, NEW p \in Procs, Sound(p), Upright(p), Ledger(p),
           BuildFrontend(p) \/ BuildBackend(p)
    PROVE  Ledger(p)'
<1> USE DEF IInv
<1>1. PICK L, M : Booked(L, M, p)
  BY DEF Ledger
<1>2. PICK svc, step, next :
        /\ \/ svc = Frontend /\ step = "build_frontend" /\ next = "build_backend"
           \/ svc = Backend /\ step = "build_backend" /\ next = "network"
        /\ Build(p, svc, step, next)
  BY DEF BuildFrontend, BuildBackend
<1>3. /\ pc[p] = step /\ UNCHANGED <<store, history, containers, networks>>
      /\ pc[p] \in Building /\ pc[p] \in Preparing /\ next \in Preparing
      /\ pc[p] \in Releasing \ {"lock"}
  BY <1>2 DEF Build, Building, Preparing, Releasing
<1>4. /\ req[p] \in Request /\ req[p].kind \in Builds /\ req[p].kind # "rollback"
      /\ req[p].cand \in Record
  <2>1. Switch(pc[p], req[p]) /\ req[p] \in Request /\ req[p].kind \in Builds
          /\ req[p].cand \in Record
    BY <1>3, UprightNow
  <2> QED BY <1>2, <1>3, <2>1 DEF Switch
<1>5. /\ \A n : Holds(n, pc[p], req[p]) <=> n = req[p].cand.rel
      /\ \A n : HoldsImage(n, pc[p], req[p]) <=> n = req[p].cand.img
  BY <1>3, <1>4, HeldPreparing
<1>6. ~Exists(req[p].cand.rel)
  <2>1. Standing(pc[p], req[p])
    BY DEF Upright
  <2>2. Gone(req[p].cand.rel, Backend) /\ Gone(req[p].cand.rel, Frontend)
          /\ req[p].cand.rel \notin networks
    BY <1>3, <2>1 DEF Standing
  <2>3. \A c \in containers : c.svc \in {Frontend, Backend}
    BY DEF DataOK, Container, Services
  <2> QED BY <2>2, <2>3 DEF Exists, Gone
<1>7. \A n : (Recorded(n) => Recorded(n)') /\ (Retains(n) => Retains(n)')
        /\ (Exists(n)' <=> Exists(n))
  BY <1>3 DEF Recorded, Retains, Exists
<1> DEFINE i == [img |-> req[p].cand.img, svc |-> svc]
<1>8. i.img = req[p].cand.img
  OBVIOUS
<1> HIDE DEF i
<1>9. CASE images' = images \cup {i} /\ Go(p, next) /\ NoFault
  <2>1. /\ pc'[p] = next
        /\ \A n : Holds(n, pc[p], req[p])' <=> n = req[p].cand.rel
        /\ \A n : HoldsImage(n, pc[p], req[p])' <=> n = req[p].cand.img
        /\ Swept(L, M, pc[p], req[p])'
    BY <1>3, <1>4, <1>9, GoLedger
  <2>2. Balanced(L, M, pc[p])'
    BY <1>1, <1>3, <1>9, <2>1, Unpaid DEF Booked, Preparing
  <2> QED BY <1>1, <1>3, <1>5, <1>7, <1>8, <1>9, <2>1, <2>2, Passed
<1>10. ASSUME Finish(p) PROVE pc'[p] = "idle" /\ \A K, N : Swept(K, N, pc[p], req[p])'
  <2>1. pc'[p] = "idle" /\ req'[p] = NoRequest
    BY <1>10, Returned
  <2>2. req'[p].kind = "none"
    BY <2>1 DEF NoRequest
  <2> QED BY <2>1, <2>2 DEF Swept, Builds
<1>11. \A j \in images : j.img = req[p].cand.img => j \in ImagePair(req[p].cand.img)
  BY DEF ImagePair, DataOK, Image
<1>12. CASE images' = images \ ImagePair(req[p].cand.img) /\ Finish(p) /\ NoFault
  <2>1. Balanced(L, M, pc[p])' /\ Swept(L, M, pc[p], req[p])'
    BY <1>1, <1>10, <1>12, Unpaid DEF Booked
  <2> QED BY <1>1, <1>3, <1>5, <1>6, <1>7, <1>11, <1>12, <2>1, Passed
<1>13. CASE /\ \E j \in ImagePair(req[p].cand.img) :
                 images' = (images \ ImagePair(req[p].cand.img)) \cup {j}
            /\ Finish(p) /\ Fault
  <2>1. PICK n : n = req[p].cand.img
    OBVIOUS
  <2>2. PICK X : X = {}
    OBVIOUS
  <2>3. Balanced(L \cup {n}, M \cup X, pc[p])'
    BY <1>1, <1>10, <1>13, <2>2, Charged DEF Booked
  <2>4. Swept(L \cup {n}, M \cup X, pc[p], req[p])'
    BY <1>10, <1>13
  <2>5. \A k \in images' : k \in images \/ k.img = n
    BY <1>13, <2>1 DEF ImagePair
  <2>6. L \subseteq L \cup {n} /\ M \subseteq M \cup X /\ n \in L \cup {n}
    OBVIOUS
  <2> QED BY <1>1, <1>3, <1>5, <1>6, <1>7, <2>1, <2>3, <2>4, <2>5, <2>6, Passed
<1> QED BY <1>2, <1>9, <1>12, <1>13 DEF Build, i

LEMMA NetworkLedger ==
    ASSUME IInv, NEW p \in Procs, Sound(p), Upright(p), Ledger(p),
           CreateNetwork(p) \/ Verify(p)
    PROVE  Ledger(p)'
<1> USE DEF IInv
<1>1. PICK L, M : Booked(L, M, p)
  BY DEF Ledger
<1>2. PICK next \in {"start_backend", "save"} :
      /\ pc[p] \in {"network", "verify"}
      /\ UNCHANGED <<store, history, containers, images, bounds>>
      /\ \/ /\ Go(p, next) /\ networks \subseteq networks'
            /\ networks' \subseteq networks \cup {req[p].cand.rel}
         \/ Clean(p, req[p].cand) /\ networks' = networks
  BY DEF CreateNetwork, Verify, docker
<1>3. pc[p] \in Preparing /\ next \in Preparing /\ pc[p] \in Releasing \ {"lock"}
  BY <1>2 DEF Preparing, Releasing
<1>4. req[p].kind \in Builds
  BY <1>3, UprightNow
<1>5. /\ \A n : Holds(n, pc[p], req[p]) <=> n = req[p].cand.rel
      /\ \A n : HoldsImage(n, pc[p], req[p]) <=> n = req[p].cand.img /\ req[p].kind # "rollback"
  BY <1>3, <1>4, HeldPreparing
<1>6. /\ \A n : Holds(n, pc[p], req[p])' <=> n = req[p].cand.rel
      /\ \A n : HoldsImage(n, pc[p], req[p])' <=> n = req[p].cand.img /\ req[p].kind # "rollback"
      /\ Swept(L, M, pc[p], req[p])' /\ pc'[p] # "restore"
  <2>1. CASE Go(p, next)
    BY <1>3, <1>4, <2>1, GoLedger DEF Preparing
  <2>2. CASE Clean(p, req[p].cand)
    BY <1>4, <2>2, CleanLedger
  <2> QED BY <1>2, <2>1, <2>2
<1>7. Balanced(L, M, pc[p])'
  BY <1>1, <1>2, <1>6, Unpaid DEF NoFault, Booked
<1>8. \A n : (Recorded(n) => Recorded(n)') /\ (Retains(n) => Retains(n)')
  BY <1>2 DEF Recorded, Retains
<1> QED BY <1>1, <1>2, <1>5, <1>6, <1>7, <1>8, Passed

LEMMA StartLedger ==
    ASSUME IInv, NEW p \in Procs, Sound(p), Upright(p), Ledger(p),
           StartBackend(p) \/ StartFrontend(p)
    PROVE  Ledger(p)'
<1> USE DEF IInv
<1>1. PICK L, M : Booked(L, M, p)
  BY DEF Ledger
<1>2. PICK svc, step, next :
        /\ \/ svc = Backend /\ step = "start_backend" /\ next = "start_frontend"
           \/ svc = Frontend /\ step = "start_frontend" /\ next = "verify"
        /\ Start(p, svc, step, next)
  BY DEF StartBackend, StartFrontend
<1> DEFINE up == [rel |-> req[p].cand.rel, img |-> req[p].cand.img, svc |-> svc, up |-> TRUE]
<1> DEFINE down == [up EXCEPT !.up = FALSE]
<1>3. /\ pc[p] = step /\ UNCHANGED <<store, history, networks, images, bounds>>
      /\ Go(p, next) \/ Clean(p, req[p].cand)
      /\ containers' \in {containers, containers \cup {up}, containers \cup {down}}
  BY <1>2 DEF Start
<1>4. /\ containers \subseteq containers'
      /\ \A c \in containers' \ containers : c.rel = req[p].cand.rel
  <2>1. up.rel = req[p].cand.rel /\ down.rel = req[p].cand.rel
    OBVIOUS
  <2> HIDE DEF up, down
  <2> QED BY <1>3, <2>1
<1>5. pc[p] \in Preparing /\ next \in Preparing /\ pc[p] \in Releasing \ {"lock"}
  BY <1>2, <1>3 DEF Preparing, Releasing
<1>6. req[p].kind \in Builds
  BY <1>5, UprightNow
<1>7. /\ \A n : Holds(n, pc[p], req[p]) <=> n = req[p].cand.rel
      /\ \A n : HoldsImage(n, pc[p], req[p]) <=> n = req[p].cand.img /\ req[p].kind # "rollback"
  BY <1>5, <1>6, HeldPreparing
<1>8. /\ \A n : Holds(n, pc[p], req[p])' <=> n = req[p].cand.rel
      /\ \A n : HoldsImage(n, pc[p], req[p])' <=> n = req[p].cand.img /\ req[p].kind # "rollback"
      /\ Swept(L, M, pc[p], req[p])' /\ pc'[p] # "restore"
  <2>1. CASE Go(p, next)
    BY <1>5, <1>6, <2>1, GoLedger DEF Preparing
  <2>2. CASE Clean(p, req[p].cand)
    BY <1>6, <2>2, CleanLedger
  <2> QED BY <1>3, <2>1, <2>2
<1>9. Balanced(L, M, pc[p])'
  BY <1>1, <1>3, <1>8, Unpaid DEF NoFault, Booked
<1>10. \A n : (Recorded(n) => Recorded(n)') /\ (Retains(n) => Retains(n)')
  BY <1>3 DEF Recorded, Retains
<1> HIDE DEF up, down
<1> QED BY <1>1, <1>3, <1>4, <1>7, <1>8, <1>9, <1>10, Passed

\* What a request holds that has saved its candidate, and where it can be.
LEMMA HeldPromoting ==
    ASSUME NEW s \in Promoting, NEW r, r.kind \in Builds
    PROVE  /\ \A n : Holds(n, s, r) <=> \/ r.restoring /\ n = r.cand.rel
                                        \/ ~r.restoring /\ r.kind # "deploy" /\ n = r.old.rel
           /\ \A n : HoldsImage(n, s, r) <=> r.restoring /\ n = r.cand.img /\ r.kind # "rollback"
<1>1. s \notin Preparing /\ s \notin Cleaning
  BY DEF Preparing, Promoting, Cleaning
<1>2. r.kind # "delete" /\ (r.kind \in {"deploy", "redeploy"} <=> r.kind # "rollback")
  BY DEF Builds
<1> QED BY <1>1, <1>2 DEF Holds, HoldsImage

\* A pair that stands uses its images.
LEMMA StandsUses ==
    ASSUME DataOK, NEW x, Stands(containers, x), NEW i \in images, i.img = x.img
    PROVE  InUse(i)
<1>1. i.svc \in Services
  BY DEF DataOK, Image
<1> QED BY <1>1 DEF Stands, InUse

LEMMA SaveLedger ==
    ASSUME IInv, NEW p \in Procs, Sound(p), Upright(p), Ledger(p), Save(p)
    PROVE  Ledger(p)'
<1> USE DEF IInv
<1>1. PICK L, M : Booked(L, M, p)
  BY DEF Ledger
<1>2. pc[p] = "save" /\ UNCHANGED <<history, containers, networks, images>>
  BY DEF Save, docker
<1>3. pc[p] \in Preparing /\ pc[p] \in Releasing \ {"lock"}
  BY <1>2 DEF Preparing, Releasing
<1>4. /\ req[p].kind \in Builds /\ req[p].cand \in Record /\ store = req[p].old
      /\ ~req[p].restoring /\ Standing(pc[p], req[p])
  BY <1>3, UprightNow DEF Switch
<1>5. /\ \A n : Holds(n, pc[p], req[p]) <=> n = req[p].cand.rel
      /\ \A n : HoldsImage(n, pc[p], req[p]) <=> n = req[p].cand.img /\ req[p].kind # "rollback"
  BY <1>3, <1>4, HeldPreparing
<1>6. \A n : Retains(n) => Retains(n)'
  BY <1>2 DEF Retains
<1>7. CASE store' = req[p].cand /\ Go(p, "sync") /\ NoFault
  <2>1. pc'[p] = "sync" /\ req'[p] = req[p]
    BY <1>7, Went
  <2>2. \A n : Holds(n, pc'[p], req'[p]) <=> req[p].kind # "deploy" /\ n = req[p].old.rel
    BY <1>4, <2>1, HeldPromoting DEF Promoting
  <2>3. Swept(L, M, pc[p], req[p])'
    BY <2>1 DEF Swept, Cleaning
  <2>4. Balanced(L, M, pc[p])'
    BY <1>1, <1>7, <2>1, Unpaid DEF Booked
  <2>5. \A n : Recorded(n)' <=> n = req[p].cand.rel
    BY <1>4, <1>7, NoneAssumption DEF Recorded
  <2>6. \A n : Recorded(n) => Holds(n, pc[p], req[p])'
    <3>1. store # None => req[p].kind # "deploy"
      BY <1>4, LocalNow DEF Local
    <3> QED BY <1>4, <2>2, <3>1 DEF Recorded, Holds
  <2>7. \A i \in images : i.img = req[p].cand.img => InUse(i)
    BY <1>2, <1>4, StandsUses DEF Standing
  <2> QED BY <1>1, <1>2, <1>5, <1>6, <2>3, <2>4, <2>5, <2>6, <2>7, Passed
<1>8. CASE Fault /\ Clean(p, req[p].cand) /\ UNCHANGED store
  <2>1. /\ \A n : Holds(n, pc[p], req[p])' <=> n = req[p].cand.rel
        /\ \A n : HoldsImage(n, pc[p], req[p])' <=> n = req[p].cand.img /\ req[p].kind # "rollback"
        /\ Swept(L, M, pc[p], req[p])' /\ pc'[p] # "restore"
    BY <1>4, <1>8, CleanLedger
  <2>2. Balanced(L, M, pc[p])'
    BY <1>1, <1>8, <2>1, Unpaid DEF Booked
  <2> QED BY <1>1, <1>2, <1>5, <1>8, <2>1, <2>2, Undisturbed
<1> QED BY <1>7, <1>8 DEF Save

LEMMA SyncLedger ==
    ASSUME IInv, NEW p \in Procs, Sound(p), Upright(p), Ledger(p), Sync(p)
    PROVE  Ledger(p)'
<1> USE DEF IInv
<1>1. PICK L, M : Booked(L, M, p)
  BY DEF Ledger
<1>0. pc[p] = "sync" /\ UNCHANGED <<store, history, containers, networks, images>>
  BY DEF Sync, docker
<1>6. \/ AfterSync(p, TRUE) /\ NoFault
      \/ AfterSync(p, FALSE) /\ Fault
  BY DEF Sync
<1>2. PICK ok \in BOOLEAN :
        /\ pc[p] = "sync" /\ UNCHANGED <<store, history, containers, networks, images>>
        /\ AfterSync(p, ok) /\ (ok => NoFault) /\ (~ok => Fault)
  BY <1>0, <1>6
<1>3. req[p] \in Request /\ Local("sync", req[p])
  BY <1>2, LocalNow
<1>4. CASE req[p].kind = "delete"
  <2>1. Finish(p)
    BY <1>2, <1>4 DEF AfterSync
  <2>2. \A n : ~Holds(n, pc[p], req[p]) /\ ~HoldsImage(n, pc[p], req[p])
    BY <1>2, <1>4 DEF Holds, HoldsImage, Builds, Cleaning
  <2> QED BY <1>1, <1>2, <2>1, <2>2, ReturnLedger
<1>5. CASE req[p].kind \in Builds
  <2>0. req[p].kind \notin {"boot", "delete"}
    BY <1>5 DEF Builds
  <2>1. /\ \A n : Holds(n, pc[p], req[p]) <=>
             \/ req[p].restoring /\ n = req[p].cand.rel
             \/ ~req[p].restoring /\ req[p].kind # "deploy" /\ n = req[p].old.rel
        /\ \A n : HoldsImage(n, pc[p], req[p]) <=>
             req[p].restoring /\ n = req[p].cand.img /\ req[p].kind # "rollback"
    BY <1>2, <1>5, HeldPromoting DEF Promoting
  <2>2. CASE req[p].restoring
    <3>1. Clean(p, req[p].cand)
      BY <1>2, <2>0, <2>2 DEF AfterSync
    <3>2. /\ \A n : Holds(n, pc[p], req[p])' <=> n = req[p].cand.rel
          /\ \A n : HoldsImage(n, pc[p], req[p])' <=>
               n = req[p].cand.img /\ req[p].kind # "rollback"
          /\ Swept(L, M, pc[p], req[p])' /\ pc'[p] # "restore"
      BY <1>5, <3>1, CleanLedger
    <3>3. Balanced(L, M, pc[p])'
      BY <1>1, <1>2, <3>2, Unpaid DEF Booked
    <3> QED BY <1>1, <1>2, <2>1, <2>2, <3>2, <3>3, Undisturbed
  <2>3. CASE ~req[p].restoring /\ ok /\ req[p].kind = "deploy"
    <3>1. Finish(p)
      BY <1>2, <2>0, <2>3 DEF AfterSync
    <3> QED BY <1>1, <1>2, <2>1, <2>3, <3>1, ReturnLedger
  <2>4. CASE ~req[p].restoring /\ ~(ok /\ req[p].kind = "deploy")
    <3>1. PICK s \in {"record", "restore"} : Go(p, s) /\ s = IF ok THEN "record" ELSE "restore"
      BY <1>2, <2>0, <2>4 DEF AfterSync
    <3>2. pc'[p] = s /\ req'[p] = req[p]
      BY <3>1, Went
    <3>3. \A n : Holds(n, pc'[p], req'[p]) <=> req[p].kind # "deploy" /\ n = req[p].old.rel
      BY <1>5, <2>4, <3>2, HeldPromoting DEF Promoting
    <3>4. \A n : Holds(n, pc[p], req[p]) => Holds(n, pc[p], req[p])'
      BY <2>1, <2>4, <3>3 DEF Holds
    <3>5. Swept(L, M, pc[p], req[p])'
      BY <3>2 DEF Swept, Cleaning
    <3>6. Balanced(L, M, pc[p])'
      <4>1. CASE ok
        BY <1>1, <1>2, <3>1, <3>2, <4>1, Unpaid DEF Booked
      <4>2. CASE ~ok
        <5>1. faults' = faults + 1 /\ crashes' = crashes
          BY <1>2, <4>2 DEF Fault
        <5>2. PICK E : E = {}
          OBVIOUS
        <5>3. Cardinality(E) = 0 /\ IsFiniteSet(E) /\ \A m \in E : m[1] \in E
          BY <5>2, FS_EmptySet
        <5>4. Cardinality(E) + Spare(pc'[p]) <= 1 + Spare(pc[p])
          BY <1>2, <3>1, <3>2, <4>2, <5>3 DEF Spare
        <5>5. Balanced(L \cup E, M \cup E, pc[p])'
          BY <1>1, <5>1, <5>3, <5>4, Paying DEF Booked
        <5>6. L \cup E = L /\ M \cup E = M
          BY <5>2
        <5> QED BY <5>5, <5>6
      <4> QED BY <4>1, <4>2
    <3> QED BY <1>1, <1>2, <2>1, <2>4, <3>4, <3>5, <3>6, Undisturbed
  <2> QED BY <2>2, <2>3, <2>4
<1> QED BY <1>2, <1>3, <1>4, <1>5 DEF Local

LEMMA RestoreLedger ==
    ASSUME IInv, NEW p \in Procs, Sound(p), Upright(p), Ledger(p), Restore(p)
    PROVE  Ledger(p)'
<1> USE DEF IInv
<1>1. PICK L, M : Booked(L, M, p)
  BY DEF Ledger
<1>2. pc[p] = "restore" /\ UNCHANGED <<history, containers, networks, images>>
  BY DEF Restore, docker
<1>3. pc[p] \in Promoting /\ pc[p] \in Releasing \ {"lock"}
  BY <1>2 DEF Promoting, Releasing
<1>4. /\ req[p] \in Request /\ req[p].kind \in Builds /\ req[p].cand \in Record
      /\ ~req[p].restoring /\ store = req[p].cand
  BY <1>2, <1>3, UprightNow DEF Switch
<1>5. store # None /\ \A n : Recorded(n) <=> n = req[p].cand.rel
  BY <1>4, NoneAssumption DEF Recorded
<1>6. req[p].kind # "deploy" => req[p].old \in Record /\ req[p].old # None
  BY <1>4, LocalNow, NoneAssumption DEF Local, Builds, Kinds
<1>7. /\ \A n : Holds(n, pc[p], req[p]) <=> req[p].kind # "deploy" /\ n = req[p].old.rel
      /\ \A n : ~HoldsImage(n, pc[p], req[p])
  BY <1>3, <1>4, HeldPromoting
<1>8. \A n : Retains(n) => Retains(n)'
  BY <1>2 DEF Retains
<1>9. CASE /\ store' = req[p].old /\ NoFault
           /\ Become(p, "sync", [req[p] EXCEPT !.restoring = TRUE])
  <2> DEFINE r == [req[p] EXCEPT !.restoring = TRUE]
  <2>1. pc'[p] = "sync" /\ req'[p] = r
    BY <1>9, Became
  <2>2. r.kind = req[p].kind /\ r.cand = req[p].cand /\ r.restoring
    BY <1>4 DEF Request
  <2> HIDE DEF r
  <2>3. \A n : Holds(n, pc'[p], req'[p]) <=> n = req[p].cand.rel
    BY <1>4, <2>1, <2>2, HeldPromoting DEF Promoting
  <2>4. Swept(L, M, pc[p], req[p])'
    BY <2>1 DEF Swept, Cleaning
  <2>5. Balanced(L, M, pc[p])'
    BY <1>1, <1>9, <2>1, Unpaid DEF Booked
  <2>6. \A n : Recorded(n) => Holds(n, pc[p], req[p])'
    BY <1>5, <2>3 DEF Holds
  <2>7. \A n : Holds(n, pc[p], req[p]) => Recorded(n)'
    BY <1>6, <1>7, <1>9 DEF Recorded
  <2> QED BY <1>1, <1>2, <1>7, <1>8, <2>4, <2>5, <2>6, <2>7, Passed
<1>10. CASE Fault /\ Clean(p, req[p].cand) /\ UNCHANGED store
  <2>1. PICK n : n = req[p].old.rel
    OBVIOUS
  <2>2. PICK N : N = {n}
    OBVIOUS
  <2>3. PICK X : X = {<<n, Frontend>>, <<n, Backend>>}
    OBVIOUS
  <2>4. IsFiniteSet(N) /\ Cardinality(N) = 1
    BY <2>2, FS_Singleton
  <2>5. IsFiniteSet(X) /\ Cardinality(X) <= 2
    <3>1. PICK A, B : A = {<<n, Frontend>>} /\ B = {<<n, Backend>>}
      OBVIOUS
    <3>2. IsFiniteSet(A) /\ IsFiniteSet(B) /\ Cardinality(A) = 1 /\ Cardinality(B) = 1
      BY <3>1, FS_Singleton
    <3>3. X = A \cup B
      BY <2>3, <3>1
    <3> QED BY <3>2, <3>3, Joined
  <2>6. /\ pc'[p] = "rm_frontend"
        /\ \A k : Holds(k, pc[p], req[p])' <=> k = req[p].cand.rel
        /\ \A K, Y : Swept(K, Y, pc[p], req[p])'
    BY <1>4, <1>10, CleanLedger
  <2>7. Spare(pc[p]) = 1 /\ Spare(pc'[p]) = 0 /\ Cardinality(X) \in Nat
    BY <1>2, <2>5, <2>6, FS_CardinalityType DEF Spare
  <2>8. faults' = faults + 1 /\ crashes' = crashes
    BY <1>10 DEF Fault
  <2>9. /\ Cardinality(N) + Spare(pc'[p]) <= 1 + Spare(pc[p])
        /\ Cardinality(X) + Spare(pc'[p]) <= 1 + Spare(pc[p])
    BY <2>4, <2>5, <2>7
  <2>10. \A m \in X : m[1] \in N
    BY <2>2, <2>3
  <2>11. Balanced(L \cup N, M \cup X, pc[p])'
    BY <1>1, <2>4, <2>5, <2>8, <2>9, <2>10, Paying DEF Booked
  <2>12. /\ L \subseteq L \cup N /\ M \subseteq M \cup X /\ n \in L \cup N
         /\ \A c \in containers : <<n, c.svc>> \in M \cup X
    BY <2>2, <2>3 DEF DataOK, Container, Services
  <2>13. \A k : Recorded(k) => Holds(k, pc[p], req[p])'
    BY <1>5, <2>6
  <2>14. Swept(L \cup N, M \cup X, pc[p], req[p])'
    BY <2>6
  <2>15. \A k : Holds(k, pc[p], req[p]) => k = n
    BY <1>7, <2>1
  <2> QED BY <1>1, <1>2, <1>7, <1>8, <2>11, <2>12, <2>13, <2>14, <2>15, Passed
<1> QED BY <1>5, <1>9, <1>10 DEF Restore

\* The release that is retired stays in a history that keeps versions at all; an
\* image of a version that falls off is in use, or removed.
LEMMA HistoryKeeps ==
    ASSUME IInv, NEW p \in Procs, Sound(p), Upright(p), pc[p] = "record", MaxPrevious > 0,
           NEW kept, kept = Retained(Extended(p)),
           NEW gone, gone = Removable(Images(Extended(p) \ kept) \ ImagePair(req[p].cand.img))
    PROVE  /\ \E v \in kept : v.img = req[p].old.img
           /\ \A i \in images : Retains(i.img) =>
                InUse(i) \/ i \in gone \/ \E v \in kept : v.img = i.img
<1> DEFINE r == req[p]
<1> DEFINE E == Extended(p)
<1> DEFINE new == [img |-> r.old.img, at |-> r.cand.rel]
<1> USE DEF IInv
<1>1. pc[p] \in Releasing \ {"lock"} /\ pc[p] \in Promoting
  BY DEF Releasing, Promoting
<1>2. /\ r.kind \in Builds /\ r.cand \in Record /\ Candidate(r)
      /\ r.seen = history /\ history \subseteq Version /\ Stands(containers, r.cand)
  BY <1>1, UprightNow DEF Switch, DataOK, Standing
<1>3. E \subseteq Version /\ new \in E /\ Latest(new, E)
  BY Extension
<1>4. new \in kept
  <2>1. Newer(E, new) = {}
    BY <1>3 DEF Newer, Latest, Version
  <2>2. Cardinality(Newer(E, new)) < MaxPrevious
    BY <2>1, FS_EmptySet, ConstantsAssumption
  <2> QED BY <1>3, <2>2 DEF Retained
<1>5. new.img = r.old.img
  OBVIOUS
<1>6. \A v \in history : v \in E \/ v.img \in {r.old.img, r.cand.img}
  <2>1. CASE r.kind = "rollback"
    <3>1. \E v \in history : Newest(history) = v /\ r.cand.img = v.img
      BY <1>2, <2>1, NewestIs DEF Candidate
    <3> QED BY <1>2, <2>1, <3>1 DEF Extended
  <2>2. CASE r.kind # "rollback"
    BY <2>2 DEF Extended
  <2> QED BY <2>1, <2>2
<1>7. \E v \in kept : v.img = r.old.img
  BY <1>4, <1>5
<1> HIDE DEF E, new
<1>8. ASSUME NEW i \in images, Retains(i.img)
      PROVE  InUse(i) \/ i \in gone \/ \E v \in kept : v.img = i.img
  <2>1. PICK v \in history : v.img = i.img
    BY <1>8 DEF Retains
  <2>2. i.img = r.cand.img => InUse(i)
    BY <1>2, StandsUses
  <2>3. CASE v \in E \ kept /\ i.img # r.cand.img
    <3>1. i \in ImagePair(i.img) /\ i \notin ImagePair(r.cand.img)
      BY <2>3 DEF DataOK, Image, ImagePair
    <3>2. i \in Images(E \ kept) \ ImagePair(r.cand.img)
      BY <2>1, <2>3, <3>1 DEF Images
    <3> QED BY <3>2 DEF Removable, E
  <2> QED BY <1>6, <1>7, <2>1, <2>2, <2>3
<1> QED BY <1>7, <1>8

LEMMA RecordLedger ==
    ASSUME IInv, NEW p \in Procs, Sound(p), Upright(p), Ledger(p), MaxPrevious > 0,
           RecordHistory(p)
    PROVE  Ledger(p)'
<1> USE DEF IInv
<1>1. PICK L, M : Booked(L, M, p)
  BY DEF Ledger
<1>2. PICK kept : kept = Retained(Extended(p))
  OBVIOUS
<1>3. PICK gone : gone = Removable(Images(Extended(p) \ kept) \ ImagePair(req[p].cand.img))
  OBVIOUS
<1>4. /\ pc[p] = "record" /\ UNCHANGED <<store, containers, networks>>
      /\ Clean(p, req[p].old)
      /\ \/ history' = kept /\ images' = images \ gone /\ NoFault
         \/ \E i \in gone : history' = kept /\ images' = images \ (gone \ {i}) /\ Fault
         \/ UNCHANGED <<history, images>> /\ Fault
  BY <1>2, <1>3 DEF RecordHistory
<1>5. pc[p] \in Promoting /\ pc[p] \in Releasing \ {"lock"}
  BY <1>4 DEF Promoting, Releasing
<1>6. /\ req[p] \in Request /\ req[p].kind \in Builds /\ req[p].cand \in Record
      /\ ~req[p].restoring /\ store = req[p].cand /\ Candidate(req[p])
  BY <1>4, <1>5, UprightNow DEF Switch
<1>7. req[p].kind # "deploy" /\ req[p].old \in Record /\ req[p].old # req[p].cand
  <2>1. req[p].kind # "deploy" /\ req[p].old \in Record
    BY <1>4, LocalNow DEF Local
  <2>2. req[p].old.rel < req[p].cand.rel
    BY <1>6, <2>1, NoneAssumption DEF Candidate, Older
  <2> QED BY <1>6, <2>1, <2>2 DEF Record
<1>8. /\ \A n : Holds(n, pc[p], req[p]) <=> n = req[p].old.rel
      /\ \A n : ~HoldsImage(n, pc[p], req[p])
  BY <1>5, <1>6, <1>7, HeldPromoting
<1>9. /\ pc'[p] = "rm_frontend"
      /\ req'[p].kind = req[p].kind /\ req'[p].old = req[p].old
      /\ req'[p].cand = req[p].cand /\ req'[p].target = req[p].old
  BY <1>4, Cleans
<1>10. \A n : Holds(n, pc[p], req[p])' <=> n = req[p].old.rel
  <2>1. \A n : Holds(n, pc'[p], req'[p]) <=> n = req'[p].target.rel
    BY <1>6, <1>9, HeldCleaning DEF Cleaning
  <2> QED BY <1>9, <2>1 DEF Holds
<1>11. ASSUME NEW K, Retains(req[p].old.img)' \/ req[p].old.img \in K, NEW N
       PROVE  Swept(K, N, pc[p], req[p])'
  BY <1>6, <1>9, <1>11 DEF Swept, Builds, Cleaning
<1>12. /\ \E v \in kept : v.img = req[p].old.img
       /\ \A i \in images : Retains(i.img) =>
            InUse(i) \/ i \in gone \/ \E v \in kept : v.img = i.img
  BY <1>2, <1>3, <1>4, HistoryKeeps
<1>13. \A n : Recorded(n) => Recorded(n)'
  BY <1>4 DEF Recorded
<1>14. CASE history' = kept /\ images' = images \ gone /\ NoFault
  <2>1. Balanced(L, M, pc[p])'
    BY <1>1, <1>9, <1>14, Unpaid DEF Booked
  <2>2. \A n : (\E v \in kept : v.img = n) => Retains(n)'
    BY <1>14 DEF Retains
  <2>3. Swept(L, M, pc[p], req[p])'
    BY <1>9, <1>11, <1>12, <2>2
  <2>4. images' \subseteq images /\ \A i \in images' : i \notin gone
    BY <1>14
  <2>5. \A i \in images' : Retains(i.img) => InUse(i) \/ Retains(i.img)'
    BY <1>12, <2>2, <2>4
  <2> QED BY <1>1, <1>4, <1>8, <1>10, <1>13, <2>1, <2>3, <2>4, <2>5, Passed
<1>15. ASSUME NEW n, Fault, images' \subseteq images,
              Retains(req[p].old.img)' \/ req[p].old.img = n,
              \A i \in images' : Retains(i.img) => InUse(i) \/ Retains(i.img)' \/ i.img = n
       PROVE  Ledger(p)'
  <2>1. PICK X : X = {}
    OBVIOUS
  <2>2. Balanced(L \cup {n}, M \cup X, pc[p])'
    BY <1>1, <1>9, <1>15, <2>1, Charged DEF Booked
  <2>3. Swept(L \cup {n}, M \cup X, pc[p], req[p])'
    BY <1>11, <1>15
  <2>4. L \subseteq L \cup {n} /\ M \subseteq M \cup X /\ n \in L \cup {n}
    OBVIOUS
  <2> QED BY <1>1, <1>4, <1>8, <1>10, <1>13, <1>15, <2>2, <2>3, <2>4, Passed
<1>16. ASSUME NEW i \in gone, history' = kept, images' = images \ (gone \ {i}), Fault
       PROVE  Ledger(p)'
  <2>1. PICK n : n = i.img
    OBVIOUS
  <2>2. \A k : (\E v \in kept : v.img = k) => Retains(k)'
    BY <1>16 DEF Retains
  <2>3. images' \subseteq images /\ \A j \in images' : j \in gone => j.img = n
    BY <1>16, <2>1
  <2>4. \A j \in images' : Retains(j.img) => InUse(j) \/ Retains(j.img)' \/ j.img = n
    BY <1>12, <2>2, <2>3
  <2>5. Retains(req[p].old.img)'
    BY <1>9, <1>12, <2>2
  <2> QED BY <1>15, <1>16, <2>3, <2>4, <2>5
<1>17. CASE UNCHANGED <<history, images>> /\ Fault
  <2>1. PICK n : n = req[p].old.img
    OBVIOUS
  <2>2. \A k : Retains(k) => Retains(k)'
    BY <1>17 DEF Retains
  <2> QED BY <1>15, <1>17, <2>1, <2>2
<1> QED BY <1>4, <1>14, <1>16, <1>17

\* The removal of a container takes an image out of use that is still accounted for.
LEMMA TargetUses ==
    ASSUME IInv, NEW p \in Procs, Sound(p), Upright(p), NEW L, NEW M, Booked(L, M, p),
           pc[p] \in {"rm_frontend", "rm_backend"},
           NEW c \in containers, c.rel = req[p].target.rel
    PROVE  Retains(c.img) \/ c.img \in L \/ HoldsImage(c.img, pc[p], req[p])
<1> USE DEF IInv
<1>1. pc[p] \in Cleaning /\ pc[p] \notin {"idle", "lock", "sync"}
  BY DEF Cleaning
<1>2. /\ req[p].kind \in Builds \cup {"delete"}
      /\ req[p].target \in {req[p].old, req[p].cand} \cap Record
  BY <1>1, CleaningNow
<1>3. req[p].target # None
  BY <1>2, NoneAssumption
<1>4. CASE req[p].kind = "delete"
  <2>1. store = req[p].old /\ req[p].target = req[p].old
    BY <1>1, <1>4 DEF Sound, Doing, Removal
  <2>2. c.img = req[p].old.img
    BY <1>3, <2>1 DEF Upright, Docked, Fits
  <2> QED BY <1>1, <1>4, <2>2 DEF HoldsImage
<1>5. CASE req[p].kind \in Builds
  <2>1. Fits(containers, req[p].old) /\ Fits(containers, req[p].cand)
    BY <1>1, <1>5 DEF Upright, Standing
  <2>2. c.img = req[p].target.img
    BY <1>2, <1>3, <2>1 DEF Fits
  <2>3. Switch(pc[p], req[p]) /\ Candidate(req[p])
    BY <1>1, <1>5 DEF Sound, Doing
  <2>4. CASE req[p].target # req[p].cand
    <3>1. req[p].target = req[p].old
      BY <1>2, <2>4
    <3>2. Retains(req[p].old.img) \/ req[p].old.img \in L
      BY <1>1, <1>5, <2>4 DEF Booked, Swept
    <3> QED BY <2>2, <3>1, <3>2
  <2>5. CASE req[p].target = req[p].cand /\ req[p].kind = "rollback"
    <3>1. req[p].seen = history
      BY <1>1, <2>3, <2>5 DEF Switch
    <3>2. \E v \in req[p].seen : req[p].cand.img = v.img
      BY <2>3, <2>5 DEF Candidate
    <3> QED BY <2>2, <2>5, <3>1, <3>2 DEF Retains
  <2>6. CASE req[p].target = req[p].cand /\ req[p].kind # "rollback"
    BY <1>1, <1>5, <2>2, <2>6, HeldCleaning
  <2> QED BY <2>4, <2>5, <2>6
<1> QED BY <1>2, <1>4, <1>5

\* What is held is the same all through a clean-up.
LEMMA HeldAlong ==
    ASSUME NEW s \in Cleaning, NEW t \in Cleaning, NEW r, NEW q,
           q.kind = r.kind, q.old = r.old, q.cand = r.cand, q.target = r.target
    PROVE  /\ \A n : Holds(n, t, q) <=> Holds(n, s, r)
           /\ \A n : HoldsImage(n, t, q) <=> HoldsImage(n, s, r)
<1>1. /\ s \notin Promoting /\ s \notin Preparing /\ t \notin Promoting /\ t \notin Preparing
      /\ s \in Cleaning \cup {"rm_versions", "clear"}
      /\ t \in Cleaning \cup {"rm_versions", "clear"}
  BY DEF Preparing, Promoting, Cleaning
<1> QED BY <1>1 DEF Holds, HoldsImage

LEMMA RemoveContainerLedger ==
    ASSUME IInv, NEW p \in Procs, Sound(p), Upright(p), Ledger(p),
           RemoveFrontend(p) \/ RemoveBackend(p)
    PROVE  Ledger(p)'
<1> DEFINE r == req[p]
<1> USE DEF IInv
<1>1. PICK L, M : Booked(L, M, p)
  BY DEF Ledger
<1>2. PICK svc, step, next :
        /\ \/ svc = Frontend /\ step = "rm_frontend" /\ next = "rm_backend"
           \/ svc = Backend /\ step = "rm_backend" /\ next = "rm_network"
        /\ RemoveContainer(p, svc, step, next)
  BY DEF RemoveFrontend, RemoveBackend
<1>3. /\ pc[p] = step /\ UNCHANGED <<store, history, networks, images>>
      /\ \/ containers' = containers \ Of(r.target.rel, svc) /\ Go(p, next) /\ NoFault
         \/ Fault /\ UNCHANGED containers /\ Failing(p, next)
  BY <1>2 DEF RemoveContainer
<1>4. pc[p] \in Cleaning /\ next \in Cleaning /\ next # "restore"
        /\ pc[p] \in {"rm_frontend", "rm_backend"}
  BY <1>2, <1>3 DEF Cleaning
<1>5. r.kind \in Builds \cup {"delete"} /\ "delete" \notin Builds
  BY <1>4, CleaningNow DEF Builds
<1>6. /\ pc'[p] = next /\ req'[p].kind = r.kind /\ req'[p].old = r.old
      /\ req'[p].cand = r.cand /\ req'[p].target = r.target
  BY <1>3, Went, Fails
<1>7. /\ \A n : Holds(n, pc[p], req[p])' <=> Holds(n, pc[p], r)
      /\ \A n : HoldsImage(n, pc[p], req[p])' <=> HoldsImage(n, pc[p], r)
  <2>1. /\ \A n : Holds(n, pc'[p], req'[p]) <=> Holds(n, pc[p], r)
        /\ \A n : HoldsImage(n, pc'[p], req'[p]) <=> HoldsImage(n, pc[p], r)
    BY <1>4, <1>6, HeldAlong
  <2> QED BY <2>1 DEF Holds, HoldsImage
<1>8. \A n : /\ Recorded(n) <=> Recorded(n)'
             /\ Retains(n) <=> Retains(n)'
  BY <1>3 DEF Recorded, Retains
<1>9. /\ \A c \in containers : c.svc \in {Frontend, Backend}
      /\ Frontend # Backend
  BY DEF DataOK, Container, Services, Frontend, Backend
<1>10. /\ r.kind \in Builds /\ pc[p] = "rm_backend" =>
            \A c \in containers : c.rel = r.target.rel =>
                c.svc = Backend \/ <<c.rel, c.svc>> \in M
       /\ r.kind \in Builds /\ r.target # r.cand => Retains(r.old.img) \/ r.old.img \in L
       /\ r.kind = "delete" /\ r.failed => r.old.img \in L
  BY <1>1, <1>4 DEF Booked, Swept
<1>11. CASE containers' = containers \ Of(r.target.rel, svc) /\ Go(p, next) /\ NoFault
  <2>1. req'[p] = r
    BY <1>11, Went
  <2>2. Balanced(L, M, pc[p])'
    BY <1>1, <1>4, <1>6, <1>11, Unpaid DEF Booked
  <2>3. \A n : Exists(n)' => Exists(n)
    BY <1>3, <1>11 DEF Exists
  <2>4. ASSUME NEW i \in images'
        PROVE  \/ InUse(i)' \/ Retains(i.img)' \/ i.img \in L
               \/ HoldsImage(i.img, pc[p], req[p])'
    <3>1. i \in images
      BY <1>3
    <3>2. CASE InUse(i)
      <4>1. PICK c \in containers : c.img = i.img /\ c.svc = i.svc
        BY <3>2 DEF InUse
      <4>2. CASE c \in containers'
        BY <4>1, <4>2 DEF InUse
      <4>3. CASE c \notin containers'
        <5>1. c.rel = r.target.rel
          BY <1>11, <4>3 DEF Of
        <5> QED BY <1>1, <1>4, <1>7, <1>8, <4>1, <5>1, TargetUses
      <4> QED BY <4>2, <4>3
    <3>3. CASE ~InUse(i)
      BY <1>1, <1>7, <1>8, <3>1, <3>3 DEF Booked, Covered
    <3> QED BY <3>2, <3>3
  <2>5. Covered(L, M, pc[p], req[p])'
    <3>1. \A n : Exists(n)' => Recorded(n)' \/ n \in L \/ Holds(n, pc[p], req[p])'
      BY <1>1, <1>7, <1>8, <2>3 DEF Booked, Covered
    <3>2. \A c \in containers' : \/ Recorded(c.rel)' \/ <<c.rel, c.svc>> \in M
                                 \/ Holds(c.rel, pc[p], req[p])'
      BY <1>1, <1>7, <1>8, <1>11 DEF Booked, Covered
    <3> QED BY <2>4, <3>1, <3>2 DEF Covered
  <2>6. ASSUME r.kind \in Builds, NEW c \in containers', c.rel = r.target.rel
        PROVE  (next = "rm_backend" /\ c.svc = Backend) \/ <<c.rel, c.svc>> \in M
    <3>1. c \in containers /\ c.svc # svc
      BY <1>11, <2>6 DEF Of
    <3> QED BY <1>2, <1>3, <1>9, <1>10, <2>6, <3>1
  <2>7. Swept(L, M, pc[p], req[p])'
    BY <1>2, <1>5, <1>6, <1>8, <1>10, <2>1, <2>6 DEF Swept
  <2> QED BY <2>2, <2>5, <2>7 DEF Ledger, Booked
<1>12. CASE Fault /\ UNCHANGED containers
  <2>1. PICK n : n = IF r.kind = "delete" THEN r.old.img ELSE r.target.rel
    OBVIOUS
  <2>2. PICK X : X = IF r.kind = "delete" THEN {} ELSE {<<n, svc>>}
    OBVIOUS
  <2>3. Balanced(L \cup {n}, M \cup X, pc[p])'
    <3>1. X = {} \/ \E m : X = {m} /\ m[1] = n
      BY <2>2
    <3> QED BY <1>1, <1>4, <1>6, <1>12, <3>1, Charged DEF Booked
  <2>4. ASSUME r.kind \in Builds, NEW c \in containers, c.rel = r.target.rel
        PROVE  (next = "rm_backend" /\ c.svc = Backend) \/ <<c.rel, c.svc>> \in M \cup X
    <3>1. n = c.rel /\ <<n, svc>> \in X
      BY <1>5, <2>1, <2>2, <2>4
    <3> QED BY <1>2, <1>3, <1>9, <1>10, <2>4, <3>1
  <2>5. Swept(L \cup {n}, M \cup X, pc[p], req[p])'
    BY <1>2, <1>5, <1>6, <1>8, <1>10, <1>12, <2>1, <2>4 DEF Swept
  <2>6. L \subseteq L \cup {n} /\ M \subseteq M \cup X
    OBVIOUS
  <2> QED BY <1>1, <1>3, <1>7, <1>8, <1>12, <2>3, <2>5, <2>6, Passed
<1> QED BY <1>3, <1>11, <1>12

LEMMA RemoveNetworkLedger ==
    ASSUME IInv, NEW p \in Procs, Sound(p), Upright(p), Ledger(p), RemoveNetwork(p)
    PROVE  Ledger(p)'
<1> DEFINE r == req[p]
<1> DEFINE rel == r.target.rel
<1> DEFINE busy == \E c \in containers : c.rel = rel /\ c.up
<1> USE DEF IInv
<1>1. PICK L, M : Booked(L, M, p)
  BY DEF Ledger
<1>2. /\ pc[p] = "rm_network" /\ UNCHANGED <<store, history, containers, images>>
      /\ networks' \subseteq networks
      /\ \/ ~busy /\ rel \notin networks' /\ NoFault /\ AfterNetwork(p, TRUE)
         \/ busy /\ NoFault /\ AfterNetwork(p, FALSE)
         \/ Fault /\ AfterNetwork(p, FALSE)
  BY DEF RemoveNetwork
<1>3. pc[p] \in Cleaning /\ pc[p] \notin {"idle", "lock", "sync"}
  BY <1>2 DEF Cleaning
<1>4. r.kind \in Builds \cup {"delete"} /\ "delete" \notin Builds
  BY <1>3, CleaningNow DEF Builds
<1>5. \A n : /\ Recorded(n) => Recorded(n)'
             /\ Retains(n) => Retains(n)'
  BY <1>2 DEF Recorded, Retains
<1>6. PICK n : n = IF r.kind = "delete" THEN r.old.img ELSE rel
  OBVIOUS
<1>7. PICK X : X = {}
  OBVIOUS
<1>8. PICK K : K = IF faults' = faults THEN L ELSE L \cup {n}
  OBVIOUS
<1>9. /\ L \subseteq K /\ (Fault => n \in K)
      /\ pc'[p] # "restore" => Balanced(K, M, pc[p])'
  <2>1. CASE Fault
    <3>1. faults' # faults
      BY <2>1 DEF Fault, DataOK
    <3>2. K = L \cup {n} /\ M \cup X = M
      BY <1>7, <1>8, <3>1
    <3>3. pc'[p] # "restore" => Balanced(L \cup {n}, M \cup X, pc[p])'
      BY <1>1, <1>7, <2>1, Charged DEF Booked
    <3> QED BY <3>2, <3>3
  <2>2. CASE NoFault
    <3>1. K = L /\ ~Fault
      BY <1>8, <2>2 DEF NoFault, bounds, Fault, DataOK
    <3> QED BY <1>1, <2>2, <3>1, Unpaid DEF Booked
  <2> QED BY <1>2, <2>1, <2>2
<1> HIDE DEF busy
<1>10. CASE r.kind \in Builds
  <2>1. \A c \in containers : c.rel = rel => <<c.rel, c.svc>> \in M
    BY <1>1, <1>2, <1>10 DEF Booked, Swept
  <2>2. \A c \in containers : c.rel = rel => rel \in L
    <3> TAKE c \in containers
    <3> HAVE c.rel = rel
    <3>1. PICK m : m = <<c.rel, c.svc>>
      OBVIOUS
    <3>2. m \in M /\ m[1] = rel
      BY <2>1, <3>1
    <3> QED BY <1>1, <3>2 DEF Booked, Balanced
  <2>3. rel \in networks' \/ (\E c \in containers : c.rel = rel) => rel \in K
    BY <1>2, <1>4, <1>6, <1>9, <1>10, <2>2 DEF busy
  <2>4. /\ \A k : Holds(k, pc[p], r) <=> k = rel
        /\ \A k : HoldsImage(k, pc[p], r) <=>
             k = r.cand.img /\ r.kind # "rollback" /\ r.target = r.cand
    BY <1>3, <1>10, HeldCleaning
  <2>5. OwnImages(p) <=> r.kind # "rollback" /\ r.target = r.cand
    BY <1>10 DEF OwnImages, Builds
  <2>6. r.kind # "delete"
    BY <1>4, <1>10
  <2>7. CASE OwnImages(p)
    <3>1. Go(p, "rm_images")
      BY <1>2, <2>7 DEF AfterNetwork
    <3>2. pc'[p] = "rm_images" /\ req'[p] = r
      BY <3>1, Went
    <3>3. /\ \A k : Holds(k, pc[p], req[p])' <=> Holds(k, pc[p], r)
          /\ \A k : HoldsImage(k, pc[p], req[p])' <=> HoldsImage(k, pc[p], r)
      <4>1. /\ \A k : Holds(k, pc'[p], req'[p]) <=> Holds(k, pc[p], r)
            /\ \A k : HoldsImage(k, pc'[p], req'[p]) <=> HoldsImage(k, pc[p], r)
        BY <1>3, <3>2, HeldAlong DEF Cleaning
      <4> QED BY <4>1 DEF Holds, HoldsImage
    <3>4. Swept(K, M, pc[p], req[p])'
      BY <1>2, <2>1, <2>3, <2>5, <2>6, <2>7, <3>2 DEF Swept
    <3> QED BY <1>1, <1>2, <1>5, <1>9, <3>2, <3>3, <3>4, Passed
  <2>8. CASE ~OwnImages(p)
    <3>1. Finish(p)
      BY <1>2, <2>6, <2>8 DEF AfterNetwork
    <3>2. pc'[p] = "idle" /\ req'[p] = NoRequest
      BY <3>1, Returned
    <3>3. req'[p].kind = "none"
      BY <3>2 DEF NoRequest
    <3>4. Swept(K, M, pc[p], req[p])'
      BY <3>2, <3>3 DEF Swept, Builds
    <3>5. \A k : Exists(k)' /\ k = rel => k \in K
      BY <1>2, <2>3 DEF Exists
    <3> QED BY <1>1, <1>2, <1>5, <1>9, <2>1, <2>4, <2>5, <2>8, <3>2, <3>4, <3>5, Passed
  <2> QED BY <2>7, <2>8
<1>11. CASE r.kind = "delete"
  <2>1. \A k : ~Holds(k, pc[p], r)
    BY <1>4, <1>11 DEF Holds
  <2>2. \A k : HoldsImage(k, pc[p], r) => k = r.old.img
    BY <1>11 DEF HoldsImage
  <2>3. ~OwnImages(p)
    BY <1>11 DEF OwnImages
  <2>4. r.failed => r.old.img \in L
    BY <1>1, <1>2, <1>11 DEF Booked, Swept
  <2>5. ~r.failed => ~busy
    <3>1. Removal(pc[p], r)
      BY <1>11 DEF Sound, Doing
    <3>2. r.target = r.old
      BY <1>3, <3>1 DEF Removal
    <3>3. ~r.failed => Gone(r.old.rel, Frontend) /\ Gone(r.old.rel, Backend)
      BY <1>2, <3>1 DEF Removal
    <3>4. \A c \in containers : c.svc \in {Frontend, Backend}
      BY DEF DataOK, Container, Services
    <3> QED BY <3>2, <3>3, <3>4 DEF busy, Gone
  <2>6. CASE Go(p, "rm_versions")
    <3>1. pc'[p] = "rm_versions" /\ req'[p] = r
      BY <2>6, Went
    <3>2. \A k : HoldsImage(k, pc[p], r) => HoldsImage(k, pc[p], req[p])'
      BY <1>11, <3>1 DEF HoldsImage
    <3>3. Swept(K, M, pc[p], req[p])'
      BY <1>4, <1>11, <3>1 DEF Swept
    <3> QED BY <1>1, <1>2, <1>5, <1>9, <2>1, <3>1, <3>2, <3>3, Passed
  <2>7. CASE Finish(p) /\ r.old.img \in K
    <3>1. pc'[p] = "idle" /\ req'[p] = NoRequest
      BY <2>7, Returned
    <3>2. req'[p].kind = "none"
      BY <3>1 DEF NoRequest
    <3>3. Swept(K, M, pc[p], req[p])'
      BY <3>1, <3>2 DEF Swept, Builds
    <3> QED BY <1>1, <1>2, <1>5, <1>9, <2>1, <2>2, <2>7, <3>1, <3>3, Passed
  <2>8. \/ Go(p, "rm_versions")
        \/ Finish(p) /\ (r.failed \/ busy \/ Fault)
    BY <1>2, <1>11, <2>3 DEF AfterNetwork
  <2> QED BY <1>6, <1>9, <1>11, <2>4, <2>5, <2>6, <2>7, <2>8
<1> QED BY <1>4, <1>10, <1>11

LEMMA RemoveImagesLedger ==
    ASSUME IInv, NEW p \in Procs, Sound(p), Upright(p), Ledger(p), RemoveImages(p)
    PROVE  Ledger(p)'
<1> DEFINE r == req[p]
<1> USE DEF IInv
<1>1. PICK L, M : Booked(L, M, p)
  BY DEF Ledger
<1>2. PICK gone : gone = Removable(ImagePair(r.target.img))
  OBVIOUS
<1>3. /\ pc[p] = "rm_images" /\ UNCHANGED <<store, history, containers, networks>>
      /\ \/ images' = images \ gone /\ NoFault
         \/ \E i \in gone : images' = images \ (gone \ {i}) /\ Fault
      /\ IF r.kind = "delete" THEN Go(p, "rm_record") ELSE Finish(p)
  BY <1>2 DEF RemoveImages
<1>4. pc[p] \in Cleaning /\ pc[p] \notin {"idle", "lock", "sync"}
  BY <1>3 DEF Cleaning
<1>5. r.kind \in Builds \cup {"delete"} /\ "delete" \notin Builds
  BY <1>4, CleaningNow DEF Builds
<1>6. /\ pc'[p] \in {"rm_record", "idle"} /\ (pc'[p] = "idle" => req'[p].kind = "none")
      /\ pc'[p] = "rm_record" => req'[p].kind = "delete"
  <2>1. r.kind = "delete" => pc'[p] = "rm_record" /\ req'[p] = r
    BY <1>3, Went
  <2>2. r.kind # "delete" => pc'[p] = "idle" /\ req'[p].kind = "none"
    BY <1>3, Returned DEF NoRequest
  <2> QED BY <2>1, <2>2
<1>7. \A K, N : Swept(K, N, pc[p], req[p])'
  BY <1>5, <1>6 DEF Swept, Builds
<1>8. \A n : /\ Recorded(n) => Recorded(n)'
             /\ Retains(n) => Retains(n)'
             /\ Exists(n)' => Exists(n)
  BY <1>3 DEF Recorded, Retains, Exists
<1>9. \A i \in gone : i.img = r.target.img
  BY <1>2 DEF Removable, ImagePair
<1>10. \A i \in images : i.img = r.target.img => i \in gone \/ InUse(i)
  BY <1>2 DEF Removable, ImagePair, DataOK, Image
<1>11. \A n : HoldsImage(n, pc[p], r) => n = r.target.img
  <2>1. CASE r.kind = "delete"
    <3>1. r.target = r.old
      BY <1>4, <2>1 DEF Sound, Doing, Removal
    <3> QED BY <2>1, <3>1 DEF HoldsImage
  <2>2. CASE r.kind \in Builds
    BY <1>4, <2>2, HeldCleaning
  <2> QED BY <1>5, <2>1, <2>2
<1>12. \A n : Holds(n, pc[p], r) /\ Exists(n)' =>
         n \in L /\ \A c \in containers' : c.rel = n => <<n, c.svc>> \in M
  <2>1. CASE r.kind = "delete"
    BY <1>5, <2>1 DEF Holds
  <2>2. CASE r.kind \in Builds
    <3>1. \A n : Holds(n, pc[p], r) <=> n = r.target.rel
      BY <1>4, <2>2, HeldCleaning
    <3>2. \A c \in containers : c.rel = r.target.rel => <<c.rel, c.svc>> \in M
      BY <1>1, <1>3, <2>2 DEF Booked, Swept
    <3>3. r.target.rel \in networks => r.target.rel \in L
      BY <1>1, <1>3, <2>2 DEF Booked, Swept
    <3>4. \A c \in containers : c.rel = r.target.rel => c.rel \in L
      <4> TAKE c \in containers
      <4> HAVE c.rel = r.target.rel
      <4>1. PICK m : m = <<c.rel, c.svc>>
        OBVIOUS
      <4>2. m \in M /\ m[1] = c.rel
        BY <3>2, <4>1
      <4> QED BY <1>1, <4>2 DEF Booked, Balanced
    <3>5. Exists(r.target.rel) => r.target.rel \in L
      BY <3>3, <3>4 DEF Exists
    <3> QED BY <1>3, <1>8, <3>1, <3>2, <3>5
  <2> QED BY <1>5, <2>1, <2>2
<1>13. CASE images' = images \ gone /\ NoFault
  <2>1. Balanced(L, M, pc[p])'
    BY <1>1, <1>6, <1>13, Unpaid DEF Booked
  <2>2. images' \subseteq images /\ \A i \in images' : HoldsImage(i.img, pc[p], r) => InUse(i)
    BY <1>10, <1>11, <1>13
  <2> QED BY <1>1, <1>3, <1>7, <1>8, <1>12, <2>1, <2>2, Passed
<1>14. ASSUME NEW i \in gone, images' = images \ (gone \ {i}), Fault
       PROVE  Ledger(p)'
  <2>1. PICK n : n = r.target.img
    OBVIOUS
  <2>2. PICK X : X = {}
    OBVIOUS
  <2>3. Balanced(L \cup {n}, M \cup X, pc[p])'
    BY <1>1, <1>6, <1>14, <2>2, Charged DEF Booked
  <2>4. images' \subseteq images /\ \A j \in images' : HoldsImage(j.img, pc[p], r) => j.img = n
    BY <1>11, <1>14, <2>1
  <2>5. Swept(L \cup {n}, M \cup X, pc[p], req[p])'
    BY <1>7
  <2>6. L \subseteq L \cup {n} /\ M \subseteq M \cup X /\ n \in L \cup {n}
    OBVIOUS
  <2> QED BY <1>1, <1>3, <1>8, <1>12, <2>3, <2>4, <2>5, <2>6, Passed
<1> QED BY <1>3, <1>13, <1>14

LEMMA ListLedger ==
    ASSUME IInv, NEW p \in Procs, Sound(p), Upright(p), Ledger(p), ListVersions(p)
    PROVE  Ledger(p)'
<1> DEFINE r == [req[p] EXCEPT !.seen = history, !.target = req[p].old]
<1> USE DEF IInv
<1>1. PICK L, M : Booked(L, M, p)
  BY DEF Ledger
<1>2. /\ pc[p] = "list" /\ UNCHANGED <<store, history, containers, networks, images>>
      /\ \/ Become(p, "rm_frontend", r) /\ NoFault
         \/ Fault /\ Finish(p)
  BY DEF ListVersions, docker
<1>3. req[p].kind = "delete" /\ req[p] \in Request
  BY <1>2, DeletingNow DEF Deleting
<1>4. \A n : ~Holds(n, pc[p], req[p]) /\ ~HoldsImage(n, pc[p], req[p])
  BY <1>2, <1>3 DEF Holds, HoldsImage, Builds, Cleaning
<1>5. CASE Become(p, "rm_frontend", r) /\ NoFault
  <2>1. pc'[p] = "rm_frontend" /\ req'[p] = r
    BY <1>5, Became
  <2>2. r.kind = "delete" /\ r.failed = req[p].failed /\ r.old = req[p].old
    BY <1>3 DEF Request
  <2> HIDE DEF r
  <2>3. req[p].failed => req[p].old.img \in L
    BY <1>1, <1>2, <1>3 DEF Booked, Swept
  <2>4. Swept(L, M, pc[p], req[p])'
    BY <2>1, <2>2, <2>3 DEF Swept, Builds
  <2>5. Balanced(L, M, pc[p])'
    BY <1>1, <1>5, <2>1, Unpaid DEF Booked
  <2> QED BY <1>1, <1>2, <1>4, <2>4, <2>5, Undisturbed
<1> QED BY <1>1, <1>2, <1>4, <1>5, ReturnLedger

LEMMA RemoveVersionsLedger ==
    ASSUME IInv, NEW p \in Procs, Sound(p), Upright(p), Ledger(p), RemoveVersions(p)
    PROVE  Ledger(p)'
<1> DEFINE r == req[p]
<1> USE DEF IInv
<1>1. PICK L, M : Booked(L, M, p)
  BY DEF Ledger
<1>2. PICK gone : gone = Removable(Images(r.seen) \ ImagePair(r.old.img))
  OBVIOUS
<1>3. /\ pc[p] = "rm_versions" /\ UNCHANGED <<store, history, containers, networks>>
      /\ \/ images' = images \ gone /\ Go(p, "clear") /\ NoFault
         \/ \E i \in gone : images' = images \ (gone \ {i}) /\ Go(p, "clear") /\ Fault
         \/ Fault /\ Finish(p) /\ UNCHANGED images
  BY <1>2 DEF RemoveVersions
<1>4. r.kind = "delete" /\ r \in Request /\ "delete" \notin Builds
  BY <1>3, DeletingNow DEF Deleting, Builds
<1>5. r.seen = history
  BY <1>3, <1>4 DEF Upright, Standing
<1>6. /\ \A n : ~Holds(n, pc[p], r)
      /\ \A n : HoldsImage(n, pc[p], r) <=> n = r.old.img
  BY <1>3, <1>4 DEF Holds, HoldsImage
<1>7. \A n : /\ Recorded(n) => Recorded(n)'
             /\ Retains(n) => Retains(n)'
  BY <1>3 DEF Recorded, Retains
<1>8. \A i \in images : Retains(i.img) => i \in gone \/ InUse(i) \/ i.img = r.old.img
  <2> TAKE i \in images
  <2> HAVE Retains(i.img)
  <2>1. PICK v \in history : v.img = i.img
    BY DEF Retains
  <2>2. i \in ImagePair(v.img)
    BY <2>1 DEF ImagePair, DataOK, Image
  <2>3. i \in ImagePair(r.old.img) => i.img = r.old.img
    BY DEF ImagePair
  <2> QED BY <1>2, <1>5, <2>1, <2>2, <2>3 DEF Removable, Images
<1>9. \A i \in images : Retains(i.img) \/ InUse(i) \/ i.img \in L \/ i.img = r.old.img
  BY <1>1, <1>6 DEF Booked, Covered
<1>10. ASSUME Go(p, "clear")
       PROVE  /\ pc'[p] = "clear"
              /\ \A n : HoldsImage(n, pc[p], req[p])' <=> n = r.old.img
  <2>1. pc'[p] = "clear" /\ req'[p] = r
    BY <1>10, Went
  <2> QED BY <1>4, <2>1 DEF HoldsImage
<1>11. ASSUME Go(p, "clear"), NEW K, NEW N,
              \A i \in images' : InUse(i) \/ i.img \in K \/ i.img = r.old.img
       PROVE  Swept(K, N, pc[p], req[p])'
  <2>1. pc'[p] = "clear" /\ req'[p] = r
    BY <1>11, Went
  <2>2. \A i : InUse(i) => InUse(i)'
    BY <1>3 DEF InUse
  <2> QED BY <1>4, <1>11, <2>1, <2>2 DEF Swept
<1>12. CASE images' = images \ gone /\ Go(p, "clear") /\ NoFault
  <2>1. Balanced(L, M, pc[p])'
    BY <1>1, <1>10, <1>12, Unpaid DEF Booked
  <2>2. \A i \in images' : InUse(i) \/ i.img \in L \/ i.img = r.old.img
    BY <1>8, <1>9, <1>12
  <2>3. Swept(L, M, pc[p], req[p])'
    BY <1>11, <1>12, <2>2
  <2> QED BY <1>1, <1>3, <1>6, <1>7, <1>10, <1>12, <2>1, <2>3, Passed
<1>13. ASSUME NEW i \in gone, images' = images \ (gone \ {i}), Go(p, "clear"), Fault
       PROVE  Ledger(p)'
  <2>1. PICK n : n = i.img
    OBVIOUS
  <2>2. PICK X : X = {}
    OBVIOUS
  <2>3. Balanced(L \cup {n}, M \cup X, pc[p])'
    BY <1>1, <1>10, <1>13, <2>2, Charged DEF Booked
  <2>4. \A j \in images' : j \in images /\ (j \in gone => j.img = n)
    BY <1>2, <1>13, <2>1 DEF Removable
  <2>5. \A j \in images' : InUse(j) \/ j.img \in L \cup {n} \/ j.img = r.old.img
    BY <1>8, <1>9, <2>4
  <2>6. Swept(L \cup {n}, M \cup X, pc[p], req[p])'
    BY <1>11, <1>13, <2>5
  <2>7. L \subseteq L \cup {n} /\ M \subseteq M \cup X /\ images' \subseteq images
    BY <2>4
  <2> QED BY <1>1, <1>3, <1>6, <1>7, <1>10, <1>13, <2>3, <2>6, <2>7, Passed
<1>14. CASE Fault /\ Finish(p) /\ UNCHANGED images
  <2>1. PICK n : n = r.old.img
    OBVIOUS
  <2>2. PICK X : X = {}
    OBVIOUS
  <2>3. pc'[p] = "idle" /\ req'[p].kind = "none"
    BY <1>14, Returned DEF NoRequest
  <2>4. Balanced(L \cup {n}, M \cup X, pc[p])'
    BY <1>1, <1>14, <2>2, <2>3, Charged DEF Booked
  <2>5. Swept(L \cup {n}, M \cup X, pc[p], req[p])'
    BY <2>3 DEF Swept, Builds
  <2>6. L \subseteq L \cup {n} /\ M \subseteq M \cup X /\ n \in L \cup {n}
    OBVIOUS
  <2> QED BY <1>1, <1>3, <1>6, <1>7, <1>14, <2>1, <2>4, <2>5, <2>6, Passed
<1> QED BY <1>3, <1>12, <1>13, <1>14

LEMMA ClearLedger ==
    ASSUME IInv, NEW p \in Procs, Sound(p), Upright(p), Ledger(p), ClearHistory(p)
    PROVE  Ledger(p)'
<1> DEFINE r == req[p]
<1> USE DEF IInv
<1>1. PICK L, M : Booked(L, M, p)
  BY DEF Ledger
<1>2. /\ pc[p] = "clear" /\ UNCHANGED <<store, containers, networks, images>>
      /\ Fault \/ NoFault
      /\ Go(p, "rm_images")
  BY DEF ClearHistory, docker
<1>3. r.kind = "delete" /\ r \in Request /\ "delete" \notin Builds
  BY <1>2, DeletingNow DEF Deleting, Builds
<1>4. pc'[p] = "rm_images" /\ req'[p] = r
  BY <1>2, Went
<1>5. \A i \in images : InUse(i) \/ i.img \in L \/ i.img = r.old.img
  BY <1>1, <1>2, <1>3 DEF Booked, Swept
<1>6. \A n : HoldsImage(n, pc[p], req[p])' <=> n = r.old.img
  BY <1>3, <1>4 DEF HoldsImage, Cleaning
<1>7. \A n : ~Holds(n, pc[p], r)
  BY <1>3 DEF Holds
<1>8. Swept(L, M, pc[p], req[p])'
  BY <1>3, <1>4 DEF Swept
<1>9. Balanced(L, M, pc[p])'
  BY <1>1, <1>2, <1>4, Unpaid DEF Booked
<1>10. \A n : Recorded(n) => Recorded(n)'
  BY <1>2 DEF Recorded
<1> QED BY <1>1, <1>2, <1>5, <1>6, <1>7, <1>8, <1>9, <1>10, Passed

LEMMA DeleteRecordLedger ==
    ASSUME IInv, NEW p \in Procs, Sound(p), Upright(p), Ledger(p), DeleteRecord(p)
    PROVE  Ledger(p)'
<1> USE DEF IInv
<1>1. PICK L, M : Booked(L, M, p)
  BY DEF Ledger
<1>2. /\ pc[p] = "rm_record" /\ UNCHANGED <<history, containers, networks, images>>
      /\ Fault \/ NoFault
      /\ store' \in {store, None} /\ (Go(p, "sync") \/ Finish(p))
  BY DEF DeleteRecord, docker
<1>3. req[p].kind = "delete" /\ "delete" \notin Builds
  BY <1>2, DeletingNow DEF Deleting, Builds
<1>4. \A n : ~Holds(n, pc[p], req[p]) /\ ~HoldsImage(n, pc[p], req[p])
  BY <1>2, <1>3 DEF Holds, HoldsImage, Cleaning
<1>5. \A n : Recorded(n) => ~Exists(n)
  <2>1. /\ store = req[p].old
        /\ Gone(req[p].old.rel, Frontend) /\ Gone(req[p].old.rel, Backend)
        /\ req[p].old.rel \notin networks
    BY <1>2, <1>3 DEF Sound, Doing, Removal
  <2>2. \A c \in containers : c.svc \in {Frontend, Backend}
    BY DEF DataOK, Container, Services
  <2> QED BY <2>1, <2>2 DEF Recorded, Exists, Gone
<1>6. \A n : /\ Exists(n)' => Exists(n)
             /\ Retains(n) => Retains(n)'
  BY <1>2 DEF Exists, Retains
<1>7. pc'[p] \in {"sync", "idle"} /\ (pc'[p] = "sync" => req'[p].kind = "delete")
        /\ (pc'[p] = "idle" => req'[p].kind = "none")
  BY <1>2, <1>3, Went, Returned DEF NoRequest
<1>8. Swept(L, M, pc[p], req[p])'
  BY <1>3, <1>7 DEF Swept, Builds
<1>9. Balanced(L, M, pc[p])'
  BY <1>1, <1>2, <1>7, Unpaid DEF Booked
<1> QED BY <1>1, <1>2, <1>4, <1>5, <1>6, <1>8, <1>9, Passed

LEMMA RestartsLedger ==
    ASSUME IInv, NEW p \in Procs, Sound(p), Ledger(p), RestartBackend(p) \/ RestartFrontend(p)
    PROVE  Ledger(p)'
<1> USE DEF IInv
<1>1. PICK L, M : Booked(L, M, p)
  BY DEF Ledger
<1>2. /\ pc[p] \in {"restart_backend", "restart_frontend"}
      /\ UNCHANGED <<store, history, networks, images>>
      /\ Go(p, "restart_frontend") \/ Finish(p)
      /\ Fault \/ NoFault
  BY DEF RestartBackend, RestartFrontend, Restart
<1>3. req[p].kind = "restart"
  BY <1>2, LocalNow DEF Local
<1>4. \A n : ~Holds(n, pc[p], req[p]) /\ ~HoldsImage(n, pc[p], req[p])
  BY <1>3 DEF Holds, HoldsImage, Builds
<1>5. pc'[p] # "restore" /\ req'[p].kind \in {"restart", "none"}
  BY <1>2, <1>3, Went, Returned DEF NoRequest
<1>6. Swept(L, M, pc[p], req[p])'
  BY <1>5 DEF Swept, Builds
<1>7. Balanced(L, M, pc[p])'
  BY <1>1, <1>2, <1>5, Unpaid DEF Booked
<1>8. /\ \A c \in containers' : \E d \in containers :
           c.rel = d.rel /\ c.img = d.img /\ c.svc = d.svc
      /\ \A d \in containers : \E c \in containers' :
           c.rel = d.rel /\ c.img = d.img /\ c.svc = d.svc
  <2>1. CASE UNCHANGED containers
    BY <2>1
  <2>2. ASSUME NEW C \in SUBSET containers, NEW up \in BOOLEAN,
               containers' = (containers \ C) \cup {[d EXCEPT !.up = up] : d \in C}
        PROVE  /\ \A c \in containers' : \E d \in containers :
                    c.rel = d.rel /\ c.img = d.img /\ c.svc = d.svc
               /\ \A d \in containers : \E c \in containers' :
                    c.rel = d.rel /\ c.img = d.img /\ c.svc = d.svc
    <3>1. /\ \A c \in containers' : \E d \in containers :
               /\ c.rel = d.rel /\ c.img = d.img /\ c.svc = d.svc
               /\ c = IF d \in C THEN [d EXCEPT !.up = up] ELSE d
          /\ \A d \in containers : \E c \in containers' :
               c.rel = d.rel /\ c.img = d.img /\ c.svc = d.svc
      BY <2>2, Restarting
    <3> QED BY <3>1
  <2> QED BY <2>1, <2>2, RestartedAre
<1>9. \A n : /\ Exists(n)' => Exists(n)
             /\ Recorded(n) => Recorded(n)'
             /\ Retains(n) => Retains(n)'
  BY <1>2, <1>8 DEF Exists, Recorded, Retains
<1>10. \A i : InUse(i) => InUse(i)'
  BY <1>8 DEF InUse
<1>11. \A n : Exists(n)' => Recorded(n)' \/ n \in L
  BY <1>1, <1>4, <1>9 DEF Booked, Covered
<1>12. \A i \in images' : InUse(i)' \/ Retains(i.img)' \/ i.img \in L
  BY <1>1, <1>2, <1>4, <1>9, <1>10 DEF Booked, Covered
<1>13. \A c \in containers' : Recorded(c.rel)' \/ <<c.rel, c.svc>> \in M
  BY <1>1, <1>4, <1>8, <1>9 DEF Booked, Covered
<1>14. Covered(L, M, pc[p], req[p])'
  BY <1>11, <1>12, <1>13 DEF Covered
<1> QED BY <1>6, <1>7, <1>14 DEF Ledger, Booked

LEMMA WorkLedger ==
    ASSUME IInv, NEW p \in Procs, Sound(p), Upright(p), Ledger(p), MaxPrevious > 0, Work(p)
    PROVE  Ledger(p)'
<1>1. CASE Release(p)
  BY <1>1, BeginLedger, LockLedger, BuildLedger, NetworkLedger, StartLedger, SaveLedger,
     RestoreLedger, RecordLedger DEF Release
<1>2. CASE Cleanup(p)
  BY <1>2, RemoveContainerLedger, RemoveNetworkLedger, RemoveImagesLedger DEF Cleanup
<1>3. CASE Other(p)
  BY <1>3, ListLedger, RemoveVersionsLedger, ClearLedger, DeleteRecordLedger, RestartsLedger
  DEF Other
<1> QED BY <1>1, <1>2, <1>3, BeginLedger DEF Work

\* A request holds one number at a time: the images of its candidate have that of
\* the candidate's release.
LEMMA OneNumber ==
    ASSUME IInv, NEW p \in Procs, Sound(p)
    PROVE  \E x : \A n : Holds(n, pc[p], req[p]) \/ HoldsImage(n, pc[p], req[p]) => n = x
<1> DEFINE r == req[p]
<1> DEFINE s == pc[p]
<1> USE DEF IInv
<1>1. CASE r.kind \notin Builds
  <2>1. \A n : Holds(n, s, r) \/ HoldsImage(n, s, r) => n = r.old.img
    BY <1>1 DEF Holds, HoldsImage, Builds
  <2> QED BY <2>1
<1>2. CASE r.kind \in Builds /\ s \notin Preparing \cup Promoting \cup Cleaning
  <2>1. \A n : ~Holds(n, s, r) /\ ~HoldsImage(n, s, r)
    BY <1>2 DEF Holds, HoldsImage, Builds
  <2> QED BY <2>1
<1>3. CASE r.kind \in Builds /\ s \in Preparing \cup Promoting \cup Cleaning
  <2>1. s \notin {"idle", "lock"}
    BY <1>3 DEF Preparing, Promoting, Cleaning
  <2>2. r.kind # "rollback" => r.cand.img = r.cand.rel
    BY <1>3, <2>1 DEF Sound, Doing, Candidate
  <2>3. CASE s \in Preparing
    BY <1>3, <2>2, <2>3, HeldPreparing
  <2>4. CASE s \in Promoting
    <3>1. /\ \A n : Holds(n, s, r) <=> \/ r.restoring /\ n = r.cand.rel
                                       \/ ~r.restoring /\ r.kind # "deploy" /\ n = r.old.rel
          /\ \A n : HoldsImage(n, s, r) <=> r.restoring /\ n = r.cand.img /\ r.kind # "rollback"
      BY <1>3, <2>4, HeldPromoting
    <3>2. CASE r.restoring
      BY <2>2, <3>1, <3>2
    <3>3. CASE ~r.restoring
      BY <3>1, <3>3
    <3> QED BY <3>2, <3>3
  <2>5. CASE s \in Cleaning
    BY <1>3, <2>2, <2>5, HeldCleaning
  <2> QED BY <1>3, <2>3, <2>4, <2>5
<1> QED BY <1>1, <1>2, <1>3

LEMMA CrashLedger ==
    ASSUME IInv, NEW p \in Procs, Sound(p), Ledger(p), Crash
    PROVE  Ledger(p)'
<1> USE DEF IInv
<1>1. PICK L, M : Booked(L, M, p)
  BY DEF Ledger
<1>2. PICK x : \A n : Holds(n, pc[p], req[p]) \/ HoldsImage(n, pc[p], req[p]) => n = x
  BY OneNumber
<1>3. pc'[p] = "idle" /\ req'[p] = NoRequest
  BY ConstantsAssumption DEF Crash, Threads
<1>4. req'[p].kind = "none"
  BY <1>3 DEF NoRequest
<1>5. /\ UNCHANGED <<store, history, containers, networks, images, faults>>
      /\ crashes' = crashes + 1
  BY DEF Crash, docker
<1>6. PICK K : K = L \cup {x}
  OBVIOUS
<1>7. PICK N : N = M \cup {<<x, Frontend>>, <<x, Backend>>}
  OBVIOUS
<1>8. Swept(K, N, pc[p], req[p])'
  BY <1>3, <1>4 DEF Swept, Builds
<1>9. Balanced(K, N, pc[p])'
  <2>1. IsFiniteSet(L) /\ Cardinality(L) \in Nat /\ IsFiniteSet(M)
    BY <1>1, FS_CardinalityType DEF Booked, Balanced
  <2>2. IsFiniteSet({x}) /\ Cardinality({x}) = 1
    BY FS_Singleton
  <2>3. IsFiniteSet(K) /\ Cardinality(K) <= Cardinality(L) + 1
    BY <1>6, <2>1, <2>2, Joined
  <2>4. IsFiniteSet(N)
    <3>1. IsFiniteSet({<<x, Frontend>>}) /\ IsFiniteSet({<<x, Backend>>})
      BY FS_Singleton
    <3>2. IsFiniteSet(M \cup {<<x, Frontend>>})
      BY <2>1, <3>1, Joined
    <3>3. IsFiniteSet((M \cup {<<x, Frontend>>}) \cup {<<x, Backend>>})
      BY <3>1, <3>2, Joined
    <3>4. N = (M \cup {<<x, Frontend>>}) \cup {<<x, Backend>>}
      BY <1>7
    <3> QED BY <3>3, <3>4
  <2>5. \A m \in N : m[1] \in K
    BY <1>1, <1>6, <1>7 DEF Booked, Balanced
  <2>6. Cardinality(L) + Spare(pc[p]) <= faults + crashes
    BY <1>1 DEF Booked, Balanced
  <2>7. Spare(pc[p]) \in Nat /\ Spare(pc'[p]) = 0 /\ Cardinality(K) \in Nat
          /\ faults \in Nat /\ crashes \in Nat
    BY <1>3, <2>3, FS_CardinalityType DEF Spare, DataOK
  <2>8. Cardinality(K) + Spare(pc'[p]) <= faults' + crashes' /\ crashes' # 0
    BY <1>5, <2>1, <2>3, <2>6, <2>7
  <2> QED BY <2>3, <2>4, <2>5, <2>8 DEF Balanced, Spare
<1>10. /\ L \subseteq K /\ M \subseteq N /\ x \in K
       /\ \A c \in containers : <<x, c.svc>> \in N
  BY <1>6, <1>7 DEF DataOK, Container, Services
<1>11. \A n : (Recorded(n) => Recorded(n)') /\ (Retains(n) => Retains(n)')
  BY <1>5 DEF Recorded, Retains
<1> QED BY <1>1, <1>2, <1>5, <1>8, <1>9, <1>10, <1>11, Passed

\* Without a request, nothing was ever built beside what there was at the start.
Idle == (\A n : Exists(n) => Recorded(n)) /\ (\A i \in images : InUse(i))

LedgerInv ==
    /\ \A p \in Procs : Ledger(p)
    /\ Procs = {} => Idle

LEMMA LedgerStart ==
    ASSUME Init, IInv
    PROVE  LedgerInv
<1>1. Idle
  <2>1. CASE store = None
    <3>1. containers = {} /\ networks = {} /\ images = {}
      BY <2>1 DEF Init
    <3> QED BY <3>1 DEF Idle, Exists
  <2>2. CASE store # None
    <3>1. store = [rel |-> 0, img |-> 0]
      BY <2>2 DEF Init
    <3>2. containers = Pair(store) /\ images = ImagePair(0)
      BY <2>2 DEF Init
    <3>3. \A c \in containers : c.rel = store.rel
      BY <3>2 DEF Pair
    <3>4. \A n : Exists(n) => Recorded(n)
      BY <2>2, <3>3 DEF Init, Exists, Recorded
    <3>5. \A i \in images : InUse(i)
      <4> TAKE i \in images
      <4>1. i.img = 0 /\ i.svc \in Services
        BY <3>2 DEF ImagePair
      <4>2. store.img = 0
        BY <3>1
      <4>3. PICK c : c = [rel |-> store.rel, img |-> store.img, svc |-> i.svc, up |-> TRUE]
        OBVIOUS
      <4>4. c \in containers
        BY <3>2, <4>1, <4>3 DEF Pair
      <4>5. c.img = i.img /\ c.svc = i.svc
        BY <4>1, <4>2, <4>3
      <4> QED BY <4>4, <4>5 DEF InUse
    <3> QED BY <3>4, <3>5 DEF Idle
  <2> QED BY <2>1, <2>2
<1>2. ASSUME NEW p \in Procs PROVE Ledger(p)
  <2>1. pc[p] = "idle" /\ req[p] = NoRequest /\ faults = 0 /\ crashes = 0
    BY ConstantsAssumption DEF Init, Threads
  <2>2. req[p].kind = "none"
    BY <2>1 DEF NoRequest
  <2>3. PICK L : L = {}
    OBVIOUS
  <2>4. IsFiniteSet(L) /\ Cardinality(L) = 0
    BY <2>3, FS_EmptySet
  <2>5. Balanced(L, L, pc[p])
    BY <2>1, <2>3, <2>4 DEF Balanced, Spare
  <2>6. Covered(L, L, pc[p], req[p])
    BY <1>1 DEF Idle, Covered, Exists
  <2>7. Swept(L, L, pc[p], req[p])
    BY <2>1, <2>2 DEF Swept, Builds
  <2> QED BY <2>5, <2>6, <2>7 DEF Ledger, Booked
<1> QED BY <1>1, <1>2 DEF LedgerInv

\* main() synchronizes the proxy, or nothing happens.
LEMMA StillLedger ==
    ASSUME IInv, PairInv, NEW p \in Procs, Ledger(p), Sync(Main) \/ UNCHANGED vars
    PROVE  Ledger(p)'
<1> USE DEF IInv
<1>1. PICK L, M : Booked(L, M, p)
  BY DEF Ledger
<1>2. /\ UNCHANGED <<store, history, containers, networks, images>>
      /\ pc'[p] = pc[p] /\ req'[p] = req[p] /\ faults <= faults' /\ faults' \in Nat
      /\ crashes' = crashes
  <2>1. CASE Sync(Main)
    <3>1. pc[Main] = "sync" /\ req[Main].kind = "boot"
      BY <2>1 DEF Sync, ControlOK
    <3>2. Finish(Main) /\ (Fault \/ NoFault)
      BY <2>1, <3>1 DEF Sync, AfterSync
    <3>3. p # Main
      BY ConstantsAssumption
    <3>4. pc'[p] = pc[p] /\ req'[p] = req[p]
      BY <3>2, <3>3 DEF Finish, Goto, ControlOK, Threads
    <3>5. faults <= faults' /\ faults' \in Nat /\ crashes' = crashes
      BY <3>2 DEF Fault, NoFault, bounds, DataOK
    <3> QED BY <2>1, <3>4, <3>5 DEF Sync, docker
  <2>2. CASE UNCHANGED vars
    BY <2>2 DEF vars, docker, bounds, DataOK
  <2> QED BY <2>1, <2>2
<1>3. Balanced(L, M, pc[p])'
  <2>1. Cardinality(L) \in Nat /\ Cardinality(M) \in Nat
    BY <1>1, FS_CardinalityType DEF Booked, Balanced
  <2>2. Spare(pc[p]) \in Nat
    BY DEF Spare
  <2>3. /\ IsFiniteSet(L) /\ IsFiniteSet(M)
        /\ \A m \in M : m[1] \in L
        /\ Cardinality(L) + Spare(pc[p]) <= faults + crashes
        /\ crashes = 0 => Cardinality(M) + Spare(pc[p]) <= faults
    BY <1>1 DEF Booked, Balanced
  <2>4. Cardinality(L) + Spare(pc[p]) <= faults' + crashes
    BY <1>2, <2>1, <2>2, <2>3 DEF DataOK
  <2>5. crashes = 0 => Cardinality(M) + Spare(pc[p]) <= faults'
    BY <1>2, <2>1, <2>2, <2>3 DEF DataOK
  <2> QED BY <1>2, <2>3, <2>4, <2>5 DEF Balanced, Spare
<1>4. \A i : InUse(i) <=> InUse(i)'
  BY <1>2 DEF InUse
<1>5. \A n : Retains(n) <=> Retains(n)'
  BY <1>2 DEF Retains
<1>6. Swept(L, M, pc[p], req[p])'
  BY <1>1, <1>2, <1>4, <1>5 DEF Booked, Swept
<1>7. /\ \A n : Holds(n, pc[p], req[p]) => Holds(n, pc[p], req[p])'
      /\ \A n : HoldsImage(n, pc[p], req[p]) => HoldsImage(n, pc[p], req[p])'
  BY <1>2 DEF Holds, HoldsImage
<1> QED BY <1>1, <1>2, <1>3, <1>6, <1>7, Undisturbed

LEMMA LedgerNext ==
    ASSUME Serial, MaxPrevious > 0, IInv, PairInv, StandInv, LedgerInv, [Next]_vars
    PROVE  LedgerInv'
<1>1. ASSUME NEW p \in Procs PROVE Ledger(p)'
  <2>1. Ledger(p) /\ Sound(p) /\ Upright(p)
    BY Alone DEF LedgerInv, StandInv, Upright
  <2>2. ASSUME NEW q \in Procs, Work(q) \/ Sync(q) PROVE Ledger(p)'
    BY <2>1, <2>2, WorkLedger, SyncLedger DEF Serial
  <2>3. ASSUME NEW t \in Threads, Sync(t) PROVE Ledger(p)'
    BY <2>1, <2>2, <2>3, StillLedger DEF Threads
  <2> QED BY <2>1, <2>2, <2>3, CrashLedger, StillLedger DEF Next, Work
<1>2. ASSUME Procs = {} PROVE Idle'
  <2>1. UNCHANGED <<store, containers, networks, images>>
    <3>1. (\E t \in Threads : Sync(t)) \/ Crash \/ UNCHANGED vars
      BY <1>2 DEF Next
    <3> QED BY <3>1 DEF Sync, Crash, vars, docker
  <2> QED BY <1>2, <2>1 DEF LedgerInv, Idle, Exists, Recorded, InUse
<1> QED BY <1>1, <1>2 DEF LedgerInv

\* With everybody at rest nothing is held, and the ledger has every stray.
LEMMA StraysCounted ==
    ASSUME IInv, StandInv, LedgerInv
    PROVE  StraysBounded
<1> SUFFICES ASSUME AllIdle
             PROVE  /\ Cardinality(StrayReleases) + Cardinality(StrayImages) <= faults + crashes
                    /\ crashes = 0 =>
                         Cardinality({c \in containers : c.rel \in StrayReleases}) <= faults
  BY DEF StraysBounded
<1> USE DEF IInv
<1> DEFINE C == {c \in containers : c.rel \in StrayReleases}
<1>1. faults \in Nat /\ crashes \in Nat
  BY DEF DataOK
<1>2. \A n \in StrayReleases : Exists(n) /\ ~Recorded(n)
  BY DEF StrayReleases, Exists, Recorded
<1>3. \A n \in StrayImages : /\ n \notin StrayReleases
                             /\ \E i \in images : i.img = n /\ ~InUse(i) /\ ~Retains(i.img)
  BY DEF StrayImages, Retains
<1>4. CASE Procs = {}
  <2>1. Idle
    BY <1>4 DEF LedgerInv
  <2>2. StrayReleases = {} /\ StrayImages = {}
    BY <1>2, <1>3, <2>1 DEF Idle
  <2>3. C = {}
    BY <2>2
  <2> QED BY <1>1, <2>2, <2>3, FS_EmptySet
<1>5. ASSUME NEW p \in Procs
      PROVE  /\ Cardinality(StrayReleases) + Cardinality(StrayImages) <= faults + crashes
             /\ crashes = 0 => Cardinality(C) <= faults
  <2>1. pc[p] = "idle"
    BY DEF AllIdle, Threads
  <2>2. PICK L, M : Booked(L, M, p)
    BY DEF LedgerInv, Ledger
  <2>3. \A n : ~Holds(n, pc[p], req[p]) /\ ~HoldsImage(n, pc[p], req[p])
    BY <2>1 DEF Holds, HoldsImage, Preparing, Promoting, Cleaning
  <2>4. StrayReleases \subseteq L /\ StrayImages \subseteq L
    BY <1>2, <1>3, <2>2, <2>3 DEF Booked, Covered
  <2>5. /\ IsFiniteSet(L) /\ IsFiniteSet(M)
        /\ Cardinality(L) <= faults + crashes
        /\ crashes = 0 => Cardinality(M) <= faults
    <3>1. Spare(pc[p]) = 0
      BY <2>1 DEF Spare
    <3>2. Balanced(L, M, pc[p])
      BY <2>2 DEF Booked
    <3>3. IsFiniteSet(L) /\ IsFiniteSet(M)
      BY <3>2 DEF Balanced
    <3>4. Cardinality(L) \in Nat /\ Cardinality(M) \in Nat
      BY <3>3, FS_CardinalityType
    <3>5. Cardinality(L) + Spare(pc[p]) <= faults + crashes
            /\ (crashes = 0 => Cardinality(M) + Spare(pc[p]) <= faults)
      BY <3>2 DEF Balanced
    <3> QED BY <1>1, <3>1, <3>3, <3>4, <3>5
  <2>6. IsFiniteSet(StrayReleases) /\ IsFiniteSet(StrayImages)
    BY <2>4, <2>5, FS_Subset
  <2>7. Cardinality(StrayReleases) + Cardinality(StrayImages) <= Cardinality(L)
    <3>1. StrayReleases \cap StrayImages = {}
      BY <1>3
    <3>2. Cardinality(StrayReleases \cup StrayImages)
            = Cardinality(StrayReleases) + Cardinality(StrayImages) - Cardinality({})
      BY <2>6, <3>1, FS_Union
    <3>3. Cardinality(StrayReleases \cup StrayImages) <= Cardinality(L)
      BY <2>4, <2>5, FS_Subset
    <3>4. /\ Cardinality({}) = 0
          /\ Cardinality(StrayReleases) \in Nat /\ Cardinality(StrayImages) \in Nat
      BY <2>6, FS_EmptySet, FS_CardinalityType
    <3> QED BY <3>2, <3>3, <3>4
  <2>8. IsFiniteSet(C) /\ Cardinality(C) <= Cardinality(M)
    <3> DEFINE f == [c \in C |-> <<c.rel, c.svc>>]
    <3>1. \A c \in C : <<c.rel, c.svc>> \in M
      BY <1>2, <2>2, <2>3 DEF Booked, Covered
    <3>2. \A c, d \in C : c.rel = d.rel /\ c.svc = d.svc => c = d
      BY DEF StandInv, Docked
    <3>3. f \in [C -> M]
      BY <3>1
    <3>4. \A c, d \in C : f[c] = f[d] => c = d
      BY <3>2
    <3>5. f \in Injection(C, M)
      BY <3>3, <3>4 DEF Injection, IsInjective
    <3> HIDE DEF f, C
    <3> QED BY <2>5, <3>5, FS_Injection
  <2>9. /\ Cardinality(L) \in Nat
        /\ Cardinality(StrayReleases) \in Nat /\ Cardinality(StrayImages) \in Nat
    BY <2>5, <2>6, FS_CardinalityType
  <2>10. Cardinality(C) \in Nat /\ Cardinality(M) \in Nat
    BY <2>5, <2>8, FS_CardinalityType
  <2> QED BY <1>1, <2>5, <2>7, <2>8, <2>9, <2>10
<1> QED BY <1>4, <1>5

\* Once everybody is at rest, every failure and every crash there ever was accounts
\* for at most one release whose containers or network the record does not name, or
\* one pair of images that neither a container nor the history uses; and where
\* nothing crashed, every failure for at most one such container.  A failed switch
\* whose undoing fails too leaves a whole pair, and is two failures.  What
\* cleanupFullstackRelease cannot remove, it passes by (fullstack_runtime.go:316).
\* Of one request at a time, with a history that keeps at least one version
\* (config.go: three).
THEOREM StraysAreBounded ==
    ASSUME Serial, MaxPrevious > 0
    PROVE  Spec => []StraysBounded
<1>1. Init => IInv /\ StandInv /\ LedgerInv
  BY InitOK, StandStart, LedgerStart
<1>2. (IInv /\ PairInv) /\ StandInv /\ LedgerInv /\ [Next]_vars => StandInv' /\ LedgerInv'
  BY StandNext, LedgerNext
<1>3. (IInv /\ PairInv) /\ StandInv /\ LedgerInv => StraysBounded
  BY StraysCounted
<1> QED BY <1>1, <1>2, <1>3, PairHolds, PTL DEF Spec
==============================================================================
