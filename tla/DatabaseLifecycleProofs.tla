----------------------- MODULE DatabaseLifecycleProofs -----------------------
(***************************************************************************)
(* Proofs about DatabaseLifecycle, for any applications, databases and     *)
(* requests, and any bound on failures, expiries, crashes and attachments. *)
(*                                                                         *)
(* TypeOK is inductive: with the types it says which steps a request of    *)
(* each kind takes, and what it knows there.  It is proved in two halves,  *)
(* DataOK and ControlOK.  That the two mutexes are held exactly in their   *)
(* sections builds on it.                                                  *)
(***************************************************************************)
EXTENDS DatabaseLifecycle, TLAPS

USE DEF Kinds, Attaches, Cutovers, Guarded, Starting, Compensating, Candidacy,
        Detaching, Steps, Threads

DataOK ==
    /\ store \in Routes /\ routes \in Routes
    /\ attachments \subseteq Attachment
    /\ containers \subseteq Container
    /\ clock \in Nat /\ faults \in Nat /\ expiries \in Nat /\ crashes \in Nat

MainOK == pc[Main] \in {"idle", "sync"} /\ req[Main].kind \in {"none", "boot"}

ControlOK ==
    /\ mu \in Procs \cup {None} /\ dbMu \in Procs \cup {None}
    /\ pc \in [Threads -> Steps]
    /\ req \in [Threads -> Request]
    /\ \A p \in Procs : RequestOK(p)
    /\ MainOK

LEMMA TypeParts == (TypeOK <=> DataOK /\ ControlOK) /\ (TypeOK' <=> DataOK' /\ ControlOK')
BY DEF TypeOK, DataOK, ControlOK, MainOK

-----------------------------------------------------------------------------
(***************************************************************************)
(* Steps that many actions share.                                          *)
(***************************************************************************)
LEMMA NoRequestType ==
    /\ NoRequest \in Request /\ NoRequest.kind = "none"
    /\ [NoRequest EXCEPT !.kind = "boot"] \in Request
    /\ [NoRequest EXCEPT !.kind = "boot"].kind = "boot"
BY DEF NoRequest, Request, Link

\* A return leaves the control state well formed, whoever returns.
LEMMA FinishType ==
    ASSUME ControlOK, NEW t \in Threads, Finish(t)
    PROVE  ControlOK'
<1>1. /\ pc' = [pc EXCEPT ![t] = "idle"] /\ req' = [req EXCEPT ![t] = NoRequest]
      /\ mu' \in {mu, None} /\ dbMu' \in {dbMu, None}
  BY DEF Finish, Goto, Set
<1>2. \A p \in Procs : RequestOK(p)'
  BY <1>1, NoRequestType DEF ControlOK, RequestOK, StepOfKind, HasOld, HasCandidate
<1>3. MainOK'
  BY <1>1, NoRequestType, ConstantsAssumption DEF ControlOK, MainOK
<1> QED
  BY <1>1, <1>2, <1>3, NoRequestType DEF ControlOK

\* So does a step of a request whose new locals fit its new place.
LEMMA StepType ==
    ASSUME ControlOK, NEW p \in Procs, NEW s \in Steps, NEW r \in Request,
           pc' = [pc EXCEPT ![p] = s], req' = [req EXCEPT ![p] = r],
           mu' \in Procs \cup {None}, dbMu' \in Procs \cup {None},
           RequestOK(p)'
    PROVE  ControlOK'
<1>1. \A q \in Procs \ {p} : RequestOK(q)'
  BY DEF ControlOK, RequestOK, StepOfKind, HasOld, HasCandidate
<1>2. MainOK'
  BY ConstantsAssumption DEF ControlOK, MainOK
<1> QED
  BY <1>1, <1>2 DEF ControlOK

\* Locals assigned one or several at a time.
LEMMA OldType ==
    ASSUME NEW r \in Request, NEW v \in Record \cup {None}
    PROVE  /\ [r EXCEPT !.old = v, !.orig = v] \in Request
           /\ [r EXCEPT !.old = v] \in Request
           /\ [r EXCEPT !.old = v, !.saved = TRUE] \in Request
           /\ [r EXCEPT !.cand = v] \in Request
BY DEF Request

LEMMA LocalsType ==
    ASSUME NEW r \in Request, NEW l \in Link
    PROVE  /\ [r EXCEPT !.att = l] \in Request
           /\ [r EXCEPT !.restoring = TRUE] \in Request
BY DEF Request

\* What a request at work knows.
LEMMA Locals ==
    ASSUME ControlOK, NEW p \in Procs, pc[p] # "idle"
    PROVE  /\ req[p] \in Request /\ pc[p] \in Steps
           /\ req[p].app \in Apps /\ req[p].att \in Link /\ req[p].kind \in Kinds
           /\ StepOfKind(p)
           /\ HasOld(p) => req[p].old \in Record
           /\ HasCandidate(p) => req[p].cand \in Record
           /\ req[p].kind \in Attaches /\ pc[p] # "lock_db" => req[p].orig \in Record
BY DEF ControlOK, RequestOK, Request

LEMMA RecordType ==
    ASSUME NEW r \in Record, NEW l \in Link, NEW d \in BOOLEAN
    PROVE  /\ [r EXCEPT !.att = l] \in Record
           /\ [r EXCEPT !.detached = d] \in Record
           /\ [r EXCEPT !.att = l, !.detached = d] \in Record
           /\ r.name \in Nat /\ r.att \in Link
BY DEF Record

LEMMA CandidateType ==
    ASSUME DataOK, ControlOK, NEW p \in Procs, pc[p] = "start"
    PROVE  /\ CandidateRecord(p) \in Record
           /\ [app |-> req[p].app, name |-> CandidateRecord(p).name,
               uses |-> CandidateRecord(p).att] \in Container
<1>1. req[p].kind \in Starting /\ req[p].app \in Apps /\ req[p].att \in Link
  BY Locals DEF StepOfKind
<1>2. req[p].kind # "deploy" => req[p].old \in Record
  BY <1>1, Locals DEF HasOld
<1>3. CandidateName(p) \in Nat
  <2>1. CASE req[p].kind = "deploy"   BY <2>1 DEF CandidateName
  <2>2. CASE req[p].kind = "reattach" BY <2>2, <1>2 DEF CandidateName, Record
  <2>3. CASE req[p].kind \in Cutovers  BY <2>3 DEF CandidateName, DataOK
  <2> QED BY <1>1, <2>1, <2>2, <2>3
<1>4. (IF req[p].kind \in Cutovers THEN req[p].old.att ELSE req[p].att) \in Link
  BY <1>1, <1>2 DEF Record
<1> QED
  BY <1>1, <1>3, <1>4 DEF CandidateRecord, Record, Container

-----------------------------------------------------------------------------
(***************************************************************************)
(* What the records, MiniBase, Docker and Caddy hold.                      *)
(***************************************************************************)
LEMMA SaveType ==
    ASSUME DataOK, NEW a \in Apps, NEW r \in Record \cup {None}, Save(a, r)
    PROVE  store' \in Routes
BY DEF DataOK, Save, Routes

LEMMA BoundsType ==
    ASSUME DataOK, Fault \/ NoFault \/ Expiry
    PROVE  faults' \in Nat /\ expiries' \in Nat /\ crashes' \in Nat
BY DEF DataOK, Fault, NoFault, Expiry, bounds

\* A step that may save a record and does nothing else to the data.
LEMMA StoreStep ==
    ASSUME DataOK, NEW a \in Apps, NEW r \in Record \cup {None},
           store' = store \/ Save(a, r), Fault \/ NoFault,
           UNCHANGED <<attachments, containers, routes, clock>>
    PROVE  DataOK'
BY SaveType, BoundsType DEF DataOK

LEMMA WorkData ==
    ASSUME TypeOK, NEW p \in Procs, Lock(p) \/ Work(p)
    PROVE  DataOK'
<1> USE TypeParts
<1> DEFINE a == req[p].app
<1>k. pc[p] # "idle"
  BY DEF Lock, Work, LockDatabase, LockRelease, LockReattach, LockDetach,
         CreateAttachment, SaveAttachment, Undo, Unsave, Resave, PutBack, StartOK,
         StartFailed, Verify, Cleanup, Promote, Restore, Retire, Mark, StopDeployment,
         ReleaseAttachment, ClearAttachment, DeleteRecord
<1>l. /\ a \in Apps /\ req[p].att \in Link /\ StepOfKind(p)
      /\ HasOld(p) => req[p].old \in Record
      /\ HasCandidate(p) => req[p].cand \in Record
      /\ req[p].kind \in Attaches /\ pc[p] # "lock_db" => req[p].orig \in Record
  BY <1>k, Locals
<1>1. CASE LockDatabase(p)
  BY <1>1 DEF DataOK, LockDatabase, bounds
<1>2. CASE LockRelease(p)
  BY <1>2 DEF DataOK, LockRelease, bounds
<1>3. CASE LockReattach(p)
  BY <1>3 DEF DataOK, LockReattach, bounds
<1>4. CASE LockDetach(p)
  BY <1>4 DEF DataOK, LockDetach, bounds
<1>5. CASE StartFailed(p)
  BY <1>5 DEF DataOK, StartFailed, bounds
<1>6. CASE Verify(p)
  BY <1>6 DEF DataOK, Verify, bounds
<1>7. CASE SaveAttachment(p)
  <2>1. [req[p].old EXCEPT !.att = req[p].att] \in Record \cup {None}
    BY <1>7, <1>l, RecordType DEF SaveAttachment, StepOfKind, HasOld
  <2>2. /\ (store' = store \/ Save(a, [req[p].old EXCEPT !.att = req[p].att])) /\ (Fault \/ NoFault)
        /\ UNCHANGED <<attachments, containers, routes, clock>>
    BY <1>7 DEF SaveAttachment
  <2> QED BY <2>1, <2>2, <1>l, StoreStep
<1>8. CASE Unsave(p)
  <2>1. req[p].orig \in Record \cup {None}
    BY <1>8, <1>l DEF Unsave, PutBack, StepOfKind
  <2>2. /\ (store' = store \/ Save(a, req[p].orig)) /\ (Fault \/ NoFault)
        /\ UNCHANGED <<attachments, containers, routes, clock>>
    BY <1>8 DEF Unsave, PutBack
  <2> QED BY <2>1, <2>2, <1>l, StoreStep
<1>9. CASE Resave(p)
  <2>1. req[p].old \in Record \cup {None}
    BY <1>9, <1>l DEF Resave, PutBack, StepOfKind, HasOld
  <2>2. /\ (store' = store \/ Save(a, req[p].old)) /\ (Fault \/ NoFault)
        /\ UNCHANGED <<attachments, containers, routes, clock>>
    BY <1>9 DEF Resave, PutBack
  <2> QED BY <2>1, <2>2, <1>l, StoreStep
<1>10. CASE Promote(p)
  <2>1. req[p].cand \in Record \cup {None}
    BY <1>10, <1>l DEF Promote, StepOfKind, HasCandidate
  <2>2. /\ (store' = store \/ Save(a, req[p].cand)) /\ (Fault \/ NoFault)
        /\ UNCHANGED <<attachments, containers, routes, clock>>
    BY <1>10 DEF Promote
  <2> QED BY <2>1, <2>2, <1>l, StoreStep
<1>11. CASE Restore(p)
  <2>1. CASE req[p].kind = "deploy"
    <3>1. /\ (store' = store \/ Save(a, None)) /\ (Fault \/ NoFault)
          /\ UNCHANGED <<attachments, containers, routes, clock>>
      BY <1>11, <2>1 DEF Restore
    <3> QED BY <3>1, <1>l, StoreStep
  <2>2. CASE req[p].kind # "deploy"
    <3>1. /\ (store' = store \/ Save(a, req[p].old)) /\ (Fault \/ NoFault)
          /\ UNCHANGED <<attachments, containers, routes, clock>>
      BY <1>11, <2>2 DEF Restore
    <3>2. req[p].old \in Record
      BY <1>11, <2>2, <1>l, <1>k, Locals DEF Restore, HasOld
    <3> QED BY <3>1, <3>2, <1>l, StoreStep
  <2> QED BY <2>1, <2>2
<1>12. CASE Mark(p)
  <2>1. [req[p].old EXCEPT !.detached = TRUE] \in Record \cup {None}
    BY <1>12, <1>l, RecordType DEF Mark, StepOfKind, HasOld
  <2>2. /\ (store' = store \/ Save(a, [req[p].old EXCEPT !.detached = TRUE])) /\ (Fault \/ NoFault)
        /\ UNCHANGED <<attachments, containers, routes, clock>>
    BY <1>12 DEF Mark
  <2> QED BY <2>1, <2>2, <1>l, StoreStep
<1>13. CASE ClearAttachment(p)
  <2>1. [req[p].old EXCEPT !.att = None, !.detached = TRUE] \in Record \cup {None}
    BY <1>13, <1>l, RecordType DEF ClearAttachment, StepOfKind, HasOld, Link
  <2>2. /\ (store' = store \/ Save(a, [req[p].old EXCEPT !.att = None, !.detached = TRUE])) /\ (Fault \/ NoFault)
        /\ UNCHANGED <<attachments, containers, routes, clock>>
    BY <1>13 DEF ClearAttachment
  <2> QED BY <2>1, <2>2, <1>l, StoreStep
<1>14. CASE DeleteRecord(p)
  <2>1. /\ (store' = store \/ Save(a, None)) /\ (Fault \/ NoFault)
        /\ UNCHANGED <<attachments, containers, routes, clock>>
    BY <1>14 DEF DeleteRecord
  <2> QED BY <2>1, <1>l, StoreStep
<1>15. CASE CreateAttachment(p)
  <2>1. clock' \in {clock, clock + 1} /\ (Fault \/ NoFault)
        /\ UNCHANGED <<store, containers, routes>>
    BY <1>15 DEF CreateAttachment
  <2>2. \A d \in Databases : [id |-> clock + 1, db |-> d, app |-> a] \in Attachment
    BY <1>l DEF DataOK, Attachment
  <2>3. attachments' \subseteq Attachment
    BY <1>15, <2>2 DEF CreateAttachment, DataOK
  <2> QED BY <2>1, <2>3, BoundsType DEF DataOK
<1>16. CASE Undo(p)
  <2>1. /\ Fault \/ NoFault \/ Expiry
        /\ attachments' \subseteq attachments
        /\ UNCHANGED <<store, containers, routes, clock>>
    BY <1>16 DEF Undo
  <2> QED BY <2>1, BoundsType DEF DataOK
<1>17. CASE ReleaseAttachment(p)
  <2>1. /\ Fault \/ NoFault \/ Expiry
        /\ attachments' \subseteq attachments
        /\ UNCHANGED <<store, containers, routes, clock>>
    BY <1>17 DEF ReleaseAttachment
  <2> QED BY <2>1, BoundsType DEF DataOK
<1>18. CASE StartOK(p)
  <2>1. /\ clock' \in {clock, clock + 1}
        /\ containers' = containers \cup {[app |-> a, name |-> CandidateRecord(p).name,
                                           uses |-> CandidateRecord(p).att]}
        /\ UNCHANGED <<store, attachments, routes, faults, expiries, crashes>>
    BY <1>18 DEF StartOK, bounds
  <2>2. [app |-> a, name |-> CandidateRecord(p).name, uses |-> CandidateRecord(p).att]
           \in Container
    BY <1>18, CandidateType DEF StartOK
  <2> QED BY <2>1, <2>2 DEF DataOK
<1>19. CASE Cleanup(p)
  <2>1. /\ Fault \/ NoFault
        /\ containers' \subseteq containers
        /\ UNCHANGED <<store, attachments, routes, clock>>
    BY <1>19 DEF Cleanup
  <2> QED BY <2>1, BoundsType DEF DataOK
<1>20. CASE Retire(p)
  <2>1. /\ Fault \/ NoFault
        /\ containers' \subseteq containers
        /\ UNCHANGED <<store, attachments, routes, clock>>
    BY <1>20 DEF Retire
  <2> QED BY <2>1, BoundsType DEF DataOK
<1>21. CASE StopDeployment(p)
  <2>1. /\ Fault \/ NoFault
        /\ containers' \subseteq containers
        /\ UNCHANGED <<store, attachments, routes, clock>>
    BY <1>21 DEF StopDeployment
  <2> QED BY <2>1, BoundsType DEF DataOK
<1> QED
  BY <1>1, <1>2, <1>3, <1>4, <1>5, <1>6, <1>7, <1>8, <1>9, <1>10, <1>11, <1>12, <1>13, <1>14, <1>15, <1>16, <1>17, <1>18, <1>19, <1>20, <1>21
     DEF Lock, Work

-----------------------------------------------------------------------------
(***************************************************************************)
(* Where the requests are and what they know.                              *)
(***************************************************************************)
\* A step that leaves the locals alone.
LEMMA GoType ==
    ASSUME ControlOK, NEW p \in Procs, NEW s \in Steps,
           pc' = [pc EXCEPT ![p] = s], UNCHANGED req,
           mu' \in Procs \cup {None}, dbMu' \in Procs \cup {None},
           RequestOK(p)'
    PROVE  ControlOK'
<1>1. req' = [req EXCEPT ![p] = req[p]] /\ req[p] \in Request
  BY DEF ControlOK
<1> QED BY <1>1, StepType

\* Which kinds of request may be at a step.
Places(s, kind) ==
    /\ s = "idle" <=> kind = "none"
    /\ s = "lock_db" => kind \in Guarded
    /\ s = "save_att" => kind \in Attaches
    /\ s \in {"unsave", "resave"} => kind = "attach"
    /\ s \in {"create", "undo"} => kind \in Starting \ {"release"}
    /\ s \in {"start", "verify", "cleanup", "promote"} => kind \in Starting
    /\ s = "retire" => kind \in Cutovers
    /\ s \in {"mark", "clear"} => kind = "detach"
    /\ s \in {"stop", "release_att"} => kind \in {"detach", "delete"}
    /\ s = "rm_record" => kind = "delete"

\* Past the locks a request keeps what it has read and may go on to any place of
\* its kind, and to those of a candidate only with one.
LEMMA Onward ==
    ASSUME ControlOK, NEW p \in Procs, NEW s \in Steps, RequestOK(p),
           pc[p] \notin {"idle", "lock_db", "lock"}, Goto(p, s), UNCHANGED req,
           mu' \in Procs \cup {None}, dbMu' \in Procs \cup {None},
           Places(s, req[p].kind),
           s \in Candidacy \ {"start"} /\ req[p].kind \in Starting => HasCandidate(p)
    PROVE  ControlOK'
<1>1. pc' = [pc EXCEPT ![p] = s] /\ pc'[p] = s /\ req'[p] = req[p]
  BY DEF Goto, ControlOK
<1>2. StepOfKind(p)'
  BY <1>1 DEF Places, StepOfKind
<1>3. HasOld(p)' => HasOld(p)
  BY <1>1 DEF HasOld
<1>4. HasCandidate(p)' => HasCandidate(p)
  BY <1>1 DEF HasCandidate
<1>5. RequestOK(p)'
  <2>1. req[p].kind \in Kinds /\ req[p].app \in Apps
    BY DEF RequestOK
  <2>2. req[p].kind \in Attaches => req[p].orig \in Record
    BY DEF RequestOK
  <2>3. HasOld(p)' => req'[p].old \in Record
    BY <1>1, <1>3 DEF RequestOK
  <2>4. HasCandidate(p)' => req'[p].cand \in Record
    BY <1>1, <1>4 DEF RequestOK
  <2> QED BY <1>1, <1>2, <2>1, <2>2, <2>3, <2>4 DEF RequestOK
<1> QED BY <1>1, <1>5, GoType

LEMMA WorkControl ==
    ASSUME TypeOK, NEW p \in Procs, Lock(p) \/ Work(p)
    PROVE  ControlOK'
<1> USE TypeParts
<1>f. CASE Finish(p)
  BY <1>f, FinishType
<1> SUFFICES ASSUME ~Finish(p) PROVE ControlOK'
  BY <1>f
<1>k. pc[p] # "idle" /\ pc \in [Threads -> Steps] /\ req \in [Threads -> Request]
      /\ mu \in Procs \cup {None} /\ dbMu \in Procs \cup {None} /\ RequestOK(p)
  BY DEF ControlOK, Lock, Work, LockDatabase, LockRelease, LockReattach, LockDetach,
         CreateAttachment, SaveAttachment, Undo, Unsave, Resave, PutBack, StartOK,
         StartFailed, Verify, Cleanup, Promote, Restore, Retire, Mark, StopDeployment,
         ReleaseAttachment, ClearAttachment, DeleteRecord
<1>r. req[p] \in Request
  BY <1>k
<1>1. CASE LockDatabase(p)
  <2>1. CASE req[p].kind \in Attaches
    <3>0. store[req[p].app] \in Record
      BY <1>1, <2>1, <1>k DEF LockDatabase, Attachable, DataOK, Routes, RequestOK
    <3>1. /\ pc' = [pc EXCEPT ![p] = "create"]
          /\ req' = [req EXCEPT ![p] = [req[p] EXCEPT !.old = store[req[p].app], !.orig = store[req[p].app]]]
          /\ mu' \in Procs \cup {None} /\ dbMu' \in Procs \cup {None}
      BY <1>1, <2>1, <1>k DEF LockDatabase, Goto, Go, Set, locks
    <3>2. [req[p] EXCEPT !.old = store[req[p].app], !.orig = store[req[p].app]] \in Request
      BY <1>r, <3>0, OldType
    <3>3. RequestOK(p)'
      BY <1>1, <2>1, <1>k, <3>1, <3>2, <3>0 DEF LockDatabase, RequestOK, StepOfKind, HasOld, HasCandidate, Request
    <3> QED BY <3>1, <3>2, <3>3, StepType
  <2>2. CASE req[p].kind \notin Attaches
    <3>1. /\ pc' = [pc EXCEPT ![p] = "lock"] /\ UNCHANGED req
          /\ mu' \in Procs \cup {None} /\ dbMu' \in Procs \cup {None}
      BY <1>1, <2>2, <1>k DEF LockDatabase, Goto
    <3>2. RequestOK(p)'
      BY <1>1, <2>2, <1>k, <3>1 DEF LockDatabase, RequestOK, StepOfKind, HasOld, HasCandidate
    <3> QED BY <3>1, <3>2, GoType
  <2> QED BY <2>1, <2>2
<1>2. CASE LockRelease(p)
  BY <1>k, <1>2, GoType
     DEF LockRelease, Goto, Go, locks, RequestOK, StepOfKind, HasOld, HasCandidate
<1>3. CASE LockReattach(p)
  <2>0. store[req[p].app] \in Record
    BY <1>3, <1>k DEF LockReattach, DataOK, Routes, RequestOK
  <2>1. /\ pc' = [pc EXCEPT ![p] = "create"]
        /\ req' = [req EXCEPT ![p] = [req[p] EXCEPT !.old = store[req[p].app]]]
        /\ mu' \in Procs \cup {None} /\ dbMu' \in Procs \cup {None}
    BY <1>3, <1>k DEF LockReattach, Goto, Go, Set, locks
  <2>2. [req[p] EXCEPT !.old = store[req[p].app]] \in Request
    BY <1>r, <2>0, OldType
  <2>3. RequestOK(p)'
    BY <1>3, <1>k, <2>1, <2>2, <2>0 DEF LockReattach, RequestOK, StepOfKind, HasOld, HasCandidate, Request
  <2> QED BY <2>1, <2>2, <2>3, StepType
<1>4. CASE LockDetach(p)
  <2>0. store[req[p].app] \in Record
    BY <1>4, <1>k DEF LockDetach, DataOK, Routes, RequestOK
  <2>1. /\ pc' = [pc EXCEPT ![p] = IF store[req[p].app].detached THEN "stop" ELSE "mark"]
        /\ req' = [req EXCEPT ![p] = [req[p] EXCEPT !.old = store[req[p].app]]]
        /\ mu' \in Procs \cup {None} /\ dbMu' \in Procs \cup {None}
    BY <1>4, <1>k DEF LockDetach, Goto, Go, Set, locks
  <2>2. [req[p] EXCEPT !.old = store[req[p].app]] \in Request
    BY <1>r, <2>0, OldType
  <2>3. RequestOK(p)'
    BY <1>4, <1>k, <2>1, <2>2, <2>0 DEF LockDetach, RequestOK, StepOfKind, HasOld, HasCandidate, Request
  <2> QED BY <2>1, <2>2, <2>3, StepType
<1>5. CASE CreateAttachment(p)
  <2>0. PICK d \in Databases :
            /\ req' = [req EXCEPT ![p] =
                  [req[p] EXCEPT !.att = [id |-> clock + 1, db |-> d, app |-> req[p].app]]]
            /\ pc' = [pc EXCEPT ![p] = IF req[p].kind \in Attaches THEN "save_att"
                                                                 ELSE "start"]
            /\ UNCHANGED locks
    BY <1>5 DEF CreateAttachment, Goto, Set
  <2> DEFINE r == [req[p] EXCEPT !.att = [id |-> clock + 1, db |-> d, app |-> req[p].app]]
  <2>1. [id |-> clock + 1, db |-> d, app |-> req[p].app] \in Link
    BY <1>k, <1>5 DEF DataOK, Attachment, Link, RequestOK, CreateAttachment
  <2>2. r \in Request
    BY <1>r, <2>1, LocalsType
  <2>3. RequestOK(p)'
    BY <1>5, <1>k, <2>0 DEF CreateAttachment, RequestOK, StepOfKind, HasOld, HasCandidate, Request
  <2> QED BY <1>k, <2>0, <2>2, <2>3, StepType DEF locks
<1>6. CASE SaveAttachment(p)
  <2> DEFINE latest == [req[p].old EXCEPT !.att = req[p].att]
  <2>0. latest \in Record
    BY <1>6, <1>k, RecordType DEF SaveAttachment, RequestOK, StepOfKind, HasOld, Request
  <2>1. PICK r \in {[req[p] EXCEPT !.old = latest, !.saved = TRUE], [req[p] EXCEPT !.old = latest]},
             s \in {"lock", "undo"} :
            /\ pc' = [pc EXCEPT ![p] = s] /\ req' = [req EXCEPT ![p] = r]
            /\ UNCHANGED locks
    BY <1>6 DEF SaveAttachment, Goto, Set
  <2>2. r \in Request
    BY <1>r, <2>0, OldType
  <2>3. /\ req'[p].kind = req[p].kind /\ req'[p].app = req[p].app
        /\ req'[p].old = latest /\ req'[p].orig = req[p].orig /\ pc'[p] = s
    BY <1>k, <1>r, <2>1 DEF Request
  <2>4. pc[p] = "save_att" /\ (s = "undo" => req[p].kind \in Attaches)
    BY <1>6, <1>k DEF SaveAttachment, RequestOK, StepOfKind
  <2> HIDE DEF latest
  <2>5. RequestOK(p)'
    BY <1>k, <2>0, <2>1, <2>3, <2>4 DEF RequestOK, StepOfKind, HasOld, HasCandidate
  <2> QED BY <1>k, <2>1, <2>2, <2>5, StepType DEF locks
<1>7. CASE Undo(p)
  <2>1. PICK s \in {"unsave", "resave"} : Goto(p, s)
    BY <1>7, <1>k DEF Undo, Go, locks
  <2>2. /\ pc[p] = "undo" /\ UNCHANGED req
        /\ mu' \in {mu, None} /\ UNCHANGED dbMu
        /\ req[p].kind = "attach"
    BY <1>7, <1>k DEF Undo, Go, locks
  <2> QED BY <1>k, <2>1, <2>2, Onward DEF Places, HasCandidate, RequestOK, StepOfKind
<1>8. CASE Unsave(p)
  BY <1>8 DEF Unsave, PutBack
<1>9. CASE Resave(p)
  BY <1>9 DEF Resave, PutBack
<1>10. CASE StartOK(p)
  <2>0. CandidateRecord(p) \in Record
    BY <1>10, CandidateType DEF StartOK
  <2>1. /\ pc' = [pc EXCEPT ![p] = "verify"]
        /\ req' = [req EXCEPT ![p] = [req[p] EXCEPT !.cand = CandidateRecord(p)]]
        /\ mu' \in Procs \cup {None} /\ dbMu' \in Procs \cup {None}
    BY <1>10, <1>k DEF StartOK, Goto, Go, Set, locks
  <2>2. [req[p] EXCEPT !.cand = CandidateRecord(p)] \in Request
    BY <1>r, <2>0, OldType
  <2>3. RequestOK(p)'
    BY <1>10, <1>k, <2>1, <2>2, <2>0 DEF StartOK, RequestOK, StepOfKind, HasOld, HasCandidate, Request
  <2> QED BY <2>1, <2>2, <2>3, StepType
<1>11. CASE StartFailed(p)
  <2>1. PICK s \in {"undo"} : Goto(p, s)
    BY <1>11, <1>k DEF StartFailed, AfterFailure
  <2>2. /\ pc[p] = "start" /\ UNCHANGED req
        /\ mu' \in {mu, None} /\ UNCHANGED dbMu
        /\ req[p].kind \notin {"release", "admin"}
    BY <1>11, <1>k DEF StartFailed, AfterFailure
  <2> QED BY <1>k, <2>1, <2>2, Onward DEF Places, HasCandidate, RequestOK, StepOfKind
<1>12. CASE Verify(p)
  <2>1. PICK s \in {"promote", "cleanup"} : Goto(p, s)
    BY <1>12, <1>k DEF Verify, Go, locks
  <2>2. /\ pc[p] = "verify" /\ UNCHANGED req
        /\ mu' \in {mu, None} /\ UNCHANGED dbMu
    BY <1>12, <1>k DEF Verify, Go, locks
  <2> QED BY <1>k, <2>1, <2>2, Onward DEF Places, HasCandidate, RequestOK, StepOfKind
<1>13. CASE Cleanup(p)
  <2>1. PICK s \in {"undo"} : Goto(p, s)
    BY <1>13, <1>k DEF Cleanup, AfterFailure
  <2>2. /\ pc[p] = "cleanup" /\ UNCHANGED req
        /\ mu' \in {mu, None} /\ UNCHANGED dbMu
        /\ req[p].kind \notin {"release", "admin"}
    BY <1>13, <1>k DEF Cleanup, AfterFailure
  <2> QED BY <1>k, <2>1, <2>2, Onward DEF Places, HasCandidate, RequestOK, StepOfKind
<1>14. CASE Promote(p)
  <2>1. PICK s \in {"sync", "cleanup"} : Goto(p, s)
    BY <1>14, <1>k DEF Promote, Go, locks
  <2>2. /\ pc[p] = "promote" /\ UNCHANGED req
        /\ mu' \in {mu, None} /\ UNCHANGED dbMu
    BY <1>14, <1>k DEF Promote, Go, locks
  <2> QED BY <1>k, <2>1, <2>2, Onward DEF Places, HasCandidate, RequestOK, StepOfKind
<1>15. CASE Restore(p)
  <2> DEFINE r == [req[p] EXCEPT !.restoring = TRUE]
  <2>1. /\ UNCHANGED locks
        /\ \/ /\ pc' = [pc EXCEPT ![p] = "cleanup"] /\ UNCHANGED req
              /\ req[p].kind \in Cutovers
           \/ pc' = [pc EXCEPT ![p] = "sync"] /\ req' = [req EXCEPT ![p] = r]
    BY <1>15 DEF Restore, Go, Goto, Set
  <2>2. CASE pc' = [pc EXCEPT ![p] = "cleanup"] /\ UNCHANGED req /\ req[p].kind \in Cutovers
    <3>1. RequestOK(p)'
      BY <1>15, <1>k, <2>2 DEF Restore, RequestOK, StepOfKind, HasOld, HasCandidate
    <3> QED BY <1>k, <2>1, <2>2, <3>1, GoType DEF locks
  <2>3. CASE pc' = [pc EXCEPT ![p] = "sync"] /\ req' = [req EXCEPT ![p] = r]
    <3>1. r \in Request
      BY <1>r DEF Request
    <3>2. RequestOK(p)'
      BY <1>15, <1>k, <2>3, <3>1 DEF Restore, RequestOK, StepOfKind, HasOld, HasCandidate, Request
    <3> QED BY <1>k, <2>1, <2>3, <3>1, <3>2, StepType DEF locks
  <2> QED BY <2>1, <2>2, <2>3
<1>16. CASE Retire(p)
  BY <1>16 DEF Retire
<1>17. CASE Mark(p)
  <2>1. PICK s \in {"sync"} : Goto(p, s)
    BY <1>17, <1>k DEF Mark, Go, locks
  <2>2. /\ pc[p] = "mark" /\ UNCHANGED req
        /\ mu' \in {mu, None} /\ UNCHANGED dbMu
    BY <1>17, <1>k DEF Mark, Go, locks
  <2> QED BY <1>k, <2>1, <2>2, Onward DEF Places, HasCandidate, RequestOK, StepOfKind
<1>18. CASE StopDeployment(p)
  <2>1. PICK s \in {"release_att"} : Goto(p, s)
    BY <1>18, <1>k DEF StopDeployment, Go, locks
  <2>2. /\ pc[p] = "stop" /\ UNCHANGED req
        /\ mu' \in {mu, None} /\ UNCHANGED dbMu
    BY <1>18, <1>k DEF StopDeployment, Go, locks
  <2> QED BY <1>k, <2>1, <2>2, Onward DEF Places, HasCandidate, RequestOK, StepOfKind
<1>19. CASE ReleaseAttachment(p)
  <2>1. PICK s \in {"clear", "rm_record"} :
            Goto(p, s) /\ s = IF req[p].kind = "detach" THEN "clear" ELSE "rm_record"
    BY <1>19, <1>k DEF ReleaseAttachment, Go, locks
  <2>2. /\ pc[p] = "release_att" /\ UNCHANGED req
        /\ mu' \in {mu, None} /\ UNCHANGED dbMu
    BY <1>19, <1>k DEF ReleaseAttachment, Go, locks
  <2> QED BY <1>k, <2>1, <2>2, Onward DEF Places, HasCandidate, RequestOK, StepOfKind
<1>20. CASE ClearAttachment(p)
  BY <1>20 DEF ClearAttachment
<1>21. CASE DeleteRecord(p)
  <2>1. PICK s \in {"sync"} : Goto(p, s)
    BY <1>21, <1>k DEF DeleteRecord, Go, locks
  <2>2. /\ pc[p] = "rm_record" /\ UNCHANGED req
        /\ mu' \in {mu, None} /\ UNCHANGED dbMu
    BY <1>21, <1>k DEF DeleteRecord, Go, locks
  <2> QED BY <1>k, <2>1, <2>2, Onward DEF Places, HasCandidate, RequestOK, StepOfKind
<1> QED
  BY <1>1, <1>2, <1>3, <1>4, <1>5, <1>6, <1>7, <1>8, <1>9, <1>10, <1>11, <1>12, <1>13, <1>14, <1>15, <1>16, <1>17, <1>18, <1>19, <1>20, <1>21 DEF Lock, Work

-----------------------------------------------------------------------------
(***************************************************************************)
(* Synchronizations, arrivals, crashes.                                    *)
(***************************************************************************)
LEMMA SyncType ==
    ASSUME TypeOK, NEW t \in Threads, Sync(t)
    PROVE  TypeOK'
<1> USE TypeParts
<1>1. DataOK'
  <2>1. /\ routes' \in {routes, store} /\ (Fault \/ NoFault)
        /\ UNCHANGED <<store, attachments, containers, clock>>
    BY DEF Sync
  <2> QED BY <2>1, BoundsType DEF DataOK
<1>2. ControlOK'
  <2>1. CASE Finish(t)
    BY <2>1, FinishType
  <2>2. CASE ~Finish(t)
    <3>1. /\ UNCHANGED <<req, locks>> /\ pc[t] = "sync"
          /\ req[t].kind \in Starting \cup {"detach"}
          /\ \/ pc' = [pc EXCEPT ![t] = "cleanup"] /\ req[t].kind # "detach"
             \/ pc' = [pc EXCEPT ![t] = "restore"]
             \/ pc' = [pc EXCEPT ![t] = "retire"] /\ req[t].kind \in Cutovers
             \/ pc' = [pc EXCEPT ![t] = "stop"] /\ req[t].kind = "detach"
      BY <2>2 DEF Sync, AfterSync, Go, Goto
    <3>2. t \in Procs
      BY <3>1 DEF ControlOK, MainOK
    <3>3. RequestOK(t)'
      BY <3>1, <3>2 DEF ControlOK, RequestOK, StepOfKind, HasOld, HasCandidate
    <3>4. \E s \in Steps : pc' = [pc EXCEPT ![t] = s]
      BY <3>1
    <3> QED BY <3>1, <3>2, <3>3, <3>4, GoType DEF ControlOK, locks
  <2> QED BY <2>1, <2>2
<1> QED BY <1>1, <1>2

\* A request that arrives has the record its handler read, where it reads one.
LEMMA ArrivalShape ==
    ASSUME TypeOK, NEW p \in Procs, Arrival(p)
    PROVE  \E kind \in Kinds, a \in Apps, old \in Record \cup {None}, ask \in Link,
              first \in {"lock_db", "lock", "stop"} :
             /\ Begin(p, kind, a, old, ask, first)
             /\ first = "lock_db" => kind \in Guarded
             /\ first = "lock" => kind \in {"release", "deploy"}
             /\ first = "stop" => kind = "delete"
             /\ kind \in {"release", "delete"} => old \in Record
<1> USE TypeParts
<1>1. \A a \in Apps : store[a] \in Record \cup {None}
  BY DEF DataOK, Routes
<1>2. \A a \in Apps : store[a] # None => store[a] \in Record /\ store[a].att \in Link
  BY <1>1 DEF Record
<1>3. attachments \subseteq Link /\ None \in Link
  BY DEF DataOK, Link
<1>4. CASE miniBaseLifecycleAttachHandler(p)
  BY <1>3, <1>4 DEF miniBaseLifecycleAttachHandler
<1>5. CASE miniBaseLifecycleDetachHandler(p)
  BY <1>2, <1>3, <1>5 DEF miniBaseLifecycleDetachHandler
<1>6. CASE databaseAttachmentHandler(p)
  BY <1>3, <1>6 DEF databaseAttachmentHandler
<1>7. CASE releaseHandler(p)
  BY <1>2, <1>3, <1>7 DEF releaseHandler
<1>8. CASE deployHandler(p)
  BY <1>3, <1>8 DEF deployHandler
<1>9. CASE deleteDeploymentHandler(p)
  BY <1>2, <1>3, <1>9 DEF deleteDeploymentHandler
<1> QED BY <1>4, <1>5, <1>6, <1>7, <1>8, <1>9 DEF Arrival

LEMMA ArrivalType ==
    ASSUME TypeOK, NEW p \in Procs, Arrival(p)
    PROVE  TypeOK'
<1> USE TypeParts
<1>1. PICK kind \in Kinds, a \in Apps, old \in Record \cup {None}, ask \in Link,
           first \in {"lock_db", "lock", "stop"} :
        /\ Begin(p, kind, a, old, ask, first)
        /\ first = "lock_db" => kind \in Guarded
        /\ first = "lock" => kind \in {"release", "deploy"}
        /\ first = "stop" => kind = "delete"
        /\ kind \in {"release", "delete"} => old \in Record
  BY ArrivalShape
<1> DEFINE r == [NoRequest EXCEPT !.kind = kind, !.app = a, !.old = old, !.ask = ask]
<1>2. /\ pc' = [pc EXCEPT ![p] = first] /\ req' = [req EXCEPT ![p] = r]
      /\ UNCHANGED <<store, attachments, containers, routes, mu, dbMu, clock, bounds>>
  BY <1>1 DEF Begin, Goto, Set, locks
<1>3. r \in Request /\ r.kind = kind /\ r.app = a /\ r.old = old
  BY DEF NoRequest, Request, Link
<1>4. RequestOK(p)'
  BY <1>1, <1>2, <1>3 DEF ControlOK, RequestOK, StepOfKind, HasOld, HasCandidate
<1>5. ControlOK'
  BY <1>2, <1>3, <1>4, StepType DEF ControlOK
<1>6. DataOK'
  BY <1>2 DEF DataOK, bounds
<1> QED BY <1>5, <1>6

LEMMA CrashType == ASSUME TypeOK, Crash PROVE TypeOK'
<1> USE TypeParts
<1>1. DataOK'
  BY DEF DataOK, Crash
<1>2. /\ mu' = None /\ dbMu' = None /\ pc' \in [Threads -> Steps] /\ req' \in [Threads -> Request]
      /\ \A p \in Procs : pc'[p] = "idle" /\ req'[p] = NoRequest
  BY NoRequestType, ConstantsAssumption DEF Crash
<1>3. MainOK'
  BY NoRequestType DEF Crash, MainOK
<1>4. \A p \in Procs : RequestOK(p)'
  BY <1>2, NoRequestType DEF RequestOK, StepOfKind, HasOld, HasCandidate
<1>5. ControlOK'
  BY <1>2, <1>3, <1>4 DEF ControlOK
<1> QED BY <1>1, <1>5

LEMMA InitType == ASSUME Init PROVE TypeOK
<1> USE TypeParts
<1>1. store \in Routes
  BY DEF Init, Routes, Record, Link
<1>2. containers \subseteq Container
  BY ConstantsAssumption DEF Init, Container, Link
<1>3. DataOK
  BY <1>1, <1>2 DEF Init, DataOK
<1>4. /\ mu = None /\ dbMu = None /\ pc \in [Threads -> Steps] /\ req \in [Threads -> Request]
      /\ \A p \in Procs : pc[p] = "idle" /\ req[p] = NoRequest
  BY NoRequestType, ConstantsAssumption DEF Init
<1>5. MainOK
  BY NoRequestType DEF Init, MainOK
<1>6. \A p \in Procs : RequestOK(p)
  BY <1>4, NoRequestType DEF RequestOK, StepOfKind, HasOld, HasCandidate
<1>7. ControlOK
  BY <1>4, <1>5, <1>6 DEF ControlOK
<1> QED BY <1>3, <1>7

LEMMA NextType == ASSUME TypeOK, [Next]_vars PROVE TypeOK'
<1>1. ASSUME NEW p \in Procs, Arrival(p) PROVE TypeOK'
  BY <1>1, ArrivalType
<1>2. ASSUME NEW p \in Procs, Lock(p) \/ Work(p) PROVE TypeOK'
  BY <1>2, WorkData, WorkControl, TypeParts
<1>3. ASSUME NEW t \in Threads, Sync(t) PROVE TypeOK'
  BY <1>3, SyncType
<1>4. CASE Crash
  BY <1>4, CrashType
<1>5. CASE UNCHANGED vars
  BY <1>5 DEF vars, locks, bounds, TypeOK, RequestOK, StepOfKind, HasOld, HasCandidate
<1> QED BY <1>1, <1>2, <1>3, <1>4, <1>5 DEF Next

\* Every variable keeps its type; a request takes only the steps of its kind, and
\* never saves, restores or stops by a record it has not read.
THEOREM DatabaseTypeCorrect == Spec => []TypeOK
<1>1. Init => TypeOK BY InitType
<1>2. TypeOK /\ [Next]_vars => TypeOK' BY NextType
<1> QED BY <1>1, <1>2, PTL DEF Spec

-----------------------------------------------------------------------------
(***************************************************************************)
(* The mutexes are held exactly by the processes in their sections.        *)
(***************************************************************************)
Others(p)   == \A q \in Threads \ {p} : pc'[q] = pc[q] /\ req'[q] = req[q]
SameKind(p) == req'[p].kind = req[p].kind

LEMMA FinishOthers ==
    ASSUME ControlOK, NEW t \in Threads, Finish(t)
    PROVE  Others(t) /\ pc'[t] = "idle" /\ req'[t].kind = "none"
BY NoRequestType DEF ControlOK, Finish, Goto, Set, Others

LEMMA FinishLocks ==
    ASSUME TypeOK, LocksHeld, NEW t \in Threads, Finish(t)
    PROVE  LocksHeld'
<1> USE TypeParts
<1>1. Others(t) /\ pc'[t] = "idle" /\ req'[t].kind = "none"
  BY FinishOthers
<1>2. /\ mu' = (IF mu = t THEN None ELSE mu)
      /\ dbMu' = (IF dbMu = t THEN None ELSE dbMu)
  BY DEF Finish
<1> QED
  BY <1>1, <1>2, ConstantsAssumption
     DEF LocksHeld, InDatabaseSection, InDeploySection, Others, ControlOK

\* The locals that the locked reads and saves assign leave the kind alone.
LEMMA KindKept ==
    ASSUME NEW r \in Request, NEW u, NEW v
    PROVE  /\ [r EXCEPT !.old = u].kind = r.kind
           /\ [r EXCEPT !.old = u, !.orig = v].kind = r.kind
           /\ [r EXCEPT !.old = u, !.saved = v].kind = r.kind
BY DEF Request

LEMMA SetOthers ==
    ASSUME ControlOK, NEW p \in Procs, NEW s, NEW r,
           pc' = [pc EXCEPT ![p] = s], req' = [req EXCEPT ![p] = r],
           r.kind = req[p].kind
    PROVE  Others(p) /\ SameKind(p)
BY DEF ControlOK, Others, SameKind

LEMMA WorkOthers ==
    ASSUME TypeOK, NEW p \in Procs, Lock(p) \/ Work(p), ~Finish(p)
    PROVE  Others(p) /\ SameKind(p)
<1> USE TypeParts
<1>c. ControlOK
  OBVIOUS
<1>r. req[p] \in Request /\ pc \in [Threads -> Steps] /\ req \in [Threads -> Request]
  BY DEF ControlOK
<1>1. CASE LockDatabase(p)
  <2>1. PICK s \in Steps : pc' = [pc EXCEPT ![p] = s]
    BY <1>1 DEF LockDatabase, Goto, Steps, Compensating, Candidacy, Detaching
  <2>2. CASE req' = req
    BY <1>r, <2>1, <2>2 DEF Others, SameKind
  <2>3. CASE req' = [req EXCEPT ![p] = [req[p] EXCEPT !.old = store[req[p].app],
                                                     !.orig = store[req[p].app]]]
    <3> DEFINE a == store[req[p].app]
    <3>1. [req[p] EXCEPT !.old = a, !.orig = a].kind = req[p].kind
      BY <1>r, KindKept
    <3> QED BY <1>c, <2>1, <2>3, <3>1, SetOthers
  <2> QED BY <1>1, <2>2, <2>3 DEF LockDatabase, Set
<1>2. CASE LockRelease(p)
  BY <1>r, <1>2 DEF LockRelease, Go, Goto, Set, Others, SameKind, Request
<1>3. CASE LockReattach(p)
  BY <1>r, <1>3 DEF LockReattach, Go, Goto, Set, Others, SameKind, Request
<1>4. CASE LockDetach(p)
  BY <1>r, <1>4 DEF LockDetach, Go, Goto, Set, Others, SameKind, Request
<1>5. CASE CreateAttachment(p)
  BY <1>r, <1>5 DEF CreateAttachment, Go, Goto, Set, Others, SameKind, Request
<1>6. CASE SaveAttachment(p)
  <2> DEFINE latest == [req[p].old EXCEPT !.att = req[p].att]
  <2>1. PICK s \in Steps : pc' = [pc EXCEPT ![p] = s]
    BY <1>6 DEF SaveAttachment, Goto, Steps, Compensating, Candidacy, Detaching
  <2>2. \/ req' = [req EXCEPT ![p] = [req[p] EXCEPT !.old = latest]]
        \/ req' = [req EXCEPT ![p] = [req[p] EXCEPT !.old = latest, !.saved = TRUE]]
    BY <1>6 DEF SaveAttachment, Set
  <2> HIDE DEF latest
  <2>3. CASE req' = [req EXCEPT ![p] = [req[p] EXCEPT !.old = latest]]
    <3>1. [req[p] EXCEPT !.old = latest].kind = req[p].kind
      BY <1>r, KindKept
    <3> QED BY <1>c, <2>1, <2>3, <3>1, SetOthers
  <2>4. CASE req' = [req EXCEPT ![p] = [req[p] EXCEPT !.old = latest, !.saved = TRUE]]
    <3>1. [req[p] EXCEPT !.old = latest, !.saved = TRUE].kind = req[p].kind
      BY <1>r, KindKept
    <3> QED BY <1>c, <2>1, <2>4, <3>1, SetOthers
  <2> QED BY <2>2, <2>3, <2>4
<1>7. CASE Undo(p)
  BY <1>r, <1>7 DEF Undo, Go, Goto, Set, Others, SameKind, Request
<1>8. CASE Unsave(p)
  BY <1>r, <1>8 DEF Unsave, PutBack, Go, Goto, Set, Others, SameKind, Request
<1>9. CASE Resave(p)
  BY <1>r, <1>9 DEF Resave, PutBack, Go, Goto, Set, Others, SameKind, Request
<1>10. CASE StartOK(p)
  BY <1>r, <1>10 DEF StartOK, Go, Goto, Set, Others, SameKind, Request
<1>11. CASE StartFailed(p)
  BY <1>r, <1>11 DEF StartFailed, AfterFailure, Go, Goto, Set, Others, SameKind, Request
<1>12. CASE Verify(p)
  BY <1>r, <1>12 DEF Verify, Go, Goto, Set, Others, SameKind, Request
<1>13. CASE Cleanup(p)
  BY <1>r, <1>13 DEF Cleanup, AfterFailure, Go, Goto, Set, Others, SameKind, Request
<1>14. CASE Promote(p)
  BY <1>r, <1>14 DEF Promote, Go, Goto, Set, Others, SameKind, Request
<1>15. CASE Restore(p)
  BY <1>r, <1>15 DEF Restore, Go, Goto, Set, Others, SameKind, Request
<1>16. CASE Retire(p)
  BY <1>r, <1>16 DEF Retire, Go, Goto, Set, Others, SameKind, Request
<1>17. CASE Mark(p)
  BY <1>r, <1>17 DEF Mark, Go, Goto, Set, Others, SameKind, Request
<1>18. CASE StopDeployment(p)
  BY <1>r, <1>18 DEF StopDeployment, Go, Goto, Set, Others, SameKind, Request
<1>19. CASE ReleaseAttachment(p)
  BY <1>r, <1>19 DEF ReleaseAttachment, Go, Goto, Set, Others, SameKind, Request
<1>20. CASE ClearAttachment(p)
  BY <1>r, <1>20 DEF ClearAttachment, Go, Goto, Set, Others, SameKind, Request
<1>21. CASE DeleteRecord(p)
  BY <1>r, <1>21 DEF DeleteRecord, Go, Goto, Set, Others, SameKind, Request
<1> QED
  BY <1>1, <1>2, <1>3, <1>4, <1>5, <1>6, <1>7, <1>8, <1>9, <1>10, <1>11, <1>12, <1>13, <1>14, <1>15, <1>16, <1>17, <1>18, <1>19, <1>20, <1>21 DEF Lock, Work

LEMMA WorkLocks ==
    ASSUME TypeOK, LocksHeld, NEW p \in Procs, Lock(p) \/ Work(p)
    PROVE  LocksHeld'
<1> USE TypeParts
<1>f. CASE Finish(p)
  BY <1>f, FinishLocks
<1> SUFFICES ASSUME ~Finish(p) PROVE LocksHeld'
  BY <1>f
<1>a. Others(p) /\ SameKind(p) /\ RequestOK(p) /\ pc \in [Threads -> Steps]
      /\ mu \in Procs \cup {None} /\ dbMu \in Procs \cup {None} /\ None \notin Procs
  BY WorkOthers, ConstantsAssumption DEF ControlOK
<1> USE <1>a DEF LocksHeld, InDatabaseSection, InDeploySection, Others, SameKind,
                 RequestOK, StepOfKind, Goto, Go, locks
<1>1. CASE LockDatabase(p) BY <1>1 DEF LockDatabase
<1>2. CASE LockRelease(p) BY <1>2 DEF LockRelease
<1>3. CASE LockReattach(p) BY <1>3 DEF LockReattach
<1>4. CASE LockDetach(p) BY <1>4 DEF LockDetach
<1>5. CASE CreateAttachment(p) BY <1>5 DEF CreateAttachment
<1>6. CASE SaveAttachment(p) BY <1>6 DEF SaveAttachment
<1>7. CASE Undo(p) BY <1>7 DEF Undo
<1>8. CASE Unsave(p) BY <1>8 DEF Unsave, PutBack
<1>9. CASE Resave(p) BY <1>9 DEF Resave, PutBack
<1>10. CASE StartOK(p) BY <1>10 DEF StartOK
<1>11. CASE StartFailed(p) BY <1>11 DEF StartFailed, AfterFailure
<1>12. CASE Verify(p) BY <1>12 DEF Verify
<1>13. CASE Cleanup(p) BY <1>13 DEF Cleanup, AfterFailure
<1>14. CASE Promote(p) BY <1>14 DEF Promote
<1>15. CASE Restore(p) BY <1>15 DEF Restore
<1>16. CASE Retire(p) BY <1>16 DEF Retire
<1>17. CASE Mark(p) BY <1>17 DEF Mark
<1>18. CASE StopDeployment(p) BY <1>18 DEF StopDeployment
<1>19. CASE ReleaseAttachment(p) BY <1>19 DEF ReleaseAttachment
<1>20. CASE ClearAttachment(p) BY <1>20 DEF ClearAttachment
<1>21. CASE DeleteRecord(p) BY <1>21 DEF DeleteRecord
<1> QED
  BY <1>1, <1>2, <1>3, <1>4, <1>5, <1>6, <1>7, <1>8, <1>9, <1>10, <1>11, <1>12, <1>13, <1>14, <1>15, <1>16, <1>17, <1>18, <1>19, <1>20, <1>21 DEF Lock, Work

LEMMA SyncLocks ==
    ASSUME TypeOK, LocksHeld, NEW t \in Threads, Sync(t)
    PROVE  LocksHeld'
<1> USE TypeParts
<1>1. CASE Finish(t)
  BY <1>1, FinishLocks
<1>2. CASE ~Finish(t)
  <2>1. /\ UNCHANGED <<req, mu, dbMu>> /\ pc[t] = "sync"
        /\ req[t].kind \in Starting \cup {"detach"}
        /\ \/ pc' = [pc EXCEPT ![t] = "cleanup"]
           \/ pc' = [pc EXCEPT ![t] = "restore"]
           \/ pc' = [pc EXCEPT ![t] = "retire"]
           \/ pc' = [pc EXCEPT ![t] = "stop"] /\ req[t].kind = "detach"
    BY <1>2 DEF Sync, AfterSync, Go, Goto, locks
  <2> QED
    BY <2>1 DEF LocksHeld, InDatabaseSection, InDeploySection, ControlOK
<1> QED BY <1>1, <1>2

LEMMA ArrivalLocks ==
    ASSUME TypeOK, LocksHeld, NEW p \in Procs, Arrival(p)
    PROVE  LocksHeld'
<1> USE TypeParts
<1>1. PICK kind \in Kinds, a \in Apps, old \in Record \cup {None}, ask \in Link,
           first \in {"lock_db", "lock", "stop"} :
        /\ Begin(p, kind, a, old, ask, first)
        /\ first = "lock_db" => kind \in Guarded
        /\ first = "lock" => kind \in {"release", "deploy"}
        /\ first = "stop" => kind = "delete"
        /\ kind \in {"release", "delete"} => old \in Record
  BY ArrivalShape
<1>2. req'[p].kind = kind /\ Others(p) /\ req[p].kind = "none" /\ pc'[p] = first
        /\ UNCHANGED <<mu, dbMu>>
  BY <1>1 DEF Begin, Goto, Set, locks, NoRequest, Others, ControlOK, RequestOK, StepOfKind
<1>3. pc[p] = "idle"
  BY <1>1 DEF Begin
<1> QED
  BY <1>1, <1>2, <1>3 DEF LocksHeld, InDatabaseSection, InDeploySection, Others

\* deployMu and databaseAttachmentMu are held exactly between their Lock and
\* Unlock, on every path including every compensation, for any number of
\* requests: none keeps a mutex, and none that holds deployMu waits for the other.
THEOREM DatabaseLocks == Spec => []LocksHeld
<1>1. Init => LocksHeld
  BY NoRequestType, ConstantsAssumption
     DEF Init, LocksHeld, InDatabaseSection, InDeploySection
<1>2. TypeOK /\ LocksHeld /\ [Next]_vars => LocksHeld'
  <2> SUFFICES ASSUME TypeOK, LocksHeld, [Next]_vars PROVE LocksHeld'
    OBVIOUS
  <2>1. ASSUME NEW p \in Procs, Arrival(p) PROVE LocksHeld'
    BY <2>1, ArrivalLocks
  <2>2. ASSUME NEW p \in Procs, Lock(p) \/ Work(p) PROVE LocksHeld'
    BY <2>2, WorkLocks
  <2>3. ASSUME NEW t \in Threads, Sync(t) PROVE LocksHeld'
    BY <2>3, SyncLocks
  <2>4. CASE Crash
    BY <2>4, NoRequestType, ConstantsAssumption
       DEF Crash, LocksHeld, InDatabaseSection, InDeploySection
  <2>5. CASE UNCHANGED vars
    BY <2>5 DEF vars, locks, LocksHeld, InDatabaseSection, InDeploySection
  <2> QED BY <2>1, <2>2, <2>3, <2>4, <2>5 DEF Next
<1> QED BY <1>1, <1>2, DatabaseTypeCorrect, PTL DEF Spec
=============================================================================
