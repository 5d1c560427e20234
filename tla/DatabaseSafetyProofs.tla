------------------------ MODULE DatabaseSafetyProofs ------------------------
(***************************************************************************)
(* What an attachment is worth: no container outlives it, the live         *)
(* container is bound to the attachment of its record, a detachment gives  *)
(* the database up last and leaves nothing running, and a record goes only *)
(* after its attachment.                                                   *)
(***************************************************************************)
EXTENDS DatabaseLifecycleProofs

USE DEF Kinds, Attaches, Cutovers, Guarded, Starting, Compensating, Candidacy,
        Detaching, Steps, Threads

\* One request at a time.
Serial == \A p, q \in Procs : p = q

-----------------------------------------------------------------------------
(***************************************************************************)
(* The page of a detached deployment.                                      *)
(***************************************************************************)
Paged(a)    == routes[a] # None /\ routes[a].detached
Detached(a) == store[a] # None /\ store[a].detached

Unmarked(p) ==
    /\ HasCandidate(p) => ~req[p].cand.detached
    /\ req[p].kind \in Cutovers /\ HasOld(p) => ~req[p].old.detached
    /\ req[p].kind \in Attaches /\ HasOld(p) => ~req[p].orig.detached

\* No command has failed, so that nothing is put back.
Unfailing == \A t \in Threads : pc[t] # "restore" /\ ~req[t].restoring

Asked == \A p \in Procs : req[p].kind \in Operations \cup {"none"}

Booting == pc[Main] = "sync" => \A p \in Procs : pc[p] = "idle"

DetachSync(p, a) == req[p].app = a /\ req[p].kind = "detach" /\ pc[p] = "sync"

Pages == \A a \in Apps : Detached(a) =>
    Paged(a) \/ pc[Main] = "sync" \/ \E p \in Procs : DetachSync(p, a)

\* What a detachment has done by the time it reaches a step.
Detachment(p) == req[p].kind = "detach" =>
    /\ pc[p] \in {"sync", "stop", "release_att", "clear"} =>
         /\ Detached(req[p].app)
         /\ store[req[p].app] = [req[p].old EXCEPT !.detached = TRUE]
    /\ pc[p] \in {"stop", "release_att", "clear"} => Paged(req[p].app)
    /\ pc[p] \in {"release_att", "clear"} => Named(req[p].app, req[p].old.name) = {}

PageInv == faults = 0 =>
    /\ Unfailing /\ Booting /\ Asked /\ Pages
    /\ \A p \in Procs : Unmarked(p) /\ Detachment(p)

-----------------------------------------------------------------------------
(***************************************************************************)
(* One request at a time: the record it read is the record.                *)
(***************************************************************************)
Known(p) == LET a == req[p].app IN
    /\ /\ HasOld(p) /\ pc[p] \notin {"sync", "retire"}
       /\ req[p].kind = "detach" => pc[p] = "mark"
       => store[a] = req[p].old
    /\ req[p].kind = "deploy" /\ pc[p] # "sync" => store[a] = None
    /\ req[p].kind \in Starting /\ pc[p] \in {"sync", "retire"} => store[a] = req[p].cand
    /\ req[p].kind = "delete" /\ pc[p] = "sync" => store[a] = None
    /\ req[p].kind = "reattach" /\ HasOld(p) => req[p].old.detached

Numbers(p) ==
    /\ HasOld(p) => req[p].old.name <= clock
    /\ HasCandidate(p) => req[p].cand.name <= clock
    /\ HasCandidate(p) /\ req[p].kind \in Cutovers => req[p].cand.name # req[p].old.name

Origin(p) == req[p].kind \in Attaches /\ HasOld(p) =>
    /\ req[p].orig.att = None /\ req[p].orig.name = req[p].old.name
    /\ pc[p] \notin {"sync", "retire"} => \A c \in Named(req[p].app, req[p].orig.name) : c.uses = None

Candidate(p) == HasCandidate(p) =>
    /\ req[p].cand.att = IF req[p].kind \in Cutovers THEN req[p].old.att ELSE req[p].att
    /\ \A c \in Named(req[p].app, req[p].cand.name) : c.uses = req[p].cand.att

Bound(a) == store[a] # None /\ ~store[a].detached =>
    \A c \in Named(a, store[a].name) : c.uses \in {None, store[a].att}

Stamped(a) == store[a] # None => store[a].name <= clock

Reading(p) == Known(p) /\ Numbers(p) /\ Origin(p) /\ Candidate(p)

BoundInv == faults = 0 =>
    /\ \A a \in Apps : Stamped(a) /\ Bound(a)
    /\ \A p \in Procs : Reading(p)

-----------------------------------------------------------------------------
(***************************************************************************)
(* Without crashes: which containers run.                                  *)
(***************************************************************************)
Live(a) == IF store[a] = None \/ Detached(a) THEN {} ELSE {store[a].name}

\* The names of the containers that may run for the application of a request.
Names(p) ==
    CASE HasCandidate(p) -> {req[p].cand.name} \cup
                            IF req[p].kind \in Cutovers THEN {req[p].old.name} ELSE {}
      [] req[p].kind = "detach" /\ pc[p] \in {"sync", "stop"} -> {req[p].old.name}
      [] req[p].kind \in {"detach", "delete"} /\ pc[p] \in {"release_att", "clear", "rm_record"} -> {}
      [] OTHER -> Live(req[p].app)

Owned == \A c \in containers :
    \/ \E p \in Procs : req[p].app = c.app /\ c.name \in Names(p)
    \/ (\A p \in Procs : req[p].app # c.app) /\ c.name \in Live(c.app)

Tied(l, a) == l = None \/ l.app = a

Ties ==
    /\ \A c \in containers : Tied(c.uses, c.app) /\ c.uses \in attachments \cup {None}
    /\ \A a \in Apps : store[a] # None => Tied(store[a].att, a)
    /\ \A p \in Procs : Tied(req[p].att, req[p].app)

OwnInv == faults = 0 /\ crashes = 0 => Owned /\ Ties

\* A deletion works on the record it read, whatever fails.
Deleting(p) == req[p].kind = "delete" =>
    /\ pc[p] \in {"stop", "release_att", "rm_record"} => store[req[p].app] = req[p].old
    /\ pc[p] = "rm_record" => req[p].old.att \notin attachments

DeleteInv == \A p \in Procs : Deleting(p)

-----------------------------------------------------------------------------
(***************************************************************************)
(* The steps of a request, field by field, when no command has failed.     *)
(***************************************************************************)
Same == UNCHANGED <<store, attachments, containers, routes, clock>>

Returns(p) == pc'[p] = "idle" /\ req'[p] = NoRequest

Takes(p, s, old, orig, cand, att) ==
    /\ pc'[p] = s
    /\ req'[p].kind = req[p].kind /\ req'[p].app = req[p].app
    /\ req'[p].restoring = req[p].restoring
    /\ req'[p].old = old /\ req'[p].orig = orig
    /\ req'[p].cand = cand /\ req'[p].att = att

Moves(p, s) == Takes(p, s, req[p].old, req[p].orig, req[p].cand, req[p].att)

Reads(p, s) ==
    /\ Takes(p, s, store[req[p].app], req'[p].orig, req[p].cand, req[p].att)
    /\ req[p].kind \in Attaches => req'[p].orig = store[req[p].app]

GivesUp(p) ==
    \/ req[p].kind \in {"release", "admin"} /\ Returns(p)
    \/ req[p].kind \notin {"release", "admin"} /\ Moves(p, "undo")

LockEffect(p) == LET a == req[p].app IN
    /\ Same
    /\ \/ pc[p] \in {"lock_db", "lock"} /\ req[p].kind \in Guarded /\ Returns(p)
       \/ /\ pc[p] = "lock_db" /\ req[p].kind \in Attaches
          /\ store[a] # None /\ ~store[a].detached /\ store[a].att = None
          /\ Reads(p, "create")
       \/ pc[p] = "lock_db" /\ req[p].kind \notin Attaches /\ Moves(p, "lock")
       \/ pc[p] = "lock" /\ req[p].kind = "deploy" /\ Moves(p, "create")
       \/ pc[p] = "lock" /\ req[p].kind \in Cutovers /\ Moves(p, "start")
       \/ /\ pc[p] = "lock" /\ req[p].kind = "reattach"
          /\ Detached(a) /\ store[a].att = None
          /\ Reads(p, "create")
       \/ /\ pc[p] = "lock" /\ req[p].kind = "detach" /\ store[a] # None
          /\ \/ store[a].detached /\ Reads(p, "stop")
             \/ ~store[a].detached /\ Reads(p, "mark")

AttachEffect(p) == LET a == req[p].app IN
    /\ UNCHANGED <<containers, routes>>
    /\ \/ /\ pc[p] = "create" /\ Returns(p)
          /\ UNCHANGED <<store, attachments, clock>>
       \/ /\ pc[p] = "create" /\ clock' = clock + 1
          /\ \E t \in Attachment :
               /\ t.app = a /\ t.id = clock + 1 /\ attachments' = attachments \cup {t}
               /\ Takes(p, IF req[p].kind \in Attaches THEN "save_att" ELSE "start",
                        req[p].old, req[p].orig, req[p].cand, t)
          /\ UNCHANGED store
       \/ /\ pc[p] = "save_att"
          /\ store' = [store EXCEPT ![a] = [req[p].old EXCEPT !.att = req[p].att]]
          /\ Takes(p, "lock", [req[p].old EXCEPT !.att = req[p].att], req[p].orig,
                   req[p].cand, req[p].att)
          /\ UNCHANGED <<attachments, clock>>
       \/ /\ pc[p] = "undo"
          /\ attachments' = attachments \ {req[p].att}
          /\ Returns(p) \/ (req[p].kind = "attach" /\ Moves(p, "unsave"))
          /\ UNCHANGED <<store, clock>>
       \/ /\ pc[p] = "undo" /\ req[p].kind # "deploy"
          /\ Returns(p) \/ (req[p].kind = "attach" /\ Moves(p, "resave"))
          /\ UNCHANGED <<store, attachments, clock>>
       \/ /\ pc[p] = "unsave" /\ store' = [store EXCEPT ![a] = req[p].orig]
          /\ Returns(p) /\ UNCHANGED <<attachments, clock>>
       \/ /\ pc[p] = "resave" /\ store' = [store EXCEPT ![a] = req[p].old]
          /\ Returns(p) /\ UNCHANGED <<attachments, clock>>

ReleaseEffect(p) == LET a == req[p].app
                        cand == CandidateRecord(p) IN
    /\ UNCHANGED <<attachments, routes>>
    /\ \/ /\ pc[p] = "start"
          /\ cand.att \in attachments \cup {None} /\ Named(a, cand.name) = {}
          /\ clock' = IF req[p].kind \in Cutovers THEN clock + 1 ELSE clock
          /\ containers' = containers \cup
                 {[app |-> a, name |-> cand.name, uses |-> cand.att]}
          /\ Takes(p, "verify", req[p].old, req[p].orig, cand, req[p].att)
          /\ UNCHANGED store
       \/ /\ pc[p] = "start" /\ GivesUp(p)
          /\ UNCHANGED <<store, containers, clock>>
       \/ /\ pc[p] = "verify" /\ (Moves(p, "promote") \/ Moves(p, "cleanup"))
          /\ UNCHANGED <<store, containers, clock>>
       \/ /\ pc[p] = "cleanup" /\ GivesUp(p)
          /\ containers' = containers \ Named(a, req[p].cand.name)
          /\ UNCHANGED <<store, clock>>
       \/ /\ pc[p] = "promote" /\ Moves(p, "sync")
          /\ store' = [store EXCEPT ![a] = req[p].cand]
          /\ UNCHANGED <<containers, clock>>
       \/ /\ pc[p] = "retire" /\ Returns(p)
          /\ containers' = containers \ Named(a, req[p].old.name)
          /\ UNCHANGED <<store, clock>>

DetachEffect(p) == LET a == req[p].app IN
    /\ UNCHANGED <<routes, clock>>
    /\ \/ /\ pc[p] = "mark" /\ Moves(p, "sync")
          /\ store' = [store EXCEPT ![a] = [req[p].old EXCEPT !.detached = TRUE]]
          /\ UNCHANGED <<attachments, containers>>
       \/ /\ pc[p] = "stop" /\ Moves(p, "release_att")
          /\ containers' = containers \ Named(a, req[p].old.name)
          /\ UNCHANGED <<store, attachments>>
       \/ /\ pc[p] = "release_att"
          /\ \/ req[p].kind = "detach" /\ Moves(p, "clear")
             \/ req[p].kind # "detach" /\ Moves(p, "rm_record")
          /\ attachments' = attachments \ {req[p].old.att}
          /\ UNCHANGED <<store, containers>>
       \/ /\ pc[p] = "clear" /\ Returns(p)
          /\ store' = [store EXCEPT ![a] = [req[p].old EXCEPT !.att = None, !.detached = TRUE]]
          /\ UNCHANGED <<attachments, containers>>
       \/ /\ pc[p] = "rm_record" /\ Moves(p, "sync")
          /\ store' = [store EXCEPT ![a] = None]
          /\ UNCHANGED <<attachments, containers>>
       \/ /\ pc[p] = "rm_record" /\ Returns(p) /\ store[a] = None
          /\ UNCHANGED <<store, attachments, containers>>

\* The step of a synchronization that is not repeated.
SyncEffect(p) ==
    /\ pc[p] = "sync" /\ routes' = store
    /\ UNCHANGED <<store, attachments, containers, clock>>
    /\ \/ Returns(p) /\ req[p].kind \notin Cutovers \cup {"detach"}
       \/ req[p].kind \in Cutovers /\ Moves(p, "retire")
       \/ req[p].kind = "detach" /\ Moves(p, "stop")

Effect(p) == LockEffect(p) \/ AttachEffect(p) \/ ReleaseEffect(p) \/ DetachEffect(p)

LEMMA Faultless ==
    ASSUME TypeOK, TypeOK', faults' = 0
    PROVE  /\ ~Fault
           /\ NoFault => faults = 0
           /\ Expiry => faults = 0
BY DEF TypeOK, Fault, NoFault, Expiry, bounds

LEMMA GoMoves ==
    ASSUME TypeOK, NEW p \in Threads, NEW s, Go(p, s)
    PROVE  Moves(p, s) /\ Others(p)
BY DEF TypeOK, Go, Goto, Moves, Takes, Others

LEMMA FinishReturns ==
    ASSUME TypeOK, NEW p \in Threads, Finish(p)
    PROVE  Returns(p) /\ Others(p)
BY DEF TypeOK, Finish, Goto, Set, Returns, Others

LEMMA FailureGivesUp ==
    ASSUME TypeOK, NEW p \in Procs, AfterFailure(p)
    PROVE  GivesUp(p) /\ Others(p)
<1>1. CASE req[p].kind \in {"release", "admin"}
  <2>1. Finish(p) /\ p \in Threads
    BY <1>1 DEF AfterFailure
  <2> QED BY <1>1, <2>1, FinishReturns DEF GivesUp
<1>2. CASE req[p].kind \notin {"release", "admin"}
  <2>1. Goto(p, "undo") /\ req' = req /\ pc \in [Threads -> Steps]
    BY <1>2 DEF AfterFailure, TypeOK
  <2>2. Moves(p, "undo") /\ Others(p)
    BY <2>1 DEF Goto, Moves, Takes, Others
  <2> QED BY <1>2, <2>2 DEF GivesUp
<1> QED BY <1>1, <1>2

\* What Set does to the locals.
LEMMA FieldsKept ==
    ASSUME NEW r \in Request, NEW u, NEW v
    PROVE  LET n == [r EXCEPT !.old = u, !.orig = v]
               m == [r EXCEPT !.old = u, !.saved = v] IN
           /\ n.kind = r.kind /\ n.app = r.app /\ n.restoring = r.restoring
           /\ n.old = u /\ n.orig = v /\ n.cand = r.cand /\ n.att = r.att
           /\ m.kind = r.kind /\ m.app = r.app /\ m.restoring = r.restoring
           /\ m.old = u /\ m.orig = r.orig /\ m.cand = r.cand /\ m.att = r.att
BY DEF Request

LEMMA SetTakes ==
    ASSUME TypeOK, NEW p \in Procs, NEW s, Goto(p, s), NEW r, Set(p, r),
           r.kind = req[p].kind, r.app = req[p].app, r.restoring = req[p].restoring
    PROVE  Takes(p, s, r.old, r.orig, r.cand, r.att) /\ Others(p)
<1>1. pc'[p] = s /\ req'[p] = r
  BY DEF TypeOK, Goto, Set
<1>2. Others(p)
  BY DEF TypeOK, Goto, Set, Others
<1> QED BY <1>1, <1>2 DEF Takes

LEMMA LocalSet ==
    ASSUME NEW r \in Request, NEW u
    PROVE  LET i == [r EXCEPT !.old = u]
               j == [r EXCEPT !.att = u]
               k == [r EXCEPT !.cand = u] IN
           /\ i.kind = r.kind /\ i.app = r.app /\ i.restoring = r.restoring
           /\ i.old = u /\ i.orig = r.orig /\ i.cand = r.cand /\ i.att = r.att
           /\ j.kind = r.kind /\ j.app = r.app /\ j.restoring = r.restoring
           /\ j.old = r.old /\ j.orig = r.orig /\ j.cand = r.cand /\ j.att = u
           /\ k.kind = r.kind /\ k.app = r.app /\ k.restoring = r.restoring
           /\ k.old = r.old /\ k.orig = r.orig /\ k.cand = u /\ k.att = r.att
BY DEF Request

LEMMA LockSteps ==
    ASSUME TypeOK, NEW p \in Procs, Lock(p)
    PROVE  LockEffect(p) /\ Others(p)
<1> DEFINE a == req[p].app
<1>0. req[p] \in Request /\ p \in Threads
  BY DEF TypeOK
<1>s. Same
  BY DEF Lock, LockDatabase, LockRelease, LockReattach, LockDetach, Same
<1>1. CASE LockDatabase(p)
  <2>1. CASE req[p].kind \in Attaches /\ Finish(p)
    BY <1>0, <1>1, <1>s, <2>1, FinishReturns DEF LockDatabase, LockEffect
  <2>2. CASE /\ req[p].kind \in Attaches /\ Attachable(a)
             /\ Set(p, [req[p] EXCEPT !.old = store[a], !.orig = store[a]])
             /\ Goto(p, "create")
    <3> DEFINE r == [req[p] EXCEPT !.old = store[a], !.orig = store[a]]
    <3>1. /\ r.kind = req[p].kind /\ r.app = a /\ r.restoring = req[p].restoring
          /\ r.old = store[a] /\ r.orig = store[a] /\ r.cand = req[p].cand /\ r.att = req[p].att
      BY <1>0, FieldsKept
    <3> HIDE DEF r
    <3>2. Takes(p, "create", r.old, r.orig, r.cand, r.att) /\ Others(p)
      BY <2>2, <3>1, SetTakes DEF r
    <3>3. Reads(p, "create")
      BY <3>1, <3>2 DEF Reads, Takes
    <3> QED BY <1>1, <1>s, <2>2, <3>2, <3>3 DEF LockDatabase, LockEffect, Attachable
  <2>3. CASE /\ req[p].kind \notin Attaches /\ Goto(p, "lock") /\ req' = req
    <3>1. Moves(p, "lock") /\ Others(p)
      BY <1>0, <2>3 DEF TypeOK, Goto, Moves, Takes, Others
    <3> QED BY <1>1, <1>s, <2>3, <3>1 DEF LockDatabase, LockEffect
  <2> QED BY <1>1, <2>1, <2>2, <2>3 DEF LockDatabase
<1>2. CASE LockRelease(p)
  <2>1. \A s : Goto(p, s) => Moves(p, s) /\ Others(p)
    BY <1>0, <1>2 DEF LockRelease, TypeOK, Goto, Moves, Takes, Others
  <2> QED BY <1>2, <1>s, <2>1 DEF LockRelease, LockEffect
<1>3. CASE LockReattach(p)
  <2>1. CASE Finish(p)
    BY <1>0, <1>3, <1>s, <2>1, FinishReturns DEF LockReattach, LockEffect
  <2>2. CASE ~Finish(p)
    <3> DEFINE r == [req[p] EXCEPT !.old = store[a]]
    <3>1. /\ r.kind = req[p].kind /\ r.app = a /\ r.restoring = req[p].restoring
          /\ r.old = store[a] /\ r.orig = req[p].orig /\ r.cand = req[p].cand
          /\ r.att = req[p].att
      BY <1>0, LocalSet
    <3>2. Set(p, r) /\ Goto(p, "create") /\ Detached(a) /\ store[a].att = None
      BY <1>3, <2>2 DEF LockReattach, Detached
    <3> HIDE DEF r
    <3>3. Takes(p, "create", r.old, r.orig, r.cand, r.att) /\ Others(p)
      BY <3>1, <3>2, SetTakes
    <3>4. Reads(p, "create")
      BY <1>3, <3>1, <3>3 DEF Reads, Takes, LockReattach
    <3> QED BY <1>3, <1>s, <3>2, <3>3, <3>4 DEF LockReattach, LockEffect
  <2> QED BY <2>1, <2>2
<1>4. CASE LockDetach(p)
  <2>1. CASE Finish(p)
    BY <1>0, <1>4, <1>s, <2>1, FinishReturns DEF LockDetach, LockEffect
  <2>2. CASE ~Finish(p)
    <3> DEFINE r == [req[p] EXCEPT !.old = store[a]]
               s == IF store[a].detached THEN "stop" ELSE "mark"
    <3>1. /\ r.kind = req[p].kind /\ r.app = a /\ r.restoring = req[p].restoring
          /\ r.old = store[a] /\ r.orig = req[p].orig /\ r.cand = req[p].cand
          /\ r.att = req[p].att
      BY <1>0, LocalSet
    <3>2. Set(p, r) /\ Goto(p, s) /\ store[a] # None
      BY <1>4, <2>2 DEF LockDetach
    <3> HIDE DEF r
    <3>3. Takes(p, s, r.old, r.orig, r.cand, r.att) /\ Others(p)
      BY <3>1, <3>2, SetTakes
    <3>4. Reads(p, s)
      BY <1>4, <3>1, <3>3 DEF Reads, Takes, LockDetach
    <3> QED BY <1>4, <1>s, <3>2, <3>3, <3>4 DEF LockDetach, LockEffect
  <2> QED BY <2>1, <2>2
<1> QED BY <1>1, <1>2, <1>3, <1>4 DEF Lock

LEMMA CreateSteps ==
    ASSUME TypeOK, TypeOK', faults' = 0, NEW p \in Procs, CreateAttachment(p)
    PROVE  AttachEffect(p) /\ Others(p)
<1>0. req[p] \in Request /\ p \in Threads /\ pc[p] = "create"
  BY DEF TypeOK, CreateAttachment
<1>1. CASE Finish(p) /\ UNCHANGED <<attachments, clock>>
  BY <1>0, <1>1, FinishReturns DEF CreateAttachment, AttachEffect
<1>2. CASE ~(Finish(p) /\ UNCHANGED <<attachments, clock>>)
  <2> DEFINE s == IF req[p].kind \in Attaches THEN "save_att" ELSE "start"
  <2>1. PICK d \in Databases : LET t == [id |-> clock + 1, db |-> d, app |-> req[p].app] IN
          /\ clock' = clock + 1 /\ attachments' = attachments \cup {t}
          /\ Set(p, [req[p] EXCEPT !.att = t]) /\ Goto(p, s)
    BY <1>2, Faultless DEF CreateAttachment
  <2> DEFINE t == [id |-> clock + 1, db |-> d, app |-> req[p].app]
             r == [req[p] EXCEPT !.att = t]
  <2>2. t \in Attachment /\ t.app = req[p].app /\ t.id = clock + 1
    BY <1>0 DEF TypeOK, RequestOK, StepOfKind, Attachment
  <2>3. /\ clock' = clock + 1 /\ attachments' = attachments \cup {t}
        /\ Set(p, r) /\ Goto(p, s)
    BY <2>1
  <2> HIDE DEF t
  <2>4. /\ r.kind = req[p].kind /\ r.app = req[p].app /\ r.restoring = req[p].restoring
        /\ r.old = req[p].old /\ r.orig = req[p].orig /\ r.cand = req[p].cand /\ r.att = t
    BY <1>0, LocalSet
  <2> HIDE DEF r
  <2>5. Takes(p, s, r.old, r.orig, r.cand, r.att) /\ Others(p)
    BY <2>3, <2>4, SetTakes
  <2>6. Takes(p, s, req[p].old, req[p].orig, req[p].cand, t)
    BY <2>4, <2>5
  <2>7. UNCHANGED <<store, containers, routes>>
    BY DEF CreateAttachment
  <2> QED BY <1>0, <2>2, <2>3, <2>5, <2>6, <2>7 DEF AttachEffect
<1> QED BY <1>1, <1>2

LEMMA AttachSteps ==
    ASSUME TypeOK, TypeOK', faults' = 0, NEW p \in Procs,
           SaveAttachment(p) \/ Undo(p) \/ Unsave(p) \/ Resave(p)
    PROVE  AttachEffect(p) /\ Others(p)
<1> DEFINE a == req[p].app
<1>0. req[p] \in Request /\ p \in Threads
  BY DEF TypeOK
<1>1. CASE SaveAttachment(p)
  <2> DEFINE latest == [req[p].old EXCEPT !.att = req[p].att]
             r == [req[p] EXCEPT !.old = latest, !.saved = TRUE]
  <2>1. Save(a, latest) /\ Goto(p, "lock") /\ Set(p, r) /\ pc[p] = "save_att"
        /\ UNCHANGED <<attachments, containers, routes, clock>>
    BY <1>1, Faultless DEF SaveAttachment
  <2> HIDE DEF latest
  <2>2. /\ r.kind = req[p].kind /\ r.app = a /\ r.restoring = req[p].restoring
        /\ r.old = latest /\ r.orig = req[p].orig /\ r.cand = req[p].cand /\ r.att = req[p].att
    BY <1>0, FieldsKept
  <2> HIDE DEF r
  <2>3. Takes(p, "lock", r.old, r.orig, r.cand, r.att) /\ Others(p)
    BY <2>1, <2>2, SetTakes
  <2>4. Takes(p, "lock", latest, req[p].orig, req[p].cand, req[p].att)
    BY <2>2, <2>3
  <2> QED BY <2>1, <2>3, <2>4 DEF AttachEffect, Save, latest
<1>2. CASE Undo(p)
  <2>1. /\ pc[p] = "undo" /\ UNCHANGED <<store, containers, routes, clock>>
        /\ \/ /\ attachments' = attachments \ {req[p].att}
              /\ (Go(p, "unsave") /\ req[p].kind = "attach") \/ Finish(p)
           \/ /\ req[p].kind # "deploy" /\ attachments' = attachments
              /\ (Go(p, "resave") /\ req[p].kind = "attach") \/ Finish(p)
    BY <1>2, Faultless DEF Undo
  <2>2. /\ \A s : Go(p, s) => Moves(p, s) /\ Others(p)
        /\ Finish(p) => Returns(p) /\ Others(p)
    BY <1>0, GoMoves, FinishReturns
  <2> QED BY <2>1, <2>2 DEF AttachEffect
<1>3. CASE Unsave(p)
  <2>1. /\ pc[p] = "unsave" /\ Finish(p) /\ Save(a, req[p].orig)
        /\ UNCHANGED <<attachments, containers, routes, clock>>
    BY <1>3, Faultless DEF Unsave, PutBack
  <2> QED BY <1>0, <2>1, FinishReturns DEF AttachEffect, Save
<1>4. CASE Resave(p)
  <2>1. /\ pc[p] = "resave" /\ Finish(p) /\ Save(a, req[p].old)
        /\ UNCHANGED <<attachments, containers, routes, clock>>
    BY <1>4, Faultless DEF Resave, PutBack
  <2> QED BY <1>0, <2>1, FinishReturns DEF AttachEffect, Save
<1> QED BY <1>1, <1>2, <1>3, <1>4

LEMMA ReleaseSteps ==
    ASSUME TypeOK, TypeOK', faults' = 0, NEW p \in Procs,
           StartOK(p) \/ StartFailed(p) \/ Verify(p) \/ Cleanup(p) \/ Promote(p) \/ Retire(p)
    PROVE  ReleaseEffect(p) /\ Others(p)
<1> DEFINE a == req[p].app
<1>0. req[p] \in Request /\ p \in Threads
  BY DEF TypeOK
<1>1. CASE StartOK(p)
  <2> DEFINE cand == CandidateRecord(p)
             r == [req[p] EXCEPT !.cand = cand]
  <2>1. /\ pc[p] = "start" /\ cand.att \in attachments \cup {None}
        /\ Named(a, cand.name) = {}
        /\ clock' = IF req[p].kind \in Cutovers THEN clock + 1 ELSE clock
        /\ containers' = containers \cup
               {[app |-> a, name |-> cand.name, uses |-> cand.att]}
        /\ Set(p, r) /\ Goto(p, "verify") /\ UNCHANGED <<store, attachments, routes>>
    BY <1>1 DEF StartOK
  <2> HIDE DEF cand
  <2>2. /\ r.kind = req[p].kind /\ r.app = a /\ r.restoring = req[p].restoring
        /\ r.old = req[p].old /\ r.orig = req[p].orig /\ r.cand = cand /\ r.att = req[p].att
    BY <1>0, LocalSet
  <2> HIDE DEF r
  <2>3. Takes(p, "verify", r.old, r.orig, r.cand, r.att) /\ Others(p)
    BY <2>1, <2>2, SetTakes
  <2>4. Takes(p, "verify", req[p].old, req[p].orig, cand, req[p].att)
    BY <2>2, <2>3
  <2> QED BY <2>1, <2>3, <2>4 DEF ReleaseEffect, cand
<1>2. CASE StartFailed(p)
  BY <1>2, FailureGivesUp DEF StartFailed, ReleaseEffect
<1>3. CASE Verify(p)
  BY <1>0, <1>3, GoMoves DEF Verify, ReleaseEffect
<1>4. CASE Cleanup(p)
  <2>1. /\ pc[p] = "cleanup" /\ AfterFailure(p)
        /\ containers' = containers \ Named(a, req[p].cand.name)
        /\ UNCHANGED <<store, attachments, routes, clock>>
    BY <1>4, Faultless DEF Cleanup
  <2> QED BY <2>1, FailureGivesUp DEF ReleaseEffect
<1>5. CASE Promote(p)
  <2>1. /\ pc[p] = "promote" /\ Save(a, req[p].cand) /\ Go(p, "sync")
        /\ UNCHANGED <<attachments, containers, routes, clock>>
    BY <1>5, Faultless DEF Promote
  <2> QED BY <1>0, <2>1, GoMoves DEF ReleaseEffect, Save
<1>6. CASE Retire(p)
  <2>1. /\ pc[p] = "retire" /\ Finish(p)
        /\ containers' = containers \ Named(a, req[p].old.name)
        /\ UNCHANGED <<store, attachments, routes, clock>>
    BY <1>6, Faultless DEF Retire
  <2> QED BY <1>0, <2>1, FinishReturns DEF ReleaseEffect
<1> QED BY <1>1, <1>2, <1>3, <1>4, <1>5, <1>6

LEMMA DetachSteps ==
    ASSUME TypeOK, TypeOK', faults' = 0, NEW p \in Procs,
           \/ Mark(p) \/ StopDeployment(p) \/ ReleaseAttachment(p)
           \/ ClearAttachment(p) \/ DeleteRecord(p)
    PROVE  DetachEffect(p) /\ Others(p)
<1> DEFINE a == req[p].app
<1>0. req[p] \in Request /\ p \in Threads
  BY DEF TypeOK
<1>1. CASE Mark(p)
  <2>1. /\ pc[p] = "mark" /\ Save(a, [req[p].old EXCEPT !.detached = TRUE]) /\ Go(p, "sync")
        /\ UNCHANGED <<attachments, containers, routes, clock>>
    BY <1>1, Faultless DEF Mark
  <2> QED BY <1>0, <2>1, GoMoves DEF DetachEffect, Save
<1>2. CASE StopDeployment(p)
  <2>1. /\ pc[p] = "stop" /\ containers' = containers \ Named(a, req[p].old.name)
        /\ Go(p, "release_att")
        /\ UNCHANGED <<store, attachments, routes, clock>>
    BY <1>2, Faultless DEF StopDeployment
  <2> QED BY <1>0, <2>1, GoMoves DEF DetachEffect
<1>3. CASE ReleaseAttachment(p)
  <2>1. /\ pc[p] = "release_att" /\ attachments' = attachments \ {req[p].old.att}
        /\ Go(p, IF req[p].kind = "detach" THEN "clear" ELSE "rm_record")
        /\ UNCHANGED <<store, containers, routes, clock>>
    BY <1>3, Faultless DEF ReleaseAttachment
  <2> QED BY <1>0, <2>1, GoMoves DEF DetachEffect
<1>4. CASE ClearAttachment(p)
  <2>1. /\ pc[p] = "clear" /\ Finish(p)
        /\ Save(a, [req[p].old EXCEPT !.att = None, !.detached = TRUE])
        /\ UNCHANGED <<attachments, containers, routes, clock>>
    BY <1>4, Faultless DEF ClearAttachment
  <2> QED BY <1>0, <2>1, FinishReturns DEF DetachEffect, Save
<1>5. CASE DeleteRecord(p)
  <2>1. /\ pc[p] = "rm_record"
        /\ \/ Save(a, None) /\ Go(p, "sync")
           \/ store[a] = None /\ Finish(p) /\ UNCHANGED store
        /\ UNCHANGED <<attachments, containers, routes, clock>>
    BY <1>5, Faultless DEF DeleteRecord
  <2> QED BY <1>0, <2>1, GoMoves, FinishReturns DEF DetachEffect, Save
<1> QED BY <1>1, <1>2, <1>3, <1>4, <1>5

LEMMA WorkSteps ==
    ASSUME TypeOK, TypeOK', faults' = 0, Unfailing, NEW p \in Procs, Lock(p) \/ Work(p)
    PROVE  Effect(p) /\ Others(p)
<1>1. ~Restore(p)
  BY DEF Restore, Unfailing
<1>2. CASE Lock(p)
  BY <1>2, LockSteps DEF Effect
<1>3. CASE Work(p)
  <2>1. CASE CreateAttachment(p)
    BY <2>1, CreateSteps DEF Effect
  <2>2. CASE SaveAttachment(p) \/ Undo(p) \/ Unsave(p) \/ Resave(p)
    BY <2>2, AttachSteps DEF Effect
  <2>3. CASE StartOK(p) \/ StartFailed(p) \/ Verify(p) \/ Cleanup(p) \/ Promote(p) \/ Retire(p)
    BY <2>3, ReleaseSteps DEF Effect
  <2>4. CASE \/ Mark(p) \/ StopDeployment(p) \/ ReleaseAttachment(p)
             \/ ClearAttachment(p) \/ DeleteRecord(p)
    BY <2>4, DetachSteps DEF Effect
  <2> QED BY <1>1, <1>3, <2>1, <2>2, <2>3, <2>4 DEF Work
<1> QED BY <1>2, <1>3

LEMMA SyncSteps ==
    ASSUME TypeOK, TypeOK', faults' = 0, Unfailing, NEW t \in Threads, Sync(t)
    PROVE  SyncEffect(t) /\ Others(t)
<1>1. /\ pc[t] = "sync" /\ routes' = store /\ AfterSync(t, TRUE)
      /\ UNCHANGED <<store, attachments, containers, clock>>
  BY Faultless DEF Sync
<1>2. ~req[t].restoring
  BY DEF Unfailing
<1>3. \/ Finish(t) /\ req[t].kind \notin Cutovers \cup {"detach"}
      \/ req[t].kind \in Cutovers /\ Go(t, "retire")
      \/ req[t].kind = "detach" /\ Go(t, "stop")
  BY <1>1, <1>2 DEF AfterSync
<1> QED BY <1>1, <1>3, GoMoves, FinishReturns DEF SyncEffect

\* A request arrives with what its handler has read.
ArrivalEffect(p) == \E a \in Apps :
    /\ pc[Main] = "idle" /\ pc[p] = "idle" /\ Same
    /\ req'[p].app = a /\ req'[p].kind \in Operations /\ ~req'[p].restoring
    /\ req'[p].att = None
    /\ \/ req'[p].kind \in Guarded /\ pc'[p] = "lock_db"
       \/ /\ req'[p].kind = "release" /\ pc'[p] = "lock"
          /\ store[a] # None /\ ~store[a].detached /\ req'[p].old = store[a]
       \/ req'[p].kind = "deploy" /\ pc'[p] = "lock" /\ store[a] = None
       \/ /\ req'[p].kind = "delete" /\ pc'[p] = "stop"
          /\ store[a] # None /\ req'[p].old = store[a]

LEMMA BeginSteps ==
    ASSUME TypeOK, NEW p \in Procs, NEW kind, NEW a \in Apps, NEW old, NEW ask, NEW s,
           Begin(p, kind, a, old, ask, s)
    PROVE  /\ pc[Main] = "idle" /\ pc[p] = "idle" /\ Same /\ Others(p)
           /\ pc'[p] = s /\ req'[p].kind = kind /\ req'[p].app = a /\ req'[p].old = old
           /\ req'[p].att = None /\ ~req'[p].restoring /\ kind \in Operations
           /\ UNCHANGED bounds
<1> DEFINE r == [NoRequest EXCEPT !.kind = kind, !.app = a, !.old = old, !.ask = ask]
<1>1. r.kind = kind /\ r.app = a /\ r.old = old /\ r.att = None /\ ~r.restoring
  BY DEF NoRequest
<1>2. pc'[p] = s /\ req'[p] = r /\ Others(p)
  BY DEF Begin, TypeOK, Goto, Set, Others
<1> QED BY <1>1, <1>2 DEF Begin, Same

LEMMA ArrivalSteps ==
    ASSUME TypeOK, NEW p \in Procs, Arrival(p)
    PROVE  ArrivalEffect(p) /\ Others(p) /\ UNCHANGED bounds
<1>1. ASSUME NEW a \in Apps, NEW kind \in Guarded, NEW ask, Begin(p, kind, a, None, ask, "lock_db")
      PROVE  ArrivalEffect(p) /\ Others(p) /\ UNCHANGED bounds
  <2>1. /\ pc[Main] = "idle" /\ pc[p] = "idle" /\ Same /\ Others(p)
        /\ pc'[p] = "lock_db" /\ req'[p].kind = kind /\ req'[p].app = a
        /\ req'[p].att = None /\ ~req'[p].restoring /\ kind \in Operations
        /\ UNCHANGED bounds
    BY <1>1, BeginSteps
  <2> QED BY <2>1 DEF ArrivalEffect
<1>2. ASSUME NEW a \in Apps, NEW kind, NEW s, Begin(p, kind, a, store[a], None, s),
             store[a] # None,
             \/ kind = "release" /\ s = "lock" /\ ~store[a].detached
             \/ kind = "delete" /\ s = "stop"
      PROVE  ArrivalEffect(p) /\ Others(p) /\ UNCHANGED bounds
  <2>1. /\ pc[Main] = "idle" /\ pc[p] = "idle" /\ Same /\ Others(p)
        /\ pc'[p] = s /\ req'[p].kind = kind /\ req'[p].app = a /\ req'[p].old = store[a]
        /\ req'[p].att = None /\ ~req'[p].restoring /\ kind \in Operations
        /\ UNCHANGED bounds
    BY <1>2, BeginSteps
  <2> QED BY <1>2, <2>1 DEF ArrivalEffect
<1>3. ASSUME NEW a \in Apps, Begin(p, "deploy", a, None, None, "lock"), store[a] = None
      PROVE  ArrivalEffect(p) /\ Others(p) /\ UNCHANGED bounds
  <2>1. /\ pc[Main] = "idle" /\ pc[p] = "idle" /\ Same /\ Others(p)
        /\ pc'[p] = "lock" /\ req'[p].kind = "deploy" /\ req'[p].app = a
        /\ req'[p].att = None /\ ~req'[p].restoring /\ "deploy" \in Operations
        /\ UNCHANGED bounds
    BY <1>3, BeginSteps
  <2> QED BY <1>3, <2>1 DEF ArrivalEffect
<1>4. CASE miniBaseLifecycleAttachHandler(p)
  BY <1>1, <1>4 DEF miniBaseLifecycleAttachHandler
<1>5. CASE miniBaseLifecycleDetachHandler(p)
  BY <1>1, <1>5 DEF miniBaseLifecycleDetachHandler
<1>6. CASE databaseAttachmentHandler(p)
  BY <1>1, <1>6 DEF databaseAttachmentHandler
<1>7. CASE releaseHandler(p)
  BY <1>2, <1>7 DEF releaseHandler
<1>8. CASE deployHandler(p)
  BY <1>3, <1>8 DEF deployHandler
<1>9. CASE deleteDeploymentHandler(p)
  BY <1>2, <1>9 DEF deleteDeploymentHandler
<1> QED BY <1>4, <1>5, <1>6, <1>7, <1>8, <1>9 DEF Arrival

-----------------------------------------------------------------------------
(***************************************************************************)
(* The page: a request that holds no mutex changes nothing, so that a      *)
(* detachment, which holds both, finds its own marks.                      *)
(***************************************************************************)
Exclusive == Serial \/ "delete" \notin Operations

LEMMA RecordFields ==
    ASSUME NEW r \in Record, NEW l
    PROVE  /\ r # None
           /\ LET n == [r EXCEPT !.att = l] IN
              n.name = r.name /\ n.att = l /\ n.detached = r.detached
           /\ LET n == [r EXCEPT !.detached = l] IN
              n.name = r.name /\ n.att = r.att /\ n.detached = l
           /\ LET n == [r EXCEPT !.att = None, !.detached = l] IN
              n.name = r.name /\ n.att = None /\ n.detached = l
BY NoneAssumption DEF Record

LEMMA RecordMarked ==
    ASSUME NEW r \in Record, NEW l \in Link
    PROVE  /\ [r EXCEPT !.detached = TRUE] \in Record
           /\ [r EXCEPT !.detached = TRUE].detached = TRUE
           /\ [r EXCEPT !.att = l] \in Record
           /\ [r EXCEPT !.att = l].detached = r.detached
           /\ [r EXCEPT !.att = None, !.detached = TRUE] \in Record
BY DEF Record, Link

LEMMA MarkTwice ==
    ASSUME NEW r \in Record, r.detached = TRUE
    PROVE  r = [r EXCEPT !.detached = TRUE]
BY DEF Record

LEMMA CandidateFields ==
    ASSUME NEW p
    PROVE  /\ CandidateRecord(p).name = CandidateName(p)
           /\ CandidateRecord(p).detached = FALSE
           /\ CandidateRecord(p).att = IF req[p].kind \in Cutovers THEN req[p].old.att
                                       ELSE req[p].att
BY DEF CandidateRecord

LEMMA Bystander ==
    ASSUME TypeOK, LocksHeld, NEW p \in Procs, NEW q \in Procs \ {p},
           InDeploySection(q), InDatabaseSection(q), req[p].kind # "delete", pc[p] # "idle"
    PROVE  pc[p] \in {"lock_db", "lock"}
<1>1. ~InDeploySection(p) /\ ~InDatabaseSection(p)
  BY DEF LocksHeld
<1>2. StepOfKind(p) /\ req[p].kind \in Kinds /\ pc[p] \in Steps
  BY DEF TypeOK, RequestOK
<1> QED BY <1>1, <1>2 DEF InDeploySection, InDatabaseSection, StepOfKind

LEMMA OthersPaged ==
    ASSUME TypeOK, LocksHeld, Asked, Exclusive, NEW p \in Procs,
           Effect(p) \/ SyncEffect(p), Others(p),
           NEW q \in Procs \ {p}, Unmarked(q), Detachment(q)
    PROVE  Unmarked(q)' /\ Detachment(q)'
<1>1. pc'[q] = pc[q] /\ req'[q] = req[q]
  BY DEF Others
<1>2. Unmarked(q)'
  BY <1>1 DEF Unmarked, HasCandidate, HasOld
<1>3. ASSUME req[q].kind = "detach", pc[q] \in {"sync", "stop", "release_att", "clear"}
      PROVE  UNCHANGED <<store, containers, routes>>
  <2>1. InDeploySection(q) /\ InDatabaseSection(q)
    BY <1>3 DEF InDeploySection, InDatabaseSection
  <2>2. pc[p] # "idle"
    BY DEF Effect, LockEffect, AttachEffect, ReleaseEffect, DetachEffect, SyncEffect
  <2>3. req[p].kind # "delete"
    BY DEF Exclusive, Serial, Asked
  <2>4. pc[p] \in {"lock_db", "lock"}
    BY <2>1, <2>2, <2>3, Bystander
  <2> QED
    BY <2>4 DEF Effect, LockEffect, AttachEffect, ReleaseEffect, DetachEffect, SyncEffect, Same
<1>4. Detachment(q)'
  BY <1>1, <1>3 DEF Detachment, Detached, Paged, Named
<1> QED BY <1>2, <1>4

LEMMA Steady ==
    ASSUME TypeOK, Unfailing, Booting, Asked, NEW p \in Procs, Effect(p) \/ SyncEffect(p), Others(p)
    PROVE  /\ Unfailing' /\ Booting' /\ Asked'
           /\ pc[Main] # "sync" /\ pc'[Main] = pc[Main]
<1>0. p # Main /\ p \in Threads
  BY ConstantsAssumption
<1>1. pc[p] # "idle"
  BY DEF Effect, LockEffect, AttachEffect, ReleaseEffect, DetachEffect, SyncEffect
<1>2. \/ pc'[p] = "idle" /\ req'[p] = NoRequest
      \/ /\ pc'[p] # "restore" /\ req'[p].kind = req[p].kind
         /\ req'[p].restoring = req[p].restoring
  BY DEF Effect, LockEffect, AttachEffect, ReleaseEffect, DetachEffect, SyncEffect,
         Takes, Moves, Reads, GivesUp, Returns
<1>3. NoRequest.kind = "none" /\ NoRequest.restoring = FALSE
  BY DEF NoRequest
<1>4. Unfailing'
  BY <1>0, <1>2, <1>3 DEF Unfailing, Others
<1>5. Asked'
  BY <1>2, <1>3 DEF Asked, Others
<1>6. pc[Main] # "sync" /\ pc'[Main] = pc[Main]
  BY <1>0, <1>1 DEF Booting, Others
<1> QED BY <1>4, <1>5, <1>6 DEF Booting

LEMMA OwnUnmarked ==
    ASSUME TypeOK, NEW p \in Procs, Effect(p) \/ SyncEffect(p), Unmarked(p)
    PROVE  Unmarked(p)'
<1>0. NoRequest.kind = "none"
  BY DEF NoRequest
<1>1. /\ RequestOK(p) /\ req[p].old \in Record \cup {None}
  BY DEF TypeOK, Request
<1>2. CASE Returns(p)
  BY <1>0, <1>2 DEF Returns, Unmarked, HasCandidate, HasOld
<1> USE <1>1 DEF Unmarked, HasCandidate, HasOld, RequestOK, StepOfKind, Takes, Moves, Reads, GivesUp
<1>3. CASE LockEffect(p) /\ ~Returns(p)
  <2>1. CASE pc[p] = "lock_db"
    BY <1>3, <2>1 DEF LockEffect
  <2>2. CASE pc[p] = "lock" /\ req[p].kind \in Cutovers \cup {"deploy"}
    <3>1. (Moves(p, "create") /\ req[p].kind = "deploy") \/ Moves(p, "start")
      BY <1>3, <2>2 DEF LockEffect
    <3> QED BY <2>2, <3>1
  <2>3. CASE pc[p] = "lock" /\ req[p].kind \in {"reattach", "detach"}
    <3>1. req'[p].kind = req[p].kind /\ pc'[p] \in {"create", "stop", "mark"}
      BY <1>3, <2>3 DEF LockEffect
    <3> QED BY <2>3, <3>1
  <2> QED BY <1>3, <2>1, <2>2, <2>3 DEF LockEffect
<1>4. CASE AttachEffect(p) /\ ~Returns(p)
  <2>1. CASE pc[p] = "save_att"
    <3>1. /\ req'[p].kind = req[p].kind /\ pc'[p] = "lock" /\ req'[p].orig = req[p].orig
          /\ req'[p].old = [req[p].old EXCEPT !.att = req[p].att]
      BY <1>4, <2>1 DEF AttachEffect
    <3>2. req[p].old \in Record /\ req[p].kind \in Attaches
      BY <2>1
    <3>3. req'[p].old.detached = req[p].old.detached
      BY <3>1, <3>2, RecordFields
    <3> QED BY <2>1, <3>1, <3>2, <3>3
  <2>2. CASE pc[p] # "save_att"
    <3>1. /\ req'[p].kind = req[p].kind /\ req'[p].old = req[p].old
          /\ req'[p].orig = req[p].orig
          /\ pc'[p] \in {"save_att", "start", "unsave", "resave"}
          /\ pc[p] \in {"create", "undo"}
      BY <1>4, <2>2 DEF AttachEffect
    <3> QED BY <3>1
  <2> QED BY <2>1, <2>2
<1>5. CASE ReleaseEffect(p) /\ ~Returns(p)
  BY <1>5, CandidateFields DEF ReleaseEffect
<1>6. CASE DetachEffect(p) /\ ~Returns(p)
  BY <1>6 DEF DetachEffect
<1>7. CASE SyncEffect(p) /\ ~Returns(p)
  BY <1>7 DEF SyncEffect
<1> QED BY <1>2, <1>3, <1>4, <1>5, <1>6, <1>7 DEF Effect

\* What the request itself has done so far.
LEMMA OwnDetachment ==
    ASSUME TypeOK, Pages, LocksHeld, Booting, Unfailing, NEW p \in Procs,
           Effect(p) \/ SyncEffect(p), Detachment(p)
    PROVE  Detachment(p)'
<1>0. NoRequest.kind = "none"
  BY DEF NoRequest
<1> DEFINE a == req[p].app
<1>1. /\ RequestOK(p) /\ pc[p] # "idle"
      /\ a \in Apps /\ store \in Routes /\ store[a] \in Record \cup {None}
  BY DEF TypeOK, RequestOK, Routes, Effect, LockEffect, AttachEffect, ReleaseEffect,
         DetachEffect, SyncEffect
<1>2. CASE req'[p].kind # "detach"
  BY <1>2 DEF Detachment
<1>3. CASE req'[p].kind = "detach"
  <2>1. ~Returns(p)
    BY <1>0, <1>3 DEF Returns
  <2>2. /\ req[p].kind = "detach" /\ a' = a
    BY <1>3, <2>1 DEF Effect, LockEffect, AttachEffect, ReleaseEffect, DetachEffect,
                      SyncEffect, Takes, Moves, Reads, GivesUp
  <2>3. pc[p] \in {"lock_db", "lock", "mark", "sync", "stop", "release_att", "clear"}
    BY <1>1, <2>1, <2>2
       DEF RequestOK, StepOfKind, Effect, LockEffect, AttachEffect, ReleaseEffect,
           DetachEffect, SyncEffect
  <2>4. CASE pc[p] = "lock_db"
    <3>1. pc'[p] = "lock"
      BY <2>1, <2>2, <2>4 DEF Effect, LockEffect, AttachEffect, ReleaseEffect,
                      DetachEffect, SyncEffect, Moves, Takes
    <3> QED BY <3>1 DEF Detachment
  <2>5. CASE pc[p] = "lock"
    <3>1. /\ Same /\ store[a] # None
          /\ \/ store[a].detached /\ Reads(p, "stop")
             \/ ~store[a].detached /\ Reads(p, "mark")
      BY <2>1, <2>2, <2>5 DEF Effect, LockEffect, AttachEffect, ReleaseEffect,
                      DetachEffect, SyncEffect
    <3>2. CASE Reads(p, "mark")
      BY <3>2 DEF Reads, Takes, Detachment
    <3>3. CASE store[a].detached /\ Reads(p, "stop")
      <4>1. req'[p].old = store[a] /\ pc'[p] = "stop" /\ Detached(a)
        BY <3>1, <3>3 DEF Reads, Takes, Detached
      <4>2. store[a] \in Record /\ store[a].detached = TRUE
        BY <1>1, <3>1, <3>3 DEF Record
      <4>3. store[a] = [store[a] EXCEPT !.detached = TRUE]
        BY <4>2, MarkTwice
      <4>4. pc[Main] # "sync"
        BY <1>1 DEF Booting
      <4>5. \A q \in Procs : ~DetachSync(q, a)
        <5> SUFFICES ASSUME NEW q \in Procs, DetachSync(q, a) PROVE FALSE
          OBVIOUS
        <5>1. InDatabaseSection(q) /\ InDatabaseSection(p) /\ q # p
          BY <2>2, <2>5 DEF DetachSync, InDatabaseSection
        <5> QED BY <5>1 DEF LocksHeld
      <4>6. Paged(a)
        BY <1>1, <4>1, <4>4, <4>5 DEF Pages
      <4> QED BY <2>2, <3>1, <4>1, <4>3, <4>6 DEF Detachment, Same, Paged, Detached
    <3> QED BY <3>1, <3>2, <3>3
  <2>6. CASE pc[p] = "mark"
    <3>1. /\ Moves(p, "sync")
          /\ store' = [store EXCEPT ![a] = [req[p].old EXCEPT !.detached = TRUE]]
      BY <2>1, <2>2, <2>6 DEF Effect, LockEffect, AttachEffect, ReleaseEffect,
                      DetachEffect, SyncEffect
    <3>2. req[p].old \in Record
      BY <1>1, <2>2, <2>6 DEF RequestOK, HasOld
    <3>3. /\ [req[p].old EXCEPT !.detached = TRUE] \in Record
          /\ [req[p].old EXCEPT !.detached = TRUE].detached = TRUE
      BY <3>2, RecordMarked DEF Link
    <3>4. Detached(a)' /\ store'[a] = [req[p].old EXCEPT !.detached = TRUE]
      BY <1>1, <2>2, <3>1, <3>3, RecordFields DEF Routes, Detached
    <3>5. pc'[p] = "sync" /\ req'[p].old = req[p].old
      BY <3>1 DEF Moves, Takes
    <3> QED BY <2>2, <3>4, <3>5 DEF Detachment
  <2>7. CASE pc[p] = "sync"
    <3>1. Moves(p, "stop") /\ routes' = store /\ store' = store /\ containers' = containers
      BY <2>1, <2>2, <2>7 DEF Effect, LockEffect, AttachEffect, ReleaseEffect,
                      DetachEffect, SyncEffect
    <3>2. Detached(a) /\ store[a] = [req[p].old EXCEPT !.detached = TRUE]
      BY <2>2, <2>7 DEF Detachment
    <3>3. pc'[p] = "stop" /\ req'[p].old = req[p].old
      BY <3>1 DEF Moves, Takes
    <3> QED BY <2>2, <3>1, <3>2, <3>3 DEF Detachment, Detached, Paged
  <2>8. CASE pc[p] = "stop"
    <3>1. /\ Moves(p, "release_att") /\ containers' = containers \ Named(a, req[p].old.name)
          /\ UNCHANGED <<store, routes>>
      BY <2>1, <2>2, <2>8 DEF Effect, LockEffect, AttachEffect, ReleaseEffect,
                      DetachEffect, SyncEffect
    <3>2. pc'[p] = "release_att" /\ req'[p].old = req[p].old
      BY <3>1 DEF Moves, Takes
    <3>3. Named(a, req[p].old.name)' = {}
      BY <2>2, <3>1, <3>2 DEF Named
    <3> QED BY <2>2, <2>8, <3>1, <3>2, <3>3 DEF Detachment, Detached, Paged
  <2>9. CASE pc[p] = "release_att"
    <3>1. /\ Moves(p, "clear") /\ UNCHANGED <<store, routes, containers>>
      BY <2>1, <2>2, <2>9 DEF Effect, LockEffect, AttachEffect, ReleaseEffect,
                      DetachEffect, SyncEffect
    <3>2. pc'[p] = "clear" /\ req'[p].old = req[p].old
      BY <3>1 DEF Moves, Takes
    <3> QED BY <2>2, <2>9, <3>1, <3>2 DEF Detachment, Detached, Paged, Named
  <2>10. CASE pc[p] = "clear"
    BY <2>1, <2>2, <2>10 DEF Effect, LockEffect, AttachEffect, ReleaseEffect,
                      DetachEffect, SyncEffect
  <2> QED BY <2>3, <2>4, <2>5, <2>6, <2>7, <2>8, <2>9, <2>10
<1> QED BY <1>2, <1>3

LEMMA PagesKept ==
    ASSUME TypeOK, Pages, NEW p \in Procs, Effect(p), Others(p), Unmarked(p), Detachment(p),
           pc[Main] # "sync", pc'[Main] = pc[Main]
    PROVE  Pages'
<1> DEFINE a == req[p].app
           marks == req'[p].app = a /\ req'[p].kind = "detach" /\ pc'[p] = "sync"
<1>1. /\ RequestOK(p) /\ pc[p] \notin {"idle", "sync"}
      /\ a \in Apps /\ store \in Routes
  BY DEF TypeOK, RequestOK, Effect, LockEffect, AttachEffect, ReleaseEffect, DetachEffect
<1>2. \A q \in Procs : pc[q] = "sync" => pc'[q] = pc[q] /\ req'[q] = req[q]
  BY <1>1 DEF Others
<1>3. routes' = routes
  BY DEF Effect, LockEffect, AttachEffect, ReleaseEffect, DetachEffect, Same
<1>4. \/ store' = store
      \/ \E r \in Record \cup {None} :
           /\ store' = [store EXCEPT ![a] = r]
           /\ (r # None /\ r.detached) => marks \/ Paged(a)
  <2>1. CASE pc[p] = "save_att"
    <3> DEFINE r == [req[p].old EXCEPT !.att = req[p].att]
    <3>1. req[p].old \in Record /\ ~req[p].old.detached /\ req[p].att \in Link
      BY <1>1, <2>1 DEF RequestOK, StepOfKind, HasOld, Unmarked, TypeOK, Request
    <3>2. r \in Record /\ ~r.detached
      BY <3>1, RecordMarked
    <3>3. store' = [store EXCEPT ![a] = r]
      BY <2>1 DEF Effect, LockEffect, AttachEffect, ReleaseEffect, DetachEffect
    <3> HIDE DEF r
    <3> QED BY <3>2, <3>3
  <2>2. CASE pc[p] \in {"unsave", "resave"}
    <3>1. /\ req[p].orig \in Record /\ ~req[p].orig.detached
          /\ req[p].old \in Record /\ ~req[p].old.detached
      BY <1>1, <2>2 DEF RequestOK, StepOfKind, HasOld, Unmarked
    <3>2. store' = [store EXCEPT ![a] = req[p].orig] \/ store' = [store EXCEPT ![a] = req[p].old]
      BY <2>2 DEF Effect, LockEffect, AttachEffect, ReleaseEffect, DetachEffect
    <3> QED BY <3>1, <3>2
  <2>3. CASE pc[p] = "promote"
    <3>1. req[p].cand \in Record /\ ~req[p].cand.detached
      BY <1>1, <2>3 DEF RequestOK, StepOfKind, HasCandidate, Unmarked
    <3>2. store' = [store EXCEPT ![a] = req[p].cand]
      BY <2>3 DEF Effect, LockEffect, AttachEffect, ReleaseEffect, DetachEffect
    <3> QED BY <3>1, <3>2
  <2>4. CASE pc[p] = "mark"
    <3> DEFINE r == [req[p].old EXCEPT !.detached = TRUE]
    <3>1. req[p].old \in Record /\ req[p].kind = "detach"
      BY <1>1, <2>4 DEF RequestOK, StepOfKind, HasOld
    <3>2. r \in Record
      BY <3>1, RecordMarked DEF Link
    <3>3. store' = [store EXCEPT ![a] = r] /\ Moves(p, "sync")
      BY <2>4 DEF Effect, LockEffect, AttachEffect, ReleaseEffect, DetachEffect
    <3>4. marks
      BY <3>1, <3>3 DEF Moves, Takes
    <3> HIDE DEF r
    <3> QED BY <3>2, <3>3, <3>4
  <2>5. CASE pc[p] = "clear"
    <3> DEFINE r == [req[p].old EXCEPT !.att = None, !.detached = TRUE]
    <3>1. req[p].old \in Record /\ Paged(a)
      BY <1>1, <2>5 DEF RequestOK, StepOfKind, HasOld, Detachment
    <3>2. r \in Record
      BY <3>1, RecordMarked DEF Link
    <3>3. store' = [store EXCEPT ![a] = r]
      BY <2>5 DEF Effect, LockEffect, AttachEffect, ReleaseEffect, DetachEffect
    <3> HIDE DEF r
    <3> QED BY <3>1, <3>2, <3>3
  <2>6. CASE pc[p] = "rm_record"
    <3>1. store' = store \/ store' = [store EXCEPT ![a] = None]
      BY <2>6 DEF Effect, LockEffect, AttachEffect, ReleaseEffect, DetachEffect
    <3> QED BY <3>1
  <2>7. CASE pc[p] \notin {"save_att", "unsave", "resave", "promote", "mark", "clear", "rm_record"}
    BY <2>7 DEF Effect, LockEffect, AttachEffect, ReleaseEffect, DetachEffect, Same
  <2> QED BY <2>1, <2>2, <2>3, <2>4, <2>5, <2>6, <2>7
<1>5. ASSUME NEW b \in Apps, Detached(b)'
      PROVE  Detached(b) \/ Paged(b) \/ DetachSync(p, b)'
  <2>1. CASE store' = store
    BY <1>5, <2>1 DEF Detached
  <2>2. CASE store' # store
    <3>1. PICK r \in Record \cup {None} :
             /\ store' = [store EXCEPT ![a] = r]
             /\ (r # None /\ r.detached) => marks \/ Paged(a)
      BY <1>4, <2>2
    <3>2. CASE b = a
      <4>1. store'[a] = r
        BY <1>1, <3>1 DEF Routes
      <4>2. marks \/ Paged(a)
        BY <1>5, <3>1, <3>2, <4>1 DEF Detached
      <4> QED BY <3>2, <4>2 DEF DetachSync
    <3>3. CASE b # a
      BY <1>1, <1>5, <3>1, <3>3 DEF Detached, Routes
    <3> QED BY <3>2, <3>3
  <2> QED BY <2>1, <2>2
<1> QED BY <1>2, <1>3, <1>5 DEF Pages, Paged, DetachSync

LEMMA NowFaultless ==
    ASSUME TypeOK, TypeOK', faults' = 0, [Next]_vars
    PROVE  faults = 0
<1>1. CASE faults' = faults
  BY <1>1
<1>2. CASE Fault \/ NoFault \/ Expiry
  BY <1>2, Faultless
<1>3. ASSUME NEW p \in Procs, Arrival(p) PROVE faults' = faults
  BY <1>3, ArrivalSteps DEF bounds
<1>4. ASSUME NEW p \in Procs, Lock(p) PROVE faults' = faults
  BY <1>4 DEF Lock, LockDatabase, LockRelease, LockReattach, LockDetach, bounds
<1>5. ASSUME NEW p \in Procs, Work(p) PROVE Fault \/ NoFault \/ Expiry
  <2>1. CASE CreateAttachment(p) \/ SaveAttachment(p) \/ Undo(p) \/ Unsave(p) \/ Resave(p)
    BY <2>1 DEF CreateAttachment, SaveAttachment, Undo, Unsave, Resave, PutBack
  <2>2. CASE \/ StartOK(p) \/ StartFailed(p) \/ Verify(p) \/ Cleanup(p) \/ Promote(p)
             \/ Retire(p)
    BY <2>2 DEF StartOK, StartFailed, Verify, Cleanup, Promote, Retire, NoFault
  <2>3. CASE \/ Mark(p) \/ StopDeployment(p) \/ ReleaseAttachment(p)
             \/ ClearAttachment(p) \/ DeleteRecord(p)
    BY <2>3 DEF Mark, StopDeployment, ReleaseAttachment, ClearAttachment, DeleteRecord
  <2>4. CASE Restore(p)
    BY <2>4 DEF Restore
  <2> QED BY <1>5, <2>1, <2>2, <2>3, <2>4 DEF Work
<1>6. ASSUME NEW t \in Threads, Sync(t) PROVE Fault \/ NoFault
  BY <1>6 DEF Sync
<1>7. Crash \/ UNCHANGED vars => faults' = faults
  BY DEF Crash, vars, bounds
<1> QED BY <1>1, <1>2, <1>3, <1>4, <1>5, <1>6, <1>7 DEF Next

PageBody ==
    /\ Unfailing /\ Booting /\ Asked /\ Pages
    /\ \A p \in Procs : Unmarked(p) /\ Detachment(p)

LEMMA PageSync ==
    ASSUME TypeOK, PageBody, NEW t \in Threads, SyncEffect(t), Others(t)
    PROVE  Pages'
BY DEF SyncEffect, Pages, Paged, Detached

LEMMA BootDone ==
    ASSUME TypeOK, PageBody, SyncEffect(Main), Others(Main)
    PROVE  PageBody'
<1>1. NoRequest.kind = "none" /\ NoRequest.restoring = FALSE
  BY DEF NoRequest
<1>2. Returns(Main)
  BY DEF SyncEffect, TypeOK
<1>3. \A p \in Procs : pc[p] = "idle" /\ pc'[p] = pc[p] /\ req'[p] = req[p]
  BY ConstantsAssumption DEF PageBody, Booting, SyncEffect, Others
<1>4. Unfailing' /\ Booting'
  BY <1>1, <1>2, <1>3 DEF PageBody, Unfailing, Booting, Others, Returns
<1>5. Asked'
  BY <1>3 DEF PageBody, Asked
<1>6. Pages'
  BY PageSync
<1>7. ASSUME NEW p \in Procs PROVE Unmarked(p)' /\ Detachment(p)'
  <2>1. req[p].kind = "none"
    BY <1>3 DEF TypeOK, RequestOK, StepOfKind
  <2> QED BY <1>3, <2>1 DEF Unmarked, Detachment, HasCandidate, HasOld
<1> QED BY <1>4, <1>5, <1>6, <1>7 DEF PageBody

LEMMA PageArrival ==
    ASSUME TypeOK, PageBody, NEW p \in Procs, ArrivalEffect(p), Others(p)
    PROVE  PageBody'
<1>0. p # Main /\ p \in Threads
  BY ConstantsAssumption
<1>1. /\ pc[Main] = "idle" /\ pc'[Main] = "idle" /\ pc[p] = "idle" /\ Same
      /\ ~req'[p].restoring /\ req'[p].kind \in Operations
      /\ pc'[p] \in {"lock_db", "lock", "stop"}
      /\ pc'[p] = "stop" => req'[p].kind = "delete"
      /\ pc'[p] = "lock" => req'[p].kind \in {"release", "deploy"}
      /\ req'[p].kind = "release" => ~req'[p].old.detached
  BY <1>0 DEF ArrivalEffect, Others
<1>2. Unfailing' /\ Booting' /\ Asked'
  BY <1>1 DEF PageBody, Unfailing, Booting, Asked, Others
<1>3. Pages'
  <2>1. \A q \in Procs : pc[q] = "sync" => pc'[q] = pc[q] /\ req'[q] = req[q]
    BY <1>1 DEF Others
  <2> QED BY <1>1, <2>1 DEF PageBody, Pages, Paged, Detached, DetachSync, Same
<1>4. Unmarked(p)' /\ Detachment(p)'
  BY <1>1 DEF Unmarked, Detachment, HasCandidate, HasOld
<1>5. ASSUME NEW q \in Procs \ {p} PROVE Unmarked(q)' /\ Detachment(q)'
  <2>1. pc'[q] = pc[q] /\ req'[q] = req[q] /\ Same
    BY <1>1 DEF Others
  <2> QED
    BY <2>1 DEF PageBody, Unmarked, Detachment, HasCandidate, HasOld, Detached, Paged, Named, Same
<1> QED BY <1>2, <1>3, <1>4, <1>5 DEF PageBody

LEMMA PageStep ==
    ASSUME TypeOK, LocksHeld, PageBody, Exclusive, NEW p \in Procs,
           Effect(p) \/ SyncEffect(p), Others(p)
    PROVE  PageBody'
<1>1. /\ Unfailing' /\ Booting' /\ Asked'
      /\ pc[Main] # "sync" /\ pc'[Main] = pc[Main]
  BY Steady DEF PageBody
<1>2. Pages'
  <2>1. CASE Effect(p)
    BY <1>1, <2>1, PagesKept DEF PageBody
  <2>2. CASE SyncEffect(p)
    BY <2>2, PageSync
  <2> QED BY <2>1, <2>2
<1>3. Unmarked(p)' /\ Detachment(p)'
  BY OwnUnmarked, OwnDetachment DEF PageBody
<1>4. \A q \in Procs \ {p} : Unmarked(q)' /\ Detachment(q)'
  BY OthersPaged DEF PageBody
<1> QED BY <1>1, <1>2, <1>3, <1>4 DEF PageBody

\* After a crash every process is where it starts.
Resting ==
    /\ \A p \in Procs : pc[p] = "idle" /\ req[p] = NoRequest
    /\ pc[Main] = "sync" /\ req[Main] = [NoRequest EXCEPT !.kind = "boot"]

LEMMA RestingPaged ==
    ASSUME Resting
    PROVE  PageBody
<1>1. /\ NoRequest.kind = "none" /\ NoRequest.restoring = FALSE
      /\ [NoRequest EXCEPT !.kind = "boot"].restoring = FALSE
  BY DEF NoRequest
<1>2. \A p \in Procs : Unmarked(p) /\ Detachment(p)
  BY <1>1 DEF Resting, Unmarked, Detachment, HasCandidate, HasOld
<1>3. Unfailing /\ Booting /\ Asked /\ Pages
  BY <1>1 DEF Resting, Unfailing, Booting, Asked, Pages
<1> QED BY <1>2, <1>3 DEF PageBody

LEMMA CrashRests == ASSUME Crash PROVE Resting'
BY ConstantsAssumption DEF Crash, Resting

LEMMA InitRests == ASSUME Init PROVE Resting
BY ConstantsAssumption DEF Init, Resting

LEMMA PageInductive ==
    ASSUME TypeOK, TypeOK', LocksHeld, PageInv, Exclusive, [Next]_vars
    PROVE  PageInv'
<1> SUFFICES ASSUME faults' = 0 PROVE PageBody'
  BY DEF PageInv, PageBody
<1>1. PageBody
  BY NowFaultless DEF PageInv, PageBody
<1>2. ASSUME NEW p \in Procs, Arrival(p) PROVE PageBody'
  BY <1>1, <1>2, ArrivalSteps, PageArrival
<1>3. ASSUME NEW p \in Procs, Lock(p) \/ Work(p) PROVE PageBody'
  <2>1. Effect(p) /\ Others(p)
    BY <1>1, <1>3, WorkSteps DEF PageBody
  <2> QED BY <1>1, <2>1, PageStep
<1>4. ASSUME NEW t \in Threads, Sync(t) PROVE PageBody'
  <2>1. SyncEffect(t) /\ Others(t)
    BY <1>1, <1>4, SyncSteps DEF PageBody
  <2>2. CASE t = Main
    BY <1>1, <2>1, <2>2, BootDone
  <2>3. CASE t \in Procs
    BY <1>1, <2>1, <2>3, PageStep
  <2> QED BY <2>2, <2>3
<1>5. CASE Crash
  <2>1. Resting => PageBody
    BY RestingPaged
  <2>2. Resting'
    BY <1>5, CrashRests
  <2>3. (Resting => PageBody)'
    BY RestingPaged, PTL
  <2> QED BY <2>2, <2>3
<1>6. CASE UNCHANGED vars
  BY <1>1, <1>6 DEF vars, PageBody, Unfailing, Booting, Asked, Pages, Unmarked, Detachment,
     Detached, Paged, DetachSync, Named, HasCandidate, HasOld
<1> QED BY <1>2, <1>3, <1>4, <1>5, <1>6 DEF Next

LEMMA PageInvariant ==
    ASSUME Exclusive
    PROVE  Spec => []PageInv
<1>1. Init => PageInv
  BY InitRests, RestingPaged DEF PageInv, PageBody
<1>2. TypeOK /\ TypeOK' /\ LocksHeld /\ PageInv /\ [Next]_vars => PageInv'
  BY PageInductive
<1> QED BY <1>1, <1>2, DatabaseTypeCorrect, DatabaseLocks, PTL DEF Spec

\* A detachment asks MiniBase to let go of the database only when Caddy serves
\* the page and the container is gone (minibase_lifecycle.go:337): for any number
\* of requests on any applications as long as none of them is a deletion, which
\* takes no lock, and with deletions for one request at a time.
THEOREM ReleasedLast ==
    ASSUME Exclusive
    PROVE  Spec => DetachReleasesLast
<1>1. PageInv /\ [Next]_vars =>
        [\A p \in Procs :
            ReleaseAttachment(p) /\ req[p].kind = "detach" /\ faults = 0 =>
                LET a == req[p].app IN
                /\ routes[a] # None /\ routes[a].detached
                /\ Named(a, req[p].old.name) = {}]_vars
  BY DEF PageInv, Detachment, Paged, ReleaseAttachment
<1> QED BY <1>1, PageInvariant, PTL DEF Spec, DetachReleasesLast

-----------------------------------------------------------------------------
(***************************************************************************)
(* One request at a time: the live container and its record.               *)
(***************************************************************************)
BoundBody ==
    /\ \A a \in Apps : Stamped(a) /\ Bound(a)
    /\ \A p \in Procs : Reading(p)

\* What is true of a process that does nothing.
LEMMA NothingRead ==
    ASSUME NEW p, req[p].kind = "none"
    PROVE  Reading(p)
BY DEF Reading, Known, Numbers, Origin, Candidate, HasCandidate, HasOld

LEMMA NamedFewer ==
    ASSUME containers' \subseteq containers, NEW a, NEW n
    PROVE  Named(a, n)' \subseteq Named(a, n)
BY DEF Named

LEMMA FewerBound ==
    ASSUME TypeOK, NEW a \in Apps, Stamped(a), Bound(a), store'[a] = store[a],
           containers' \subseteq containers, clock' \in Nat, clock' >= clock
    PROVE  Stamped(a)' /\ Bound(a)'
<1>1. store[a] \in Record \cup {None} /\ clock \in Nat
  BY DEF TypeOK, Routes
<1>2. Stamped(a)'
  <2>1. store[a] # None => store[a].name \in Nat
    BY <1>1 DEF Record
  <2> QED BY <1>1, <2>1 DEF Stamped
<1>3. Bound(a)'
  BY NamedFewer DEF Bound
<1> QED BY <1>2, <1>3

\* A step that takes what it has read to the next step.
LEMMA ReadingKept ==
    ASSUME TypeOK, NEW p \in Procs, Reading(p), NEW s, pc'[p] = s,
           req'[p].kind = req[p].kind, req'[p].app = req[p].app,
           req'[p].old = req[p].old, req'[p].orig = req[p].orig, req'[p].cand = req[p].cand,
           store' = store, containers' \subseteq containers, clock' \in Nat, clock' >= clock,
           HasOld(p)' => HasOld(p) /\ req[p].old \in Record,
           HasCandidate(p)' => /\ HasCandidate(p) /\ req'[p].att = req[p].att
                               /\ req[p].cand \in Record,
           s \notin {"sync", "retire", "mark"}, pc[p] # "retire",
           pc[p] = "sync" => req[p].kind = "detach"
    PROVE  Reading(p)'
<1>1. Known(p)'
  BY DEF Reading, Known
<1>2. Numbers(p)'
  <2>1. clock \in Nat
    BY DEF TypeOK
  <2>2. HasOld(p)' => req[p].old.name \in Nat /\ req[p].old.name <= clock
    BY DEF Reading, Numbers, Record
  <2>3. HasCandidate(p)' => req[p].cand.name \in Nat /\ req[p].cand.name <= clock
    BY DEF Reading, Numbers, Record
  <2> QED BY <2>1, <2>2, <2>3 DEF Reading, Numbers
<1>3. Origin(p)'
  <2>1. \A n : Named(req[p].app, n)' \subseteq Named(req[p].app, n)
    BY NamedFewer
  <2> QED BY <2>1 DEF Reading, Origin
<1>4. Candidate(p)'
  <2>1. \A n : Named(req[p].app, n)' \subseteq Named(req[p].app, n)
    BY NamedFewer
  <2> QED BY <2>1 DEF Reading, Candidate
<1> QED BY <1>1, <1>2, <1>3, <1>4 DEF Reading

\* What the request does to its application and to itself.
LEMMA BoundReads ==
    ASSUME TypeOK, NEW p \in Procs, NEW a \in Apps, a = req[p].app, RequestOK(p),
           Stamped(a), Bound(a), NEW s \in {"create", "stop", "mark"}, Reads(p, s), Same,
           store[a] # None,
           s = "mark" => req[p].kind = "detach", s = "stop" => req[p].kind = "detach",
           s = "create" => \/ req[p].kind \in Attaches /\ ~store[a].detached /\ store[a].att = None
                           \/ req[p].kind = "reattach" /\ store[a].detached
    PROVE  Reading(p)'
<1>1. /\ req'[p].kind = req[p].kind /\ req'[p].app = a /\ pc'[p] = s
      /\ req'[p].old = store[a] /\ store' = store /\ containers' = containers /\ clock' = clock
      /\ req[p].kind \in Attaches => req'[p].orig = store[a]
  BY DEF Reads, Takes, Same
<1>2. Known(p)'
  BY <1>1 DEF Known, HasOld
<1>3. Numbers(p)' /\ Candidate(p)'
  BY <1>1 DEF Numbers, Candidate, HasOld, HasCandidate, Stamped
<1>4. Origin(p)'
  BY <1>1 DEF Origin, HasOld, Bound, Named
<1> QED BY <1>2, <1>3, <1>4 DEF Reading

LEMMA BoundLock ==
    ASSUME TypeOK, NEW p \in Procs, NEW a \in Apps, a = req[p].app, RequestOK(p),
           Stamped(a), Bound(a), Reading(p), LockEffect(p)
    PROVE  Stamped(a)' /\ Bound(a)' /\ Reading(p)'
<1>0. NoRequest.kind = "none" /\ clock \in Nat
  BY DEF NoRequest, TypeOK
<1>1. Stamped(a)' /\ Bound(a)'
  BY <1>0, FewerBound DEF LockEffect, Same
<1>2. CASE Returns(p)
  <2>1. (req[p].kind = "none" => Reading(p))'
    BY <1>0, <1>2 DEF Returns, Reading, Known, Numbers, Origin, Candidate, HasCandidate, HasOld
  <2> QED BY <1>0, <1>1, <1>2, <2>1 DEF Returns
<1>3. ASSUME NEW s \in {"lock", "create", "start"}, Moves(p, s), Same,
             s = "create" => req[p].kind = "deploy",
             pc[p] \in {"lock_db", "lock"},
             s = "start" => pc[p] = "lock" /\ req[p].kind \in Cutovers,
             s = "lock" => req[p].kind \notin Attaches /\ pc[p] = "lock_db"
      PROVE  Reading(p)'
  <2>1. /\ pc'[p] = s /\ req'[p].kind = req[p].kind /\ req'[p].app = req[p].app
        /\ req'[p].old = req[p].old /\ req'[p].orig = req[p].orig /\ req'[p].cand = req[p].cand
        /\ store' = store /\ containers' = containers /\ clock' = clock
    BY <1>3 DEF Moves, Takes, Same
  <2>2. ~HasCandidate(p)'
    BY <2>1 DEF HasCandidate
  <2>3. HasOld(p)' => HasOld(p) /\ req[p].old \in Record
    BY <1>3, <2>1 DEF HasOld, RequestOK, StepOfKind
  <2> QED BY <1>0, <1>3, <2>1, <2>2, <2>3, ReadingKept
<1>4. ASSUME NEW s \in {"create", "stop", "mark"}, Reads(p, s), Same, store[a] # None,
             s = "mark" => req[p].kind = "detach", s = "stop" => req[p].kind = "detach",
             s = "create" => \/ req[p].kind \in Attaches /\ ~store[a].detached /\ store[a].att = None
                             \/ req[p].kind = "reattach" /\ store[a].detached
      PROVE  Reading(p)'
  BY <1>4, BoundReads
<1>5. CASE ~Returns(p)
  <2>1. CASE pc[p] = "lock_db"
    BY <1>1, <1>3, <1>4, <1>5, <2>1 DEF LockEffect
  <2>2. CASE pc[p] = "lock" /\ req[p].kind \in Cutovers \cup {"deploy"}
    BY <1>1, <1>3, <1>5, <2>2 DEF LockEffect
  <2>3. CASE pc[p] = "lock" /\ req[p].kind \in {"reattach", "detach"}
    BY <1>1, <1>4, <1>5, <2>3 DEF LockEffect, Detached
  <2> QED BY <1>5, <2>1, <2>2, <2>3 DEF LockEffect
<1> QED BY <1>2, <1>1, <1>5

LEMMA BoundAttach ==
    ASSUME TypeOK, NEW p \in Procs, NEW a \in Apps, a = req[p].app, RequestOK(p),
           Stamped(a), Bound(a), Reading(p), AttachEffect(p)
    PROVE  Stamped(a)' /\ Bound(a)' /\ Reading(p)'
<1>0. NoRequest.kind = "none" /\ clock \in Nat /\ store \in Routes
  BY DEF NoRequest, TypeOK
<1>1. CASE pc[p] \in {"create", "undo"}
  <2>1. /\ store' = store /\ containers' = containers /\ clock' \in Nat /\ clock' >= clock
    BY <1>0, <1>1 DEF AttachEffect
  <2>2. Stamped(a)' /\ Bound(a)'
    BY <2>1, FewerBound
  <2>3. CASE Returns(p)
    BY <1>0, <2>2, <2>3 DEF Returns, Reading, Known, Numbers, Origin, Candidate, HasCandidate, HasOld
  <2>4. CASE ~Returns(p)
    <3>1. /\ req'[p].kind = req[p].kind /\ req'[p].app = req[p].app
          /\ req'[p].old = req[p].old /\ req'[p].orig = req[p].orig /\ req'[p].cand = req[p].cand
          /\ pc'[p] \in {"save_att", "start", "unsave", "resave"}
      BY <1>1, <2>4 DEF AttachEffect, Moves, Takes
    <3>2. ~HasCandidate(p)' /\ (HasOld(p)' => HasOld(p) /\ req[p].old \in Record)
      BY <1>1, <3>1 DEF HasCandidate, HasOld, RequestOK
    <3> QED BY <1>1, <2>1, <2>2, <3>1, <3>2, ReadingKept
  <2> QED BY <2>3, <2>4
<1>2. CASE pc[p] = "save_att"
  <2> DEFINE r == [req[p].old EXCEPT !.att = req[p].att]
  <2>1. /\ req[p].kind \in Attaches /\ HasOld(p) /\ req[p].old \in Record
    BY <1>2 DEF RequestOK, StepOfKind, HasOld
  <2>2. r.name = req[p].old.name /\ r.detached = req[p].old.detached /\ r # None
    <3>1. req[p].att \in Link
      BY DEF TypeOK, Request
    <3> QED BY <2>1, <3>1, RecordFields, RecordMarked
  <2> HIDE DEF r
  <2>3. /\ store' = [store EXCEPT ![a] = r] /\ containers' = containers /\ clock' = clock
        /\ req'[p].kind = req[p].kind /\ req'[p].app = a /\ pc'[p] = "lock"
        /\ req'[p].old = r /\ req'[p].orig = req[p].orig
    BY <1>2 DEF AttachEffect, Takes, r
  <2>4. store'[a] = r
    BY <1>0, <2>3 DEF Routes
  <2>5. Stamped(a)'
    BY <2>1, <2>2, <2>3, <2>4 DEF Stamped, Reading, Numbers
  <2>6. Bound(a)'
    BY <1>2, <2>1, <2>2, <2>3, <2>4 DEF Bound, Reading, Origin, Named
  <2>7. Known(p)' /\ Numbers(p)' /\ Candidate(p)'
    BY <2>1, <2>2, <2>3, <2>4 DEF Reading, Known, Numbers, Candidate, HasCandidate, HasOld
  <2>8. Origin(p)'
    BY <1>2, <2>1, <2>2, <2>3 DEF Reading, Origin, Named
  <2> QED BY <2>5, <2>6, <2>7, <2>8 DEF Reading
<1>3. CASE pc[p] \in {"unsave", "resave"}
  <2>1. /\ req[p].kind = "attach" /\ HasOld(p) /\ req[p].old \in Record /\ req[p].orig \in Record
    BY <1>3 DEF RequestOK, StepOfKind, HasOld
  <2>2. Returns(p) /\ containers' = containers /\ clock' = clock
    BY <1>3 DEF AttachEffect
  <2>3. Reading(p)'
    BY <1>0, <2>2 DEF Returns, Reading, Known, Numbers, Origin, Candidate, HasCandidate, HasOld
  <2>4. \/ pc[p] = "unsave" /\ store'[a] = req[p].orig
        \/ pc[p] = "resave" /\ store'[a] = req[p].old
    BY <1>0, <1>3 DEF AttachEffect, Routes
  <2>5. CASE pc[p] = "unsave" /\ store'[a] = req[p].orig
    BY <2>1, <2>2, <2>3, <2>5 DEF Stamped, Bound, Reading, Numbers, Origin, Named
  <2>6. CASE pc[p] = "resave" /\ store'[a] = req[p].old
    <3>1. store'[a] = store[a]
      BY <2>1, <2>6 DEF Reading, Known
    <3> QED BY <1>0, <2>2, <2>3, <3>1, FewerBound
  <2> QED BY <2>4, <2>5, <2>6
<1> QED BY <1>1, <1>2, <1>3 DEF AttachEffect

LEMMA BoundStart ==
    ASSUME TypeOK, NEW p \in Procs, NEW a \in Apps, a = req[p].app, RequestOK(p),
           Stamped(a), Bound(a), Reading(p), ReleaseEffect(p), pc[p] = "start", pc'[p] = "verify"
    PROVE  Stamped(a)' /\ Bound(a)' /\ Reading(p)'
<1> DEFINE cand == CandidateRecord(p)
           c == [app |-> a, name |-> cand.name, uses |-> cand.att]
<1>0. clock \in Nat /\ store \in Routes /\ store[a] \in Record \cup {None}
  BY DEF TypeOK, Routes
<1>1. /\ Named(a, cand.name) = {} /\ store' = store /\ containers' = containers \cup {c}
      /\ clock' = IF req[p].kind \in Cutovers THEN clock + 1 ELSE clock
      /\ req'[p].kind = req[p].kind /\ req'[p].app = a /\ req'[p].cand = cand
      /\ req'[p].old = req[p].old /\ req'[p].orig = req[p].orig /\ req'[p].att = req[p].att
  BY DEF ReleaseEffect, GivesUp, Moves, Takes, Returns
<1>2. /\ cand.name = CandidateName(p)
      /\ cand.att = IF req[p].kind \in Cutovers THEN req[p].old.att ELSE req[p].att
  BY CandidateFields
<1>3. req[p].kind \in Starting /\ (req[p].kind # "deploy" => HasOld(p) /\ req[p].old \in Record)
  BY DEF RequestOK, StepOfKind, HasOld
<1>4. \/ req[p].kind \in Cutovers /\ cand.name = clock + 1
      \/ req[p].kind = "reattach" /\ cand.name = req[p].old.name
      \/ req[p].kind = "deploy" /\ cand.name = 0
  BY <1>2, <1>3 DEF CandidateName
<1>5. req[p].kind # "deploy" => /\ store[a] = req[p].old /\ req[p].old.name \in Nat
                                /\ req[p].old.name <= clock
  BY <1>3 DEF Reading, Known, Numbers, Record
<1>6. c.app = a /\ c.name = cand.name /\ c.uses = cand.att
  OBVIOUS
<1> HIDE DEF cand, c
<1>7. \A n : n # cand.name => Named(a, n)' = Named(a, n)
  BY <1>1, <1>6 DEF Named
<1>8. \A n : n = cand.name => Named(a, n)' = {c}
  BY <1>1, <1>6 DEF Named
<1>9. clock' \in Nat /\ clock' >= clock
  BY <1>0, <1>1
<1>10. Stamped(a)'
  BY <1>0, <1>1, <1>9 DEF Stamped, Record
<1>11. req[p].kind \in Cutovers => cand.name # req[p].old.name
  BY <1>0, <1>3, <1>4, <1>5
<1>12. Bound(a)'
  <2>1. CASE req[p].kind \in Cutovers
    BY <1>1, <1>5, <1>7, <1>11, <2>1 DEF Bound
  <2>2. CASE req[p].kind = "reattach"
    BY <1>1, <1>3, <1>5, <2>2 DEF Bound, Reading, Known
  <2>3. CASE req[p].kind = "deploy"
    BY <1>1, <2>3 DEF Bound, Reading, Known
  <2> QED BY <1>3, <2>1, <2>2, <2>3
<1>13. Known(p)'
  BY <1>1, <1>3 DEF Reading, Known, HasOld
<1>14. Numbers(p)'
  <2>1. HasOld(p)' => req[p].kind # "deploy"
    BY <1>1 DEF HasOld
  <2>2. cand.name <= clock'
    BY <1>0, <1>1, <1>3, <1>4, <1>5
  <2>3. req[p].kind # "deploy" => req[p].old.name <= clock'
    BY <1>0, <1>5, <1>9
  <2> QED BY <1>1, <1>11, <2>1, <2>2, <2>3 DEF Numbers
<1>15. Origin(p)'
  <2>1. req[p].kind \in Attaches => req[p].orig.name # cand.name
    BY <1>3, <1>11 DEF Reading, Origin
  <2>2. \A n : req[p].kind \in Attaches /\ n = req[p].orig.name => Named(a, n)' = Named(a, n)
    BY <1>7, <2>1
  <2> QED BY <1>1, <1>3, <2>2 DEF Reading, Origin
<1>16. Candidate(p)'
  BY <1>1, <1>2, <1>6, <1>8 DEF Candidate
<1> QED BY <1>10, <1>12, <1>13, <1>14, <1>15, <1>16 DEF Reading

LEMMA BoundRelease ==
    ASSUME TypeOK, NEW p \in Procs, NEW a \in Apps, a = req[p].app, RequestOK(p),
           Stamped(a), Bound(a), Reading(p), ReleaseEffect(p)
    PROVE  Stamped(a)' /\ Bound(a)' /\ Reading(p)'
<1>0. NoRequest.kind = "none" /\ clock \in Nat /\ store \in Routes
  BY DEF NoRequest, TypeOK
<1>1. CASE pc[p] = "start" /\ pc'[p] = "verify"
  BY <1>1, BoundStart
<1>2. CASE pc[p] # "promote" /\ pc'[p] # "verify"
  <2>1. store' = store /\ containers' \subseteq containers /\ clock' \in Nat /\ clock' >= clock
    BY <1>0, <1>2 DEF ReleaseEffect, Takes
  <2>2. Stamped(a)' /\ Bound(a)'
    BY <2>1, FewerBound
  <2>3. CASE Returns(p)
    BY <1>0, <2>2, <2>3 DEF Returns, Reading, Known, Numbers, Origin, Candidate, HasCandidate, HasOld
  <2>4. CASE ~Returns(p)
    <3>1. /\ req'[p].kind = req[p].kind /\ req'[p].app = req[p].app /\ req'[p].att = req[p].att
          /\ req'[p].old = req[p].old /\ req'[p].orig = req[p].orig /\ req'[p].cand = req[p].cand
          /\ \/ pc[p] \in {"start", "cleanup"} /\ pc'[p] = "undo"
             \/ pc[p] = "verify" /\ pc'[p] \in {"promote", "cleanup"}
      BY <1>2, <2>4 DEF ReleaseEffect, GivesUp, Moves, Takes
    <3>2. /\ HasCandidate(p)' => HasCandidate(p) /\ req[p].cand \in Record
          /\ HasOld(p)' => HasOld(p) /\ req[p].old \in Record
      BY <3>1 DEF HasCandidate, HasOld, RequestOK
    <3> QED BY <2>1, <2>2, <3>1, <3>2, ReadingKept
  <2> QED BY <2>3, <2>4
<1>3. CASE pc[p] = "promote"
  <2>1. /\ Moves(p, "sync") /\ store' = [store EXCEPT ![a] = req[p].cand]
        /\ containers' = containers /\ clock' = clock
    BY <1>3 DEF ReleaseEffect
  <2>2. HasCandidate(p) /\ req[p].kind \in Starting
    BY <1>3 DEF RequestOK, StepOfKind, HasCandidate
  <2>3. /\ store'[a] = req[p].cand /\ req'[p].kind = req[p].kind /\ req'[p].app = a
        /\ req'[p].old = req[p].old /\ req'[p].cand = req[p].cand /\ req'[p].att = req[p].att
        /\ req'[p].orig = req[p].orig /\ pc'[p] = "sync"
    BY <1>0, <2>1 DEF Routes, Moves, Takes
  <2>4. Stamped(a)' /\ Bound(a)'
    BY <2>1, <2>2, <2>3 DEF Stamped, Bound, Reading, Numbers, Candidate, Named
  <2>5. Known(p)'
    BY <1>3, <2>2, <2>3 DEF Reading, Known, HasOld
  <2>6. Numbers(p)' /\ Origin(p)'
    BY <1>3, <2>1, <2>2, <2>3 DEF Reading, Numbers, Origin, HasOld, HasCandidate
  <2>7. Candidate(p)'
    BY <2>1, <2>2, <2>3 DEF Reading, Candidate, Named
  <2> QED BY <2>4, <2>5, <2>6, <2>7 DEF Reading
<1>4. pc'[p] = "verify" => pc[p] = "start"
  BY DEF ReleaseEffect, Moves, Takes, GivesUp, Returns
<1> QED BY <1>1, <1>2, <1>3, <1>4

LEMMA BoundDetach ==
    ASSUME TypeOK, NEW p \in Procs, NEW a \in Apps, a = req[p].app, RequestOK(p),
           Stamped(a), Bound(a), Reading(p), DetachEffect(p)
    PROVE  Stamped(a)' /\ Bound(a)' /\ Reading(p)'
<1>0. NoRequest.kind = "none" /\ clock \in Nat /\ store \in Routes
  BY DEF NoRequest, TypeOK
<1>1. CASE pc[p] \in {"stop", "release_att"}
  <2>1. store' = store /\ containers' \subseteq containers /\ clock' \in Nat /\ clock' >= clock
    BY <1>0, <1>1 DEF DetachEffect
  <2>2. Stamped(a)' /\ Bound(a)'
    BY <2>1, FewerBound
  <2>3. /\ req'[p].kind = req[p].kind /\ req'[p].app = req[p].app /\ req'[p].att = req[p].att
        /\ req'[p].old = req[p].old /\ req'[p].orig = req[p].orig /\ req'[p].cand = req[p].cand
        /\ pc'[p] \in {"release_att", "clear", "rm_record"}
    BY <1>1 DEF DetachEffect, Moves, Takes
  <2>4. ~HasCandidate(p)' /\ (HasOld(p)' => HasOld(p) /\ req[p].old \in Record)
    BY <1>1, <2>3 DEF HasCandidate, HasOld, RequestOK
  <2> QED BY <1>1, <2>1, <2>2, <2>3, <2>4, ReadingKept
<1>2. CASE pc[p] \in {"mark", "clear"}
  <2> DEFINE r == IF pc[p] = "mark" THEN [req[p].old EXCEPT !.detached = TRUE]
                  ELSE [req[p].old EXCEPT !.att = None, !.detached = TRUE]
  <2>1. HasOld(p) /\ req[p].old \in Record /\ req[p].kind = "detach"
    BY <1>2 DEF RequestOK, StepOfKind, HasOld
  <2>2. r.name = req[p].old.name /\ r.detached = TRUE
    BY <2>1, RecordFields
  <2>3. store' = [store EXCEPT ![a] = r] /\ clock' = clock /\ containers' = containers
    BY <1>2 DEF DetachEffect
  <2>4. /\ req'[p].kind = req[p].kind => req'[p].old = req[p].old /\ pc'[p] # "mark"
        /\ req'[p].kind \in {"none", "detach"}
    BY <1>0, <1>2, <2>1 DEF DetachEffect, Moves, Takes, Returns
  <2> HIDE DEF r
  <2>5. Stamped(a)' /\ Bound(a)'
    BY <1>0, <2>1, <2>2, <2>3 DEF Stamped, Bound, Routes, Reading, Numbers
  <2>6. Reading(p)'
    BY <2>1, <2>3, <2>4 DEF Reading, Known, Numbers, Origin, Candidate, HasOld, HasCandidate
  <2> QED BY <2>5, <2>6
<1>3. CASE pc[p] = "rm_record"
  <2>1. /\ HasOld(p) /\ req[p].kind = "delete"
        /\ store'[a] = None /\ clock' = clock
    BY <1>0, <1>3 DEF RequestOK, StepOfKind, HasOld, DetachEffect, Routes
  <2>2. \/ req'[p].kind = "none"
        \/ /\ req'[p].kind = "delete" /\ req'[p].old = req[p].old /\ req'[p].app = a
           /\ pc'[p] = "sync"
    BY <1>0, <1>3, <2>1 DEF DetachEffect, Moves, Takes, Returns
  <2> QED
    BY <2>1, <2>2 DEF Stamped, Bound, Reading, Known, Numbers, Origin, Candidate, HasOld, HasCandidate
<1> QED BY <1>1, <1>2, <1>3 DEF DetachEffect

LEMMA BoundSync ==
    ASSUME TypeOK, NEW p \in Procs, NEW a \in Apps, a = req[p].app, RequestOK(p),
           Stamped(a), Bound(a), Reading(p), SyncEffect(p)
    PROVE  Stamped(a)' /\ Bound(a)' /\ Reading(p)'
<1>0. NoRequest.kind = "none" /\ clock \in Nat
  BY DEF NoRequest, TypeOK
<1>1. pc[p] = "sync" /\ UNCHANGED <<store, containers, clock>>
  BY DEF SyncEffect
<1>2. Stamped(a)' /\ Bound(a)'
  BY <1>1 DEF Stamped, Bound, Named
<1>3. CASE Returns(p)
  BY <1>0, <1>2, <1>3 DEF Returns, Reading, Known, Numbers, Origin, Candidate, HasCandidate, HasOld
<1>4. CASE ~Returns(p)
  <2>1. /\ req'[p].kind = req[p].kind /\ req'[p].app = req[p].app /\ req'[p].att = req[p].att
        /\ req'[p].old = req[p].old /\ req'[p].orig = req[p].orig /\ req'[p].cand = req[p].cand
        /\ \/ req[p].kind \in Cutovers /\ pc'[p] = "retire"
           \/ req[p].kind = "detach" /\ pc'[p] = "stop"
    BY <1>4 DEF SyncEffect, Moves, Takes
  <2>2. Known(p)'
    BY <1>1, <2>1 DEF Reading, Known, HasOld
  <2>3. Numbers(p)'
    BY <1>1, <2>1 DEF Reading, Numbers, HasOld, HasCandidate
  <2>4. Origin(p)' /\ Candidate(p)'
    BY <1>1, <2>1 DEF Reading, Origin, Candidate, HasOld, HasCandidate, Named
  <2> QED BY <1>2, <2>2, <2>3, <2>4 DEF Reading
<1> QED BY <1>3, <1>4

\* A request works on its own application.
LEMMA OtherApps ==
    ASSUME TypeOK, NEW p \in Procs, Effect(p) \/ SyncEffect(p),
           NEW a \in Apps, a # req[p].app
    PROVE  /\ store'[a] = store[a] /\ (\A n : Named(a, n)' = Named(a, n))
           /\ clock' \in Nat /\ clock' >= clock
<1>1. clock \in Nat /\ store \in Routes
  BY DEF TypeOK
<1>2. CASE LockEffect(p) \/ SyncEffect(p)
  BY <1>1, <1>2 DEF LockEffect, SyncEffect, Same, Named
<1>3. CASE AttachEffect(p)
  BY <1>1, <1>3 DEF AttachEffect, Named, Routes
<1>4. CASE ReleaseEffect(p)
  <2>1. store'[a] = store[a] /\ clock' \in Nat /\ clock' >= clock
    BY <1>1, <1>4 DEF ReleaseEffect, Routes
  <2>2. \/ containers' \subseteq containers /\ \A c \in containers \ containers' : c.app = req[p].app
        \/ \E c : c.app = req[p].app /\ containers' = containers \cup {c}
    <3>1. CASE pc[p] = "start" /\ containers' # containers
      BY <1>4, <3>1 DEF ReleaseEffect
    <3>2. CASE pc[p] # "start" \/ containers' = containers
      BY <1>4, <3>2 DEF ReleaseEffect, Named
    <3> QED BY <3>1, <3>2
  <2>3. \A n : Named(a, n)' = Named(a, n)
    BY <2>2 DEF Named
  <2> QED BY <2>1, <2>3
<1>5. CASE DetachEffect(p)
  BY <1>1, <1>5 DEF DetachEffect, Named, Routes
<1> QED BY <1>2, <1>3, <1>4, <1>5 DEF Effect

LEMMA BoundStep ==
    ASSUME TypeOK, Serial, BoundBody, NEW p \in Procs, Effect(p) \/ SyncEffect(p)
    PROVE  BoundBody'
<1>1. RequestOK(p) /\ pc[p] # "idle"
  BY DEF TypeOK, Effect, LockEffect, AttachEffect, ReleaseEffect, DetachEffect, SyncEffect
<1>2. PICK a \in Apps : a = req[p].app
  BY <1>1 DEF RequestOK
<1>3. Stamped(a)' /\ Bound(a)' /\ Reading(p)'
  BY <1>1, <1>2, BoundLock, BoundAttach, BoundRelease, BoundDetach, BoundSync DEF BoundBody, Effect
<1>4. ASSUME NEW b \in Apps \ {a} PROVE Stamped(b)' /\ Bound(b)'
  <2>1. /\ store'[b] = store[b] /\ (\A n : Named(b, n)' = Named(b, n))
        /\ clock' \in Nat /\ clock' >= clock
    BY <1>2, OtherApps
  <2>2. store[b] \in Record \cup {None} /\ clock \in Nat /\ Stamped(b) /\ Bound(b)
    BY DEF TypeOK, Routes, BoundBody
  <2>3. Stamped(b)'
    BY <2>1, <2>2 DEF Stamped, Record
  <2> QED BY <2>1, <2>2, <2>3 DEF Bound
<1> QED BY <1>3, <1>4 DEF BoundBody, Serial

LEMMA BoundArrival ==
    ASSUME TypeOK, Serial, BoundBody, NEW p \in Procs, ArrivalEffect(p)
    PROVE  BoundBody'
<1>1. PICK a \in Apps :
         /\ pc[p] = "idle" /\ Same
         /\ req'[p].app = a
         /\ \/ req'[p].kind \in Guarded /\ pc'[p] = "lock_db"
            \/ /\ req'[p].kind = "release" /\ pc'[p] = "lock"
               /\ store[a] # None /\ req'[p].old = store[a]
            \/ req'[p].kind = "deploy" /\ pc'[p] = "lock" /\ store[a] = None
            \/ /\ req'[p].kind = "delete" /\ pc'[p] = "stop"
               /\ store[a] # None /\ req'[p].old = store[a]
  BY DEF ArrivalEffect
<1>2. \A b \in Apps : Stamped(b)' /\ Bound(b)'
  BY <1>1 DEF BoundBody, Stamped, Bound, Named, Same
<1>3. ~HasCandidate(p)' /\ (req'[p].kind \in Attaches => ~HasOld(p)')
  BY <1>1 DEF HasCandidate, HasOld
<1>4. Numbers(p)' /\ Origin(p)' /\ Candidate(p)'
  BY <1>1, <1>3 DEF Numbers, Origin, Candidate, HasOld, BoundBody, Stamped, Same
<1>5. Known(p)'
  BY <1>1 DEF Known, HasOld, Same
<1> QED BY <1>2, <1>4, <1>5 DEF Serial, BoundBody, Reading

LEMMA RestingRead == ASSUME Resting PROVE \A p \in Procs : Reading(p)
BY NothingRead DEF Resting, NoRequest

LEMMA BoundInductive ==
    ASSUME TypeOK, TypeOK', PageInv, BoundInv, Serial, [Next]_vars
    PROVE  BoundInv'
<1> SUFFICES ASSUME faults' = 0 PROVE BoundBody'
  BY DEF BoundInv, BoundBody
<1>1. faults = 0 /\ BoundBody /\ Unfailing
  BY NowFaultless DEF BoundInv, BoundBody, PageInv
<1>2. ASSUME NEW p \in Procs, Arrival(p) PROVE BoundBody'
  BY <1>1, <1>2, ArrivalSteps, BoundArrival
<1>3. ASSUME NEW p \in Procs, Lock(p) \/ Work(p) PROVE BoundBody'
  BY <1>1, <1>3, WorkSteps, BoundStep
<1>4. ASSUME NEW t \in Threads, Sync(t) PROVE BoundBody'
  <2>1. SyncEffect(t) /\ Others(t)
    BY <1>1, <1>4, SyncSteps
  <2>2. CASE t = Main
    <3>1. \A p \in Procs : pc'[p] = pc[p] /\ req'[p] = req[p]
      BY <2>1, <2>2, ConstantsAssumption DEF Others
    <3> QED
      BY <1>1, <2>1, <3>1 DEF SyncEffect, BoundBody, Stamped, Bound, Named, Reading, Known,
         Numbers, Origin, Candidate, HasOld, HasCandidate
  <2>3. CASE t \in Procs
    BY <1>1, <2>1, <2>3, BoundStep
  <2> QED BY <2>2, <2>3
<1>5. CASE Crash
  <2>1. UNCHANGED <<store, containers, clock>>
    BY <1>5 DEF Crash
  <2>2. \A b \in Apps : Stamped(b)' /\ Bound(b)'
    BY <1>1, <2>1 DEF BoundBody, Stamped, Bound, Named
  <2>3. Resting'
    BY <1>5, CrashRests
  <2>4. (Resting => \A p \in Procs : Reading(p))'
    BY RestingRead, PTL
  <2> QED BY <2>2, <2>3, <2>4 DEF BoundBody
<1>6. CASE UNCHANGED vars
  BY <1>1, <1>6 DEF vars, BoundBody, Stamped, Bound, Named, Reading, Known,
         Numbers, Origin, Candidate, HasOld, HasCandidate
<1> QED BY <1>2, <1>3, <1>4, <1>5, <1>6 DEF Next

LEMMA BoundInit ==
    ASSUME Init
    PROVE  BoundBody
<1>1. \A a \in Apps : store[a] # None =>
        store[a].name = 0 /\ store[a].att = None /\ a \in Deployed
  BY DEF Init
<1>2. \A c \in containers : c.uses = None
  BY DEF Init
<1>3. clock = 0
  BY DEF Init
<1> QED BY <1>1, <1>2, <1>3, InitRests, RestingRead DEF BoundBody, Stamped, Bound, Named

LEMMA BoundInvariant ==
    ASSUME Serial
    PROVE  Spec => []BoundInv
<1>1. Init => BoundInv
  BY BoundInit DEF BoundInv, BoundBody
<1>2. TypeOK /\ TypeOK' /\ PageInv /\ BoundInv /\ [Next]_vars => BoundInv'
  BY BoundInductive
<1>3. Exclusive
  BY DEF Exclusive
<1> QED BY <1>1, <1>2, <1>3, DatabaseTypeCorrect, PageInvariant, PTL DEF Spec

\* The container of a live record connects by the attachment the record names,
\* or was started before it was attached: through releases, reattachments,
\* compensations that lose their answer and crashes, for one request at a time.
\* Of two requests, one may save the record that it read before the other.
THEOREM LiveContainerBound ==
    ASSUME Serial
    PROVE  Spec => []ContainerBound
<1>1. BoundInv => ContainerBound
  BY DEF BoundInv, Bound, ContainerBound
<1> QED BY <1>1, BoundInvariant, PTL

-----------------------------------------------------------------------------
(***************************************************************************)
(* One request at a time, without crashes: every container is one that the *)
(* record or the request knows, and its attachment is kept.                *)
(***************************************************************************)
OwnBody == Owned /\ Ties

\* Before the candidate starts the containers are those of the record.
LEMMA NamesBefore ==
    ASSUME NEW p \in Procs, NEW a, a = req[p].app, ~HasCandidate(p),
           \/ req[p].kind \in Starting
           \/ req[p].kind = "detach" /\ pc[p] \in {"lock_db", "lock", "mark"}
           \/ req[p].kind = "delete" /\ pc[p] \in {"stop", "sync"}
           \/ req[p].kind = "none"
    PROVE  Names(p) = Live(a)
BY DEF Names

LEMMA NamesCandidate ==
    ASSUME NEW p \in Procs, HasCandidate(p)
    PROVE  Names(p) = {req[p].cand.name} \cup
                      IF req[p].kind \in Cutovers THEN {req[p].old.name} ELSE {}
BY DEF Names, HasCandidate

LEMMA NamesDetach ==
    ASSUME NEW p \in Procs
    PROVE  /\ req[p].kind = "detach" /\ pc[p] \in {"sync", "stop"} => Names(p) = {req[p].old.name}
           /\ /\ req[p].kind \in {"detach", "delete"} /\ pc[p] \in {"release_att", "clear", "rm_record"}
              => Names(p) = {}
BY DEF Names, HasCandidate

LEMMA OwnAttach ==
    ASSUME TypeOK, NEW p \in Procs, NEW a \in Apps, a = req[p].app, RequestOK(p),
           Unmarked(p), Reading(p), LockEffect(p) \/ AttachEffect(p)
    PROVE  /\ containers' = containers /\ Live(a)' = Live(a) /\ Names(p) = Live(a)
           /\ Returns(p) \/ Names(p)' = Live(a) \/ Live(a) = {}
<1>0. store \in Routes /\ req[p].att \in Link
  BY DEF TypeOK, Request
<1>1. containers' = containers
  BY DEF LockEffect, AttachEffect, Same
<1>2. Names(p) = Live(a)
  <2>1. ~HasCandidate(p)
    BY DEF HasCandidate, LockEffect, AttachEffect
  <2>2. \/ req[p].kind \in Starting
        \/ req[p].kind = "detach" /\ pc[p] \in {"lock_db", "lock"}
    BY DEF RequestOK, StepOfKind, LockEffect, AttachEffect
  <2> QED BY <2>1, <2>2, NamesBefore
<1>3. Live(a)' = Live(a)
  <2>1. CASE pc[p] = "save_att"
    <3> DEFINE r == [req[p].old EXCEPT !.att = req[p].att]
    <3>1. req[p].kind \in Attaches /\ HasOld(p) /\ req[p].old \in Record
      BY <2>1 DEF RequestOK, StepOfKind, HasOld
    <3>2. r.name = req[p].old.name /\ r.detached = req[p].old.detached /\ r # None
      BY <1>0, <3>1, RecordFields, RecordMarked
    <3>3. store' = [store EXCEPT ![a] = r]
      BY <2>1 DEF LockEffect, AttachEffect
    <3> HIDE DEF r
    <3>4. store'[a] = r /\ store[a] = req[p].old /\ req[p].old # None
      BY <1>0, <2>1, <3>1, <3>3, RecordFields DEF Routes, Reading, Known
    <3> QED BY <3>2, <3>4 DEF Live, Detached
  <2>2. CASE pc[p] \in {"unsave", "resave"}
    <3>1. /\ req[p].kind = "attach" /\ HasOld(p) /\ req[p].old \in Record
          /\ req[p].orig \in Record
      BY <2>2 DEF RequestOK, StepOfKind, HasOld
    <3>2. /\ store[a] = req[p].old /\ req[p].orig.name = req[p].old.name
          /\ ~req[p].old.detached /\ ~req[p].orig.detached
      BY <2>2, <3>1 DEF Reading, Known, Origin, Unmarked
    <3>3. store'[a] \in {req[p].orig, req[p].old}
      BY <1>0, <2>2 DEF LockEffect, AttachEffect, Routes
    <3>4. req[p].orig # None /\ req[p].old # None
      BY <3>1, RecordFields
    <3> QED BY <3>2, <3>3, <3>4 DEF Live, Detached
  <2>3. CASE pc[p] \notin {"save_att", "unsave", "resave"}
    BY <2>3 DEF LockEffect, AttachEffect, Same, Live, Detached
  <2> QED BY <2>1, <2>2, <2>3
<1>4. Returns(p) \/ Names(p)' = Live(a) \/ Live(a) = {}
  <2> SUFFICES ASSUME ~Returns(p), Live(a) # {} PROVE Names(p)' = Live(a)
    OBVIOUS
  <2>1. /\ req'[p].kind = req[p].kind /\ req'[p].app = req[p].app
        /\ \/ pc'[p] \in {"lock", "create", "save_att", "start", "unsave", "resave"}
           \/ pc'[p] = "mark" /\ req[p].kind = "detach"
        /\ pc'[p] \in {"create", "save_att", "start", "unsave", "resave"} => req[p].kind \in Starting
        /\ pc'[p] = "lock" => req[p].kind \in Starting \cup {"detach"}
    <3>1. CASE LockEffect(p)
      <4>1. ~(req[p].kind = "detach" /\ store[a].detached /\ Reads(p, "stop") /\ store[a] # None)
        BY DEF Live, Detached
      <4>2. \/ Moves(p, "lock") /\ req[p].kind \in Starting \cup {"detach"}
            \/ \E s \in {"create", "start"} :
                  (Moves(p, s) \/ Reads(p, s)) /\ req[p].kind \in Starting
            \/ Reads(p, "mark") /\ req[p].kind = "detach"
        BY <3>1, <4>1 DEF LockEffect, RequestOK, StepOfKind
      <4> QED BY <4>2 DEF Moves, Reads, Takes
    <3>2. CASE AttachEffect(p)
      <4>1. req[p].kind \in Starting
        BY <3>2 DEF AttachEffect, RequestOK, StepOfKind
      <4> QED BY <3>2, <4>1 DEF AttachEffect, Moves, Takes
    <3> QED BY <3>1, <3>2
  <2>2. ~HasCandidate(p)'
    BY <2>1 DEF HasCandidate
  <2> QED BY <1>3, <2>1, <2>2 DEF Names
<1> QED BY <1>1, <1>2, <1>3, <1>4

\* The containers of the application after a step of the release.
LEMMA OwnRelease ==
    ASSUME TypeOK, NEW p \in Procs, NEW a \in Apps, a = req[p].app, RequestOK(p),
           Unmarked(p), Reading(p), ReleaseEffect(p),
           \A c \in containers : c.app = a => c.name \in Names(p),
           NEW c \in containers', c.app = a
    PROVE  IF Returns(p) THEN c.name \in Live(a)' ELSE c.name \in Names(p)'
<1>0. store \in Routes /\ NoRequest.kind = "none"
  BY DEF TypeOK, NoRequest
<1>1. /\ req[p].kind \in Starting /\ pc[p] \in {"start", "verify", "cleanup", "promote", "retire"}
      /\ req[p].kind \in Cutovers \cup {"reattach"} => HasOld(p) /\ req[p].old \in Record
      /\ req[p].kind \notin Cutovers => req[p].kind \in {"reattach", "deploy"}
  BY DEF RequestOK, StepOfKind, HasOld, ReleaseEffect
<1>2. pc[p] # "retire" =>
        Live(a) = IF req[p].kind \in Cutovers THEN {req[p].old.name} ELSE {}
  BY <1>1, RecordFields DEF Reading, Known, Unmarked, Live, Detached
<1>3. CASE pc[p] = "start"
  <2>1. Names(p) = Live(a)
    BY <1>1, <1>3, NamesBefore DEF HasCandidate
  <2>2. CASE pc'[p] = "verify"
    <3>1. /\ req'[p].kind = req[p].kind /\ req'[p].old = req[p].old
          /\ containers' = containers \cup {[app |-> a, name |-> CandidateRecord(p).name,
                                             uses |-> CandidateRecord(p).att]}
          /\ req'[p].cand = CandidateRecord(p)
      BY <1>0, <1>3, <2>2 DEF ReleaseEffect, Takes, GivesUp, Moves, Returns
    <3>2. HasCandidate(p)'
      BY <1>1, <2>2, <3>1 DEF HasCandidate
    <3>3. Names(p)' = {req'[p].cand.name} \cup
                      IF req'[p].kind \in Cutovers THEN {req'[p].old.name} ELSE {}
      BY <1>1, <2>2, <3>1 DEF Names, HasCandidate
    <3>4. c \in containers \/ c.name = req'[p].cand.name
      BY <3>1
    <3>5. ~Returns(p)
      BY <2>2 DEF Returns
    <3> QED BY <1>2, <1>3, <2>1, <3>1, <3>3, <3>4, <3>5
  <2>3. CASE pc'[p] # "verify"
    <3>1. GivesUp(p) /\ store' = store /\ containers' = containers
      BY <1>3, <2>3 DEF ReleaseEffect, Takes
    <3>2. c.name \in Live(a) /\ Live(a)' = Live(a)
      BY <2>1, <3>1 DEF Live, Detached
    <3>3. ~Returns(p) => Names(p)' = Live(a)'
      BY <1>1, <3>1 DEF GivesUp, Moves, Takes, Names, HasCandidate
    <3> QED BY <3>2, <3>3
  <2> QED BY <2>2, <2>3
<1>4. CASE pc[p] # "start"
  <2>1. HasCandidate(p) /\ req[p].cand \in Record
    BY <1>1, <1>4 DEF HasCandidate, RequestOK
  <2>2. Names(p) = {req[p].cand.name} \cup
                   IF req[p].kind \in Cutovers THEN {req[p].old.name} ELSE {}
    BY <2>1, NamesCandidate
  <2>3. c \in containers /\ c.name \in Names(p)
    BY <1>4 DEF ReleaseEffect
  <2>4. CASE pc[p] \in {"verify", "promote"}
    <3>1. /\ req'[p].kind = req[p].kind /\ req'[p].old = req[p].old /\ req'[p].cand = req[p].cand
          /\ pc'[p] \in {"promote", "cleanup", "sync"}
      BY <2>4 DEF ReleaseEffect, Moves, Takes
    <3>2. Names(p)' = {req[p].cand.name} \cup
                     IF req[p].kind \in Cutovers THEN {req[p].old.name} ELSE {}
      BY <1>1, <3>1 DEF Names, HasCandidate
    <3> QED BY <2>2, <2>3, <3>1, <3>2 DEF Returns
  <2>5. CASE pc[p] = "cleanup"
    <3>1. GivesUp(p) /\ store' = store /\ containers' = containers \ Named(a, req[p].cand.name)
      BY <2>5 DEF ReleaseEffect
    <3>2. c.name # req[p].cand.name
      BY <2>3, <3>1 DEF Named
    <3>3. c.name \in Live(a) /\ Live(a)' = Live(a)
      BY <1>2, <2>2, <2>3, <2>5, <3>1, <3>2 DEF Live, Detached
    <3>4. ~Returns(p) => Names(p)' = Live(a)'
      BY <1>1, <3>1 DEF GivesUp, Moves, Takes, Names, HasCandidate
    <3> QED BY <3>3, <3>4
  <2>6. CASE pc[p] = "retire"
    <3>1. Returns(p) /\ store' = store /\ containers' = containers \ Named(a, req[p].old.name)
      BY <2>6 DEF ReleaseEffect
    <3>2. c.name # req[p].old.name
      BY <2>3, <3>1 DEF Named
    <3>3. store[a] = req[p].cand /\ ~req[p].cand.detached /\ req[p].cand # None
      BY <1>1, <2>1, <2>6, RecordFields DEF Reading, Known, Unmarked
    <3> QED BY <2>2, <2>3, <3>1, <3>2, <3>3 DEF Live, Detached
  <2> QED BY <1>1, <1>4, <2>4, <2>5, <2>6
<1> QED BY <1>3, <1>4

LEMMA OwnDetach ==
    ASSUME TypeOK, NEW p \in Procs, NEW a \in Apps, a = req[p].app, RequestOK(p),
           Reading(p), DetachEffect(p),
           \A c \in containers : c.app = a => c.name \in Names(p),
           NEW c \in containers', c.app = a
    PROVE  IF Returns(p) THEN c.name \in Live(a)' ELSE c.name \in Names(p)'
<1>0. c \in containers /\ c.name \in Names(p) /\ store \in Routes /\ NoRequest.kind = "none"
  BY DEF DetachEffect, TypeOK, NoRequest
<1>1. CASE pc[p] = "mark"
  <2>1. HasOld(p) /\ req[p].kind = "detach" /\ Names(p) = Live(a)
    BY <1>1, NamesBefore DEF RequestOK, StepOfKind, HasOld, HasCandidate
  <2>2. c.name = req[p].old.name
    BY <1>0, <1>1, <2>1 DEF Reading, Known, Live
  <2>3. req'[p].kind = "detach" /\ pc'[p] = "sync" /\ req'[p].old = req[p].old
    BY <1>1, <2>1 DEF DetachEffect, Moves, Takes
  <2>4. Names(p)' = {req[p].old.name}
    BY <2>3 DEF Names, HasCandidate
  <2> QED BY <2>2, <2>3, <2>4 DEF Returns
<1>2. CASE pc[p] = "stop"
  <2>1. /\ req[p].kind \in {"detach", "delete"} /\ HasOld(p)
        /\ containers' = containers \ Named(a, req[p].old.name)
    BY <1>2 DEF RequestOK, StepOfKind, HasOld, DetachEffect
  <2>2. c.name # req[p].old.name
    BY <1>0, <2>1 DEF Named
  <2>3. CASE req[p].kind = "detach"
    BY <1>0, <1>2, <2>2, <2>3, NamesDetach
  <2>4. CASE req[p].kind = "delete"
    <3>1. Names(p) = Live(a)
      BY <1>2, <2>4, NamesBefore DEF HasCandidate
    <3> QED BY <1>0, <1>2, <2>1, <2>2, <2>4, <3>1 DEF Reading, Known, Live
  <2> QED BY <2>1, <2>3, <2>4
<1>3. CASE pc[p] \in {"release_att", "clear", "rm_record"}
  <2>1. req[p].kind \in {"detach", "delete"}
    BY <1>3 DEF RequestOK, StepOfKind
  <2> QED BY <1>0, <1>3, <2>1, NamesDetach
<1> QED BY <1>1, <1>2, <1>3 DEF DetachEffect

LEMMA OwnSync ==
    ASSUME TypeOK, NEW p \in Procs, NEW a \in Apps, a = req[p].app, RequestOK(p),
           Unmarked(p), Reading(p), SyncEffect(p),
           \A c \in containers : c.app = a => c.name \in Names(p),
           NEW c \in containers', c.app = a
    PROVE  IF Returns(p) THEN c.name \in Live(a)' ELSE c.name \in Names(p)'
<1>0. /\ c \in containers /\ c.name \in Names(p) /\ NoRequest.kind = "none"
      /\ pc[p] = "sync" /\ store' = store /\ req[p].kind \in Kinds
  BY DEF SyncEffect, RequestOK, NoRequest
<1>1. CASE req[p].kind \in Starting
  <2>1. HasCandidate(p) /\ req[p].cand \in Record
    BY <1>0, <1>1 DEF HasCandidate, RequestOK
  <2>2. Names(p) = {req[p].cand.name} \cup
                   IF req[p].kind \in Cutovers THEN {req[p].old.name} ELSE {}
    BY <2>1, NamesCandidate
  <2>3. CASE req[p].kind \in Cutovers
    <3>1. /\ req'[p].kind = req[p].kind /\ req'[p].old = req[p].old /\ req'[p].cand = req[p].cand
          /\ pc'[p] = "retire"
      BY <2>3 DEF SyncEffect, Moves, Takes
    <3>2. Names(p)' = Names(p)
      BY <1>0, <2>1, <2>3, <3>1 DEF Names, HasCandidate
    <3> QED BY <1>0, <3>1, <3>2 DEF Returns
  <2>4. CASE req[p].kind \notin Cutovers
    <3>1. Returns(p)
      BY <1>1, <2>4 DEF SyncEffect
    <3>2. store[a] = req[p].cand /\ ~req[p].cand.detached /\ req[p].cand # None
      BY <1>0, <1>1, <2>1, RecordFields DEF Reading, Known, Unmarked
    <3> QED BY <1>0, <2>2, <2>4, <3>1, <3>2 DEF Live, Detached
  <2> QED BY <2>3, <2>4
<1>2. CASE req[p].kind = "detach"
  <2>1. req'[p].kind = req[p].kind /\ req'[p].old = req[p].old /\ pc'[p] = "stop"
    BY <1>2 DEF SyncEffect, Moves, Takes
  <2>2. Names(p) = {req[p].old.name} /\ Names(p)' = {req[p].old.name}
    BY <1>0, <1>2, <2>1 DEF Names, HasCandidate
  <2> QED BY <1>0, <2>1, <2>2 DEF Returns
<1>3. CASE req[p].kind = "delete"
  <2>1. Returns(p)
    BY <1>3 DEF SyncEffect
  <2>2. Names(p) = Live(a) /\ Live(a)' = Live(a)
    BY <1>0, <1>3, NamesBefore DEF HasCandidate, Live, Detached
  <2> QED BY <1>0, <2>1, <2>2
<1> QED BY <1>0, <1>1, <1>2, <1>3

\* No container connects by the attachment that goes.
LEMMA OwnUndo ==
    ASSUME TypeOK, NEW p \in Procs, NEW a \in Apps, a = req[p].app, RequestOK(p),
           Unmarked(p), Reading(p), AttachEffect(p), pc[p] = "undo",
           NEW c \in containers, c.app = a, c.name \in Names(p)
    PROVE  c.uses = None
<1>1. /\ req[p].kind \in {"attach", "admin", "reattach", "deploy"}
      /\ req[p].kind \in Attaches \cup {"reattach"} => HasOld(p)
  BY DEF RequestOK, StepOfKind, HasOld
<1>2. c.name \in Live(a)
  BY OwnAttach
<1>3. req[p].kind \in Attaches
  BY <1>1, <1>2 DEF Reading, Known, Live, Detached
<1>4. c.name = req[p].orig.name
  BY <1>1, <1>2, <1>3 DEF Reading, Known, Origin, Live
<1>5. c \in Named(a, req[p].orig.name)
  BY <1>4 DEF Named
<1> QED BY <1>1, <1>3, <1>5 DEF Reading, Origin

LEMMA TiesContainers ==
    ASSUME TypeOK, NEW p \in Procs, NEW a \in Apps, a = req[p].app, RequestOK(p),
           Unmarked(p), Reading(p), Detachment(p), Ties, Effect(p) \/ SyncEffect(p),
           \A c \in containers : c.app = a => c.name \in Names(p),
           NEW c \in containers'
    PROVE  Tied(c.uses, c.app) /\ c.uses \in attachments' \cup {None}
<1>1. CASE LockEffect(p) \/ SyncEffect(p)
  BY <1>1 DEF LockEffect, SyncEffect, Same, Ties
<1>2. CASE AttachEffect(p)
  <2>0. c \in containers /\ Tied(c.uses, c.app) /\ c.uses \in attachments \cup {None}
    BY <1>2 DEF AttachEffect, Ties
  <2>1. CASE pc[p] = "undo"
    <3>1. attachments' \in {attachments, attachments \ {req[p].att}}
      BY <1>2, <2>1 DEF AttachEffect
    <3>2. CASE c.app = a
      BY <1>2, <2>0, <2>1, <3>2, OwnUndo
    <3>3. CASE c.app # a
      <4>1. Tied(req[p].att, a)
        BY DEF Ties
      <4> QED BY <2>0, <3>1, <3>3, <4>1 DEF Tied
    <3> QED BY <3>2, <3>3
  <2>2. CASE pc[p] # "undo"
    <3>1. attachments \subseteq attachments'
      BY <1>2, <2>2 DEF AttachEffect
    <3> QED BY <2>0, <3>1
  <2> QED BY <2>1, <2>2
<1>3. CASE ReleaseEffect(p)
  <2>0. attachments' = attachments
    BY <1>3 DEF ReleaseEffect
  <2>1. CASE c \in containers
    BY <2>0, <2>1 DEF Ties
  <2>2. CASE c \notin containers
    <3> DEFINE cand == CandidateRecord(p)
    <3>1. /\ pc[p] = "start" /\ cand.att \in attachments \cup {None}
          /\ c = [app |-> a, name |-> cand.name, uses |-> cand.att]
      BY <1>3, <2>2 DEF ReleaseEffect
    <3>2. cand.att = IF req[p].kind \in Cutovers THEN req[p].old.att ELSE req[p].att
      BY CandidateFields
    <3>3. req[p].kind \in Cutovers => store[a] = req[p].old /\ store[a] # None
      <4>1. req[p].kind \in Cutovers => HasOld(p) /\ req[p].old \in Record
        BY <3>1 DEF RequestOK, HasOld
      <4> QED BY <3>1, <4>1, RecordFields DEF Reading, Known
    <3>4. Tied(cand.att, a)
      BY <3>2, <3>3 DEF Ties
    <3>5. c.uses = cand.att /\ c.app = a
      BY <3>1
    <3> QED BY <2>0, <3>1, <3>4, <3>5
  <2> QED BY <2>1, <2>2
<1>4. CASE DetachEffect(p)
  <2>0. c \in containers /\ Tied(c.uses, c.app) /\ c.uses \in attachments \cup {None}
    BY <1>4 DEF DetachEffect, Ties
  <2>1. CASE pc[p] = "release_att"
    <3>1. /\ attachments' = attachments \ {req[p].old.att}
          /\ req[p].kind \in {"detach", "delete"} /\ HasOld(p) /\ req[p].old \in Record
      BY <1>4, <2>1 DEF DetachEffect, RequestOK, StepOfKind, HasOld
    <3>2. c.app # a
      BY <2>0, <2>1, <3>1, NamesDetach
    <3>3. store[a] # None /\ store[a].att = req[p].old.att
      <4>1. CASE req[p].kind = "delete"
        BY <2>1, <3>1, <4>1, RecordFields DEF Reading, Known
      <4>2. CASE req[p].kind = "detach"
        <5>1. [req[p].old EXCEPT !.detached = TRUE].att = req[p].old.att
          BY <3>1, RecordFields
        <5> QED BY <2>1, <3>1, <4>2, <5>1 DEF Detachment, Detached
      <4> QED BY <3>1, <4>1, <4>2
    <3>4. Tied(req[p].old.att, a)
      BY <3>3 DEF Ties
    <3> QED BY <2>0, <3>1, <3>2, <3>4 DEF Tied
  <2>2. CASE pc[p] # "release_att"
    BY <1>4, <2>0, <2>2 DEF DetachEffect
  <2> QED BY <2>1, <2>2
<1> QED BY <1>1, <1>2, <1>3, <1>4 DEF Effect

LEMMA TiesRecord ==
    ASSUME TypeOK, NEW p \in Procs, NEW a \in Apps, a = req[p].app, RequestOK(p),
           Reading(p), Ties, Effect(p) \/ SyncEffect(p)
    PROVE  /\ store'[a] # None => Tied(store'[a].att, a)
           /\ Tied(req'[p].att, req'[p].app)
<1>0. store \in Routes /\ req[p].att \in Link /\ Tied(req[p].att, a)
  BY DEF TypeOK, Request, Ties
<1>1. NoRequest.att = None
  BY DEF NoRequest
<1>2. Tied(req'[p].att, req'[p].app)
  <2>1. CASE AttachEffect(p) /\ pc[p] = "create"
    BY <1>1, <2>1 DEF AttachEffect, Returns, Takes, Tied
  <2>2. CASE ~(AttachEffect(p) /\ pc[p] = "create")
    <3>1. Returns(p) \/ (req'[p].att = req[p].att /\ req'[p].app = a)
      BY <2>2 DEF Effect, LockEffect, AttachEffect, ReleaseEffect, DetachEffect, SyncEffect,
                  Takes, Moves, Reads, GivesUp
    <3> QED BY <1>0, <1>1, <3>1 DEF Returns, Tied
  <2> QED BY <2>1, <2>2
<1>3. ASSUME pc[p] \in {"save_att", "unsave", "resave", "promote", "mark", "clear"},
             req[p].kind # "deploy", req[p].kind # "reattach"
      PROVE  req[p].old \in Record /\ HasOld(p)
  BY <1>3 DEF RequestOK, StepOfKind, HasOld
<1>4. ASSUME pc[p] \in {"resave", "promote", "mark"}, HasOld(p), req[p].old \in Record
      PROVE  Tied(req[p].old.att, a)
  <2>1. store[a] = req[p].old
    <3>1. pc[p] = "resave" => req[p].kind = "attach"
      BY DEF RequestOK, StepOfKind
    <3>2. pc[p] = "promote" => req[p].kind \in Starting
      BY DEF RequestOK, StepOfKind
    <3> QED BY <1>4, <3>1, <3>2 DEF Reading, Known
  <2> QED BY <1>4, <2>1, RecordFields DEF Ties
<1>5. CASE pc[p] = "save_att"
  <2>1. req[p].old \in Record
    BY <1>5 DEF RequestOK, StepOfKind, HasOld
  <2>2. [req[p].old EXCEPT !.att = req[p].att].att = req[p].att
    BY <2>1, RecordFields
  <2>3. store' = [store EXCEPT ![a] = [req[p].old EXCEPT !.att = req[p].att]]
    BY <1>5 DEF Effect, LockEffect, AttachEffect, ReleaseEffect, DetachEffect, SyncEffect
  <2> QED BY <1>0, <1>2, <2>2, <2>3 DEF Routes
<1>6. CASE pc[p] = "unsave"
  <2>1. /\ req[p].orig.att = None /\ store'[a] = req[p].orig
    BY <1>0, <1>6 DEF RequestOK, StepOfKind, HasOld, Reading, Origin, Routes,
           Effect, LockEffect, AttachEffect, ReleaseEffect, DetachEffect, SyncEffect
  <2> QED BY <1>2, <2>1 DEF Tied
<1>7. CASE pc[p] = "resave"
  <2>1. store'[a] = req[p].old /\ HasOld(p) /\ req[p].old \in Record
    BY <1>0, <1>7 DEF RequestOK, StepOfKind, HasOld, Routes,
           Effect, LockEffect, AttachEffect, ReleaseEffect, DetachEffect, SyncEffect
  <2> QED BY <1>2, <1>4, <1>7, <2>1
<1>8. CASE pc[p] = "promote"
  <2>1. store'[a] = req[p].cand
    BY <1>0, <1>8 DEF Routes, Effect, LockEffect, AttachEffect, ReleaseEffect, DetachEffect, SyncEffect
  <2>2. HasCandidate(p) /\ (req[p].kind \in Cutovers => HasOld(p) /\ req[p].old \in Record)
    BY <1>8 DEF RequestOK, StepOfKind, HasOld, HasCandidate
  <2>3. req[p].cand.att = IF req[p].kind \in Cutovers THEN req[p].old.att ELSE req[p].att
    BY <2>2 DEF Reading, Candidate
  <2> QED BY <1>0, <1>2, <1>4, <1>8, <2>1, <2>2, <2>3
<1>9. CASE pc[p] = "mark"
  <2>1. HasOld(p) /\ req[p].old \in Record
    BY <1>9 DEF RequestOK, StepOfKind, HasOld
  <2>2. [req[p].old EXCEPT !.detached = TRUE].att = req[p].old.att
    BY <2>1, RecordFields
  <2>3. store' = [store EXCEPT ![a] = [req[p].old EXCEPT !.detached = TRUE]]
    BY <1>9 DEF Effect, LockEffect, AttachEffect, ReleaseEffect, DetachEffect, SyncEffect
  <2> QED BY <1>0, <1>2, <1>4, <1>9, <2>1, <2>2, <2>3 DEF Routes
<1>10. CASE pc[p] = "clear"
  <2>1. HasOld(p) /\ req[p].old \in Record
    BY <1>10 DEF RequestOK, StepOfKind, HasOld
  <2>2. [req[p].old EXCEPT !.att = None, !.detached = TRUE].att = None
    BY <2>1, RecordFields
  <2>3. store' = [store EXCEPT ![a] = [req[p].old EXCEPT !.att = None, !.detached = TRUE]]
    BY <1>10 DEF Effect, LockEffect, AttachEffect, ReleaseEffect, DetachEffect, SyncEffect
  <2> QED BY <1>0, <1>2, <2>2, <2>3 DEF Routes, Tied
<1>11. CASE pc[p] = "rm_record"
  <2>1. store'[a] = None
    BY <1>0, <1>11 DEF Routes, Effect, LockEffect, AttachEffect, ReleaseEffect, DetachEffect, SyncEffect
  <2> QED BY <1>2, <2>1
<1>12. CASE pc[p] \notin {"save_att", "unsave", "resave", "promote", "mark", "clear", "rm_record"}
  <2>1. store' = store
    BY <1>12 DEF Effect, LockEffect, AttachEffect, ReleaseEffect, DetachEffect, SyncEffect, Same
  <2> QED BY <1>2, <2>1 DEF Ties
<1> QED BY <1>5, <1>6, <1>7, <1>8, <1>9, <1>10, <1>11, <1>12

LEMMA OwnStep ==
    ASSUME TypeOK, TypeOK', Serial, PageBody, BoundBody, OwnBody, NEW p \in Procs,
           Effect(p) \/ SyncEffect(p)
    PROVE  OwnBody'
<1>1. RequestOK(p) /\ pc[p] # "idle" /\ Unmarked(p) /\ Detachment(p) /\ Reading(p) /\ Ties
  BY DEF TypeOK, Effect, LockEffect, AttachEffect, ReleaseEffect, DetachEffect, SyncEffect,
         PageBody, BoundBody, OwnBody
<1>2. PICK a \in Apps : a = req[p].app
  BY <1>1 DEF RequestOK
<1>3. /\ \A c \in containers : c.app = a => c.name \in Names(p)
      /\ \A c \in containers : c.app # a => c.name \in Live(c.app)
  BY <1>2 DEF OwnBody, Owned, Serial
<1>4. Ties'
  <2>1. \A c \in containers' : Tied(c.uses, c.app) /\ c.uses \in attachments' \cup {None}
    BY <1>1, <1>2, <1>3, TiesContainers
  <2>2. /\ store'[a] # None => Tied(store'[a].att, a)
        /\ Tied(req'[p].att, req'[p].app)
    BY <1>1, <1>2, TiesRecord
  <2>3. \A b \in Apps \ {a} : store'[b] = store[b]
    BY <1>2, OtherApps
  <2> QED BY <1>1, <2>1, <2>2, <2>3 DEF Ties, Serial
<1>5. Owned'
  <2> SUFFICES ASSUME NEW c \in containers'
               PROVE  \/ req'[p].app = c.app /\ c.name \in Names(p)'
                      \/ req'[p].app # c.app /\ c.name \in Live(c.app)'
    BY DEF Owned, Serial
  <2>0. c.app \in Apps /\ (Returns(p) => req'[p].app \notin Apps)
    <3>1. containers' \subseteq Container
      BY DEF TypeOK
    <3> QED BY <3>1, ConstantsAssumption DEF Container, Returns, NoRequest
  <2>1. CASE c.app = a
    <3>1. IF Returns(p) THEN c.name \in Live(a)' ELSE c.name \in Names(p)'
      <4>1. CASE LockEffect(p) \/ AttachEffect(p)
        BY <1>1, <1>2, <1>3, <2>1, <4>1, OwnAttach
      <4>2. CASE ReleaseEffect(p)
        BY <1>1, <1>2, <1>3, <2>1, <4>2, OwnRelease
      <4>3. CASE DetachEffect(p)
        BY <1>1, <1>2, <1>3, <2>1, <4>3, OwnDetach
      <4>4. CASE SyncEffect(p)
        BY <1>1, <1>2, <1>3, <2>1, <4>4, OwnSync
      <4> QED BY <4>1, <4>2, <4>3, <4>4 DEF Effect
    <3>2. Returns(p) \/ req'[p].app = a
      BY <1>2 DEF Effect, LockEffect, AttachEffect, ReleaseEffect, DetachEffect, SyncEffect,
                  Takes, Moves, Reads, GivesUp
    <3> QED BY <2>0, <2>1, <3>1, <3>2
  <2>2. CASE c.app # a
    <3>1. /\ store'[c.app] = store[c.app]
          /\ \A n : Named(c.app, n)' = Named(c.app, n)
      BY <1>2, <2>0, <2>2, OtherApps
    <3>2. c \in containers
      BY <3>1 DEF Named
    <3>3. c.name \in Live(c.app)'
      BY <1>3, <2>2, <3>1, <3>2 DEF Live, Detached
    <3>4. Returns(p) \/ req'[p].app = a
      BY <1>2 DEF Effect, LockEffect, AttachEffect, ReleaseEffect, DetachEffect, SyncEffect,
                  Takes, Moves, Reads, GivesUp
    <3> QED BY <2>0, <2>2, <3>3, <3>4
  <2> QED BY <2>1, <2>2
<1> QED BY <1>4, <1>5 DEF OwnBody

LEMMA OwnArrival ==
    ASSUME TypeOK, Serial, OwnBody, NEW p \in Procs, ArrivalEffect(p)
    PROVE  OwnBody'
<1>1. PICK a \in Apps :
         /\ pc[p] = "idle" /\ Same
         /\ req'[p].app = a /\ req'[p].att = None
         /\ \/ req'[p].kind \in Guarded /\ pc'[p] = "lock_db"
            \/ req'[p].kind \in {"release", "deploy"} /\ pc'[p] = "lock"
            \/ req'[p].kind = "delete" /\ pc'[p] = "stop"
  BY DEF ArrivalEffect
<1>2. \A c \in containers : c.name \in Live(c.app)
  <2>1. req[p].kind = "none"
    BY <1>1 DEF TypeOK, RequestOK, StepOfKind
  <2>2. Names(p) = Live(req[p].app)
    BY <2>1, NamesBefore DEF HasCandidate
  <2> QED BY <2>2 DEF OwnBody, Owned, Serial
<1>3. Names(p)' = Live(a)'
  BY <1>1 DEF Names, HasCandidate
<1>4. Owned'
  BY <1>1, <1>2, <1>3 DEF Owned, Serial, Same, Live, Detached
<1>5. Ties'
  BY <1>1 DEF OwnBody, Ties, Serial, Same, Tied
<1> QED BY <1>4, <1>5 DEF OwnBody

LEMMA WorkCrashes ==
    ASSUME NEW p \in Procs, Work(p)
    PROVE  crashes' = crashes
<1>1. CASE CreateAttachment(p) \/ SaveAttachment(p) \/ Undo(p) \/ Unsave(p) \/ Resave(p)
  BY <1>1 DEF CreateAttachment, SaveAttachment, Undo, Unsave, Resave, PutBack,
     Fault, NoFault, Expiry, bounds
<1>2. CASE \/ StartOK(p) \/ StartFailed(p) \/ Verify(p) \/ Cleanup(p) \/ Promote(p) \/ Retire(p)
  BY <1>2 DEF StartOK, StartFailed, Verify, Cleanup, Promote, Retire, Fault, NoFault, bounds
<1>3. CASE \/ Mark(p) \/ StopDeployment(p) \/ ReleaseAttachment(p)
           \/ ClearAttachment(p) \/ DeleteRecord(p)
  BY <1>3 DEF Mark, StopDeployment, ReleaseAttachment, ClearAttachment, DeleteRecord,
     Fault, NoFault, bounds
<1>4. CASE Restore(p)
  BY <1>4 DEF Restore, Fault, NoFault, bounds
<1> QED BY <1>1, <1>2, <1>3, <1>4 DEF Work

LEMMA OwnSame ==
    ASSUME OwnBody, UNCHANGED <<store, containers, attachments>>,
           \A p \in Procs : pc'[p] = pc[p] /\ req'[p] = req[p]
    PROVE  OwnBody'
<1>1. \A a : Live(a)' = Live(a)
  BY DEF Live, Detached
<1>2. \A p \in Procs : Names(p)' = Names(p)
  BY <1>1 DEF Names, HasCandidate
<1>3. Owned'
  BY <1>1, <1>2 DEF OwnBody, Owned
<1>4. Ties'
  BY DEF OwnBody, Ties
<1> QED BY <1>3, <1>4 DEF OwnBody

LEMMA OwnInductive ==
    ASSUME TypeOK, TypeOK', PageInv, BoundInv, OwnInv, Serial, [Next]_vars
    PROVE  OwnInv'
<1> SUFFICES ASSUME faults' = 0, crashes' = 0 PROVE OwnBody'
  BY DEF OwnInv, OwnBody
<1>1. faults = 0 /\ PageBody /\ BoundBody
  BY NowFaultless DEF BoundInv, BoundBody, PageInv, PageBody
<1>2. ~Crash /\ crashes = 0
  <2>1. crashes' = crashes \/ Crash
    <3>1. ASSUME NEW p \in Procs, Arrival(p) PROVE crashes' = crashes
      BY <3>1, ArrivalSteps DEF bounds
    <3>2. ASSUME NEW p \in Procs, Lock(p) PROVE crashes' = crashes
      BY <3>2 DEF Lock, LockDatabase, LockRelease, LockReattach, LockDetach, bounds
    <3>3. ASSUME NEW p \in Procs, Work(p) PROVE crashes' = crashes
      BY <3>3, WorkCrashes
    <3>4. ASSUME NEW t \in Threads, Sync(t) PROVE crashes' = crashes
      BY <3>4 DEF Sync, Fault, NoFault, bounds
    <3>5. CASE UNCHANGED vars
      BY <3>5 DEF vars, bounds
    <3> QED BY <3>1, <3>2, <3>3, <3>4, <3>5 DEF Next
  <2>2. Crash => crashes' # 0
    BY DEF Crash, TypeOK
  <2> QED BY <2>1, <2>2
<1>3. OwnBody
  BY <1>1, <1>2 DEF OwnInv, OwnBody
<1>4. ASSUME NEW p \in Procs, Arrival(p) PROVE OwnBody'
  BY <1>3, <1>4, ArrivalSteps, OwnArrival
<1>5. ASSUME NEW p \in Procs, Lock(p) \/ Work(p) PROVE OwnBody'
  BY <1>1, <1>3, <1>5, WorkSteps, OwnStep DEF PageBody
<1>6. ASSUME NEW t \in Threads, Sync(t) PROVE OwnBody'
  <2>1. SyncEffect(t) /\ Others(t)
    BY <1>1, <1>6, SyncSteps DEF PageBody
  <2>2. CASE t = Main
    <3>1. \A p \in Procs : pc'[p] = pc[p] /\ req'[p] = req[p]
      BY <2>1, <2>2, ConstantsAssumption DEF Others
    <3> QED
      BY <1>3, <2>1, <3>1, OwnSame DEF SyncEffect
  <2>3. CASE t \in Procs
    BY <1>1, <1>3, <2>1, <2>3, OwnStep
  <2> QED BY <2>2, <2>3
<1>7. CASE UNCHANGED vars
  BY <1>3, <1>7, OwnSame DEF vars
<1> QED BY <1>2, <1>4, <1>5, <1>6, <1>7 DEF Next

LEMMA OwnInit ==
    ASSUME Init
    PROVE  OwnBody
<1>1. NoRequest.app = None /\ NoRequest.att = None
  BY DEF NoRequest
<1>2. \A p \in Procs : req[p].app = None /\ req[p].att = None
  BY <1>1, InitRests DEF Resting
<1>3. \A c \in containers : c.app \in Deployed /\ c.name = 0 /\ c.uses = None
  BY DEF Init
<1>4. \A a \in Deployed : store[a] = [name |-> 0, att |-> None, detached |-> FALSE]
  BY ConstantsAssumption DEF Init
<1>5. [name |-> 0, att |-> None, detached |-> FALSE] \in Record
  BY DEF Record, Link
<1>6. \A a \in Deployed : Live(a) = {0}
  BY <1>4, <1>5, RecordFields DEF Live, Detached
<1>7. Owned
  BY <1>2, <1>3, <1>6, ConstantsAssumption DEF Owned
<1>8. Ties
  <2>1. \A a \in Apps : store[a] # None => store[a].att = None
    BY DEF Init
  <2> QED BY <1>2, <1>3, <2>1 DEF Ties, Tied
<1> QED BY <1>7, <1>8 DEF OwnBody

LEMMA OwnInvariant ==
    ASSUME Serial
    PROVE  Spec => []OwnInv
<1>1. Init => OwnInv
  BY OwnInit DEF OwnInv, OwnBody
<1>2. TypeOK /\ TypeOK' /\ PageInv /\ BoundInv /\ OwnInv /\ [Next]_vars => OwnInv'
  BY OwnInductive
<1>3. Exclusive
  BY DEF Exclusive
<1> QED BY <1>1, <1>2, <1>3, DatabaseTypeCorrect, PageInvariant, BoundInvariant, PTL DEF Spec

\* "This makes database deletion impossible while any old process could still be
\* using DATABASE_URL" (minibase_lifecycle.go:313): for one request at a time,
\* without a failing command and without a crash, every container connects by an
\* attachment MiniBase keeps, whatever answers are lost to an expired context.
THEOREM NoContainerOutlives ==
    ASSUME Serial
    PROVE  Spec => []NoDanglingUse
<1>1. OwnInv => NoDanglingUse
  BY DEF OwnInv, Ties, NoDanglingUse
<1> QED BY <1>1, OwnInvariant, PTL

\* "Deployment is stopped until a database is reattached"
\* (minibase_lifecycle.go:373): Caddy serves the page of a detached record, also
\* after a crash in the middle of a detachment, and no container of it runs.
THEOREM DetachmentComplete ==
    ASSUME Serial
    PROVE  Spec => []DetachComplete
<1>1. PageInv /\ OwnInv => DetachComplete
  <2> SUFFICES ASSUME PageInv, OwnInv, NEW a \in Apps, Quiet(a), pc[Main] = "idle", faults = 0,
                      store[a] # None, store[a].detached
               PROVE  /\ Paged(a)
                      /\ crashes = 0 => Named(a, store[a].name) = {}
    BY DEF DetachComplete, Paged
  <2>1. \A p \in Procs : req[p].app # a
    BY DEF Quiet
  <2>2. Paged(a)
    <3>1. Detached(a) /\ pc[Main] # "sync" /\ Pages
      BY DEF Detached, PageInv
    <3>2. \A p \in Procs : ~DetachSync(p, a)
      BY <2>1 DEF DetachSync
    <3> QED BY <3>1, <3>2 DEF Pages
  <2>3. ASSUME crashes = 0, NEW c \in Named(a, store[a].name) PROVE FALSE
    <3>1. c \in containers /\ c.app = a /\ Owned
      BY <2>3 DEF Named, OwnInv
    <3>2. c.name \in Live(a)
      BY <2>1, <3>1 DEF Owned
    <3> QED BY <3>2 DEF Live, Detached
  <2> QED BY <2>2, <2>3
<1>2. Exclusive
  BY DEF Exclusive
<1> QED BY <1>1, <1>2, PageInvariant, OwnInvariant, PTL

-----------------------------------------------------------------------------
(***************************************************************************)
(* One request at a time, whatever fails: a deletion.                      *)
(***************************************************************************)
LEMMA DeletionStays ==
    ASSUME TypeOK, NEW p \in Procs, Lock(p) \/ Work(p), Deleting(p)
    PROVE  Deleting(p)'
<1>0. /\ pc \in [Threads -> Steps] /\ req \in [Threads -> Request] /\ p \in Threads
      /\ StepOfKind(p) /\ NoRequest.kind = "none"
  BY DEF TypeOK, RequestOK, NoRequest
<1>1. CASE Finish(p)
  <2>1. req'[p].kind = "none"
    BY <1>0, <1>1 DEF Finish, Set
  <2> QED BY <2>1 DEF Deleting
<1>2. CASE ~Finish(p) /\ req[p].kind # "delete"
  <2>1. req'[p].kind = req[p].kind
    BY <1>2, WorkOthers DEF SameKind
  <2> QED BY <1>2, <2>1 DEF Deleting
<1>3. CASE ~Finish(p) /\ req[p].kind = "delete"
  <2>1. CASE StopDeployment(p)
    <3>1. /\ pc[p] = "stop" /\ Go(p, "release_att") /\ UNCHANGED store
      BY <1>3, <2>1 DEF StopDeployment
    <3>2. pc'[p] = "release_att" /\ req' = req
      BY <1>0, <3>1 DEF Go, Goto
    <3> QED BY <3>1, <3>2 DEF Deleting
  <2>2. CASE ReleaseAttachment(p)
    <3>1. /\ pc[p] = "release_att" /\ Go(p, "rm_record") /\ UNCHANGED store
          /\ attachments' = attachments \ {req[p].old.att}
      BY <1>3, <2>2 DEF ReleaseAttachment
    <3>2. pc'[p] = "rm_record" /\ req' = req
      BY <1>0, <3>1 DEF Go, Goto
    <3> QED BY <3>1, <3>2 DEF Deleting
  <2>3. CASE DeleteRecord(p)
    <3>1. Go(p, "sync")
      BY <1>3, <2>3 DEF DeleteRecord
    <3>2. pc'[p] = "sync"
      BY <1>0, <3>1 DEF Go, Goto
    <3> QED BY <3>2 DEF Deleting
  <2>4. CASE Restore(p)
    <3>1. Goto(p, "sync")
      BY <1>3, <2>4 DEF Restore
    <3>2. pc'[p] = "sync"
      BY <1>0, <3>1 DEF Goto
    <3> QED BY <3>2 DEF Deleting
  <2>5. ~Lock(p)
    BY <1>0, <1>3 DEF Lock, LockDatabase, LockRelease, LockReattach, LockDetach, StepOfKind
  <2>6. ~CreateAttachment(p) /\ ~SaveAttachment(p) /\ ~Undo(p) /\ ~Unsave(p) /\ ~Resave(p)
    BY <1>0, <1>3 DEF CreateAttachment, SaveAttachment, Undo, Unsave, Resave, PutBack, StepOfKind
  <2>7. /\ ~StartOK(p) /\ ~StartFailed(p) /\ ~Verify(p) /\ ~Cleanup(p) /\ ~Promote(p)
        /\ ~Retire(p) /\ ~Mark(p) /\ ~ClearAttachment(p)
    BY <1>0, <1>3 DEF StartOK, StartFailed, Verify, Cleanup, Promote, Retire, Mark,
                      ClearAttachment, StepOfKind
  <2> QED BY <2>1, <2>2, <2>3, <2>4, <2>5, <2>6, <2>7 DEF Work
<1> QED BY <1>1, <1>2, <1>3

LEMMA DeleteInductive ==
    ASSUME TypeOK, DeleteInv, Serial, [Next]_vars
    PROVE  DeleteInv'
<1>1. ASSUME NEW p \in Procs, Arrival(p) PROVE DeleteInv'
  <2>1. Deleting(p)'
    BY <1>1, ArrivalSteps DEF ArrivalEffect, Deleting, Same
  <2> QED BY <2>1 DEF DeleteInv, Serial
<1>2. ASSUME NEW p \in Procs, Lock(p) \/ Work(p) PROVE DeleteInv'
  <2>1. Deleting(p)'
    BY <1>2, DeletionStays DEF DeleteInv
  <2> QED BY <2>1 DEF DeleteInv, Serial
<1>3. ASSUME NEW t \in Threads, Sync(t) PROVE DeleteInv'
  <2> SUFFICES ASSUME NEW p \in Procs PROVE Deleting(p)'
    BY DEF DeleteInv
  <2>1. UNCHANGED <<store, attachments>> /\ pc[t] = "sync"
    BY <1>3 DEF Sync
  <2>2. CASE t = p
    <3>1. pc'[p] \in {"idle", "cleanup", "restore", "retire"} \/ req'[p].kind # "delete"
      <4>1. /\ pc \in [Threads -> Steps] /\ req \in [Threads -> Request]
            /\ NoRequest.kind = "none"
        BY DEF TypeOK, NoRequest
      <4>2. \/ Finish(p)
            \/ \E s \in {"cleanup", "restore", "retire"} : Go(p, s)
            \/ req[p].kind = "detach" /\ Go(p, "stop")
        BY <1>3, <2>2 DEF Sync, AfterSync, TypeOK, Request
      <4> QED BY <4>1, <4>2 DEF Finish, Go, Goto, Set
    <3> QED BY <3>1 DEF Deleting
  <2>3. CASE t # p
    <3>1. pc'[p] = pc[p] /\ req'[p] = req[p]
      <4>1. pc \in [Threads -> Steps] /\ req \in [Threads -> Request]
        BY DEF TypeOK
      <4>2. Finish(t) \/ \E s \in Steps : Go(t, s)
        BY <1>3 DEF Sync, AfterSync, TypeOK, Request
      <4> QED BY <2>3, <4>1, <4>2 DEF Finish, Go, Goto, Set
    <3> QED BY <2>1, <3>1 DEF DeleteInv, Deleting
  <2> QED BY <2>2, <2>3
<1>4. CASE Crash
  <2>1. Resting'
    BY <1>4, CrashRests
  <2> QED BY <2>1 DEF Resting, DeleteInv, Deleting, NoRequest
<1>5. CASE UNCHANGED vars
  BY <1>5 DEF vars, DeleteInv, Deleting
<1> QED BY <1>1, <1>2, <1>3, <1>4, <1>5 DEF Next

LEMMA DeleteInvariant ==
    ASSUME Serial
    PROVE  Spec => []DeleteInv
<1>1. Init => DeleteInv
  BY InitRests DEF Resting, DeleteInv, Deleting, NoRequest
<1>2. TypeOK /\ DeleteInv /\ [Next]_vars => DeleteInv'
  BY DeleteInductive
<1> QED BY <1>1, <1>2, DatabaseTypeCorrect, PTL DEF Spec

\* "If detachment fails, MiniDeploy preserves its deployment metadata so deletion
\* can be retried" (architecture.md:704): whatever fails, and after any crash, a
\* record goes only when MiniBase does not keep its attachment, for one request
\* at a time.  An attachment that arrives in the middle of a deletion, which
\* takes no lock, can save a record whose attachment the deletion has not seen.
THEOREM DeletedDetached ==
    ASSUME Serial
    PROVE  Spec => DeletionDetaches
<1>1. TypeOK /\ DeleteInv /\ [Next]_vars =>
        [\A p \in Procs :
            DeleteRecord(p) /\ store' # store => store[req[p].app].att \notin attachments]_vars
  BY DEF DeleteInv, Deleting, DeleteRecord, TypeOK, RequestOK, StepOfKind
<1> QED BY <1>1, DatabaseTypeCorrect, DeleteInvariant, PTL DEF Spec, DeletionDetaches
=============================================================================
