----------------------- MODULE DatabaseAccountsProofs -----------------------
(***************************************************************************)
(* MiniBase and the records agree at rest up to one disagreement for each  *)
(* failure, expired context or crash: AttachmentsAccounted, for one        *)
(* request at a time.                                                      *)
(*                                                                         *)
(* A request disturbs the attachment it works on and its application.  The *)
(* invariant counts the disagreements besides these two, and says at each  *)
(* step what they may add: one while an attachment that was just created   *)
(* is in no record, one while a record names the attachment that was just  *)
(* removed, and one that a failure has paid for while a switch is taken    *)
(* back.                                                                   *)
(***************************************************************************)
EXTENDS DatabaseSafetyProofs, FiniteSetTheorems

USE DEF Kinds, Attaches, Cutovers, Guarded, Starting, Compensating, Candidacy,
        Detaching, Steps, Threads

\* What the record of an application says of its attachment.
Att(a) == IF store[a] = None THEN None ELSE store[a].att

Budget        == faults + expiries + crashes
Disagreements == Cardinality(Orphans) + Cardinality(Dangling)
Besides(l, a) == Cardinality(Orphans \ {l}) + Cardinality(Dangling \ {a})

\* An attachment that no record names, until it is saved or removed.
Fresh(p) ==
    \/ req[p].kind \in Attaches /\ ~req[p].saved /\ pc[p] \in {"save_att", "undo"}
    \/ /\ req[p].kind \in {"reattach", "deploy"} /\ ~req[p].restoring
       /\ pc[p] \in {"start", "verify", "promote", "cleanup", "undo"}

\* A failure after which a record or an attachment may be left.
Paid(p) ==
    \/ req[p].kind = "attach" /\ pc[p] = "resave"
    \/ req[p].kind \in {"reattach", "deploy"} /\ (pc[p] = "restore" \/ req[p].restoring)

\* The attachment is gone and the record is about to follow.
Gone(p) ==
    \/ req[p].kind = "attach" /\ pc[p] = "unsave"
    \/ req[p].kind = "detach" /\ pc[p] = "clear"
    \/ req[p].kind = "delete" /\ pc[p] = "rm_record"

\* The attachment a request works on.
Subject(p) ==
    IF pc[p] \in {"release_att", "clear", "rm_record"} THEN req[p].old.att ELSE req[p].att

Counting(p, l, a) ==
    /\ Fresh(p) => l \in attachments /\ Att(a) = None /\ Besides(l, a) <= Budget
    /\ Paid(p)  => Att(a) \in {None, l} /\ Besides(l, a) + 1 <= Budget
    /\ Gone(p)  => l \notin attachments /\ Att(a) \in {None, l} /\ Besides(l, a) <= Budget

Settled(p) == ~Fresh(p) /\ ~Paid(p) /\ ~Gone(p)

Counted(p) ==
    /\ Settled(p) => Disagreements <= Budget
    /\ \A l \in {Subject(p)}, a \in {req[p].app} : Counting(p, l, a)

\* What the request has read agrees with the record.
Carried(p) == LET a == req[p].app
                  r == req[p] IN
    /\ r.kind \in Attaches /\ pc[p] \in {"lock_db", "create", "save_att"} => ~r.saved
    /\ r.kind \in Attaches /\ pc[p] # "lock_db" =>
         /\ r.orig.att = None
         /\ pc[p] = "create" => Att(a) = None
         /\ pc[p] \notin {"create", "save_att"} => r.old.att = r.att
         /\ pc[p] \in {"lock"} \cup Candidacy => r.saved /\ Att(a) = r.old.att
         /\ pc[p] = "undo" /\ r.saved => r.kind = "attach" /\ Att(a) = r.old.att
         /\ HasCandidate(p) => r.cand.att = r.old.att
    /\ r.kind = "release" =>
         /\ Att(a) = r.old.att
         /\ HasCandidate(p) => r.cand.att = r.old.att
    /\ r.kind \in {"reattach", "deploy"} =>
         /\ pc[p] = "create" => Att(a) = None
         /\ r.kind = "deploy" /\ pc[p] = "lock" => Att(a) = None
         /\ r.kind = "reattach" /\ HasOld(p) => r.old.att = None
         /\ HasCandidate(p) => r.cand.att = r.att
         /\ pc[p] = "sync" /\ ~r.restoring => Att(a) = r.att
         /\ pc[p] \in {"lock_db", "lock", "create"} => ~r.restoring
    /\ r.kind = "detach" /\ pc[p] \in {"mark", "sync", "restore", "stop", "release_att", "clear"} =>
         Att(a) = r.old.att
    /\ r.kind = "delete" =>
         /\ pc[p] \in {"stop", "release_att", "rm_record", "sync"}
         /\ pc[p] \in {"stop", "release_att", "rm_record"} => Att(a) = r.old.att

Own(p) == Carried(p) /\ Counted(p) /\ Tied(req[p].att, req[p].app)

World ==
    /\ IsFiniteSet(attachments)
    /\ \A a \in Apps : Tied(Att(a), a)

AccountInv ==
    /\ World /\ \A p \in Procs : Own(p)
    /\ (\A p \in Procs : pc[p] = "idle") => Disagreements <= Budget

-----------------------------------------------------------------------------
(***************************************************************************)
(* Counting.                                                               *)
(***************************************************************************)
LEMMA CountedSets ==
    TypeOK => /\ Orphans = {t \in attachments : \A a \in Apps : Att(a) # t}
              /\ Dangling = {a \in Apps : Att(a) \notin attachments \cup {None}}
<1> SUFFICES ASSUME TypeOK
             PROVE  /\ Orphans = {t \in attachments : \A a \in Apps : Att(a) # t}
                    /\ Dangling = {a \in Apps : Att(a) \notin attachments \cup {None}}
  OBVIOUS
<1>1. None \notin attachments
  BY NoneAssumption DEF TypeOK
<1>2. Orphans = {t \in attachments : \A a \in Apps : Att(a) # t}
  BY <1>1 DEF Orphans, Att
<1>3. Dangling = {a \in Apps : Att(a) \notin attachments \cup {None}}
  BY DEF Dangling, Att
<1> QED BY <1>2, <1>3

LEMMA CountedSetsNext ==
    TypeOK' => /\ Orphans' = {t \in attachments' : \A a \in Apps : Att(a)' # t}
               /\ Dangling' = {a \in Apps : Att(a)' \notin attachments' \cup {None}}
<1>1. (TypeOK => /\ Orphans = {t \in attachments : \A a \in Apps : Att(a) # t}
                 /\ Dangling = {a \in Apps : Att(a) \notin attachments \cup {None}})'
  BY CountedSets, PTL
<1> QED BY <1>1

\* Only the attachments and what the records say of them count.
LEMMA CountsSame ==
    ASSUME TypeOK, TypeOK', attachments' = attachments, \A b \in Apps : Att(b)' = Att(b)
    PROVE  /\ Disagreements' = Disagreements
           /\ \A l, a : Besides(l, a)' = Besides(l, a)
<1>1. Orphans' = Orphans /\ Dangling' = Dangling
  BY CountedSets, CountedSetsNext
<1> QED BY <1>1 DEF Disagreements, Besides

\* A step on an attachment of an application leaves the others alone.
LEMMA BesidesKept ==
    ASSUME TypeOK, TypeOK', NEW l \in Link, NEW a \in Apps, Tied(l, a),
           \A b \in Apps : Tied(Att(b), b),
           attachments' \ {l} = attachments \ {l},
           \A b \in Apps \ {a} : Att(b)' = Att(b),
           Att(a) \in {None, l}, Att(a)' \in {None, l}
    PROVE  Besides(l, a)' = Besides(l, a)
<1>1. None \notin attachments /\ None \notin attachments'
  BY NoneAssumption DEF TypeOK
<1>2. Orphans' \ {l} = Orphans \ {l}
  <2>1. ASSUME NEW t, t # l, t # None
        PROVE  /\ t \in attachments' <=> t \in attachments
               /\ (\A b \in Apps : Att(b)' # t) <=> (\A b \in Apps : Att(b) # t)
    BY <2>1
  <2> QED BY <1>1, <2>1, CountedSets, CountedSetsNext
<1>3. Dangling' \ {a} = Dangling \ {a}
  <2>1. ASSUME NEW b \in Apps \ {a}
        PROVE  Att(b)' \in attachments' \cup {None} <=> Att(b) \in attachments \cup {None}
    <3>1. Att(b)' = Att(b) /\ (Att(b) = None \/ Att(b).app = b)
      BY DEF Tied
    <3>2. Att(b) = None \/ Att(b) # l
      BY <3>1 DEF Tied
    <3> QED BY <3>1, <3>2
  <2> QED BY <2>1, CountedSets, CountedSetsNext
<1> QED BY <1>2, <1>3 DEF Besides

AppsFinite == IsFiniteSet(Apps)

LEMMA Disagree ==
    ASSUME TypeOK, AppsFinite, IsFiniteSet(attachments), NEW l, NEW a \in Apps
    PROVE  /\ Disagreements \in Nat /\ Besides(l, a) \in Nat
           /\ Besides(l, a) <= Disagreements
           /\ Att(a) \in {None, l} => Disagreements <= Besides(l, a) + 1
           /\ Att(a) = None /\ l \notin attachments => Disagreements = Besides(l, a)
           /\ Att(a) = l /\ l \in attachments \cup {None} => Disagreements = Besides(l, a)
<1>1. IsFiniteSet(Orphans) /\ IsFiniteSet(Dangling)
  <2>1. Orphans \in SUBSET attachments /\ Dangling \in SUBSET Apps
    BY DEF Orphans, Dangling
  <2> QED BY <2>1, FS_Subset DEF AppsFinite
<1>2. /\ Cardinality(Orphans) \in Nat /\ Cardinality(Dangling) \in Nat
      /\ Cardinality(Orphans \ {l}) \in Nat /\ Cardinality(Dangling \ {a}) \in Nat
  BY <1>1, FS_CardinalityType, FS_RemoveElement
<1>3. Cardinality(Orphans \ {l}) =
        IF l \in Orphans THEN Cardinality(Orphans) - 1 ELSE Cardinality(Orphans)
  BY <1>1, FS_RemoveElement
<1>4. Cardinality(Dangling \ {a}) =
        IF a \in Dangling THEN Cardinality(Dangling) - 1 ELSE Cardinality(Dangling)
  BY <1>1, FS_RemoveElement
<1>5. None \notin attachments
  BY NoneAssumption DEF TypeOK
<1>6. Att(a) = None => a \notin Dangling
  BY CountedSets
<1>7. Att(a) = l => l \notin Orphans
  BY CountedSets
<1>8. l \notin attachments => l \notin Orphans
  BY CountedSets
<1>9. Att(a) = l /\ l \in attachments \cup {None} => a \notin Dangling
  BY CountedSets
<1> HIDE DEF AppsFinite
<1> QED BY <1>2, <1>3, <1>4, <1>6, <1>7, <1>8, <1>9 DEF Disagreements, Besides

LEMMA DisagreeAll ==
    TypeOK /\ AppsFinite /\ IsFiniteSet(attachments) =>
            \A m : \A b \in Apps :
               /\ Disagreements \in Nat /\ Besides(m, b) \in Nat
               /\ Besides(m, b) <= Disagreements
               /\ Att(b) \in {None, m} => Disagreements <= Besides(m, b) + 1
               /\ Att(b) = None /\ m \notin attachments => Disagreements = Besides(m, b)
               /\ Att(b) = m /\ m \in attachments \cup {None} => Disagreements = Besides(m, b)
BY Disagree

LEMMA DisagreeNext ==
    ASSUME TypeOK', AppsFinite, IsFiniteSet(attachments'), NEW l, NEW a \in Apps
    PROVE  /\ Disagreements' \in Nat /\ Besides(l, a)' \in Nat
           /\ Besides(l, a)' <= Disagreements'
           /\ Att(a)' \in {None, l} => Disagreements' <= Besides(l, a)' + 1
           /\ Att(a)' = None /\ l \notin attachments' => Disagreements' = Besides(l, a)'
           /\ Att(a)' = l /\ l \in attachments' \cup {None} => Disagreements' = Besides(l, a)'
<1>2. (TypeOK /\ AppsFinite /\ IsFiniteSet(attachments) =>
        \A m : \A b \in Apps :
           /\ Disagreements \in Nat /\ Besides(m, b) \in Nat
           /\ Besides(m, b) <= Disagreements
           /\ Att(b) \in {None, m} => Disagreements <= Besides(m, b) + 1
           /\ Att(b) = None /\ m \notin attachments => Disagreements = Besides(m, b)
           /\ Att(b) = m /\ m \in attachments \cup {None} => Disagreements = Besides(m, b))'
  BY DisagreeAll, PTL
<1>3. AppsFinite' <=> AppsFinite
  BY DEF AppsFinite
<1> QED BY <1>2, <1>3

\* What a step spends.
LEMMA Spent ==
    ASSUME TypeOK
    PROVE  /\ Budget \in Nat
           /\ NoFault => Budget' = Budget
           /\ Fault \/ Expiry => Budget' = Budget + 1
BY DEF TypeOK, Budget, NoFault, Fault, Expiry, bounds

LEMMA Saved ==
    ASSUME TypeOK, NEW a \in Apps, NEW r \in Record \cup {None}, Save(a, r)
    PROVE  /\ Att(a)' = IF r = None THEN None ELSE r.att
           /\ \A b \in Apps \ {a} : Att(b)' = Att(b)
BY DEF TypeOK, Routes, Save, Att

-----------------------------------------------------------------------------
(***************************************************************************)
(* Steps that many actions share.                                          *)
(***************************************************************************)
LEMMA AtWork ==
    ASSUME TypeOK, NEW p \in Procs, pc[p] # "idle"
    PROVE  /\ p \in Threads /\ pc \in [Threads -> Steps] /\ req \in [Threads -> Request]
           /\ req[p] \in Request /\ req[p].app \in Apps /\ req[p].kind \in Kinds
           /\ req[p].att \in Link /\ StepOfKind(p)
           /\ HasOld(p) => req[p].old \in Record
           /\ HasCandidate(p) => req[p].cand \in Record
           /\ req[p].kind \in Attaches /\ pc[p] # "lock_db" => req[p].orig \in Record
BY DEF TypeOK, RequestOK, Request

LEMMA FinishOwn ==
    ASSUME TypeOK, NEW p \in Threads, Finish(p), Disagreements' <= Budget'
    PROVE  Own(p)'
<1>1. pc'[p] = "idle" /\ req'[p] = NoRequest
  BY DEF TypeOK, Finish, Goto, Set
<1>2. /\ req'[p].kind = "none" /\ req'[p].att = None
  BY <1>1 DEF NoRequest
<1>3. Carried(p)'
  BY <1>2 DEF Carried
<1>4. ~Fresh(p)' /\ ~Paid(p)' /\ ~Gone(p)'
  BY <1>2 DEF Fresh, Paid, Gone
<1>5. Counted(p)'
  BY <1>4 DEF Counted, Counting
<1> QED BY <1>2, <1>3, <1>5 DEF Own, Tied

LEMMA Goes ==
    ASSUME TypeOK, NEW p \in Threads, NEW s, Goto(p, s)
    PROVE  pc'[p] = s
BY DEF TypeOK, Goto

\* Nothing that counts has changed.
Still ==
    /\ attachments' = attachments
    /\ \A b \in Apps : Att(b)' = Att(b)
    /\ Budget' >= Budget

LEMMA StillWorld ==
    ASSUME World, attachments' = attachments, \A b \in Apps : Att(b)' = Att(b)
    PROVE  World'
BY DEF World

LEMMA BudgetNatural == TypeOK => Budget \in Nat
BY DEF TypeOK, Budget

LEMMA BudgetType ==
    TypeOK /\ TypeOK' => Budget \in Nat /\ Budget' \in Nat
<1>1. (TypeOK => Budget \in Nat)'
  BY BudgetNatural, PTL
<1> QED BY <1>1, BudgetNatural

LEMMA StillCounted ==
    ASSUME TypeOK, TypeOK', AppsFinite, World, Still, NEW p \in Procs, Counted(p),
           Settled(p)' => Settled(p), Fresh(p)' => Fresh(p), Paid(p)' => Paid(p), ~Gone(p)',
           ~Settled(p)' => Subject(p)' = Subject(p) /\ req'[p].app = req[p].app /\ req[p].app \in Apps
    PROVE  Counted(p)'
<1>1. /\ Disagreements' = Disagreements
      /\ \A l, a : Besides(l, a)' = Besides(l, a)
  BY CountsSame DEF Still
<1>2. Budget \in Nat /\ Budget' \in Nat /\ Budget' >= Budget
  BY BudgetType DEF Still
<1>3. Settled(p)' => Disagreements' <= Budget'
  <2>1. \A a \in Apps : Disagreements \in Nat
    BY Disagree DEF World
  <2>2. Disagreements \in Nat
    <3>1. IsFiniteSet(Orphans) /\ IsFiniteSet(Dangling)
      <4>1. Orphans \in SUBSET attachments /\ Dangling \in SUBSET Apps
        BY DEF Orphans, Dangling
      <4> QED BY <4>1, FS_Subset DEF AppsFinite, World
    <3> QED BY <3>1, FS_CardinalityType DEF Disagreements
  <2> QED BY <1>1, <1>2, <2>2 DEF Counted
<1>4. ASSUME ~Settled(p)', NEW l, NEW a, l = Subject(p)', a = req'[p].app
      PROVE  Counting(p, l, a)'
  <2>1. l = Subject(p) /\ a = req[p].app /\ a \in Apps
    BY <1>4
  <2>2. Counting(p, l, a)
    BY <2>1 DEF Counted
  <2>3. Besides(l, a) \in Nat /\ Besides(l, a)' = Besides(l, a) /\ Att(a)' = Att(a)
    BY <1>1, <2>1, Disagree DEF World, Still
  <2>4. Fresh(p)' => l \in attachments' /\ Att(a)' = None /\ Besides(l, a)' <= Budget'
    BY <1>2, <2>2, <2>3 DEF Counting, Still
  <2>5. Paid(p)'  => Att(a)' \in {None, l} /\ Besides(l, a)' + 1 <= Budget'
    BY <1>2, <2>2, <2>3 DEF Counting
  <2> QED BY <2>4, <2>5 DEF Counting
<1>5. ASSUME Settled(p)', NEW l, NEW a
      PROVE  Counting(p, l, a)'
  BY <1>5 DEF Settled, Counting
<1> QED BY <1>3, <1>4, <1>5 DEF Counted

LEMMA DisagreeType ==
    ASSUME TypeOK, AppsFinite, World
    PROVE  Disagreements \in Nat
<1>1. Orphans \in SUBSET attachments /\ Dangling \in SUBSET Apps
  BY DEF Orphans, Dangling
<1>2. IsFiniteSet(Orphans) /\ IsFiniteSet(Dangling)
  BY <1>1, FS_Subset DEF AppsFinite, World
<1> QED BY <1>2, FS_CardinalityType DEF Disagreements

\* A request that returns with nothing left to put right.
LEMMA FinishSettled ==
    ASSUME TypeOK, TypeOK', AppsFinite, World, Still, NEW p \in Procs, Own(p), Settled(p), Finish(p)
    PROVE  Own(p)' /\ World'
<1>1. Disagreements' = Disagreements /\ Disagreements \in Nat
  BY CountsSame, DisagreeType DEF Still
<1>2. Budget \in Nat /\ Budget' \in Nat /\ Budget' >= Budget
  BY BudgetType DEF Still
<1>3. Disagreements' <= Budget'
  BY <1>1, <1>2 DEF Own, Counted
<1> QED BY <1>3, FinishOwn, StillWorld DEF Still

LEMMA StillBounds ==
    ASSUME TypeOK, TypeOK', attachments' = attachments, store' = store,
           NoFault \/ Fault \/ Expiry \/ UNCHANGED bounds
    PROVE  Still
<1>1. \A b \in Apps : Att(b)' = Att(b)
  BY DEF Att
<1>2. Budget \in Nat /\ Budget' \in Nat
  BY BudgetType
<1>3. Budget' = Budget \/ Budget' = Budget + 1
  BY Spent DEF NoFault
<1>4. Budget' >= Budget
  BY <1>2, <1>3
<1> QED BY <1>1, <1>4 DEF Still

-----------------------------------------------------------------------------
(***************************************************************************)
(* The actions.                                                            *)
(***************************************************************************)
LEMMA LockAccounts ==
    ASSUME TypeOK, TypeOK', AppsFinite, World, NEW p \in Procs, Own(p), Lock(p)
    PROVE  Own(p)' /\ World'
<1> DEFINE a == req[p].app
<1>1. /\ Still /\ World' /\ store' = store /\ pc[p] \in {"lock_db", "lock"}
  <2>1. /\ attachments' = attachments /\ store' = store /\ UNCHANGED bounds
        /\ pc[p] \in {"lock_db", "lock"}
    BY DEF Lock, LockDatabase, LockRelease, LockReattach, LockDetach
  <2> QED BY <2>1, StillBounds, StillWorld DEF Still
<1>2. /\ p \in Threads /\ pc \in [Threads -> Steps] /\ req \in [Threads -> Request]
      /\ req[p] \in Request /\ req[p].app \in Apps /\ StepOfKind(p) /\ req[p].kind \in Kinds
      /\ \A b \in Apps : Att(b)' = Att(b)
      /\ HasOld(p) => req[p].old \in Record
  BY <1>1, AtWork DEF Still
<1>3. Settled(p)
  BY <1>1 DEF Settled, Fresh, Paid, Gone, Own, Carried
<1>4. CASE Finish(p)
  BY <1>1, <1>3, <1>4, FinishSettled
<1>5. ASSUME NEW s \in {"lock", "create", "start", "stop", "mark"}, pc'[p] = s,
             req'[p].kind = req[p].kind, req'[p].app = req[p].app, req'[p].att = req[p].att,
             req'[p].saved = req[p].saved, req'[p].restoring = req[p].restoring, Carried(p)',
             s = "start" => req[p].kind \in Cutovers
      PROVE  Own(p)' /\ World'
  <2>1. Settled(p)'
    BY <1>1, <1>5 DEF Settled, Fresh, Paid, Gone, Own, Carried
  <2>2. Counted(p)'
    BY <1>1, <1>3, <2>1, StillCounted DEF Own, Settled
  <2> QED BY <1>1, <1>5, <2>2 DEF Own
<1>6. ASSUME NEW u, NEW v, req'[p] = [req[p] EXCEPT !.old = u, !.orig = v]
      PROVE  /\ req'[p].kind = req[p].kind /\ req'[p].app = a /\ req'[p].att = req[p].att
             /\ req'[p].saved = req[p].saved /\ req'[p].restoring = req[p].restoring
             /\ req'[p].old = u /\ req'[p].orig = v
  BY <1>2, <1>6 DEF Request
<1>7. ASSUME NEW u, req'[p] = [req[p] EXCEPT !.old = u]
      PROVE  /\ req'[p].kind = req[p].kind /\ req'[p].app = a /\ req'[p].att = req[p].att
             /\ req'[p].saved = req[p].saved /\ req'[p].restoring = req[p].restoring
             /\ req'[p].old = u
  BY <1>2, <1>7 DEF Request
<1>8. \A s : Goto(p, s) => pc'[p] = s
  BY <1>2 DEF Goto
<1>9. CASE LockDatabase(p) /\ ~Finish(p)
  <2>1. CASE req[p].kind \in Attaches
    <3>1. /\ pc'[p] = "create" /\ req'[p] = [req[p] EXCEPT !.old = store[a], !.orig = store[a]]
          /\ pc[p] = "lock_db" /\ store[a] # None /\ store[a].att = None
      BY <1>2, <1>8, <1>9, <2>1 DEF LockDatabase, Set, Attachable
    <3>2. /\ req'[p].kind = req[p].kind /\ req'[p].app = a /\ req'[p].att = req[p].att
          /\ req'[p].saved = req[p].saved /\ req'[p].restoring = req[p].restoring
          /\ req'[p].old = store[a] /\ req'[p].orig = store[a]
      BY <1>6, <3>1
    <3>3. Att(a) = None /\ Att(a)' = None
      BY <1>1, <3>1 DEF Att
    <3>4. Carried(p)'
      BY <2>1, <3>1, <3>2, <3>3 DEF Carried, Own, HasCandidate
    <3> QED BY <1>5, <3>1, <3>2, <3>4
  <2>2. CASE req[p].kind \notin Attaches
    <3>1. pc[p] = "lock_db" /\ pc'[p] = "lock" /\ req'[p] = req[p]
      BY <1>8, <1>9, <2>2 DEF LockDatabase
    <3>2. req[p].kind \in {"reattach", "detach"}
      BY <1>2, <2>2, <3>1 DEF StepOfKind
    <3>3. Carried(p)'
      BY <3>1, <3>2 DEF Carried, Own, HasCandidate, HasOld
    <3> QED BY <1>5, <3>1, <3>3
  <2> QED BY <2>1, <2>2
<1>10. CASE LockRelease(p)
  <2>1. /\ pc[p] = "lock" /\ req'[p] = req[p] /\ req[p].kind \in Cutovers \cup {"deploy"}
        /\ pc'[p] = IF req[p].kind = "deploy" THEN "create" ELSE "start"
    BY <1>8, <1>10 DEF LockRelease
  <2>2. Carried(p)'
    BY <1>2, <2>1 DEF Carried, Own, HasCandidate, HasOld
  <2> QED BY <1>5, <2>1, <2>2
<1>11. CASE LockReattach(p) /\ ~Finish(p)
  <2>1. /\ pc[p] = "lock" /\ req'[p] = [req[p] EXCEPT !.old = store[a]] /\ pc'[p] = "create"
        /\ store[a] # None /\ store[a].att = None /\ req[p].kind = "reattach"
    BY <1>2, <1>8, <1>11 DEF LockReattach, Set
  <2>2. /\ req'[p].kind = req[p].kind /\ req'[p].app = a /\ req'[p].att = req[p].att
        /\ req'[p].saved = req[p].saved /\ req'[p].restoring = req[p].restoring
        /\ req'[p].old = store[a]
    BY <1>7, <2>1
  <2>3. Att(a) = None /\ Att(a)' = None
    BY <1>1, <2>1 DEF Att
  <2>4. Carried(p)'
    BY <2>1, <2>2, <2>3 DEF Carried, Own, HasCandidate, HasOld
  <2> QED BY <1>5, <2>1, <2>2, <2>4
<1>12. CASE LockDetach(p) /\ ~Finish(p)
  <2>1. /\ pc[p] = "lock" /\ req'[p] = [req[p] EXCEPT !.old = store[a]] /\ pc'[p] \in {"stop", "mark"}
        /\ store[a] # None /\ req[p].kind = "detach"
    BY <1>2, <1>8, <1>12 DEF LockDetach, Set
  <2>2. /\ req'[p].kind = req[p].kind /\ req'[p].app = a /\ req'[p].att = req[p].att
        /\ req'[p].saved = req[p].saved /\ req'[p].restoring = req[p].restoring
        /\ req'[p].old = store[a]
    BY <1>7, <2>1
  <2>3. Att(a)' = store[a].att
    BY <1>1, <2>1 DEF Att
  <2>4. Carried(p)'
    BY <2>1, <2>2, <2>3 DEF Carried
  <2> QED BY <1>5, <2>1, <2>2, <2>4
<1> QED BY <1>4, <1>9, <1>10, <1>11, <1>12 DEF Lock

LEMMA CreateAccounts ==
    ASSUME TypeOK, TypeOK', AppsFinite, World, NEW p \in Procs, Own(p), CreateAttachment(p)
    PROVE  Own(p)' /\ World'
<1>1. PICK d \in Databases :
        LET t == [id |-> clock + 1, db |-> d, app |-> req[p].app] IN
        /\ pc[p] = "create"
        /\ \/ Finish(p) /\ NoFault /\ UNCHANGED <<attachments, clock>>
           \/ /\ attachments' = attachments \cup {t}
              /\ \/ /\ Set(p, [req[p] EXCEPT !.att = t])
                    /\ Goto(p, IF req[p].kind \in Attaches THEN "save_att" ELSE "start")
                    /\ NoFault
                 \/ Finish(p) /\ Fault
        /\ UNCHANGED <<store, containers, routes>>
  BY DEF CreateAttachment
<1>2. /\ p \in Threads /\ pc \in [Threads -> Steps] /\ req \in [Threads -> Request]
      /\ req[p] \in Request /\ req[p].app \in Apps
      /\ req[p].kind \in {"attach", "admin", "reattach", "deploy"}
  BY <1>1, AtWork DEF StepOfKind
<1>3. Settled(p) /\ store' = store /\ (\A b \in Apps : Att(b)' = Att(b))
  BY <1>1, <1>2 DEF Settled, Fresh, Paid, Gone, Own, Carried, Att
<1>4. CASE Finish(p) /\ NoFault /\ attachments' = attachments
  BY <1>3, <1>4, StillBounds, FinishSettled
<1>5. CASE LET t == [id |-> clock + 1, db |-> d, app |-> req[p].app] IN
           /\ attachments' = attachments \cup {t}
           /\ \/ /\ Set(p, [req[p] EXCEPT !.att = t])
                 /\ Goto(p, IF req[p].kind \in Attaches THEN "save_att" ELSE "start")
                 /\ NoFault
              \/ Finish(p) /\ Fault
  <2> DEFINE a == req[p].app
             t == [id |-> clock + 1, db |-> d, app |-> a]
  <2>1. t \in Link /\ t.app = a
    BY <1>2 DEF Link, Attachment, TypeOK
  <2>2. a \in Apps /\ attachments' = attachments \cup {t}
    BY <1>2, <1>5
  <2>3. PICK l \in Link, b \in Apps : l = t /\ b = a
    BY <2>1, <2>2
  <2> HIDE DEF t
  <2>4. Att(b) = None /\ Att(b)' = None
    BY <1>1, <1>2, <1>3, <2>3 DEF Own, Carried
  <2>5. Besides(l, b)' = Besides(l, b)
    BY <1>3, <2>1, <2>2, <2>3, <2>4, BesidesKept DEF Tied, World
  <2>6. World'
    <3>1. IsFiniteSet(attachments')
      BY <2>2, FS_AddElement DEF World
    <3> QED BY <1>3, <3>1 DEF World
  <2>7. /\ Disagreements <= Budget /\ Besides(l, b) \in Nat /\ Disagreements \in Nat
        /\ Besides(l, b) <= Disagreements
    BY <1>3, Disagree DEF World, Own, Counted
  <2>8. Budget \in Nat /\ Budget' \in Nat
    BY BudgetType
  <2>9. CASE Finish(p) /\ Fault
    <3>1. Disagreements' \in Nat /\ Disagreements' <= Besides(l, b)' + 1
      BY <2>4, <2>6, DisagreeNext DEF World
    <3>2. Budget' = Budget + 1
      BY <2>9, Spent
    <3>3. Disagreements' <= Budget'
      BY <2>5, <2>7, <2>8, <3>1, <3>2
    <3> QED BY <2>6, <2>9, <3>3, <1>2, FinishOwn
  <2>10. CASE /\ req' = [req EXCEPT ![p] = [req[p] EXCEPT !.att = t]]
              /\ Goto(p, IF req[p].kind \in Attaches THEN "save_att" ELSE "start")
              /\ NoFault
    <3>1. /\ req'[p].kind = req[p].kind /\ req'[p].app = b /\ req'[p].att = l
          /\ req'[p].saved = req[p].saved /\ req'[p].restoring = req[p].restoring
          /\ req'[p].old = req[p].old /\ req'[p].orig = req[p].orig
      BY <1>2, <2>3, <2>10 DEF Request
    <3>2. pc'[p] = IF req[p].kind \in Attaches THEN "save_att" ELSE "start"
      BY <1>2, <2>10 DEF Goto
    <3>3. Carried(p)'
      BY <1>1, <1>2, <3>1, <3>2 DEF Own, Carried, HasCandidate, HasOld
    <3>4. ~Paid(p)' /\ ~Gone(p)' /\ ~Settled(p)'
      BY <1>1, <1>2, <3>1, <3>2 DEF Own, Carried, Paid, Gone, Settled, Fresh
    <3>5. Subject(p)' = l
      BY <3>1, <3>2 DEF Subject
    <3>6. Besides(l, b)' <= Budget'
      BY <2>5, <2>7, <2>8, <2>10, Spent
    <3>7. Counting(p, l, b)'
      BY <2>2, <2>3, <2>4, <3>4, <3>6 DEF Counting
    <3>8. Counted(p)'
      BY <3>1, <3>4, <3>5, <3>7 DEF Counted
    <3>9. Tied(req'[p].att, req'[p].app)
      BY <2>1, <2>3, <3>1 DEF Tied
    <3> QED BY <2>6, <3>3, <3>8, <3>9 DEF Own
  <2> QED BY <1>5, <2>9, <2>10 DEF Set, t
<1> QED BY <1>1, <1>4, <1>5

LEMMA SaveAccounts ==
    ASSUME TypeOK, TypeOK', AppsFinite, World, NEW p \in Procs, Own(p), SaveAttachment(p)
    PROVE  Own(p)' /\ World'
<1> DEFINE r == [req[p].old EXCEPT !.att = req[p].att]
<1>1. /\ pc[p] = "save_att" /\ attachments' = attachments
      /\ \/ /\ Save(req[p].app, r) /\ NoFault /\ Goto(p, "lock")
            /\ Set(p, [req[p] EXCEPT !.old = r, !.saved = TRUE])
         \/ /\ Fault /\ UNCHANGED store /\ Goto(p, "undo")
            /\ Set(p, [req[p] EXCEPT !.old = r])
  BY DEF SaveAttachment
<1>2. /\ p \in Threads /\ pc \in [Threads -> Steps] /\ req \in [Threads -> Request]
      /\ req[p] \in Request /\ req[p].app \in Apps /\ req[p].kind \in Attaches
      /\ req[p].att \in Link /\ req[p].old \in Record
  BY <1>1, AtWork DEF StepOfKind, HasOld
<1>3. PICK l \in Link, a \in Apps : l = req[p].att /\ a = req[p].app
  BY <1>2
<1>4. r \in Record /\ r.att = l /\ r # None
  <2>1. LET n == [req[p].old EXCEPT !.att = req[p].att] IN n.att = req[p].att
    BY <1>2, RecordFields
  <2>2. [req[p].old EXCEPT !.att = req[p].att] \in Record
    BY <1>2, RecordMarked
  <2> QED BY <1>3, <2>1, <2>2, NoneAssumption
<1> HIDE DEF r
<1>5. /\ Fresh(p) /\ Subject(p) = l
  BY <1>1, <1>2, <1>3 DEF Fresh, Own, Carried, Subject
<1>6. l \in attachments /\ Att(a) = None /\ Besides(l, a) <= Budget /\ Tied(l, a)
  BY <1>3, <1>5 DEF Own, Counted, Counting
<1>7. Budget \in Nat /\ Budget' \in Nat /\ Besides(l, a) \in Nat
  BY BudgetType, Disagree DEF World
<1>8. ASSUME NEW v \in BOOLEAN,
             req' = [req EXCEPT ![p] = IF v THEN [req[p] EXCEPT !.old = r, !.saved = TRUE]
                                       ELSE [req[p] EXCEPT !.old = r]]
      PROVE  /\ req'[p].kind = req[p].kind /\ req'[p].app = a /\ req'[p].att = l
             /\ req'[p].saved = (IF v THEN TRUE ELSE req[p].saved)
             /\ req'[p].restoring = req[p].restoring
             /\ req'[p].old = r /\ req'[p].orig = req[p].orig
  BY <1>2, <1>3, <1>8 DEF Request
<1>9. CASE /\ Save(req[p].app, r) /\ NoFault /\ Goto(p, "lock")
           /\ Set(p, [req[p] EXCEPT !.old = r, !.saved = TRUE])
  <2>1. /\ req'[p].kind = req[p].kind /\ req'[p].app = a /\ req'[p].att = l
        /\ req'[p].saved = TRUE
        /\ req'[p].old = r /\ req'[p].orig = req[p].orig /\ pc'[p] = "lock"
    BY <1>2, <1>8, <1>9 DEF Set, Goto
  <2>2. Att(a)' = l /\ \A b \in Apps \ {a} : Att(b)' = Att(b)
    BY <1>3, <1>4, <1>9, Saved
  <2>3. World'
    BY <1>1, <1>6, <2>2 DEF World
  <2>4. Besides(l, a)' = Besides(l, a)
    BY <1>1, <1>6, <2>2, BesidesKept DEF World
  <2>5. Disagreements' = Besides(l, a)'
    BY <1>1, <1>6, <2>2, <2>3, DisagreeNext DEF World
  <2>6. Disagreements' <= Budget'
    BY <1>6, <1>7, <1>9, <2>4, <2>5, Spent
  <2>7. Carried(p)'
    BY <1>1, <1>2, <1>4, <2>1, <2>2 DEF Own, Carried, HasCandidate, HasOld
  <2>8. Settled(p)'
    BY <1>2, <2>1 DEF Settled, Fresh, Paid, Gone
  <2>9. Counted(p)'
    BY <2>6, <2>8 DEF Counted, Counting, Settled
  <2> QED BY <1>6, <2>1, <2>3, <2>7, <2>9 DEF Own
<1>10. CASE /\ Fault /\ UNCHANGED store /\ Goto(p, "undo")
            /\ Set(p, [req[p] EXCEPT !.old = r])
  <2>1. /\ req'[p].kind = req[p].kind /\ req'[p].app = a /\ req'[p].att = l
        /\ req'[p].saved = req[p].saved /\ req'[p].restoring = req[p].restoring
        /\ req'[p].old = r /\ req'[p].orig = req[p].orig /\ pc'[p] = "undo"
    BY <1>2, <1>8, <1>10 DEF Set, Goto
  <2>2. Still
    BY <1>1, <1>10, StillBounds
  <2>3. World'
    BY <2>2, StillWorld DEF Still
  <2>4. ~req[p].saved
    BY <1>1, <1>2 DEF Own, Carried
  <2>5. Carried(p)'
    BY <1>1, <1>2, <1>4, <2>1, <2>4 DEF Own, Carried, HasCandidate, HasOld
  <2>6. Subject(p)' = Subject(p) /\ ~Settled(p)' /\ ~Paid(p)' /\ ~Gone(p)'
    BY <1>2, <1>5, <2>1, <2>4 DEF Subject, Settled, Fresh, Paid, Gone
  <2>7. Counted(p)'
    BY <1>3, <1>5, <2>1, <2>2, <2>6, StillCounted DEF Own
  <2> QED BY <1>6, <2>1, <2>3, <2>5, <2>7 DEF Own
<1> QED BY <1>1, <1>9, <1>10

\* What a step on an attachment of an application does to the counts.
LEMMA StepCounts ==
    ASSUME TypeOK, TypeOK', AppsFinite, World, NEW l \in Link, NEW a \in Apps, Tied(l, a),
           attachments' \in {attachments, attachments \ {l}},
           \A b \in Apps \ {a} : Att(b)' = Att(b),
           Att(a) \in {None, l}, Att(a)' \in {None, l}
    PROVE  /\ World' /\ Besides(l, a)' = Besides(l, a)
           /\ Besides(l, a) \in Nat /\ Disagreements \in Nat /\ Disagreements' \in Nat
           /\ Budget \in Nat /\ Budget' \in Nat
           /\ Besides(l, a) <= Disagreements
           /\ Disagreements' <= Besides(l, a) + 1
           /\ Att(a)' = None /\ l \notin attachments' => Disagreements' = Besides(l, a)
           /\ Att(a)' = l /\ l \in attachments' \cup {None} => Disagreements' = Besides(l, a)
<1>1. World'
  <2>1. IsFiniteSet(attachments')
    BY FS_RemoveElement DEF World
  <2>2. \A b \in Apps : Tied(Att(b)', b)
    BY DEF World, Tied
  <2> QED BY <2>1, <2>2 DEF World
<1>2. Besides(l, a)' = Besides(l, a)
  BY BesidesKept DEF World
<1>3. /\ Besides(l, a) \in Nat /\ Disagreements \in Nat /\ Besides(l, a) <= Disagreements
  BY Disagree DEF World
<1>4. /\ Disagreements' \in Nat
      /\ Disagreements' <= Besides(l, a)' + 1
      /\ Att(a)' = None /\ l \notin attachments' => Disagreements' = Besides(l, a)'
      /\ Att(a)' = l /\ l \in attachments' \cup {None} => Disagreements' = Besides(l, a)'
  BY <1>1, DisagreeNext DEF World
<1> QED BY <1>1, <1>2, <1>3, <1>4, BudgetType

\* A step that counts nothing and keeps what the request is about.
LEMMA StillOwn ==
    ASSUME TypeOK, TypeOK', AppsFinite, World, Still, NEW p \in Procs, Own(p), Carried(p)',
           req[p].app \in Apps,
           req'[p].app = req[p].app, req'[p].att = req[p].att,
           Settled(p)' => Settled(p), Fresh(p)' => Fresh(p), Paid(p)' => Paid(p), ~Gone(p)',
           ~Settled(p)' => Subject(p)' = Subject(p)
    PROVE  Own(p)' /\ World'
<1>1. Counted(p)'
  BY StillCounted DEF Own
<1>2. Tied(req'[p].att, req'[p].app)
  BY DEF Own
<1> QED BY <1>1, <1>2, StillWorld DEF Own, Still

LEMMA Going ==
    ASSUME TypeOK, NEW p \in Threads, NEW s, Go(p, s)
    PROVE  pc'[p] = s /\ req'[p] = req[p] /\ UNCHANGED locks
BY DEF TypeOK, Go, Goto

LEMMA UndoAccounts ==
    ASSUME TypeOK, TypeOK', AppsFinite, World, NEW p \in Procs, Own(p), Undo(p)
    PROVE  Own(p)' /\ World'
<1>1. /\ pc[p] = "undo" /\ store' = store
      /\ attachments' \in {attachments, attachments \ {req[p].att}}
      /\ \/ /\ attachments' = attachments \ {req[p].att} /\ NoFault
            /\ \/ req[p].kind = "attach" /\ req[p].saved /\ Go(p, "unsave")
               \/ ~(req[p].kind = "attach" /\ req[p].saved) /\ Finish(p)
         \/ /\ Fault \/ Expiry
            /\ \/ req[p].kind = "attach" /\ Go(p, "resave")
               \/ req[p].kind # "attach" /\ Finish(p)
  BY DEF Undo
<1>2. /\ p \in Threads /\ req[p] \in Request /\ req[p].app \in Apps
      /\ req[p].kind \in {"attach", "admin", "reattach", "deploy"} /\ req[p].att \in Link
  BY <1>1, AtWork DEF StepOfKind
<1>3. PICK l \in Link, a \in Apps : l = req[p].att /\ a = req[p].app
  BY <1>2
<1>4. Subject(p) = l /\ Tied(l, a) /\ \A b \in Apps : Att(b)' = Att(b)
  BY <1>1, <1>3 DEF Subject, Own, Att
<1>5. \/ Fresh(p) /\ ~(req[p].kind = "attach" /\ req[p].saved)
      \/ Paid(p) /\ req[p].kind # "attach"
      \/ Settled(p) /\ req[p].kind = "attach" /\ req[p].saved
  <2>1. req[p].saved /\ req[p].kind \in Attaches => req[p].kind = "attach"
    BY <1>1, <1>2 DEF Own, Carried
  <2> QED BY <1>1, <1>2, <2>1 DEF Settled, Fresh, Paid, Gone
<1>6. Att(a) \in {None, l}
  <2>1. CASE Settled(p) /\ req[p].kind = "attach" /\ req[p].saved
    BY <1>1, <1>3, <2>1 DEF Own, Carried
  <2>2. CASE Fresh(p) \/ Paid(p)
    BY <1>3, <1>4, <2>2 DEF Own, Counted, Counting
  <2> QED BY <1>5, <2>1, <2>2
<1>7. /\ World' /\ Besides(l, a)' = Besides(l, a)
      /\ Besides(l, a) \in Nat /\ Disagreements \in Nat /\ Disagreements' \in Nat
      /\ Budget \in Nat /\ Budget' \in Nat
      /\ Besides(l, a) <= Disagreements
      /\ Disagreements' <= Besides(l, a) + 1
      /\ Att(a)' = None /\ l \notin attachments' => Disagreements' = Besides(l, a)
  BY <1>1, <1>3, <1>4, <1>6, StepCounts
<1>8. /\ Besides(l, a) <= Budget
      /\ Paid(p) => Besides(l, a) + 1 <= Budget
      /\ Fresh(p) => Att(a) = None
  BY <1>3, <1>4, <1>5, <1>7 DEF Own, Counted, Counting
<1>9. /\ NoFault => Budget' = Budget
      /\ Fault \/ Expiry => Budget' = Budget + 1
  BY Spent
<1>10. ASSUME NEW s \in {"unsave", "resave"}, Go(p, s), req[p].kind = "attach",
              s = "unsave" => l \notin attachments',
              s = "resave" => Besides(l, a) + 1 <= Budget'
       PROVE  Own(p)'
  <2>1. pc'[p] = s /\ req'[p] = req[p]
    BY <1>2, <1>10, Going
  <2>2. Carried(p)'
    BY <1>1, <1>4, <1>10, <2>1 DEF Own, Carried, HasCandidate
  <2>3. /\ ~Fresh(p)' /\ ~Settled(p)' /\ Subject(p)' = l
        /\ Paid(p)' <=> s = "resave"
        /\ Gone(p)' <=> s = "unsave"
    BY <1>3, <1>10, <2>1 DEF Fresh, Paid, Gone, Settled, Subject
  <2>4. Counting(p, l, a)'
    <3>1. Besides(l, a) <= Budget'
      BY <1>7, <1>8, <1>9, <1>1
    <3> QED BY <1>4, <1>6, <1>7, <1>10, <2>3, <3>1 DEF Counting
  <2>5. Counted(p)'
    BY <1>3, <2>1, <2>3, <2>4 DEF Counted
  <2> QED BY <1>3, <1>4, <2>1, <2>2, <2>5 DEF Own
<1>11. CASE /\ attachments' = attachments \ {req[p].att} /\ NoFault
            /\ \/ req[p].kind = "attach" /\ req[p].saved /\ Go(p, "unsave")
               \/ ~(req[p].kind = "attach" /\ req[p].saved) /\ Finish(p)
  <2>1. CASE req[p].kind = "attach" /\ req[p].saved /\ Go(p, "unsave")
    BY <1>3, <1>7, <1>10, <1>11, <2>1
  <2>2. CASE ~(req[p].kind = "attach" /\ req[p].saved) /\ Finish(p)
    <3>1. l \notin attachments' /\ Att(a)' = Att(a)
      BY <1>3, <1>4, <1>11
    <3>2. Disagreements' <= Budget'
      BY <1>5, <1>7, <1>8, <1>9, <1>11, <2>2, <3>1
    <3> QED BY <1>2, <1>7, <2>2, <3>2, FinishOwn
  <2> QED BY <1>11, <2>1, <2>2
<1>12. CASE /\ Fault \/ Expiry
            /\ \/ req[p].kind = "attach" /\ Go(p, "resave")
               \/ req[p].kind # "attach" /\ Finish(p)
  <2>1. Budget' = Budget + 1 /\ Besides(l, a) + 1 <= Budget' /\ Disagreements' <= Budget'
    BY <1>7, <1>8, <1>9, <1>12
  <2>2. CASE req[p].kind = "attach" /\ Go(p, "resave")
    BY <1>7, <1>10, <2>1, <2>2
  <2> QED BY <1>2, <1>7, <1>12, <2>1, <2>2, FinishOwn
<1> QED BY <1>1, <1>11, <1>12

LEMMA PutBackAccounts ==
    ASSUME TypeOK, TypeOK', AppsFinite, World, NEW p \in Procs, Own(p), Unsave(p) \/ Resave(p)
    PROVE  Own(p)' /\ World'
<1>1. PICK r \in {req[p].orig, req[p].old} :
        /\ \/ pc[p] = "unsave" /\ r = req[p].orig
           \/ pc[p] = "resave" /\ r = req[p].old
        /\ attachments' = attachments /\ Finish(p)
        /\ \/ Save(req[p].app, r) /\ NoFault
           \/ Fault /\ UNCHANGED store
  BY DEF Unsave, Resave, PutBack
<1>2. /\ p \in Threads /\ req[p] \in Request /\ req[p].app \in Apps
      /\ req[p].kind = "attach" /\ req[p].att \in Link
      /\ req[p].old \in Record /\ req[p].orig \in Record
  BY <1>1, AtWork DEF StepOfKind, HasOld
<1>3. PICK l \in Link, a \in Apps : l = req[p].att /\ a = req[p].app
  BY <1>2
<1>4. /\ Subject(p) = l /\ Tied(l, a)
      /\ pc[p] = "unsave" => Gone(p) /\ r.att = None
      /\ pc[p] = "resave" => Paid(p) /\ r.att = l
  BY <1>1, <1>2, <1>3 DEF Subject, Own, Carried, Gone, Paid
<1>5. r \in Record /\ r # None
  BY <1>1, <1>2, NoneAssumption
<1>6. /\ Att(a) \in {None, l}
      /\ Gone(p) => l \notin attachments /\ Besides(l, a) <= Budget
      /\ Paid(p) => Besides(l, a) + 1 <= Budget
  BY <1>1, <1>3, <1>4 DEF Own, Counted, Counting
<1>7. /\ \A b \in Apps \ {a} : Att(b)' = Att(b)
      /\ Att(a)' = r.att \/ Att(a)' = Att(a)
      /\ NoFault => Att(a)' = r.att \/ Fault
  <2>1. CASE Save(req[p].app, r) /\ NoFault
    <3>1. Save(a, r)
      BY <1>3, <2>1
    <3> QED BY <1>5, <3>1, Saved
  <2>2. CASE Fault /\ UNCHANGED store
    BY <2>2 DEF Att
  <2> QED BY <1>1, <2>1, <2>2
<1>8. /\ World' /\ Besides(l, a) \in Nat /\ Disagreements' \in Nat
      /\ Budget \in Nat /\ Budget' \in Nat
      /\ Disagreements' <= Besides(l, a) + 1
      /\ Att(a)' = None /\ l \notin attachments' => Disagreements' = Besides(l, a)
  BY <1>1, <1>4, <1>6, <1>7, StepCounts
<1>9. Disagreements' <= Budget'
  <2>1. /\ NoFault => Budget' = Budget
        /\ Fault => Budget' = Budget + 1
    BY Spent
  <2>2. CASE Fault
    BY <1>1, <1>4, <1>6, <1>8, <2>1, <2>2
  <2>3. CASE NoFault /\ ~Fault
    <3>1. Att(a)' = r.att
      BY <1>7, <2>3
    <3> QED BY <1>1, <1>4, <1>6, <1>8, <2>1, <2>3, <3>1
  <2> QED BY <1>1, <2>2, <2>3
<1> QED BY <1>1, <1>2, <1>8, <1>9, FinishOwn

LEMMA FailureAccounts ==
    ASSUME TypeOK, TypeOK', AppsFinite, World, NEW p \in Procs, Own(p),
           Still, pc[p] \in {"start", "cleanup"}, AfterFailure(p)
    PROVE  Own(p)' /\ World'
<1>1. /\ p \in Threads /\ req[p] \in Request /\ req[p].app \in Apps
      /\ req[p].kind \in Cutovers \cup {"reattach", "deploy"}
  BY AtWork DEF StepOfKind
<1>2. CASE req[p].kind \in {"release", "admin"}
  <2>1. Settled(p) /\ Finish(p)
    BY <1>2 DEF AfterFailure, Settled, Fresh, Paid, Gone
  <2> QED BY <2>1, FinishSettled
<1>3. CASE req[p].kind \notin {"release", "admin"}
  <2>1. pc'[p] = "undo" /\ req'[p] = req[p]
    BY <1>1, <1>3, Goes DEF AfterFailure
  <2>2. Carried(p)'
    BY <1>1, <1>3, <2>1 DEF Still, Own, Carried, HasCandidate, HasOld
  <2>3. /\ Settled(p)' => Settled(p)
        /\ Fresh(p)' => Fresh(p)
        /\ Paid(p)' => Paid(p)
        /\ ~Gone(p)' /\ Subject(p)' = Subject(p)
    BY <1>1, <1>3, <2>1 DEF Own, Carried, Settled, Fresh, Paid, Gone, Subject
  <2> QED BY <1>1, <2>1, <2>2, <2>3, StillOwn
<1> QED BY <1>2, <1>3

LEMMA StartAccounts ==
    ASSUME TypeOK, TypeOK', AppsFinite, World, NEW p \in Procs, Own(p), StartOK(p)
    PROVE  Own(p)' /\ World'
<1>1. /\ pc[p] = "start" /\ Still /\ pc \in [Threads -> Steps]
      /\ Set(p, [req[p] EXCEPT !.cand = CandidateRecord(p)]) /\ Goto(p, "verify")
  BY StillBounds DEF StartOK, TypeOK
<1>2. /\ p \in Threads /\ req[p] \in Request /\ req[p].app \in Apps
      /\ req \in [Threads -> Request]
      /\ req[p].kind \in Cutovers \cup {"reattach", "deploy"}
  BY <1>1, AtWork DEF StepOfKind
<1>3. PICK c : c = CandidateRecord(p)
  OBVIOUS
<1>4. c.att = IF req[p].kind \in Cutovers THEN req[p].old.att ELSE req[p].att
  BY <1>3, CandidateFields
<1>5. pc'[p] = "verify" /\ req'[p] = [req[p] EXCEPT !.cand = c]
  BY <1>1, <1>2, <1>3 DEF Set, Goto
<1>6. /\ req'[p].kind = req[p].kind /\ req'[p].app = req[p].app
      /\ req'[p].saved = req[p].saved /\ req'[p].restoring = req[p].restoring
      /\ req'[p].old = req[p].old /\ req'[p].orig = req[p].orig
      /\ req'[p].att = req[p].att /\ req'[p].cand = c
  BY <1>2, <1>5 DEF Request
<1>7. Carried(p)'
  BY <1>1, <1>2, <1>4, <1>5, <1>6 DEF Still, Own, Carried, HasCandidate, HasOld
<1>8. /\ Settled(p)' => Settled(p)
      /\ Fresh(p)' => Fresh(p)
      /\ Paid(p)' => Paid(p)
      /\ ~Gone(p)' /\ Subject(p)' = Subject(p)
  BY <1>1, <1>2, <1>5, <1>6 DEF Settled, Fresh, Paid, Gone, Subject
<1> QED BY <1>1, <1>2, <1>6, <1>7, <1>8, StillOwn

\* A switch of the proxy, a health check or a docker command is no business of
\* MiniBase.
LEMMA GoAccounts ==
    ASSUME TypeOK, TypeOK', AppsFinite, World, NEW p \in Procs, Own(p), Still,
           NEW s, Go(p, s),
           \/ pc[p] = "verify" /\ s \in {"promote", "cleanup"}
           \/ pc[p] = "promote" /\ s = "cleanup"
           \/ pc[p] = "stop" /\ s = "release_att"
    PROVE  Own(p)' /\ World'
<1>1. /\ p \in Threads /\ req[p] \in Request /\ req[p].app \in Apps
      /\ pc[p] # "stop" => req[p].kind \in Cutovers \cup {"reattach", "deploy"}
      /\ pc[p] = "stop" => req[p].kind \in {"detach", "delete"}
  BY AtWork DEF StepOfKind
<1>2. pc'[p] = s /\ req'[p] = req[p]
  BY <1>1, Going
<1>3. Carried(p)'
  BY <1>1, <1>2 DEF Still, Own, Carried, HasCandidate, HasOld
<1>4. /\ Settled(p)' => Settled(p)
      /\ Fresh(p)' => Fresh(p)
      /\ Paid(p)' => Paid(p)
      /\ ~Gone(p)' /\ (~Settled(p)' => Subject(p)' = Subject(p))
  BY <1>1, <1>2 DEF Settled, Fresh, Paid, Gone, Subject
<1> QED BY <1>1, <1>2, <1>3, <1>4, StillOwn

LEMMA PromoteAccounts ==
    ASSUME TypeOK, TypeOK', AppsFinite, World, NEW p \in Procs, Own(p), Promote(p)
    PROVE  Own(p)' /\ World'
<1>1. /\ pc[p] = "promote" /\ attachments' = attachments
      /\ \/ Save(req[p].app, req[p].cand) /\ Go(p, "sync") /\ NoFault
         \/ Fault /\ Go(p, "cleanup") /\ UNCHANGED store
  BY DEF Promote
<1>2. /\ p \in Threads /\ req[p] \in Request /\ req[p].app \in Apps
      /\ req[p].kind \in Cutovers \cup {"reattach", "deploy"} /\ req[p].att \in Link
      /\ HasCandidate(p) /\ req[p].cand \in Record /\ req[p].cand # None
  BY <1>1, AtWork, NoneAssumption DEF StepOfKind, HasCandidate
<1>3. CASE Fault /\ Go(p, "cleanup") /\ UNCHANGED store
  BY <1>1, <1>3, StillBounds, GoAccounts
<1>4. CASE Save(req[p].app, req[p].cand) /\ Go(p, "sync") /\ NoFault
  <2>1. PICK l \in Link, a \in Apps : l = req[p].att /\ a = req[p].app
    BY <1>2
  <2>2. Att(a)' = req[p].cand.att /\ \A b \in Apps \ {a} : Att(b)' = Att(b)
    BY <1>2, <1>4, <2>1, Saved
  <2>3. pc'[p] = "sync" /\ req'[p] = req[p] /\ Budget' = Budget /\ Budget \in Nat
    BY <1>2, <1>4, Going, Spent
  <2>4. CASE req[p].kind \in Cutovers
    <3>1. Att(a)' = Att(a)
      BY <1>1, <1>2, <2>1, <2>2, <2>4 DEF Own, Carried
    <3>2. Still
      BY <1>1, <2>2, <2>3, <3>1 DEF Still
    <3>3. Carried(p)'
      BY <1>1, <1>2, <2>1, <2>3, <2>4, <3>1 DEF Own, Carried, HasCandidate
    <3>4. Settled(p) /\ Settled(p)'
      BY <1>1, <2>3, <2>4 DEF Settled, Fresh, Paid, Gone
    <3> QED BY <1>2, <2>3, <3>2, <3>3, <3>4, StillOwn DEF Settled
  <2>5. CASE req[p].kind \notin Cutovers
    <3>1. /\ Att(a)' = l /\ Subject(p) = l /\ Tied(l, a)
          /\ Fresh(p) \/ Paid(p)
          /\ Fresh(p) <=> ~req[p].restoring
      BY <1>1, <1>2, <2>1, <2>2, <2>5 DEF Own, Carried, Subject, Fresh, Paid
    <3>2. /\ Att(a) \in {None, l}
          /\ Fresh(p) => l \in attachments /\ Besides(l, a) <= Budget
          /\ Paid(p) => Besides(l, a) + 1 <= Budget
      BY <2>1, <3>1 DEF Own, Counted, Counting
    <3>3. /\ World' /\ Besides(l, a)' = Besides(l, a)
          /\ l \in attachments' \cup {None} => Disagreements' = Besides(l, a)
      BY <1>1, <2>2, <3>1, <3>2, StepCounts
    <3>4. Carried(p)'
      BY <1>1, <1>2, <2>1, <2>3, <2>5, <3>1 DEF Own, Carried, HasCandidate, HasOld
    <3>5. /\ Settled(p)' <=> ~req[p].restoring
          /\ Paid(p)' <=> req[p].restoring
          /\ ~Fresh(p)' /\ ~Gone(p)' /\ Subject(p)' = l
      BY <1>2, <2>1, <2>3, <2>5 DEF Settled, Fresh, Paid, Gone, Subject
    <3>6. Paid(p)' => Paid(p)
      BY <1>2, <2>5, <3>5 DEF Paid
    <3>7. Settled(p)' => Disagreements' <= Budget'
      BY <1>1, <2>3, <3>1, <3>2, <3>3, <3>5
    <3>8. Counting(p, l, a)'
      BY <2>3, <3>1, <3>2, <3>3, <3>5, <3>6 DEF Counting
    <3>9. Counted(p)'
      BY <2>1, <2>3, <3>5, <3>7, <3>8 DEF Counted
    <3> QED BY <2>1, <2>3, <3>1, <3>3, <3>4, <3>9 DEF Own
  <2> QED BY <2>4, <2>5
<1> QED BY <1>1, <1>3, <1>4

LEMMA ReleaseAccounts ==
    ASSUME TypeOK, TypeOK', AppsFinite, World, NEW p \in Procs, Own(p),
           \/ StartOK(p) \/ StartFailed(p) \/ Verify(p) \/ Cleanup(p) \/ Promote(p)
           \/ Retire(p) \/ StopDeployment(p)
    PROVE  Own(p)' /\ World'
<1>1. CASE StartFailed(p)
  BY <1>1, StillBounds, FailureAccounts DEF StartFailed
<1>2. CASE Cleanup(p)
  BY <1>2, StillBounds, FailureAccounts DEF Cleanup
<1>3. CASE Verify(p)
  BY <1>3, StillBounds, GoAccounts DEF Verify
<1>4. CASE Retire(p)
  <2>1. Still /\ pc[p] = "retire" /\ Finish(p)
    BY <1>4, StillBounds DEF Retire
  <2>2. req[p].kind \in Cutovers
    BY <2>1, AtWork DEF StepOfKind
  <2>3. Settled(p)
    BY <2>1, <2>2 DEF Settled, Fresh, Paid, Gone
  <2> QED BY <2>1, <2>3, FinishSettled
<1>5. CASE StopDeployment(p)
  <2>1. Still /\ pc[p] = "stop" /\ (Finish(p) \/ Go(p, "release_att"))
    BY <1>5, StillBounds DEF StopDeployment
  <2>2. req[p].kind \in {"detach", "delete"}
    BY <2>1, AtWork DEF StepOfKind
  <2>3. Settled(p)
    BY <2>1, <2>2 DEF Settled, Fresh, Paid, Gone
  <2> QED BY <2>1, <2>3, FinishSettled, GoAccounts
<1> QED BY <1>1, <1>2, <1>3, <1>4, <1>5, StartAccounts, PromoteAccounts

LEMMA SyncAccounts ==
    ASSUME TypeOK, TypeOK', AppsFinite, World, NEW p \in Procs, Own(p), Sync(p)
    PROVE  Own(p)' /\ World'
<1>1. /\ pc[p] = "sync" /\ Still /\ attachments' = attachments
      /\ \/ AfterSync(p, TRUE) /\ NoFault
         \/ AfterSync(p, FALSE) /\ Fault
  BY StillBounds DEF Sync
<1>2. /\ p \in Threads /\ req[p] \in Request /\ req[p].app \in Apps /\ req[p].att \in Link
      /\ req[p].kind \in Kinds /\ req[p].restoring \in BOOLEAN
  BY <1>1, AtWork DEF Request
<1>3. \/ Finish(p) /\ ~(req[p].kind \in Cutovers \cup {"reattach", "deploy"} /\ req[p].restoring)
      \/ Go(p, "cleanup") /\ req[p].kind \in Cutovers \cup {"reattach", "deploy"} /\ req[p].restoring
      \/ /\ Go(p, "restore") /\ ~req[p].restoring /\ Fault
         /\ req[p].kind \in Cutovers \cup {"reattach", "deploy", "detach"}
      \/ Go(p, "retire") /\ req[p].kind \in Cutovers
      \/ Go(p, "stop") /\ req[p].kind = "detach"
  BY <1>1, <1>2 DEF AfterSync
<1>4. CASE Finish(p) /\ ~(req[p].kind \in Cutovers \cup {"reattach", "deploy"} /\ req[p].restoring)
  <2>1. Settled(p)
    BY <1>1, <1>2, <1>4 DEF Settled, Fresh, Paid, Gone
  <2> QED BY <1>1, <1>4, <2>1, FinishSettled
<1>5. CASE /\ Go(p, "restore") /\ ~req[p].restoring /\ Fault
           /\ req[p].kind \in {"reattach", "deploy"}
  <2>1. PICK l \in Link, a \in Apps : l = req[p].att /\ a = req[p].app
    BY <1>2
  <2>2. pc'[p] = "restore" /\ req'[p] = req[p]
    BY <1>2, <1>5, Going
  <2>3. Settled(p) /\ Att(a) = l /\ Att(a)' = l /\ Tied(l, a)
    BY <1>1, <1>5, <2>1 DEF Settled, Fresh, Paid, Gone, Own, Carried, Still
  <2>4. /\ World' /\ Besides(l, a)' = Besides(l, a) /\ Besides(l, a) <= Disagreements
        /\ Besides(l, a) \in Nat /\ Disagreements \in Nat /\ Budget \in Nat
    BY <1>1, <2>1, <2>3, StepCounts DEF Still
  <2>5. Disagreements <= Budget /\ Budget' = Budget + 1
    BY <1>5, <2>3, Spent DEF Own, Counted
  <2>6. Besides(l, a)' + 1 <= Budget'
    BY <2>4, <2>5
  <2>7. ~Settled(p)' /\ ~Fresh(p)' /\ ~Gone(p)' /\ Subject(p)' = l
    BY <1>5, <2>1, <2>2 DEF Settled, Fresh, Paid, Gone, Subject
  <2>8. Counted(p)'
    BY <2>1, <2>2, <2>3, <2>6, <2>7 DEF Counted, Counting
  <2>9. Carried(p)'
    BY <1>1, <1>5, <2>2 DEF Own, Carried, HasCandidate, HasOld
  <2> QED BY <2>1, <2>2, <2>3, <2>4, <2>8, <2>9 DEF Own
<1>6. ASSUME NEW s \in {"cleanup", "restore", "retire", "stop"}, Go(p, s),
             s = "cleanup" => req[p].kind \in Cutovers \cup {"reattach", "deploy"} /\ req[p].restoring,
             s = "restore" => req[p].kind \in Cutovers \cup {"detach"},
             s = "retire" => req[p].kind \in Cutovers,
             s = "stop" => req[p].kind = "detach"
      PROVE  Own(p)' /\ World'
  <2>1. pc'[p] = s /\ req'[p] = req[p]
    BY <1>2, <1>6, Going
  <2>2. Carried(p)'
    BY <1>1, <1>2, <1>6, <2>1 DEF Still, Own, Carried, HasCandidate, HasOld
  <2>3. /\ Settled(p)' => Settled(p)
        /\ Fresh(p)' => Fresh(p)
        /\ Paid(p)' => Paid(p)
        /\ ~Gone(p)' /\ Subject(p)' = Subject(p)
    BY <1>1, <1>6, <2>1 DEF Settled, Fresh, Paid, Gone, Subject
  <2> QED BY <1>1, <1>2, <2>1, <2>2, <2>3, StillOwn
<1> QED BY <1>3, <1>4, <1>5, <1>6

LEMMA RestoreAccounts ==
    ASSUME TypeOK, TypeOK', AppsFinite, World, NEW p \in Procs, Own(p), Restore(p)
    PROVE  Own(p)' /\ World'
<1> DEFINE Again == Goto(p, "sync") /\ Set(p, [req[p] EXCEPT !.restoring = TRUE])
<1>1. /\ pc[p] = "restore" /\ attachments' = attachments
      /\ \/ req[p].kind = "deploy" /\ Save(req[p].app, None) /\ NoFault /\ Again
         \/ req[p].kind = "deploy" /\ (NoFault \/ Fault) /\ Finish(p) /\ UNCHANGED store
         \/ req[p].kind # "deploy" /\ Save(req[p].app, req[p].old) /\ NoFault /\ Again
         \/ req[p].kind \in Cutovers /\ Fault /\ UNCHANGED store /\ Go(p, "cleanup")
         \/ req[p].kind \notin Cutovers \cup {"deploy"} /\ Fault /\ UNCHANGED store /\ Again
  BY DEF Restore
<1>2. /\ p \in Threads /\ req[p] \in Request /\ req[p].app \in Apps /\ req[p].att \in Link
      /\ pc \in [Threads -> Steps] /\ req \in [Threads -> Request]
      /\ req[p].kind \in Kinds \ {"delete"}
      /\ req[p].kind # "deploy" => req[p].old \in Record /\ req[p].old # None
  BY <1>1, AtWork, NoneAssumption DEF HasOld, Own, Carried
<1>3. ASSUME Again
      PROVE  /\ pc'[p] = "sync" /\ req'[p].restoring /\ req'[p].kind = req[p].kind
             /\ req'[p].app = req[p].app /\ req'[p].att = req[p].att
             /\ req'[p].saved = req[p].saved /\ req'[p].old = req[p].old
             /\ req'[p].orig = req[p].orig /\ req'[p].cand = req[p].cand
  BY <1>2, <1>3 DEF Goto, Set, Request
<1>4. CASE req[p].kind \in Cutovers \cup {"detach"}
  <2>1. Settled(p) /\ Att(req[p].app) = req[p].old.att
    BY <1>1, <1>4 DEF Settled, Fresh, Paid, Gone, Own, Carried
  <2>2. Still
    <3>1. CASE UNCHANGED store /\ Fault
      BY <1>1, <3>1, StillBounds
    <3>2. CASE Save(req[p].app, req[p].old) /\ NoFault
      <4>1. PICK a \in Apps, r \in Record : a = req[p].app /\ r = req[p].old /\ r # None
        BY <1>2, <1>4
      <4>2. Att(a)' = r.att /\ \A b \in Apps \ {a} : Att(b)' = Att(b)
        BY <3>2, <4>1, Saved
      <4>3. Budget' = Budget /\ Budget \in Nat
        BY <3>2, Spent
      <4> QED BY <1>1, <2>1, <4>1, <4>2, <4>3 DEF Still
    <3> QED BY <1>1, <1>4, <3>1, <3>2
  <2>3. CASE Again
    <3>1. Carried(p)'
      BY <1>1, <1>2, <1>3, <1>4, <2>2, <2>3 DEF Still, Own, Carried, HasCandidate, HasOld
    <3>2. Settled(p)'
      BY <1>3, <1>4, <2>3 DEF Settled, Fresh, Paid, Gone
    <3> QED BY <1>2, <1>3, <2>1, <2>2, <2>3, <3>1, <3>2, StillOwn DEF Settled
  <2>4. CASE Go(p, "cleanup") /\ req[p].kind \in Cutovers
    <3>1. pc'[p] = "cleanup" /\ req'[p] = req[p]
      BY <1>2, <2>4, Going
    <3>2. Carried(p)'
      BY <1>1, <1>2, <2>2, <2>4, <3>1 DEF Still, Own, Carried, HasCandidate
    <3>3. Settled(p)'
      BY <2>4, <3>1 DEF Settled, Fresh, Paid, Gone
    <3> QED BY <1>2, <2>1, <2>2, <3>1, <3>2, <3>3, StillOwn DEF Settled
  <2> QED BY <1>1, <1>4, <2>3, <2>4
<1>5. CASE req[p].kind \in {"reattach", "deploy"}
  <2>1. PICK l \in Link, a \in Apps : l = req[p].att /\ a = req[p].app
    BY <1>2
  <2>2. Paid(p) /\ Subject(p) = l /\ Tied(l, a)
    BY <1>1, <1>5, <2>1 DEF Paid, Subject, Own
  <2>3. Att(a) \in {None, l} /\ Besides(l, a) + 1 <= Budget
    BY <2>1, <2>2 DEF Own, Counted, Counting
  <2>4. /\ Att(a)' \in {None, l}
        /\ \A b \in Apps \ {a} : Att(b)' = Att(b)
    <3>1. CASE UNCHANGED store
      BY <2>3, <3>1 DEF Att
    <3>2. CASE req[p].kind = "deploy" /\ Save(req[p].app, None)
      BY <2>1, <3>2, Saved
    <3>3. CASE req[p].kind # "deploy" /\ Save(req[p].app, req[p].old)
      <4>1. PICK r \in Record : r = req[p].old /\ r # None
        BY <1>2, <3>3
      <4>2. r.att = None
        BY <1>1, <1>5, <3>3, <4>1 DEF Own, Carried, HasOld
      <4> QED BY <2>1, <3>3, <4>1, <4>2, Saved
    <3> QED BY <1>1, <1>5, <3>1, <3>2, <3>3
  <2>5. /\ World' /\ Besides(l, a)' = Besides(l, a) /\ Besides(l, a) \in Nat
        /\ Disagreements' \in Nat /\ Budget \in Nat /\ Budget' \in Nat
        /\ Disagreements' <= Besides(l, a) + 1
    BY <1>1, <2>2, <2>3, <2>4, StepCounts
  <2>6. Besides(l, a)' + 1 <= Budget' /\ Disagreements' <= Budget'
    <3>1. Budget' = Budget \/ Budget' = Budget + 1
      BY <1>1, Spent
    <3> QED BY <2>3, <2>5, <3>1
  <2>7. CASE Finish(p)
    BY <1>2, <2>5, <2>6, <2>7, FinishOwn
  <2>8. CASE Again
    <3>1. Carried(p)'
      BY <1>1, <1>3, <1>5, <2>8 DEF Own, Carried, HasCandidate, HasOld
    <3>2. ~Settled(p)' /\ ~Fresh(p)' /\ ~Gone(p)' /\ Subject(p)' = l
      BY <1>3, <1>5, <2>1, <2>8 DEF Settled, Fresh, Paid, Gone, Subject
    <3>3. Counted(p)'
      BY <1>3, <2>1, <2>4, <2>6, <2>8, <3>2 DEF Counted, Counting
    <3> QED BY <1>3, <2>1, <2>2, <2>5, <2>8, <3>1, <3>3 DEF Own
  <2> QED BY <1>1, <1>5, <2>7, <2>8
<1> QED BY <1>2, <1>4, <1>5

LEMMA MarkAccounts ==
    ASSUME TypeOK, TypeOK', AppsFinite, World, NEW p \in Procs, Own(p), Mark(p)
    PROVE  Own(p)' /\ World'
<1>1. /\ pc[p] = "mark" /\ attachments' = attachments
      /\ \/ /\ Save(req[p].app, [req[p].old EXCEPT !.detached = TRUE])
            /\ Go(p, "sync") /\ NoFault
         \/ Fault /\ Finish(p) /\ UNCHANGED store
  BY DEF Mark
<1>2. /\ p \in Threads /\ req[p] \in Request /\ req[p].app \in Apps /\ req[p].kind = "detach"
      /\ req[p].old \in Record
  BY <1>1, AtWork DEF StepOfKind, HasOld
<1>3. Settled(p) /\ Att(req[p].app) = req[p].old.att
  BY <1>1, <1>2 DEF Settled, Fresh, Paid, Gone, Own, Carried
<1>4. CASE Fault /\ Finish(p) /\ UNCHANGED store
  BY <1>1, <1>3, <1>4, StillBounds, FinishSettled
<1>5. CASE /\ Save(req[p].app, [req[p].old EXCEPT !.detached = TRUE])
           /\ Go(p, "sync") /\ NoFault
  <2>1. PICK a \in Apps, r \in Record :
          a = req[p].app /\ r = [req[p].old EXCEPT !.detached = TRUE]
    BY <1>2, RecordMarked DEF Link
  <2>2. r # None /\ r.att = req[p].old.att
    <3>1. LET n == [req[p].old EXCEPT !.detached = TRUE] IN n.att = req[p].old.att
      BY <1>2, RecordFields
    <3> QED BY <2>1, <3>1, NoneAssumption
  <2>3. Att(a)' = r.att /\ \A b \in Apps \ {a} : Att(b)' = Att(b)
    BY <1>5, <2>1, <2>2, Saved
  <2>4. Still
    <3>1. Budget' = Budget /\ Budget \in Nat
      BY <1>5, Spent
    <3> QED BY <1>1, <1>3, <2>1, <2>2, <2>3, <3>1 DEF Still
  <2>5. pc'[p] = "sync" /\ req'[p] = req[p]
    BY <1>2, <1>5, Going
  <2>6. Carried(p)'
    BY <1>1, <1>2, <2>4, <2>5 DEF Still, Own, Carried, HasCandidate, HasOld
  <2>7. Settled(p)'
    BY <1>2, <2>5 DEF Settled, Fresh, Paid, Gone
  <2> QED BY <1>2, <1>3, <2>4, <2>5, <2>6, <2>7, StillOwn DEF Settled
<1> QED BY <1>1, <1>4, <1>5

LEMMA LetGoAccounts ==
    ASSUME TypeOK, TypeOK', AppsFinite, World, NEW p \in Procs, Own(p), ReleaseAttachment(p)
    PROVE  Own(p)' /\ World'
<1>1. /\ pc[p] = "release_att" /\ store' = store
      /\ attachments' \in {attachments, attachments \ {req[p].old.att}}
      /\ \/ /\ attachments' = attachments \ {req[p].old.att} /\ NoFault
            /\ Go(p, IF req[p].kind = "detach" THEN "clear" ELSE "rm_record")
         \/ Fault /\ Finish(p)
  BY DEF ReleaseAttachment
<1>2. /\ p \in Threads /\ req[p] \in Request /\ req[p].app \in Apps
      /\ req[p].kind \in {"detach", "delete"} /\ req[p].old \in Record
  BY <1>1, AtWork DEF StepOfKind, HasOld
<1>3. PICK l \in Link, a \in Apps : l = req[p].old.att /\ a = req[p].app
  BY <1>2 DEF Record
<1>4. /\ Settled(p) /\ Att(a) = l /\ Tied(l, a)
      /\ \A b \in Apps : Att(b)' = Att(b)
  BY <1>1, <1>2, <1>3 DEF Settled, Fresh, Paid, Gone, Own, Carried, Att, World
<1>5. /\ World' /\ Besides(l, a)' = Besides(l, a)
      /\ Besides(l, a) \in Nat /\ Disagreements \in Nat /\ Disagreements' \in Nat
      /\ Budget \in Nat /\ Budget' \in Nat
      /\ Besides(l, a) <= Disagreements
      /\ Disagreements' <= Besides(l, a) + 1
  BY <1>1, <1>3, <1>4, StepCounts
<1>6. Disagreements <= Budget
  BY <1>4 DEF Own, Counted
<1>7. CASE Fault /\ Finish(p)
  <2>1. Budget' = Budget + 1
    BY <1>7, Spent
  <2> QED BY <1>2, <1>5, <1>6, <1>7, <2>1, FinishOwn
<1>8. CASE /\ attachments' = attachments \ {req[p].old.att} /\ NoFault
           /\ Go(p, IF req[p].kind = "detach" THEN "clear" ELSE "rm_record")
  <2>1. /\ pc'[p] = IF req[p].kind = "detach" THEN "clear" ELSE "rm_record"
        /\ req'[p] = req[p]
    BY <1>2, <1>8, Going
  <2>2. Carried(p)'
    BY <1>1, <1>2, <1>3, <1>4, <2>1 DEF Own, Carried, HasCandidate, HasOld
  <2>3. ~Settled(p)' /\ ~Fresh(p)' /\ ~Paid(p)' /\ Subject(p)' = l
    BY <1>2, <1>3, <2>1 DEF Settled, Fresh, Paid, Gone, Subject
  <2>4. Besides(l, a)' <= Budget'
    <3>1. Budget' = Budget
      BY <1>8, Spent
    <3> QED BY <1>5, <1>6, <3>1
  <2>5. l \notin attachments' /\ Att(a)' = l
    BY <1>3, <1>4, <1>8
  <2>6. Counted(p)'
    BY <1>3, <2>1, <2>3, <2>4, <2>5 DEF Counted, Counting
  <2>7. Tied(req'[p].att, req'[p].app)
    BY <2>1 DEF Own
  <2> QED BY <1>5, <2>2, <2>6, <2>7 DEF Own
<1> QED BY <1>1, <1>7, <1>8

LEMMA ForgetAccounts ==
    ASSUME TypeOK, TypeOK', AppsFinite, World, NEW p \in Procs, Own(p),
           ClearAttachment(p) \/ DeleteRecord(p)
    PROVE  Own(p)' /\ World'
<1>1. PICK r \in {[req[p].old EXCEPT !.att = None, !.detached = TRUE], None} :
        /\ attachments' = attachments
        /\ \/ pc[p] = "clear" /\ Finish(p) /\ r # None
           \/ pc[p] = "rm_record" /\ (Finish(p) \/ Go(p, "sync")) /\ r = None
        /\ \/ Save(req[p].app, r) /\ NoFault
           \/ Fault /\ Finish(p) /\ UNCHANGED store
           \/ store[req[p].app] = None /\ Finish(p) /\ NoFault /\ UNCHANGED store /\ r = None
  <2>1. CASE ClearAttachment(p)
    <3>1. pc[p] = "clear"
      BY <2>1 DEF ClearAttachment
    <3>2. req[p].old \in Record
      BY <3>1, AtWork DEF HasOld, StepOfKind
    <3>3. [req[p].old EXCEPT !.att = None, !.detached = TRUE] # None
      <4>1. [req[p].old EXCEPT !.att = None, !.detached = TRUE] \in Record
        BY <3>2, RecordMarked DEF Link
      <4> QED BY <4>1, NoneAssumption
    <3> QED BY <2>1, <3>3 DEF ClearAttachment
  <2>2. CASE DeleteRecord(p)
    BY <2>2 DEF DeleteRecord
  <2> QED BY <2>1, <2>2
<1>2. /\ p \in Threads /\ req[p] \in Request /\ req[p].app \in Apps
      /\ req[p].kind \in {"detach", "delete"} /\ req[p].old \in Record
      /\ pc[p] = "clear" => req[p].kind = "detach"
      /\ pc[p] = "rm_record" => req[p].kind = "delete"
  BY <1>1, AtWork DEF StepOfKind, HasOld
<1>3. PICK l \in Link, a \in Apps : l = req[p].old.att /\ a = req[p].app
  BY <1>2 DEF Record
<1>4. Gone(p) /\ Subject(p) = l /\ Att(a) = l /\ Tied(l, a)
  BY <1>1, <1>2, <1>3 DEF Gone, Subject, Own, Carried, World
<1>5. l \notin attachments /\ Besides(l, a) <= Budget
  BY <1>3, <1>4 DEF Own, Counted, Counting
<1>6. r \in Record \cup {None} /\ (r # None => r.att = None)
  <2>1. [req[p].old EXCEPT !.att = None, !.detached = TRUE] \in Record
    BY <1>2, RecordMarked DEF Link
  <2>2. LET n == [req[p].old EXCEPT !.att = None, !.detached = TRUE] IN n.att = None
    BY <1>2, RecordFields
  <2> QED BY <1>1, <2>1, <2>2
<1>7. /\ \A b \in Apps \ {a} : Att(b)' = Att(b)
      /\ \/ Att(a)' = None /\ NoFault
         \/ Att(a)' = Att(a) /\ Fault /\ Finish(p)
  <2>1. CASE Save(req[p].app, r) /\ NoFault
    <3>1. Save(a, r)
      BY <1>3, <2>1
    <3> QED BY <1>6, <2>1, <3>1, Saved
  <2>2. CASE Fault /\ Finish(p) /\ UNCHANGED store
    BY <2>2 DEF Att
  <2>3. CASE store[req[p].app] = None /\ NoFault /\ UNCHANGED store
    BY <1>3, <2>3 DEF Att
  <2> QED BY <1>1, <2>1, <2>2, <2>3
<1>8. /\ World' /\ Besides(l, a) \in Nat /\ Disagreements' \in Nat
      /\ Budget \in Nat /\ Budget' \in Nat
      /\ Disagreements' <= Besides(l, a) + 1
      /\ Att(a)' = None /\ l \notin attachments' => Disagreements' = Besides(l, a)
  BY <1>1, <1>4, <1>7, StepCounts
<1>9. Disagreements' <= Budget'
  <2>1. /\ NoFault => Budget' = Budget
        /\ Fault => Budget' = Budget + 1
    BY Spent
  <2> QED BY <1>1, <1>5, <1>7, <1>8, <2>1
<1>10. CASE Finish(p)
  BY <1>2, <1>8, <1>9, <1>10, FinishOwn
<1>11. CASE Go(p, "sync") /\ pc[p] = "rm_record"
  <2>1. pc'[p] = "sync" /\ req'[p] = req[p]
    BY <1>2, <1>11, Going
  <2>2. Carried(p)'
    BY <1>1, <1>2, <1>11, <2>1 DEF Own, Carried, HasCandidate, HasOld
  <2>3. Settled(p)'
    BY <1>2, <1>11, <2>1 DEF Settled, Fresh, Paid, Gone
  <2>4. Counted(p)'
    BY <1>9, <2>3 DEF Counted, Counting, Settled
  <2>5. Tied(req'[p].att, req'[p].app)
    BY <2>1 DEF Own
  <2> QED BY <1>8, <2>2, <2>4, <2>5 DEF Own
<1> QED BY <1>1, <1>10, <1>11

LEMMA RestBound ==
    TypeOK => \A p \in Procs :
        /\ pc[p] = "idle" => req[p].kind = "none"
        /\ Own(p) /\ pc[p] = "idle" => Disagreements <= Budget
<1> SUFFICES ASSUME TypeOK, NEW p \in Procs, pc[p] = "idle"
             PROVE  req[p].kind = "none" /\ (Own(p) => Disagreements <= Budget)
  OBVIOUS
<1>1. req[p].kind = "none"
  BY DEF TypeOK, RequestOK, StepOfKind
<1>2. Settled(p)
  BY <1>1 DEF Settled, Fresh, Paid, Gone
<1> QED BY <1>1, <1>2 DEF Own, Counted

LEMMA RestBoundNext ==
    TypeOK' => \A p \in Procs : Own(p)' /\ pc'[p] = "idle" => Disagreements' <= Budget'
<1>1. (TypeOK => \A p \in Procs :
        /\ pc[p] = "idle" => req[p].kind = "none"
        /\ Own(p) /\ pc[p] = "idle" => Disagreements <= Budget)'
  BY RestBound, PTL
<1> QED BY <1>1

LEMMA BeginUnsaved ==
    ASSUME TypeOK, NEW p \in Procs, NEW kind, NEW a, NEW old, NEW ask, NEW s,
           Begin(p, kind, a, old, ask, s)
    PROVE  req'[p].saved = FALSE
<1> DEFINE r == [NoRequest EXCEPT !.kind = kind, !.app = a, !.old = old, !.ask = ask]
<1>1. r.saved = FALSE
  BY DEF NoRequest
<1>2. req'[p] = r
  BY DEF Begin, TypeOK, Set
<1> QED BY <1>1, <1>2

LEMMA ArrivalAccounts ==
    ASSUME TypeOK, TypeOK', AppsFinite, World, NEW p \in Procs, Own(p), Arrival(p)
    PROVE  Own(p)' /\ World'
<1>1. req'[p].saved = FALSE
  BY BeginUnsaved DEF Arrival, miniBaseLifecycleAttachHandler, miniBaseLifecycleDetachHandler,
     databaseAttachmentHandler, releaseHandler, deployHandler, deleteDeploymentHandler
<1>2. PICK a \in Apps :
        /\ pc[Main] = "idle" /\ pc[p] = "idle" /\ Same /\ UNCHANGED bounds
        /\ req'[p].app = a /\ ~req'[p].restoring
        /\ req'[p].att = None
        /\ \/ req'[p].kind \in Guarded /\ pc'[p] = "lock_db"
           \/ /\ req'[p].kind = "release" /\ pc'[p] = "lock"
              /\ store[a] # None /\ ~store[a].detached /\ req'[p].old = store[a]
           \/ req'[p].kind = "deploy" /\ pc'[p] = "lock" /\ store[a] = None
           \/ /\ req'[p].kind = "delete" /\ pc'[p] = "stop"
              /\ store[a] # None /\ req'[p].old = store[a]
  BY ArrivalSteps DEF ArrivalEffect
<1>3. Still
  BY <1>2, StillBounds DEF Same
<1>4. Settled(p)
  BY <1>2, RestBound DEF Settled, Fresh, Paid, Gone
<1>5. Carried(p)'
  BY <1>1, <1>2 DEF Same, Att, Carried, HasCandidate, HasOld
<1>6. Settled(p)'
  BY <1>2 DEF Settled, Fresh, Paid, Gone
<1>7. Disagreements' <= Budget'
  <2>1. Disagreements <= Budget /\ Disagreements \in Nat
    BY <1>2, RestBound, DisagreeType
  <2>2. Disagreements' = Disagreements /\ Budget \in Nat /\ Budget' \in Nat /\ Budget' >= Budget
    BY <1>3, CountsSame, BudgetType DEF Still
  <2> QED BY <2>1, <2>2
<1>8. Counted(p)'
  BY <1>6, <1>7 DEF Counted, Counting, Settled
<1>9. Tied(req'[p].att, req'[p].app)
  BY <1>2 DEF Tied
<1> QED BY <1>3, <1>5, <1>8, <1>9, StillWorld DEF Own, Still

\* A step of another process that counts nothing.
LEMMA OwnKept ==
    ASSUME TypeOK, TypeOK', AppsFinite, World, NEW p \in Procs, Own(p), Still,
           pc'[p] = pc[p], req'[p] = req[p]
    PROVE  Own(p)'
<1>1. Carried(p)'
  <2>1. CASE pc[p] = "idle"
    <3>1. req'[p].kind = "none"
      BY <2>1, RestBound
    <3> QED BY <3>1 DEF Carried
  <2>2. CASE pc[p] # "idle"
    <3>1. Att(req[p].app)' = Att(req[p].app)
      BY <2>2, AtWork DEF Still
    <3> QED BY <3>1 DEF Own, Carried, HasCandidate, HasOld
  <2> QED BY <2>1, <2>2
<1>2. /\ Settled(p)' <=> Settled(p)
      /\ Fresh(p)' <=> Fresh(p)
      /\ Paid(p)' <=> Paid(p)
      /\ Gone(p)' <=> Gone(p)
      /\ Subject(p)' = Subject(p)
  BY DEF Settled, Fresh, Paid, Gone, Subject
<1>3. /\ Disagreements' = Disagreements /\ Disagreements \in Nat
      /\ \A l, a : Besides(l, a)' = Besides(l, a)
      /\ Budget \in Nat /\ Budget' \in Nat /\ Budget' >= Budget
  BY CountsSame, BudgetType, DisagreeType DEF Still
<1>4. Settled(p) => Disagreements' <= Budget'
  BY <1>3 DEF Own, Counted
<1>5. ASSUME ~Settled(p), NEW l, NEW a, l = Subject(p), a = req[p].app
      PROVE  Counting(p, l, a)'
  <2>1. pc[p] # "idle"
    BY <1>5, RestBound DEF Settled, Fresh, Paid, Gone
  <2>2. a \in Apps
    BY <1>5, <2>1, AtWork
  <2>3. Counting(p, l, a)
    BY <1>5 DEF Own, Counted
  <2>4. Besides(l, a) \in Nat /\ Besides(l, a)' = Besides(l, a) /\ Att(a)' = Att(a)
    BY <1>3, <2>2, Disagree DEF World, Still
  <2>5. Fresh(p) => l \in attachments' /\ Att(a)' = None /\ Besides(l, a)' <= Budget'
    BY <1>3, <2>3, <2>4 DEF Counting, Still
  <2>6. Paid(p) => Att(a)' \in {None, l} /\ Besides(l, a)' + 1 <= Budget'
    BY <1>3, <2>3, <2>4 DEF Counting
  <2>7. Gone(p) => l \notin attachments' /\ Att(a)' \in {None, l} /\ Besides(l, a)' <= Budget'
    BY <1>3, <2>3, <2>4 DEF Counting, Still
  <2> QED BY <1>2, <2>5, <2>6, <2>7 DEF Counting
<1>6. ASSUME Settled(p), NEW l, NEW a PROVE Counting(p, l, a)'
  BY <1>2, <1>6 DEF Counting, Settled
<1>7. Counted(p)'
  BY <1>2, <1>4, <1>5, <1>6 DEF Counted
<1> QED BY <1>1, <1>7 DEF Own

\* A crash costs at most what it adds to the budget.
LEMMA Bounded ==
    ASSUME TypeOK, AppsFinite, AccountInv, Serial
    PROVE  Disagreements <= Budget + 1 /\ Disagreements \in Nat /\ Budget \in Nat
<1>1. Disagreements \in Nat /\ Budget \in Nat
  BY DisagreeType, BudgetType, BudgetNatural DEF AccountInv
<1>2. ASSUME NEW p \in Procs, pc[p] # "idle" PROVE Disagreements <= Budget + 1
  <2>1. PICK l, a : l = Subject(p) /\ a = req[p].app
    OBVIOUS
  <2>2. a \in Apps
    BY <1>2, <2>1, AtWork
  <2>3. /\ Besides(l, a) \in Nat
        /\ Att(a) \in {None, l} => Disagreements <= Besides(l, a) + 1
    BY <2>2, Disagree DEF AccountInv, World
  <2>4. Own(p) /\ Counting(p, l, a)
    BY <2>1 DEF AccountInv, Own, Counted
  <2>5. Settled(p) => Disagreements <= Budget
    BY <2>4 DEF Own, Counted
  <2>6. ~Settled(p) => Att(a) \in {None, l} /\ Besides(l, a) <= Budget
    BY <1>1, <2>3, <2>4 DEF Counting, Settled
  <2> QED BY <1>1, <2>3, <2>5, <2>6
<1>3. (\A p \in Procs : pc[p] = "idle") => Disagreements <= Budget
  BY DEF AccountInv
<1> QED BY <1>1, <1>2, <1>3

LEMMA AccountWork ==
    ASSUME TypeOK, TypeOK', AppsFinite, World, NEW p \in Procs, Own(p),
           Arrival(p) \/ Lock(p) \/ Work(p) \/ Sync(p)
    PROVE  Own(p)' /\ World'
<1>1. CASE Arrival(p)
  BY <1>1, ArrivalAccounts
<1>2. CASE Lock(p)
  BY <1>2, LockAccounts
<1>3. CASE Sync(p)
  BY <1>3, SyncAccounts
<1>4. CASE Work(p)
  BY <1>4, CreateAccounts, SaveAccounts, UndoAccounts, PutBackAccounts, ReleaseAccounts,
     RestoreAccounts, MarkAccounts, LetGoAccounts, ForgetAccounts DEF Work
<1> QED BY <1>1, <1>2, <1>3, <1>4

LEMMA AccountInductive ==
    ASSUME TypeOK, TypeOK', AppsFinite, AccountInv, Serial, [Next]_vars
    PROVE  AccountInv'
<1>1. ASSUME NEW p \in Procs, Arrival(p) \/ Lock(p) \/ Work(p) \/ Sync(p)
      PROVE  AccountInv'
  <2>1. World /\ Own(p)
    BY DEF AccountInv
  <2>2. Own(p)' /\ World'
    BY <1>1, <2>1, AccountWork
  <2>3. \A q \in Procs : q = p
    BY DEF Serial
  <2>4. pc'[p] = "idle" => Disagreements' <= Budget'
    BY <2>2, RestBoundNext
  <2> QED BY <2>2, <2>3, <2>4 DEF AccountInv
<1>2. ASSUME Still, \A p \in Procs : pc'[p] = pc[p] /\ req'[p] = req[p]
      PROVE  AccountInv'
  <2>1. World /\ World'
    BY <1>2, StillWorld DEF AccountInv, Still
  <2>2. \A p \in Procs : Own(p)'
    BY <1>2, <2>1, OwnKept DEF AccountInv
  <2>3. /\ Disagreements' = Disagreements /\ Disagreements \in Nat
        /\ Budget \in Nat /\ Budget' \in Nat /\ Budget' >= Budget
    BY <1>2, <2>1, CountsSame, BudgetType, DisagreeType DEF Still
  <2>4. (\A p \in Procs : pc'[p] = "idle") => Disagreements' <= Budget'
    BY <1>2, <2>3 DEF AccountInv
  <2> QED BY <2>1, <2>2, <2>4 DEF AccountInv
<1>3. CASE Sync(Main)
  <2>1. Still
    BY <1>3, StillBounds DEF Sync
  <2>2. Main \in Threads /\ pc \in [Threads -> Steps] /\ req \in [Threads -> Request]
    BY DEF TypeOK
  <2>3. Finish(Main) \/ \E s \in Steps : Go(Main, s)
    BY <1>3 DEF Sync, AfterSync, TypeOK, Request
  <2>4. \A p \in Procs : p # Main /\ p \in Threads
    BY ConstantsAssumption
  <2>5. \A p \in Procs : pc'[p] = pc[p] /\ req'[p] = req[p]
    BY <2>2, <2>3, <2>4 DEF Finish, Go, Goto, Set
  <2> QED BY <1>2, <2>1, <2>5
<1>4. CASE Crash
  <2>1. /\ attachments' = attachments /\ store' = store /\ Budget' = Budget + 1
    BY <1>4 DEF Crash, Budget, TypeOK
  <2>2. Still
    <3>1. \A b \in Apps : Att(b)' = Att(b)
      BY <2>1 DEF Att
    <3>2. Budget \in Nat
      BY BudgetNatural
    <3> QED BY <2>1, <3>1, <3>2 DEF Still
  <2>3. Disagreements' <= Budget'
    BY <2>1, <2>2, Bounded, CountsSame DEF Still
  <2>4. \A p \in Procs : Own(p)'
    <3> SUFFICES ASSUME NEW p \in Procs PROVE Own(p)'
      OBVIOUS
    <3>1. req'[p] = NoRequest
      BY <1>4, CrashRests DEF Resting
    <3>2. req'[p].kind = "none" /\ req'[p].att = None
      BY <3>1 DEF NoRequest
    <3>3. Settled(p)' /\ Carried(p)'
      BY <3>2 DEF Settled, Fresh, Paid, Gone, Carried
    <3>4. Counted(p)'
      BY <2>3, <3>3 DEF Counted, Counting, Settled
    <3> QED BY <3>2, <3>3, <3>4 DEF Own, Tied
  <2>5. World'
    BY <2>2, StillWorld DEF AccountInv, Still
  <2> QED BY <2>3, <2>4, <2>5 DEF AccountInv
<1>5. CASE UNCHANGED vars
  <2>1. Still
    BY <1>5, StillBounds DEF vars
  <2> QED BY <1>2, <1>5, <2>1 DEF vars
<1> QED BY <1>1, <1>3, <1>4, <1>5 DEF Next

LEMMA AccountInit ==
    ASSUME Init, TypeOK
    PROVE  AccountInv
<1>1. \A a \in Apps : Att(a) = None
  <2>1. [name |-> 0, att |-> None, detached |-> FALSE].att = None
    OBVIOUS
  <2> QED BY <2>1 DEF Init, Att
<1>2. attachments = {} /\ Budget = 0
  BY DEF Init, Budget
<1>3. Orphans = {} /\ Dangling = {}
  BY <1>1, <1>2, CountedSets
<1>4. Disagreements <= Budget
  <2>1. Cardinality({}) = 0
    BY FS_EmptySet
  <2> QED BY <1>2, <1>3, <2>1 DEF Disagreements
<1>5. World
  BY <1>1, <1>2, FS_EmptySet DEF World, Tied
<1>6. ASSUME NEW p \in Procs PROVE Own(p)
  <2>1. req[p] = NoRequest
    BY InitRests DEF Resting
  <2>2. req[p].kind = "none" /\ req[p].att = None
    BY <2>1 DEF NoRequest
  <2>3. Settled(p) /\ Carried(p)
    BY <2>2 DEF Settled, Fresh, Paid, Gone, Carried
  <2>4. Counted(p)
    BY <1>4, <2>3 DEF Counted, Counting, Settled
  <2> QED BY <2>2, <2>3, <2>4 DEF Own, Tied
<1> QED BY <1>4, <1>5, <1>6 DEF AccountInv

\* MiniBase and the records agree at rest up to one disagreement, an attachment
\* that no record names or a record whose attachment MiniBase does not have, for
\* each failing command or call, expired context and crash
\* (minibase_lifecycle.go:505, :544): however many of them there are, one request
\* at a time never loses track of more attachments than its failures explain.
THEOREM AttachmentsBalance ==
    ASSUME Serial, AppsFinite
    PROVE  Spec => []AttachmentsAccounted
<1>1. Init => TypeOK /\ AccountInv
  BY AccountInit, InitType
<1>2. TypeOK /\ TypeOK' /\ AccountInv /\ [Next]_vars => AccountInv'
  BY AccountInductive
<1>3. AccountInv => AttachmentsAccounted
  BY DEF AccountInv, AttachmentsAccounted, AllIdle, Disagreements, Budget
<1> QED BY <1>1, <1>2, <1>3, DatabaseTypeCorrect, PTL DEF Spec
=============================================================================
