---------------------------- MODULE JSONStoreProofs ----------------------------
(***************************************************************************)
(* JSONStore implements RecordStore, for any applications, clients and     *)
(* lifecycle metadata, and any bound on failures and crashes.              *)
(***************************************************************************)
EXTENDS JSONStore, TLAPS

\* A migrated list has no entry without the field, and is migrated for good.
LEMMA MigratedType ==
    ASSUME NEW C \in Content
    PROVE  /\ Migrated(C) \in Records /\ Migrated(Migrated(C)) = Migrated(C)
           /\ \A a \in Apps : Migrated(C)[a] = None <=> C[a] = None
BY StoreAssumption DEF Content, Records, Migrated, Stored, Entry

LEMMA RecordsMigrated ==
    ASSUME NEW R \in Records
    PROVE  R \in Content /\ Migrated(R) = R
BY StoreAssumption DEF Content, Records, Migrated, Stored, Entry

\* What an operation makes of a list of complete entries is one again.
LEMMA ChangedType ==
    ASSUME NEW R \in Records, NEW op \in Operation, op.kind \in {"save", "show", "delete"},
           op.kind # "save" => R[op.app] # None
    PROVE  Changed(op, R) \in Records
BY StoreAssumption DEF Changed, Records, Entry, Operation

\* The three ways in which an operation goes on with the list it has loaded:
\* it writes its change, or it answers.
LEMMA ProceedSteps ==
    ASSUME NEW c \in Clients, NEW R \in Records, pending[c] \in Operation, Proceed(c, R)
    PROVE  \/ /\ pending[c].kind \in {"save", "show", "delete"}
              /\ pending[c].kind # "save" => R[pending[c].app] # None
              /\ Write(c, Changed(pending[c], R))
           \/ /\ pending[c].kind \in {"show", "delete", "get"} /\ R[pending[c].app] = None
              /\ Reply(c, "not_found", None)
           \/ /\ pending[c].kind = "get" /\ R[pending[c].app] # None
              /\ Reply(c, "ok", R[pending[c].app])
           \/ /\ pending[c].kind = "list"
              /\ Reply(c, "ok", R)
<1>0. \A e \in Entry, v \in BOOLEAN :
        [e EXCEPT !.visible = v] = [life |-> e.life, visible |-> v]
  BY DEF Entry
<1>1. CASE Save(c, R)
  <2> DEFINE op == pending[c]
             e  == IF R[op.app] = None THEN op.entry
                   ELSE [op.entry EXCEPT !.visible = R[op.app].visible]
  <2>1. op.kind = "save" /\ Write(c, [R EXCEPT ![op.app] = e])
    BY <1>1 DEF Save
  <2>2. op.app \in Apps /\ op.entry \in Entry
    BY <2>1 DEF Operation
  <2>3. R[op.app] # None => R[op.app].visible \in BOOLEAN
    BY <2>2 DEF Records, Entry
  <2>4. e = [life |-> op.entry.life,
             visible |-> IF R[op.app] = None THEN op.entry.visible ELSE R[op.app].visible]
    BY <1>0, <2>2, <2>3 DEF Entry
  <2> QED
    BY <2>1, <2>4 DEF Changed
<1>2. CASE UpdateGuestVisibility(c, R)
  <2> DEFINE op == pending[c]
  <2>1. op.kind = "show" /\ op.app \in Apps /\ op.visible \in BOOLEAN
    BY <1>2 DEF UpdateGuestVisibility, Operation
  <2>2. CASE R[op.app] = None
    BY <1>2, <2>1, <2>2 DEF UpdateGuestVisibility
  <2>3. CASE R[op.app] # None
    <3>1. R[op.app] \in Entry /\ Write(c, [R EXCEPT ![op.app].visible = op.visible])
      BY <1>2, <2>1, <2>3 DEF UpdateGuestVisibility, Records
    <3>2. [R EXCEPT ![op.app].visible = op.visible]
            = [R EXCEPT ![op.app] = [R[op.app] EXCEPT !.visible = op.visible]]
      OBVIOUS
    <3>3. [R[op.app] EXCEPT !.visible = op.visible]
            = [life |-> R[op.app].life, visible |-> op.visible]
      BY <1>0, <2>1, <3>1
    <3> QED
      BY <2>1, <2>3, <3>1, <3>2, <3>3 DEF Changed
  <2> QED BY <2>2, <2>3
<1>3. CASE Delete(c, R)
  BY <1>3 DEF Delete, Operation, Changed
<1>4. CASE Get(c, R)
  BY <1>4 DEF Get
<1>5. CASE List(c, R)
  BY <1>5 DEF List
<1> QED BY <1>1, <1>2, <1>3, <1>4, <1>5 DEF Proceed

-----------------------------------------------------------------------------
(***************************************************************************)
(* The inductive invariant: types and NoLostUpdate.                        *)
(***************************************************************************)
StoreInv == TypeOK /\ NoLostUpdate

LEMMA InitInv == ASSUME Init PROVE StoreInv
BY StoreAssumption DEF Init, StoreInv, TypeOK, NoLostUpdate, Steps

\* A client that answers releases the store; the others have it not.
LEMMA ReplyInv ==
    ASSUME StoreInv, NEW c \in Clients, pc[c] \notin {"idle", "lock", "done"},
           NEW status \in {"ok", "not_found", "failed"},
           NEW value \in Records \cup Entry \cup {None},
           Reply(c, status, value), file' \in Content, temp' \in Content \cup {None, Partial},
           UNCHANGED <<pending, crashes>>, faults' \in Nat
    PROVE  StoreInv'
<1>1. answer'[c] # None /\ answer' \in [Clients -> Answer \cup {None}]
  BY StoreAssumption DEF Reply, StoreInv, TypeOK, Answer
<1>2. \A d \in Clients \ {c} : pc[d] \in {"idle", "lock", "done"}
  BY DEF StoreInv, NoLostUpdate
<1>3. TypeOK'
  BY <1>1, <1>2 DEF Reply, StoreInv, TypeOK, Goto, Steps
<1>4. NoLostUpdate'
  BY <1>2 DEF Reply, StoreInv, TypeOK, NoLostUpdate, Goto
<1> QED BY <1>3, <1>4 DEF StoreInv

\* The operation goes on with the list it holds, which is the file's.
LEMMA ProceedInv ==
    ASSUME StoreInv, NEW c \in Clients, pc[c] \in {"load", "migrate_rename"},
           NEW R \in Records, Proceed(c, R), file' = R,
           temp' \in Content \cup {None, Partial},
           UNCHANGED <<pending, crashes>>, faults' \in Nat
    PROVE  StoreInv'
<1>1. pending[c] \in Operation
  BY DEF StoreInv, TypeOK
<1>2. R \in Content /\ Migrated(R) = R
  BY RecordsMigrated
<1>3. CASE /\ pending[c].kind \in {"save", "show", "delete"}
           /\ pending[c].kind # "save" => R[pending[c].app] # None
           /\ Write(c, Changed(pending[c], R))
  <2>1. Changed(pending[c], R) \in Records
    BY <1>1, <1>3, ChangedType
  <2>2. \A d \in Clients \ {c} : pc[d] \in {"idle", "lock", "done"}
    BY DEF StoreInv, NoLostUpdate
  <2>3. TypeOK'
    BY <1>2, <1>3, <2>1, <2>2 DEF Write, StoreInv, TypeOK, Goto, Steps
  <2>4. NoLostUpdate'
    BY <1>2, <1>3, <2>2 DEF Write, StoreInv, TypeOK, NoLostUpdate, Goto
  <2> QED BY <2>3, <2>4 DEF StoreInv
<1>4. CASE \E status \in {"ok", "not_found"}, value \in Records \cup Entry \cup {None} :
             Reply(c, status, value)
  BY <1>2, <1>4, ReplyInv
<1>5. pending[c].kind = "get" /\ R[pending[c].app] # None => R[pending[c].app] \in Entry
  BY <1>1 DEF Operation, Records
<1> QED
  BY <1>1, <1>3, <1>4, <1>5, ProceedSteps

LEMMA NextInv == ASSUME StoreInv, [Next]_vars PROVE StoreInv'
<1> USE StoreAssumption
<1>1. ASSUME NEW c \in Clients, Call(c) PROVE StoreInv'
  BY <1>1 DEF Call, Goto, StoreInv, TypeOK, NoLostUpdate, Steps
<1>2. ASSUME NEW c \in Clients, Lock(c) PROVE StoreInv'
  BY <1>2 DEF Lock, Goto, StoreInv, TypeOK, NoLostUpdate, Steps
<1>3. ASSUME NEW c \in Clients, Load(c) PROVE StoreInv'
  <2>0. file \in Content /\ pc[c] = "load" /\ faults' \in Nat
        /\ UNCHANGED <<file, temp, pending, crashes>> /\ temp \in Content \cup {None, Partial}
    BY <1>3 DEF Load, StoreInv, TypeOK, NoFault, Fault
  <2>1. CASE Migrated(file) = file /\ Proceed(c, file)
    BY <2>0, <2>1, MigratedType, ProceedInv
  <2>2. CASE /\ buf' = [buf EXCEPT ![c] = Migrated(file)]
             /\ Goto(c, "migrate") /\ UNCHANGED <<mu, answer>>
    BY <2>0, <2>2, MigratedType DEF Goto, StoreInv, TypeOK, NoLostUpdate, Steps
  <2>3. CASE Fail(c)
    BY <2>0, <2>3, ReplyInv DEF Fail
  <2> QED BY <1>3, <2>1, <2>2, <2>3 DEF Load
<1>4. ASSUME NEW c \in Clients, WriteTemp(c) PROVE StoreInv'
  <2>0. /\ pc[c] \in {"temp", "migrate"} /\ file \in Content /\ faults' \in Nat
        /\ UNCHANGED <<file, pending, crashes>> /\ buf[c] \in Records
        /\ temp \in Content \cup {None, Partial}
    BY <1>4 DEF WriteTemp, StoreInv, TypeOK, NoFault, Fault
  <2>1. CASE /\ temp' = buf[c] /\ UNCHANGED <<mu, answer, buf>>
             /\ Goto(c, IF pc[c] = "temp" THEN "rename" ELSE "migrate_rename")
    BY <2>0, <2>1, RecordsMigrated DEF Goto, StoreInv, TypeOK, NoLostUpdate, Steps
  <2>2. CASE temp' \in {temp, Partial} /\ Fail(c)
    BY <2>0, <2>2, ReplyInv DEF Fail
  <2> QED BY <1>4, <2>1, <2>2 DEF WriteTemp
<1>5. ASSUME NEW c \in Clients, Rename(c) PROVE StoreInv'
  <2>0. /\ pc[c] = "rename" /\ file \in Content /\ faults' \in Nat
        /\ UNCHANGED <<pending, crashes>> /\ buf[c] \in Records /\ temp = buf[c]
        /\ pending[c] \in Operation /\ pending[c].kind \in {"save", "show", "delete"}
    BY <1>5 DEF Rename, StoreInv, TypeOK, NoLostUpdate, NoFault, Fault
  <2>1. Written(c) \in Records \cup Entry \cup {None}
    BY <2>0 DEF Written, Operation, Records
  <2>2. CASE file' = temp /\ temp' = None /\ Reply(c, "ok", Written(c))
    BY <2>0, <2>1, <2>2, RecordsMigrated, ReplyInv
  <2>3. CASE Fail(c) /\ UNCHANGED <<file, temp>>
    BY <2>0, <2>3, RecordsMigrated, ReplyInv DEF Fail
  <2> QED BY <1>5, <2>2, <2>3 DEF Rename
<1>6. ASSUME NEW c \in Clients, RenameMigrated(c) PROVE StoreInv'
  <2>0. /\ pc[c] = "migrate_rename" /\ file \in Content /\ faults' \in Nat
        /\ UNCHANGED <<pending, crashes>> /\ buf[c] \in Records /\ temp = buf[c]
    BY <1>6 DEF RenameMigrated, StoreInv, TypeOK, NoLostUpdate, NoFault, Fault
  <2>1. CASE file' = temp /\ temp' = None /\ Proceed(c, buf[c])
    BY <2>0, <2>1, ProceedInv
  <2>2. CASE Fail(c) /\ UNCHANGED <<file, temp>>
    BY <2>0, <2>2, RecordsMigrated, ReplyInv DEF Fail
  <2> QED BY <1>6, <2>1, <2>2 DEF RenameMigrated
<1>7. ASSUME NEW c \in Clients, Return(c) PROVE StoreInv'
  BY <1>7 DEF Return, Goto, StoreInv, TypeOK, NoLostUpdate, Steps
<1>8. CASE Crash
  BY <1>8 DEF Crash, StoreInv, TypeOK, NoLostUpdate, Steps
<1>9. CASE UNCHANGED vars
  BY <1>9 DEF vars, StoreInv, TypeOK, NoLostUpdate
<1> QED
  BY <1>1, <1>2, <1>3, <1>4, <1>5, <1>6, <1>7, <1>8, <1>9 DEF Next, Work

\* No operation of the store ever loses what another one has written, whatever
\* the interleaving of clients, failing file operations and crashes.
THEOREM NothingLost == Spec => [](TypeOK /\ NoLostUpdate)
<1>1. Init => StoreInv BY InitInv
<1>2. StoreInv /\ [Next]_vars => StoreInv' BY NextInv
<1>3. StoreInv => TypeOK /\ NoLostUpdate BY DEF StoreInv
<1> QED BY <1>1, <1>2, <1>3, PTL DEF Spec

\* Every variable of the store has its type, and an operation has loaded what
\* its step needs.
THEOREM WellTyped == Spec => []TypeOK
<1>1. TypeOK /\ NoLostUpdate => TypeOK
  OBVIOUS
<1> QED BY <1>1, NothingLost, PTL

-----------------------------------------------------------------------------
(***************************************************************************)
(* The refinement: the list in the file, migrated, is the abstract map.    *)
(* An operation takes effect when it answers, which is when its rename     *)
(* succeeds if it writes.                                                  *)
(***************************************************************************)
\* An answer that leaves the records alone is an abstract answer.
LEMMA QuietReply ==
    ASSUME StoreInv, NEW c \in Clients, pc[c] \notin {"idle", "lock", "done"},
           NEW status, NEW value, Reply(c, status, value),
           Migrated(file)' = Migrated(file), UNCHANGED pending,
           LET op == pending[c] R == Migrated(file) IN
           \/ status = "failed" /\ value = None
           \/ /\ op.kind \in {"show", "delete", "get"} /\ R[op.app] = None
              /\ status = "not_found" /\ value = None
           \/ /\ op.kind = "get" /\ R[op.app] # None
              /\ status = "ok" /\ value = R[op.app]
           \/ op.kind = "list" /\ status = "ok" /\ value = R
    PROVE  Abstract!Next
<1>1. pending[c] # None /\ answer[c] = None
  BY DEF StoreInv, TypeOK
<1>2. Abstract!Reply(c, status, value)
  BY DEF Reply, Abstract!Reply
<1>3. Abstract!Effect(c)
  BY <1>2 DEF Abstract!Effect
<1> QED
  BY <1>1, <1>3 DEF Abstract!Perform, Abstract!Next

LEMMA ProceedRefines ==
    ASSUME StoreInv, NEW c \in Clients, pc[c] \in {"load", "migrate_rename"},
           Proceed(c, Migrated(file)), Migrated(file)' = Migrated(file), UNCHANGED pending
    PROVE  Abstract!Next \/ UNCHANGED Abstract!vars
<1>1. pending[c] \in Operation /\ Migrated(file) \in Records
  BY MigratedType DEF StoreInv, TypeOK
<1>2. CASE Write(c, Changed(pending[c], Migrated(file)))
  BY <1>2 DEF Write, Abstract!vars
<1>3. CASE ~Write(c, Changed(pending[c], Migrated(file)))
  BY <1>1, <1>3, ProceedSteps, QuietReply
<1> QED BY <1>2, <1>3

LEMMA RenameRefines ==
    ASSUME StoreInv, NEW c \in Clients, Rename(c)
    PROVE  Abstract!Next
<1> DEFINE op == pending[c]
           R  == Migrated(file)
<1>1. /\ pc[c] = "rename" /\ pending' = pending /\ file \in Content
      /\ op \in Operation /\ op.kind \in {"save", "show", "delete"}
      /\ op.kind # "save" => R[op.app] # None
      /\ R \in Records /\ R = file /\ temp = Changed(op, R) /\ buf[c] = temp
      /\ pending[c] # None /\ answer[c] = None
  BY MigratedType DEF Rename, StoreInv, TypeOK, NoLostUpdate
<1>2. CASE Fail(c) /\ UNCHANGED <<file, temp>>
  BY <1>1, <1>2, QuietReply DEF Fail
<1>3. CASE file' = temp /\ Reply(c, "ok", Written(c))
  <2>1. Migrated(file)' = Changed(op, R)
    BY <1>1, <1>3, ChangedType, RecordsMigrated
  <2>2. Abstract!Reply(c, "ok", Written(c))
    BY <1>3 DEF Reply, Abstract!Reply
  <2>3. ASSUME op.kind = "save" PROVE Abstract!Effect(c)
    BY <1>1, <2>1, <2>2, <2>3 DEF Abstract!Effect, Abstract!Kept, Changed, Written
  <2>4. ASSUME op.kind = "show" PROVE Abstract!Effect(c)
    <3>1. Migrated(file)'[op.app] = buf[c][op.app]
      BY <1>1, <2>1
    <3> QED
      BY <1>1, <2>1, <2>2, <2>4, <3>1 DEF Abstract!Effect, Changed, Written
  <2>5. ASSUME op.kind = "delete" PROVE Abstract!Effect(c)
    BY <1>1, <2>1, <2>2, <2>5 DEF Abstract!Effect, Changed, Written
  <2>6. Abstract!Effect(c)
    BY <1>1, <2>3, <2>4, <2>5
  <2> QED
    BY <1>1, <2>6 DEF Abstract!Perform, Abstract!Next
<1> QED
  BY <1>2, <1>3 DEF Rename

LEMMA StepRefines ==
    ASSUME StoreInv, [Next]_vars
    PROVE  Abstract!Next \/ UNCHANGED Abstract!vars
<1> USE DEF StoreInv
<1>1. ASSUME NEW c \in Clients, Call(c) PROVE Abstract!Next
  <2>1. PICK op \in Operation : pending' = [pending EXCEPT ![c] = op]
    BY <1>1 DEF Call
  <2>2. op \in Abstract!Operation
    BY DEF Operation, Entry, Abstract!Operation, Abstract!Entry
  <2>3. pending[c] = None /\ UNCHANGED <<file, answer>>
    BY <1>1 DEF Call, TypeOK
  <2> QED
    BY <2>1, <2>2, <2>3 DEF Abstract!Call, Abstract!Next
<1>2. ASSUME NEW c \in Clients, Lock(c) PROVE UNCHANGED Abstract!vars
  BY <1>2 DEF Lock, Abstract!vars
<1>3. ASSUME NEW c \in Clients, Load(c) PROVE Abstract!Next \/ UNCHANGED Abstract!vars
  <2>1. pc[c] = "load" /\ UNCHANGED <<file, pending>>
    BY <1>3 DEF Load
  <2>2. CASE Migrated(file) = file /\ Proceed(c, file)
    BY <2>1, <2>2, ProceedRefines
  <2>3. CASE UNCHANGED answer
    BY <2>1, <2>3 DEF Abstract!vars
  <2>4. CASE Fail(c)
    BY <2>1, <2>4, QuietReply DEF Fail
  <2> QED BY <1>3, <2>2, <2>3, <2>4 DEF Load
<1>4. ASSUME NEW c \in Clients, WriteTemp(c) PROVE Abstract!Next \/ UNCHANGED Abstract!vars
  <2>1. pc[c] \in {"temp", "migrate"} /\ UNCHANGED <<file, pending>>
    BY <1>4 DEF WriteTemp
  <2>2. CASE UNCHANGED answer
    BY <2>1, <2>2 DEF Abstract!vars
  <2>3. CASE Fail(c)
    BY <2>1, <2>3, QuietReply DEF Fail
  <2> QED BY <1>4, <2>2, <2>3 DEF WriteTemp
<1>5. ASSUME NEW c \in Clients, Rename(c) PROVE Abstract!Next
  BY <1>5, RenameRefines
<1>6. ASSUME NEW c \in Clients, RenameMigrated(c)
      PROVE  Abstract!Next \/ UNCHANGED Abstract!vars
  <2>1. /\ pc[c] = "migrate_rename" /\ UNCHANGED pending
        /\ file \in Content /\ buf[c] = Migrated(file) /\ temp = buf[c]
    BY <1>6 DEF RenameMigrated, TypeOK, NoLostUpdate
  <2>2. CASE file' = temp /\ Proceed(c, buf[c])
    <3>1. Migrated(file)' = Migrated(file)
      BY <2>1, <2>2, MigratedType
    <3> QED BY <2>1, <2>2, <3>1, ProceedRefines
  <2>3. CASE Fail(c) /\ UNCHANGED <<file, temp>>
    BY <2>1, <2>3, QuietReply DEF Fail
  <2> QED BY <1>6, <2>2, <2>3 DEF RenameMigrated
<1>7. ASSUME NEW c \in Clients, Return(c) PROVE Abstract!Next
  BY <1>7 DEF Return, TypeOK, Abstract!Return, Abstract!Next
<1>8. CASE Crash
  BY <1>8 DEF Crash, Abstract!Crash, Abstract!Next
<1>9. CASE UNCHANGED vars
  BY <1>9 DEF vars, Abstract!vars
<1> QED
  BY <1>1, <1>2, <1>3, <1>4, <1>5, <1>6, <1>7, <1>8, <1>9 DEF Next, Work

\* JSONStore implements RecordStore: each operation takes effect at one instant
\* between its call and its answer, or fails without effect; a crash loses no
\* operation that has answered and keeps no half of one; and the visibility of
\* an application survives every save.
THEOREM StoreRefines == Spec => Linearizable
<1>1. Init => Abstract!Init
  <2>1. Init => Migrated(file) \in Abstract!Records
    BY MigratedType DEF Init, Records, Entry, Abstract!Records, Abstract!Entry
  <2> QED BY <2>1 DEF Init, Abstract!Init
<1>2. StoreInv /\ [Next]_vars => [Abstract!Next]_(Abstract!vars)
  BY StepRefines
<1>3. Init => StoreInv BY InitInv
<1>4. StoreInv /\ [Next]_vars => StoreInv' BY NextInv
<1> QED BY <1>1, <1>2, <1>3, <1>4, PTL DEF Spec, Linearizable, Abstract!Spec

-----------------------------------------------------------------------------
(***************************************************************************)
(* The action property.                                                    *)
(***************************************************************************)
LEMMA RenamesKeepVisibility ==
    ASSUME StoreInv, NEW a \in Apps, NEW c \in Clients, Rename(c) \/ RenameMigrated(c),
           file[a] # None, file'[a] # None, file[a].visible # Missing,
           file'[a].visible # file[a].visible
    PROVE  pc[c] = "rename" /\ pending[c].kind = "show" /\ pending[c].app = a
<1>1. file' # file /\ file \in Content /\ pending[c] \in Operation
  <2>1. pc[c] # "idle"
    BY DEF Rename, RenameMigrated
  <2> QED BY <2>1 DEF StoreInv, TypeOK
<1>2. CASE RenameMigrated(c)
  <2>1. file' = Migrated(file)
    BY <1>1, <1>2 DEF RenameMigrated, StoreInv, NoLostUpdate
  <2> QED BY <2>1 DEF Migrated
<1>3. CASE Rename(c)
  <2> DEFINE op == pending[c]
  <2>1. /\ pc[c] = "rename" /\ file' = Changed(op, file) /\ op.kind \in {"save", "show", "delete"}
    BY <1>1, <1>3 DEF Rename, StoreInv, NoLostUpdate
  <2>2. op.app = a
    BY <1>1, <2>1 DEF Changed, Content
  <2>3. op.kind # "delete"
    BY <1>1, <2>1, <2>2 DEF Changed, Content
  <2>4. file'[a].visible = IF op.kind = "show" THEN op.visible ELSE file[a].visible
    BY <1>1, <2>1, <2>2, <2>3 DEF Changed, Content
  <2> QED BY <2>1, <2>2, <2>3, <2>4
<1> QED BY <1>2, <1>3

\* A client's choice of what guests may see survives every deployment, rollback
\* and deletion that saves another record, concurrently with it or not.
THEOREM VisibilityPreserved == Spec => VisibilityKept
<1>1. StoreInv /\ [Next]_vars =>
        [\A a \in Apps :
            /\ file[a] # None /\ file'[a] # None /\ file[a].visible # Missing
            /\ file'[a].visible # file[a].visible
            => \E c \in Clients : pc[c] = "rename" /\ pending[c].kind = "show"
                                                   /\ pending[c].app = a]_vars
  <2> SUFFICES ASSUME StoreInv, Next, NEW a \in Apps,
                      file[a] # None, file'[a] # None, file[a].visible # Missing,
                      file'[a].visible # file[a].visible
               PROVE  \E c \in Clients : pc[c] = "rename" /\ pending[c].kind = "show"
                                                          /\ pending[c].app = a
    OBVIOUS
  <2>1. file' # file
    OBVIOUS
  <2>2. PICK c \in Clients : Rename(c) \/ RenameMigrated(c)
    BY <2>1 DEF Next, Work, Call, Lock, Load, WriteTemp, Return, Crash
  <2> QED BY <2>2, RenamesKeepVisibility
<1>2. Init => StoreInv BY InitInv
<1>3. StoreInv /\ [Next]_vars => StoreInv' BY NextInv
<1> QED BY <1>1, <1>2, <1>3, PTL DEF Spec, VisibilityKept
=============================================================================
