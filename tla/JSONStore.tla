------------------------------- MODULE JSONStore -------------------------------
(***************************************************************************)
(* JSONStore, the metadata store in deployments.json.  Every operation     *)
(* locks the store, reads the whole file, and, if it changes anything,     *)
(* writes the whole list to deployments.json.tmp and renames it over the   *)
(* file.  Records written before guest visibility existed have no          *)
(* guestVisible field: loading them writes the file as well.               *)
(*                                                                         *)
(* The order of the list is left out: the file is a map from applications  *)
(* to their entries, empty when the file is absent.                        *)
(***************************************************************************)
EXTENDS Integers, FiniteSets

CONSTANTS
    Apps, Clients,
    Lives,       \* values of the lifecycle metadata of a record
    None,        \* no record, no operation, no answer, no temporary file
    Missing,     \* an entry without the guestVisible field
    Partial,     \* a temporary file that was not written to its end
    MaxFaults,   \* bound on the failing file operations
    MaxCrashes   \* bound on the crashes of the service

VARIABLES
    file,     \* deployments.json
    temp,     \* deployments.json.tmp
    mu,       \* JSONStore.mu: the client that holds it, or None
    pc,       \* next step of each client
    pending,  \* the operation each client has called
    answer,   \* its answer, once the operation has returned
    buf,      \* the list it has loaded or is about to write
    faults, crashes

vars == <<file, temp, mu, pc, pending, answer, buf, faults, crashes>>

Entry   == [life : Lives, visible : BOOLEAN]
Stored  == [life : Lives, visible : BOOLEAN \cup {Missing}]
Records == [Apps -> Entry \cup {None}]
Content == [Apps -> Stored \cup {None}]

Operation ==
    [kind : {"save"}, app : Apps, entry : Entry]
    \cup [kind : {"show"}, app : Apps, visible : BOOLEAN]
    \cup [kind : {"get", "delete"}, app : Apps]
    \cup [kind : {"list"}]

Answer == [status : {"ok", "not_found", "failed"}, value : Records \cup Entry \cup {None}]

ASSUME StoreAssumption ==
    /\ Missing \notin BOOLEAN
    /\ None \notin Clients /\ None \notin Stored
    /\ None \notin Operation /\ None \notin Answer
    /\ MaxFaults \in Nat /\ MaxCrashes \in Nat

Init ==
    /\ file \in Content
    /\ temp = None /\ mu = None
    /\ pc = [c \in Clients |-> "idle"]
    /\ pending = [c \in Clients |-> None]
    /\ answer = [c \in Clients |-> None]
    /\ buf = [c \in Clients |-> None]
    /\ faults = 0 /\ crashes = 0

Goto(c, s) == pc' = [pc EXCEPT ![c] = s]
Fault      == faults < MaxFaults /\ faults' = faults + 1
NoFault    == UNCHANGED faults

\* load: entries without the field were listed publicly before it existed.
Migrated(C) == [a \in Apps |->
    IF C[a] # None /\ C[a].visible = Missing THEN [C[a] EXCEPT !.visible = TRUE]
    ELSE C[a]]

Call(c) == \E op \in Operation :
    /\ pc[c] = "idle"
    /\ pending' = [pending EXCEPT ![c] = op]
    /\ Goto(c, "lock")
    /\ UNCHANGED <<file, temp, mu, answer, buf, faults, crashes>>

\* Mutant: the file is loaded before the store is locked.
LockLate(c) ==
    /\ pc[c] = "lock"
    /\ mu' = c
    /\ Goto(c, "load")
    /\ UNCHANGED <<file, temp, pending, answer, buf, faults, crashes>>

Lock(c) ==
    /\ pc[c] = "lock" /\ mu = None
    /\ mu' = c
    /\ Goto(c, "load")
    /\ UNCHANGED <<file, temp, pending, answer, buf, faults, crashes>>

\* The operation returns; the deferred Unlock runs.
Reply(c, status, value) ==
    /\ answer' = [answer EXCEPT ![c] = [status |-> status, value |-> value]]
    /\ buf' = [buf EXCEPT ![c] = None]
    /\ mu' = None
    /\ Goto(c, "done")

\* Mutant: an early return without the Unlock.
FailLocked(c) ==
    /\ answer' = [answer EXCEPT ![c] = [status |-> "failed", value |-> None]]
    /\ buf' = [buf EXCEPT ![c] = None]
    /\ Goto(c, "done") /\ UNCHANGED mu

Fail(c) == Reply(c, "failed", None)

Write(c, B) ==
    /\ buf' = [buf EXCEPT ![c] = B]
    /\ Goto(c, "temp")
    /\ UNCHANGED <<mu, answer>>

(***************************************************************************)
(* The operations, on the list R they have loaded.                         *)
(***************************************************************************)
\* Mutant: Save writes the visibility of the record it is given.
SaveAsGiven(c, R) == LET op == pending[c] IN
    /\ op.kind = "save"
    /\ Write(c, [R EXCEPT ![op.app] = op.entry])

\* Save keeps the visibility of an existing record.
Save(c, R) == LET op == pending[c] IN
    /\ op.kind = "save"
    /\ Write(c, [R EXCEPT ![op.app] =
                   IF R[op.app] = None THEN op.entry
                   ELSE [op.entry EXCEPT !.visible = R[op.app].visible]])

UpdateGuestVisibility(c, R) == LET op == pending[c] IN
    /\ op.kind = "show"
    /\ IF R[op.app] = None THEN Reply(c, "not_found", None)
       ELSE Write(c, [R EXCEPT ![op.app].visible = op.visible])

Delete(c, R) == LET op == pending[c] IN
    /\ op.kind = "delete"
    /\ IF R[op.app] = None THEN Reply(c, "not_found", None)
       ELSE Write(c, [R EXCEPT ![op.app] = None])

Get(c, R) == LET op == pending[c] IN
    /\ op.kind = "get"
    /\ IF R[op.app] = None THEN Reply(c, "not_found", None)
       ELSE Reply(c, "ok", R[op.app])

List(c, R) == pending[c].kind = "list" /\ Reply(c, "ok", R)

Proceed(c, R) == \/ Save(c, R) \/ UpdateGuestVisibility(c, R) \/ Delete(c, R)
                 \/ Get(c, R) \/ List(c, R)

(***************************************************************************)
(* load and write.                                                         *)
(***************************************************************************)
Load(c) ==
    /\ pc[c] = "load"
    /\ \/ /\ Migrated(file) = file
          /\ Proceed(c, file) /\ NoFault
       \/ /\ Migrated(file) # file
          /\ buf' = [buf EXCEPT ![c] = Migrated(file)]
          /\ Goto(c, "migrate") /\ NoFault /\ UNCHANGED <<mu, answer>>
       \/ Fault /\ Fail(c)
    /\ UNCHANGED <<file, temp, pending, crashes>>

\* os.WriteFile truncates, then writes; an error may leave a part.
WriteTemp(c) ==
    /\ pc[c] \in {"temp", "migrate"}
    /\ \/ /\ temp' = buf[c]
          /\ Goto(c, IF pc[c] = "temp" THEN "rename" ELSE "migrate_rename")
          /\ NoFault /\ UNCHANGED <<mu, answer, buf>>
       \/ Fault /\ temp' \in {temp, Partial} /\ Fail(c)
    /\ UNCHANGED <<file, pending, crashes>>

\* What the operation answers once its list is in place.
Written(c) == IF pending[c].kind = "show" THEN buf[c][pending[c].app] ELSE None

\* Mutant: an error is reported although the file has been replaced.
RenameDoubted(c) ==
    /\ pc[c] = "rename"
    /\ \/ file' = temp /\ temp' = None /\ NoFault /\ Reply(c, "ok", Written(c))
       \/ file' = temp /\ temp' = None /\ Fault /\ Fail(c)
    /\ UNCHANGED <<pending, crashes>>

Rename(c) ==
    /\ pc[c] = "rename"
    /\ \/ file' = temp /\ temp' = None /\ NoFault /\ Reply(c, "ok", Written(c))
       \/ Fault /\ Fail(c) /\ UNCHANGED <<file, temp>>
    /\ UNCHANGED <<pending, crashes>>

\* The rename of a migration: the operation goes on with the list in memory.
RenameMigrated(c) ==
    /\ pc[c] = "migrate_rename"
    /\ \/ file' = temp /\ temp' = None /\ NoFault /\ Proceed(c, buf[c])
       \/ Fault /\ Fail(c) /\ UNCHANGED <<file, temp>>
    /\ UNCHANGED <<pending, crashes>>

\* Mutant: the answer of the last operation stays.
ReturnAgain(c) ==
    /\ pc[c] = "done"
    /\ pending' = [pending EXCEPT ![c] = None]
    /\ Goto(c, "idle")
    /\ UNCHANGED <<file, temp, mu, answer, buf, faults, crashes>>

Return(c) ==
    /\ pc[c] = "done"
    /\ pending' = [pending EXCEPT ![c] = None]
    /\ answer' = [answer EXCEPT ![c] = None]
    /\ Goto(c, "idle")
    /\ UNCHANGED <<file, temp, mu, buf, faults, crashes>>

\* The service dies, perhaps in the middle of WriteFile.
Crash ==
    /\ crashes < MaxCrashes /\ crashes' = crashes + 1
    /\ \/ UNCHANGED temp
       \/ (\E c \in Clients : pc[c] \in {"temp", "migrate"}) /\ temp' = Partial
    /\ mu' = None
    /\ pc' = [c \in Clients |-> "idle"]
    /\ pending' = [c \in Clients |-> None]
    /\ answer' = [c \in Clients |-> None]
    /\ buf' = [c \in Clients |-> None]
    /\ UNCHANGED <<file, faults>>

Work(c) == Load(c) \/ WriteTemp(c) \/ Rename(c) \/ RenameMigrated(c) \/ Return(c)

Next == \/ \E c \in Clients : Call(c) \/ Lock(c) \/ Work(c)
        \/ Crash

Spec == Init /\ [][Next]_vars

\* An operation that has begun goes on; sync.Mutex is starvation free.
Fairness == \A c \in Clients : SF_vars(Lock(c)) /\ WF_vars(Work(c))
FairSpec == Spec /\ Fairness

-----------------------------------------------------------------------------
Steps == {"idle", "lock", "load", "migrate", "migrate_rename", "temp", "rename", "done"}

\* Every variable has its type, and an operation at a step has what it needs
\* there.
TypeOK ==
    /\ file \in Content
    /\ temp \in Content \cup {None, Partial}
    /\ mu \in Clients \cup {None}
    /\ pc \in [Clients -> Steps]
    /\ pending \in [Clients -> Operation \cup {None}]
    /\ answer \in [Clients -> Answer \cup {None}]
    /\ buf \in [Clients -> Records \cup {None}]
    /\ faults \in Nat /\ crashes \in Nat
    /\ \A c \in Clients :
         /\ pc[c] = "idle" <=> pending[c] = None
         /\ pc[c] = "done" <=> answer[c] # None
         /\ pc[c] \in {"migrate", "migrate_rename", "temp", "rename"} => buf[c] \in Records

\* The list an operation is about to put in place is the present file with its
\* own change and no other: it never writes back what another operation has
\* changed since it loaded the file (store.go:89), and never renames a temporary
\* file other than the one it wrote (store.go:265).
Changed(op, C) ==
    IF op.kind = "delete" THEN [C EXCEPT ![op.app] = None]
    ELSE [C EXCEPT ![op.app] =
            [life |-> IF op.kind = "save" THEN op.entry.life ELSE C[op.app].life,
             visible |-> IF op.kind = "show" THEN op.visible
                         ELSE IF C[op.app] = None THEN op.entry.visible
                         ELSE C[op.app].visible]]

NoLostUpdate == \A c \in Clients :
    /\ pc[c] \notin {"idle", "lock", "done"} => mu = c
    /\ pc[c] \in {"migrate", "migrate_rename"} => buf[c] = Migrated(file)
    /\ pc[c] \in {"migrate_rename", "rename"} => temp = buf[c]
    /\ pc[c] \in {"temp", "rename"} =>
         /\ pending[c].kind \in {"save", "show", "delete"}
         /\ pending[c].kind # "save" => file[pending[c].app] # None
         /\ file = Migrated(file) /\ buf[c] = Changed(pending[c], file)

\* Once a record's visibility is written, only UpdateGuestVisibility for its
\* application changes it, whatever lifecycle operations save (store.go:101).
VisibilityKept == [][\A a \in Apps :
    /\ file[a] # None /\ file'[a] # None /\ file[a].visible # Missing
    /\ file'[a].visible # file[a].visible
    => \E c \in Clients : pc[c] = "rename" /\ pending[c].kind = "show"
                                           /\ pending[c].app = a]_vars

\* The store behaves as RecordStore: operations are linearizable, fail without
\* effect, and survive a crash whole or not at all.
Abstract == INSTANCE RecordStore WITH records <- Migrated(file)
Linearizable == Abstract!Spec

\* Every operation returns, whichever file operations fail: no path leaves the
\* store locked.
OperationsReturn == \A c \in Clients : pc[c] # "idle" ~> pc[c] = "idle"

=============================================================================
