------------------------------ MODULE RecordStore ------------------------------
(***************************************************************************)
(* What the rest of MiniDeploy expects of its metadata store (the          *)
(* DeploymentStore interface): a map from applications to records whose    *)
(* operations take effect at one instant between the call and its answer,  *)
(* or fail without any effect.  Whether guests may see an application      *)
(* belongs to the application: saving a release does not change it.        *)
(***************************************************************************)
CONSTANTS Apps, Clients, Lives, None

VARIABLES
    records,  \* application -> entry, or None
    pending,  \* client -> the operation it has called, or None
    answer    \* client -> the answer on its way back, or None

vars == <<records, pending, answer>>

\* life stands for the lifecycle metadata: container, image, port and so on.
Entry   == [life : Lives, visible : BOOLEAN]
Records == [Apps -> Entry \cup {None}]

Operation ==
    [kind : {"save"}, app : Apps, entry : Entry]
    \cup [kind : {"show"}, app : Apps, visible : BOOLEAN]
    \cup [kind : {"get", "delete"}, app : Apps]
    \cup [kind : {"list"}]

Failed == [status |-> "failed", value |-> None]

Init ==
    /\ records \in Records
    /\ pending = [c \in Clients |-> None]
    /\ answer = [c \in Clients |-> None]

Call(c) == \E op \in Operation :
    /\ pending[c] = None
    /\ pending' = [pending EXCEPT ![c] = op]
    /\ UNCHANGED <<records, answer>>

Reply(c, status, value) ==
    answer' = [answer EXCEPT ![c] = [status |-> status, value |-> value]]

\* The visibility an entry is saved with: the application's, if it has one.
Kept(op) == IF records[op.app] = None THEN op.entry.visible
            ELSE records[op.app].visible

Effect(c) == LET op == pending[c] IN
    \/ /\ op.kind = "save"
       /\ records' = [records EXCEPT ![op.app] =
                        [life |-> op.entry.life, visible |-> Kept(op)]]
       /\ Reply(c, "ok", None)
    \/ /\ op.kind = "show" /\ records[op.app] # None
       /\ records' = [records EXCEPT ![op.app] =
                        [life |-> records[op.app].life, visible |-> op.visible]]
       /\ Reply(c, "ok", records'[op.app])
    \/ /\ op.kind = "delete" /\ records[op.app] # None
       /\ records' = [records EXCEPT ![op.app] = None]
       /\ Reply(c, "ok", None)
    \/ /\ op.kind = "get" /\ records[op.app] # None
       /\ Reply(c, "ok", records[op.app]) /\ UNCHANGED records
    \/ /\ op.kind = "list"
       /\ Reply(c, "ok", records) /\ UNCHANGED records
    \/ /\ op.kind \in {"show", "delete", "get"} /\ records[op.app] = None
       /\ Reply(c, "not_found", None) /\ UNCHANGED records
    \/ Reply(c, "failed", None) /\ UNCHANGED records

Perform(c) ==
    /\ pending[c] # None /\ answer[c] = None
    /\ Effect(c)
    /\ UNCHANGED pending

Return(c) ==
    /\ answer[c] # None
    /\ pending' = [pending EXCEPT ![c] = None]
    /\ answer' = [answer EXCEPT ![c] = None]
    /\ UNCHANGED records

\* The service dies: calls are lost, those that have taken effect stay so.
Crash ==
    /\ pending' = [c \in Clients |-> None]
    /\ answer' = [c \in Clients |-> None]
    /\ UNCHANGED records

Next == \/ \E c \in Clients : Call(c) \/ Perform(c) \/ Return(c)
        \/ Crash

Spec == Init /\ [][Next]_vars

=============================================================================
