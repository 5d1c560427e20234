----------------------------- MODULE ZeroDowntime -----------------------------
(***************************************************************************)
(* What MiniDeploy promises the visitors of an application that stays      *)
(* deployed: the current version remains live until a candidate that       *)
(* passed its checks is routed, and is retired only then                   *)
(* (architecture.md:341-371).  A release is launched beside the one that   *)
(* is served, checked, and served from one moment to the next; only one    *)
(* that is not served is withdrawn.                                        *)
(***************************************************************************)
CONSTANTS Apps, Releases, None

VARIABLES
    running,  \* application -> the releases whose container runs
    checked,  \* application -> the releases that passed their checks
    served    \* application -> the release its visitors reach, or None

vars == <<running, checked, served>>

Init ==
    /\ running \in [Apps -> SUBSET Releases]
    /\ checked = running
    /\ \A a \in Apps : served[a] \in running[a] \cup {None}
    /\ DOMAIN served = Apps

\* A candidate is a new release, not one that was withdrawn.
Launch(a, r) ==
    /\ r \notin running[a] \cup checked[a]
    /\ running' = [running EXCEPT ![a] = @ \cup {r}]
    /\ UNCHANGED <<checked, served>>

Approve(a, r) ==
    /\ r \in running[a] \ checked[a]
    /\ checked' = [checked EXCEPT ![a] = @ \cup {r}]
    /\ UNCHANGED <<running, served>>

\* One reload may switch several applications, each to a checked release that
\* is running at that moment.
Switch ==
    /\ DOMAIN served' = Apps
    /\ \A a \in Apps : served'[a] # served[a] => served'[a] \in running[a] \cap checked[a]
    /\ UNCHANGED <<running, checked>>

Withdraw(a, r) ==
    /\ r \in running[a] /\ served[a] # r
    /\ running' = [running EXCEPT ![a] = @ \ {r}]
    /\ UNCHANGED <<checked, served>>

Next ==
    \/ \E a \in Apps : \E r \in running'[a] : Launch(a, r)
    \/ \E a \in Apps : \E r \in running[a] : Approve(a, r) \/ Withdraw(a, r)
    \/ Switch

Spec == Init /\ [][Next]_vars
=============================================================================
