----------------------------- MODULE Repositories -----------------------------
(***************************************************************************)
(* What MiniDeploy makes of the repositories it deploys, over the life of  *)
(* an application: the strategy is detected once and persisted, every      *)
(* redeployment builds whatever the repository holds by then, a rollback   *)
(* goes back to the version before, and the name gives the hostname.       *)
(*                                                                         *)
(* A release either succeeds or changes nothing here; how it may fail is   *)
(* in ReleaseLifecycle.  git clone returns any content of the repository.  *)
(***************************************************************************)
EXTENDS Strategy, Hostnames, Sequences

CONSTANTS
    Names,        \* the names of the repositories
    Contents,     \* what each repository may hold when it is cloned
    AskedPorts,   \* container ports a deploy request may ask for, 0 for none
    MaxDeployed,  \* bound on the applications deployed at a time
    None          \* no application, no former version

ASSUME ContentsAssumption == Contents \in [Names -> SUBSET Repository]

\* The ports that validateDeploymentConfig lets pass; a request may ask for none.
ContainerPort == 1..65535

ASSUME BoundsAssumption ==
    /\ AskedPorts \subseteq ContainerPort \cup {0}
    /\ MaxDeployed \in Nat

VARIABLES
    store,        \* application -> its live version, or None
    history       \* application -> the version before, or None

vars == <<store, history>>

\* meta is what the record keeps; checkout and plan are what the running image
\* was built from.
Version(r, plan) == [meta |-> Metadata(plan), checkout |-> r, plan |-> plan]

Deployed == {n \in Names : store[n] # None}

Init ==
    /\ store = [n \in Names |-> None]
    /\ history = [n \in Names |-> None]

\* deployHandler and deployRepository: reserved and taken names are refused.
Deploy(n) == \E r \in Contents[n], port \in AskedPorts :
    /\ store[n] = None /\ Cardinality(Deployed) < MaxDeployed
    /\ ~isReservedPublicApp(n)
    /\ \E plan \in detectDeploymentStrategy(r, port) :
         store' = [store EXCEPT ![n] = Version(r, plan)]
    /\ UNCHANGED history

\* safeRedeploy, for an administrator or a webhook: only the persisted strategy
\* is asked.
Redeploy(n) == \E r \in Contents[n] :
    /\ store[n] # None
    /\ \E plan \in deploymentStrategyForRecord(store[n].meta, r) :
         store' = [store EXCEPT ![n] = Version(r, plan)]
    /\ history' = [history EXCEPT ![n] = store[n]]

\* rollbackDeployment: the live version and the one before change places, each
\* with the strategy it was recorded with.
Rollback(n) ==
    /\ store[n] # None /\ history[n] # None
    /\ store' = [store EXCEPT ![n] = history[n]]
    /\ history' = [history EXCEPT ![n] = store[n]]

Delete(n) ==
    /\ store[n] # None
    /\ store' = [store EXCEPT ![n] = None]
    /\ history' = [history EXCEPT ![n] = None]

Next == \E n \in Names : Deploy(n) \/ Redeploy(n) \/ Rollback(n) \/ Delete(n)

Spec == Init /\ [][Next]_vars

-----------------------------------------------------------------------------
(***************************************************************************)
(* Properties.                                                             *)
(***************************************************************************)
\* Every version has a checkout of its repository, a strategy and, for each of
\* its services, a port that docker run accepts (deployment_config.go:34).
VersionOK(n, v) ==
    /\ v.checkout \in Contents[n]
    /\ v.meta = Metadata(v.plan)
    /\ DOMAIN v.plan.parts = IF v.plan.strategy = "fullstack-vite-node"
                             THEN Services ELSE {"root"}
    /\ \A d \in DOMAIN v.plan.parts : v.plan.parts[d].port \in ContainerPort

TypeOK == \A n \in Names :
    /\ store[n] # None => VersionOK(n, store[n])
    /\ history[n] # None => store[n] # None /\ VersionOK(n, history[n])

\* "manual redeploys and signed webhook redeploys reuse the reviewed decision
\* instead of reclassifying the repository" (architecture.md:428): a redeployment
\* of an unchanged repository is never refused and builds the plan that runs,
\* though detection and the persisted strategy are two pieces of code that read
\* the repository each in its own way.
Reproducible == \A n \in Deployed :
    deploymentStrategyForRecord(store[n].meta, store[n].checkout) = {store[n].plan}

\* An image whose dependencies were installed by npm ci was built from a checkout
\* with a valid package-lock.json, in every service and whatever was pushed since
\* the mode was chosen (deployment_strategy.go:552, deployment_strategy.go:643).
PackageAt(r, d) == IF d = "root" THEN r.root ELSE r.pkg[d]

LockedInstalls == \A n \in Deployed : \A d \in DOMAIN store[n].plan.parts :
    store[n].plan.parts[d].mode = "ci" => PackageAt(store[n].checkout, d).lock = "ok"

\* A deployed application whose name has a letter has a public hostname: a label
\* of at most 63 valid characters without a dash at either end, and not the label
\* of the public site, which generated routes never shadow (architecture.md:163).
PublicHostnames == \A n \in Deployed : LET h == publicHostnameForApp(n) IN
    (\E i \in 1..Len(n) : n[i] \notin {"-", "_"}) =>
        /\ h # <<>> /\ h # Site /\ Len(h) <= MaxLabel
        /\ h[1] # "-" /\ Last(h) # "-"
        /\ \A i \in 1..Len(h) : ValidChar(h[i])

\* "Caddy sends [...] generated application hostnames to their loopback Docker
\* ports" (architecture.md:175): no other application answers for a hostname;
\* Caddy takes the first route of the file that matches.
HostReachesApp == \A m, n \in Deployed :
    publicHostnameForApp(m) = publicHostnameForApp(n) /\ publicHostnameForApp(n) # <<>>
        => m = n
=============================================================================
