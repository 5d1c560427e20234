--------------------------- MODULE RepositoriesProofs ---------------------------
(***************************************************************************)
(* Proofs about Repositories, for every content a repository may have and  *)
(* every name and port: a redeployment of an unchanged repository builds   *)
(* the plan that runs, and npm ci runs only with a lock file.  Every plan, *)
(* detected or persisted, has a shape that the persisted strategy rebuilds *)
(* from what the record keeps of it.  An application has a hostname that   *)
(* Caddy can route by: the label is a fold over the name, which is shown   *)
(* to satisfy its defining equation and then followed character by         *)
(* character, by induction from the well-foundedness of <.                 *)
(***************************************************************************)
EXTENDS Repositories, SequenceTheorems, WellFoundedInduction, TLAPS

\* A build of a service that can be rebuilt from its mode, its port and the same
\* directory.
ViteBuild(b, k) ==
    /\ k.manifest = "ok" /\ k.script # "other"
    /\ b.mode = "ci" => k.lock = "ok"
    /\ b = viteStaticBuildPlan(k, b.mode)

NodeBuild(b, k) ==
    /\ NodeShaped(k)
    /\ b.mode = "ci" => k.lock = "ok"
    /\ b = nodeExpressBuildPlan(k, b.mode, b.port)

\* The four shapes of a plan for the checkout r.
DockerPlan(plan, r) ==
    /\ r.dockerfile = "ok"
    /\ \E port : plan = Single(DockerBuild(port))

VitePlan(plan, r) == \E b : plan = Single(b) /\ ViteBuild(b, r.root)
NodePlan(plan, r) == \E b : plan = Single(b) /\ NodeBuild(b, r.root)

PairPlan(plan, r) ==
    /\ r.dockerfile = "absent"
    /\ \A d \in Services : r.dirs[d] = "ok"
    /\ \E f, b : /\ plan = Pair(f, b)
                 /\ ViteBuild(f, r.pkg["frontend"])
                 /\ NodeBuild(b, r.pkg["backend"])

Planned(plan, r) ==
    DockerPlan(plan, r) \/ VitePlan(plan, r) \/ NodePlan(plan, r) \/ PairPlan(plan, r)

-----------------------------------------------------------------------------
(***************************************************************************)
(* What is persisted of a service rebuilds it.                             *)
(***************************************************************************)
LEMMA ViteRebuilt ==
    ASSUME NEW b, NEW k, NEW meta, ViteBuild(b, k), meta.mode = b.mode
    PROVE  VitePersisted(meta, k) = {b}
BY DEF ViteBuild, VitePersisted, LockValid

LEMMA NodeRebuilt ==
    ASSUME NEW b, NEW k, NEW meta, NodeBuild(b, k), meta.mode = b.mode, meta.port = b.port
    PROVE  NodePersisted(meta, k) = {b}
BY DEF NodeBuild, NodePersisted, LockValid

\* What the persisted strategy accepts has one of the shapes again.
LEMMA VitePersistedShape ==
    ASSUME NEW k, NEW meta, NEW b \in VitePersisted(meta, k)
    PROVE  ViteBuild(b, k)
BY DEF ViteBuild, VitePersisted, LockValid, viteStaticBuildPlan

LEMMA NodePersistedShape ==
    ASSUME NEW k, NEW meta, NEW b \in NodePersisted(meta, k)
    PROVE  NodeBuild(b, k)
BY DEF NodeBuild, NodePersisted, LockValid, nodeExpressBuildPlan

-----------------------------------------------------------------------------
(***************************************************************************)
(* A plan of one of the four shapes is the one the persisted strategy      *)
(* makes of the same checkout.                                             *)
(***************************************************************************)
LEMMA SingleMetadata ==
    ASSUME NEW b
    PROVE  /\ Metadata(Single(b)).strategy = b.strategy
           /\ Metadata(Single(b)).parts["root"].mode = b.mode
           /\ Metadata(Single(b)).parts["root"].port = b.port
BY DEF Metadata, Single

LEMMA PairMetadata ==
    ASSUME NEW f, NEW b
    PROVE  /\ Metadata(Pair(f, b)).strategy = "fullstack-vite-node"
           /\ DOMAIN Metadata(Pair(f, b)).parts = Services
           /\ Metadata(Pair(f, b)).parts["frontend"].mode = f.mode
           /\ Metadata(Pair(f, b)).parts["backend"].mode = b.mode
           /\ Metadata(Pair(f, b)).parts["backend"].port = b.port
BY DEF Metadata, Pair, Services

LEMMA PortNormalizedOnce ==
    ASSUME NEW port
    PROVE  DockerBuild(normalizedContainerPort(port)) = DockerBuild(port)
BY DEF DockerBuild, normalizedContainerPort, defaultContainerPort

LEMMA PlanRebuilt ==
    ASSUME NEW r, NEW plan, Planned(plan, r)
    PROVE  deploymentStrategyForRecord(Metadata(plan), r) = {plan}
<1> DEFINE meta == Metadata(plan)
<1>1. CASE DockerPlan(plan, r)
  <2>1. PICK port : plan = Single(DockerBuild(port))
    BY <1>1 DEF DockerPlan
  <2>2. /\ meta.strategy = "dockerfile"
        /\ meta.parts["root"].port = normalizedContainerPort(port)
    BY <2>1, SingleMetadata DEF DockerBuild
  <2>3. r.dockerfile = "ok"
    BY <1>1 DEF DockerPlan
  <2>4. deploymentStrategyForRecord(meta, r) = {Single(DockerBuild(meta.parts["root"].port))}
    BY <2>2, <2>3 DEF deploymentStrategyForRecord
  <2> QED BY <2>1, <2>2, <2>4, PortNormalizedOnce
<1>2. CASE VitePlan(plan, r)
  <2>1. PICK b : plan = Single(b) /\ ViteBuild(b, r.root)
    BY <1>2 DEF VitePlan
  <2>2. /\ meta.strategy = "vite-static"
        /\ meta.parts["root"].mode = b.mode
    BY <2>1, SingleMetadata DEF ViteBuild, viteStaticBuildPlan
  <2>3. VitePersisted(meta.parts["root"], r.root) = {b}
    BY <2>1, <2>2, ViteRebuilt
  <2>4. deploymentStrategyForRecord(meta, r) =
            {Single(c) : c \in VitePersisted(meta.parts["root"], r.root)}
    BY <2>2 DEF deploymentStrategyForRecord
  <2> QED BY <2>1, <2>3, <2>4
<1>3. CASE NodePlan(plan, r)
  <2>1. PICK b : plan = Single(b) /\ NodeBuild(b, r.root)
    BY <1>3 DEF NodePlan
  <2>2. /\ meta.strategy = "node-express"
        /\ meta.parts["root"].mode = b.mode /\ meta.parts["root"].port = b.port
    BY <2>1, SingleMetadata DEF NodeBuild, nodeExpressBuildPlan
  <2>3. NodePersisted(meta.parts["root"], r.root) = {b}
    BY <2>1, <2>2, NodeRebuilt
  <2>4. deploymentStrategyForRecord(meta, r) =
            {Single(c) : c \in NodePersisted(meta.parts["root"], r.root)}
    BY <2>2 DEF deploymentStrategyForRecord
  <2> QED BY <2>1, <2>3, <2>4
<1>4. CASE PairPlan(plan, r)
  <2>1. PICK f, b : /\ plan = Pair(f, b)
                    /\ ViteBuild(f, r.pkg["frontend"]) /\ NodeBuild(b, r.pkg["backend"])
    BY <1>4 DEF PairPlan
  <2>2. /\ meta.strategy = "fullstack-vite-node"
        /\ DOMAIN meta.parts = Services
        /\ meta.parts["frontend"].mode = f.mode
        /\ meta.parts["backend"].mode = b.mode /\ meta.parts["backend"].port = b.port
    BY <2>1, PairMetadata
  <2>3. /\ VitePersisted(meta.parts["frontend"], r.pkg["frontend"]) = {f}
        /\ NodePersisted(meta.parts["backend"], r.pkg["backend"]) = {b}
    BY <2>1, <2>2, ViteRebuilt, NodeRebuilt
  <2>4. /\ r.dockerfile = "absent"
        /\ \A d \in Services : r.dirs[d] = "ok" /\ d \in DOMAIN meta.parts
    BY <1>4, <2>2 DEF PairPlan
  <2>5. persistedFullstackBuildPlan(meta, r) = {Pair(f, b)}
    BY <2>3, <2>4 DEF persistedFullstackBuildPlan
  <2>6. deploymentStrategyForRecord(meta, r) = persistedFullstackBuildPlan(meta, r)
    BY <2>2 DEF deploymentStrategyForRecord
  <2> QED BY <2>1, <2>5, <2>6
<1> QED BY <1>1, <1>2, <1>3, <1>4 DEF Planned

-----------------------------------------------------------------------------
(***************************************************************************)
(* Every plan that detection or the persisted strategy makes has one of    *)
(* the shapes, and the shapes run npm ci only with a lock file.            *)
(***************************************************************************)
StrategyNames == {"dockerfile", "vite-static", "node-express", "fullstack-vite-node"}

LEMMA PlannedStrategy ==
    ASSUME NEW r, NEW plan, Planned(plan, r)
    PROVE  Metadata(plan).strategy \in StrategyNames
<1>1. CASE DockerPlan(plan, r)
  BY <1>1, SingleMetadata DEF DockerPlan, DockerBuild, StrategyNames
<1>2. CASE VitePlan(plan, r)
  BY <1>2, SingleMetadata DEF VitePlan, ViteBuild, viteStaticBuildPlan, StrategyNames
<1>3. CASE NodePlan(plan, r)
  BY <1>3, SingleMetadata DEF NodePlan, NodeBuild, nodeExpressBuildPlan, StrategyNames
<1>4. CASE PairPlan(plan, r)
  BY <1>4, PairMetadata DEF PairPlan, StrategyNames
<1> QED BY <1>1, <1>2, <1>3, <1>4 DEF Planned

LEMMA PlannedLocked ==
    ASSUME NEW r, NEW plan, Planned(plan, r), NEW d \in DOMAIN plan.parts,
           plan.parts[d].mode = "ci"
    PROVE  PackageAt(r, d).lock = "ok"
<1>1. CASE DockerPlan(plan, r)
  BY <1>1 DEF DockerPlan, DockerBuild, Single
<1>2. CASE VitePlan(plan, r)
  BY <1>2 DEF VitePlan, ViteBuild, Single, PackageAt
<1>3. CASE NodePlan(plan, r)
  BY <1>3 DEF NodePlan, NodeBuild, Single, PackageAt
<1>4. CASE PairPlan(plan, r)
  BY <1>4 DEF PairPlan, ViteBuild, NodeBuild, Pair, Services, PackageAt
<1> QED BY <1>1, <1>2, <1>3, <1>4 DEF Planned

LEMMA PersistedPlanned ==
    ASSUME NEW r, NEW meta, meta.strategy \in StrategyNames,
           NEW plan \in deploymentStrategyForRecord(meta, r)
    PROVE  Planned(plan, r)
<1>1. CASE meta.strategy = "dockerfile"
  <2>1. deploymentStrategyForRecord(meta, r) =
            IF r.dockerfile = "ok" THEN {Single(DockerBuild(meta.parts["root"].port))} ELSE {}
    BY <1>1 DEF deploymentStrategyForRecord
  <2> QED BY <2>1 DEF Planned, DockerPlan
<1>2. CASE meta.strategy = "vite-static"
  <2>1. PICK b \in VitePersisted(meta.parts["root"], r.root) : plan = Single(b)
    BY <1>2 DEF deploymentStrategyForRecord
  <2> QED BY <2>1, VitePersistedShape DEF Planned, VitePlan
<1>3. CASE meta.strategy = "node-express"
  <2>1. PICK b \in NodePersisted(meta.parts["root"], r.root) : plan = Single(b)
    BY <1>3 DEF deploymentStrategyForRecord
  <2> QED BY <2>1, NodePersistedShape DEF Planned, NodePlan
<1>4. CASE meta.strategy = "fullstack-vite-node"
  <2>1. plan \in persistedFullstackBuildPlan(meta, r)
    BY <1>4 DEF deploymentStrategyForRecord
  <2>2. /\ r.dockerfile = "absent"
        /\ \A d \in Services : r.dirs[d] = "ok"
        /\ \E f \in VitePersisted(meta.parts["frontend"], r.pkg["frontend"]) :
             \E b \in NodePersisted(meta.parts["backend"], r.pkg["backend"]) :
               plan = Pair(f, b)
    BY <2>1 DEF persistedFullstackBuildPlan
  <2> QED BY <2>2, VitePersistedShape, NodePersistedShape DEF Planned, PairPlan
<1> QED BY <1>1, <1>2, <1>3, <1>4 DEF StrategyNames

\* A detector's own plan has its shape, where the detector fits.
LEMMA ViteDetected ==
    ASSUME NEW k, ViteFits(k)
    PROVE  ViteBuild(viteStaticBuildPlan(k, npmInstallMode(k)), k)
BY DEF ViteFits, ViteShaped, ViteBuild, viteStaticBuildPlan, npmInstallMode

LEMMA NodeDetected ==
    ASSUME NEW k, NEW port, NodeFits(k)
    PROVE  NodeBuild(nodeExpressBuildPlan(k, npmInstallMode(k), port), k)
BY DEF NodeFits, NodeBuild, nodeExpressBuildPlan, npmInstallMode

\* Detection takes the first detector that does not pass, and it fits.
LEMMA FirstHit ==
    ASSUME NEW H \in SUBSET (1..4), H # {}
    PROVE  /\ Min(H) \in H
           /\ Min(H) # 1 => 1 \notin H
<1>1. \A i \in H : i \in 1..4
  OBVIOUS
<1>2. \E i \in H : \A j \in H : i =< j
  <2>1. CASE 1 \in H
    BY <1>1, <2>1
  <2>2. CASE 1 \notin H /\ 2 \in H
    BY <1>1, <2>2
  <2>3. CASE 1 \notin H /\ 2 \notin H /\ 3 \in H
    BY <1>1, <2>3
  <2>4. CASE 1 \notin H /\ 2 \notin H /\ 3 \notin H
    <3>1. \A j \in H : j = 4
      BY <1>1, <2>4
    <3>2. PICK i \in H : TRUE
      OBVIOUS
    <3> QED BY <3>1, <3>2
  <2> QED BY <2>1, <2>2, <2>3, <2>4
<1>3. Min(H) \in H /\ \A j \in H : Min(H) =< j
  BY <1>2 DEF Min
<1>4. ASSUME NEW m \in H, \A j \in H : m =< j PROVE m # 1 => 1 \notin H
  BY <1>1, <1>4
<1> QED BY <1>3, <1>4

LEMMA DetectedPlanned ==
    ASSUME NEW r \in Repository, NEW port,
           NEW plan \in detectDeploymentStrategy(r, port)
    PROVE  Planned(plan, r)
<1> DEFINE H == {i \in 1..4 : Fits(r)[i] \/ Fails(r)[i]}
           i == Min(H)
<1>1. H # {} /\ ~Fails(r)[i] /\ plan = PlanOf(i, r, port)
  BY DEF detectDeploymentStrategy
<1>2. i \in H /\ (i # 1 => 1 \notin H)
  BY <1>1, FirstHit
<1>3. i \in 1..4 /\ Fits(r)[i]
  BY <1>1, <1>2
<1>4. i # 1 => r.dockerfile = "absent"
  <2>1. Fits(r)[1] = (r.dockerfile = "ok") /\ Fails(r)[1] = (r.dockerfile = "bad")
    BY DEF Fits, Fails
  <2>2. r.dockerfile \in {"absent", "ok", "bad"}
    BY DEF Repository, File
  <2>3. 1 \notin H => ~Fits(r)[1] /\ ~Fails(r)[1]
    OBVIOUS
  <2> QED BY <1>2, <2>1, <2>2, <2>3
<1> HIDE DEF i
<1>5. CASE i = 1
  <2>1. r.dockerfile = "ok"
    BY <1>3, <1>5 DEF Fits
  <2>2. plan = Single(DockerBuild(port))
    BY <1>1, <1>5 DEF PlanOf
  <2> QED BY <2>1, <2>2 DEF Planned, DockerPlan
<1>6. CASE i = 2
  <2>1. PairFits(r)
    BY <1>3, <1>6 DEF Fits
  <2>2. /\ \A d \in Services : r.dirs[d] = "ok"
        /\ ViteFits(r.pkg["frontend"]) /\ NodeFits(r.pkg["backend"])
    BY <2>1 DEF PairFits, Services
  <2>3. plan = Pair(viteStaticBuildPlan(r.pkg["frontend"], npmInstallMode(r.pkg["frontend"])),
                    nodeExpressBuildPlan(r.pkg["backend"], npmInstallMode(r.pkg["backend"]),
                                         requestedNodePort(port)))
    BY <1>1, <1>6 DEF PlanOf
  <2> QED BY <1>4, <1>6, <2>2, <2>3, ViteDetected, NodeDetected DEF Planned, PairPlan
<1>7. CASE i = 3
  <2>1. ViteFits(r.root)
    BY <1>3, <1>7 DEF Fits
  <2>2. plan = Single(viteStaticBuildPlan(r.root, npmInstallMode(r.root)))
    BY <1>1, <1>7 DEF PlanOf
  <2> QED BY <2>1, <2>2, ViteDetected DEF Planned, VitePlan
<1>8. CASE i = 4
  <2>1. NodeFits(r.root)
    BY <1>3, <1>8 DEF Fits
  <2>2. plan = Single(nodeExpressBuildPlan(r.root, npmInstallMode(r.root),
                                           requestedNodePort(port)))
    BY <1>1, <1>8 DEF PlanOf
  <2> QED BY <2>1, <2>2, NodeDetected DEF Planned, NodePlan
<1> QED BY <1>3, <1>5, <1>6, <1>7, <1>8

-----------------------------------------------------------------------------
(***************************************************************************)
(* The invariant: every version, live or retained, has a plan of one of    *)
(* the shapes for its own checkout.                                        *)
(***************************************************************************)
VersionPlanned(v) == v.meta = Metadata(v.plan) /\ Planned(v.plan, v.checkout)

AllPlanned ==
    /\ DOMAIN store = Names /\ DOMAIN history = Names
    /\ \A n \in Names : /\ store[n] # None => VersionPlanned(store[n])
                        /\ history[n] # None => VersionPlanned(history[n])

LEMMA NewVersion ==
    ASSUME NEW r, NEW plan, Planned(plan, r)
    PROVE  VersionPlanned(Version(r, plan))
BY DEF Version, VersionPlanned

LEMMA AllPlannedInductive ==
    ASSUME AllPlanned, [Next]_vars
    PROVE  AllPlanned'
<1>1. ASSUME NEW n \in Names, Deploy(n) PROVE AllPlanned'
  <2>1. PICK r \in Contents[n], port \in AskedPorts :
            \E plan \in detectDeploymentStrategy(r, port) :
                store' = [store EXCEPT ![n] = Version(r, plan)]
    BY <1>1 DEF Deploy
  <2>2. PICK plan \in detectDeploymentStrategy(r, port) :
            store' = [store EXCEPT ![n] = Version(r, plan)]
    BY <2>1
  <2>3. r \in Repository
    BY ContentsAssumption
  <2>4. VersionPlanned(Version(r, plan))
    BY <2>3, DetectedPlanned, NewVersion
  <2>5. history' = history
    BY <1>1 DEF Deploy
  <2> QED BY <2>2, <2>4, <2>5 DEF AllPlanned
<1>2. ASSUME NEW n \in Names, Redeploy(n) PROVE AllPlanned'
  <2>1. store[n] # None /\ history' = [history EXCEPT ![n] = store[n]]
    BY <1>2 DEF Redeploy
  <2>2. PICK r \in Contents[n] : \E plan \in deploymentStrategyForRecord(store[n].meta, r) :
                store' = [store EXCEPT ![n] = Version(r, plan)]
    BY <1>2 DEF Redeploy
  <2>3. PICK plan \in deploymentStrategyForRecord(store[n].meta, r) :
            store' = [store EXCEPT ![n] = Version(r, plan)]
    BY <2>2
  <2>4. VersionPlanned(store[n])
    BY <2>1 DEF AllPlanned
  <2>5. store[n].meta.strategy \in StrategyNames
    BY <2>4, PlannedStrategy DEF VersionPlanned
  <2>6. VersionPlanned(Version(r, plan))
    BY <2>5, PersistedPlanned, NewVersion
  <2> QED BY <2>1, <2>3, <2>4, <2>6 DEF AllPlanned
<1>3. ASSUME NEW n \in Names, Rollback(n) PROVE AllPlanned'
  BY <1>3 DEF Rollback, AllPlanned
<1>4. ASSUME NEW n \in Names, Delete(n) PROVE AllPlanned'
  BY <1>4 DEF Delete, AllPlanned
<1>5. CASE UNCHANGED vars
  BY <1>5 DEF vars, AllPlanned
<1> QED BY <1>1, <1>2, <1>3, <1>4, <1>5 DEF Next

LEMMA AlwaysPlanned == Spec => []AllPlanned
<1>1. Init => AllPlanned
  BY DEF Init, AllPlanned
<1>2. AllPlanned /\ [Next]_vars => AllPlanned'
  BY AllPlannedInductive
<1> QED BY <1>1, <1>2, PTL DEF Spec

\* For every repository and every history of deployments, redeployments and
\* rollbacks, a redeployment of the checkout that was built last is accepted and
\* makes the plan that runs: the persisted strategy and the detectors agree
\* (architecture.md:428, deployment_strategy.go:493).
THEOREM RedeployReproduces == Spec => []Reproducible
<1>1. AllPlanned => Reproducible
  BY PlanRebuilt DEF AllPlanned, VersionPlanned, Reproducible, Deployed
<1> QED BY <1>1, AlwaysPlanned, PTL

\* No sequence of releases runs npm ci for a service whose checkout has no valid
\* lock file, however the repository changes (deployment_strategy.go:552).
THEOREM LockFilePresent == Spec => []LockedInstalls
<1>1. AllPlanned => LockedInstalls
  BY PlannedLocked DEF AllPlanned, VersionPlanned, LockedInstalls, Deployed
<1> QED BY <1>1, AlwaysPlanned, PTL


-----------------------------------------------------------------------------
(***************************************************************************)
(* The types: the parts of a plan are those of its strategy, and a port    *)
(* stays one that docker run accepts, however often it is read back from   *)
(* the record.                                                             *)
(***************************************************************************)
PlanSized(plan) ==
    /\ DOMAIN plan.parts = IF plan.strategy = "fullstack-vite-node" THEN Services ELSE {"root"}
    /\ \A d \in DOMAIN plan.parts : plan.parts[d].port \in ContainerPort

LEMMA SingleSized ==
    ASSUME NEW b, b.port \in ContainerPort, b.strategy # "fullstack-vite-node"
    PROVE  PlanSized(Single(b))
<1>1. Single(b).strategy = b.strategy /\ Single(b).parts = [d \in {"root"} |-> b]
  BY DEF Single
<1> QED BY <1>1 DEF PlanSized

LEMMA PairSized ==
    ASSUME NEW f, NEW b, f.port \in ContainerPort, b.port \in ContainerPort
    PROVE  PlanSized(Pair(f, b))
<1>1. /\ Pair(f, b).strategy = "fullstack-vite-node"
      /\ Pair(f, b).parts = [d \in Services |-> IF d = "frontend" THEN f ELSE b]
  BY DEF Pair
<1> QED BY <1>1 DEF PlanSized

\* The ports that stand for one that is missing.
LEMMA StaticPort == defaultContainerPort \in ContainerPort
BY DEF defaultContainerPort, ContainerPort

LEMMA NodePort == defaultNodeContainerPort \in ContainerPort
BY DEF defaultNodeContainerPort, ContainerPort

LEMMA PortKept ==
    ASSUME NEW port \in ContainerPort
    PROVE  normalizedContainerPort(port) \in ContainerPort
BY StaticPort DEF normalizedContainerPort

LEMMA DockerSized ==
    ASSUME NEW port, normalizedContainerPort(port) \in ContainerPort
    PROVE  PlanSized(Single(DockerBuild(port)))
<1>1. /\ DockerBuild(port).port = normalizedContainerPort(port)
      /\ DockerBuild(port).strategy = "dockerfile"
  BY DEF DockerBuild
<1> QED BY <1>1, SingleSized

LEMMA StaticSized ==
    ASSUME NEW k, NEW mode
    PROVE  /\ viteStaticBuildPlan(k, mode).port \in ContainerPort
           /\ PlanSized(Single(viteStaticBuildPlan(k, mode)))
<1>1. /\ viteStaticBuildPlan(k, mode).port = defaultContainerPort
      /\ viteStaticBuildPlan(k, mode).strategy = "vite-static"
  BY DEF viteStaticBuildPlan
<1> QED BY <1>1, StaticPort, SingleSized

LEMMA NodeSized ==
    ASSUME NEW k, NEW mode, NEW port \in ContainerPort
    PROVE  /\ nodeExpressBuildPlan(k, mode, port).port \in ContainerPort
           /\ PlanSized(Single(nodeExpressBuildPlan(k, mode, port)))
<1>1. /\ nodeExpressBuildPlan(k, mode, port).port = port
      /\ nodeExpressBuildPlan(k, mode, port).strategy = "node-express"
  BY DEF nodeExpressBuildPlan
<1> QED BY <1>1, SingleSized

LEMMA DetectedSized ==
    ASSUME NEW r, NEW port, NEW plan \in detectDeploymentStrategy(r, port),
           normalizedContainerPort(port) \in ContainerPort, requestedNodePort(port) \in ContainerPort
    PROVE  PlanSized(plan)
<1> DEFINE H == {i \in 1..4 : Fits(r)[i] \/ Fails(r)[i]}
<1>1. H # {} /\ plan = PlanOf(Min(H), r, port)
  BY DEF detectDeploymentStrategy
<1>2. PICK i \in 1..4 : plan = PlanOf(i, r, port)
  <2>1. Min(H) \in H
    BY <1>1, FirstHit
  <2>2. Min(H) \in 1..4
    BY <2>1
  <2> QED BY <1>1, <2>2
<1> HIDE DEF H
<1>3. CASE i = 1
  BY <1>2, <1>3, DockerSized, SMT DEF PlanOf
<1>4. CASE i = 2
  BY <1>2, <1>4, StaticSized, NodeSized, PairSized, SMT DEF PlanOf
<1>5. CASE i = 3
  BY <1>2, <1>5, StaticSized, SMT DEF PlanOf
<1>6. CASE i = 4
  BY <1>2, <1>6, NodeSized, SMT DEF PlanOf
<1> QED BY <1>2, <1>3, <1>4, <1>5, <1>6

\* What the persisted strategy accepts keeps the recorded port.
LEMMA PersistedSized ==
    ASSUME NEW r, NEW meta, NEW plan \in deploymentStrategyForRecord(meta, r),
           meta.strategy \in StrategyNames,
           meta.strategy = "fullstack-vite-node" => meta.parts["backend"].port \in ContainerPort,
           meta.strategy # "fullstack-vite-node" => meta.parts["root"].port \in ContainerPort
    PROVE  PlanSized(plan)
<1>1. CASE meta.strategy = "dockerfile"
  <2>1. plan = Single(DockerBuild(meta.parts["root"].port))
    BY <1>1, SMT DEF deploymentStrategyForRecord
  <2> QED BY <1>1, <2>1, PortKept, DockerSized
<1>2. CASE meta.strategy = "vite-static"
  <2>1. plan \in {Single(b) : b \in VitePersisted(meta.parts["root"], r.root)}
    BY <1>2 DEF deploymentStrategyForRecord
  <2>2. PICK b \in VitePersisted(meta.parts["root"], r.root) : plan = Single(b)
    BY <2>1
  <2>3. b = viteStaticBuildPlan(r.root, meta.parts["root"].mode)
    BY <2>2 DEF VitePersisted
  <2> QED BY <2>2, <2>3, StaticSized
<1>3. CASE meta.strategy = "node-express"
  <2>1. plan \in {Single(b) : b \in NodePersisted(meta.parts["root"], r.root)}
    BY <1>3 DEF deploymentStrategyForRecord
  <2>2. PICK b \in NodePersisted(meta.parts["root"], r.root) : plan = Single(b)
    BY <2>1
  <2>3. b = nodeExpressBuildPlan(r.root, meta.parts["root"].mode, meta.parts["root"].port)
    BY <2>2 DEF NodePersisted
  <2> QED BY <1>3, <2>2, <2>3, NodeSized
<1>4. CASE meta.strategy = "fullstack-vite-node"
  <2>1. plan \in persistedFullstackBuildPlan(meta, r)
    BY <1>4 DEF deploymentStrategyForRecord
  <2>2. PICK f \in VitePersisted(meta.parts["frontend"], r.pkg["frontend"]),
             b \in NodePersisted(meta.parts["backend"], r.pkg["backend"]) : plan = Pair(f, b)
    BY <2>1 DEF persistedFullstackBuildPlan
  <2>3. f = viteStaticBuildPlan(r.pkg["frontend"], meta.parts["frontend"].mode)
    BY <2>2 DEF VitePersisted
  <2>4. b = nodeExpressBuildPlan(r.pkg["backend"], meta.parts["backend"].mode,
                                 meta.parts["backend"].port)
    BY <2>2 DEF NodePersisted
  <2> QED BY <1>4, <2>2, <2>3, <2>4, StaticSized, NodeSized, PairSized
<1> QED BY <1>1, <1>2, <1>3, <1>4 DEF StrategyNames

LEMMA MetadataPorts ==
    ASSUME NEW plan, PlanSized(plan)
    PROVE  LET meta == Metadata(plan) IN
           /\ meta.strategy = plan.strategy
           /\ meta.strategy = "fullstack-vite-node" => meta.parts["backend"].port \in ContainerPort
           /\ meta.strategy # "fullstack-vite-node" => meta.parts["root"].port \in ContainerPort
<1>1. /\ Metadata(plan).strategy = plan.strategy
      /\ \A d \in DOMAIN plan.parts : Metadata(plan).parts[d].port = plan.parts[d].port
  BY DEF Metadata
<1>2. CASE plan.strategy = "fullstack-vite-node"
  <2>1. "backend" \in DOMAIN plan.parts
    BY <1>2 DEF PlanSized, Services
  <2>2. Metadata(plan).parts["backend"].port \in ContainerPort
    BY <1>1, <2>1 DEF PlanSized
  <2> QED BY <1>1, <1>2, <2>2
<1>3. CASE plan.strategy # "fullstack-vite-node"
  <2>1. "root" \in DOMAIN plan.parts
    BY <1>3 DEF PlanSized
  <2>2. Metadata(plan).parts["root"].port \in ContainerPort
    BY <1>1, <2>1 DEF PlanSized
  <2> QED BY <1>1, <1>3, <2>2
<1> QED BY <1>2, <1>3

LEMMA SizedVersion ==
    ASSUME NEW n, NEW v
    PROVE  VersionOK(n, v) <=> /\ v.checkout \in Contents[n]
                               /\ v.meta = Metadata(v.plan)
                               /\ PlanSized(v.plan)
BY DEF VersionOK, PlanSized

LEMMA NewVersionOK ==
    ASSUME NEW n, NEW r \in Contents[n], NEW plan, PlanSized(plan)
    PROVE  VersionOK(n, Version(r, plan))
<1>1. /\ Version(r, plan).meta = Metadata(plan)
      /\ Version(r, plan).checkout = r /\ Version(r, plan).plan = plan
  BY DEF Version
<1> QED BY <1>1, SizedVersion


\* None stands for the absence of a version.
NoneIsNoVersion == \A r, plan : Version(r, plan) # None

\* A port that was asked for, or none, ends as a port.
LEMMA PortsAsked ==
    ASSUME NEW port \in AskedPorts
    PROVE  normalizedContainerPort(port) \in ContainerPort /\ requestedNodePort(port) \in ContainerPort
<1>1. port = 0 \/ port \in ContainerPort
  BY BoundsAssumption
<1>2. normalizedContainerPort(port) \in ContainerPort
  BY <1>1, StaticPort DEF normalizedContainerPort
<1>3. requestedNodePort(port) \in ContainerPort
  BY <1>1, NodePort DEF requestedNodePort
<1> QED BY <1>2, <1>3

LEMMA TypesInductive ==
    ASSUME NoneIsNoVersion, AllPlanned, TypeOK, [Next]_vars
    PROVE  TypeOK'
<1>1. ASSUME NEW n \in Names, Deploy(n) PROVE TypeOK'
  <2>1. PICK r \in Contents[n], port \in AskedPorts :
            \E plan \in detectDeploymentStrategy(r, port) :
                store' = [store EXCEPT ![n] = Version(r, plan)]
    BY <1>1 DEF Deploy
  <2>2. PICK plan \in detectDeploymentStrategy(r, port) :
            store' = [store EXCEPT ![n] = Version(r, plan)]
    BY <2>1
  <2>3. normalizedContainerPort(port) \in ContainerPort /\ requestedNodePort(port) \in ContainerPort
    BY PortsAsked
  <2>4. VersionOK(n, Version(r, plan))
    BY <2>3, DetectedSized, NewVersionOK
  <2>5. history' = history /\ history[n] = None
    BY <1>1 DEF Deploy, TypeOK
  <2> QED BY <2>2, <2>4, <2>5 DEF TypeOK, AllPlanned
<1>2. ASSUME NEW n \in Names, Redeploy(n) PROVE TypeOK'
  <2>1. store[n] # None /\ history' = [history EXCEPT ![n] = store[n]]
    BY <1>2 DEF Redeploy
  <2>2. PICK r \in Contents[n] : \E plan \in deploymentStrategyForRecord(store[n].meta, r) :
                store' = [store EXCEPT ![n] = Version(r, plan)]
    BY <1>2 DEF Redeploy
  <2>3. PICK plan \in deploymentStrategyForRecord(store[n].meta, r) :
            store' = [store EXCEPT ![n] = Version(r, plan)]
    BY <2>2
  <2>4. VersionPlanned(store[n]) /\ VersionOK(n, store[n])
    BY <2>1 DEF AllPlanned, TypeOK
  <2>5. PlanSized(store[n].plan) /\ store[n].meta = Metadata(store[n].plan)
    BY <2>4, SizedVersion
  <2>6. store[n].meta.strategy \in StrategyNames
    BY <2>4, PlannedStrategy DEF VersionPlanned
  <2>7. PlanSized(plan)
    BY <2>3, <2>5, <2>6, MetadataPorts, PersistedSized
  <2>8. VersionOK(n, Version(r, plan))
    BY <2>7, NewVersionOK
  <2>9. ASSUME NEW m \in Names
        PROVE  /\ store'[m] # None => VersionOK(m, store'[m])
               /\ history'[m] # None => store'[m] # None /\ VersionOK(m, history'[m])
    <3>1. CASE m # n
      BY <2>1, <2>3, <3>1 DEF TypeOK, AllPlanned
    <3>2. CASE m = n
      <4>1. store'[n] = Version(r, plan) /\ history'[n] = store[n]
        BY <2>1, <2>3 DEF AllPlanned
      <4>2. store'[n] # None
        BY <4>1 DEF NoneIsNoVersion
      <4> QED BY <2>4, <2>8, <3>2, <4>1, <4>2
    <3> QED BY <3>1, <3>2
  <2> QED BY <2>9 DEF TypeOK
<1>3. ASSUME NEW n \in Names, Rollback(n) PROVE TypeOK'
  BY <1>3 DEF Rollback, AllPlanned, TypeOK
<1>4. ASSUME NEW n \in Names, Delete(n) PROVE TypeOK'
  BY <1>4 DEF Delete, AllPlanned, TypeOK
<1>5. CASE UNCHANGED vars
  BY <1>5 DEF vars, TypeOK
<1> QED BY <1>1, <1>2, <1>3, <1>4, <1>5 DEF Next

\* Through any number of redeployments and rollbacks an application has the
\* checkout of its own repository, the parts of its strategy and ports between 1
\* and 65535, and a version to go back to only while it is deployed.
THEOREM WellTyped ==
    ASSUME NoneIsNoVersion
    PROVE  Spec => []TypeOK
<1>1. Init => TypeOK
  BY DEF Init, TypeOK
<1>2. AllPlanned /\ TypeOK /\ [Next]_vars => TypeOK'
  BY TypesInductive
<1> QED BY <1>1, <1>2, AlwaysPlanned, PTL DEF Spec
-----------------------------------------------------------------------------
(***************************************************************************)
(* Induction over the natural numbers, from the well-foundedness of <, and *)
(* the least and the greatest element of a set of them.                    *)
(***************************************************************************)
LEMMA Least ==
    ASSUME NEW T \in SUBSET Nat, T # {}
    PROVE  \E x \in T : \A y \in T : x <= y
<1>1. PICK R : R = OpToRel(<, Nat)
  OBVIOUS
<1>2. \A x, y \in Nat : <<x, y>> \in R <=> x < y
  BY <1>1 DEF OpToRel
<1>3. IsWellFoundedOn(R, Nat)
  BY <1>1, NatLessThanWellFounded
<1>4. \E x \in T : \A y \in T : ~(<<y, x>> \in R)
  BY <1>3, WFMin
<1>5. \A x, y \in T : <<y, x>> \notin R => x <= y
  BY <1>2
<1> QED BY <1>4, <1>5

LEMMA Inductive ==
    ASSUME NEW S, 0 \in S, \A n \in Nat : n \in S => n + 1 \in S
    PROVE  Nat \subseteq S
<1> SUFFICES ASSUME ~(Nat \subseteq S) PROVE FALSE
  OBVIOUS
<1>1. PICK x \in Nat \ S : \A y \in Nat \ S : x <= y
  BY Least
<1>2. x - 1 \in Nat \ S
  BY <1>1
<1> QED BY <1>1, <1>2

LEMMA Extremes ==
    ASSUME NEW n \in Nat, NEW T \in SUBSET (1..n), T # {}
    PROVE  /\ Min(T) \in T /\ \A y \in T : Min(T) <= y
           /\ Max(T) \in T /\ \A y \in T : y <= Max(T)
<1>1. \E x \in T : \A y \in T : x <= y
  BY Least
<1>2. \E x \in T : \A y \in T : y <= x
  <2> DEFINE B == {b \in Nat : \A y \in T : y <= b}
  <2>1. PICK b \in B : \A c \in B : b <= c
    <3>1. n \in B
      OBVIOUS
    <3> QED BY <3>1, Least
  <2>2. b \in T
    <3> SUFFICES ASSUME b \notin T PROVE FALSE
      OBVIOUS
    <3>1. \A y \in T : y <= b - 1 /\ b - 1 \in Nat
      BY <2>1
    <3>2. b - 1 \in B
      BY <3>1
    <3> QED BY <2>1, <3>2
  <2> QED BY <2>1, <2>2
<1> QED BY <1>1, <1>2 DEF Min, Max

-----------------------------------------------------------------------------
(***************************************************************************)
(* The fold that makes a label goes through the name from left to right.   *)
(***************************************************************************)
\* What a fold has for each set of positions among those of D.
Folded(s, g, D) ==
    g = [u \in SUBSET D |->
            IF u = {} THEN <<>> ELSE Extend(g[u \ {Max(u)}], s[Max(u)])]

LEMMA RangeGrows ==
    ASSUME NEW n \in Nat, NEW k \in Nat, k <= n
    PROVE  1..k \subseteq 1..n
OBVIOUS

\* The label before it is trimmed and cut.
Spelled(s) == FoldLeft(Extend, <<>>, s)

LEMMA FoldExists ==
    ASSUME NEW s, NEW n \in Nat
    PROVE  \E g : Folded(s, g, 1..n)
<1> DEFINE S == {k \in Nat : \E g : Folded(s, g, 1..k)}
<1>1. 0 \in S
  <2> DEFINE g == [u \in SUBSET (1..0) |-> <<>>]
  <2>1. \A u \in SUBSET (1..0) : u = {}
    OBVIOUS
  <2>2. Folded(s, g, 1..0)
    BY <2>1 DEF Folded
  <2> QED BY <2>2
<1>2. ASSUME NEW k \in Nat, k \in S PROVE k + 1 \in S
  <2>1. PICK g : Folded(s, g, 1..k)
    BY <1>2
  <2> DEFINE h == [u \in SUBSET (1..(k + 1)) |->
                      IF u = {} THEN <<>> ELSE Extend(g[u \ {Max(u)}], s[Max(u)])]
  <2>2. \A u \in SUBSET (1..k) : h[u] = g[u]
    <3>1. \A u \in SUBSET (1..k) : u \in SUBSET (1..(k + 1))
      BY RangeGrows
    <3> QED BY <2>1, <3>1 DEF Folded
  <2>3. ASSUME NEW u \in SUBSET (1..(k + 1)), u # {} PROVE u \ {Max(u)} \in SUBSET (1..k)
    <3>1. PICK m : m = Max(u)
      OBVIOUS
    <3>n. PICK j \in Nat : j = k + 1
      OBVIOUS
    <3>2. m \in u /\ \A y \in u : y <= m
      BY <2>3, <3>n, <3>1, Extremes
    <3>3. \A y \in u \ {m} : y \in 1..k
      <4>1. \A y \in u : y \in Nat /\ 1 <= y /\ y <= k + 1
        BY <2>3
      <4>2. \A y \in u \ {m} : y < m /\ m <= k + 1
        BY <3>2, <4>1
      <4>3. m \in Nat
        BY <3>2, <4>1
      <4> QED BY <4>1, <4>2, <4>3
    <3> QED BY <3>1, <3>3
  <2>4. h = [u \in SUBSET (1..(k + 1)) |->
                 IF u = {} THEN <<>> ELSE Extend(h[u \ {Max(u)}], s[Max(u)])]
    BY <2>2, <2>3
  <2>5. Folded(s, h, 1..(k + 1))
    BY <2>4 DEF Folded
  <2> QED BY <2>5
<1> QED BY <1>1, <1>2, Inductive

LEMMA FoldUnfolds ==
    ASSUME NEW s, NEW n \in Nat, DOMAIN s = 1..n
    PROVE  \E g : Spelled(s) = g[DOMAIN s] /\ Folded(s, g, 1..n)
<1>1. PICK L : L = Spelled(s)
  OBVIOUS
<1>2. PICK g : /\ L = g[DOMAIN s]
               /\ g = CHOOSE h : h = [u \in SUBSET (DOMAIN s) |->
                        IF u = {} THEN <<>> ELSE Extend(h[u \ {Max(u)}], s[Max(u)])]
  BY <1>1 DEF Spelled, FoldLeft, MapThenFoldSet
<1>3. PICK h : Folded(s, h, DOMAIN s)
  BY FoldExists
<1>4. h = [u \in SUBSET (DOMAIN s) |->
              IF u = {} THEN <<>> ELSE Extend(h[u \ {Max(u)}], s[Max(u)])]
  BY <1>3 DEF Folded
<1>5. g = [u \in SUBSET (DOMAIN s) |->
              IF u = {} THEN <<>> ELSE Extend(g[u \ {Max(u)}], s[Max(u)])]
  BY <1>2, <1>4
<1>6. Folded(s, g, DOMAIN s)
  BY <1>5 DEF Folded
<1> QED BY <1>1, <1>2, <1>6

LEMMA FoldSteps ==
    ASSUME NEW s, NEW n \in Nat, DOMAIN s = 1..n
    PROVE  \E L : /\ L[0] = <<>> /\ L[n] = Spelled(s)
                  /\ \A k \in 0..(n - 1) : L[k + 1] = Extend(L[k], s[k + 1])
<1>1. PICK g : Spelled(s) = g[DOMAIN s] /\ Folded(s, g, 1..n)
  BY FoldUnfolds
<1>2. Folded(s, g, 1..n)
  BY <1>1
<1> DEFINE L == [k \in 0..n |-> g[1..k]]
<1>3. g[{}] = <<>>
  BY <1>2 DEF Folded
<1>4. L[0] = <<>> /\ L[n] = Spelled(s)
  <2>1. 1..0 = {}
    OBVIOUS
  <2> QED BY <1>1, <1>3, <2>1
<1>5. ASSUME NEW k \in 0..(n - 1) PROVE L[k + 1] = Extend(L[k], s[k + 1])
  <2>1. 1..(k + 1) \in SUBSET (1..n) /\ 1..(k + 1) # {}
    <3>1. k + 1 \in Nat /\ k + 1 <= n
      OBVIOUS
    <3>2. 1..(k + 1) \subseteq 1..n
      BY <3>1, RangeGrows
    <3>3. 1 \in 1..(k + 1)
      BY <3>1
    <3> QED BY <3>2, <3>3
  <2>2. Max(1..(k + 1)) = k + 1
    <3>1. PICK T : T = 1..(k + 1)
      OBVIOUS
    <3>2. T \in SUBSET (1..n) /\ T # {} /\ k + 1 \in T
      BY <2>1, <3>1
    <3>3. Max(T) \in T /\ k + 1 <= Max(T)
      BY <3>2, Extremes
    <3> QED BY <3>1, <3>3
  <2>3. (1..(k + 1)) \ {k + 1} = 1..k
    OBVIOUS
  <2>4. g[1..(k + 1)] = Extend(g[1..k], s[k + 1])
    BY <1>2, <2>1, <2>2, <2>3 DEF Folded
  <2> QED BY <2>4
<1> QED BY <1>4, <1>5

-----------------------------------------------------------------------------
(***************************************************************************)
(* What the characters of a label are; C is any set of characters that has *)
(* those of the names and the dash.                                        *)
(***************************************************************************)
Labels(C) == {l \in Seq(C) : \A i \in 1..Len(l) : ValidChar(l[i])}
Solid(l)  == \E i \in 1..Len(l) : l[i] # "-"

HasDash(C) == "-" \in C
Plain(c)   == c \notin {"-", "_"}
Lettered(s, k) == \E i \in 1..k : Plain(s[i])

LEMMA AppendLabel ==
    ASSUME NEW C, NEW l \in Labels(C), NEW x \in C, ValidChar(x)
    PROVE  /\ Append(l, x) \in Labels(C)
           /\ Solid(l) \/ x # "-" => Solid(Append(l, x))
<1>1. l \in Seq(C) /\ \A i \in 1..Len(l) : ValidChar(l[i])
  BY DEF Labels
<1>2. PICK t : t = Append(l, x)
  OBVIOUS
<1>3. Len(l) \in Nat
  BY <1>1
<1>4. t \in Seq(C)
  BY <1>1, <1>2
<1>5. Len(t) = Len(l) + 1
  BY <1>1, <1>2
<1>6. \A i \in 1..Len(l) : t[i] = l[i]
  BY <1>1, <1>2
<1>7. t[Len(l) + 1] = x
  BY <1>1, <1>2
<1>8. \A i \in 1..Len(t) : ValidChar(t[i])
  BY <1>1, <1>3, <1>5, <1>6, <1>7
<1>9. Solid(l) \/ x # "-" => Solid(t)
  BY <1>3, <1>5, <1>6, <1>7 DEF Solid
<1> QED BY <1>2, <1>4, <1>8, <1>9 DEF Labels

LEMMA ExtendLabel ==
    ASSUME NEW C, HasDash(C), NEW l \in Labels(C), NEW c \in C
    PROVE  /\ Extend(l, c) \in Labels(C)
           /\ Solid(l) \/ Plain(c) => Solid(Extend(l, c))
<1>1. CASE ValidChar(c)
  BY <1>1, AppendLabel DEF Extend, Plain
<1>2. CASE ~ValidChar(c)
  <2>1. c = "_"
    BY <1>2 DEF ValidChar
  <2>2. Extend(l, c) = l \/ Extend(l, c) = Append(l, "-")
    BY <1>2 DEF Extend
  <2>3. ValidChar("-")
    BY DEF ValidChar
  <2>4. Append(l, "-") \in Labels(C) /\ (Solid(l) => Solid(Append(l, "-")))
    BY <2>3, AppendLabel DEF HasDash
  <2>5. ~Plain(c)
    BY <2>1 DEF Plain
  <2> QED BY <2>2, <2>4, <2>5
<1> QED BY <1>1, <1>2

\* Every character of the spelling may be in a hostname, and one of them is not a
\* dash if the name has such a character.
LEMMA SpelledLabel ==
    ASSUME NEW C, HasDash(C), NEW s \in Seq(C)
    PROVE  /\ Spelled(s) \in Labels(C)
           /\ Lettered(s, Len(s)) => Solid(Spelled(s))
<1>0. PICK n \in Nat : n = Len(s)
  OBVIOUS
<1>1. DOMAIN s = 1..n /\ \A i \in 1..n : s[i] \in C
  BY <1>0
<1>2. PICK L : /\ L[0] = <<>> /\ L[n] = Spelled(s)
               /\ \A k \in 0..(n - 1) : L[k + 1] = Extend(L[k], s[k + 1])
  BY <1>1, FoldSteps
<1> DEFINE P(k) == L[k] \in Labels(C) /\ (Lettered(s, k) => Solid(L[k]))
           S == {k \in Nat : k <= n => P(k)}
<1>3. P(0)
  <2>1. <<>> \in Labels(C)
    BY DEF Labels
  <2>2. ~Lettered(s, 0)
    BY DEF Lettered
  <2> QED BY <1>2, <2>1, <2>2
<1> HIDE DEF P
<1>4. ASSUME NEW k \in Nat, k + 1 <= n, P(k) PROVE P(k + 1)
  <2>1. k \in 0..(n - 1) /\ k + 1 \in 1..n
    BY <1>4
  <2>2. L[k + 1] = Extend(L[k], s[k + 1]) /\ s[k + 1] \in C
    BY <1>1, <1>2, <2>1
  <2>3. Lettered(s, k + 1) => Lettered(s, k) \/ Plain(s[k + 1])
    <3>1. \A i \in 1..(k + 1) : i \in 1..k \/ i = k + 1
      OBVIOUS
    <3> QED BY <3>1 DEF Lettered
  <2>4. PICK l, c : l = L[k] /\ c = s[k + 1] /\ l \in Labels(C) /\ c \in C
    BY <1>4, <2>2 DEF P
  <2>5. /\ Extend(l, c) \in Labels(C)
        /\ Solid(l) \/ Plain(c) => Solid(Extend(l, c))
    BY <2>4, ExtendLabel
  <2>6. L[k + 1] \in Labels(C)
    BY <2>2, <2>4, <2>5
  <2>7. Lettered(s, k + 1) => Solid(L[k + 1])
    BY <1>4, <2>2, <2>3, <2>4, <2>5 DEF P
  <2> QED BY <2>6, <2>7 DEF P
<1>5. 0 \in S /\ \A k \in Nat : k \in S => k + 1 \in S
  <2>1. \A k \in Nat : k + 1 <= n => k <= n
    OBVIOUS
  <2> QED BY <1>3, <1>4, <2>1
<1> HIDE DEF S
<1>6. Nat \subseteq S
  BY <1>5, Inductive
<1>7. P(n)
  BY <1>6 DEF S
<1> QED BY <1>0, <1>2, <1>7 DEF P

\* Trimming leaves a label between its first and its last character that is not a
\* dash.
LEMMA TrimmedLabel ==
    ASSUME NEW C, NEW l \in Labels(C), Solid(l)
    PROVE  /\ Trim(l) \in Labels(C) /\ Trim(l) # <<>> /\ Len(Trim(l)) <= Len(l)
           /\ Trim(l)[1] # "-" /\ Trim(l)[Len(Trim(l))] # "-"
<1> DEFINE K == {i \in 1..Len(l) : l[i] # "-"}
<1>1. l \in Seq(C) /\ Len(l) \in Nat
  BY DEF Labels
<1>2. PICK m, n : m = Min(K) /\ n = Max(K)
  OBVIOUS
<1>3. m \in K /\ n \in K /\ m <= n
  <2>1. K \in SUBSET (1..Len(l)) /\ K # {}
    BY DEF Solid
  <2> QED BY <1>1, <1>2, <2>1, Extremes
<1>4. Trim(l) = SubSeq(l, m, n)
  BY <1>2, <1>3 DEF Trim
<1>5. PICK t : t = SubSeq(l, m, n)
  OBVIOUS
<1>6. t \in Seq(C) /\ Len(t) = n - m + 1 /\ \A i \in 1..(n - m + 1) : t[i] = l[m + i - 1]
  BY <1>1, <1>3, <1>5, SubSeqProperties
<1>7. m \in 1..Len(l) /\ n \in 1..Len(l) /\ l[m] # "-" /\ l[n] # "-"
  BY <1>3
<1>8. t[1] # "-" /\ t[Len(t)] # "-" /\ Len(t) \in 1..Len(l)
  BY <1>1, <1>3, <1>6, <1>7
<1>9. \A i \in 1..Len(t) : ValidChar(t[i])
  <2>1. \A i \in 1..Len(t) : m + i - 1 \in 1..Len(l) /\ t[i] = l[m + i - 1]
    BY <1>1, <1>3, <1>6, <1>7
  <2>2. \A i \in 1..Len(l) : ValidChar(l[i])
    BY DEF Labels
  <2> QED BY <2>1, <2>2
<1>10. t \in Labels(C) /\ t # <<>> /\ Len(t) <= Len(l)
  BY <1>1, <1>6, <1>8, <1>9 DEF Labels
<1> QED BY <1>4, <1>5, <1>8, <1>10

LEMMA Lesser ==
    ASSUME NEW a \in Nat, NEW b \in Nat
    PROVE  Min({a, b}) \in {a, b} /\ Min({a, b}) <= a /\ Min({a, b}) <= b
<1>1. PICK T : T = {a, b}
  OBVIOUS
<1>2. \E x \in T : \A y \in T : x <= y
  BY <1>1, Least
<1>3. Min(T) \in T /\ \A y \in T : Min(T) <= y
  BY <1>2 DEF Min
<1> QED BY <1>1, <1>3

LEMMA PublicLabel ==
    ASSUME NEW C, HasDash(C), NEW s \in Seq(C),
           Lettered(s, Len(s)), NEW h, h = publicHostnameLabel(s)
    PROVE  /\ h \in Labels(C) /\ h # <<>> /\ Len(h) <= MaxLabel
           /\ h[1] # "-" /\ h[Len(h)] # "-"
<1>1. PICK l : l = Trim(Spelled(s))
  OBVIOUS
<1>2. l \in Labels(C) /\ l # <<>> /\ l[1] # "-"
  BY <1>1, SpelledLabel, TrimmedLabel
<1>3. l \in Seq(C)
  BY <1>2 DEF Labels
<1>4. PICK n \in Nat \ {0} : n = Len(l)
  <2>1. l # <<>>
    BY <1>2
  <2>2. Len(l) \in Nat /\ Len(l) # 0
    BY <1>3, <2>1, EmptySeq
  <2> QED BY <2>2
<1>5. PICK k : k = Min({n, MaxLabel})
  OBVIOUS
<1>6. k \in 1..n /\ k <= MaxLabel
  BY <1>5, Lesser, LabelAssumption
<1>7. PICK t : t = SubSeq(l, 1, k)
  OBVIOUS
<1>8. t \in Seq(C) /\ Len(t) = k /\ \A i \in 1..k : t[i] = l[i]
  <2>1. /\ t \in Seq(C) /\ Len(t) = k - 1 + 1
        /\ \A i \in 1..(k - 1 + 1) : t[i] = l[1 + i - 1]
    BY <1>3, <1>4, <1>6, <1>7, SubSeqProperties
  <2> QED BY <1>6, <2>1
<1>9. t \in Labels(C) /\ Solid(t)
  BY <1>2, <1>4, <1>6, <1>8 DEF Labels, Solid
<1>10. h = Trim(t)
  <2>1. publicHostnameLabel(s) = Trim(SubSeq(l, 1, Min({Len(l), MaxLabel})))
    BY <1>1 DEF publicHostnameLabel, Spelled
  <2>2. Min({Len(l), MaxLabel}) = k
    BY <1>4, <1>5
  <2>3. Trim(SubSeq(l, 1, k)) = Trim(t)
    BY <1>7
  <2> QED BY <2>1, <2>2, <2>3
<1>11. /\ Trim(t) \in Labels(C) /\ Trim(t) # <<>> /\ Len(Trim(t)) <= Len(t)
       /\ Trim(t)[1] # "-" /\ Trim(t)[Len(Trim(t))] # "-"
  BY <1>9, TrimmedLabel
<1>12. h \in Seq(C)
  BY <1>10, <1>11 DEF Labels
<1>13. PICK m \in Nat : m = Len(h)
  BY <1>12
<1>14. m <= k
  BY <1>8, <1>10, <1>11, <1>13
<1>15. PICK w \in Nat : w = MaxLabel
  BY LabelAssumption
<1>16. m <= w
  BY <1>6, <1>14, <1>15
<1>17. Len(h) <= MaxLabel
  BY <1>13, <1>15, <1>16
<1> QED BY <1>10, <1>11, <1>17

\* The administrator reaches every deployed application by name: whatever was
\* deployed, redeployed, rolled back and deleted, an application whose name has a
\* letter or a digit has a label Caddy can route by, never that of the public site.
THEOREM HostnamesArePublic ==
    ASSUME NEW Chars, Names \subseteq Seq(Chars)
    PROVE  Spec => []PublicHostnames
<1> DEFINE Free == DOMAIN store = Names /\ \A n \in Deployed : ~isReservedPublicApp(n)
<1>1. Init => Free
  BY DEF Init, Deployed
<1>2. Free /\ [Next]_vars => Free'
  BY DEF Deployed, Next, Deploy, Redeploy, Rollback, Delete, vars
<1>3. Free => PublicHostnames
  <2> SUFFICES ASSUME Free, NEW n \in Deployed, NEW h, h = publicHostnameForApp(n),
                      Lettered(n, Len(n))
               PROVE  /\ h # <<>> /\ h # Site /\ Len(h) <= MaxLabel
                      /\ h[1] # "-" /\ Last(h) # "-"
                      /\ \A i \in 1..Len(h) : ValidChar(h[i])
    BY DEF PublicHostnames, Lettered, Plain
  <2>1. h = publicHostnameLabel(n) /\ h # Site
    BY DEF publicHostnameForApp, isReservedPublicApp
  <2>2. PICK C : C = Chars \cup {"-"}
    OBVIOUS
  <2>3. n \in Seq(C) /\ HasDash(C)
    <3>1. n \in Seq(Chars)
      BY DEF Deployed
    <3>2. n \in Seq(C)
      BY <2>2, <3>1
    <3> QED BY <2>2, <3>2 DEF HasDash
  <2>4. /\ h \in Labels(C) /\ h # <<>> /\ Len(h) <= MaxLabel
        /\ h[1] # "-" /\ h[Len(h)] # "-"
    BY <2>1, <2>3, PublicLabel
  <2> QED BY <2>1, <2>4 DEF Labels, Last
<1> QED BY <1>1, <1>2, <1>3, PTL DEF Spec
=============================================================================
