------------------------------- MODULE Strategy -------------------------------
(***************************************************************************)
(* How MiniDeploy decides what a repository is and how it is built.  The   *)
(* first deployment asks four detectors in order; every later release asks *)
(* the persisted strategy of the record whether it can still build the     *)
(* repository.  All operators are pure.                                    *)
(*                                                                         *)
(* A file a repository controls is absent, usable, or bad: a symlink out   *)
(* of the checkout, a directory, or content that does not parse.           *)
(***************************************************************************)
EXTENDS Integers, FiniteSetsExt

File == {"absent", "ok", "bad"}

(***************************************************************************)
(* What the detectors read of a directory with a package.json.             *)
(*   script    scripts.build: bare vite, vite build, or anything else      *)
(*   vite      vite among the dependencies or devDependencies              *)
(*   config    vite.config.*                                               *)
(*   foreign   workspaces, or a dependency on another framework            *)
(*   typed     signs of TypeScript or Deno in scripts.start or in files    *)
(*   express   express among the runtime dependencies                      *)
(*   entry     scripts.start is node with a file of the checkout           *)
(*   npm       no other package manager is named and none has a lock file  *)
(*   lock      package-lock.json                                           *)
(*   migrates  a script reactorlab:migrate                                 *)
(***************************************************************************)
Package == [manifest : File, script : {"bare", "full", "other"},
            vite : BOOLEAN, config : File,
            foreign : BOOLEAN, typed : BOOLEAN, express : BOOLEAN,
            entry : BOOLEAN, npm : BOOLEAN,
            lock : File, migrates : BOOLEAN]

Services == {"frontend", "backend"}

\* dirs says which of frontend/ and backend/ exist: "bad" is a file of that
\* name or a symlink out of the checkout.
Repository == [dockerfile : File, root : Package,
               dirs : [Services -> File], pkg : [Services -> Package]]

-----------------------------------------------------------------------------
(***************************************************************************)
(* Plans.  dir "root" stands for the checkout itself.  appends says that   *)
(* the generated Dockerfile adds the word build to the command.            *)
(***************************************************************************)
defaultContainerPort     == 80
defaultNodeContainerPort == 3000

\* Mutant: the port is kept as it was asked for.
PortAsAsked(port) == port

normalizedContainerPort(port) == IF port = 0 THEN defaultContainerPort ELSE port

DockerBuild(port) ==
    [strategy |-> "dockerfile", mode |-> "none", port |-> normalizedContainerPort(port),
     appends |-> FALSE, migrates |-> FALSE]

viteStaticBuildPlan(k, mode) ==
    [strategy |-> "vite-static", mode |-> mode, port |-> defaultContainerPort,
     appends |-> k.script = "bare", migrates |-> FALSE]

nodeExpressBuildPlan(k, mode, port) ==
    [strategy |-> "node-express", mode |-> mode, port |-> port,
     appends |-> FALSE, migrates |-> k.migrates]

Single(build) == [strategy |-> build.strategy, parts |-> [d \in {"root"} |-> build]]
Pair(front, back) ==
    [strategy |-> "fullstack-vite-node",
     parts |-> [d \in Services |-> IF d = "frontend" THEN front ELSE back]]

npmInstallMode(k) == IF k.lock = "ok" THEN "ci" ELSE "install"

-----------------------------------------------------------------------------
(***************************************************************************)
(* The detectors.  Each fits, fails with an error that ends the detection, *)
(* or passes the repository on.                                            *)
(***************************************************************************)
\* The build command reaches Vite, and something says that it is Vite.
ViteShaped(k) ==
    /\ k.manifest = "ok" /\ k.config # "bad"
    /\ k.script # "other"
    /\ k.vite \/ k.config = "ok"

ViteFits(k)  == ViteShaped(k) /\ k.lock # "bad"
ViteFails(k) ==
    \/ k.manifest = "bad"
    \/ k.manifest = "ok" /\ k.config = "bad"
    \/ ViteShaped(k) /\ k.lock = "bad"

repositoryIsConventionalJavaScriptExpress(k) ==
    ~k.foreign /\ ~k.vite /\ k.config = "absent" /\ ~k.typed

NodeShaped(k) ==
    /\ k.manifest = "ok"
    /\ repositoryIsConventionalJavaScriptExpress(k)
    /\ k.express /\ k.entry /\ k.npm

NodeFits(k)  == NodeShaped(k) /\ k.lock # "bad"
NodeFails(k) ==
    \/ k.manifest = "bad"
    \/ k.manifest = "ok" /\ ~k.foreign /\ ~k.vite /\ k.config = "bad"
    \/ NodeShaped(k) /\ k.lock = "bad"

\* frontend/ is resolved and then backend/, the frontend is inspected and then
\* the backend; whatever comes first decides.
PairFits(r) ==
    /\ r.dirs["frontend"] = "ok" /\ r.dirs["backend"] = "ok"
    /\ ViteFits(r.pkg["frontend"]) /\ NodeFits(r.pkg["backend"])

PairFails(r) ==
    \/ r.dirs["frontend"] = "bad"
    \/ r.dirs["frontend"] = "ok" /\ r.dirs["backend"] = "bad"
    \/ /\ r.dirs["frontend"] = "ok" /\ r.dirs["backend"] = "ok"
       /\ \/ ViteFails(r.pkg["frontend"])
          \/ ViteFits(r.pkg["frontend"]) /\ NodeFails(r.pkg["backend"])

Fits(r)  == <<r.dockerfile = "ok",  PairFits(r),  ViteFits(r.root),  NodeFits(r.root)>>
Fails(r) == <<r.dockerfile = "bad", PairFails(r), ViteFails(r.root), NodeFails(r.root)>>

requestedNodePort(port) == IF port = 0 THEN defaultNodeContainerPort ELSE port

\* The plan of each detector, where it fits.
PlanOf(i, r, port) ==
    CASE i = 1 -> Single(DockerBuild(port))
      [] i = 2 -> Pair(viteStaticBuildPlan(r.pkg["frontend"], npmInstallMode(r.pkg["frontend"])),
                       nodeExpressBuildPlan(r.pkg["backend"], npmInstallMode(r.pkg["backend"]),
                                            requestedNodePort(port)))
      [] i = 3 -> Single(viteStaticBuildPlan(r.root, npmInstallMode(r.root)))
      [] i = 4 -> Single(nodeExpressBuildPlan(r.root, npmInstallMode(r.root),
                                              requestedNodePort(port)))

\* The one plan, or none: the deployment is refused.
detectDeploymentStrategy(r, port) ==
    LET hits == {i \in 1..4 : Fits(r)[i] \/ Fails(r)[i]} IN
    IF hits = {} \/ Fails(r)[Min(hits)] THEN {} ELSE {PlanOf(Min(hits), r, port)}

-----------------------------------------------------------------------------
(***************************************************************************)
(* The persisted strategy: what the record keeps of a plan, and the plan   *)
(* it makes of another checkout, if it accepts it.                         *)
(***************************************************************************)
Metadata(plan) ==
    [strategy |-> plan.strategy,
     parts |-> [d \in DOMAIN plan.parts |->
                  [strategy |-> plan.parts[d].strategy, mode |-> plan.parts[d].mode,
                   port |-> plan.parts[d].port]]]

\* Mutant: the lock file is not looked at again.
LockForgotten(meta, k) == TRUE

LockValid(meta, k) == meta.mode = "ci" => k.lock = "ok"

\* Mutant: the persisted Vite strategy asks for Vite among the dependencies.
VitePersistedStrict(meta, k) ==
    IF k.manifest = "ok" /\ k.script # "other" /\ k.vite /\ LockValid(meta, k)
    THEN {viteStaticBuildPlan(k, meta.mode)} ELSE {}

\* The signs of Vite are not asked for again, only what the build needs.
VitePersisted(meta, k) ==
    IF k.manifest = "ok" /\ k.script # "other" /\ LockValid(meta, k)
    THEN {viteStaticBuildPlan(k, meta.mode)} ELSE {}

NodePersisted(meta, k) ==
    IF NodeShaped(k) /\ LockValid(meta, k)
    THEN {nodeExpressBuildPlan(k, meta.mode, meta.port)} ELSE {}

persistedFullstackBuildPlan(meta, r) ==
    IF /\ r.dockerfile = "absent"
       /\ \A d \in Services : r.dirs[d] = "ok" /\ d \in DOMAIN meta.parts
    THEN {Pair(front, back) :
            front \in VitePersisted(meta.parts["frontend"], r.pkg["frontend"]),
            back  \in NodePersisted(meta.parts["backend"], r.pkg["backend"])}
    ELSE {}

deploymentStrategyForRecord(meta, r) ==
    CASE meta.strategy = "dockerfile" ->
           IF r.dockerfile = "ok" THEN {Single(DockerBuild(meta.parts["root"].port))} ELSE {}
      [] meta.strategy = "fullstack-vite-node" -> persistedFullstackBuildPlan(meta, r)
      [] meta.strategy = "vite-static" ->
           {Single(b) : b \in VitePersisted(meta.parts["root"], r.root)}
      [] meta.strategy = "node-express" ->
           {Single(b) : b \in NodePersisted(meta.parts["root"], r.root)}
=============================================================================
