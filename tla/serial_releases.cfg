CONSTANTS
  p1 = p1
  p2 = p2
  a1 = a1
  a2 = a2
  e0 = e0
  e1 = e1
  Main = Main
  Keep = Keep
  None = None
  EmptyEnv = e0
  Apps = {a1}
  Procs = {p1}
  Ports = {8081, 8082, 8083}
  Envs = {e0, e1}
  Operations = {"redeploy", "rollback"}
  Deployed = {a1}
  MaxPrevious = 2
  MaxReleases = 6
  MaxFaults = 1
  MaxCrashes = 1
SPECIFICATION Spec
INVARIANTS
  RouteLive
  RecordLive
  RoutesFollowStore
  EnvironmentMatches
  HistoryRestorable
  HistoryBounded
  LeaksBounded
PROPERTIES
  NoDowntime
  FailureKeepsPrevious
