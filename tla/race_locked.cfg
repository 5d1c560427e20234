CONSTANTS
  p1 = p1
  p2 = p2
  a1 = a1
  a2 = a2
  e0 = e0
  e1 = e1
  Main = Main
  Keep = Keep
  None = None
  EmptyEnv = e0
  Apps = {a1}
  Procs = {p1, p2}
  Ports = {8081, 8082, 8083}
  Envs = {e0, e1}
  Operations = {"redeploy", "webhook", "rollback"}
  Deployed = {a1}
  MaxPrevious = 1
  MaxReleases = 4
  MaxFaults = 0
  MaxCrashes = 0
SPECIFICATION FairSpec
INVARIANTS
  MutexHeld
  OnlyVerifiedRouted
PROPERTIES
  NoDowntime
  RequestsEnd
