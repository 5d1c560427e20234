CONSTANTS
  p1 = p1
  p2 = p2
  a1 = a1
  a2 = a2
  d1 = d1
  d2 = d2
  Main = Main
  None = None
  Apps = {a1, a2}
  Procs = {p1, p2}
  Databases = {d1}
  Operations = {"attach", "reattach", "admin", "detach", "release", "deploy"}
  Deployed = {a1}
  MaxStamps = 3
  MaxFaults = 0
  MaxExpiries = 1
  MaxCrashes = 0
SPECIFICATION FairSpec
PROPERTIES
  DetachReleasesLast
  RequestsEnd
