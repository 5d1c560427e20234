CONSTANTS
  p1 = p1
  p2 = p2
  a1 = a1
  a2 = a2
  d1 = d1
  d2 = d2
  Main = Main
  None = None
  Apps = {a1}
  Procs = {p1}
  Databases = {d1}
  Operations = {"attach", "reattach", "detach", "release"}
  Deployed = {a1}
  MaxStamps = 4
  MaxFaults = 0
  MaxExpiries = 1
  MaxCrashes = 0
SPECIFICATION Spec
INVARIANTS
  FailedAttachUndone
