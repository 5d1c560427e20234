CONSTANTS
  p1 = p1
  p2 = p2
  a1 = a1
  a2 = a2
  d1 = d1
  d2 = d2
  Main = Main
  None = None
  Apps = {a1}
  Procs = {p1}
  Databases = {d1}
  Operations = {"attach", "reattach", "admin", "detach", "release", "deploy", "delete"}
  Deployed = {a1}
  MaxStamps = 5
  MaxFaults = 2
  MaxExpiries = 1
  MaxCrashes = 1
SPECIFICATION Spec
INVARIANTS
  TypeOK
  LocksHeld
  AttachmentsAccounted
  NoDanglingUse
  ContainerBound
  DetachComplete
PROPERTIES
  DeletionDetaches
