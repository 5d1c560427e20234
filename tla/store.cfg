CONSTANTS
  a1 = a1
  a2 = a2
  c1 = c1
  c2 = c2
  l1 = l1
  l2 = l2
  None = None
  Missing = Missing
  Partial = Partial
  Apps = {a1}
  Clients = {c1, c2}
  Lives = {l1, l2}
  MaxFaults = 1
  MaxCrashes = 1
SPECIFICATION FairSpec
INVARIANTS
  TypeOK
  NoLostUpdate
PROPERTIES
  VisibilityKept
  Linearizable
  OperationsReturn
