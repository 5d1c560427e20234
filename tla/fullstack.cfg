CONSTANTS
  p1 = p1
  Main = Main
  None = None
  Procs = {p1}
  MaxPrevious = 2
  MaxReleases = 3
  MaxFaults = 2
  MaxCrashes = 1
SPECIFICATION Spec
INVARIANTS
  TypeOK
  StraysBounded
PROPERTIES
  OnlyUnused
  ImagesKept
  DeletionComplete
