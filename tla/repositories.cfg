CONSTANTS
  None = None
  Names <- MCNames
  Contents <- MCContents
  Site <- MCSite
  MaxLabel = 2
  AskedPorts = {0, 8080}
  MaxDeployed = 1
SPECIFICATION Spec
INVARIANTS
  TypeOK
  Reproducible
  LockedInstalls
  PublicHostnames
