CONSTANTS
  None = None
  Names <- MCNames
  Contents <- MCContents
  Site <- MCSite
  MaxLabel = 2
  AskedPorts = {0, 8080}
  MaxDeployed = 2
SPECIFICATION Spec
INVARIANTS
  HostReachesApp
