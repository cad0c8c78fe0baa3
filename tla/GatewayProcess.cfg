\* Two processes that may overlap; three faults anywhere.
SPECIFICATION ProcessSpec
CONSTANTS
  Procs = {"p1", "p2"}
  Keys = {"k0", "k1", "k2", "k3"}
  Configs <- MCConfigs
  Files <- MCFiles
  RunAs = 1
  MaxFaults = 3
INVARIANTS
  RootOnlyOnRequest
  IdentityPinned
PROPERTY ComesBack
