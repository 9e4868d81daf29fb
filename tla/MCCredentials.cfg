CONSTANTS
  c1 = c1
  c2 = c2
  k1 = k1
  k2 = k2
  NoToken = NoToken
  NoCluster = NoCluster
  Clusters <- MCClusters
  Calls <- MCCalls
  Modes <- MCModes
  Life = 2
  Grant = 1
  Delay = 1
  MaxTime = 4
  MaxGrants = 3
SPECIFICATION Spec
CHECK_DEADLOCK FALSE
SYMMETRY MCSymmetry
INVARIANTS
  TypeOK
  LoginIsKept
PROPERTY RefreshKeepsTokenValid
