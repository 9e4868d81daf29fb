CONSTANTS
  c1 = c1
  c2 = c2
  k1 = k1
  k2 = k2
  NoToken = NoToken
  NoCluster = NoCluster
  Clusters <- MCOneCluster
  Calls <- MCOneCall
  Modes <- MCEditing
  Life = 2
  Grant = 1
  Delay = 1
  MaxTime = 4
  MaxGrants = 2
SPECIFICATION Spec
CHECK_DEADLOCK FALSE
PROPERTY ValidTokenIsUsed
