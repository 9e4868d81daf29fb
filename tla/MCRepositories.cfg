CONSTANTS
  c1 = c1
  c2 = c2
  c3 = c3
  p1 = p1
  n1 = n1
  n2 = n2
  r1 = r1
  r2 = r2
  r3 = r3
  NoCluster = NoCluster
  NoProvider = NoProvider
  NoNamespace = NoNamespace
  Clusters <- MCThree
  Providers <- MCProviders
  ProviderOf <- MCOneProvider
  Namespaces <- MCNamespaces
  Resources <- MCResources
  NamespaceOf <- MCObjects
  Modes <- MCAll
  MaxPending = 2
SPECIFICATION Spec
CHECK_DEADLOCK FALSE
SYMMETRY MCSymmetry
INVARIANTS
  TypeOK
  ActiveIsConfigured
  LatestIsMemory
  BookmarksAreUnique
  BookmarkedClusterExists
  ProviderExists
PROPERTY BookmarkIsOpened
