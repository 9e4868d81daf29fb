CONSTANTS
  p1 = p1
  q1 = q1
  d1 = d1
  d2 = d2
  NoSession = NoSession
  OtherProcess = OtherProcess
  Posts <- MCOnePost
  Plugins <- MCPlugins
  Deletes <- MCDeletes
  Ports <- MCOddPorts
  EphemeralPorts <- MCOddEphemeral
  ContestedPorts <- MCContested
SPECIFICATION FairSpec
INVARIANTS
  TypeOK
  ClosedSessionIsBeingRemoved
  NoOrphanedForwarding
  AnsweredPortIsServed
  LocalPortIsListener
  PluginSessionsAreTheirs
PROPERTIES
  ServiceImplemented
  StopCompletes
  ForwarderIsNotLeaked
  EstablishedOrRefused
