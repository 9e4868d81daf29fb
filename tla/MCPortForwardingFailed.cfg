CONSTANTS
  p1 = p1
  q1 = q1
  d1 = d1
  d2 = d2
  NoSession = NoSession
  OtherProcess = OtherProcess
  Posts <- MCOnePost
  Plugins <- MCNone
  Deletes <- MCOneDelete
  Ports <- MCOnePort
  EphemeralPorts <- MCOnePort
  ContestedPorts <- MCOnePort
SPECIFICATION FairSpec
PROPERTY FailedSessionIsDeleted
