CONSTANTS
  Client = client
  Server = server
  Ids = {accept}
  ServerAccept = accept
  Bodies <- EmptyOrNot
  MaxSends <- ClientSendsTwo
SPECIFICATION FairSpec
INVARIANTS
  ClientTypeOK
  HandlersHaveObjects
  WriteChain
  FramesAligned
PROPERTIES
  PeersHear
  CloseReachesServer
  LeaveReturns
  
\* Both ends may close; nothing has to follow.
CHECK_DEADLOCK FALSE
