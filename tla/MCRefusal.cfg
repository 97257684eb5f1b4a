CONSTANTS
  Client = client
  Server = server
  Ids = {accept}
  ServerAccept = accept
  Bodies <- EmptyOrNot
  MaxSends <- ClientSendsTwo
SPECIFICATION FairSpec
PROPERTY RefusalNoticed
CHECK_DEADLOCK FALSE
