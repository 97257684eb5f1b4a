CONSTANTS
  Client = client
  Server = server
  Ids = {accept}
  ServerAccept = accept
  Bodies <- EmptyOrNot
  MaxSends <- ClientSendsTwo
SPECIFICATION ClientSpec
INVARIANT ArrivesIdentical
CHECK_DEADLOCK FALSE
