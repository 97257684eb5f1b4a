CONSTANTS
  Clients = {c1, c2}
  Null = Null
  MaxErrors = 1
  MaxCalls = 2
SPECIFICATION FairSpec
INVARIANTS
  InterfaceTypeOK
  
  GreetedFirst
  ListedInOrder
  SearchFinds
PROPERTIES
  ListedTillSwept
  SweepRemoves
  EveryoneAccepted
  StopReturns
\* The server may stop, and clients need not connect.
CHECK_DEADLOCK FALSE
